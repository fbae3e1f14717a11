---------------------------- MODULE FetchRestore ----------------------------
(***************************************************************************)
(* The way of a backup from where it is stored into the engine: Fetch      *)
(* (Source), the driver's Restore of what Fetch returned (EngineRestore)   *)
(* and Backup.Cleanup, while backup jobs go on in the store and the        *)
(* drill's context may end at any moment.                                  *)
(***************************************************************************)
EXTENDS Source, EngineRestore

CONSTANT FormatOf       \* the driver and format that go with a source

ASSUME FormatAssumption == FormatOf \in [Froms -> Formats]

VARIABLE ctxDone        \* the drill's context is done

vars == <<sourceVars, restoreVars, ctxDone>>

TypeOK ==
    /\ SourceTypeOK
    /\ RestoreTypeOK
    /\ ctxDone \in BOOLEAN

Init ==
    /\ SourceInit
    /\ RestoreInit
    /\ format = FormatOf[from]
    /\ ctxDone = FALSE

\* What the Backup's path holds: the copy, or the source file as it is now.
Content == IF backup.path = "tmp" THEN opened ELSE store[key]

Fetch ==
    /\ FetchStep
    /\ UNCHANGED <<restoreVars, ctxDone>>

Restore ==
    /\ pc = "ok"
    /\ RestoreStep(now, ctxDone, Content)
    /\ UNCHANGED <<sourceVars, ctxDone>>

\* Deferred in Run: after the restore.
CleanupBackup ==
    /\ rpc = "done"
    /\ Cleanup
    /\ UNCHANGED <<now, writes, from, restoreVars, ctxDone>>

Environment ==
    \/ BackupJob /\ UNCHANGED <<restoreVars, ctxDone>>
    \/ Tick /\ UNCHANGED <<restoreVars, ctxDone>>
    \/ pc = "ok" /\ ClusterMoves /\ UNCHANGED <<sourceVars, ctxDone>>
    \/ pc = "ok" /\ ~ctxDone /\ ctxDone' = TRUE /\ UNCHANGED <<sourceVars, restoreVars>>

Next == Fetch \/ Restore \/ CleanupBackup \/ Environment

Spec == Init /\ [][Next]_vars

-----------------------------------------------------------------------------
(* What a fetch promises.                                                  *)

\* A copy that Fetch returns is the whole artifact: no error of the transfer,
\* of gpg, of a decoder, and no limit, can pass for the end of a shorter
\* backup, and no ciphertext for a plaintext ("a decryption that fails midway
\* must not look like a short but valid backup").
CopyIsWhole ==
    pc = "ok" /\ backup.path = "tmp" => tmp = opened.plain /\ enc = opened.enc

\* The limit on the copy that the spec's documentation promises.
PlainCap ==
    IF from.maxUncompressed > 0 THEN from.maxUncompressed ELSE from.maxBytes * Factor

\* The disk guards: the temp file never outgrows the limit by more than the
\* one byte that shows it was crossed; what is returned is within the limit,
\* and an object of a store is within the cap on the transfer as well.  (A local
\* file's length is compared once, at Stat; one that is replaced before Open is
\* not measured again.)
CapsHold ==
    /\ PlainCap > 0 => tmp <= PlainCap + 1
    /\ pc = "ok" /\ backup.path = "tmp" =>
         /\ PlainCap > 0 => tmp <= PlainCap
         /\ from.type = "s3" => ~TooLarge(opened.stored)

\* Whatever step an error comes from, no plaintext of the backup is left on
\* disk once Fetch has returned it, nor after Cleanup.
NoPlaintextLeft == pc \in {"failed", "cleaned"} => tmp = -1

\* "newest wins", with jobs writing meanwhile: what Fetch returns is at least as
\* new as every eligible backup that has been there since the listing began.
LatestWins ==
    pc = "ok" /\ from.select =>
        \A k \in untouched : Candidate(k) => store[k].mod <= backup.modTime

\* The freshness verdict rests on ModTime: what the driver reads is never older
\* than the record will say.  A file that is replaced after Stat makes the claim
\* too old, not too new.
ClaimNotNewer == input # NoInput => backup.modTime <= input.mod

\* "Sources are read-only by design": neither a fetch, nor a restore, nor the
\* cleanup changes what is stored.
SourceUntouched == [][Fetch \/ Restore \/ CleanupBackup => UNCHANGED store]_vars

-----------------------------------------------------------------------------
(* What a restore promises.                                                *)

\* A physical restore that succeeded means a server that is up over the restored
\* directory, although it was started in the background by a command whose exit
\* code is echo's.
RestoredMeansServing ==
    rpc = "done" /\ ~res.err /\ format = "basebackup" => cluster = "up"

\* Recovery takes its time: the FATAL lines that polling a recovering server
\* provokes never end a physical restore, neither when they are read nor after
\* the server has come up.  Only a server that gave up or that refuses the poll's
\* login does.
RecoveryIsNotFailure == res.step = "startup" => cluster \in {"dead", "refusing"}

\* "a failed restore must produce `verified: false` - never a false PASS"
\* (CONTRIBUTING.md): a restore that succeeded has put the whole artifact into
\* the engine, also if reading the artifact failed midway.
RestoredMeansLoaded == rpc = "done" /\ ~res.err => loaded = "all"

\* fatalStartupLine "returns the first log line that indicates the restored
\* cluster is genuinely broken" (postgres.go): a physical restore is called a
\* failed startup only if the server gave up.
StartupFailureIsReal == res.step = "startup" => cluster = "dead"
=============================================================================
