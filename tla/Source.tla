------------------------------- MODULE Source -------------------------------
(***************************************************************************)
(* source.Fetch (pkg/source): find the backup, open it, undo its layers    *)
(* and leave a local artifact, while backup jobs keep writing to and       *)
(* pruning the place it comes from.                                        *)
(*                                                                         *)
(* A store maps keys to object versions.  Keys are numbers in the order in *)
(* which a listing returns them.  Writers replace an object as a whole     *)
(* (PutObject, rename) and stamp it with the current time.  Of a byte      *)
(* stream only its length is kept, and whether it ends in an error.        *)
(***************************************************************************)
EXTENDS Integers, FiniteSets, FiniteSetsExt

CONSTANTS
    Keys,           \* names under the bucket prefix or in the directory
    Directories,    \* those of them that are directories, or end in "/"
    Matching,       \* those whose base name satisfies from.match
    Objects,        \* what may be stored: stored and opened length, layers
    Froms,          \* the source configurations (spec.From) a drill may have
    maxListKeys,
    Factor,         \* 100: expansion granted by maxBytes alone
    IntMax,         \* largest int64
    HasLastModified,\* the S3 store sends the Last-Modified header
    MaxTime,        \* bound on the clock
    MaxWrites       \* bound on what the backup jobs do

Layers == {"", "age", "gpg"}

ASSUME SourceAssumption ==
    /\ Keys \subseteq Nat /\ IsFiniteSet(Keys)
    /\ Directories \subseteq Keys /\ Matching \subseteq Keys
    /\ Objects \subseteq [stored : Nat, plain : Nat, enc : Layers, comp : BOOLEAN]
    /\ Froms \subseteq [type : {"file", "s3"}, uri : Keys, select : BOOLEAN, maxBytes : Int,
                        maxUncompressed : Int, decrypt : Layers]
    /\ maxListKeys \in Nat /\ Factor \in Nat /\ IntMax \in Nat
    /\ HasLastModified \in BOOLEAN
    /\ MaxTime \in Nat /\ MaxWrites \in Nat

NoObject == [mod |-> -1]
Versions == [stored : Nat, plain : Nat, enc : Layers, comp : BOOLEAN, mod : Nat]
VersionOf(obj, t) ==
    [stored |-> obj.stored, plain |-> obj.plain, enc |-> obj.enc, comp |-> obj.comp, mod |-> t]

VARIABLES
    now,        \* time.Now()
    store,      \* what is stored under each key
    writes,     \* how often backup jobs have written or pruned
    from,       \* the configuration being fetched (never changes)
    pc,         \* where Fetch is
    todo,       \* listing: the names still to be looked at
    seen,       \* listing: objects counted (S3)
    newest,     \* listing: the best so far
    untouched,  \* history: names no job has touched since the listing began
    key,        \* the object that is fetched
    fi,         \* os.Stat of it: size and modification time
    opened,     \* the version that is being read
    enc, comp,  \* the layers found
    body,       \* the reader's fate: "whole", or "broken" before its end
    tmp,        \* length of the temp file, -1 if there is none
    backup      \* the Backup returned

listVars == <<todo, seen, newest, untouched>>
openVars == <<key, fi, opened>>
readVars == <<enc, comp, body>>
sourceVars == <<now, store, writes, from, pc, listVars, openVars, readVars, tmp, backup>>

NoBackup == [path |-> "none", cleanup |-> "none", modTime |-> 0, size |-> 0]
Backups == [path : {"none", "source", "tmp"}, cleanup : {"none", "source", "tmp"},
            modTime : Nat, size : Nat]
NoKey == [key |-> -1, mod |-> -1]

SourceTypeOK ==
    /\ now \in Nat /\ writes \in Nat
    /\ store \in [Keys -> Versions \cup {NoObject}]
    /\ from \in Froms
    /\ pc \in {"start", "list", "open", "read", "decrypt", "decompress", "layers", "spool",
               "copy", "failed", "ok", "cleaned"}
    /\ todo \subseteq Keys /\ seen \in Nat
    /\ newest \in [key : Keys, mod : Nat] \cup {NoKey}
    /\ untouched \subseteq Keys
    /\ key \in Keys
    /\ fi \in [mod : Nat, size : Nat]
    /\ opened \in Versions \cup {NoObject}
    /\ enc \in Layers /\ comp \in BOOLEAN /\ body \in {"whole", "broken"}
    /\ tmp \in Nat \cup {-1}
    /\ backup \in Backups

VersionsAt(t) == {VersionOf(obj, t) : obj \in Objects}

\* Backups of two ages are there.
SourceInit ==
    /\ now = 1
    /\ store \in [Keys -> VersionsAt(0) \cup VersionsAt(1) \cup {NoObject}]
    /\ \A k \in Directories : store[k] # NoObject => store[k].stored = 0
    /\ writes = 0
    /\ from \in Froms
    /\ pc = "start"
    /\ todo = {} /\ seen = 0 /\ newest = NoKey /\ untouched = {}
    /\ key = from.uri
    /\ fi = [mod |-> 0, size |-> 0]
    /\ opened = NoObject
    /\ enc = "" /\ comp = FALSE /\ body = "whole"
    /\ tmp = -1
    /\ backup = NoBackup

Exists(k) == store[k] # NoObject

\* "return nil, err".
Fail ==
    /\ pc' = "failed"
    /\ UNCHANGED <<listVars, openVars, readVars, backup>>

-----------------------------------------------------------------------------
(* Discovery: latestFile and latestObject.                                 *)

\* os.ReadDir takes the names at once; the S3 listing goes on from key to key
\* and meets what is there by then.
StartListing ==
    /\ pc = "start"
    /\ from.select
    /\ \/ /\ pc' = "list"
          /\ todo' = IF from.type = "file" THEN {k \in Keys : Exists(k)} ELSE Keys
          /\ untouched' = Keys
          /\ UNCHANGED <<seen, newest, openVars, readVars, backup>>
       \/ Fail
    /\ UNCHANGED <<store, tmp>>

\* Directories, empty objects and names that do not match are passed over.
Candidate(k) == k \notin Directories /\ k \in Matching /\ Exists(k) /\ store[k].stored > 0

\* ModTime().After(newest): of two objects of one age the first stays.
LookAt(k) ==
    newest' = IF Candidate(k) /\ store[k].mod > newest.mod
              THEN [key |-> k, mod |-> store[k].mod]
              ELSE newest

\* Mutant: a listing that grows too long is cut short instead of refused.
ListNextTruncating ==
    /\ pc = "list"
    /\ todo # {}
    /\ LET k == Min(todo) IN
         IF from.type = "s3" /\ Exists(k) /\ seen = maxListKeys
         THEN todo' = {} /\ UNCHANGED <<newest, seen>>
         ELSE /\ LookAt(k)
              /\ todo' = todo \ {k}
              /\ seen' = IF from.type = "s3" /\ Exists(k) THEN seen + 1 ELSE seen
    /\ UNCHANGED <<pc, untouched, openVars, readVars, backup, store, tmp>>

\* The next name: an entry of the directory, which may have vanished since, or
\* of a page of the listing, which may fail.  Too many keys are refused.
ListNext ==
    /\ pc = "list"
    /\ todo # {}
    /\ LET k == Min(todo) IN
         \/ /\ from.type = "s3" /\ Exists(k) => seen < maxListKeys
            /\ LookAt(k)
            /\ todo' = todo \ {k}
            /\ seen' = IF from.type = "s3" /\ Exists(k) THEN seen + 1 ELSE seen
            /\ UNCHANGED <<pc, untouched, openVars, readVars, backup>>
         \/ from.type = "s3" /\ Fail
    /\ UNCHANGED <<store, tmp>>

\* Mutant: an empty selection is not refused.
ListDoneAnyway ==
    /\ pc = "list"
    /\ todo = {}
    /\ key' = newest.key
    /\ pc' = "open"
    /\ UNCHANGED <<listVars, fi, opened, readVars, backup, store, tmp>>

\* No candidate at all is an error, noMatchErr.
ListDone ==
    /\ pc = "list"
    /\ todo = {}
    /\ \/ newest = NoKey /\ Fail
       \/ /\ newest # NoKey
          /\ key' = newest.key
          /\ pc' = "open"
          /\ UNCHANGED <<listVars, fi, opened, readVars, backup>>
    /\ UNCHANGED <<store, tmp>>

\* Without discovery the URI names the object.
NoListing ==
    /\ pc = "start"
    /\ ~from.select
    /\ pc' = "open"
    /\ UNCHANGED <<listVars, openVars, readVars, backup, store, tmp>>

-----------------------------------------------------------------------------
(* Opening.                                                                *)

TooLarge(size) == from.maxBytes > 0 /\ size > from.maxBytes

\* os.Stat: what it says of the file is what the Backup will claim.
StatFile ==
    /\ pc = "open" /\ from.type = "file"
    /\ \/ /\ Exists(key) /\ key \notin Directories
          /\ ~TooLarge(store[key].stored)
          /\ fi' = [mod |-> store[key].mod, size |-> store[key].stored]
          /\ pc' = "read"
          /\ UNCHANGED <<listVars, key, opened, readVars, backup>>
       \/ Fail
    /\ UNCHANGED <<store, tmp>>

\* os.Open, after the Stat: the file may be another one by now.
OpenFile ==
    /\ pc = "read"
    /\ \/ /\ Exists(key)
          /\ opened' = store[key]
          /\ body' \in {"whole", "broken"}
          /\ pc' = "decrypt"
          /\ UNCHANGED <<listVars, key, fi, enc, comp, backup>>
       \/ Fail
    /\ UNCHANGED <<store, tmp>>

\* Mutant: the transfer is bounded by the announced length only.
GetObjectUncapped ==
    /\ pc = "open" /\ from.type = "s3"
    /\ \/ /\ Exists(key)
          /\ opened' = store[key]
          /\ body' \in {"whole", "broken"}
          /\ pc' = "decrypt"
          /\ UNCHANGED <<listVars, key, fi, enc, comp, backup>>
       \/ Fail
    /\ UNCHANGED <<store, tmp>>

\* GetObject answers with one version's length, date and body.  A length over
\* the cap is refused if it was announced; if not, capReader breaks the stream
\* where it crosses the cap.  The connection may break at any point.
GetObject ==
    /\ pc = "open" /\ from.type = "s3"
    /\ \/ /\ Exists(key)
          /\ opened' = store[key]
          /\ body' \in {"whole", "broken"}
          /\ TooLarge(store[key].stored) => body' = "broken"
          /\ pc' = "decrypt"
          /\ UNCHANGED <<listVars, key, fi, enc, comp, backup>>
       \/ Fail
    /\ UNCHANGED <<store, tmp>>

-----------------------------------------------------------------------------
(* Layers.                                                                 *)

\* Mutant: gpg's exit status is not looked at, so its output just ends early.
DecryptedExitIgnored(b) ==
    \/ from.decrypt = "" /\ (opened.enc = "" \/ body = "broken") /\ b = body
    \/ from.decrypt = "age" /\ opened.enc = "age" /\ (body = "broken" => b = "broken")
    \/ from.decrypt = "gpg" /\ b = "whole"

\* What the reader decrypt returns comes to.  Without a decrypt block the bytes
\* pass as they are, age refuses a wrong header up front, gpg is a process
\* whose failure the reader learns of at the end of its output.
Decrypted(b) ==
    \/ from.decrypt = "" /\ (opened.enc = "" \/ body = "broken") /\ b = body
    \/ from.decrypt = "age" /\ opened.enc = "age" /\ (body = "broken" => b = "broken")
    \/ from.decrypt = "gpg" /\ (body = "broken" \/ opened.enc # "gpg" => b = "broken")

\* An encrypted artifact without a decrypt block, a missing key, a missing gpg
\* and bytes that cannot be read end here.
Decrypt ==
    /\ pc = "decrypt"
    /\ \/ /\ body' \in {"whole", "broken"} /\ Decrypted(body')
          /\ enc' = from.decrypt
          /\ pc' = "decompress"
          /\ UNCHANGED <<listVars, openVars, comp, backup>>
       \/ Fail
    /\ UNCHANGED <<store, tmp>>

\* The magic bytes decide; a decoder that cannot start ends the fetch, one that
\* meets damage later breaks the stream.  Of a stream that is broken anyway any
\* leading bytes may have been seen.
Decompress ==
    /\ pc = "decompress"
    /\ \/ /\ comp' \in BOOLEAN
          /\ body' \in {"whole", "broken"}
          /\ body = "broken" => body' = "broken"
          /\ body = "whole" => comp' = opened.comp
          /\ body' # body => comp'
          /\ pc' = "layers"
          /\ UNCHANGED <<listVars, openVars, enc, backup>>
       \/ Fail
    /\ UNCHANGED <<store, tmp>>

\* A plain local file is handed out in place: no copy, nothing to clean up.
ReturnInPlace ==
    /\ pc = "layers"
    /\ from.type = "file" /\ ~comp /\ enc = ""
    /\ backup' = [path |-> "source", cleanup |-> "none", modTime |-> fi.mod, size |-> fi.size]
    /\ pc' = "ok"
    /\ UNCHANGED <<listVars, openVars, readVars, store, tmp>>

-----------------------------------------------------------------------------
(* The spooled copy.                                                       *)

\* int64 arithmetic.
Wrap(x) == ((x + IntMax + 1) % (2 * (IntMax + 1))) - (IntMax + 1)

uncompressedLimit ==
    CASE from.maxUncompressed > 0 -> from.maxUncompressed
      [] from.maxUncompressed <= 0 /\ from.maxBytes > 0 -> Wrap(from.maxBytes * Factor)
      [] OTHER -> 0

\* What io.Copy gets from a stream [n, err] through a LimitReader of N bytes: an
\* error behind the limit is never seen.
LimitReader(s, N) ==
    CASE N <= 0 -> [n |-> 0, err |-> FALSE]
      [] N > 0 /\ s.n >= N -> [n |-> N, err |-> FALSE]
      [] OTHER -> s

\* One byte more than the limit, so that "at" and "over" can be told apart.
copyLimited(s, limit) ==
    IF limit <= 0 THEN s
    ELSE LET c == LimitReader(s, Wrap(limit + 1)) IN
         [n |-> c.n, err |-> c.err \/ c.n > limit]

\* How the artifact's opened stream may turn out.
Streams ==
    IF body = "whole" THEN {[n |-> opened.plain, err |-> FALSE]}
    ELSE {[n |-> m, err |-> TRUE] : m \in 0..opened.plain}

\* os.CreateTemp.
SpoolCreate ==
    /\ pc = "layers"
    /\ from.type = "s3" \/ comp \/ enc # ""
    /\ \/ /\ tmp' = 0
          /\ pc' = "copy"
          /\ UNCHANGED <<listVars, openVars, readVars, backup>>
       \/ Fail /\ UNCHANGED tmp
    /\ UNCHANGED store

\* Mutant: a copy is dated like any new file.
modTimeOfCopy == now

\* RPO measures when the backup was taken, not when it was unpacked.  Without a
\* date from the store the backup counts as made now.
modTime ==
    CASE from.type = "file" -> fi.mod
      [] from.type = "s3" /\ HasLastModified -> opened.mod
      [] OTHER -> now

\* The copy runs until the stream ends, fails or hits the limit, or the disk is
\* full; the bytes are on disk whatever it returns.
SpoolCopy ==
    /\ pc = "copy"
    /\ \E s \in Streams :
         LET c == copyLimited(s, uncompressedLimit) IN
           \/ /\ ~c.err
              /\ tmp' = c.n
              /\ backup' = [path |-> "tmp", cleanup |-> "tmp", modTime |-> modTime,
                            size |-> IF from.type = "file" THEN fi.size ELSE opened.stored]
              /\ pc' = "ok"
              /\ UNCHANGED <<listVars, openVars, readVars>>
           \/ /\ tmp' = c.n
              /\ pc' = "spool"
              /\ UNCHANGED <<listVars, openVars, readVars, backup>>
    /\ UNCHANGED store

\* Mutant: a copy that failed is left where it is.
SpoolFailedKept ==
    /\ pc = "spool"
    /\ Fail
    /\ UNCHANGED <<tmp, store>>

\* The copy or the Close failed: the file is removed before spool returns.
SpoolFailed ==
    /\ pc = "spool"
    /\ Fail
    /\ tmp' = -1
    /\ UNCHANGED store

-----------------------------------------------------------------------------

\* os.Remove of the temp file, or of the source itself.  Its error is dropped by
\* the code; removing a file the process has just made is taken to succeed.
Remove(path) ==
    /\ tmp' = IF path = "tmp" THEN -1 ELSE tmp
    /\ store' = IF path = "source" THEN [store EXCEPT ![key] = NoObject] ELSE store

\* Mutant: Cleanup removes whatever the Backup points to.
CleanupPath ==
    /\ pc = "ok"
    /\ Remove(backup.path)
    /\ pc' = "cleaned"
    /\ UNCHANGED <<listVars, openVars, readVars, backup>>

\* Backup.Cleanup, once the driver is done with the artifact.
Cleanup ==
    /\ pc = "ok"
    /\ Remove(backup.cleanup)
    /\ pc' = "cleaned"
    /\ UNCHANGED <<listVars, openVars, readVars, backup>>

fetchFile == StatFile \/ OpenFile \/ ReturnInPlace

\* One step of Fetch.
FetchStep ==
    /\ \/ StartListing \/ ListNext \/ ListDone \/ NoListing
       \/ fetchFile \/ GetObject
       \/ Decrypt \/ Decompress
       \/ SpoolCreate \/ SpoolCopy \/ SpoolFailed
    /\ UNCHANGED <<now, writes, from>>

\* A backup job stores an object under a name, or prunes it.
BackupJob ==
    /\ writes < MaxWrites
    /\ writes' = writes + 1
    /\ \E k \in Keys \ Directories :
         /\ untouched' = untouched \ {k}
         /\ \/ \E obj \in Objects : store' = [store EXCEPT ![k] = VersionOf(obj, now)]
            \/ Exists(k) /\ store' = [store EXCEPT ![k] = NoObject]
    /\ UNCHANGED <<now, from, pc, todo, seen, newest, openVars, readVars, tmp, backup>>

Tick ==
    /\ now < MaxTime
    /\ now' = now + 1
    /\ UNCHANGED <<store, writes, from, pc, listVars, openVars, readVars, tmp, backup>>
=============================================================================
