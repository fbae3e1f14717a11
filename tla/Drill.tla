------------------------------- MODULE Drill -------------------------------
(***************************************************************************)
(* drill.Run: fetch the backup, have a provider build the sandbox, restore *)
(* into it, verify, tear it down, write the evidence, sign it, notify.     *)
(* This module holds the orchestrating goroutine only.  What it needs from *)
(* the sandbox provider enters as operator arguments:                      *)
(*   up         the engine in the sandbox can be reached                   *)
(*   torndown   the provider's Destroy has returned                        *)
(*   destroyed  what WasDestroyed() then reports                           *)
(* A module that composes it with a provider supplies them.                *)
(***************************************************************************)
EXTENDS Process, Verdict

CONSTANTS
    Drills,     \* the drill specs (spec.Spec) a run may be given
    Ages,       \* ages a fetched backup may have
    Allowance   \* what Run grants on top of the TTL for fetch and provisioning

ASSUME DrillAssumption ==
    /\ Allowance \in Nat
    /\ Ages \subseteq Nat
    /\ Drills \subseteq [verify : Seq(Checks), spooled : BOOLEAN, coldStart : BOOLEAN,
                    sign : BOOLEAN, html : BOOLEAN]

VARIABLES
    d,            \* the spec being run (never changes)
    pc,           \* where the orchestrating goroutine is
    deadline,     \* deadline of the context it currently uses
    spool,        \* a fetched (decrypted, decompressed) copy is on disk
    backupAge,
    restoreStart,
    restoreErr,
    restoreDur,
    checks,       \* e.Checks
    claim,        \* e.Sandbox.Destroyed in memory
    evidence,     \* what is on disk: the record, its .sig, its .att
    recorded,     \* "sandbox.destroyed" as the record on disk states it
    verified,     \* "verified" as the record on disk states it
    delivered,    \* a slack or webhook sink accepted the outcome
    result        \* what Run returned

drillVars == <<d, pc, deadline, spool, backupAge, restoreStart, restoreErr, restoreDur,
               checks, claim, evidence, recorded, verified, delivered, result>>

PCs == {"fetch", "provision", "restore", "engine", "verify", "teardown", "write",
        "sign", "attest", "html", "sinks", "unwind", "cleanup", "returned"}

DrillTypeOK ==
    /\ d \in Drills
    /\ pc \in PCs
    /\ deadline \in Nat
    /\ spool \in BOOLEAN
    /\ backupAge \in Nat
    /\ restoreStart \in Nat
    /\ restoreErr \in BOOLEAN
    /\ restoreDur \in Int
    /\ checks \in Seq(Results)
    /\ claim \in BOOLEAN
    /\ evidence \in {"none", "written", "signed", "attested"}
    /\ recorded \in BOOLEAN
    /\ verified \in BOOLEAN
    /\ delivered \in BOOLEAN
    /\ result \in {"running", "ok", "error"}

\* Run's outer context: TTL plus the allowance, from the moment Run starts.
DrillInit ==
    /\ d \in Drills
    /\ pc = "fetch"
    /\ deadline = clock + TTL + Allowance
    /\ spool = FALSE
    /\ backupAge = 0
    /\ restoreStart = 0
    /\ restoreErr = FALSE
    /\ restoreDur = 0
    /\ checks = <<>>
    /\ claim = FALSE
    /\ evidence = "none"
    /\ recorded = FALSE
    /\ verified = FALSE
    /\ delivered = FALSE
    /\ result = "running"

CtxDone == cancelled \/ clock >= deadline

\* "return ..., err": the deferred functions still run, from where on.
Fail(where) ==
    /\ result' = "error"
    /\ pc' = where

\* 1. drivers.Get and source.Fetch.  Nothing is deferred yet when they fail.
Fetch ==
    /\ pc = "fetch"
    /\ \/ /\ ~CtxDone
          /\ backupAge' \in Ages
          /\ spool' = d.spooled
          /\ pc' = "provision"
          /\ UNCHANGED result
       \/ /\ Fail("returned")
          /\ UNCHANGED <<backupAge, spool>>
    /\ UNCHANGED <<d, deadline, restoreStart, restoreErr, restoreDur, checks, claim,
                   evidence, recorded, verified, delivered>>

\* Mutant: the narrowed deadline is computed with the wrong sign.
ProvisionedWrongSign ==
    /\ pc = "provision"
    /\ pc' = "restore"
    /\ deadline' = clock - TTL
    /\ restoreStart' = clock
    /\ UNCHANGED <<d, spool, backupAge, restoreErr, restoreDur, checks, claim, evidence,
                   recorded, verified, delivered, result>>

\* 2. Provision returned a sandbox: teardown is deferred and the context is
\* narrowed to the TTL.
Provisioned ==
    /\ pc = "provision"
    /\ pc' = "restore"
    /\ deadline' = IF clock + TTL < deadline THEN clock + TTL ELSE deadline
    /\ restoreStart' = clock
    /\ UNCHANGED <<d, spool, backupAge, restoreErr, restoreDur, checks, claim, evidence,
                   recorded, verified, delivered, result>>

\* Provision returned an error: only backup.Cleanup is deferred.
ProvisionFailed ==
    /\ pc = "provision"
    /\ Fail("cleanup")
    /\ UNCHANGED <<d, deadline, spool, backupAge, restoreStart, restoreErr, restoreDur, checks,
                   claim, evidence, recorded, verified, delivered>>

\* 3. driver.Restore, timed.  A restore error is a drill result; a driver that
\* could not even run its tool returns no measurement with it.
Restore(up) ==
    /\ pc = "restore"
    /\ \/ up /\ ~CtxDone /\ restoreErr' = FALSE /\ restoreDur' = clock - restoreStart
       \/ restoreErr' = TRUE /\ restoreDur' \in {0, clock - restoreStart}
    /\ restoreStart' = 0
    /\ pc' = "engine"
    /\ UNCHANGED <<d, deadline, spool, backupAge, checks, claim, evidence,
                   recorded, verified, delivered, result>>

\* Mutant: a failed sql.Open returns past the deferred teardown.
OpenEngineNoTeardown ==
    /\ pc = "engine"
    /\ \/ pc' = "verify" /\ UNCHANGED result
       \/ ~restoreErr /\ Fail("cleanup")
    /\ UNCHANGED <<d, deadline, spool, backupAge, restoreStart, restoreErr, restoreDur, checks,
                   claim, evidence, recorded, verified, delivered>>

\* 4. Engine selection; sql.Open may fail, which is an execution error.
OpenEngine ==
    /\ pc = "engine"
    /\ \/ pc' = "verify" /\ UNCHANGED result
       \/ ~restoreErr /\ Fail("unwind")
    /\ UNCHANGED <<d, deadline, spool, backupAge, restoreStart, restoreErr, restoreDur, checks,
                   claim, evidence, recorded, verified, delivered>>

\* Mutant: a check whose query fails is tried again until the engine answers.
VerifyRetrying(up) ==
    /\ pc = "verify"
    /\ Len(checks) < Len(d.verify)
    /\ LET c == d.verify[Len(checks) + 1] IN
         \E answer \in AnswersTo(c, restoreErr, up) :
            /\ up
            /\ checks' = Append(checks, runOne(c, restoreErr, backupAge, answer))
    /\ UNCHANGED <<d, pc, deadline, spool, backupAge, restoreStart, restoreErr, restoreDur, claim,
                   evidence, recorded, verified, delivered, result>>

\* The next configured check runs against whatever is left of the sandbox.
Verify(up) ==
    /\ pc = "verify"
    /\ Len(checks) < Len(d.verify)
    /\ LET c == d.verify[Len(checks) + 1] IN
         \E answer \in AnswersTo(c, restoreErr, up /\ ~CtxDone) :
            checks' = Append(checks, runOne(c, restoreErr, backupAge, answer))
    /\ UNCHANGED <<d, pc, deadline, spool, backupAge, restoreStart, restoreErr, restoreDur, claim,
                   evidence, recorded, verified, delivered, result>>

\* Mutant: the evidence is written first and the sandbox torn down after it.
VerifyDoneNoTeardown ==
    /\ pc = "verify"
    /\ Len(checks) >= Len(d.verify)
    /\ pc' = "write"
    /\ UNCHANGED <<d, deadline, spool, backupAge, restoreStart, restoreErr, restoreDur, checks,
                   claim, evidence, recorded, verified, delivered, result>>

\* Every check has its result: Run tears the sandbox down before it finalizes.
VerifyDone ==
    /\ pc = "verify"
    /\ Len(checks) >= Len(d.verify)
    /\ pc' = "teardown"
    /\ UNCHANGED <<d, deadline, spool, backupAge, restoreStart, restoreErr, restoreDur, checks,
                   claim, evidence, recorded, verified, delivered, result>>

\* The explicit teardown before the evidence is written, and the deferred one
\* that every return past Provision goes through.  Both wait for Destroy.
Teardown(torndown, destroyed) ==
    /\ pc \in {"teardown", "unwind"}
    /\ torndown
    /\ claim' = destroyed
    /\ pc' = IF pc = "teardown" THEN "write" ELSE "cleanup"
    /\ UNCHANGED <<d, deadline, spool, backupAge, restoreStart, restoreErr, restoreDur, checks,
                   evidence, recorded, verified, delivered, result>>

\* 5./6. Objectives and verdict, then the atomic write of the record.
WriteEvidence ==
    /\ pc = "write"
    /\ \/ /\ evidence' = "written"
          /\ recorded' = claim
          /\ verified' = Verified(restoreErr, restoreDur, backupAge, checks)
          /\ pc' = "sign"
          /\ UNCHANGED result
       \/ /\ Fail("unwind")
          /\ UNCHANGED <<evidence, recorded, verified>>
    /\ UNCHANGED <<d, deadline, spool, backupAge, restoreStart, restoreErr, restoreDur, checks,
                   claim, delivered>>

\* Key lookup and the .sig file; unsigned drills go straight on.
SignEvidence ==
    /\ pc = "sign"
    /\ \/ ~d.sign /\ pc' = "html" /\ UNCHANGED <<evidence, result>>
       \/ d.sign /\ evidence' = "signed" /\ pc' = "attest" /\ UNCHANGED result
       \/ d.sign /\ Fail("unwind") /\ UNCHANGED evidence
    /\ UNCHANGED <<d, deadline, spool, backupAge, restoreStart, restoreErr, restoreDur, checks,
                   claim, recorded, verified, delivered>>

AttestEvidence ==
    /\ pc = "attest"
    /\ \/ evidence' = "attested" /\ pc' = "html" /\ UNCHANGED result
       \/ Fail("unwind") /\ UNCHANGED evidence
    /\ UNCHANGED <<d, deadline, spool, backupAge, restoreStart, restoreErr, restoreDur, checks,
                   claim, recorded, verified, delivered>>

WriteHTML ==
    /\ pc = "html"
    /\ \/ pc' = "sinks" /\ UNCHANGED result
       \/ d.html /\ Fail("unwind")
    /\ UNCHANGED <<d, deadline, spool, backupAge, restoreStart, restoreErr, restoreDur, checks,
                   claim, evidence, recorded, verified, delivered>>

\* 7. Sinks: a failure is a warning.  The request carries the drill's own
\* context, so none can be delivered once that context is done.
NotifySinks ==
    /\ pc = "sinks"
    /\ delivered' \in BOOLEAN
    /\ delivered' => ~CtxDone
    /\ result' = "ok"
    /\ pc' = "unwind"
    /\ UNCHANGED <<d, deadline, spool, backupAge, restoreStart, restoreErr, restoreDur, checks,
                   claim, evidence, recorded, verified>>

\* backup.Cleanup, the first deferred function and the last to run.
Cleanup ==
    /\ pc = "cleanup"
    /\ spool' = FALSE
    /\ pc' = "returned"
    /\ UNCHANGED <<d, deadline, backupAge, restoreStart, restoreErr, restoreDur, checks, claim,
                   evidence, recorded, verified, delivered, result>>

\* One step of the orchestrating goroutine between Provision and the return.
DrillStep(up, torndown, destroyed) ==
    \/ Fetch
    \/ Restore(up)
    \/ OpenEngine
    \/ Verify(up)
    \/ VerifyDone
    \/ Teardown(torndown, destroyed)
    \/ WriteEvidence
    \/ SignEvidence
    \/ AttestEvidence
    \/ WriteHTML
    \/ NotifySinks
    \/ Cleanup

\* The published word on the sandbox: none, "standing" or "destroyed".
RecordedFate ==
    IF evidence = "none" THEN "none" ELSE IF recorded THEN "destroyed" ELSE "standing"

\* A verified record stands for the whole spec: every configured check has its
\* own passing result, in order, one of them about restored data, and the
\* objectives held for this restore and this backup.
VerifiedCoversSpec ==
    evidence # "none" /\ verified =>
        /\ Len(checks) = Len(d.verify)
        /\ \A i \in DOMAIN checks : checks[i].name = d.verify[i].name /\ checks[i].passed
        /\ \E i \in DOMAIN checks : checks[i].name \in dataCheckNames
        /\ ~restoreErr /\ restoreDur <= RTO /\ backupAge <= RPO
=============================================================================
