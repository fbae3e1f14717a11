---------------------------- MODULE DrillProofs ----------------------------
(***************************************************************************)
(* What can be said of the orchestrating goroutine (Drill) alone, whatever *)
(* the sandbox provider does: it is well typed, the record comes after the *)
(* teardown and is written once, and the verdict it holds is about exactly *)
(* the checks the spec lists.  The proofs about drills on a provider rest  *)
(* on these lemmas.                                                        *)
(***************************************************************************)
EXTENDS Drill, TLAPS

\* The record is on disk from the write on and not before.
OrderInv ==
    /\ pc \in {"sign", "attest", "html", "sinks"} => evidence # "none"
    /\ evidence # "none" => pc \in {"sign", "attest", "html", "sinks", "unwind", "cleanup", "returned"}

\* The results so far are those of the first configured checks, in order.
ResultsInOrder ==
    /\ Len(checks) <= Len(d.verify)
    /\ \A i \in DOMAIN checks : checks[i].name = d.verify[i].name

\* What the verdict on disk rests on.
ChecksInv ==
    /\ ResultsInOrder
    /\ pc \in {"fetch", "provision", "restore", "engine"} => checks = <<>>
    /\ pc \in {"teardown", "write"} \/ evidence # "none" => Len(checks) = Len(d.verify)
    /\ verified => evidence # "none" /\ Verified(restoreErr, restoreDur, backupAge, checks)

-----------------------------------------------------------------------------
(* Type correctness.                                                       *)

\* A check of the spec is a check, and it has a name.
LEMMA SpecType ==
    ASSUME DrillTypeOK
    PROVE  /\ d.verify \in Seq(Checks)
           /\ \A i \in DOMAIN d.verify : d.verify[i] \in Checks
<1>1. d \in [verify : Seq(Checks), spooled : BOOLEAN, coldStart : BOOLEAN, sign : BOOLEAN,
             html : BOOLEAN]
  BY DrillAssumption DEF DrillTypeOK
<1>2. d.verify \in Seq(Checks)
  BY <1>1
<1> QED
  BY <1>2

\* Whatever check runs and whatever the engine answers, runOne yields a result.
LEMMA RunOneType ==
    ASSUME NEW c \in Checks, NEW err \in BOOLEAN, NEW age \in Nat, NEW answer
    PROVE  runOne(c, err, age, answer) \in Results
<1> DEFINE r == runOne(c, err, age, answer)
<1>1. c.name \in CheckNames
  BY DEF Checks
<1>2. r.passed \in BOOLEAN /\ r.skipped \in BOOLEAN
  BY Zenon DEF runOne
<1> QED
  BY <1>1, <1>2, Zenon DEF runOne, Results

\* Appending the result of the next configured check keeps the results in
\* order; this is the step of every verification loop.
LEMMA NextResult ==
    ASSUME DrillTypeOK, ResultsInOrder, Len(checks) < Len(d.verify), UNCHANGED d,
           NEW r \in Results, r.name = d.verify[Len(checks) + 1].name,
           checks' = Append(checks, r)
    PROVE  /\ checks' \in Seq(Results)
           /\ ResultsInOrder'
           /\ \A i \in DOMAIN checks' : checks'[i] = IF i \in DOMAIN checks THEN checks[i] ELSE r
<1>1. checks \in Seq(Results) /\ d.verify \in Seq(Checks)
  BY SpecType DEF DrillTypeOK
<1>2. checks' \in Seq(Results) /\ Len(checks') = Len(checks) + 1
  BY <1>1
<1>3. \A i \in DOMAIN checks' : checks'[i] = IF i \in DOMAIN checks THEN checks[i] ELSE r
  BY <1>1
<1>4. Len(checks') <= Len(d.verify)
  BY <1>1, <1>2
<1>5. ASSUME NEW i \in DOMAIN checks' PROVE checks'[i].name = d.verify[i].name
  <2>1. CASE i \in DOMAIN checks
    BY <1>3, <2>1 DEF ResultsInOrder
  <2>2. CASE i \notin DOMAIN checks
    <3>1. i = Len(checks) + 1
      BY <1>1, <1>2, <2>2
    <3> QED
      BY <1>3, <2>2, <3>1
  <2> QED
    BY <2>1, <2>2
<1> QED
  BY <1>2, <1>3, <1>4, <1>5 DEF ResultsInOrder

\* A step of the orchestrating goroutine keeps its variables well typed.
LEMMA DrillStepType ==
    ASSUME ProcessTypeOK, DrillTypeOK, NEW up, NEW torndown, NEW destroyed \in BOOLEAN,
           DrillStep(up, torndown, destroyed)
    PROVE  DrillTypeOK'
<1> USE DrillAssumption, ProcessAssumption DEF DrillTypeOK, PCs
<1>1. CASE Fetch
  <2>1. spool' \in BOOLEAN
    BY <1>1 DEF Fetch
  <2> QED
    BY <1>1, <2>1 DEF Fetch, Fail
<1>2. CASE Restore(up)
  <2>1. restoreErr' \in BOOLEAN
    BY <1>2, Zenon DEF Restore, ProcessTypeOK
  <2> QED
    BY <1>2, <2>1 DEF Restore, ProcessTypeOK
<1>3. CASE OpenEngine
  BY <1>3 DEF OpenEngine, Fail
<1>4. CASE Verify(up)
  <2>1. d.verify[Len(checks) + 1] \in Checks
    BY <1>4, SpecType DEF Verify
  <2>2. checks' \in Seq(Results)
    BY <1>4, <2>1, RunOneType DEF Verify
  <2> QED
    BY <1>4, <2>2 DEF Verify
<1>5. CASE VerifyDone
  BY <1>5 DEF VerifyDone
<1>6. CASE Teardown(torndown, destroyed)
  BY <1>6 DEF Teardown
<1>7. CASE WriteEvidence
  BY <1>7 DEF WriteEvidence, Fail, Verified
<1>8. CASE SignEvidence
  BY <1>8 DEF SignEvidence, Fail
<1>9. CASE AttestEvidence
  BY <1>9 DEF AttestEvidence, Fail
<1>10. CASE WriteHTML
  BY <1>10 DEF WriteHTML, Fail
<1>11. CASE NotifySinks
  BY <1>11 DEF NotifySinks
<1>12. CASE Cleanup
  BY <1>12 DEF Cleanup
<1> QED
  BY <1>1, <1>2, <1>3, <1>4, <1>5, <1>6, <1>7, <1>8, <1>9, <1>10, <1>11, <1>12 DEF DrillStep

\* So do the two ways Provision returns to it.
LEMMA ProvisionReturnType ==
    ASSUME ProcessTypeOK, DrillTypeOK, Provisioned \/ ProvisionFailed
    PROVE  DrillTypeOK'
BY ProcessAssumption DEF Provisioned, ProvisionFailed, Fail, DrillTypeOK, ProcessTypeOK, PCs

\* The state a drill starts in.
LEMMA DrillInitType ==
    ASSUME ProcessInit, DrillInit
    PROVE  DrillTypeOK /\ OrderInv /\ ChecksInv
<1>1. /\ spool \in BOOLEAN /\ restoreErr \in BOOLEAN /\ claim \in BOOLEAN
      /\ recorded \in BOOLEAN /\ verified \in BOOLEAN /\ delivered \in BOOLEAN
  BY Zenon DEF DrillInit
<1>2. deadline \in Nat /\ checks \in Seq(Results)
  BY ProcessAssumption, DrillAssumption DEF ProcessInit, DrillInit
<1>3. DrillTypeOK
  BY <1>1, <1>2 DEF DrillInit, DrillTypeOK, PCs
<1>4. d.verify \in Seq(Checks)
  BY <1>3, SpecType
<1>5. Len(d.verify) \in Nat /\ Len(checks) = 0 /\ DOMAIN checks = {}
  BY <1>4 DEF DrillInit
<1> QED
  BY <1>3, <1>5 DEF DrillInit, OrderInv, ChecksInv, ResultsInOrder

-----------------------------------------------------------------------------
(* The record and its verdict.                                             *)

\* What a step that leaves the goroutine's variables alone cannot disturb.
LEMMA DrillFrame ==
    ASSUME UNCHANGED drillVars
    PROVE  /\ OrderInv => OrderInv'
           /\ ChecksInv => ChecksInv'
           /\ RecordedFate' = RecordedFate
<1>1. OrderInv => OrderInv'
  BY DEF drillVars, OrderInv
<1>2. ChecksInv => ChecksInv'
  BY DEF drillVars, ChecksInv, ResultsInOrder, Verified, RTOMet, RPOMet
<1> QED
  BY <1>1, <1>2 DEF drillVars, RecordedFate

\* The record appears in one step of the goroutine and stays.
LEMMA OrderStep ==
    ASSUME DrillTypeOK, OrderInv, NEW up, NEW torndown, NEW destroyed,
           DrillStep(up, torndown, destroyed) \/ Provisioned \/ ProvisionFailed
    PROVE  OrderInv'
BY DEF DrillTypeOK, OrderInv, DrillStep, Fetch, Restore, OpenEngine, Verify, VerifyDone, Teardown,
       WriteEvidence, SignEvidence, AttestEvidence, WriteHTML, NotifySinks, Cleanup, Provisioned,
       ProvisionFailed, Fail

\* The steps outside the verification loop that touch neither the results nor
\* what the verdict was computed from, and move past neither end of the loop.
LEMMA ChecksKept ==
    ASSUME ChecksInv, UNCHANGED <<d, checks, verified>>,
           verified => evidence' # "none" /\ UNCHANGED <<restoreErr, restoreDur, backupAge>>,
           pc' \in {"fetch", "provision", "restore", "engine"} => checks = <<>>,
           pc' \in {"teardown", "write"} \/ evidence' # "none" => Len(checks) = Len(d.verify)
    PROVE  ChecksInv'
BY DEF ChecksInv, ResultsInOrder, Verified, RTOMet, RPOMet

\* Whatever a provider does, the results stay in the spec's order, the record
\* is written only when every check has one, and it says "verified" only if
\* finalize's verdict on exactly these results is positive.
LEMMA ChecksStep ==
    ASSUME DrillTypeOK, OrderInv, ChecksInv, NEW up, NEW torndown, NEW destroyed,
           DrillStep(up, torndown, destroyed) \/ Provisioned \/ ProvisionFailed
    PROVE  ChecksInv'
<1>0. /\ evidence \in {"none", "written", "signed", "attested"} /\ verified \in BOOLEAN
      /\ Len(checks) \in Nat /\ Len(d.verify) \in Nat /\ pc \in PCs
      /\ pc \in {"sign", "attest", "html", "sinks"} => evidence # "none"
      /\ evidence # "none" => pc \in {"sign", "attest", "html", "sinks", "unwind", "cleanup",
                                       "returned"}
      /\ pc \in {"fetch", "provision", "restore", "engine"} => checks = <<>>
      /\ pc \in {"teardown", "write"} \/ evidence # "none" => Len(checks) = Len(d.verify)
      /\ verified => evidence # "none"
      /\ Len(checks) <= Len(d.verify)
  BY SpecType DEF DrillTypeOK, OrderInv, ChecksInv, ResultsInOrder
<1>1. CASE Fetch
  BY <1>0, <1>1, ChecksKept DEF Fetch, Fail
<1>2. CASE Restore(up)
  BY <1>0, <1>2, ChecksKept DEF Restore
<1>3. CASE OpenEngine
  BY <1>0, <1>3, ChecksKept DEF OpenEngine, Fail
<1>4. CASE Verify(up)
  <2>1. PICK answer :
          checks' = Append(checks, runOne(d.verify[Len(checks) + 1], restoreErr, backupAge, answer))
    BY <1>4 DEF Verify
  <2> DEFINE c == d.verify[Len(checks) + 1]
             r == runOne(c, restoreErr, backupAge, answer)
  <2>2. c \in Checks
    BY <1>0, <1>4, SpecType DEF Verify
  <2>3. r \in Results /\ r.name = c.name
    BY <2>2, RunOneType DEF DrillTypeOK, runOne
  <2>4. ResultsInOrder'
    BY <1>4, <2>1, <2>3, NextResult DEF Verify, ChecksInv
  <2>5. evidence = "none" /\ ~verified
    BY <1>0, <1>4 DEF Verify
  <2> QED
    BY <1>4, <2>4, <2>5 DEF Verify, ChecksInv
<1>5. CASE VerifyDone
  BY <1>0, <1>5, ChecksKept DEF VerifyDone
<1>6. CASE Teardown(torndown, destroyed)
  BY <1>0, <1>6, ChecksKept DEF Teardown
<1>7. CASE WriteEvidence
  <2>1. CASE UNCHANGED <<evidence, recorded, verified>>
    BY <1>0, <1>7, <2>1, ChecksKept DEF WriteEvidence, Fail
  <2>2. CASE evidence' = "written" /\ pc' = "sign"
             /\ verified' = Verified(restoreErr, restoreDur, backupAge, checks)
    BY <1>0, <1>7, <2>2 DEF WriteEvidence, ChecksInv, ResultsInOrder, Verified, RTOMet, RPOMet
  <2> QED
    BY <1>7, <2>1, <2>2 DEF WriteEvidence
<1>8. CASE SignEvidence
  BY <1>0, <1>8, ChecksKept DEF SignEvidence, Fail
<1>9. CASE AttestEvidence
  BY <1>0, <1>9, ChecksKept DEF AttestEvidence, Fail
<1>10. CASE WriteHTML
  BY <1>0, <1>10, ChecksKept DEF WriteHTML, Fail
<1>11. CASE NotifySinks
  BY <1>0, <1>11, ChecksKept DEF NotifySinks
<1>12. CASE Cleanup
  BY <1>0, <1>12, ChecksKept DEF Cleanup
<1>13. CASE Provisioned \/ ProvisionFailed
  BY <1>0, <1>13, ChecksKept DEF Provisioned, ProvisionFailed, Fail
<1> QED
  BY <1>1, <1>2, <1>3, <1>4, <1>5, <1>6, <1>7, <1>8, <1>9, <1>10, <1>11, <1>12, <1>13 DEF DrillStep

\* So a verified record stands for the whole spec.
LEMMA VerdictCovers == DrillTypeOK /\ ChecksInv => VerifiedCoversSpec
BY DEF DrillTypeOK, ChecksInv, ResultsInOrder, VerifiedCoversSpec, Verified, RTOMet, RPOMet

\* The word on disk changes in one place only, when the record is written, and
\* there was none before.
LEMMA FateStep ==
    ASSUME DrillTypeOK, OrderInv, NEW up, NEW torndown, NEW destroyed,
           DrillStep(up, torndown, destroyed) \/ Provisioned \/ ProvisionFailed,
           RecordedFate' # RecordedFate
    PROVE  WriteEvidence /\ evidence = "none"
<1> USE DEF RecordedFate
<1>1. evidence \in {"none", "written", "signed", "attested"}
  BY DEF DrillTypeOK
<1>2. /\ pc \in {"sign", "attest"} => evidence # "none"
      /\ pc = "write" => evidence = "none"
  BY DEF OrderInv
<1>3. SignEvidence \/ AttestEvidence => UNCHANGED recorded /\ evidence' # "none" /\ evidence # "none"
  BY <1>1, <1>2 DEF SignEvidence, AttestEvidence
<1>4. WriteEvidence
  BY <1>3 DEF DrillStep, Fetch, Restore, OpenEngine, Verify, VerifyDone, Teardown, WriteHTML,
              NotifySinks, Cleanup, Provisioned, ProvisionFailed
<1> QED
  BY <1>2, <1>4 DEF WriteEvidence

-----------------------------------------------------------------------------
(* A sandbox that is lost.                                                 *)

\* No check that looks at restored data has passed, and no record says so.
NothingProven ==
    /\ ~verified
    /\ \A i \in DOMAIN checks : checks[i].name \in dataCheckNames => ~checks[i].passed

\* Without the sandbox a data check has nothing to ask and does not pass.
LEMMA LostCheckFails ==
    ASSUME NEW c \in Checks, NEW err, NEW age, NEW answer \in AnswersTo(c, err, FALSE),
           c.name \in dataCheckNames
    PROVE  ~runOne(c, err, age, answer).passed
<1>1. answer = QueryErr
  BY DEF AnswersTo
<1>2. ~enginePassed(c, answer)
  BY <1>1 DEF enginePassed
<1>3. c.name # "restoreSucceeded" /\ c.name # "freshness"
  BY DEF dataCheckNames
<1> QED
  BY <1>2, <1>3, Zenon DEF runOne

\* As long as the sandbox is out of reach, nothing gets proven.
LEMMA NothingProvenStep ==
    ASSUME DrillTypeOK, ChecksInv, NothingProven, NEW up \in BOOLEAN, ~up, NEW torndown,
           NEW destroyed, DrillStep(up, torndown, destroyed)
    PROVE  NothingProven'
<1>1. CASE Verify(up)
  <2> DEFINE c == d.verify[Len(checks) + 1]
  <2>0. (up /\ ~CtxDone) = FALSE
    OBVIOUS
  <2>1. PICK answer \in AnswersTo(c, restoreErr, up /\ ~CtxDone) :
          checks' = Append(checks, runOne(c, restoreErr, backupAge, answer))
    BY <1>1 DEF Verify
  <2> DEFINE r == runOne(c, restoreErr, backupAge, answer)
  <2>2. c \in Checks
    BY <1>1, SpecType DEF Verify, DrillTypeOK
  <2>3. r \in Results /\ r.name = c.name
    BY <2>2, RunOneType DEF DrillTypeOK, runOne
  <2>4. r.name \in dataCheckNames => ~r.passed
    BY <2>0, <2>1, <2>2, <2>3, LostCheckFails
  <2>5. \A i \in DOMAIN checks' : checks'[i] = IF i \in DOMAIN checks THEN checks[i] ELSE r
    BY <1>1, <2>1, <2>3, NextResult DEF Verify, ChecksInv
  <2> QED
    BY <1>1, <2>4, <2>5 DEF Verify, NothingProven
<1>2. CASE WriteEvidence
  <2>1. ~Verified(restoreErr, restoreDur, backupAge, checks)
    BY DEF NothingProven, Verified
  <2> QED
    BY <1>2, <2>1 DEF WriteEvidence, NothingProven
<1>3. CASE ~Verify(up) /\ ~WriteEvidence
  BY <1>3 DEF NothingProven, DrillStep, Fetch, Restore, OpenEngine, VerifyDone, Teardown,
              SignEvidence, AttestEvidence, WriteHTML, NotifySinks, Cleanup
<1> QED
  BY <1>1, <1>2, <1>3
=============================================================================
