------------------------- MODULE VeleroDrillProofs -------------------------
(***************************************************************************)
(* Proofs about a namespace-level drill, for every TTL, every set of drill *)
(* specs and sweep options, every timeout of podsReady and every number of *)
(* looks it wants to be good.                                              *)
(***************************************************************************)
EXTENDS VeleroDrill, DrillProofs

-----------------------------------------------------------------------------
(* The inductive invariant, part by part.                                  *)

\* Where Prepare and runVelero are relative to each other.
PhaseInv ==
    /\ pc = "fetch" => ppc = "backup"
    /\ pc = "provision" => ppc # "backup"
    /\ pc \in {"restore", "engine", "verify", "teardown", "write", "sign", "attest", "html",
               "sinks", "unwind"} => ppc = "ok"
    /\ pc = "cleanup" => ppc \in {"ok", "refused", "failed"}
    /\ pc = "returned" => ppc \in {"backup", "ok", "refused", "failed"}

\* When the namespace may be there, and when Destroy may have started.
HandleInv ==
    /\ ppc \in {"backup", "namespace", "policy", "refused"} => once = "free"
    /\ ppc \in {"backup", "namespace"} => ns = "absent"
    /\ ppc = "failed" => once = "done"
    /\ watchdog = "armed" => ppc = "ok" /\ once = "free"
    /\ watchdog # "unarmed" => ppc = "ok"

\* What the body of Destroy has achieved at each of its steps.
DestroyInv ==
    /\ once \in {"restore", "done"} /\ ~destroyErr => ns # "active"
    /\ once = "done" => destroyed = ~destroyErr
    /\ once # "done" => ~destroyed

\* The record is written after teardown, and nothing it says changes later.
RecordInv ==
    /\ evidence # "none" => ppc = "ok" /\ recorded = destroyed
    /\ evidence # "none" \/ pc \in {"write", "sign", "attest", "html", "sinks"}
         => once = "done" /\ claim = destroyed
    /\ pc \in {"cleanup", "returned"} /\ ppc = "ok" => once = "done"

\* There is a podsReady among the results, and each of them passed.
PodsPassed ==
    /\ \E i \in DOMAIN checks : checks[i].name = "podsReady"
    /\ \A i \in DOMAIN checks : checks[i].name = "podsReady" => checks[i].passed

\* podsReady's loop runs for the next configured check, its counter is the
\* row of good looks, and between loops a row that let every podsReady so far
\* pass is still the last that was seen.
PodsInv ==
    /\ polling => /\ pc = "verify" /\ ~restoreErr
                  /\ Len(checks) < Len(d.verify)
                  /\ d.verify[Len(checks) + 1].name = "podsReady"
                  /\ stable = goodLooks
    /\ ~polling /\ PodsPassed => goodLooks >= stablePolls

\* One restore is asked for, and it is called a success only once Velero is
\* through with it: no object is under way, and none is being worked on.
RestoreInv ==
    /\ pc \in {"fetch", "provision"} => rpc = "name"
    /\ rpc \in {"name", "create"} => cr = "absent" /\ inflight = "none"
    /\ rpc = "poll" => inflight = "none"
    /\ pc = "verify" /\ ~restoreErr =>
         rpc = "done" /\ inflight = "none" /\ cr \in {"completed", "removed"}

Core == PhaseInv /\ HandleInv /\ DestroyInv /\ RecordInv

IInv == TypeOK /\ OrderInv /\ ChecksInv /\ PodsInv /\ RestoreInv /\ Core

-----------------------------------------------------------------------------
(* The verification loop.                                                  *)

PodsTypeOK == polling \in BOOLEAN /\ podsBy \in Nat /\ stable \in Nat /\ goodLooks \in Nat

\* The next configured check gets result r.  A podsReady that passes has just
\* seen its row of good looks; other checks do not look.
Appends(r) ==
    /\ pc = "verify" /\ Len(checks) < Len(d.verify)
    /\ r \in Results /\ r.name = d.verify[Len(checks) + 1].name
    /\ checks' = Append(checks, r)
    /\ UNCHANGED <<d, pc, deadline, spool, backupAge, restoreStart, restoreErr, restoreDur, claim,
                   evidence, recorded, verified, delivered, result>>
    /\ ~polling' /\ PodsTypeOK'
    /\ r.name = "podsReady" /\ r.passed => goodLooks' >= stablePolls
    /\ r.name # "podsReady" => ~polling /\ goodLooks' = goodLooks

\* A result of podsReady's loop.
LEMMA PodsResultAppends ==
    ASSUME IInv, polling, NEW passed \in BOOLEAN, PodsReadyResult(passed), goodLooks' \in Nat,
           passed => goodLooks' >= stablePolls
    PROVE  \E r \in Results : Appends(r)
<1> DEFINE r == [name |-> "podsReady", passed |-> passed, skipped |-> FALSE]
<1>1. r \in Results
  BY Zenon DEF Results, CheckNames, dataCheckNames
<1>2. r.name = "podsReady" /\ r.passed = passed
  OBVIOUS
<1>3. /\ pc = "verify" /\ Len(checks) < Len(d.verify)
      /\ d.verify[Len(checks) + 1].name = "podsReady"
  BY DEF IInv, PodsInv
<1>4. polling' = FALSE /\ podsBy' = 0 /\ stable' = 0 /\ checks' = Append(checks, r)
  BY DEF PodsReadyResult
<1>5. PodsTypeOK'
  BY <1>4 DEF PodsTypeOK
<1>6. UNCHANGED <<d, pc, deadline, spool, backupAge, restoreStart, restoreErr, restoreDur, claim,
                  evidence, recorded, verified, delivered, result>>
  BY DEF PodsReadyResult
<1>7. Appends(r)
  BY <1>1, <1>2, <1>3, <1>4, <1>5, <1>6 DEF Appends
<1> QED
  BY <1>1, <1>7

\* One round of podsReady: it goes on with the counter equal to the row, or it
\* ends with a row that is long enough.
LEMMA LookStep ==
    ASSUME IInv, PodsReadyLook
    PROVE  \/ \E r \in Results : Appends(r)
           \/ /\ UNCHANGED drillVars /\ polling' = polling /\ podsBy' = podsBy
              /\ stable' = goodLooks' /\ goodLooks' \in Nat
<1>0. /\ polling /\ stable = goodLooks /\ goodLooks \in Nat
      /\ stablePolls \in Nat \ {0}
  BY VeleroAssumption DEF IInv, PodsInv, TypeOK, PodsReadyLook
<1>1. PICK look \in Looks :
        /\ Remember(look)
        /\ \/ look = "ready" /\ PodsReadyRow(stable + 1)
           \/ look # "ready" /\ PodsReadyRow(0)
  BY DEF PodsReadyLook
<1> DEFINE row == IF look = "ready" THEN stable + 1 ELSE 0
<1>2. goodLooks' = row /\ row \in Nat /\ PodsReadyRow(row)
  BY <1>0, <1>1 DEF Remember
<1>3. CASE row >= stablePolls /\ PodsReadyResult(TRUE)
  BY <1>0, <1>2, <1>3, PodsResultAppends
<1>4. CASE stable' = row /\ UNCHANGED <<polling, podsBy, drillVars>>
  BY <1>2, <1>4
<1> QED
  BY <1>2, <1>3, <1>4 DEF PodsReadyRow

\* Running out of time is a failed result.
LEMMA GiveUpStep ==
    ASSUME IInv, PodsReadyGivesUp
    PROVE  \E r \in Results : Appends(r)
<1>1. polling /\ PodsReadyResult(FALSE) /\ goodLooks' \in Nat
  BY DEF IInv, TypeOK, PodsReadyGivesUp
<1> QED
  BY <1>1, PodsResultAppends

\* A check outside the loop; a podsReady that is skipped has not passed.
LEMMA VerifyOneStep ==
    ASSUME IInv, VerifyOne
    PROVE  \E r \in Results : Appends(r)
<1> DEFINE c == d.verify[Len(checks) + 1]
<1>1. PICK answer : checks' = Append(checks, runOne(c, restoreErr, backupAge, answer))
  BY DEF VerifyOne
<1> DEFINE r == runOne(c, restoreErr, backupAge, answer)
<1>2. DrillTypeOK /\ PodsTypeOK
  BY DEF IInv, TypeOK, PodsTypeOK
<1>3. c \in Checks
  BY <1>2, SpecType DEF VerifyOne, DrillTypeOK
<1>4. r \in Results /\ r.name = c.name
  BY <1>2, <1>3, RunOneType DEF DrillTypeOK, runOne
<1>5. c.name = "podsReady" => restoreErr
  BY DEF VerifyOne
<1>6. r.name = "podsReady" => ~r.passed
  <2> SUFFICES ASSUME c.name = "podsReady" PROVE ~r.passed
    BY <1>4
  <2>1. restoreErr
    BY <1>5
  <2>2. c.name # "restoreSucceeded" /\ c.name # "freshness"
    OBVIOUS
  <2> QED
    BY <2>1, <2>2, Zenon DEF runOne
<1>7. PodsTypeOK' /\ ~polling /\ ~polling' /\ goodLooks' = goodLooks
  BY <1>2 DEF VerifyOne, podsVars, PodsTypeOK
<1>8. Appends(r)
  BY <1>1, <1>4, <1>6, <1>7 DEF VerifyOne, Appends
<1> QED
  BY <1>4, <1>8

\* What a result does to the invariant.
LEMMA AppendsInv ==
    ASSUME IInv, NEW r \in Results, Appends(r)
    PROVE  DrillTypeOK' /\ PodsTypeOK' /\ OrderInv' /\ ChecksInv' /\ PodsInv'
<1>0. DrillTypeOK /\ ResultsInOrder
  BY DEF IInv, TypeOK, ChecksInv
<1>1. /\ checks' \in Seq(Results)
      /\ ResultsInOrder'
      /\ \A i \in DOMAIN checks' : checks'[i] = IF i \in DOMAIN checks THEN checks[i] ELSE r
  BY <1>0, NextResult DEF Appends
<1>2. DrillTypeOK' /\ PodsTypeOK'
  BY <1>0, <1>1 DEF Appends, DrillTypeOK
<1>3. evidence = "none" /\ ~verified
  BY DEF IInv, TypeOK, DrillTypeOK, OrderInv, ChecksInv, Appends
<1>4. OrderInv' /\ ChecksInv'
  BY <1>1, <1>3 DEF Appends, OrderInv, ChecksInv
<1>5. ~polling'
  BY DEF Appends
<1>6. ASSUME NEW i \in DOMAIN checks', checks'[i].name = "podsReady",
             \A j \in DOMAIN checks' : checks'[j].name = "podsReady" => checks'[j].passed
      PROVE  goodLooks' >= stablePolls
  <2>1. Len(checks) + 1 \in DOMAIN checks' /\ Len(checks) + 1 \notin DOMAIN checks
    BY <1>0 DEF Appends, DrillTypeOK
  <2>2. checks'[Len(checks) + 1] = r
    BY <1>1, <2>1
  <2>3. CASE r.name = "podsReady"
    BY <1>6, <2>1, <2>2, <2>3 DEF Appends
  <2>4. CASE r.name # "podsReady"
    <3>1. i \in DOMAIN checks /\ checks[i].name = "podsReady"
      BY <1>1, <1>6, <2>4
    <3>2. DOMAIN checks \subseteq DOMAIN checks'
      BY <1>0 DEF Appends, DrillTypeOK
    <3>3. \A j \in DOMAIN checks : checks[j].name = "podsReady" => checks[j].passed
      BY <1>1, <1>6, <3>2
    <3> QED
      BY <2>4, <3>1, <3>3 DEF Appends, IInv, PodsInv, PodsPassed
  <2> QED
    BY <2>3, <2>4
<1> QED
  BY <1>2, <1>4, <1>5, <1>6 DEF PodsInv, PodsPassed

-----------------------------------------------------------------------------
(* The rest of runVelero.                                                  *)

\* Everything the main goroutine does outside the verification loop.
StraightStep ==
    /\ \/ GetBackup
       \/ PrepareReturns
       \/ StartRestore
       \/ PollRestore
       \/ pc = "provision" /\ Prepare(CtxDone) /\ UNCHANGED drillVars
       \/ Finish /\ UNCHANGED sandboxVars
    /\ UNCHANGED podsVars

\* runVelero's ending is the code every drill shares, except for its return.
LEMMA FinishIsShared ==
    ASSUME Finish
    PROVE  RunVeleroReturns \/ DrillStep(FALSE, once = "done", destroyed)
BY DEF Finish, DrillStep

\* A step of runVelero keeps the goroutine's variables well typed.
LEMMA StraightType ==
    ASSUME TypeOK, StraightStep
    PROVE  DrillTypeOK'
<1>0. ProcessTypeOK /\ DrillTypeOK /\ destroyed \in BOOLEAN
  BY DEF TypeOK, SandboxTypeOK
<1>1. CASE GetBackup
  BY <1>0, <1>1, DrillAssumption DEF GetBackup, Fail, DrillTypeOK, PCs
<1>2. CASE PrepareReturns
  BY <1>0, <1>2, ProvisionReturnType DEF PrepareReturns
<1>3. CASE StartRestore
  <2>1. restoreErr' \in BOOLEAN
    BY <1>0, <1>3, Zenon DEF StartRestore, RestoreReturns, DrillTypeOK, drillVars
  <2> QED
    BY <1>0, <1>3, <2>1 DEF StartRestore, RestoreReturns, DrillTypeOK, PCs, ProcessTypeOK, drillVars
<1>4. CASE PollRestore
  <2>1. restoreErr' \in BOOLEAN
    BY <1>0, <1>4, Zenon DEF PollRestore, RestoreReturns
  <2> QED
    BY <1>0, <1>4, <2>1 DEF PollRestore, RestoreReturns, DrillTypeOK, PCs, ProcessTypeOK, Elapsed
<1>5. CASE UNCHANGED drillVars
  BY <1>0, <1>5 DEF drillVars, DrillTypeOK, PCs
<1>6. CASE RunVeleroReturns
  BY <1>0, <1>6 DEF RunVeleroReturns, DrillTypeOK, PCs
<1>7. CASE DrillStep(FALSE, once = "done", destroyed)
  BY <1>0, <1>7, DrillStepType
<1> QED
  BY <1>1, <1>2, <1>3, <1>4, <1>5, <1>6, <1>7, FinishIsShared DEF StraightStep

\* It writes the record when Drill does, and computes the verdict from it.
LEMMA StraightRecord ==
    ASSUME IInv, StraightStep
    PROVE  /\ OrderInv' /\ ChecksInv'
           /\ RecordedFate' # RecordedFate => WriteEvidence /\ evidence = "none"
<1>0. DrillTypeOK /\ OrderInv /\ ChecksInv
  BY DEF IInv, TypeOK
<1>1. CASE RunVeleroReturns \/ GetBackup \/ StartRestore \/ PollRestore
  <2>1. /\ UNCHANGED <<d, checks, evidence, recorded, verified>>
        /\ \/ pc \in {"fetch", "provision", "restore"} /\ evidence = "none" /\ ~verified
              /\ checks = <<>> /\ pc' \in {"provision", "restore", "verify", "returned"}
           \/ pc = "cleanup" /\ pc' = "returned" /\ UNCHANGED <<restoreErr, restoreDur, backupAge>>
    BY <1>0, <1>1 DEF RunVeleroReturns, GetBackup, StartRestore, PollRestore, RestoreReturns, Fail,
                      drillVars, OrderInv, ChecksInv, DrillTypeOK
  <2>2. OrderInv'
    BY <1>0, <2>1 DEF OrderInv
  <2>3. ChecksInv'
    BY <1>0, <2>1, ChecksKept DEF ChecksInv
  <2> QED
    BY <2>1, <2>2, <2>3 DEF RecordedFate
<1>2. CASE DrillStep(FALSE, once = "done", destroyed) \/ Provisioned \/ ProvisionFailed
  BY <1>0, <1>2, OrderStep, ChecksStep, FateStep
<1>3. CASE UNCHANGED drillVars
  BY <1>0, <1>3, DrillFrame
<1> QED
  BY <1>1, <1>2, <1>3, FinishIsShared DEF StraightStep, PrepareReturns

\* It does not interfere with podsReady.
LEMMA StraightPods ==
    ASSUME IInv, StraightStep
    PROVE  PodsInv'
<1>1. UNCHANGED <<polling, stable, goodLooks>>
  BY DEF StraightStep, podsVars
<1>2. UNCHANGED <<d, checks>>
  BY DEF StraightStep, GetBackup, PrepareReturns, Provisioned, ProvisionFailed, StartRestore,
         PollRestore, RestoreReturns, Finish, VerifyDone, Teardown, WriteEvidence, SignEvidence,
         AttestEvidence, WriteHTML, NotifySinks, RunVeleroReturns, drillVars
<1>3. polling => UNCHANGED <<pc, restoreErr>>
  <2> SUFFICES ASSUME polling PROVE UNCHANGED <<pc, restoreErr>>
    OBVIOUS
  <2>1. pc = "verify"
    BY DEF IInv, PodsInv
  <2> QED
    BY <2>1 DEF StraightStep, GetBackup, PrepareReturns, Provisioned, ProvisionFailed, StartRestore,
                PollRestore, Finish, VerifyDone, Teardown, WriteEvidence, SignEvidence,
                AttestEvidence, WriteHTML, NotifySinks, RunVeleroReturns
<1> QED
  BY <1>1, <1>2, <1>3 DEF IInv, PodsInv, PodsPassed

\* The main goroutine is on its straight way or in the verification loop.
LEMMA MainCases ==
    ASSUME MainAction
    PROVE  \/ StraightStep
           \/ (VerifyOne \/ PodsReadyBegins \/ PodsReadyLook \/ PodsReadyGivesUp)
              /\ UNCHANGED sandboxVars
BY DEF MainAction, StraightStep

\* The loop, one step of whichever kind.
LEMMA LoopInv ==
    ASSUME IInv, VerifyOne \/ PodsReadyBegins \/ PodsReadyLook \/ PodsReadyGivesUp
    PROVE  /\ DrillTypeOK' /\ PodsTypeOK' /\ OrderInv' /\ ChecksInv' /\ PodsInv'
           /\ UNCHANGED <<pc, spool, claim, evidence, recorded>>
<1>0. DrillTypeOK /\ OrderInv /\ ChecksInv /\ PodsTypeOK /\ clock \in Nat
  BY DEF IInv, TypeOK, PodsTypeOK, ProcessTypeOK
<1>1. CASE \E r \in Results : Appends(r)
  BY <1>1, AppendsInv DEF Appends
<1>2. CASE UNCHANGED drillVars
  <2>1. DrillTypeOK' /\ OrderInv' /\ ChecksInv'
    BY <1>0, <1>2, DrillFrame DEF drillVars, DrillTypeOK, PCs
  <2>2. UNCHANGED <<d, pc, restoreErr, checks, spool, claim, evidence, recorded>>
    BY <1>2 DEF drillVars
  <2>3. CASE PodsReadyBegins
    <3>1. polling' = TRUE
      BY <2>3 DEF PodsReadyBegins
    <3>2. podsBy' \in Nat /\ stable' = 0 /\ goodLooks' = 0
      BY <1>0, <2>3, VeleroAssumption DEF PodsReadyBegins
    <3>3. /\ pc = "verify" /\ ~restoreErr /\ Len(checks) < Len(d.verify)
          /\ d.verify[Len(checks) + 1].name = "podsReady"
      BY <2>3 DEF PodsReadyBegins
    <3>4. PodsTypeOK'
      BY <3>1, <3>2 DEF PodsTypeOK
    <3>5. PodsInv'
      BY <2>2, <3>1, <3>2, <3>3 DEF PodsInv
    <3> QED
      BY <2>1, <2>2, <3>4, <3>5
  <2>4. CASE PodsReadyLook /\ polling' = polling /\ podsBy' = podsBy /\ stable' = goodLooks'
             /\ goodLooks' \in Nat
    <3>1. polling
      BY <2>4 DEF PodsReadyLook
    <3> QED
      BY <1>0, <2>1, <2>2, <2>4, <3>1 DEF PodsTypeOK, IInv, PodsInv
  <2> QED
    BY <1>1, <2>3, <2>4, LookStep, VerifyOneStep, GiveUpStep
<1> QED
  BY <1>1, <1>2, LookStep, VerifyOneStep, GiveUpStep DEF PodsReadyBegins

-----------------------------------------------------------------------------
(* Type correctness of driver, cluster and sweep.                          *)

\* A step of runVelero keeps the driver's variables well typed.
LEMMA DriverType ==
    ASSUME TypeOK, StraightStep
    PROVE  SandboxTypeOK'
<1> USE ProcessAssumption DEF TypeOK, ProcessTypeOK, SandboxTypeOK, clusterVars, driverVars,
                              watchdogVars, destroyVars
<1>1. CASE UNCHANGED sandboxVars
  BY <1>1 DEF sandboxVars
<1>2. CASE GetBackup
  BY <1>2 DEF GetBackup
<1>3. CASE StartRestore
  <2>1. CASE NameRestore
    <3>1. restoreName' = TRUE
      BY <2>1 DEF NameRestore
    <3> QED
      BY <2>1, <3>1 DEF NameRestore
  <2>2. CASE RestoreCreated
    BY <2>2 DEF RestoreCreated, RestoreAppears
  <2>3. CASE RestoreNotCreated
    BY <2>3 DEF RestoreNotCreated, RestoreAppears
  <2> QED
    BY <1>3, <2>1, <2>2, <2>3 DEF StartRestore
<1>4. CASE PollRestore
  BY <1>4 DEF PollRestore, PollingEnds
<1>5. CASE Prepare(CtxDone)
  BY <1>5 DEF Prepare, CreateNamespace, CreatePolicy, Aborted
<1> QED
  BY <1>1, <1>2, <1>3, <1>4, <1>5 DEF StraightStep, PrepareReturns

\* So does a step of Destroy, whoever called it.
LEMMA DestroyType ==
    ASSUME SandboxTypeOK, NEW mainWants, EnterDestroy(mainWants) \/ DestroyBody
    PROVE  SandboxTypeOK'
<1> USE DEF SandboxTypeOK, clusterVars, driverVars, watchdogVars, NamespaceDeleted, RestoreDeleted
<1>1. CASE EnterDestroy(mainWants)
  BY <1>1 DEF EnterDestroy
<1>2. CASE DeleteNamespace
  <2>1. destroyErr' \in BOOLEAN
    BY <1>2, Zenon DEF DeleteNamespace
  <2> QED
    BY <1>2, <2>1 DEF DeleteNamespace
<1>3. CASE DeleteRestore
  <2>1. destroyErr' \in BOOLEAN
    BY <1>3, Zenon DEF DeleteRestore
  <2> QED
    BY <1>3, <2>1 DEF DeleteRestore
<1> QED
  BY <1>1, <1>2, <1>3 DEF DestroyBody

\* A step of the watchdog, of the cluster or of the Velero server.
LEMMA ClusterType ==
    ASSUME ProcessTypeOK, SandboxTypeOK,
           WatchdogFires \/ WatchdogExits \/ LateRestore \/ VeleroRecreates \/ RestoreEnds
    PROVE  SandboxTypeOK'
BY DEF ProcessTypeOK, SandboxTypeOK, clusterVars, driverVars, watchdogVars, destroyVars,
       WatchdogFires, WatchdogExits, LateRestore, RestoreAppears, VeleroRecreates, RestoreEnds

\* And a step of a sweep.
LEMMA SweepType ==
    ASSUME ProcessTypeOK, SandboxTypeOK, GCTypeOK,
           (SweepStart("namespaces") /\ UNCHANGED sandboxVars) \/ SweepNamespaces \/ SweepRestores
    PROVE  SandboxTypeOK' /\ GCTypeOK'
<1> USE KubernetesGCAssumption DEF ProcessTypeOK, SandboxTypeOK, GCTypeOK, driverVars, watchdogVars,
                                   destroyVars
<1>1. CASE SweepStart("namespaces") /\ UNCHANGED sandboxVars
  BY <1>1 DEF SweepStart, sandboxVars, clusterVars
<1>2. CASE SweepNamespaces
  <2>1. gpc' = "restores" /\ UNCHANGED <<o, sweepNow>>
    BY <1>2 DEF SweepNamespaces, SweepOn
  <2> QED
    BY <1>2, <2>1 DEF SweepNamespaces
<1>3. CASE SweepRestores
  <2>1. o' = NoOptions /\ sweepNow' = 0 /\ gpc' = "idle"
    BY <1>3 DEF SweepRestores, SweepOn
  <2>2. NoOptions \in [force : BOOLEAN, dryRun : BOOLEAN]
    BY Zenon DEF NoOptions
  <2> QED
    BY <1>3, <2>1, <2>2 DEF SweepRestores, RestoreDeleted
<1> QED
  BY <1>1, <1>2, <1>3

\* Every step of the composed system keeps every variable well typed.
LEMMA TypeStep == IInv /\ [Next]_vars => TypeOK'
<1> SUFFICES ASSUME IInv, [Next]_vars PROVE TypeOK'
  OBVIOUS
<1>a. ProcessTypeOK /\ DrillTypeOK /\ SandboxTypeOK /\ PodsTypeOK /\ GCTypeOK
  BY DEF IInv, TypeOK, PodsTypeOK
<1>b. ASSUME UNCHANGED processVars PROVE ProcessTypeOK'
  BY <1>a, <1>b DEF processVars, ProcessTypeOK
<1>c. ASSUME UNCHANGED drillVars PROVE DrillTypeOK'
  BY <1>a, <1>c DEF drillVars, DrillTypeOK, PCs
<1>d. ASSUME UNCHANGED sandboxVars PROVE SandboxTypeOK'
  BY <1>a, <1>d DEF sandboxVars, clusterVars, driverVars, watchdogVars, destroyVars, SandboxTypeOK
<1>e. ASSUME UNCHANGED podsVars PROVE PodsTypeOK'
  BY <1>a, <1>e DEF podsVars, PodsTypeOK
<1>f. ASSUME UNCHANGED gcVars PROVE GCTypeOK'
  BY <1>a, <1>f DEF gcVars, GCTypeOK
<1>g. ASSUME ProcessTypeOK', DrillTypeOK', SandboxTypeOK', PodsTypeOK', GCTypeOK' PROVE TypeOK'
  BY <1>g DEF TypeOK, PodsTypeOK
<1>1. CASE MainAction
  <2>1. ProcessTypeOK' /\ GCTypeOK'
    BY <1>1, <1>b, <1>f DEF MainAction
  <2>2. CASE StraightStep
    <3>1. UNCHANGED podsVars
      BY <2>2 DEF StraightStep
    <3> QED
      BY <2>1, <2>2, <3>1, <1>e, <1>g, StraightType, DriverType DEF IInv
  <2>3. CASE (VerifyOne \/ PodsReadyBegins \/ PodsReadyLook \/ PodsReadyGivesUp)
             /\ UNCHANGED sandboxVars
    BY <2>1, <2>3, <1>d, <1>g, LoopInv
  <2> QED
    BY <1>1, <2>2, <2>3, MainCases
<1>2. CASE DestroyAction
  <2>1. SandboxTypeOK'
    BY <1>2, <1>a, DestroyType DEF DestroyAction
  <2> QED
    BY <1>2, <2>1, <1>b, <1>c, <1>e, <1>f, <1>g DEF DestroyAction
<1>3. CASE WatchdogAction \/ ClusterAction
  <2>1. SandboxTypeOK'
    BY <1>3, <1>a, ClusterType DEF WatchdogAction, ClusterAction
  <2> QED
    BY <1>3, <2>1, <1>b, <1>c, <1>e, <1>f, <1>g DEF WatchdogAction, ClusterAction
<1>4. CASE GCAction
  <2>1. SandboxTypeOK' /\ GCTypeOK'
    BY <1>4, <1>a, SweepType DEF GCAction
  <2> QED
    BY <1>4, <2>1, <1>b, <1>c, <1>e, <1>g DEF GCAction
<1>5. CASE EnvironmentAction
  <2>0. alive' \in BOOLEAN /\ cancelled' \in BOOLEAN
    BY <1>5, <1>a, Zenon DEF EnvironmentAction, Tick, Interrupt, Kill, ProcessTypeOK
  <2>1. ProcessTypeOK'
    BY <1>5, <1>a, <2>0 DEF EnvironmentAction, Tick, Interrupt, Kill, ProcessTypeOK
  <2> QED
    BY <1>5, <2>1, <1>c, <1>d, <1>e, <1>f, <1>g DEF EnvironmentAction
<1>6. CASE UNCHANGED vars
  BY <1>6, <1>b, <1>c, <1>d, <1>e, <1>f, <1>g DEF vars
<1> QED
  BY <1>1, <1>2, <1>3, <1>4, <1>5, <1>6 DEF Next

-----------------------------------------------------------------------------
(* The invariant is inductive.  Each lemma is about one actor.             *)

\* The initial states satisfy the invariant.
LEMMA InvInit == Init => IInv
<1> SUFFICES ASSUME Init PROVE IInv
  OBVIOUS
<1>1. ProcessTypeOK
  BY DEF Init, ProcessInit, ProcessTypeOK
<1>2. DrillTypeOK /\ OrderInv /\ ChecksInv
  BY DrillInitType DEF Init
<1>3. SandboxTypeOK
  BY DEF Init, SandboxInit, SandboxTypeOK
<1>4. GCTypeOK
  BY DEF Init, GCInit, GCTypeOK, NoOptions
<1>5. PodsInv /\ polling \in BOOLEAN /\ podsBy \in Nat /\ stable \in Nat /\ goodLooks \in Nat
  <2>1. polling = FALSE /\ podsBy = 0 /\ stable = 0 /\ goodLooks = 0 /\ checks = <<>>
    BY DEF Init, DrillInit
  <2>2. DOMAIN checks = {}
    BY <2>1
  <2>3. ~PodsPassed
    BY <2>2 DEF PodsPassed
  <2>4. ~polling /\ polling \in BOOLEAN
    BY <2>1
  <2> QED
    BY <2>1, <2>3, <2>4 DEF PodsInv
<1>6. Core
  BY DEF Init, DrillInit, SandboxInit, Core, PhaseInv, HandleInv, DestroyInv, RecordInv
<1>7. RestoreInv
  BY DEF Init, DrillInit, SandboxInit, RestoreInv
<1> QED
  BY <1>1, <1>2, <1>3, <1>4, <1>5, <1>6, <1>7 DEF IInv, TypeOK

\* runVelero outside the verification loop.
LEMMA StraightCore ==
    ASSUME IInv, StraightStep
    PROVE  Core'
<1> USE DEF IInv, TypeOK, DrillTypeOK, SandboxTypeOK, PCs, Core, OrderInv, PhaseInv, HandleInv,
            DestroyInv, RecordInv, clusterVars, driverVars, watchdogVars, destroyVars
<1>1. CASE GetBackup
  BY <1>1 DEF GetBackup, Fail
<1>2. CASE PrepareReturns
  BY <1>2 DEF PrepareReturns, Provisioned, ProvisionFailed, Fail, sandboxVars
<1>3. CASE StartRestore
  BY <1>3 DEF StartRestore, RestoreReturns, NameRestore, RestoreCreated, RestoreNotCreated, drillVars
<1>4. CASE PollRestore
  BY <1>4 DEF PollRestore, RestoreReturns, PollingEnds
<1>5. CASE pc = "provision" /\ Prepare(CtxDone) /\ UNCHANGED drillVars
  BY <1>5 DEF Prepare, CreateNamespace, CreatePolicy, Aborted, drillVars
<1>6. CASE Finish /\ UNCHANGED sandboxVars
  <2>0. UNCHANGED sandboxVars
    BY <1>6
  <2>1. CASE VerifyDone
    BY <2>0, <2>1 DEF VerifyDone, sandboxVars
  <2>2. CASE Teardown(once = "done", destroyed)
    BY <2>0, <2>2 DEF Teardown, sandboxVars
  <2>3. CASE WriteEvidence
    BY <2>0, <2>3 DEF WriteEvidence, Fail, sandboxVars
  <2>4. CASE SignEvidence
    BY <2>0, <2>4 DEF SignEvidence, Fail, sandboxVars
  <2>5. CASE AttestEvidence
    BY <2>0, <2>5 DEF AttestEvidence, Fail, sandboxVars
  <2>6. CASE WriteHTML
    BY <2>0, <2>6 DEF WriteHTML, Fail, sandboxVars
  <2>7. CASE NotifySinks
    BY <2>0, <2>7 DEF NotifySinks, sandboxVars
  <2>8. CASE RunVeleroReturns
    BY <2>0, <2>8 DEF RunVeleroReturns, sandboxVars
  <2> QED
    BY <1>6, <2>1, <2>2, <2>3, <2>4, <2>5, <2>6, <2>7, <2>8 DEF Finish
<1> QED
  BY <1>1, <1>2, <1>3, <1>4, <1>5, <1>6 DEF StraightStep

\* Steps that leave the driver alone and the goroutine where it is.
LEMMA FrameCore ==
    ASSUME IInv, UNCHANGED <<pc, spool, claim, evidence, recorded, sandboxVars>>
    PROVE  Core'
BY DEF IInv, Core, PhaseInv, HandleInv, DestroyInv, RecordInv, sandboxVars, clusterVars, driverVars,
       watchdogVars, destroyVars

\* Destroy, in whichever goroutine.
LEMMA DestroyCore ==
    ASSUME IInv, DestroyAction
    PROVE  Core'
<1> USE DEF IInv, TypeOK, DrillTypeOK, SandboxTypeOK, Core, OrderInv, PhaseInv, HandleInv, DestroyInv,
            RecordInv, drillVars, clusterVars, driverVars, watchdogVars
<1>0. UNCHANGED drillVars
  BY DEF DestroyAction
<1>1. CASE EnterDestroy(pc \in {"teardown", "unwind"})
  BY <1>0, <1>1 DEF EnterDestroy
<1>2. CASE DeleteNamespace
  BY <1>0, <1>2 DEF DeleteNamespace, NamespaceDeleted
<1>3. CASE DeleteRestore
  BY <1>0, <1>3 DEF DeleteRestore
<1> QED
  BY <1>1, <1>2, <1>3 DEF DestroyAction, DestroyBody

\* The watchdog goroutine, the cluster and the Velero server.
LEMMA ClusterCore ==
    ASSUME IInv, WatchdogAction \/ ClusterAction
    PROVE  Core'
BY DEF IInv, TypeOK, SandboxTypeOK, Core, OrderInv, PhaseInv, HandleInv, DestroyInv, RecordInv,
       WatchdogAction, WatchdogFires, WatchdogExits, ClusterAction, LateRestore, RestoreAppears,
       VeleroRecreates, RestoreEnds, drillVars, clusterVars, driverVars, watchdogVars, destroyVars

\* A sweep: it only ever takes a namespace or a Restore object away.
LEMMA SweepCore ==
    ASSUME IInv, GCAction
    PROVE  Core'
BY DEF IInv, TypeOK, SandboxTypeOK, Core, OrderInv, PhaseInv, HandleInv, DestroyInv, RecordInv,
       GCAction, SweepNamespaces, SweepRestores, drillVars, sandboxVars, clusterVars, driverVars,
       watchdogVars, destroyVars

\* The restore, from the first step on.
LEMMA RestoreStep ==
    ASSUME IInv, [Next]_vars
    PROVE  RestoreInv'
<1> USE DEF RestoreInv
<1>0. /\ RestoreInv /\ pc \in PCs
      /\ cr \in {"absent", "running", "completed", "failed", "orphaned", "removed"}
  BY DEF IInv, TypeOK, DrillTypeOK, SandboxTypeOK
<1>1. CASE MainAction
  <2>1. CASE GetBackup \/ (pc = "provision" /\ Prepare(CtxDone) /\ UNCHANGED drillVars)
    BY <1>0, <2>1 DEF GetBackup, Fail, Prepare, CreateNamespace, CreatePolicy, Aborted, clusterVars,
                      drillVars
  <2>2. CASE StartRestore
    BY <1>0, <2>2 DEF StartRestore, NameRestore, RestoreCreated, RestoreNotCreated, RestoreReturns,
                      clusterVars, drillVars
  <2>3. CASE PollRestore
    BY <1>0, <2>3 DEF PollRestore, PollingEnds, RestoreReturns, clusterVars
  <2>4. CASE PrepareReturns
    BY <1>0, <2>4 DEF PrepareReturns, Provisioned, ProvisionFailed, Fail, sandboxVars, clusterVars,
                      driverVars
  <2>5. CASE Finish /\ UNCHANGED sandboxVars
    <3>1. /\ UNCHANGED <<rpc, cr, inflight, restoreErr>>
          /\ pc \notin {"fetch", "provision"} /\ pc' \notin {"fetch", "provision", "verify"}
      BY <2>5 DEF Finish, VerifyDone, Teardown, WriteEvidence, SignEvidence, AttestEvidence,
                  WriteHTML, NotifySinks, RunVeleroReturns, Fail, sandboxVars, clusterVars, driverVars
    <3> QED
      BY <1>0, <3>1
  <2>6. CASE (VerifyOne \/ PodsReadyBegins \/ PodsReadyLook \/ PodsReadyGivesUp)
             /\ UNCHANGED sandboxVars
    <3>1. UNCHANGED <<pc, rpc, cr, inflight, restoreErr>>
      BY <2>6 DEF VerifyOne, PodsReadyBegins, PodsReadyLook, PodsReadyRow, PodsReadyGivesUp,
                  PodsReadyResult, drillVars, sandboxVars, clusterVars, driverVars
    <3> QED
      BY <1>0, <3>1
  <2> QED
    BY <1>1, <2>1, <2>2, <2>3, <2>4, <2>5, <2>6 DEF MainAction
<1>2. CASE DestroyAction
  BY <1>0, <1>2 DEF DestroyAction, EnterDestroy, DestroyBody, DeleteNamespace, DeleteRestore,
                    RestoreDeleted, drillVars, clusterVars, driverVars
<1>3. CASE WatchdogAction \/ ClusterAction
  BY <1>0, <1>3 DEF WatchdogAction, WatchdogFires, WatchdogExits, ClusterAction, LateRestore,
                    RestoreAppears, VeleroRecreates, RestoreEnds, drillVars, clusterVars, driverVars
<1>4. CASE GCAction
  BY <1>0, <1>4 DEF GCAction, SweepNamespaces, SweepRestores, RestoreExists, RestoreDeleted,
                    drillVars, sandboxVars, clusterVars, driverVars
<1>5. CASE EnvironmentAction \/ UNCHANGED vars
  BY <1>0, <1>5 DEF EnvironmentAction, vars, drillVars, sandboxVars, clusterVars, driverVars
<1> QED
  BY <1>1, <1>2, <1>3, <1>4, <1>5 DEF Next

\* Steps of others than the main goroutine leave record, results and podsReady
\* as they are.
LEMMA OthersFrame ==
    ASSUME IInv, UNCHANGED <<drillVars, podsVars>>
    PROVE  OrderInv' /\ ChecksInv' /\ PodsInv'
<1>1. OrderInv' /\ ChecksInv'
  BY DrillFrame DEF IInv
<1>2. PodsInv'
  BY DEF IInv, PodsInv, PodsPassed, drillVars, podsVars
<1> QED
  BY <1>1, <1>2

\* Every step preserves the invariant.
LEMMA InvStep == IInv /\ [Next]_vars => IInv'
<1> SUFFICES ASSUME IInv, [Next]_vars PROVE IInv'
  OBVIOUS
<1>0. TypeOK' /\ RestoreInv'
  BY TypeStep, RestoreStep
<1>1. CASE MainAction
  <2>1. CASE StraightStep
    BY <1>0, <2>1, StraightRecord, StraightPods, StraightCore DEF IInv
  <2>2. CASE (VerifyOne \/ PodsReadyBegins \/ PodsReadyLook \/ PodsReadyGivesUp)
             /\ UNCHANGED sandboxVars
    <3>1. OrderInv' /\ ChecksInv' /\ PodsInv' /\ UNCHANGED <<pc, spool, claim, evidence, recorded>>
      BY <2>2, LoopInv
    <3>2. Core'
      BY <2>2, <3>1, FrameCore
    <3> QED
      BY <1>0, <3>1, <3>2 DEF IInv
  <2> QED
    BY <1>1, <2>1, <2>2, MainCases
<1>2. CASE EnvironmentAction \/ UNCHANGED vars
  <2>1. UNCHANGED <<drillVars, podsVars, sandboxVars>>
    BY <1>2 DEF EnvironmentAction, vars
  <2>2. UNCHANGED <<pc, spool, claim, evidence, recorded>>
    BY <2>1 DEF drillVars
  <2> QED
    BY <1>0, <2>1, <2>2, OthersFrame, FrameCore DEF IInv
<1>3. CASE DestroyAction \/ WatchdogAction \/ ClusterAction \/ GCAction
  <2>1. UNCHANGED <<drillVars, podsVars>>
    BY <1>3 DEF DestroyAction, WatchdogAction, ClusterAction, GCAction
  <2>2. Core'
    BY <1>3, DestroyCore, ClusterCore, SweepCore
  <2> QED
    BY <1>0, <2>1, <2>2, OthersFrame DEF IInv
<1> QED
  BY <1>1, <1>2, <1>3 DEF Next

\* The inductive invariant holds throughout every drill.
LEMMA Invariance == Spec => []IInv
BY InvInit, InvStep, PTL DEF Spec

-----------------------------------------------------------------------------
(* The theorems.                                                           *)

\* Every variable of a namespace-level drill keeps its type.
THEOREM TypeCorrect == Spec => []TypeOK
<1>1. IInv => TypeOK
  BY DEF IInv
<1> QED
  BY <1>1, Invariance, PTL

\* A verified record that rests on podsReady means that its last looks, as
\* many in a row as stablePolls, were all good, and that the restore succeeded.
THEOREM VerifiedIsStable == Spec => []VerifiedMeansStable
<1>1. IInv => VerifiedMeansStable
  <2> SUFFICES ASSUME IInv, evidence # "none", verified
               PROVE  /\ ~restoreErr
                      /\ (\E i \in DOMAIN d.verify : d.verify[i].name = "podsReady")
                           => goodLooks >= stablePolls
    BY DEF VerifiedMeansStable
  <2>1. /\ Len(checks) = Len(d.verify) /\ ~restoreErr
        /\ \A i \in DOMAIN checks : checks[i].name = d.verify[i].name /\ checks[i].passed
    BY VerdictCovers DEF IInv, TypeOK, VerifiedCoversSpec
  <2>2. checks \in Seq(Results) /\ d.verify \in Seq(Checks)
    BY SpecType DEF IInv, TypeOK, DrillTypeOK
  <2>3. DOMAIN checks = DOMAIN d.verify
    BY <2>1, <2>2
  <2>4. ~polling
    BY DEF IInv, OrderInv, PodsInv
  <2>5. (\E i \in DOMAIN d.verify : d.verify[i].name = "podsReady") => PodsPassed
    BY <2>1, <2>3 DEF PodsPassed
  <2> QED
    BY <2>1, <2>4, <2>5 DEF IInv, PodsInv
<1> QED
  BY <1>1, Invariance, PTL

\* runVelero returns with its watchdog released, and the namespace Prepare made
\* is not left active without Destroy having been tried on it, unless the call
\* that created it had reported an error.
THEOREM NothingIsForgotten == Spec => []NothingForgotten
<1>1. IInv => NothingForgotten
  BY DEF IInv, Core, PhaseInv, HandleInv, DestroyInv, RecordInv, NothingForgotten, TypeOK,
         SandboxTypeOK
<1> QED
  BY <1>1, Invariance, PTL

\* A verified record stands for the whole spec in a namespace-level drill too.
THEOREM VerdictCoversSpec == Spec => []VerifiedCoversSpec
<1>1. IInv => VerifiedCoversSpec
  BY VerdictCovers DEF IInv, TypeOK
<1> QED
  BY <1>1, Invariance, PTL

\* A record that says "destroyed" is true of the namespace Prepare made, whoever
\* ran Destroy and whichever of its calls failed.
THEOREM DestroyedClaimHolds == Spec => []DestroyedClaimIsTrue
<1>1. IInv => DestroyedClaimIsTrue
  BY DEF IInv, Core, DestroyInv, RecordInv, DestroyedClaimIsTrue, TypeOK, SandboxTypeOK
<1> QED
  BY <1>1, Invariance, PTL

-----------------------------------------------------------------------------
(* What was restored completely is destroyed for good.                     *)

\* Past the restore, with nothing left that would make Velero touch the namespace.
Settled ==
    /\ pc \notin {"fetch", "provision", "restore"}
    /\ inflight # "travelling"
    /\ cr \in {"completed", "removed"}
    /\ ns \in {"active", "terminating"}

\* No step asks Velero for anything again.
LEMMA SettledStep ==
    ASSUME IInv, Settled, [Next]_vars
    PROVE  Settled'
<1> USE DEF Settled
<1>1. CASE MainAction
  <2>1. UNCHANGED sandboxVars
    BY <1>1 DEF MainAction, GetBackup, PrepareReturns, StartRestore, PollRestore
  <2>2. pc' \notin {"fetch", "provision", "restore"}
    BY <1>1 DEF MainAction, GetBackup, PrepareReturns, Provisioned, ProvisionFailed, StartRestore,
                PollRestore, Finish, VerifyDone, Teardown, WriteEvidence, SignEvidence,
                AttestEvidence, WriteHTML, NotifySinks, RunVeleroReturns, Fail, VerifyOne,
                PodsReadyBegins, PodsReadyLook, PodsReadyRow, PodsReadyGivesUp, PodsReadyResult,
                drillVars
  <2> QED
    BY <2>1, <2>2 DEF sandboxVars, clusterVars
<1>2. CASE DestroyAction
  BY <1>2 DEF DestroyAction, EnterDestroy, DestroyBody, DeleteNamespace, NamespaceDeleted,
              DeleteRestore, RestoreDeleted, drillVars, clusterVars
<1>3. CASE WatchdogAction \/ ClusterAction
  BY <1>3 DEF WatchdogAction, WatchdogFires, WatchdogExits, ClusterAction, LateRestore,
              VeleroRecreates, RestoreEnds, drillVars, clusterVars
<1>4. CASE GCAction
  BY <1>4 DEF GCAction, SweepNamespaces, SweepRestores, RestoreDeleted, drillVars, sandboxVars,
              clusterVars
<1>5. CASE EnvironmentAction \/ UNCHANGED vars
  BY <1>5 DEF EnvironmentAction, vars, drillVars, sandboxVars, clusterVars
<1> QED
  BY <1>1, <1>2, <1>3, <1>4, <1>5 DEF Next

\* After a restore that completed into the namespace Prepare made, a record that
\* says "destroyed" is true of the namespace, and stays true whatever watchdog,
\* sweeps, Velero and crashes do.
THEOREM CompletedIsDestroyedForGood == Spec => DestroyedForGood
<1> DEFINE Trigger == pc = "verify" /\ ~restoreErr /\ ns = "active"
           Claim == evidence # "none" /\ recorded => ns = "terminating"
<1>1. IInv /\ Trigger => Settled
  BY DEF IInv, RestoreInv, Settled
<1>2. IInv /\ Settled /\ [Next]_vars => Settled'
  BY SettledStep
<1>3. IInv /\ Settled => Claim
  BY DEF IInv, Core, DestroyInv, RecordInv, TypeOK, SandboxTypeOK, Settled
<1> QED
  BY <1>1, <1>2, <1>3, Invariance, PTL DEF Spec, DestroyedForGood
=============================================================================
