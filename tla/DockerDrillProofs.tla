------------------------- MODULE DockerDrillProofs -------------------------
(***************************************************************************)
(* Proofs about a drill on the docker provider, for every TTL, allowance,  *)
(* set of drill specs and set of sweep options.                            *)
(***************************************************************************)
EXTENDS DockerDrill, DrillProofs

-----------------------------------------------------------------------------
(* The inductive invariant, part by part.                                  *)

\* Where Provision and Run are relative to each other.
PhaseInv ==
    /\ pc = "fetch" => ppc = "ping" /\ ~spool
    /\ pc \in {"restore", "engine", "verify", "teardown", "write", "sign", "attest", "html",
               "sinks", "unwind"} => ppc = "ok"
    /\ pc = "cleanup" => ppc \in {"ok", "failed"}
    /\ pc = "returned" => ppc \in {"ping", "ok", "failed"} /\ ~spool

\* Which handles Provision holds, and when Destroy may have started.
HandleInv ==
    /\ ppc \in {"ping", "network"} => ~networkID /\ ~containerID
    /\ ppc \in {"ping", "network", "pull", "create", "start", "ready", "inspect"} => once = "free"
    /\ ppc \in {"pull", "create", "start", "ready", "inspect", "ok"} => networkID
    /\ ppc \in {"start", "ready", "inspect", "ok"} => containerID
    /\ ppc = "failed" => once = "done" \/ (~networkID /\ ~containerID)
    /\ watchdog = "armed" => ppc = "ok" /\ once \in {"free", "cancel"}
    /\ watchdog # "unarmed" => ppc = "ok"

\* What the body of Destroy has achieved at each of its steps.
DestroyInv ==
    /\ once \in {"network", "store", "done"} /\ containerID /\ ~destroyErr
         => container = "removed"
    /\ once \in {"store", "done"} /\ networkID /\ ~destroyErr
         => network = "removed"
    /\ once = "done" => destroyed = ~destroyErr
    /\ once # "done" => ~destroyed

\* The record is written after teardown, and nothing it says changes later.
RecordInv ==
    /\ evidence # "none" => ppc = "ok" /\ recorded = destroyed
    /\ evidence # "none" \/ pc \in {"write", "sign", "attest", "html", "sinks"}
         => once = "done" /\ claim = destroyed
    /\ pc \in {"cleanup", "returned"} /\ ppc = "ok" => once = "done"

IInv == TypeOK /\ OrderInv /\ ChecksInv /\ PhaseInv /\ HandleInv /\ DestroyInv /\ RecordInv

-----------------------------------------------------------------------------
(* Type correctness.                                                       *)

\* A step of Provision keeps the provider's variables well typed.
LEMMA ProvisionType ==
    ASSUME ProcessTypeOK, SandboxTypeOK, NEW ctxDone, NEW cold \in BOOLEAN,
           Provision(ctxDone, cold)
    PROVE  SandboxTypeOK'
<1> USE ProcessAssumption, DockerAssumption
    DEF ProcessTypeOK, SandboxTypeOK, daemonVars, destroyVars, NetworkExists, Up
<1>1. CASE Ping(ctxDone)
  BY <1>1 DEF Ping
<1>2. CASE CreateNetwork(ctxDone)
  <2>1. networkID' \in BOOLEAN
    BY <1>2, Zenon DEF CreateNetwork
  <2> QED
    BY <1>2, <2>1 DEF CreateNetwork
<1>3. CASE Pull(ctxDone)
  BY <1>3 DEF Pull
<1>4. CASE CreateContainer(ctxDone)
  <2>1. containerID' \in BOOLEAN
    BY <1>4, Zenon DEF CreateContainer
  <2> QED
    BY <1>4, <2>1 DEF CreateContainer
<1>5. CASE StartContainer(ctxDone, cold)
  BY <1>5 DEF StartContainer
<1>6. CASE WaitReady(ctxDone)
  BY <1>6 DEF WaitReady
<1>7. CASE Inspect(ctxDone)
  BY <1>7 DEF Inspect
<1>8. CASE Aborted
  BY <1>8 DEF Aborted
<1> QED
  BY <1>1, <1>2, <1>3, <1>4, <1>5, <1>6, <1>7, <1>8 DEF Provision

\* So does a step of Destroy, whoever called it.
LEMMA DestroyType ==
    ASSUME SandboxTypeOK, EnterDestroy(MainDestroys) \/ DestroyBody
    PROVE  SandboxTypeOK'
<1> USE DEF SandboxTypeOK, daemonVars, provisionVars, ContainerExists, NetworkExists, Up
<1>1. CASE EnterDestroy(MainDestroys)
  BY <1>1 DEF EnterDestroy
<1>2. CASE CancelWatchdog
  BY <1>2 DEF CancelWatchdog
<1>3. CASE RemoveContainer
  <2>1. destroyErr' \in BOOLEAN
    BY <1>3, Zenon DEF RemoveContainer
  <2> QED
    BY <1>3, <2>1 DEF RemoveContainer
<1>4. CASE RemoveNetwork
  <2>1. destroyErr' \in BOOLEAN
    BY <1>4, Zenon DEF RemoveNetwork
  <2> QED
    BY <1>4, <2>1 DEF RemoveNetwork
<1>5. CASE StoreDestroyed
  BY <1>5 DEF StoreDestroyed
<1> QED
  BY <1>1, <1>2, <1>3, <1>4, <1>5 DEF DestroyBody

\* And a step of a sweep.
LEMMA SweepType ==
    ASSUME ProcessTypeOK, SandboxTypeOK, GCTypeOK, SweepStep
    PROVE  SandboxTypeOK' /\ GCTypeOK'
<1> USE GCAssumption DEF SandboxTypeOK, GCTypeOK, sandboxVars, daemonVars, destroyVars,
                         provisionVars, NetworkExists, ContainerExists, NoOptions
<1>1. CASE SweepStart
  BY <1>1 DEF SweepStart
<1>2. CASE SweepContainer
  <2>1. condemned' \in BOOLEAN
    BY <1>2, Zenon DEF SweepContainer
  <2> QED
    BY <1>2, <2>1 DEF SweepContainer
<1>3. CASE SweepNetwork
  <2>1. networkAged' \in BOOLEAN /\ o' \in [force : BOOLEAN, dryRun : BOOLEAN]
    BY <1>3, Zenon DEF SweepNetwork
  <2> QED
    BY <1>3, <2>1 DEF SweepNetwork
<1> QED
  BY <1>1, <1>2, <1>3 DEF SweepStep

\* Every step of the composed system keeps every variable well typed.
LEMMA TypeStep == TypeOK /\ [Next]_vars => TypeOK'
<1> SUFFICES ASSUME TypeOK, [Next]_vars PROVE TypeOK'
  OBVIOUS
<1>a. ProcessTypeOK /\ DrillTypeOK /\ SandboxTypeOK /\ GCTypeOK
  BY DEF TypeOK
<1>b. ASSUME UNCHANGED processVars PROVE ProcessTypeOK'
  BY <1>a, <1>b DEF processVars, ProcessTypeOK
<1>c. ASSUME UNCHANGED drillVars PROVE DrillTypeOK'
  BY <1>a, <1>c DEF drillVars, DrillTypeOK, PCs
<1>d. ASSUME UNCHANGED sandboxVars PROVE SandboxTypeOK'
  BY <1>a, <1>d DEF sandboxVars, daemonVars, destroyVars, provisionVars, SandboxTypeOK
<1>e. ASSUME UNCHANGED gcVars PROVE GCTypeOK'
  BY <1>a, <1>e DEF gcVars, GCTypeOK
<1>1. CASE DrillAction
  <2>1. destroyed \in BOOLEAN
    BY <1>a DEF SandboxTypeOK
  <2>2. DrillTypeOK'
    BY <1>1, <1>a, <2>1, DrillStepType DEF DrillAction
  <2> QED
    BY <1>1, <2>2, <1>b, <1>d, <1>e DEF DrillAction, TypeOK
<1>2. CASE ProvisionAction
  <2>1. d.coldStart \in BOOLEAN
    BY <1>a, DrillAssumption DEF DrillTypeOK
  <2>2. SandboxTypeOK'
    BY <1>2, <1>a, <2>1, ProvisionType DEF ProvisionAction
  <2> QED
    BY <1>2, <2>2, <1>b, <1>c, <1>e DEF ProvisionAction, TypeOK
<1>3. CASE ProvisionReturns
  <2>1. DrillTypeOK'
    BY <1>3, <1>a, ProvisionReturnType DEF ProvisionReturns
  <2> QED
    BY <1>3, <2>1, <1>b, <1>d, <1>e DEF ProvisionReturns, TypeOK
<1>4. CASE DestroyAction
  <2>1. SandboxTypeOK'
    BY <1>4, <1>a, DestroyType DEF DestroyAction
  <2> QED
    BY <1>4, <2>1, <1>b, <1>c, <1>e DEF DestroyAction, TypeOK
<1>5. CASE WatchdogAction
  <2>1. SandboxTypeOK'
    BY <1>5, <1>a DEF WatchdogAction, WatchdogFires, WatchdogExits, SandboxTypeOK, daemonVars,
                      destroyVars, provisionVars
  <2> QED
    BY <1>5, <2>1, <1>b, <1>c, <1>e DEF WatchdogAction, TypeOK
<1>6. CASE GCAction
  <2>1. SandboxTypeOK' /\ GCTypeOK'
    BY <1>6, <1>a, SweepType DEF GCAction
  <2> QED
    BY <1>6, <2>1, <1>b, <1>c DEF GCAction, TypeOK
<1>7. CASE EnvironmentAction
  <2>0. alive' \in BOOLEAN /\ cancelled' \in BOOLEAN
    BY <1>7, <1>a, Zenon DEF EnvironmentAction, Tick, Interrupt, Kill, ProcessTypeOK
  <2>1. ProcessTypeOK'
    BY <1>7, <1>a, <2>0 DEF EnvironmentAction, Tick, Interrupt, Kill, ProcessTypeOK
  <2> QED
    BY <1>7, <2>1, <1>c, <1>d, <1>e DEF EnvironmentAction, TypeOK
<1>8. CASE UNCHANGED vars
  BY <1>8, <1>b, <1>c, <1>d, <1>e DEF vars, TypeOK
<1> QED
  BY <1>1, <1>2, <1>3, <1>4, <1>5, <1>6, <1>7, <1>8 DEF Next

-----------------------------------------------------------------------------
(* The invariant is inductive.  Type correctness of the next state comes   *)
(* from TypeStep; each lemma below is about one actor.                     *)

Core == PhaseInv /\ HandleInv /\ DestroyInv /\ RecordInv

\* The initial states satisfy the invariant.
LEMMA InvInit == Init => IInv
<1> SUFFICES ASSUME Init PROVE IInv
  OBVIOUS
<1>1. TypeOK
  <2>1. ProcessTypeOK
    BY DEF Init, ProcessInit, ProcessTypeOK
  <2>2. DrillTypeOK
    BY DrillInitType DEF Init
  <2>3. SandboxTypeOK
    BY DEF Init, SandboxInit, SandboxTypeOK
  <2>4. GCTypeOK
    BY DEF Init, GCInit, GCTypeOK, NoOptions
  <2> QED
    BY <2>1, <2>2, <2>3, <2>4 DEF TypeOK
<1>2. Core
  BY DEF Init, DrillInit, SandboxInit, Core, PhaseInv, HandleInv, DestroyInv, RecordInv
<1> QED
  BY <1>1, <1>2, DrillInitType DEF IInv, Core, Init

\* The orchestrating goroutine.
LEMMA DrillInvStep ==
    ASSUME IInv, DrillAction
    PROVE  Core'
<1> USE DEF IInv, TypeOK, DrillTypeOK, SandboxTypeOK, PCs, Core, OrderInv, PhaseInv, HandleInv,
            DestroyInv, RecordInv, sandboxVars, daemonVars, destroyVars, provisionVars
<1>0. UNCHANGED sandboxVars
  BY DEF DrillAction
<1>1. CASE Fetch
  BY <1>0, <1>1 DEF Fetch, Fail
<1>2. CASE Restore(Up)
  BY <1>0, <1>2 DEF Restore
<1>3. CASE OpenEngine
  BY <1>0, <1>3 DEF OpenEngine, Fail
<1>4. CASE Verify(Up)
  BY <1>0, <1>4 DEF Verify
<1>5. CASE VerifyDone
  BY <1>0, <1>5 DEF VerifyDone
<1>6. CASE Teardown(once = "done", destroyed)
  BY <1>0, <1>6 DEF Teardown
<1>7. CASE WriteEvidence
  BY <1>0, <1>7 DEF WriteEvidence, Fail
<1>8. CASE SignEvidence
  BY <1>0, <1>8 DEF SignEvidence, Fail
<1>9. CASE AttestEvidence
  BY <1>0, <1>9 DEF AttestEvidence, Fail
<1>10. CASE WriteHTML
  BY <1>0, <1>10 DEF WriteHTML, Fail
<1>11. CASE NotifySinks
  BY <1>0, <1>11 DEF NotifySinks
<1>12. CASE Cleanup
  BY <1>0, <1>12 DEF Cleanup
<1> QED
  BY <1>1, <1>2, <1>3, <1>4, <1>5, <1>6, <1>7, <1>8, <1>9, <1>10, <1>11, <1>12 DEF DrillAction, DrillStep

\* Provision.
LEMMA ProvisionInvStep ==
    ASSUME IInv, ProvisionAction
    PROVE  Core'
<1> USE DEF IInv, TypeOK, DrillTypeOK, SandboxTypeOK, Core, OrderInv, PhaseInv, HandleInv,
            DestroyInv, RecordInv, drillVars, daemonVars, destroyVars, Up, NetworkExists
<1>0. UNCHANGED drillVars /\ pc = "provision"
  BY DEF ProvisionAction
<1>1. CASE Ping(CtxDone)
  BY <1>0, <1>1 DEF Ping
<1>2. CASE CreateNetwork(CtxDone)
  BY <1>0, <1>2 DEF CreateNetwork
<1>3. CASE Pull(CtxDone)
  BY <1>0, <1>3 DEF Pull
<1>4. CASE CreateContainer(CtxDone)
  BY <1>0, <1>4 DEF CreateContainer
<1>5. CASE StartContainer(CtxDone, d.coldStart)
  BY <1>0, <1>5 DEF StartContainer
<1>6. CASE WaitReady(CtxDone)
  BY <1>0, <1>6 DEF WaitReady
<1>7. CASE Inspect(CtxDone)
  BY <1>0, <1>7 DEF Inspect
<1>8. CASE Aborted
  BY <1>0, <1>8 DEF Aborted
<1> QED
  BY <1>1, <1>2, <1>3, <1>4, <1>5, <1>6, <1>7, <1>8 DEF ProvisionAction, Provision

\* Provision's return to Run.
LEMMA ReturnInvStep ==
    ASSUME IInv, ProvisionReturns
    PROVE  Core'
BY DEF IInv, TypeOK, DrillTypeOK, SandboxTypeOK, PCs, Core, OrderInv, PhaseInv, HandleInv,
       DestroyInv, RecordInv, ProvisionReturns, Provisioned, ProvisionFailed, Fail, sandboxVars, daemonVars,
       destroyVars, provisionVars

\* Destroy, in whichever goroutine.
LEMMA DestroyInvStep ==
    ASSUME IInv, DestroyAction
    PROVE  Core'
<1> USE DEF IInv, TypeOK, DrillTypeOK, SandboxTypeOK, Core, OrderInv, PhaseInv, HandleInv,
            DestroyInv, RecordInv, drillVars, daemonVars, provisionVars
<1>0. UNCHANGED drillVars
  BY DEF DestroyAction
<1>1. CASE EnterDestroy(MainDestroys)
  BY <1>0, <1>1 DEF EnterDestroy, MainDestroys, Destroying
<1>2. CASE CancelWatchdog
  BY <1>0, <1>2 DEF CancelWatchdog
<1>3. CASE RemoveContainer
  BY <1>0, <1>3 DEF RemoveContainer
<1>4. CASE RemoveNetwork
  BY <1>0, <1>4 DEF RemoveNetwork
<1>5. CASE StoreDestroyed
  BY <1>0, <1>5 DEF StoreDestroyed
<1> QED
  BY <1>1, <1>2, <1>3, <1>4, <1>5 DEF DestroyAction, DestroyBody

\* The watchdog goroutine.
LEMMA WatchdogInvStep ==
    ASSUME IInv, WatchdogAction
    PROVE  Core'
BY DEF IInv, TypeOK, SandboxTypeOK, Core, OrderInv, PhaseInv, HandleInv, DestroyInv, RecordInv,
       WatchdogAction, WatchdogFires, WatchdogExits, drillVars, daemonVars, destroyVars, provisionVars

\* A sweep: it only ever takes a container or a network away.
LEMMA SweepInvStep ==
    ASSUME IInv, GCAction
    PROVE  Core'
<1> USE DEF IInv, TypeOK, SandboxTypeOK, Core, OrderInv, PhaseInv, HandleInv, DestroyInv, RecordInv,
            drillVars, sandboxVars, daemonVars, destroyVars, provisionVars
<1>0. UNCHANGED drillVars
  BY DEF GCAction
<1>1. CASE SweepStart
  BY <1>0, <1>1 DEF SweepStart
<1>2. CASE SweepContainer
  BY <1>0, <1>2 DEF SweepContainer
<1>3. CASE SweepNetwork
  BY <1>0, <1>3 DEF SweepNetwork
<1> QED
  BY <1>1, <1>2, <1>3 DEF GCAction, SweepStep

\* Steps that leave Run and the sandbox alone.
LEMMA FrameInvStep ==
    ASSUME IInv, UNCHANGED <<drillVars, sandboxVars>>
    PROVE  Core'
BY DEF IInv, Core, PhaseInv, HandleInv, DestroyInv, RecordInv, drillVars, sandboxVars,
       daemonVars, destroyVars, provisionVars

\* Every step preserves the invariant.
LEMMA InvStep == IInv /\ [Next]_vars => IInv'
<1> SUFFICES ASSUME IInv, [Next]_vars PROVE IInv'
  OBVIOUS
<1>1. TypeOK'
  BY TypeStep DEF IInv
<1>2. Core'
  <2>1. CASE EnvironmentAction \/ UNCHANGED vars
    BY <2>1, FrameInvStep DEF EnvironmentAction, vars
  <2> QED
    BY <2>1, DrillInvStep, ProvisionInvStep, ReturnInvStep, DestroyInvStep, WatchdogInvStep,
       SweepInvStep DEF Next
<1>3. OrderInv' /\ ChecksInv'
  <2>1. CASE DrillAction \/ ProvisionReturns
    BY <2>1, OrderStep, ChecksStep DEF IInv, TypeOK, DrillAction, ProvisionReturns
  <2>2. CASE UNCHANGED drillVars
    BY <2>2, DrillFrame DEF IInv
  <2> QED
    BY <2>1, <2>2 DEF Next, vars, ProvisionAction, DestroyAction, WatchdogAction, GCAction,
                      EnvironmentAction
<1> QED
  BY <1>1, <1>2, <1>3 DEF IInv, Core

\* The inductive invariant holds throughout every drill.
LEMMA Invariance == Spec => []IInv
BY InvInit, InvStep, PTL DEF Spec

-----------------------------------------------------------------------------
(* The theorems.                                                           *)

\* Every variable of the composed drill keeps its type, for every choice of
\* the constants.
THEOREM TypeCorrect == Spec => []TypeOK
<1>1. IInv => TypeOK
  BY DEF IInv
<1> QED
  BY <1>1, Invariance, PTL

\* A record that says the sandbox was destroyed is true from the moment
\* e.Write put it on disk: neither container nor network exists any more.
THEOREM DestroyedClaimHolds == Spec => []DestroyedClaimIsTrue
<1>1. IInv => DestroyedClaimIsTrue
  BY DEF IInv, HandleInv, DestroyInv, RecordInv, DestroyedClaimIsTrue, TypeOK, DrillTypeOK,
         SandboxTypeOK, Standing, ContainerExists, NetworkExists
<1> QED
  BY <1>1, Invariance, PTL

\* A verified record stands for the whole spec: every configured check has its
\* own passing result and the objectives held.
THEOREM VerdictCoversSpec == Spec => []VerifiedCoversSpec
<1>1. IInv => VerifiedCoversSpec
  BY VerdictCovers DEF IInv, TypeOK
<1> QED
  BY <1>1, Invariance, PTL

\* Record, returned evidence and the sandbox's own flag agree from the write
\* on, through the deferred teardown and a late watchdog.
THEOREM RecordMatches == Spec => []RecordMatchesSandbox
<1>1. IInv => RecordMatchesSandbox
  BY DEF IInv, RecordInv, RecordMatchesSandbox
<1> QED
  BY <1>1, Invariance, PTL

\* Run returns, on every path, with the backup copy removed, the watchdog
\* released and no sandbox left that Destroy was not tried on.
THEOREM NothingIsForgotten == Spec => []NothingForgotten
<1>1. IInv => NothingForgotten
  BY DEF IInv, PhaseInv, HandleInv, DestroyInv, RecordInv, NothingForgotten, TypeOK, DrillTypeOK,
         SandboxTypeOK, ContainerExists, NetworkExists
<1> QED
  BY <1>1, Invariance, PTL

-----------------------------------------------------------------------------
(* A sandbox that is lost stays lost, and the drill stays unproven.        *)

\* Past Provision, with no running container and no data check passed.
Doomed == pc \notin {"fetch", "provision"} /\ ~Up /\ NothingProven

\* Past Provision nobody starts a container again, so no later step can get a
\* data check to pass.
LEMMA DoomedStep ==
    ASSUME IInv, Doomed, [Next]_vars
    PROVE  Doomed'
<1>0. pc \in PCs /\ pc # "fetch" /\ pc # "provision" /\ container # "running"
  BY DEF IInv, TypeOK, DrillTypeOK, Doomed, Up
<1>1. CASE DrillAction
  <2>1. NothingProven'
    BY <1>1, NothingProvenStep DEF IInv, TypeOK, DrillAction, Doomed, Up
  <2>2. container' # "running"
    BY <1>0, <1>1 DEF DrillAction, sandboxVars, daemonVars
  <2>3. pc' # "fetch" /\ pc' # "provision"
    BY <1>0, <1>1 DEF DrillAction, DrillStep, Fetch, Restore, OpenEngine, Verify, VerifyDone,
                      Teardown, WriteEvidence, SignEvidence, AttestEvidence, WriteHTML, NotifySinks,
                      Cleanup, Fail
  <2> QED
    BY <2>1, <2>2, <2>3 DEF Doomed, Up
<1>2. CASE UNCHANGED drillVars /\ container' \in {container, "removed"}
  BY <1>0, <1>2 DEF Doomed, NothingProven, drillVars, Up
<1>3. CASE DestroyAction
  BY <1>2, <1>3 DEF DestroyAction, EnterDestroy, DestroyBody, CancelWatchdog, RemoveContainer,
                    RemoveNetwork, StoreDestroyed, daemonVars
<1>4. CASE WatchdogAction
  BY <1>2, <1>4 DEF WatchdogAction, WatchdogFires, WatchdogExits, daemonVars
<1>5. CASE GCAction
  BY <1>2, <1>5 DEF GCAction, SweepStep, SweepStart, SweepContainer, SweepNetwork, sandboxVars,
                    daemonVars
<1>6. CASE EnvironmentAction \/ UNCHANGED vars
  BY <1>2, <1>6 DEF EnvironmentAction, vars, sandboxVars, daemonVars
<1> QED
  BY <1>0, <1>1, <1>3, <1>4, <1>5, <1>6
  DEF Next, ProvisionAction, ProvisionReturns, Provisioned, ProvisionFailed

\* A drill whose container was taken away, by its watchdog or by a sweep,
\* before a data check had run never claims a verified recovery later on.
THEOREM LostSandboxIsNotVerified == Spec => LostSandboxNeverVerifies
<1>1. IInv /\ LostBeforeProof => Doomed
  BY DEF IInv, OrderInv, ChecksInv, LostBeforeProof, Doomed, NothingProven
<1>2. IInv /\ Doomed /\ [Next]_vars => Doomed'
  BY DoomedStep
<1>3. Doomed => ~verified
  BY DEF Doomed, NothingProven
<1> QED
  BY <1>1, <1>2, <1>3, Invariance, PTL DEF Spec, LostSandboxNeverVerifies

-----------------------------------------------------------------------------
(* Refinement: a docker drill implements SandboxLease.                     *)

\* Once the record is on disk no step brings a container or network back.
LEMMA NothingComesBack ==
    ASSUME IInv, [Next]_vars, evidence # "none", Standing'
    PROVE  Standing
<1> USE DEF Standing, ContainerExists, NetworkExists
<1>0. pc # "provision"
  BY DEF IInv, OrderInv
<1>1. CASE UNCHANGED sandboxVars
  BY <1>1 DEF sandboxVars, daemonVars
<1>2. CASE DestroyAction
  BY <1>2 DEF DestroyAction, EnterDestroy, DestroyBody, CancelWatchdog, RemoveContainer,
              RemoveNetwork, StoreDestroyed, daemonVars
<1>3. CASE WatchdogAction
  BY <1>3 DEF WatchdogAction, WatchdogFires, WatchdogExits, daemonVars
<1>4. CASE GCAction
  BY <1>1, <1>4 DEF GCAction, SweepStep, SweepStart, SweepContainer, SweepNetwork
<1> QED
  BY <1>0, <1>1, <1>2, <1>3, <1>4
  DEF Next, vars, DrillAction, ProvisionAction, ProvisionReturns, EnvironmentAction

\* The word on disk changes only when the record is written.
LEMMA FateIsWrittenOnce ==
    ASSUME IInv, [Next]_vars, RecordedFate' # RecordedFate
    PROVE  WriteEvidence /\ UNCHANGED sandboxVars
<1>1. CASE UNCHANGED drillVars
  BY <1>1, DrillFrame
<1>2. CASE DrillAction \/ ProvisionReturns
  BY <1>2, FateStep DEF IInv, TypeOK, DrillAction, ProvisionReturns
<1> QED
  BY <1>1, <1>2
  DEF Next, vars, ProvisionAction, DestroyAction, WatchdogAction, GCAction, EnvironmentAction

\* Writing the record is publishing it, and the lease's proviso holds.
LEMMA WritePublishes ==
    ASSUME IInv, WriteEvidence, UNCHANGED sandboxVars, RecordedFate' # RecordedFate
    PROVE  Lease!Publish
<1>1. evidence = "none"
  BY DEF IInv, OrderInv, WriteEvidence
<1>2. RecordedFate = "none" /\ RecordedFate' \in {"standing", "destroyed"}
  BY <1>1 DEF RecordedFate, WriteEvidence
<1>3. Standing' = Standing
  BY DEF Standing, ContainerExists, NetworkExists, sandboxVars, daemonVars
<1>4. ASSUME RecordedFate' = "destroyed" PROVE ~Standing
  <2>1. claim
    BY <1>4, <1>1 DEF RecordedFate, WriteEvidence
  <2>2. destroyed /\ once = "done" /\ ppc = "ok"
    BY <2>1 DEF IInv, PhaseInv, RecordInv, WriteEvidence
  <2> QED
    BY <2>2 DEF IInv, HandleInv, DestroyInv, TypeOK, SandboxTypeOK, Standing, ContainerExists,
                NetworkExists
<1> QED
  BY <1>2, <1>3, <1>4 DEF Lease!Publish

\* Every step of a docker drill is a step of the lease or leaves it alone.
LEMMA LeaseStep ==
    IInv /\ [Next]_vars => [Lease!LeaseNext]_<<Standing, RecordedFate>>
<1> SUFFICES ASSUME IInv, [Next]_vars
             PROVE  [Lease!LeaseNext]_<<Standing, RecordedFate>>
  OBVIOUS
<1>1. CASE RecordedFate' # RecordedFate
  BY <1>1, FateIsWrittenOnce, WritePublishes DEF Lease!LeaseNext
<1>2. CASE RecordedFate' = RecordedFate
  <2>1. CASE ~Standing'
    <3>1. Standing' = FALSE
      BY <2>1 DEF Standing
    <3> QED
      BY <1>2, <3>1 DEF Lease!LeaseNext, Lease!Release
  <2>2. CASE Standing' /\ evidence = "none"
    <3>1. Standing' = TRUE
      BY <2>2 DEF Standing
    <3> QED
      BY <1>2, <2>2, <3>1 DEF Lease!LeaseNext, Lease!Acquire, RecordedFate
  <2>3. CASE Standing' /\ evidence # "none"
    <3>1. Standing' = Standing
      BY <2>3, NothingComesBack DEF Standing, ContainerExists, NetworkExists
    <3> QED
      BY <1>2, <3>1
  <2> QED
    BY <2>1, <2>2, <2>3
<1> QED
  BY <1>1, <1>2

\* A drill on the docker provider keeps the promise SandboxLease states: one
\* record at most, "destroyed" only when nothing is left, nothing comes back.
THEOREM DockerImplementsLease == Spec => ImplementsLease
<1>1. Init => Lease!LeaseInit
  BY DEF Init, DrillInit, SandboxInit, Lease!LeaseInit, Standing, ContainerExists, NetworkExists,
         RecordedFate
<1> QED
  BY <1>1, LeaseStep, Invariance, PTL DEF Spec, ImplementsLease, Lease!LeaseSpec
=============================================================================
