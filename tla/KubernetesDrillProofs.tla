----------------------- MODULE KubernetesDrillProofs -----------------------
(***************************************************************************)
(* Proofs about a drill on the kubernetes provider, for every TTL, every   *)
(* set of drill specs and sweep options, and a cluster in which a create   *)
(* call that was given up may take effect at any later moment.             *)
(***************************************************************************)
EXTENDS KubernetesDrill, DrillProofs

-----------------------------------------------------------------------------
(* The inductive invariant, part by part.                                  *)

\* Where Provision and Run are relative to each other.
PhaseInv ==
    /\ pc = "fetch" => ppc = "config" /\ ~spool
    /\ pc \in {"restore", "engine", "verify", "teardown", "write", "sign", "attest", "html",
               "sinks", "unwind"} => ppc = "ok"
    /\ pc = "cleanup" => ppc \in {"ok", "failed"}
    /\ pc = "returned" => ppc \in {"config", "ok", "failed"} /\ ~spool

\* Which calls and goroutines may be under way at each step of Provision: a
\* create is in flight only once Provision has given up on it.
HandleInv ==
    /\ ppc \in {"config", "namespace", "policy", "create", "ready", "connect"} => once = "free"
    /\ ppc \in {"config", "namespace", "policy", "create"} => pod = "absent"
    /\ ppc = "failed" => once = "done" \/ (pod = "absent" /\ inflight = "none")
    /\ inflight # "none" => ppc \in {"abort", "failed"}
    /\ watchdog = "armed" \/ forward = "open" => ppc = "ok" /\ once \in {"free", "cancel"}
    /\ watchdog # "unarmed" => ppc = "ok"

\* The pod, and a create call that may still make one, come after the policy.
IsolationInv ==
    /\ ppc \in {"policy", "create", "ready", "connect", "ok"} => namespace
    /\ ppc \in {"create", "ready", "connect", "ok"} => policy
    /\ pod # "absent" \/ inflight # "none" => namespace /\ policy

\* What the body of Destroy has achieved at each of its steps.
DestroyInv ==
    /\ once \in {"store", "done"} /\ ~destroyErr => ~PodExists \/ inflight = "landed"
    /\ once = "done" => destroyed = ~destroyErr
    /\ once # "done" => ~destroyed

\* The record is written after teardown, and nothing it says changes later.
RecordInv ==
    /\ evidence # "none" => ppc = "ok" /\ recorded = destroyed
    /\ evidence # "none" \/ pc \in {"write", "sign", "attest", "html", "sinks"}
         => once = "done" /\ claim = destroyed
    /\ pc \in {"cleanup", "returned"} /\ ppc = "ok" => once = "done"

Core == PhaseInv /\ HandleInv /\ IsolationInv /\ DestroyInv /\ RecordInv

IInv == TypeOK /\ OrderInv /\ ChecksInv /\ Core

-----------------------------------------------------------------------------
(* Type correctness.                                                       *)

\* A step of Provision keeps the provider's variables well typed.
LEMMA ProvisionType ==
    ASSUME ProcessTypeOK, SandboxTypeOK, NEW done, Provision(done)
    PROVE  SandboxTypeOK'
<1> USE ProcessAssumption, KubernetesAssumption
    DEF ProcessTypeOK, SandboxTypeOK, clusterVars, destroyVars, watchdogVars, PodAppears, Up, PodExists
<1>1. CASE Configure
  BY <1>1 DEF Configure
<1>2. CASE ensureNamespace(done)
  <2>1. namespace' = TRUE \/ namespace' = namespace
    BY <1>2, Zenon DEF ensureNamespace
  <2>2. namespace' \in BOOLEAN
    BY <2>1
  <2>3. /\ ppc' \in {"policy", "abort"}
        /\ UNCHANGED <<policy, pod, podBorn, podStart, inflight, destroyVars, watchdogVars,
                       expiresAt, inCluster, readyBy, forward>>
    BY <1>2, Zenon DEF ensureNamespace
  <2> QED
    BY <2>2, <2>3
<1>3. CASE EnsureDenyEgressPolicy(done)
  <2>1. policy' = TRUE \/ policy' = policy
    BY <1>3, Zenon DEF EnsureDenyEgressPolicy
  <2>2. policy' \in BOOLEAN
    BY <2>1
  <2>3. /\ \/ ppc' = "create" /\ expiresAt' = clock + TTL
           \/ ppc' = "abort" /\ expiresAt' = expiresAt
        /\ UNCHANGED <<namespace, pod, podBorn, podStart, inflight, destroyVars, watchdogVars,
                       inCluster, readyBy, forward>>
    BY <1>3, Zenon DEF EnsureDenyEgressPolicy
  <2> QED
    BY <2>2, <2>3
<1>4. CASE CreatePod(done)
  BY <1>4 DEF CreatePod
<1>5. CASE waitReady(done)
  BY <1>5 DEF waitReady
<1>6. CASE Connect(done)
  BY <1>6 DEF Connect
<1>7. CASE Aborted
  BY <1>7 DEF Aborted
<1> QED
  BY <1>1, <1>2, <1>3, <1>4, <1>5, <1>6, <1>7 DEF Provision

\* So does a step of Destroy, whoever called it.
LEMMA DestroyType ==
    ASSUME SandboxTypeOK, NEW mainWants, EnterDestroy(mainWants) \/ DestroyBody
    PROVE  SandboxTypeOK'
<1> USE DEF SandboxTypeOK, clusterVars, provisionVars, watchdogVars, PodExists, CancelTTL
<1>1. CASE EnterDestroy(mainWants)
  BY <1>1 DEF EnterDestroy
<1>2. CASE Release
  BY <1>2 DEF Release
<1>3. CASE DeletePod
  <2>1. destroyErr' \in BOOLEAN
    BY <1>3, Zenon DEF DeletePod
  <2> QED
    BY <1>3, <2>1 DEF DeletePod
<1>4. CASE StoreDestroyed
  BY <1>4 DEF StoreDestroyed
<1> QED
  BY <1>1, <1>2, <1>3, <1>4 DEF DestroyBody

\* A step of the watchdog or of the cluster.
LEMMA ClusterType ==
    ASSUME ProcessTypeOK, SandboxTypeOK,
           \/ WatchdogFires \/ WatchdogExits
           \/ LateCreate \/ PodStarts \/ PodExits \/ DeadlineExceeded
    PROVE  SandboxTypeOK'
BY DEF ProcessTypeOK, SandboxTypeOK, clusterVars, provisionVars, destroyVars, watchdogVars,
       WatchdogFires, WatchdogExits, LateCreate, PodAppears, PodStarts, PodExits, PodFails,
       DeadlineExceeded

\* And a step of a sweep.
LEMMA SweepType ==
    ASSUME ProcessTypeOK, SandboxTypeOK, GCTypeOK,
           (SweepStart("pods") /\ UNCHANGED sandboxVars) \/ SweepPods
    PROVE  SandboxTypeOK' /\ GCTypeOK'
<1> USE KubernetesGCAssumption DEF ProcessTypeOK, SandboxTypeOK, GCTypeOK
<1>1. CASE SweepStart("pods") /\ UNCHANGED sandboxVars
  BY <1>1 DEF SweepStart, sandboxVars, clusterVars, destroyVars, watchdogVars, provisionVars
<1>2. CASE SweepPods
  <2>1. o' = NoOptions /\ sweepNow' = 0 /\ gpc' = "idle"
    BY <1>2 DEF SweepPods, SweepOn
  <2>2. NoOptions \in [force : BOOLEAN, dryRun : BOOLEAN]
    BY Zenon DEF NoOptions
  <2> QED
    BY <1>2, <2>1, <2>2 DEF SweepPods, destroyVars, watchdogVars, provisionVars
<1> QED
  BY <1>1, <1>2

\* Every step of the composed system keeps every variable well typed.
LEMMA TypeStep == TypeOK /\ [Next]_vars => TypeOK'
<1> SUFFICES ASSUME TypeOK, [Next]_vars PROVE TypeOK'
  OBVIOUS
<1>a. ProcessTypeOK /\ DrillTypeOK /\ SandboxTypeOK /\ GCTypeOK
  BY DEF TypeOK
<1>b. ASSUME UNCHANGED processVars PROVE ProcessTypeOK'
  BY <1>a, <1>b DEF processVars, ProcessTypeOK
<1>c. ASSUME UNCHANGED drillVars PROVE DrillTypeOK'
  BY <1>a, <1>c DEF drillVars, DrillTypeOK, PCs
<1>d. ASSUME UNCHANGED sandboxVars PROVE SandboxTypeOK'
  BY <1>a, <1>d DEF sandboxVars, clusterVars, destroyVars, watchdogVars, provisionVars, SandboxTypeOK
<1>e. ASSUME UNCHANGED gcVars PROVE GCTypeOK'
  BY <1>a, <1>e DEF gcVars, GCTypeOK
<1>1. CASE DrillAction
  <2>1. destroyed \in BOOLEAN
    BY <1>a DEF SandboxTypeOK
  <2>2. DrillTypeOK'
    BY <1>1, <1>a, <2>1, DrillStepType DEF DrillAction
  <2> QED
    BY <1>1, <2>2, <1>b, <1>d, <1>e DEF DrillAction, TypeOK
<1>2. CASE ProvisionAction
  <2>1. SandboxTypeOK'
    BY <1>2, <1>a, ProvisionType DEF ProvisionAction
  <2> QED
    BY <1>2, <2>1, <1>b, <1>c, <1>e DEF ProvisionAction, TypeOK
<1>3. CASE ProvisionReturns
  <2>1. DrillTypeOK'
    BY <1>3, <1>a, ProvisionReturnType DEF ProvisionReturns
  <2> QED
    BY <1>3, <2>1, <1>b, <1>d, <1>e DEF ProvisionReturns, TypeOK
<1>4. CASE DestroyAction
  <2>1. SandboxTypeOK'
    BY <1>4, <1>a, DestroyType DEF DestroyAction
  <2> QED
    BY <1>4, <2>1, <1>b, <1>c, <1>e DEF DestroyAction, TypeOK
<1>5. CASE WatchdogAction \/ ClusterAction
  <2>1. SandboxTypeOK'
    BY <1>5, <1>a, ClusterType DEF WatchdogAction, ClusterAction
  <2> QED
    BY <1>5, <2>1, <1>b, <1>c, <1>e DEF WatchdogAction, ClusterAction, TypeOK
<1>6. CASE GCAction
  <2>1. SandboxTypeOK' /\ GCTypeOK'
    BY <1>6, <1>a, SweepType DEF GCAction
  <2> QED
    BY <1>6, <2>1, <1>b, <1>c DEF GCAction, TypeOK
<1>7. CASE EnvironmentAction
  <2>0. alive' \in BOOLEAN /\ cancelled' \in BOOLEAN
    BY <1>7, <1>a, Zenon DEF EnvironmentAction, Tick, Interrupt, Kill, ProcessTypeOK
  <2>1. ProcessTypeOK'
    BY <1>7, <1>a, <2>0 DEF EnvironmentAction, Tick, Interrupt, Kill, ProcessTypeOK
  <2> QED
    BY <1>7, <2>1, <1>c, <1>d, <1>e DEF EnvironmentAction, TypeOK
<1>8. CASE UNCHANGED vars
  BY <1>8, <1>b, <1>c, <1>d, <1>e DEF vars, TypeOK
<1> QED
  BY <1>1, <1>2, <1>3, <1>4, <1>5, <1>6, <1>7, <1>8 DEF Next

-----------------------------------------------------------------------------
(* The invariant is inductive.  Each lemma is about one actor.             *)

\* The initial states satisfy the invariant, also where an earlier drill has
\* left the namespace and the policy.
LEMMA InvInit == Init => IInv
<1> SUFFICES ASSUME Init PROVE IInv
  OBVIOUS
<1>1. ProcessTypeOK
  BY DEF Init, ProcessInit, ProcessTypeOK
<1>2. DrillTypeOK /\ OrderInv /\ ChecksInv
  BY DrillInitType DEF Init
<1>3. SandboxTypeOK
  BY DEF Init, SandboxInit, SandboxTypeOK
<1>4. GCTypeOK
  BY DEF Init, GCInit, GCTypeOK, NoOptions
<1>5. Core
  BY DEF Init, DrillInit, SandboxInit, Core, PhaseInv, HandleInv, IsolationInv, DestroyInv,
         RecordInv, PodExists
<1> QED
  BY <1>1, <1>2, <1>3, <1>4, <1>5 DEF IInv, TypeOK

\* The orchestrating goroutine.
LEMMA DrillInvStep ==
    ASSUME IInv, DrillAction
    PROVE  Core'
<1> USE DEF IInv, TypeOK, DrillTypeOK, SandboxTypeOK, PCs, Core, OrderInv, PhaseInv, HandleInv,
            IsolationInv, DestroyInv, RecordInv, PodExists, sandboxVars, clusterVars, destroyVars,
            watchdogVars, provisionVars
<1> DEFINE up == IF pc = "verify" THEN Connected ELSE Up
<1>0. UNCHANGED sandboxVars
  BY DEF DrillAction
<1>1. CASE Fetch
  BY <1>0, <1>1 DEF Fetch, Fail
<1>2. CASE Restore(up)
  BY <1>0, <1>2 DEF Restore
<1>3. CASE OpenEngine
  BY <1>0, <1>3 DEF OpenEngine, Fail
<1>4. CASE Verify(up)
  BY <1>0, <1>4 DEF Verify
<1>5. CASE VerifyDone
  BY <1>0, <1>5 DEF VerifyDone
<1>6. CASE Teardown(once = "done", destroyed)
  BY <1>0, <1>6 DEF Teardown
<1>7. CASE WriteEvidence
  BY <1>0, <1>7 DEF WriteEvidence, Fail
<1>8. CASE SignEvidence
  BY <1>0, <1>8 DEF SignEvidence, Fail
<1>9. CASE AttestEvidence
  BY <1>0, <1>9 DEF AttestEvidence, Fail
<1>10. CASE WriteHTML
  BY <1>0, <1>10 DEF WriteHTML, Fail
<1>11. CASE NotifySinks
  BY <1>0, <1>11 DEF NotifySinks
<1>12. CASE Cleanup
  BY <1>0, <1>12 DEF Cleanup
<1> QED
  BY <1>1, <1>2, <1>3, <1>4, <1>5, <1>6, <1>7, <1>8, <1>9, <1>10, <1>11, <1>12
  DEF DrillAction, DrillStep

\* Provision: the policy is there before a pod is asked for, and a create call
\* is left in flight only by giving up.
LEMMA ProvisionInvStep ==
    ASSUME IInv, ProvisionAction
    PROVE  Core'
<1> USE DEF IInv, TypeOK, DrillTypeOK, SandboxTypeOK, Core, OrderInv, PhaseInv, HandleInv,
            IsolationInv, DestroyInv, RecordInv, PodExists, Up, PodAppears, drillVars, clusterVars,
            destroyVars, watchdogVars
<1>0. UNCHANGED drillVars /\ pc = "provision"
  BY DEF ProvisionAction
<1>1. CASE Configure
  BY <1>0, <1>1 DEF Configure
<1>2. CASE ensureNamespace(CtxDone)
  <2>1. /\ namespace' \/ (ppc' = "abort" /\ (namespace => namespace'))
        /\ ppc = "namespace" /\ ppc' \in {"policy", "abort"}
        /\ UNCHANGED <<policy, pod, podBorn, podStart, inflight, destroyVars, watchdogVars,
                       expiresAt, inCluster, readyBy, forward>>
    BY <1>2, Zenon DEF ensureNamespace
  <2> QED
    BY <1>0, <2>1
<1>3. CASE EnsureDenyEgressPolicy(CtxDone)
  <2>1. /\ policy' \/ (ppc' = "abort" /\ (policy => policy'))
        /\ ppc = "policy" /\ ppc' \in {"create", "abort"}
        /\ UNCHANGED <<namespace, pod, podBorn, podStart, inflight, destroyVars, watchdogVars,
                       inCluster, readyBy, forward>>
    BY <1>3, Zenon DEF EnsureDenyEgressPolicy
  <2> QED
    BY <1>0, <2>1
<1>4. CASE CreatePod(CtxDone)
  BY <1>0, <1>4 DEF CreatePod
<1>5. CASE waitReady(CtxDone)
  BY <1>0, <1>5 DEF waitReady
<1>6. CASE Connect(CtxDone)
  BY <1>0, <1>6 DEF Connect
<1>7. CASE Aborted
  BY <1>0, <1>7 DEF Aborted
<1> QED
  BY <1>1, <1>2, <1>3, <1>4, <1>5, <1>6, <1>7 DEF ProvisionAction, Provision

\* Provision's return to Run.
LEMMA ReturnInvStep ==
    ASSUME IInv, ProvisionReturns
    PROVE  Core'
BY DEF IInv, TypeOK, DrillTypeOK, SandboxTypeOK, PCs, Core, OrderInv, PhaseInv, HandleInv,
       IsolationInv, DestroyInv, RecordInv, PodExists, ProvisionReturns, Provisioned,
       ProvisionFailed, Fail, sandboxVars, clusterVars, destroyVars, watchdogVars, provisionVars

\* Destroy, in whichever goroutine.
LEMMA DestroyInvStep ==
    ASSUME IInv, DestroyAction
    PROVE  Core'
<1> USE DEF IInv, TypeOK, DrillTypeOK, SandboxTypeOK, Core, OrderInv, PhaseInv, HandleInv,
            IsolationInv, DestroyInv, RecordInv, PodExists, drillVars, clusterVars, watchdogVars,
            provisionVars, CancelTTL
<1>0. UNCHANGED drillVars
  BY DEF DestroyAction
<1>1. CASE EnterDestroy(pc \in {"teardown", "unwind"})
  BY <1>0, <1>1 DEF EnterDestroy
<1>2. CASE Release
  BY <1>0, <1>2 DEF Release
<1>3. CASE DeletePod
  BY <1>0, <1>3 DEF DeletePod
<1>4. CASE StoreDestroyed
  BY <1>0, <1>4 DEF StoreDestroyed
<1> QED
  BY <1>1, <1>2, <1>3, <1>4 DEF DestroyAction, DestroyBody

\* The watchdog goroutine.
LEMMA WatchdogInvStep ==
    ASSUME IInv, WatchdogAction
    PROVE  Core'
BY DEF IInv, TypeOK, SandboxTypeOK, Core, OrderInv, PhaseInv, HandleInv, IsolationInv, DestroyInv,
       RecordInv, PodExists, WatchdogAction, WatchdogFires, WatchdogExits, drillVars, clusterVars,
       destroyVars, provisionVars

\* The cluster: a late create, and pods that start and end.
LEMMA ClusterInvStep ==
    ASSUME IInv, ClusterAction
    PROVE  Core'
<1> USE DEF IInv, TypeOK, SandboxTypeOK, Core, OrderInv, PhaseInv, HandleInv, IsolationInv,
            DestroyInv, RecordInv, PodExists, Up, drillVars, destroyVars, watchdogVars, provisionVars
<1>0. UNCHANGED drillVars
  BY DEF ClusterAction
<1>1. CASE LateCreate
  BY <1>0, <1>1 DEF LateCreate, PodAppears
<1>2. CASE PodStarts
  BY <1>0, <1>2 DEF PodStarts
<1>3. CASE PodExits \/ DeadlineExceeded
  BY <1>0, <1>3 DEF PodExits, DeadlineExceeded, PodFails
<1> QED
  BY <1>1, <1>2, <1>3 DEF ClusterAction

\* A sweep: it only ever takes a pod away.
LEMMA SweepInvStep ==
    ASSUME IInv, GCAction
    PROVE  Core'
BY DEF IInv, TypeOK, SandboxTypeOK, Core, OrderInv, PhaseInv, HandleInv, IsolationInv, DestroyInv,
       RecordInv, PodExists, GCAction, SweepPods, drillVars, sandboxVars, clusterVars, destroyVars,
       watchdogVars, provisionVars

\* Steps that leave Run and the sandbox alone.
LEMMA FrameInvStep ==
    ASSUME IInv, UNCHANGED <<drillVars, sandboxVars>>
    PROVE  Core'
BY DEF IInv, Core, PhaseInv, HandleInv, IsolationInv, DestroyInv, RecordInv, PodExists, drillVars,
       sandboxVars, clusterVars, destroyVars, watchdogVars, provisionVars

\* Every step preserves the invariant.
LEMMA InvStep == IInv /\ [Next]_vars => IInv'
<1> SUFFICES ASSUME IInv, [Next]_vars PROVE IInv'
  OBVIOUS
<1>1. TypeOK'
  BY TypeStep DEF IInv
<1>2. Core'
  <2>1. CASE EnvironmentAction \/ UNCHANGED vars
    BY <2>1, FrameInvStep DEF EnvironmentAction, vars
  <2> QED
    BY <2>1, DrillInvStep, ProvisionInvStep, ReturnInvStep, DestroyInvStep, WatchdogInvStep,
       ClusterInvStep, SweepInvStep DEF Next
<1>3. OrderInv' /\ ChecksInv'
  <2>1. CASE DrillAction \/ ProvisionReturns
    BY <2>1, OrderStep, ChecksStep DEF IInv, TypeOK, DrillAction, ProvisionReturns
  <2>2. CASE UNCHANGED drillVars
    BY <2>2, DrillFrame DEF IInv
  <2> QED
    BY <2>1, <2>2 DEF Next, vars, ProvisionAction, DestroyAction, WatchdogAction, ClusterAction,
                      GCAction, EnvironmentAction
<1> QED
  BY <1>1, <1>2, <1>3 DEF IInv

\* The inductive invariant holds throughout every drill.
LEMMA Invariance == Spec => []IInv
BY InvInit, InvStep, PTL DEF Spec

-----------------------------------------------------------------------------
(* The theorems.                                                           *)

\* Every variable of the composed drill keeps its type, for every choice of
\* the constants.
THEOREM TypeCorrect == Spec => []TypeOK
<1>1. IInv => TypeOK
  BY DEF IInv
<1> QED
  BY <1>1, Invariance, PTL

\* No pod of a drill, a late one included, is ever in the namespace without
\* the deny-egress policy that EnsureDenyEgressPolicy puts there first.
THEOREM PodsAreIsolated == Spec => []IsolatedFromBirth
<1>1. IInv => IsolatedFromBirth
  BY DEF IInv, Core, IsolationInv, IsolatedFromBirth, PodExists
<1> QED
  BY <1>1, Invariance, PTL

\* Run returns, on every path, with the backup copy removed, watchdog and
\* port-forward released, and no pod left that Destroy was not tried on.
THEOREM NothingIsForgotten == Spec => []NothingForgotten
<1>1. IInv => NothingForgotten
  BY DEF IInv, Core, PhaseInv, HandleInv, DestroyInv, RecordInv, NothingForgotten, TypeOK,
         SandboxTypeOK, PodExists
<1> QED
  BY <1>1, Invariance, PTL

\* A verified record stands for the whole spec on this provider too.
THEOREM VerdictCoversSpec == Spec => []VerifiedCoversSpec
<1>1. IInv => VerifiedCoversSpec
  BY VerdictCovers DEF IInv, TypeOK
<1> QED
  BY <1>1, Invariance, PTL

-----------------------------------------------------------------------------
(* Refinement: a kubernetes drill implements SandboxLease.                 *)

\* Once the record is on disk no step brings a pod back: Provision is over, and
\* since it succeeded no create call is in flight.
LEMMA NothingComesBack ==
    ASSUME IInv, [Next]_vars, evidence # "none", PodExists'
    PROVE  PodExists
<1> USE DEF PodExists
<1>0. pc # "provision" /\ inflight = "none"
  BY DEF IInv, TypeOK, SandboxTypeOK, OrderInv, Core, HandleInv, RecordInv
<1>1. CASE UNCHANGED sandboxVars
  BY <1>1 DEF sandboxVars, clusterVars
<1>2. CASE DestroyAction
  BY <1>2 DEF DestroyAction, EnterDestroy, DestroyBody, Release, DeletePod, StoreDestroyed,
              clusterVars
<1>3. CASE WatchdogAction
  BY <1>3 DEF WatchdogAction, WatchdogFires, WatchdogExits, clusterVars
<1>4. CASE GCAction
  BY <1>1, <1>4 DEF GCAction, SweepPods
<1>5. CASE ClusterAction
  BY <1>0, <1>5 DEF ClusterAction, LateCreate, PodStarts, PodExits, DeadlineExceeded, PodFails, Up
<1> QED
  BY <1>0, <1>1, <1>2, <1>3, <1>4, <1>5
  DEF Next, vars, DrillAction, ProvisionAction, ProvisionReturns, EnvironmentAction

\* The word on disk changes only when the record is written.
LEMMA FateIsWrittenOnce ==
    ASSUME IInv, [Next]_vars, RecordedFate' # RecordedFate
    PROVE  WriteEvidence /\ evidence = "none" /\ UNCHANGED sandboxVars
<1>1. CASE UNCHANGED drillVars
  BY <1>1, DrillFrame
<1>2. CASE DrillAction \/ ProvisionReturns
  BY <1>2, FateStep DEF IInv, TypeOK, DrillAction, ProvisionReturns
<1> QED
  BY <1>1, <1>2 DEF Next, vars, ProvisionAction, DestroyAction, WatchdogAction, ClusterAction,
                    GCAction, EnvironmentAction

\* Writing the record is publishing it, and the lease's proviso holds.
LEMMA WritePublishes ==
    ASSUME IInv, WriteEvidence, evidence = "none", UNCHANGED sandboxVars,
           RecordedFate' # RecordedFate
    PROVE  Lease!Publish
<1>1. RecordedFate = "none" /\ RecordedFate' \in {"standing", "destroyed"}
  BY DEF RecordedFate, WriteEvidence
<1>2. PodExists' = PodExists
  BY DEF PodExists, sandboxVars, clusterVars
<1>3. ASSUME RecordedFate' = "destroyed" PROVE ~PodExists
  <2>1. claim
    BY <1>3 DEF RecordedFate, WriteEvidence
  <2>2. destroyed /\ once = "done" /\ ppc = "ok"
    BY <2>1 DEF IInv, Core, PhaseInv, RecordInv, WriteEvidence
  <2> QED
    BY <2>2 DEF IInv, Core, HandleInv, DestroyInv, TypeOK, SandboxTypeOK
<1> QED
  BY <1>1, <1>2, <1>3 DEF Lease!Publish

\* Every step of a kubernetes drill is a step of the lease or leaves it alone.
LEMMA LeaseStep ==
    IInv /\ [Next]_vars => [Lease!LeaseNext]_<<PodExists, RecordedFate>>
<1> SUFFICES ASSUME IInv, [Next]_vars
             PROVE  [Lease!LeaseNext]_<<PodExists, RecordedFate>>
  OBVIOUS
<1>1. CASE RecordedFate' # RecordedFate
  BY <1>1, FateIsWrittenOnce, WritePublishes DEF Lease!LeaseNext
<1>2. CASE RecordedFate' = RecordedFate
  <2>1. CASE ~PodExists'
    <3>1. PodExists' = FALSE
      BY <2>1 DEF PodExists
    <3> QED
      BY <1>2, <3>1 DEF Lease!LeaseNext, Lease!Release
  <2>2. CASE PodExists' /\ evidence = "none"
    <3>1. PodExists' = TRUE
      BY <2>2 DEF PodExists
    <3> QED
      BY <1>2, <2>2, <3>1 DEF Lease!LeaseNext, Lease!Acquire, RecordedFate
  <2>3. CASE PodExists' /\ evidence # "none"
    <3>1. PodExists' = PodExists
      BY <2>3, NothingComesBack DEF PodExists
    <3> QED
      BY <1>2, <3>1
  <2> QED
    BY <2>1, <2>2, <2>3
<1> QED
  BY <1>1, <1>2

\* A drill on the kubernetes provider keeps the promise SandboxLease states: a
\* record that says "destroyed" is true when it is written and stays true.
THEOREM KubernetesImplementsLease == Spec => ImplementsLease
<1>1. Init => Lease!LeaseInit
  BY DEF Init, DrillInit, SandboxInit, Lease!LeaseInit, PodExists, RecordedFate
<1> QED
  BY <1>1, LeaseStep, Invariance, PTL DEF Spec, ImplementsLease, Lease!LeaseSpec
=============================================================================
