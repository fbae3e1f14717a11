-------------------------- MODULE KubernetesDrill --------------------------
(***************************************************************************)
(* A drill on the kubernetes provider: the orchestrating goroutine (Drill),*)
(* the provider with its watchdog goroutine (KubernetesSandbox), sweeps of *)
(* another process (KubernetesGC) and a cluster that acts on its own,      *)
(* against the clock, signals and crashes of the drill's process.          *)
(***************************************************************************)
EXTENDS Drill, KubernetesSandbox, KubernetesGC

vars == <<processVars, drillVars, sandboxVars, gcVars>>

Init ==
    /\ ProcessInit
    /\ DrillInit
    /\ SandboxInit
    /\ GCInit

TypeOK ==
    /\ ProcessTypeOK
    /\ DrillTypeOK
    /\ SandboxTypeOK
    /\ GCTypeOK

\* The main goroutine outside Provision.  A restore goes through Exec, the
\* checks through the engine's port.
DrillAction ==
    /\ alive
    /\ DrillStep(IF pc = "verify" THEN Connected ELSE Up, once = "done", destroyed)
    /\ UNCHANGED <<processVars, sandboxVars, gcVars>>

\* The main goroutine inside Provision.
ProvisionAction ==
    /\ alive
    /\ pc = "provision"
    /\ Provision(CtxDone)
    /\ UNCHANGED <<processVars, drillVars, gcVars>>

\* Provision returns to Run.
ProvisionReturns ==
    /\ alive
    /\ \/ ppc = "ok" /\ Provisioned
       \/ ppc = "failed" /\ ProvisionFailed
    /\ UNCHANGED <<processVars, sandboxVars, gcVars>>

\* Destroy, in the main goroutine (teardown, or a failing Provision) or in
\* the watchdog.
DestroyAction ==
    /\ alive
    /\ EnterDestroy(pc \in {"teardown", "unwind"}) \/ DestroyBody
    /\ UNCHANGED <<processVars, drillVars, gcVars>>

WatchdogAction ==
    /\ alive
    /\ WatchdogFires \/ WatchdogExits
    /\ UNCHANGED <<processVars, drillVars, gcVars>>

\* Mutant: a sweep passes over pods that have ended already.
SweepPodsRunningOnly ==
    /\ SweepOn("pods", "idle")
    /\ \/ Up /\ expired(expiresAt, podBorn) /\ ~o.dryRun /\ pod' = "removed"
       \/ UNCHANGED pod
    /\ UNCHANGED <<namespace, policy, podBorn, podStart, inflight, destroyVars, provisionVars,
                   watchdogVars, forward>>

\* Pods: listed by label, whatever their phase, and deleted when expired.  A
\* failed call is reported and the sweep goes on; nothing else it looks at
\* belongs to an engine drill.
SweepPods ==
    /\ SweepOn("pods", "idle")
    /\ \/ PodExists /\ expired(expiresAt, podBorn) /\ ~o.dryRun /\ pod' = "removed"
       \/ UNCHANGED pod
    /\ UNCHANGED <<namespace, policy, podBorn, podStart, inflight, destroyVars, provisionVars,
                   watchdogVars, forward>>

GCAction ==
    /\ \/ SweepStart("pods") /\ UNCHANGED sandboxVars
       \/ SweepPods
    /\ UNCHANGED <<processVars, drillVars>>

ClusterAction ==
    /\ LateCreate \/ PodStarts \/ PodExits \/ DeadlineExceeded
    /\ UNCHANGED <<processVars, drillVars, gcVars>>

\* Time, signals and crashes.
EnvironmentAction ==
    /\ Tick \/ Interrupt \/ Kill
    /\ UNCHANGED <<drillVars, sandboxVars, gcVars>>

Next ==
    \/ DrillAction
    \/ ProvisionAction
    \/ ProvisionReturns
    \/ DestroyAction
    \/ WatchdogAction
    \/ GCAction
    \/ ClusterAction
    \/ EnvironmentAction

Spec == Init /\ [][Next]_vars

-----------------------------------------------------------------------------
(* Safety.                                                                 *)

\* A pod that holds (or may come to hold) restored data is never in the
\* namespace without the policy that cuts it off, be it a pod whose create
\* call was given up and took effect after Provision had failed.
IsolatedFromBirth == PodExists => namespace /\ policy

\* Run never walks away from what it knows of: when it has returned, on
\* whichever path, the backup copy is gone, no goroutine of the sandbox (TTL
\* timer, port-forward) is left waiting, and a pod is left only if Destroy
\* reported that it could not delete it, or if a create call that had reported
\* an error took effect behind Destroy's back.
NothingForgotten ==
    pc = "returned" =>
        /\ ~spool
        /\ watchdog # "armed"
        /\ forward # "open"
        /\ PodExists => once = "done" /\ (destroyErr \/ inflight = "landed")

-----------------------------------------------------------------------------
(* The promise every provider keeps.                                       *)

Lease == INSTANCE SandboxLease WITH held <- PodExists, record <- RecordedFate

\* A kubernetes drill implements the lease: a record that says "destroyed" is
\* true when it is written and stays true.  In particular "not found" may be
\* taken for "deleted", although a pod may appear after its deletion: by the
\* time there is a record, the create call had been answered.
ImplementsLease == Lease!LeaseSpec

-----------------------------------------------------------------------------
(* Liveness.                                                               *)

\* Time passes, goroutines get scheduled, the API server answers the calls
\* that carry no deadline (those of Destroy), and the kubelet enforces
\* activeDeadlineSeconds.  Nothing is assumed of the main goroutine.
Fairness ==
    /\ WF_vars(Tick /\ UNCHANGED <<drillVars, sandboxVars, gcVars>>)
    /\ WF_vars(WatchdogAction)
    /\ WF_vars(DestroyAction)
    /\ WF_vars(DeadlineExceeded /\ UNCHANGED <<processVars, drillVars, gcVars>>)

FairSpec == Spec /\ Fairness

\* Sweeps keep being run, and a deletion one could make again and again is not
\* refused for ever.
SweepsGoOn ==
    /\ WF_vars(GCAction)
    /\ SF_vars(SweepPods /\ pod' # pod /\ UNCHANGED <<processVars, drillVars>>)

\* kubernetes.go calls activeDeadlineSeconds a "TTL backstop that survives the
\* drill process dying": a started sandbox stops running even if the process
\* is killed at any point and no sweep ever runs.
PodRunEnds ==
    (Up /\ podStart + TTL + DeadlineSlack <= MaxTime) ~> ~Up

\* With sweeps, the pod object goes too, whoever left it: a crash, a Destroy
\* that failed, a create call that took effect after the drill had ended.
EventuallyReclaimed ==
    SweepsGoOn => <>[](~(PodExists /\ expiresAt < MaxTime))
=============================================================================
