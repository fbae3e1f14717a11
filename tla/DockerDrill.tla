---------------------------- MODULE DockerDrill ----------------------------
(***************************************************************************)
(* A drill on the docker provider: the orchestrating goroutine (Drill),    *)
(* the provider with its watchdog goroutine (DockerSandbox) and a garbage  *)
(* collector in another process (DockerGC), against the clock, signals and *)
(* crashes of the drill's process (Process).                               *)
(***************************************************************************)
EXTENDS Drill, DockerGC

vars == <<processVars, drillVars, sandboxVars, gcVars>>

Init ==
    /\ ProcessInit
    /\ DrillInit
    /\ SandboxInit
    /\ GCInit

TypeOK ==
    /\ ProcessTypeOK
    /\ DrillTypeOK
    /\ SandboxTypeOK
    /\ GCTypeOK

\* The main goroutine is in teardown(), inside sb.Destroy.
MainDestroys == pc \in {"teardown", "unwind"}

\* The main goroutine outside Provision.
DrillAction ==
    /\ alive
    /\ DrillStep(Up, once = "done", destroyed)
    /\ UNCHANGED <<processVars, sandboxVars, gcVars>>

\* The main goroutine inside Provision.
ProvisionAction ==
    /\ alive
    /\ pc = "provision"
    /\ Provision(CtxDone, d.coldStart)
    /\ UNCHANGED <<processVars, drillVars, gcVars>>

\* Provision returns to Run.
ProvisionReturns ==
    /\ alive
    /\ \/ ppc = "ok" /\ Provisioned
       \/ ppc = "failed" /\ ProvisionFailed
    /\ UNCHANGED <<processVars, sandboxVars, gcVars>>

\* Destroy, in the main goroutine or in the watchdog.
DestroyAction ==
    /\ alive
    /\ EnterDestroy(MainDestroys) \/ DestroyBody
    /\ UNCHANGED <<processVars, drillVars, gcVars>>

WatchdogAction ==
    /\ alive
    /\ WatchdogFires \/ WatchdogExits
    /\ UNCHANGED <<processVars, drillVars, gcVars>>

GCAction ==
    /\ SweepStep
    /\ UNCHANGED <<processVars, drillVars>>

\* Time, signals and crashes.
EnvironmentAction ==
    /\ Tick \/ Interrupt \/ Kill
    /\ UNCHANGED <<drillVars, sandboxVars, gcVars>>

Next ==
    \/ DrillAction
    \/ ProvisionAction
    \/ ProvisionReturns
    \/ DestroyAction
    \/ WatchdogAction
    \/ GCAction
    \/ EnvironmentAction

Spec == Init /\ [][Next]_vars

-----------------------------------------------------------------------------
(* Safety.                                                                 *)

\* A record that states "sandbox destroyed" is true for good: no container
\* and no network of this drill exists once it is on disk, whatever order
\* teardown, watchdog and garbage collector took.
DestroyedClaimIsTrue ==
    evidence # "none" /\ recorded => ~Standing

\* The record on disk, the evidence handed back in memory and the sandbox's
\* own flag agree from the write on: the deferred second teardown and a late
\* watchdog cannot make the signed statement differ from the sandbox's fate.
RecordMatchesSandbox ==
    evidence # "none" => /\ once = "done"
                         /\ recorded = destroyed
                         /\ claim = destroyed

\* Run never walks away from what it knows of: when it has returned, on
\* whichever path, the backup copy is gone, the watchdog is not left waiting
\* on its timer, and a container or network it holds an ID for is left only
\* if Destroy tried and reported the failure.
NothingForgotten ==
    pc = "returned" =>
        /\ ~spool
        /\ watchdog # "armed"
        /\ (containerID /\ ContainerExists) \/ (networkID /\ NetworkExists)
              => once = "done" /\ destroyErr

\* gc.go promises that the expiry label lets a sweep "distinguish live drills
\* from orphans": an unforced sweep must not pick a container whose drill is
\* alive and whose own TTL watchdog still has time left.
LeaseRespected ==
    condemned /\ ~o.force /\ ContainerExists =>
        ~(alive /\ watchdog = "armed" /\ clock < expiry)

\* The sandbox was lost (watchdog, garbage collector) before any check had
\* looked at restored data.
LostBeforeProof ==
    /\ pc \in {"restore", "engine", "verify"}
    /\ ~Up
    /\ \A i \in DOMAIN checks : checks[i].name \notin dataCheckNames

\* Such a drill never claims a verified recovery later on.
LostSandboxNeverVerifies ==
    [](LostBeforeProof => [](~verified))

-----------------------------------------------------------------------------
(* The promise every provider keeps.                                       *)

Lease == INSTANCE SandboxLease WITH held <- Standing, record <- RecordedFate

\* A docker drill implements the lease.
ImplementsLease == Lease!LeaseSpec

-----------------------------------------------------------------------------
(* Liveness.                                                               *)

MainAction == DrillAction \/ ProvisionAction \/ ProvisionReturns

\* Time passes, goroutines get scheduled, and the daemon answers the calls that
\* carry no deadline (those of Destroy).  Nothing is assumed of the main
\* goroutine, which may hang in a call for ever.
Fairness ==
    /\ WF_vars(Tick /\ UNCHANGED <<drillVars, sandboxVars, gcVars>>)
    /\ WF_vars(WatchdogAction)
    /\ WF_vars(DestroyAction)

FairSpec == Spec /\ Fairness

\* The main goroutine may be reading the output of a docker exec: the hijacked
\* connection does not look at the context, only the end of the container (or
\* of the command) closes it.
InExec == Up /\ (ppc = "ready" \/ pc \in {"restore", "verify"})

\* Every other call of the main goroutine may hang for as long as its context
\* lives, but not longer.
CallsEndWithContext == WF_vars(MainAction /\ CtxDone /\ ~InExec)

\* `firedrill gc` keeps being run, and a removal it could make again and
\* again is not refused for ever.
SweepsGoOn ==
    /\ WF_vars(GCAction)
    /\ SF_vars(GCAction /\ container' # container)
    /\ SF_vars(GCAction /\ network' # network)

\* Even if the main goroutine hangs for ever in a call that ignores its
\* context, an armed watchdog gets Destroy run to its end.
WatchdogBackstop ==
    watchdog = "armed" ~> (once = "done" \/ ~alive)

\* A drill whose watchdog is armed ends without anybody's help, also when the
\* goroutine reads the output of an exec that never ends: Destroy takes the
\* container away from under it.  Only a removal that failed leaves it hanging,
\* for the Once is spent.
ArmedDrillEnds ==
    CallsEndWithContext =>
        (watchdog = "armed" ~> (pc = "returned" \/ ~alive \/ (once = "done" /\ Up)))

\* drill.go: the whole drill, provisioning before the watchdog is armed
\* included, is bounded "so nothing can hang indefinitely".
NothingHangs == CallsEndWithContext => <>(pc = "returned" \/ ~alive)

\* Left standing although its lease ends within the clock's bound.
Overdue ==
    \/ ContainerExists /\ expiresAt < MaxTime
    \/ NetworkExists /\ ~Up /\ networkBorn + OlderThan < MaxTime

\* Whatever was left behind (by a crash at any point, by a create call whose
\* reply was lost, by a Destroy that failed and is never retried) is
\* eventually gone for good.
EventuallyReclaimed == SweepsGoOn => <>[](~Overdue)
=============================================================================
