---------------------------- MODULE VeleroDrill ----------------------------
(***************************************************************************)
(* A namespace-level drill: runVelero in the orchestrating goroutine, the  *)
(* velero driver with its watchdog goroutine (VeleroSandbox), sweeps of    *)
(* another process (KubernetesGC), and the cluster and the Velero server   *)
(* acting on their own.  From the explicit teardown on the goroutine is in *)
(* the code every drill shares (Drill).                                    *)
(***************************************************************************)
EXTENDS Drill, VeleroSandbox, KubernetesGC

CONSTANTS
    PodsTimeout,    \* podsReady's timeout
    stablePolls     \* how many looks in a row podsReady wants to be good

ASSUME VeleroAssumption == PodsTimeout \in Nat /\ stablePolls \in Nat \ {0}

VARIABLES
    polling,        \* the goroutine is in podsReady's loop
    podsBy,         \* the loop's deadline
    stable,         \* podsReady's counter
    goodLooks       \* history: how many of its last looks in a row were good

podsVars == <<polling, podsBy, stable, goodLooks>>
vars == <<processVars, drillVars, sandboxVars, podsVars, gcVars>>

Init ==
    /\ ProcessInit
    /\ DrillInit
    /\ SandboxInit
    /\ polling = FALSE /\ podsBy = 0 /\ stable = 0 /\ goodLooks = 0
    /\ GCInit

TypeOK ==
    /\ ProcessTypeOK
    /\ DrillTypeOK
    /\ SandboxTypeOK
    /\ polling \in BOOLEAN /\ podsBy \in Nat /\ stable \in Nat /\ goodLooks \in Nat
    /\ GCTypeOK

-----------------------------------------------------------------------------
(* runVelero.                                                              *)

\* Run hands over to runVelero; Prepare reads the Backup object, which must be
\* in phase Completed.  Nothing is deferred yet when it fails.
GetBackup ==
    /\ pc = "fetch"
    /\ \/ /\ ~CtxDone
          /\ backupAge' \in Ages
          /\ pc' = "provision"
          /\ ppc' = "namespace"
          /\ UNCHANGED result
       \/ Fail("returned") /\ UNCHANGED <<backupAge, ppc>>
    /\ UNCHANGED <<d, deadline, spool, restoreStart, restoreErr, restoreDur, checks, claim,
                   evidence, recorded, verified, delivered, clusterVars, expiresAt, rpc,
                   restoreName, watchdogVars, destroyVars>>

\* Prepare returns: the teardown is deferred and the context is narrowed.
PrepareReturns ==
    /\ \/ ppc = "ok" /\ Provisioned
       \/ ppc \in {"refused", "failed"} /\ ProvisionFailed
    /\ UNCHANGED sandboxVars

\* What Restore returns to runVelero; a failed restore is a drill result.
RestoreReturns(err, dur) ==
    /\ restoreErr' = err
    /\ restoreDur' = dur
    /\ restoreStart' = 0
    /\ pc' = "verify"
    /\ UNCHANGED <<d, deadline, spool, backupAge, checks, claim, evidence, recorded, verified,
                   delivered, result>>

\* The name first, then the clock, then the create call.
StartRestore ==
    /\ pc = "restore"
    /\ \/ /\ NameRestore
          /\ restoreStart' = clock
          /\ UNCHANGED <<d, pc, deadline, spool, backupAge, restoreErr, restoreDur, checks, claim,
                         evidence, recorded, verified, delivered, result>>
       \/ ~CtxDone /\ RestoreCreated /\ UNCHANGED drillVars
       \/ RestoreNotCreated /\ RestoreReturns(TRUE, 0)

Elapsed == clock - restoreStart

\* Mutant: the loop looks at the phase only, not at the context.
PollRestoreForever ==
    /\ pc = "restore"
    /\ PollingEnds
    /\ \/ ~CtxDone /\ cr = "completed" /\ RestoreReturns(FALSE, Elapsed)
       \/ ~CtxDone /\ cr = "failed" /\ RestoreReturns(TRUE, Elapsed)

\* Mutant: whatever is not a failure counts as the end of the restore.
PollRestoreAnyPhase ==
    /\ pc = "restore"
    /\ PollingEnds
    /\ \/ ~CtxDone /\ cr \in {"running", "completed"} /\ RestoreReturns(FALSE, Elapsed)
       \/ ~CtxDone /\ cr = "failed" /\ RestoreReturns(TRUE, Elapsed)
       \/ CtxDone /\ RestoreReturns(TRUE, 0)

\* The loop sees a terminal phase, or the end of the context.  An error of
\* Get, an object that is gone included, only means another round.
PollRestore ==
    /\ pc = "restore"
    /\ PollingEnds
    /\ \/ ~CtxDone /\ cr = "completed" /\ RestoreReturns(FALSE, Elapsed)
       \/ ~CtxDone /\ cr = "failed" /\ RestoreReturns(TRUE, Elapsed)
       \/ CtxDone /\ RestoreReturns(TRUE, 0)

\* The next check, unless it is a podsReady that has to look at pods.  The
\* object list of a namespace that is going or gone may be empty, which is no
\* error.
VerifyOne ==
    /\ pc = "verify"
    /\ ~polling
    /\ Len(checks) < Len(d.verify)
    /\ LET c == d.verify[Len(checks) + 1] IN
         /\ c.name # "podsReady" \/ restoreErr
         /\ \E answer \in AnswersTo(c, restoreErr, ~CtxDone) \cup {0} :
              /\ answer = 0 => ns = "terminating" /\ ~CtxDone
              /\ checks' = Append(checks, runOne(c, restoreErr, backupAge, answer))
    /\ UNCHANGED <<d, pc, deadline, spool, backupAge, restoreStart, restoreErr, restoreDur, claim,
                   evidence, recorded, verified, delivered, result, podsVars>>

PodsReadyBegins ==
    /\ pc = "verify"
    /\ ~polling
    /\ Len(checks) < Len(d.verify)
    /\ d.verify[Len(checks) + 1].name = "podsReady" /\ ~restoreErr
    /\ polling' = TRUE
    /\ podsBy' = clock + PodsTimeout
    /\ stable' = 0
    /\ goodLooks' = 0
    /\ UNCHANGED drillVars

\* The loop returns.
PodsReadyResult(passed) ==
    /\ polling' = FALSE
    /\ podsBy' = 0
    /\ stable' = 0
    /\ checks' = Append(checks, [name |-> "podsReady", passed |-> passed, skipped |-> FALSE])
    /\ UNCHANGED <<d, pc, deadline, spool, backupAge, restoreStart, restoreErr, restoreDur, claim,
                   evidence, recorded, verified, delivered, result>>

\* What one List call may show: pods come up, crash and recover between any
\* two looks.  With the context done the call can only fail.
Looks == {"error"} \cup (IF CtxDone THEN {} ELSE {"empty", "notReady", "ready"})

Remember(look) == goodLooks' = IF look = "ready" THEN goodLooks + 1 ELSE 0

\* A row of good looks of this length: enough, or another round.
PodsReadyRow(row) ==
    \/ row >= stablePolls /\ PodsReadyResult(TRUE)
    \/ row < stablePolls /\ stable' = row /\ UNCHANGED <<polling, podsBy, drillVars>>

\* Mutant: a list call that fails does not interrupt a row of good looks.
PodsReadyLookKeepingRow ==
    /\ polling
    /\ clock < podsBy
    /\ \E look \in Looks :
         /\ Remember(look)
         /\ \/ look = "ready" /\ PodsReadyRow(stable + 1)
            \/ look = "error" /\ PodsReadyRow(stable)
            \/ look \in {"empty", "notReady"} /\ PodsReadyRow(0)

\* One round: no pods, a pod that is not ready and a failed call all break the
\* row.
PodsReadyLook ==
    /\ polling
    /\ clock < podsBy
    /\ \E look \in Looks :
         /\ Remember(look)
         /\ \/ look = "ready" /\ PodsReadyRow(stable + 1)
            \/ look # "ready" /\ PodsReadyRow(0)

\* Out of time: podsReady's own, or the context's.
PodsReadyGivesUp ==
    /\ polling
    /\ clock >= podsBy \/ CtxDone
    /\ PodsReadyResult(FALSE)
    /\ UNCHANGED goodLooks

\* runVelero fetched no copy: after the deferred teardown it returns.
RunVeleroReturns ==
    /\ pc = "cleanup"
    /\ pc' = "returned"
    /\ UNCHANGED <<d, deadline, spool, backupAge, restoreStart, restoreErr, restoreDur, checks,
                   claim, evidence, recorded, verified, delivered, result>>

\* The code every drill shares, from the last check on.
Finish ==
    \/ ~polling /\ VerifyDone
    \/ Teardown(once = "done", destroyed)
    \/ WriteEvidence
    \/ SignEvidence
    \/ AttestEvidence
    \/ WriteHTML
    \/ NotifySinks
    \/ RunVeleroReturns

\* The main goroutine.
MainAction ==
    /\ alive
    /\ \/ /\ \/ GetBackup
             \/ PrepareReturns
             \/ StartRestore
             \/ PollRestore
             \/ pc = "provision" /\ Prepare(CtxDone) /\ UNCHANGED drillVars
             \/ Finish /\ UNCHANGED sandboxVars
          /\ UNCHANGED podsVars
       \/ VerifyOne /\ UNCHANGED sandboxVars
       \/ (PodsReadyBegins \/ PodsReadyLook \/ PodsReadyGivesUp) /\ UNCHANGED sandboxVars
    /\ UNCHANGED <<processVars, gcVars>>

\* Destroy, in the main goroutine or in the watchdog.
DestroyAction ==
    /\ alive
    /\ EnterDestroy(pc \in {"teardown", "unwind"}) \/ DestroyBody
    /\ UNCHANGED <<processVars, drillVars, podsVars, gcVars>>

WatchdogAction ==
    /\ alive
    /\ WatchdogFires \/ WatchdogExits
    /\ UNCHANGED <<processVars, drillVars, podsVars, gcVars>>

-----------------------------------------------------------------------------
(* Sweeps: what SweepKubernetes does to a velero drill's resources.        *)

\* Mutant: a sweep ends at a namespace that is terminating already.
SweepNamespacesAndStop ==
    /\ IF ns = "terminating"
       THEN SweepOn("namespaces", "idle") /\ UNCHANGED ns
       ELSE /\ SweepOn("namespaces", "restores")
            /\ \/ ns = "active" /\ expired(expiresAt, nsBorn) /\ ~o.dryRun /\ ns' = "terminating"
               \/ UNCHANGED ns
    /\ UNCHANGED <<nsBorn, cr, crBorn, inflight, driverVars, watchdogVars, destroyVars>>

\* Namespaces, by the label Prepare gives them, so not one that Velero has made
\* again: a terminating one is skipped, an expired one deleted.  A delete
\* that fails is reported and the sweep goes on; a list that fails ends the
\* sweep, which leaves no more behind than deletions that all fail.
SweepNamespaces ==
    /\ SweepOn("namespaces", "restores")
    /\ \/ ns = "active" /\ expired(expiresAt, nsBorn) /\ ~o.dryRun /\ ns' = "terminating"
       \/ UNCHANGED ns
    /\ UNCHANGED <<nsBorn, cr, crBorn, inflight, driverVars, watchdogVars, destroyVars>>

\* Restore objects carry no annotation: age alone, or Force, decides.
SweepRestores ==
    /\ SweepOn("restores", "idle")
    /\ \/ /\ RestoreExists /\ ~o.dryRun
          /\ sweepNow - crBorn > OlderThan \/ o.force
          /\ cr' = RestoreDeleted
       \/ UNCHANGED cr
    /\ UNCHANGED <<ns, nsBorn, crBorn, inflight, driverVars, watchdogVars, destroyVars>>

\* The pods a sweep lists first are not a velero drill's.
GCAction ==
    /\ \/ SweepStart("namespaces") /\ UNCHANGED sandboxVars
       \/ SweepNamespaces
       \/ SweepRestores
    /\ UNCHANGED <<processVars, drillVars, podsVars>>

ClusterAction ==
    /\ LateRestore \/ VeleroRecreates \/ RestoreEnds
    /\ UNCHANGED <<processVars, drillVars, podsVars, gcVars>>

\* Time, signals and crashes.
EnvironmentAction ==
    /\ Tick \/ Interrupt \/ Kill
    /\ UNCHANGED <<drillVars, sandboxVars, podsVars, gcVars>>

Next ==
    \/ MainAction
    \/ DestroyAction
    \/ WatchdogAction
    \/ GCAction
    \/ ClusterAction
    \/ EnvironmentAction

Spec == Init /\ [][Next]_vars

-----------------------------------------------------------------------------
(* Safety.                                                                 *)

\* A verified record that rests on podsReady means that its last looks at the
\* namespace, stablePolls of them in a row and all after the restore had
\* ended, found pods and found every one ready: one lucky look at a crash
\* loop, or a call that failed in between, is not enough.
VerifiedMeansStable ==
    evidence # "none" /\ verified =>
        /\ ~restoreErr
        /\ (\E i \in DOMAIN d.verify : d.verify[i].name = "podsReady")
             => goodLooks >= stablePolls

\* runVelero never walks away from what it knows of: when it has returned, no
\* watchdog is left waiting, and the namespace Prepare made is still active only
\* if its deletion was tried and reported as failed, or if the call that created
\* it had reported an error.
NothingForgotten ==
    pc = "returned" =>
        /\ watchdog # "armed"
        /\ ns = "active" => ppc = "refused" \/ (once = "done" /\ destroyErr)

\* A record that states "sandbox destroyed" is true of the namespace Prepare
\* made, with its label and policy: the deletion of that one was accepted,
\* whoever ran Destroy and whichever of its calls failed.
DestroyedClaimIsTrue == evidence # "none" /\ recorded => ns # "active"

\* After a restore that Velero reported as Completed into the namespace Prepare
\* made, the claim is true of whatever bears its name, and stays true: Velero is
\* through with it, so that what Destroy deletes is not made again.
DestroyedForGood ==
    [](pc = "verify" /\ ~restoreErr /\ ns = "active"
         => [](evidence # "none" /\ recorded => ns = "terminating"))

-----------------------------------------------------------------------------
(* Liveness.                                                               *)

\* Time passes, goroutines get scheduled, and the API server answers the calls
\* that carry no deadline (those of Destroy).
Fairness ==
    /\ WF_vars(Tick /\ UNCHANGED <<drillVars, sandboxVars, podsVars, gcVars>>)
    /\ WF_vars(WatchdogAction)
    /\ WF_vars(DestroyAction)

FairSpec == Spec /\ Fairness

\* A call of the main goroutine may hang for as long as its context lives, but
\* not longer.
CallsEndWithContext == WF_vars(MainAction /\ CtxDone)

\* Sweeps keep being run, and a deletion one could make again and again is not
\* refused for ever.  (Each of the two happens at most once, so one strong
\* fairness condition serves both.)
SweepsGoOn ==
    /\ WF_vars(GCAction)
    /\ SF_vars(GCAction /\ (ns' # ns \/ cr' # cr))

\* Whatever phase the Restore object is in, terminal or not, known or not, and
\* also when it cannot be read, runVelero returns.
DrillTerminates == CallsEndWithContext => <>(pc = "returned" \/ ~alive)

\* What carries firedrill's labels, the namespace Prepare made and the Restore
\* object, is eventually gone, or going, for good: whoever left it, and also the
\* Restore object that appeared after Destroy and that no record speaks of.
EventuallyReclaimed ==
    SweepsGoOn => <>[](/\ ns = "active" => expiresAt >= MaxTime
                       /\ RestoreExists => crBorn + OlderThan >= MaxTime)

\* "Guaranteed teardown" (SECURITY.md), and "`firedrill gc` reaps anything a
\* crashed process left behind" (README.md): with "sandbox destroyed" on record
\* and sweeps going on, no namespace of that name stays, not even one that
\* Velero made again for its Restore object after Destroy had deleted it.
NothingIsLeaked ==
    SweepsGoOn => <>[](evidence # "none" /\ recorded =>
                         \/ ns \notin {"active", "recreated"}
                         \/ nsBorn + OlderThan >= MaxTime)
=============================================================================
