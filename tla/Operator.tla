------------------------------ MODULE Operator ------------------------------
(***************************************************************************)
(* The operator's reconciler (pkg/operator/controller.go) for one          *)
(* RecoveryDrill: what it reads, when it decides to run the drill, what it *)
(* writes to .status, and when it comes back.  The API server, the watch   *)
(* and controller-runtime's work queue are external; the queue never hands *)
(* the same object to two workers.  drill.Run is one step with the three   *)
(* outcomes the reconciler tells apart.                                    *)
(***************************************************************************)
EXTENDS Integers

CONSTANTS
    Periods,    \* schedules a spec may have: 0 is none, p fires at multiples of p
    Backoff,    \* RequeueAfter of an errored drill
    MaxGen,     \* bound on spec edits
    MaxFaults,  \* bound on API errors and operator crashes
    MaxTime     \* bound on the clock

ASSUME OperatorAssumption ==
    /\ Periods \subseteq Nat
    /\ Backoff \in Nat
    /\ MaxGen \in Nat \ {0}
    /\ MaxFaults \in Nat
    /\ MaxTime \in Nat \ {0}

VARIABLES
    clock,
    cr,         \* the object on the API server: exists, generation, validity, period
    status,     \* its .status
    event,      \* the watch has an update of the object to deliver
    up,         \* the operator is running
    dirty,      \* the object is in the work queue (or will be, once the worker is done)
    wakeAt,     \* earliest pending AddAfter of the object; 0 is none
    wpc,        \* where the worker's Reconcile is
    obj,        \* generation, validity, period and status it read
    outcome,    \* what drill.Run returned
    ranAt,      \* "lastRunTime" it is going to record
    faults,     \* API errors and crashes so far
    ran,        \* history: runs per generation that drill.Run did not return an error for
    lost,       \* history: of those, the ones whose result never reached .status
    proven      \* history: generations some run of which was verified

vars == <<clock, cr, status, event, up, dirty, wakeAt, wpc, obj, outcome, ranAt, faults,
          ran, lost, proven>>

Gens == 1 .. MaxGen
Phases == {"", "Invalid", "Running", "Verified", "Failed", "Error"}

Objects == [exists : BOOLEAN, gen : Gens, valid : BOOLEAN, period : Periods]
Statuses == [phase : Phases, lastRun : Nat, observed : {0} \cup Gens, verified : BOOLEAN]

TypeOK ==
    /\ clock \in Nat
    /\ cr \in Objects
    /\ status \in Statuses
    /\ event \in BOOLEAN
    /\ up \in BOOLEAN
    /\ dirty \in BOOLEAN
    /\ wakeAt \in Nat
    /\ wpc \in {"idle", "get", "decide", "invalid", "announce", "drill", "publish"}
    /\ obj \in [cr : Objects, status : Statuses]
    /\ outcome \in {"none", "verified", "failed", "error"}
    /\ ranAt \in Nat
    /\ faults \in Nat
    /\ ran \in [Gens -> Nat]
    /\ lost \in [Gens -> Nat]
    /\ proven \subseteq Gens

NoStatus == [phase |-> "", lastRun |-> 0, observed |-> 0, verified |-> FALSE]

Init ==
    /\ clock = 1
    /\ cr \in [exists : {TRUE}, gen : {1}, valid : BOOLEAN, period : Periods]
    /\ status = NoStatus
    /\ event = TRUE
    /\ up = TRUE
    /\ dirty = FALSE
    /\ wakeAt = 0
    /\ wpc = "idle"
    /\ obj = [cr |-> cr, status |-> NoStatus]
    /\ outcome = "none"
    /\ ranAt = 0
    /\ faults = 0
    /\ ran = [g \in Gens |-> 0]
    /\ lost = [g \in Gens |-> 0]
    /\ proven = {}

-----------------------------------------------------------------------------
(* The API server's users, the watch, the queue and the clock.             *)

queueVars == <<event, dirty, wakeAt>>
workerVars == <<wpc, obj, outcome, ranAt>>
historyVars == <<ran, lost, proven>>

Tick ==
    /\ clock < MaxTime
    /\ clock' = clock + 1
    /\ UNCHANGED <<cr, status, queueVars, workerVars, up, faults, historyVars>>

\* Any spec edit gives the object a new generation.
Edit ==
    /\ cr.exists /\ cr.gen < MaxGen
    /\ \E v \in BOOLEAN, p \in Periods :
         cr' = [cr EXCEPT !.gen = @ + 1, !.valid = v, !.period = p]
    /\ event' = TRUE
    /\ UNCHANGED <<clock, status, dirty, wakeAt, workerVars, up, faults, historyVars>>

Delete ==
    /\ cr.exists
    /\ cr' = [cr EXCEPT !.exists = FALSE]
    /\ event' = TRUE
    /\ UNCHANGED <<clock, status, dirty, wakeAt, workerVars, up, faults, historyVars>>

\* For(obj) without predicates: every update is queued, status updates too.
Deliver ==
    /\ up /\ event
    /\ event' = FALSE
    /\ dirty' = TRUE
    /\ UNCHANGED <<clock, cr, status, wakeAt, workerVars, up, faults, historyVars>>

\* A delayed add becomes due.
Wake ==
    /\ up /\ wakeAt # 0 /\ clock >= wakeAt
    /\ wakeAt' = 0
    /\ dirty' = TRUE
    /\ UNCHANGED <<clock, cr, status, event, workerVars, up, faults, historyVars>>

\* The operator dies with its queue; a drill in flight dies with it.
Crash ==
    /\ up /\ faults < MaxFaults
    /\ up' = FALSE
    /\ faults' = faults + 1
    /\ dirty' = FALSE /\ wakeAt' = 0
    /\ wpc' = "idle" /\ outcome' = "none"
    /\ lost' = IF wpc = "publish" /\ outcome # "error"
               THEN [lost EXCEPT ![obj.cr.gen] = @ + 1] ELSE lost
    /\ UNCHANGED <<clock, cr, status, event, obj, ranAt, ran, proven>>

\* A new leader lists every object.
Restart ==
    /\ ~up
    /\ up' = TRUE
    /\ event' = cr.exists
    /\ UNCHANGED <<clock, cr, status, dirty, wakeAt, workerVars, faults, historyVars>>

-----------------------------------------------------------------------------
(* Reconcile.                                                              *)

\* sched.Next: the first firing strictly after t.
NextFiring(p, t) == ((t \div p) + 1) * p

\* AddAfter keeps the earlier of two delayed adds of one object.  (A timer set
\* past the bound on the clock goes off at the bound.)
AddAfter(t) ==
    IF wakeAt # 0 /\ wakeAt < t THEN wakeAt ELSE IF t < MaxTime THEN t ELSE MaxTime

\* Reconcile returns.
Return ==
    /\ wpc' = "idle"
    /\ outcome' = "none"

\* The worker takes the object from the queue.
Take ==
    /\ up /\ wpc = "idle" /\ dirty
    /\ wpc' = "get"
    /\ dirty' = FALSE
    /\ UNCHANGED <<clock, cr, status, event, wakeAt, obj, outcome, ranAt, up, faults, historyVars>>

\* r.Get, a live read: gone, an API error (rate-limited retry), or the object.
Get ==
    /\ up /\ wpc = "get"
    /\ \/ ~cr.exists /\ Return /\ UNCHANGED <<obj, wakeAt, faults>>
       \/ /\ faults < MaxFaults /\ faults' = faults + 1
          /\ Return
          /\ wakeAt' = AddAfter(clock)
          /\ UNCHANGED obj
       \/ /\ cr.exists
          /\ obj' = [cr |-> cr, status |-> status]
          /\ wpc' = "decide"
          /\ UNCHANGED <<outcome, wakeAt, faults>>
    /\ UNCHANGED <<clock, cr, status, event, dirty, ranAt, up, historyVars>>

\* Mutant: only a verified result counts as having run.
RunOnceDoneIfVerified ==
    obj.cr.period = 0 /\ obj.status.lastRun # 0 /\ obj.status.observed = obj.cr.gen
        /\ obj.status.verified

\* Mutant: any earlier run counts, whichever spec it was of.
RunOnceDoneForEver == obj.cr.period = 0 /\ obj.status.lastRun # 0

\* Mutant: a drill shown as running is left to whoever is running it.
RunOnceDoneOrRunning ==
    obj.cr.period = 0 /\ \/ obj.status.phase = "Running"
                         \/ obj.status.lastRun # 0 /\ obj.status.observed = obj.cr.gen

\* What Reconcile does with the object it read.
RunOnceDone ==
    obj.cr.period = 0 /\ obj.status.lastRun # 0 /\ obj.status.observed = obj.cr.gen

\* A drill that never ran counts from its creation (time 1).
NextRun ==
    NextFiring(obj.cr.period, IF obj.status.lastRun = 0 THEN 1 ELSE obj.status.lastRun)

NotDue == obj.cr.period # 0 /\ clock < NextRun

\* Mutant: a drill that is not due is not requeued for its next firing.
DecideNoRequeue ==
    /\ up /\ wpc = "decide"
    /\ \/ ~obj.cr.valid /\ wpc' = "invalid" /\ UNCHANGED <<wakeAt, outcome>>
       \/ obj.cr.valid /\ (RunOnceDone \/ NotDue) /\ Return /\ UNCHANGED wakeAt
       \/ /\ obj.cr.valid /\ ~RunOnceDone /\ ~NotDue
          /\ wpc' = "announce"
          /\ UNCHANGED <<wakeAt, outcome>>
    /\ UNCHANGED <<clock, cr, status, event, dirty, obj, ranAt, up, faults, historyVars>>

\* drillFromCR (spec validation and the schedule's syntax) and the decision
\* whether a run is due.
Decide ==
    /\ up /\ wpc = "decide"
    /\ \/ ~obj.cr.valid /\ wpc' = "invalid" /\ UNCHANGED <<wakeAt, outcome>>
       \/ obj.cr.valid /\ RunOnceDone /\ Return /\ UNCHANGED wakeAt
       \/ obj.cr.valid /\ NotDue /\ Return /\ wakeAt' = AddAfter(NextRun)
       \/ /\ obj.cr.valid /\ ~RunOnceDone /\ ~NotDue
          /\ wpc' = "announce"
          /\ UNCHANGED <<wakeAt, outcome>>
    /\ UNCHANGED <<clock, cr, status, event, dirty, obj, ranAt, up, faults, historyVars>>

\* patchStatus merges fields into the status as it is now, under a conflict-
\* retry loop, so in effect atomically; an update that changes nothing is no
\* event.  A failure may hide an update that took place.
Patched(new) ==
    /\ cr.exists
    /\ status' = new
    /\ event' = (event \/ new # status)

PatchFails ==
    \/ ~cr.exists /\ UNCHANGED faults
    \/ faults < MaxFaults /\ faults' = faults + 1

\* An invalid spec is reported and not requeued; a failed patch is ignored.
MarkInvalid ==
    /\ up /\ wpc = "invalid"
    /\ \/ Patched([status EXCEPT !.phase = "Invalid"]) /\ UNCHANGED faults
       \/ PatchFails /\ UNCHANGED <<status, event>>
    /\ Return
    /\ UNCHANGED <<clock, cr, dirty, wakeAt, obj, ranAt, up, historyVars>>

\* "Running" is shown before the drill starts; a failed patch is ignored.
Announce ==
    /\ up /\ wpc = "announce"
    /\ \/ Patched([status EXCEPT !.phase = "Running"]) /\ UNCHANGED faults
       \/ PatchFails /\ UNCHANGED <<status, event>>
    /\ wpc' = "drill"
    /\ UNCHANGED <<clock, cr, dirty, wakeAt, obj, outcome, ranAt, up, historyVars>>

\* drill.Run of the spec that was read, however long it takes.
RunDrill ==
    /\ up /\ wpc = "drill"
    /\ outcome' \in {"verified", "failed", "error"}
    /\ ranAt' = clock
    /\ ran' = IF outcome' = "error" THEN ran ELSE [ran EXCEPT ![obj.cr.gen] = @ + 1]
    /\ proven' = IF outcome' = "verified" THEN proven \cup {obj.cr.gen} ELSE proven
    /\ wpc' = "publish"
    /\ UNCHANGED <<clock, cr, status, queueVars, obj, up, faults, lost>>

\* Mutant: the generation recorded is today's, not the one that was run.
OutcomeOfToday(s) ==
    [phase    |-> CASE outcome = "verified" -> "Verified"
                    [] outcome = "failed" -> "Failed"
                    [] OTHER -> "Error",
     lastRun  |-> ranAt,
     observed |-> IF outcome = "error" THEN s.observed ELSE cr.gen,
     verified |-> outcome = "verified"]

\* Mutant: the phase is the drill's outcome as it stands.
OutcomeRawPhase(s) ==
    [phase    |-> outcome,
     lastRun  |-> ranAt,
     observed |-> IF outcome = "error" THEN s.observed ELSE obj.cr.gen,
     verified |-> outcome = "verified"]

\* The fields Reconcile sets: an execution error does not count as having run
\* this generation; the generation is the one that was read, not today's.
Outcome(s) ==
    [phase    |-> CASE outcome = "verified" -> "Verified"
                    [] outcome = "failed" -> "Failed"
                    [] OTHER -> "Error",
     lastRun  |-> ranAt,
     observed |-> IF outcome = "error" THEN s.observed ELSE obj.cr.gen,
     verified |-> outcome = "verified"]

\* Where the next reconcile comes from when nothing else happens.
Requeued ==
    IF outcome = "error" THEN AddAfter(clock + Backoff)
    ELSE IF obj.cr.period # 0 THEN AddAfter(NextFiring(obj.cr.period, clock))
    ELSE wakeAt

\* The final patchStatus.  Its failure is returned: a rate-limited retry that
\* starts over.
Publish ==
    /\ up /\ wpc = "publish"
    /\ \/ /\ Patched(Outcome(status))
          /\ wakeAt' = Requeued
          /\ UNCHANGED <<faults, lost>>
       \/ /\ PatchFails
          /\ wakeAt' = AddAfter(clock)
          /\ \/ /\ UNCHANGED <<status, event>>
                /\ lost' = IF outcome = "error" THEN lost
                           ELSE [lost EXCEPT ![obj.cr.gen] = @ + 1]
             \/ Patched(Outcome(status)) /\ UNCHANGED lost
    /\ Return
    /\ UNCHANGED <<clock, cr, dirty, obj, ranAt, up, ran, proven>>

Reconcile ==
    \/ Take
    \/ Get
    \/ Decide
    \/ MarkInvalid
    \/ Announce
    \/ RunDrill
    \/ Publish

Environment == Tick \/ Edit \/ Delete \/ Deliver \/ Wake \/ Crash \/ Restart

Next == Reconcile \/ Environment

Spec == Init /\ [][Next]_vars

-----------------------------------------------------------------------------
(* Safety.                                                                 *)

\* .status never speaks for a spec that was not run: the generation it claims
\* to have observed was executed, and "verified" is about that generation,
\* also when the spec was edited while its predecessor's drill was running.
ObservedWasExecuted ==
    /\ status.observed # 0 => ran[status.observed] > 0
    /\ status.verified => status.observed \in proven

\* A drill without a schedule is executed once per generation; it is executed
\* again only for a result that was lost to a crash or a failed status update.
RunOnceRunsOnce ==
    cr.period = 0 => ran[cr.gen] <= 1 + lost[cr.gen]

\* controller.go: "Execution error (infra, not a failed verdict): retry with
\* backoff", "execution errors must retry (see requeue below)"; README: "errored
\* run-once drills retry with backoff".  An errored drill is due again once
\* Backoff is over, and one without a schedule not before.  (Meant for instances
\* with no edits and no faults, which restart a drill for a reason.)
ErrorRetriesWithBackoff ==
    wpc = "decide" /\ obj.cr.valid /\ obj.status.phase = "Error" =>
        LET over == clock >= obj.status.lastRun + Backoff
        IN  /\ over => ~NotDue
            /\ obj.cr.period = 0 /\ ~RunOnceDone => over

-----------------------------------------------------------------------------
(* Liveness.                                                               *)

\* Workers, watch and delaying queue make progress, time passes, a crashed
\* operator is restarted by its Deployment.
Fairness ==
    /\ WF_vars(Reconcile)
    /\ WF_vars(Deliver)
    /\ WF_vars(Wake)
    /\ WF_vars(Tick)
    /\ WF_vars(Restart)

\* The infrastructure a drill needs does not fail for ever.
InfraRecovers == SF_vars(RunDrill /\ outcome' # "error")

FairSpec == Spec /\ Fairness

\* The latest spec of an unscheduled drill is eventually the one .status is
\* about, through edits during a run, crashes and failed status updates.
LatestSpecIsRun ==
    InfraRecovers => <>[](cr.exists /\ cr.valid /\ cr.period = 0 => status.observed = cr.gen)

\* A firing of the schedule has passed since the last run.
Due ==
    /\ cr.exists /\ cr.valid /\ cr.period # 0
    /\ clock >= NextFiring(cr.period, IF status.lastRun = 0 THEN 1 ELSE status.lastRun)

\* No firing is missed for good, whether a timer, a status update of its own
\* or a restart brings the reconciler back.
DueIsRun == Due ~> ~Due

\* "Running" is not a state a crash can leave a valid drill in: an unscheduled
\* drill gets out of it, a scheduled one when its next firing is due.
RunningIsTransient ==
    status.phase = "Running" ~>
        \/ status.phase # "Running"
        \/ ~cr.exists \/ ~cr.valid
        \/ cr.period # 0 /\ ~Due
=============================================================================
