--------------------------- MODULE OperatorProofs ---------------------------
(***************************************************************************)
(* Proofs about the reconciler, for every set of schedules, every backoff  *)
(* and any number of spec edits, API errors, crashes and restarts.         *)
(***************************************************************************)
EXTENDS Operator, TLAPS

-----------------------------------------------------------------------------
(* The inductive invariant, part by part.                                  *)

\* Reconcile has read the object and has not returned.
Working == wpc \in {"decide", "invalid", "announce", "drill", "publish"}

\* A run whose result is known and not yet in .status.
Unpublished == wpc = "publish" /\ outcome \in {"verified", "failed"}

\* The spec that was read is today's or an older one, and one generation has
\* one period.
SpecInv ==
    /\ obj.cr.gen <= cr.gen
    /\ obj.cr.gen = cr.gen => obj.cr.period = cr.period
    /\ status.observed <= cr.gen
    /\ \A g \in Gens : g > cr.gen => ran[g] = 0

\* Only the worker changes the fields the decision rests on: from Get to the
\* final patch .status says what was read, and that is not newer than the spec
\* that was read.
StatusInv ==
    /\ Working => /\ obj.status.observed = status.observed
                  /\ obj.status.lastRun = status.lastRun
                  /\ status.observed <= obj.cr.gen
    /\ status.observed # 0 => status.lastRun # 0
    /\ clock # 0
    /\ wpc = "publish" => ranAt # 0 /\ outcome # "none"

\* Past the decision, an unscheduled spec is one that .status does not cover.
DecisionInv ==
    wpc \in {"announce", "drill", "publish"} /\ obj.cr.period = 0
        => status.observed # obj.cr.gen

\* Where an executed generation leaves its traces.
ExecutedInv ==
    /\ status.observed # 0 => ran[status.observed] > 0
    /\ status.verified => status.observed \in proven
    /\ Unpublished => ran[obj.cr.gen] > 0
    /\ wpc = "publish" /\ outcome = "verified" => obj.cr.gen \in proven

\* Every run of today's unscheduled spec is accounted for: it is in .status, it
\* was lost, or it is about to be published, and at most one is not lost.
OnceInv ==
    cr.period = 0 =>
        /\ ran[cr.gen] <= 1 + lost[cr.gen]
        /\ status.observed # cr.gen /\ ~(Unpublished /\ obj.cr.gen = cr.gen)
             => ran[cr.gen] <= lost[cr.gen]

Core == SpecInv /\ StatusInv /\ DecisionInv /\ ExecutedInv /\ OnceInv

IInv == TypeOK /\ Core

-----------------------------------------------------------------------------
(* Type correctness.                                                       *)

\* The next firing of a schedule is a point in time.
LEMMA NextFiringType ==
    ASSUME NEW p \in Nat \ {0}, NEW t \in Nat
    PROVE  NextFiring(p, t) \in Nat
<1>1. t \div p \in Nat
  OBVIOUS
<1>2. \A a \in Nat, b \in Nat : a * b \in Nat
  OBVIOUS
<1> QED
  BY <1>1, <1>2 DEF NextFiring

\* AddAfter keeps a point in time.
LEMMA AddAfterType ==
    ASSUME TypeOK, NEW t \in Nat
    PROVE  AddAfter(t) \in Nat
BY OperatorAssumption DEF AddAfter, TypeOK

\* The fields a patch of the phase changes, and those it does not.
LEMMA PhasePatch ==
    ASSUME NEW s \in Statuses, NEW p \in Phases
    PROVE  /\ [s EXCEPT !.phase = p] \in Statuses
           /\ [s EXCEPT !.phase = p].observed = s.observed
           /\ [s EXCEPT !.phase = p].lastRun = s.lastRun
           /\ [s EXCEPT !.phase = p].verified = s.verified
BY DEF Statuses

\* What the final patch writes.
LEMMA OutcomeType ==
    ASSUME TypeOK
    PROVE  /\ Outcome(status) \in Statuses
           /\ Outcome(status).observed = IF outcome = "error" THEN status.observed ELSE obj.cr.gen
           /\ Outcome(status).lastRun = ranAt
           /\ Outcome(status).verified = (outcome = "verified")
<1>1. status.observed \in {0} \cup Gens /\ obj.cr.gen \in Gens /\ ranAt \in Nat
  BY DEF TypeOK, Statuses, Objects
<1>2. Outcome(status).phase \in Phases
  BY DEF Outcome, Phases
<1>3. (outcome = "verified") \in BOOLEAN
  OBVIOUS
<1> QED
  BY <1>1, <1>2, <1>3 DEF Outcome, Statuses

\* A history counter goes up by one in one place.
LEMMA Counted ==
    ASSUME NEW f \in [Gens -> Nat], NEW g \in Gens
    PROVE  /\ [f EXCEPT ![g] = @ + 1] \in [Gens -> Nat]
           /\ [f EXCEPT ![g] = @ + 1][g] = f[g] + 1
           /\ \A h \in Gens : h # g => [f EXCEPT ![g] = @ + 1][h] = f[h]
OBVIOUS

\* An edit of the spec.
LEMMA Edited ==
    ASSUME NEW c \in Objects, c.gen < MaxGen, NEW v \in BOOLEAN, NEW p \in Periods
    PROVE  /\ [c EXCEPT !.gen = @ + 1, !.valid = v, !.period = p] \in Objects
           /\ [c EXCEPT !.gen = @ + 1, !.valid = v, !.period = p].gen = c.gen + 1
<1> DEFINE d == [c EXCEPT !.gen = @ + 1, !.valid = v, !.period = p]
<1>1. c.exists \in BOOLEAN /\ c.gen \in Gens
  BY DEF Objects
<1>2. c.gen + 1 \in Gens
  BY <1>1, OperatorAssumption DEF Gens
<1> DEFINE n == c.gen + 1
<1>3. d = [c EXCEPT !.gen = n, !.valid = v, !.period = p]
  OBVIOUS
<1> HIDE DEF n
<1>4. n \in Gens
  BY <1>2 DEF n
<1>5. [c EXCEPT !.gen = n, !.valid = v, !.period = p] \in Objects
  BY <1>4 DEF Objects
<1>6. [c EXCEPT !.gen = n, !.valid = v, !.period = p].gen = n
  BY DEF Objects
<1> QED
  BY <1>3, <1>5, <1>6 DEF n

\* The first state has the types.
LEMMA TypeInit == Init => TypeOK
<1> SUFFICES ASSUME Init PROVE TypeOK
  OBVIOUS
<1>1. 1 \in Gens /\ 0 \in Nat
  BY OperatorAssumption DEF Gens
<1>2. cr \in Objects
  BY <1>1 DEF Init, Objects
<1>3. NoStatus \in Statuses
  BY DEF NoStatus, Statuses, Phases
<1>4. obj \in [cr : Objects, status : Statuses]
  BY <1>2, <1>3 DEF Init
<1>5. ran \in [Gens -> Nat] /\ lost \in [Gens -> Nat]
  BY DEF Init
<1> QED
  BY <1>2, <1>3, <1>4, <1>5 DEF Init, TypeOK

\* Patched writes a status it is given, of the right type.
LEMMA PatchedType ==
    ASSUME TypeOK, NEW new \in Statuses, Patched(new)
    PROVE  status' \in Statuses /\ event' \in BOOLEAN
<1>1. event' \in BOOLEAN
  BY DEF Patched
<1> QED
  BY <1>1 DEF Patched

\* A failed patch costs at most one fault.
LEMMA PatchFailsType ==
    ASSUME TypeOK, PatchFails
    PROVE  faults' \in Nat
BY DEF PatchFails, TypeOK

\* The environment's steps keep the types.
LEMMA EnvironmentType == TypeOK /\ Environment => TypeOK'
<1> SUFFICES ASSUME TypeOK, Environment PROVE TypeOK'
  OBVIOUS
<1>1. CASE Tick
  BY <1>1 DEF TypeOK, Tick, queueVars, workerVars, historyVars
<1>2. CASE Edit
  <2>1. cr' \in Objects
    <3>1. PICK v \in BOOLEAN, p \in Periods :
             cr' = [cr EXCEPT !.gen = @ + 1, !.valid = v, !.period = p]
      BY <1>2 DEF Edit
    <3> QED
      BY <3>1, <1>2, Edited DEF Edit, TypeOK
  <2>2. event' \in BOOLEAN
    BY <1>2 DEF Edit
  <2>3. UNCHANGED <<clock, status, dirty, wakeAt, wpc, obj, outcome, ranAt, up, faults, ran,
                    lost, proven>>
    BY <1>2 DEF Edit, workerVars, historyVars
  <2> QED
    BY <2>1, <2>2, <2>3 DEF TypeOK
<1>3. CASE Delete
  <2>1. cr' \in Objects
    BY <1>3 DEF Delete, TypeOK, Objects
  <2>2. event' \in BOOLEAN
    BY <1>3 DEF Delete
  <2>3. UNCHANGED <<clock, status, dirty, wakeAt, wpc, obj, outcome, ranAt, up, faults, ran,
                    lost, proven>>
    BY <1>3 DEF Delete, workerVars, historyVars
  <2> QED
    BY <2>1, <2>2, <2>3 DEF TypeOK
<1>4. CASE Deliver
  BY <1>4 DEF TypeOK, Deliver, workerVars, historyVars
<1>5. CASE Wake
  BY <1>5 DEF TypeOK, Wake, workerVars, historyVars
<1>6. CASE Crash
  <2>1. lost' \in [Gens -> Nat]
    <3>1. obj.cr.gen \in Gens
      BY DEF TypeOK, Objects
    <3> QED
      BY <3>1, <1>6, Counted DEF Crash, TypeOK
  <2>2. up' \in BOOLEAN /\ dirty' \in BOOLEAN
    BY <1>6 DEF Crash
  <2>3. faults' \in Nat /\ wakeAt' \in Nat
    BY <1>6 DEF Crash, TypeOK
  <2>4. wpc' = "idle" /\ outcome' = "none"
    BY <1>6 DEF Crash
  <2>5. UNCHANGED <<clock, cr, status, event, obj, ranAt, ran, proven>>
    BY <1>6 DEF Crash
  <2> QED
    BY <2>1, <2>2, <2>3, <2>4, <2>5 DEF TypeOK
<1>7. CASE Restart
  <2>1. event' \in BOOLEAN /\ up' \in BOOLEAN
    BY <1>7 DEF Restart, TypeOK, Objects
  <2>2. UNCHANGED <<clock, cr, status, dirty, wakeAt, wpc, obj, outcome, ranAt, faults, ran,
                    lost, proven>>
    BY <1>7 DEF Restart, workerVars, historyVars
  <2> QED
    BY <2>1, <2>2 DEF TypeOK
<1> QED
  BY <1>1, <1>2, <1>3, <1>4, <1>5, <1>6, <1>7 DEF Environment

\* The period of a schedule that was read is a number, and a drill that has one
\* has a next run.
LEMMA NextRunType ==
    ASSUME TypeOK, obj.cr.period # 0
    PROVE  NextRun \in Nat
<1>1. obj.cr.period \in Nat \ {0}
  BY OperatorAssumption DEF TypeOK, Objects
<1>2. (IF obj.status.lastRun = 0 THEN 1 ELSE obj.status.lastRun) \in Nat
  BY DEF TypeOK, Statuses
<1> QED
  BY <1>1, <1>2, NextFiringType DEF NextRun

\* Requeued is a point in time.
LEMMA RequeuedType ==
    ASSUME TypeOK
    PROVE  Requeued \in Nat
<1>1. clock \in Nat /\ wakeAt \in Nat /\ obj.cr.period \in Nat
  BY OperatorAssumption DEF TypeOK, Objects
<1>2. AddAfter(clock + Backoff) \in Nat
  BY <1>1, AddAfterType, OperatorAssumption
<1>3. obj.cr.period # 0 => AddAfter(NextFiring(obj.cr.period, clock)) \in Nat
  BY <1>1, NextFiringType, AddAfterType
<1> QED
  BY <1>1, <1>2, <1>3 DEF Requeued

\* Reconcile's steps keep the types.
LEMMA ReconcileType == TypeOK /\ Reconcile => TypeOK'
<1> SUFFICES ASSUME TypeOK, Reconcile PROVE TypeOK'
  OBVIOUS
<1>a. clock \in Nat /\ obj.cr.gen \in Gens
  BY DEF TypeOK, Objects
<1>b. AddAfter(clock) \in Nat
  BY <1>a, AddAfterType
<1>c. /\ [status EXCEPT !.phase = "Invalid"] \in Statuses
      /\ [status EXCEPT !.phase = "Running"] \in Statuses
  BY PhasePatch DEF TypeOK, Phases
<1>1. CASE Take
  BY <1>1 DEF TypeOK, Take, historyVars
<1>2. CASE Get
  <2>1. wpc' \in {"idle", "decide"} /\ outcome' \in {"none", outcome}
    BY <1>2 DEF Get, Return
  <2>2. wakeAt' \in Nat /\ faults' \in Nat
    BY <1>2, <1>b DEF Get, Return, TypeOK
  <2>3. obj' \in [cr : Objects, status : Statuses]
    BY <1>2 DEF Get, Return, TypeOK
  <2>4. UNCHANGED <<clock, cr, status, event, dirty, ranAt, up, ran, lost, proven>>
    BY <1>2 DEF Get, historyVars
  <2> QED
    BY <2>1, <2>2, <2>3, <2>4 DEF TypeOK
<1>3. CASE Decide
  <2>1. wpc' \in {"idle", "invalid", "announce"} /\ outcome' \in {"none", outcome}
    BY <1>3 DEF Decide, Return
  <2>2. wakeAt' \in Nat
    <3>1. wakeAt' = wakeAt \/ (NotDue /\ wakeAt' = AddAfter(NextRun))
      BY <1>3 DEF Decide
    <3> QED
      BY <3>1, NextRunType, AddAfterType DEF NotDue, TypeOK
  <2>3. UNCHANGED <<clock, cr, status, event, dirty, obj, ranAt, up, faults, ran, lost, proven>>
    BY <1>3 DEF Decide, historyVars
  <2> QED
    BY <2>1, <2>2, <2>3 DEF TypeOK
<1>4. CASE MarkInvalid
  <2>1. /\ wpc' = "idle" /\ outcome' = "none"
        /\ UNCHANGED <<clock, cr, dirty, wakeAt, obj, ranAt, up, ran, lost, proven>>
    BY <1>4 DEF MarkInvalid, Return, historyVars
  <2>2. CASE Patched([status EXCEPT !.phase = "Invalid"]) /\ UNCHANGED faults
    <3>1. status' \in Statuses /\ event' \in BOOLEAN
      BY <2>2, <1>c, PatchedType
    <3> QED
      BY <2>1, <2>2, <3>1 DEF TypeOK
  <2>3. CASE PatchFails /\ UNCHANGED <<status, event>>
    <3>1. faults' \in Nat
      BY <2>3, PatchFailsType
    <3> QED
      BY <2>1, <2>3, <3>1 DEF TypeOK
  <2> QED
    BY <1>4, <2>2, <2>3 DEF MarkInvalid
<1>5. CASE Announce
  <2>1. /\ wpc' = "drill"
        /\ UNCHANGED <<clock, cr, dirty, wakeAt, obj, outcome, ranAt, up, ran, lost, proven>>
    BY <1>5 DEF Announce, historyVars
  <2>2. CASE Patched([status EXCEPT !.phase = "Running"]) /\ UNCHANGED faults
    <3>1. status' \in Statuses /\ event' \in BOOLEAN
      BY <2>2, <1>c, PatchedType
    <3> QED
      BY <2>1, <2>2, <3>1 DEF TypeOK
  <2>3. CASE PatchFails /\ UNCHANGED <<status, event>>
    <3>1. faults' \in Nat
      BY <2>3, PatchFailsType
    <3> QED
      BY <2>1, <2>3, <3>1 DEF TypeOK
  <2> QED
    BY <1>5, <2>2, <2>3 DEF Announce
<1>6. CASE RunDrill
  <2>1. ran' \in [Gens -> Nat]
    BY <1>6, <1>a, Counted DEF RunDrill, TypeOK
  <2>2. proven' \subseteq Gens
    BY <1>6, <1>a DEF RunDrill, TypeOK
  <2>3. /\ wpc' = "publish" /\ ranAt' = clock /\ outcome' \in {"verified", "failed", "error"}
        /\ UNCHANGED <<clock, cr, status, event, dirty, wakeAt, obj, up, faults, lost>>
    BY <1>6 DEF RunDrill, queueVars
  <2> QED
    BY <2>1, <2>2, <2>3 DEF TypeOK
<1>7. CASE Publish
  <2>1. /\ wpc' = "idle" /\ outcome' = "none"
        /\ UNCHANGED <<clock, cr, dirty, obj, ranAt, up, ran, proven>>
    BY <1>7 DEF Publish, Return
  <2>2. wakeAt' \in Nat
    BY <1>7, <1>b, RequeuedType DEF Publish
  <2>3. faults' \in Nat
    <3>1. UNCHANGED faults \/ PatchFails
      BY <1>7 DEF Publish
    <3> QED
      BY <3>1, PatchFailsType DEF TypeOK
  <2>4. lost' \in [Gens -> Nat]
    <3>1. lost' = lost \/ lost' = [lost EXCEPT ![obj.cr.gen] = @ + 1]
      BY <1>7 DEF Publish
    <3> QED
      BY <3>1, <1>a, Counted DEF TypeOK
  <2>5. status' \in Statuses /\ event' \in BOOLEAN
    <3>1. Patched(Outcome(status)) \/ UNCHANGED <<status, event>>
      BY <1>7 DEF Publish
    <3> QED
      BY <3>1, OutcomeType, PatchedType DEF TypeOK
  <2> QED
    BY <2>1, <2>2, <2>3, <2>4, <2>5 DEF TypeOK
<1> QED
  BY <1>1, <1>2, <1>3, <1>4, <1>5, <1>6, <1>7 DEF Reconcile

\* Every step keeps the types.
LEMMA TypeStep == TypeOK /\ [Next]_vars => TypeOK'
<1>1. TypeOK /\ UNCHANGED vars => TypeOK'
  BY DEF TypeOK, vars
<1> QED
  BY <1>1, EnvironmentType, ReconcileType DEF Next

\* The types of the program's, the API server's and the queue's variables hold in
\* every state of the operator.
THEOREM TypeCorrect == Spec => []TypeOK
BY TypeInit, TypeStep, PTL DEF Spec

-----------------------------------------------------------------------------
(* The invariant, step by step.                                            *)

\* The numbers the invariant compares.
LEMMA Numbers ==
    ASSUME TypeOK
    PROVE  /\ cr.gen \in Gens /\ obj.cr.gen \in Gens
           /\ status.observed \in Nat /\ status.lastRun \in Nat
           /\ \A g \in Gens : ran[g] \in Nat /\ lost[g] \in Nat /\ g \in Nat
           /\ clock \in Nat /\ ranAt \in Nat
           /\ status.observed # 0 => status.observed \in Gens
BY DEF TypeOK, Objects, Statuses, Gens

\* The first state.
LEMMA CoreInit == Init => Core
<1> SUFFICES ASSUME Init PROVE Core
  OBVIOUS
<1>1. obj.cr = cr /\ status.observed = 0 /\ status.lastRun = 0 /\ status.verified = FALSE
  BY DEF Init, NoStatus
<1>2. cr.gen = 1 /\ cr.gen \in Gens
  BY OperatorAssumption DEF Init, Gens
<1>3. \A g \in Gens : ran[g] = 0 /\ lost[g] = 0
  BY DEF Init
<1>4. wpc = "idle" /\ clock = 1
  BY DEF Init
<1>5. SpecInv
  BY <1>1, <1>2, <1>3 DEF SpecInv
<1>6. StatusInv /\ DecisionInv /\ ExecutedInv
  BY <1>1, <1>4 DEF StatusInv, DecisionInv, ExecutedInv, Working, Unpublished
<1>7. OnceInv
  BY <1>1, <1>2, <1>3 DEF OnceInv
<1> QED
  BY <1>5, <1>6, <1>7 DEF Core

\* A step that executes, publishes and loses nothing: the worker stays where it
\* is, returns, or passes the decision with a spec .status does not cover.
LEMMA QuietStep ==
    ASSUME IInv, TypeOK',
           cr'.gen = cr.gen, cr'.period = cr.period, obj' = obj,
           status'.observed = status.observed, status'.lastRun = status.lastRun,
           status'.verified = status.verified,
           UNCHANGED <<ran, lost, proven, ranAt>>, clock' # 0,
           Working' => Working,
           wpc' = "publish" => wpc = "publish" /\ outcome' = outcome,
           wpc' \in {"announce", "drill"} =>
               \/ wpc \in {"announce", "drill"}
               \/ obj.cr.period = 0 => status.observed # obj.cr.gen,
           Unpublished => wpc' = "publish"
    PROVE  Core'
<1>1. SpecInv'
  BY Numbers DEF IInv, Core, SpecInv
<1>2. StatusInv'
  BY DEF IInv, Core, StatusInv
<1>3. DecisionInv'
  BY DEF IInv, Core, DecisionInv
<1>4. Unpublished' <=> Unpublished
  BY DEF Unpublished
<1>5. ExecutedInv'
  BY <1>4 DEF IInv, Core, ExecutedInv
<1>6. OnceInv'
  BY <1>4 DEF IInv, Core, OnceInv
<1> QED
  BY <1>1, <1>2, <1>3, <1>5, <1>6 DEF Core

\* A result that is dropped, by a crash before the patch or by a patch that
\* failed, is counted among the lost ones.
LEMMA LossStep ==
    ASSUME IInv, TypeOK', Unpublished, wpc' = "idle",
           lost' = [lost EXCEPT ![obj.cr.gen] = @ + 1],
           UNCHANGED <<cr, status, obj, ran, proven, ranAt, clock>>
    PROVE  Core'
<1>1. SpecInv' /\ StatusInv' /\ DecisionInv'
  BY DEF IInv, Core, SpecInv, StatusInv, DecisionInv, Working
<1>2. ExecutedInv'
  BY DEF IInv, Core, ExecutedInv, Unpublished
<1>3. OnceInv'
  <2> SUFFICES ASSUME cr.period = 0
               PROVE  /\ ran[cr.gen] <= 1 + lost'[cr.gen]
                      /\ status.observed # cr.gen => ran[cr.gen] <= lost'[cr.gen]
    BY DEF OnceInv
  <2>1. cr.gen \in Gens /\ obj.cr.gen \in Gens /\ ran[cr.gen] \in Nat /\ lost[cr.gen] \in Nat
    BY Numbers DEF IInv
  <2>2. lost \in [Gens -> Nat]
    BY DEF IInv, TypeOK
  <2>3. CASE obj.cr.gen = cr.gen
    <3>1. lost'[cr.gen] = lost[cr.gen] + 1
      BY <2>1, <2>2, <2>3, Counted
    <3>2. ran[cr.gen] <= 1 + lost[cr.gen]
      BY DEF IInv, Core, OnceInv
    <3> QED
      BY <2>1, <3>1, <3>2
  <2>4. CASE obj.cr.gen # cr.gen
    <3>1. lost'[cr.gen] = lost[cr.gen]
      BY <2>1, <2>2, <2>4, Counted
    <3> QED
      BY <2>1, <2>4, <3>1 DEF IInv, Core, OnceInv
  <2> QED
    BY <2>3, <2>4
<1> QED
  BY <1>1, <1>2, <1>3 DEF Core

\* The environment keeps the invariant: an edit starts a generation nobody has
\* run, a crash may lose a result, the rest is quiet.
LEMMA EnvironmentStep == IInv /\ Environment => Core'
<1> SUFFICES ASSUME IInv, Environment PROVE Core'
  OBVIOUS
<1>a. TypeOK /\ TypeOK'
  BY EnvironmentType DEF IInv
<1>b. clock \in Nat /\ clock # 0
  BY DEF IInv, TypeOK, Core, StatusInv
<1>1. CASE Tick
  BY <1>1, <1>a, <1>b, QuietStep DEF Tick, workerVars, historyVars, Working, Unpublished
<1>2. CASE Edit
  <2>1. PICK v \in BOOLEAN, p \in Periods :
           cr' = [cr EXCEPT !.gen = @ + 1, !.valid = v, !.period = p]
    BY <1>2 DEF Edit
  <2>2. cr'.gen = cr.gen + 1
    BY <1>2, <1>a, <2>1, Edited DEF Edit, TypeOK
  <2>3. UNCHANGED <<clock, status, wpc, obj, outcome, ranAt, ran, lost, proven>>
    BY <1>2 DEF Edit, workerVars, historyVars
  <2>4. cr.gen \in Nat /\ cr'.gen \in Gens /\ obj.cr.gen \in Nat /\ status.observed \in Nat
    BY <1>a, Numbers DEF TypeOK, Objects
  <2>5. \A g \in Gens : g \in Nat /\ lost[g] \in Nat
    BY <1>a, Numbers
  <2>6. \A g \in Gens : g > cr.gen => ran[g] = 0
    BY DEF IInv, Core, SpecInv
  <2>7. SpecInv'
    <3>1. \A g \in Gens : g > cr'.gen => ran'[g] = 0
      BY <2>2, <2>3, <2>4, <2>5, <2>6
    <3>2. obj.cr.gen <= cr.gen /\ status.observed <= cr.gen
      BY DEF IInv, Core, SpecInv
    <3> QED
      BY <2>2, <2>3, <2>4, <3>1, <3>2 DEF SpecInv
  <2>8. StatusInv' /\ DecisionInv' /\ ExecutedInv'
    BY <2>3 DEF IInv, Core, StatusInv, DecisionInv, ExecutedInv, Working, Unpublished
  <2>9. OnceInv'
    <3>1. ran'[cr'.gen] = 0 /\ lost'[cr'.gen] \in Nat
      BY <2>2, <2>3, <2>4, <2>5, <2>6
    <3> QED
      BY <3>1 DEF OnceInv
  <2> QED
    BY <2>7, <2>8, <2>9 DEF Core
<1>3. CASE Delete
  <2>1. cr'.gen = cr.gen /\ cr'.period = cr.period
    BY <1>3, <1>a DEF Delete, TypeOK, Objects
  <2>2. UNCHANGED <<clock, status, wpc, obj, outcome, ranAt, ran, lost, proven>>
    BY <1>3 DEF Delete, workerVars, historyVars
  <2> QED
    BY <2>1, <2>2, <1>a, <1>b, QuietStep DEF Working, Unpublished
<1>4. CASE Deliver
  BY <1>4, <1>a, <1>b, QuietStep DEF Deliver, workerVars, historyVars, Working, Unpublished
<1>5. CASE Wake
  BY <1>5, <1>a, <1>b, QuietStep DEF Wake, workerVars, historyVars, Working, Unpublished
<1>6. CASE Crash
  <2>1. wpc' = "idle" /\ UNCHANGED <<clock, cr, status, obj, ranAt, ran, proven>>
    BY <1>6 DEF Crash
  <2>2. CASE Unpublished
    <3>1. lost' = [lost EXCEPT ![obj.cr.gen] = @ + 1]
      BY <1>6, <2>2 DEF Crash, Unpublished
    <3> QED
      BY <1>a, <2>1, <2>2, <3>1, LossStep
  <2>3. CASE ~Unpublished
    <3>1. wpc = "publish" => outcome = "error"
      BY <2>3, <1>a DEF Unpublished, IInv, Core, StatusInv, TypeOK
    <3>2. lost' = lost
      BY <1>6, <3>1 DEF Crash
    <3> QED
      BY <1>a, <1>b, <2>1, <2>3, <3>2, QuietStep DEF Working
  <2> QED
    BY <2>2, <2>3
<1>7. CASE Restart
  BY <1>7, <1>a, <1>b, QuietStep DEF Restart, workerVars, historyVars, Working, Unpublished
<1> QED
  BY <1>1, <1>2, <1>3, <1>4, <1>5, <1>6, <1>7 DEF Environment

\* drill.Run comes back.  That the spec was due is still true: nobody but the
\* worker writes what the decision rested on.
LEMMA RunDrillStep == IInv /\ RunDrill => Core'
<1> SUFFICES ASSUME IInv, RunDrill PROVE Core'
  OBVIOUS
<1>a. TypeOK /\ TypeOK'
  BY ReconcileType DEF IInv, Reconcile
<1>b. /\ wpc = "drill" /\ wpc' = "publish" /\ ranAt' = clock
      /\ outcome' \in {"verified", "failed", "error"}
      /\ UNCHANGED <<clock, cr, status, obj, lost>>
  BY DEF RunDrill
<1>c. /\ cr.gen \in Gens /\ obj.cr.gen \in Gens
      /\ \A g \in Gens : ran[g] \in Nat /\ lost[g] \in Nat /\ g \in Nat
      /\ ran \in [Gens -> Nat]
      /\ status.observed # 0 => status.observed \in Gens
  BY <1>a, Numbers DEF TypeOK
<1>1. StatusInv' /\ DecisionInv'
  <2>1. clock # 0 /\ outcome' # "none"
    BY <1>b DEF IInv, Core, StatusInv
  <2> QED
    BY <1>b, <2>1 DEF IInv, Core, StatusInv, DecisionInv, Working
<1>2. proven \subseteq proven' /\ (outcome' = "verified" => obj.cr.gen \in proven')
  BY DEF RunDrill
<1>3. CASE outcome' = "error"
  <2>1. ran' = ran /\ ~Unpublished' /\ ~Unpublished
    BY <1>3, <1>b DEF RunDrill, Unpublished
  <2>2. SpecInv' /\ ExecutedInv'
    BY <1>b, <1>2, <1>3, <2>1 DEF IInv, Core, SpecInv, ExecutedInv
  <2>3. OnceInv'
    BY <1>b, <2>1 DEF IInv, Core, OnceInv
  <2> QED
    BY <1>1, <2>2, <2>3 DEF Core
<1>4. CASE outcome' # "error"
  <2>1. ran' = [ran EXCEPT ![obj.cr.gen] = @ + 1] /\ Unpublished' /\ ~Unpublished
    BY <1>4, <1>b DEF RunDrill, Unpublished
  <2>2. /\ ran'[obj.cr.gen] = ran[obj.cr.gen] + 1
        /\ \A g \in Gens : g # obj.cr.gen => ran'[g] = ran[g]
    BY <1>c, <2>1, Counted
  <2>3. SpecInv'
    <3>1. obj.cr.gen <= cr.gen /\ \A g \in Gens : g > cr.gen => ran[g] = 0
      BY DEF IInv, Core, SpecInv
    <3>2. \A g \in Gens : g > cr.gen => ran'[g] = 0
      BY <1>c, <2>2, <3>1
    <3> QED
      BY <1>b, <3>2 DEF IInv, Core, SpecInv
  <2>4. ExecutedInv'
    <3>1. ran'[obj.cr.gen] > 0
      BY <1>c, <2>2
    <3>2. status.observed # 0 => ran'[status.observed] > 0
      BY <1>c, <2>2, <3>1 DEF IInv, Core, ExecutedInv
    <3> QED
      BY <1>b, <1>2, <3>1, <3>2 DEF IInv, Core, ExecutedInv
  <2>5. OnceInv'
    <3> SUFFICES ASSUME cr.period = 0
                 PROVE  /\ ran'[cr.gen] <= 1 + lost[cr.gen]
                        /\ status.observed # cr.gen /\ obj.cr.gen # cr.gen
                             => ran'[cr.gen] <= lost[cr.gen]
      BY <1>b, <2>1 DEF OnceInv
    <3>1. CASE obj.cr.gen = cr.gen
      <4>1. status.observed # cr.gen
        BY <1>b, <3>1 DEF IInv, Core, SpecInv, DecisionInv
      <4>2. ran[cr.gen] <= lost[cr.gen]
        BY <2>1, <4>1 DEF IInv, Core, OnceInv
      <4> QED
        BY <1>c, <2>2, <3>1, <4>2
    <3>2. CASE obj.cr.gen # cr.gen
      BY <1>c, <2>1, <2>2, <3>2 DEF IInv, Core, OnceInv
    <3> QED
      BY <3>1, <3>2
  <2> QED
    BY <1>1, <2>3, <2>4, <2>5 DEF Core
<1> QED
  BY <1>3, <1>4

\* The final patch: the run moves from the worker into .status.  It never
\* overwrites the result of a newer generation.
LEMMA PatchStep ==
    ASSUME IInv, TypeOK', wpc = "publish", wpc' = "idle", status' = Outcome(status),
           UNCHANGED <<clock, cr, obj, ranAt, ran, lost, proven>>
    PROVE  Core'
<1>a. TypeOK
  BY DEF IInv
<1>b. /\ status'.observed = IF outcome = "error" THEN status.observed ELSE obj.cr.gen
      /\ status'.lastRun = ranAt
      /\ status'.verified = (outcome = "verified")
  BY <1>a, OutcomeType
<1>c. outcome = "error" \/ Unpublished
  BY <1>a DEF IInv, Core, StatusInv, Unpublished, TypeOK
<1>d. cr.gen \in Nat /\ obj.cr.gen \in Nat /\ status.observed \in Nat /\ obj.cr.gen # 0
  BY <1>a, Numbers DEF Gens
<1>1. StatusInv' /\ DecisionInv'
  BY <1>b DEF IInv, Core, StatusInv, DecisionInv, Working
<1>2. SpecInv'
  BY <1>b DEF IInv, Core, SpecInv
<1>3. CASE outcome = "error"
  <2>1. status'.observed = status.observed /\ ~status'.verified /\ ~Unpublished /\ ~Unpublished'
    BY <1>3, <1>b DEF Unpublished
  <2>2. ExecutedInv'
    BY <2>1 DEF IInv, Core, ExecutedInv
  <2>3. OnceInv'
    BY <2>1 DEF IInv, Core, OnceInv
  <2> QED
    BY <1>1, <1>2, <2>2, <2>3 DEF Core
<1>4. CASE outcome # "error"
  <2>1. status'.observed = obj.cr.gen /\ Unpublished /\ ~Unpublished'
    BY <1>4, <1>b, <1>c DEF Unpublished
  <2>2. ExecutedInv'
    BY <1>b, <2>1 DEF IInv, Core, ExecutedInv
  <2>3. OnceInv'
    <3> SUFFICES ASSUME cr.period = 0
                 PROVE  /\ ran[cr.gen] <= 1 + lost[cr.gen]
                        /\ obj.cr.gen # cr.gen => ran[cr.gen] <= lost[cr.gen]
      BY <2>1 DEF OnceInv
    <3>1. obj.cr.gen # cr.gen => status.observed # cr.gen
      BY <1>d DEF IInv, Core, SpecInv, StatusInv, Working
    <3> QED
      BY <3>1 DEF IInv, Core, OnceInv
  <2> QED
    BY <1>1, <1>2, <2>2, <2>3 DEF Core
<1> QED
  BY <1>3, <1>4

\* Reconcile keeps the invariant.
LEMMA ReconcileStep == IInv /\ Reconcile => Core'
<1> SUFFICES ASSUME IInv, Reconcile PROVE Core'
  OBVIOUS
<1>a. TypeOK /\ TypeOK' /\ status \in Statuses
  BY ReconcileType DEF IInv, TypeOK
<1>b. clock # 0
  BY DEF IInv, Core, StatusInv
<1>1. CASE Take
  BY <1>1, <1>a, <1>b, QuietStep DEF Take, historyVars, Working, Unpublished
<1>2. CASE Get
  <2>1. wpc = "get" /\ UNCHANGED <<clock, cr, status, ranAt, ran, lost, proven>>
    BY <1>2 DEF Get, historyVars
  <2>2. CASE wpc' = "idle" /\ UNCHANGED obj
    BY <1>a, <1>b, <2>1, <2>2, QuietStep DEF Working, Unpublished
  <2>3. CASE wpc' = "decide" /\ obj' = [cr |-> cr, status |-> status]
    <3>1. obj'.cr = cr /\ obj'.status = status
      BY <2>3
    <3>2. cr.gen \in Nat /\ status.observed <= cr.gen
      BY <1>a, Numbers DEF IInv, Core, SpecInv
    <3>3. SpecInv'
      BY <2>1, <3>1, <3>2 DEF IInv, Core, SpecInv
    <3>4. StatusInv' /\ DecisionInv'
      BY <2>1, <2>3, <3>1, <3>2 DEF IInv, Core, StatusInv, DecisionInv
    <3>5. ~Unpublished /\ ~Unpublished'
      BY <2>1, <2>3 DEF Unpublished
    <3>6. ExecutedInv'
      BY <2>1, <2>3, <3>5 DEF IInv, Core, ExecutedInv
    <3>7. OnceInv'
      BY <2>1, <3>5 DEF IInv, Core, OnceInv
    <3> QED
      BY <3>3, <3>4, <3>6, <3>7 DEF Core
  <2> QED
    BY <1>2, <2>2, <2>3 DEF Get, Return
<1>3. CASE Decide
  <2>1. wpc = "decide" /\ UNCHANGED <<clock, cr, status, obj, ranAt, ran, lost, proven>>
    BY <1>3 DEF Decide, historyVars
  <2>2. wpc' \in {"idle", "invalid"} \/ (wpc' = "announce" /\ ~RunOnceDone)
    BY <1>3 DEF Decide, Return
  <2>3. ~RunOnceDone /\ obj.cr.period = 0 => status.observed # obj.cr.gen
    <3>1. obj.cr.gen # 0
      BY <1>a, Numbers DEF Gens
    <3>2. obj.status.observed = status.observed /\ obj.status.lastRun = status.lastRun
      BY <2>1 DEF IInv, Core, StatusInv, Working
    <3>3. status.observed # 0 => status.lastRun # 0
      BY DEF IInv, Core, StatusInv
    <3> QED
      BY <3>1, <3>2, <3>3 DEF RunOnceDone
  <2> QED
    BY <1>a, <1>b, <2>1, <2>2, <2>3, QuietStep DEF Working, Unpublished
<1>4. CASE MarkInvalid
  <2>1. /\ wpc = "invalid" /\ wpc' = "idle"
        /\ UNCHANGED <<clock, cr, obj, ranAt, ran, lost, proven>>
    BY <1>4 DEF MarkInvalid, Return, historyVars
  <2>2. status' = status \/ status' = [status EXCEPT !.phase = "Invalid"]
    BY <1>4 DEF MarkInvalid, Patched
  <2>3. /\ status'.observed = status.observed
        /\ status'.lastRun = status.lastRun
        /\ status'.verified = status.verified
    BY <1>a, <2>2, PhasePatch DEF Phases
  <2> QED
    BY <1>a, <1>b, <2>1, <2>3, QuietStep DEF Working, Unpublished
<1>5. CASE Announce
  <2>1. /\ wpc = "announce" /\ wpc' = "drill"
        /\ UNCHANGED <<clock, cr, obj, ranAt, ran, lost, proven>>
    BY <1>5 DEF Announce, historyVars
  <2>2. status' = status \/ status' = [status EXCEPT !.phase = "Running"]
    BY <1>5 DEF Announce, Patched
  <2>3. /\ status'.observed = status.observed
        /\ status'.lastRun = status.lastRun
        /\ status'.verified = status.verified
    BY <1>a, <2>2, PhasePatch DEF Phases
  <2> QED
    BY <1>a, <1>b, <2>1, <2>3, QuietStep DEF Working, Unpublished
<1>6. CASE RunDrill
  BY <1>6, RunDrillStep
<1>7. CASE Publish
  <2>1. /\ wpc = "publish" /\ wpc' = "idle"
        /\ UNCHANGED <<clock, cr, obj, ranAt, ran, proven>>
    BY <1>7 DEF Publish, Return
  <2>2. CASE status' = Outcome(status) /\ lost' = lost
    BY <1>a, <2>1, <2>2, PatchStep
  <2>3. CASE status' = status /\ outcome = "error" /\ lost' = lost
    <3>1. ~Unpublished
      BY <2>3 DEF Unpublished
    <3> QED
      BY <1>a, <1>b, <2>1, <2>3, <3>1, QuietStep DEF Working
  <2>4. CASE /\ status' = status /\ outcome # "error"
             /\ lost' = [lost EXCEPT ![obj.cr.gen] = @ + 1]
    <3>1. Unpublished
      BY <1>a, <2>1, <2>4 DEF Unpublished, IInv, Core, StatusInv, TypeOK
    <3> QED
      BY <1>a, <2>1, <2>4, <3>1, LossStep
  <2> QED
    BY <1>7, <2>2, <2>3, <2>4 DEF Publish, Patched
<1> QED
  BY <1>1, <1>2, <1>3, <1>4, <1>5, <1>6, <1>7 DEF Reconcile

\* Every step keeps the invariant.
LEMMA InvStep == IInv /\ [Next]_vars => IInv'
<1>1. IInv /\ [Next]_vars => TypeOK'
  BY TypeStep DEF IInv
<1>2. IInv /\ UNCHANGED vars => Core'
  <2> SUFFICES ASSUME IInv, UNCHANGED vars PROVE Core'
    OBVIOUS
  <2>1. clock' # 0
    BY DEF vars, IInv, Core, StatusInv
  <2>2. TypeOK'
    BY <1>1
  <2> QED
    BY <2>1, <2>2, QuietStep DEF vars, Working, Unpublished
<1> QED
  BY <1>1, <1>2, EnvironmentStep, ReconcileStep DEF Next, IInv

\* The invariant holds in every state of the operator.
LEMMA Invariance == Spec => []IInv
<1>1. Init => IInv
  BY TypeInit, CoreInit DEF IInv
<1> QED
  BY <1>1, InvStep, PTL DEF Spec

-----------------------------------------------------------------------------
(* Theorems.                                                               *)

\* The generation .status claims to have observed was executed, and "verified"
\* is about that generation, whatever edits, crashes and failed status updates
\* come between the read of the spec and the final patch.
THEOREM ObservedIsExecuted == Spec => []ObservedWasExecuted
<1>1. IInv => ObservedWasExecuted
  BY DEF IInv, Core, ExecutedInv, ObservedWasExecuted
<1> QED
  BY <1>1, Invariance, PTL

\* A drill without a schedule runs once per generation, plus once for each
\* result that a crash or a failed status update lost, for any number of them.
THEOREM RunsOnce == Spec => []RunOnceRunsOnce
<1>1. IInv => RunOnceRunsOnce
  BY DEF IInv, Core, OnceInv, RunOnceRunsOnce
<1> QED
  BY <1>1, Invariance, PTL
=============================================================================
