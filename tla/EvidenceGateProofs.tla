------------------------- MODULE EvidenceGateProofs -------------------------
(***************************************************************************)
(* What an open gate guarantees, for every set of drills, controls, keys   *)
(* and gate options, and for any number of runs.                           *)
(***************************************************************************)
EXTENDS EvidenceGate, TLAPS

-----------------------------------------------------------------------------
(* The inductive invariant, part by part.                                  *)

\* A run in flight has a record of its own, not signed or attested before its
\* turn; once it is, the signature on disk is the run's unless it was wiped.
RunOK(d) ==
    run[d].stage # "idle" =>
      /\ run[d].rec \in past
      /\ run[d].rec.id <= runs
      /\ att[run[d].rec.id] \in {NoKey, Torn}
      /\ run[d].stage \notin {"signed", "attesting"} => signer[run[d].rec.id] = NoKey
      /\ run[d].stage \in {"keyed", "signed", "attesting"} => run[d].priv \in Keys
      /\ run[d].stage \in {"signed", "attesting"} /\ run[d].rec \in dir
           => sig[run[d].rec.id] = run[d].priv

\* No two runs share a number.
OwnRecord ==
    \A d, e \in Drills :
       run[d].stage # "idle" /\ run[e].stage # "idle" /\ d # e => run[d].rec.id # run[e].rec.id

RunInv == (\A d \in Drills : RunOK(d)) /\ OwnRecord

\* What no run has got to yet is unsigned; a signature on disk is the one that
\* was made; an attestation on disk is by the same key.
FileInv ==
    /\ \A i \in Ids : i > runs => signer[i] = NoKey /\ att[i] = NoKey
    /\ \A i \in Ids : sig[i] # NoKey => signer[i] = sig[i]
    /\ \A i \in Ids : att[i] \notin {NoKey, Torn} => att[i] = sig[i]

\* A run that would let the gate pass subject s on account of its window.
Proves(r, s) ==
    /\ s \in subjectsOf(r, o.by)
    /\ r.verified
    /\ now - r.finished <= o.maxAge
    /\ SignedFor(r)

\* What holds of the subjects that were evaluated and found in order.
GateInv ==
    /\ gpc = "done" => todo = {}
    /\ gpc \in {"evaluating", "done"} =>
         \A s \in names : s \notin todo /\ s \notin failing =>
           /\ o.maxAge > 0 => \E r \in past : Proves(r, s)
           /\ ~o.allowUnverified =>
                \E v \in Group(s) : v.verified /\ \A r \in Group(s) : r.finished <= v.finished

IInv == TypeOK /\ RunInv /\ FileInv /\ GateInv

-----------------------------------------------------------------------------
(* Lemmas.                                                                 *)

\* The constants of the initial state are of their types.
LEMMA ConstantTypes ==
    NoOptions \in GateOptions /\ Ids \subseteq Nat
BY GateAssumption DEF NoOptions, GateOptions, Ids

\* The initial state satisfies the invariant.
LEMMA InitInv == Init => IInv
<1> SUFFICES ASSUME Init PROVE IInv
  OBVIOUS
<1> USE ConstantTypes, GateAssumption DEF Init
<1>1. TypeOK
  BY DEF TypeOK
<1>2. RunInv
  BY DEF RunInv, RunOK, OwnRecord, Idle
<1>3. FileInv
  BY DEF FileInv
<1>4. GateInv
  BY DEF GateInv
<1> QED
  BY <1>1, <1>2, <1>3, <1>4 DEF IInv

\* A run that is not idle carries a record of the right type.
LEMMA InFlightType ==
    ASSUME TypeOK, NEW d \in Drills, run[d].stage # "idle"
    PROVE  run[d] \in InFlight /\ run[d].rec \in Records /\ run[d].rec.id \in Ids
BY DEF TypeOK, InFlight, Idle, Records

\* Signatures that were made are not unmade, and history only grows: what the
\* gate found in order stays in order.
LEMMA GateInvStable ==
    ASSUME TypeOK, GateInv, UNCHANGED gateVars, past \subseteq past',
           \A i \in Ids : signer[i] # NoKey => signer'[i] = signer[i]
    PROVE  GateInv'
<1> USE DEF gateVars
<1>1. UNCHANGED <<gpc, o, scanned, now, todo, names, failing>>
  OBVIOUS
<1>2. ASSUME NEW r \in past, NEW s, Proves(r, s) PROVE Proves(r, s)'
  BY <1>1, <1>2 DEF Proves, SignedFor, subjectsOf, TypeOK, Records
<1>3. ASSUME NEW s PROVE Group(s)' = Group(s)
  BY <1>1 DEF Group, subjectsOf
<1> QED
  BY <1>1, <1>2, <1>3 DEF GateInv

-----------------------------------------------------------------------------
(* The steps of the drills and of the key directory.                       *)

\* What such a step has to preserve for the gate's findings to stand.
StoreOK ==
    /\ TypeOK' /\ RunInv' /\ FileInv'
    /\ past \subseteq past'
    /\ \A i \in Ids : signer[i] # NoKey => signer'[i] = signer[i]

\* Abandon: a run in flight is forgotten, its files stay.
LEMMA AbandonOK ==
    ASSUME IInv, NEW d \in Drills, Abandon(d), UNCHANGED <<clock, gateVars>>
    PROVE  StoreOK
<1> USE DEF IInv, Abandon, gateVars
<1>0. run' = [run EXCEPT ![d] = Idle] /\ run \in [Drills -> {Idle} \cup InFlight]
  BY DEF TypeOK
<1>1. TypeOK'
  BY <1>0 DEF TypeOK
<1>2. \A e \in Drills : run'[e].stage # "idle" => e # d /\ run'[e] = run[e]
  BY <1>0 DEF Idle
<1>3. RunInv'
  BY <1>2 DEF RunInv, RunOK, OwnRecord
<1>4. FileInv'
  BY DEF FileInv
<1> QED
  BY <1>1, <1>3, <1>4 DEF StoreOK

\* Finish: the new record's number is one no file has yet.
LEMMA FinishOK ==
    ASSUME IInv, NEW d \in Drills, Finish(d), UNCHANGED <<clock, gateVars>>
    PROVE  StoreOK
<1> USE DEF IInv, gateVars
<1>1. PICK v \in BOOLEAN :
        /\ run' = [run EXCEPT ![d] = [stage |-> "finished", priv |-> NoKey,
                     rec |-> [id |-> runs + 1, drill |-> d, finished |-> clock, verified |-> v]]]
        /\ past' = past \cup {[id |-> runs + 1, drill |-> d, finished |-> clock, verified |-> v]}
  BY DEF Finish
<1> DEFINE r == [id |-> runs + 1, drill |-> d, finished |-> clock, verified |-> v]
<1>2. /\ runs < MaxRuns /\ runs' = runs + 1 /\ runs \in Nat
      /\ UNCHANGED <<clock, key, dir, sig, att, signer, gpc, o, scanned, now, todo, names, failing>>
  BY GateAssumption DEF Finish, TypeOK
<1>3. runs + 1 \in Ids
  BY <1>2, GateAssumption DEF Ids
<1>4. r \in Records /\ r.id = runs + 1
  BY <1>3 DEF Records, TypeOK
<1>5. [stage |-> "finished", rec |-> r, priv |-> NoKey] \in InFlight
  BY <1>4 DEF InFlight, Stages
<1> HIDE DEF r
<1>6. /\ run' = [run EXCEPT ![d] = [stage |-> "finished", rec |-> r, priv |-> NoKey]]
      /\ past' = past \cup {r}
  BY <1>1 DEF r
<1>7. TypeOK'
  <2>1. run' \in [Drills -> {Idle} \cup InFlight]
    BY <1>5, <1>6 DEF TypeOK
  <2>2. runs' \in 0 .. MaxRuns
    BY <1>2, GateAssumption
  <2> QED
    BY <1>2, <1>4, <1>6, <2>1, <2>2 DEF TypeOK
<1>8. signer[runs + 1] = NoKey /\ att[runs + 1] = NoKey
  BY <1>2, <1>3 DEF FileInv
<1>9. /\ run'[d].rec = r /\ run'[d].stage = "finished"
      /\ \A e \in Drills : e # d => run'[e] = run[e]
  BY <1>6 DEF TypeOK
<1>10. \A e \in Drills : run[e].stage # "idle" => run[e].rec.id \in Nat
  BY InFlightType, ConstantTypes
<1>11. RunInv'
  BY <1>2, <1>4, <1>6, <1>8, <1>9, <1>10 DEF RunInv, RunOK, OwnRecord
<1>12. FileInv'
  <2>1. \A i \in Ids : i > runs' => i > runs
    BY <1>2, ConstantTypes
  <2> QED
    BY <1>2, <2>1 DEF FileInv
<1> QED
  BY <1>2, <1>6, <1>7, <1>11, <1>12 DEF StoreOK

\* Write and LoadKey: one file, or one key, for one run.
LEMMA WriteLoadOK ==
    ASSUME IInv, NEW d \in Drills, Write(d) \/ LoadKey(d), UNCHANGED <<clock, gateVars>>
    PROVE  StoreOK
<1> USE DEF IInv, gateVars
<1>0. run[d] \in InFlight /\ run[d].rec \in Records /\ run[d].rec.id \in Ids
  BY InFlightType DEF Write, LoadKey
<1>1. CASE Write(d)
  <2>1. /\ run[d].stage = "finished"
        /\ dir' = dir \cup {run[d].rec}
        /\ run' = [run EXCEPT ![d].stage = "written"]
        /\ UNCHANGED <<clock, key, runs, sig, att, past, signer,
                       gpc, o, scanned, now, todo, names, failing>>
    BY <1>1 DEF Write
  <2>2. run[d].rec \in past
    BY <2>1 DEF RunInv, RunOK, OwnRecord
  <2>3. run'[d] = [run[d] EXCEPT !.stage = "written"]
    BY <2>1 DEF TypeOK
  <2>4. run'[d] \in InFlight /\ run'[d].stage = "written" /\ run'[d].rec = run[d].rec
    BY <2>3, <1>0 DEF InFlight, Stages
  <2>5. \A e \in Drills : e # d => run'[e] = run[e]
    BY <2>1 DEF TypeOK
  <2>6. run' \in [Drills -> {Idle} \cup InFlight]
    BY <2>1, <2>4, <2>5 DEF TypeOK
  <2>7. TypeOK'
    BY <2>1, <2>2, <2>6 DEF TypeOK
  <2>8. RunInv'
    BY <2>1, <2>2, <2>4, <2>5 DEF RunInv, RunOK, OwnRecord
  <2>9. FileInv'
    BY <2>1 DEF FileInv
  <2> QED
    BY <2>1, <2>7, <2>8, <2>9 DEF StoreOK
<1>2. CASE LoadKey(d)
  <2>1. /\ run[d].stage = "written" /\ key # NoKey
        /\ run' = [run EXCEPT ![d].stage = "keyed", ![d].priv = key]
        /\ UNCHANGED <<clock, key, runs, dir, sig, att, past, signer,
                       gpc, o, scanned, now, todo, names, failing>>
    BY <1>2 DEF LoadKey
  <2>2. key \in Keys
    BY <2>1 DEF TypeOK
  <2>3. run'[d] = [[run[d] EXCEPT !.stage = "keyed"] EXCEPT !.priv = key]
    BY <2>1 DEF TypeOK
  <2>4. /\ run'[d] \in InFlight /\ run'[d].stage = "keyed"
        /\ run'[d].rec = run[d].rec /\ run'[d].priv = key
    BY <2>2, <2>3, <1>0 DEF InFlight, Stages
  <2>5. \A e \in Drills : e # d => run'[e] = run[e]
    BY <2>1 DEF TypeOK
  <2>6. run' \in [Drills -> {Idle} \cup InFlight]
    BY <2>1, <2>4, <2>5 DEF TypeOK
  <2>7. TypeOK'
    BY <2>1, <2>6 DEF TypeOK
  <2>8. RunInv'
    <3>1. \A e \in Drills : run'[e].stage # "idle" => run[e].stage # "idle" /\ run'[e].rec = run[e].rec
      BY <2>1, <2>4, <2>5
    <3>2. run'[d].stage # "signed" /\ run'[d].priv \in Keys
      BY <2>2, <2>4
    <3>3. UNCHANGED <<runs, dir, sig, att, past, signer>>
      BY <2>1
    <3>4. RunOK(d)'
      BY <2>1, <2>4, <3>2, <3>3 DEF RunInv, RunOK
    <3>5. \A e \in Drills : e # d => RunOK(e)'
      BY <2>5, <3>3 DEF RunInv, RunOK
    <3>6. OwnRecord'
      BY <3>1 DEF RunInv, OwnRecord
    <3> QED
      BY <3>4, <3>5, <3>6 DEF RunInv
  <2>9. FileInv'
    BY <2>1 DEF FileInv
  <2> QED
    BY <2>1, <2>7, <2>8, <2>9 DEF StoreOK
<1> QED
  BY <1>1, <1>2

\* Sign: the record's first signature, under the run's own number.
LEMMA SignOK ==
    ASSUME IInv, NEW d \in Drills, Sign(d), UNCHANGED <<clock, gateVars>>
    PROVE  StoreOK
<1> USE DEF IInv, gateVars
<1>0. run[d] \in InFlight /\ run[d].rec \in Records /\ run[d].rec.id \in Ids
  BY InFlightType DEF Sign
<1> DEFINE i == run[d].rec.id
<1>1. /\ run[d].stage = "keyed" /\ run[d].rec \in dir
      /\ sig' = [sig EXCEPT ![i] = run[d].priv]
      /\ signer' = [signer EXCEPT ![i] = run[d].priv]
      /\ run' = [run EXCEPT ![d].stage = "signed"]
      /\ UNCHANGED <<clock, key, runs, dir, att, past,
                     gpc, o, scanned, now, todo, names, failing>>
  BY DEF Sign
<1>2. /\ signer[i] = NoKey /\ att[i] \in {NoKey, Torn} /\ run[d].priv \in Keys
      /\ i <= runs /\ run[d].rec \in past
  BY <1>1 DEF RunInv, RunOK, OwnRecord
<1>3. run'[d] = [run[d] EXCEPT !.stage = "signed"]
  BY <1>1 DEF TypeOK
<1>4. /\ run'[d] \in InFlight /\ run'[d].stage = "signed"
      /\ run'[d].rec = run[d].rec /\ run'[d].priv = run[d].priv
  BY <1>0, <1>3 DEF InFlight, Stages
<1>5. \A e \in Drills : e # d => run'[e] = run[e]
  BY <1>1 DEF TypeOK
<1>6. run' \in [Drills -> {Idle} \cup InFlight]
  BY <1>1, <1>4, <1>5 DEF TypeOK
<1>7. sig'[i] = run[d].priv /\ signer'[i] = run[d].priv
  BY <1>0, <1>1 DEF TypeOK
<1>8. \A j \in Ids : j # i => sig'[j] = sig[j] /\ signer'[j] = signer[j]
  BY <1>0, <1>1 DEF TypeOK
<1>9. TypeOK'
  BY <1>0, <1>1, <1>2, <1>6 DEF TypeOK
<1>10. RunInv'
  <2>1. \A e \in Drills : run'[e].stage # "idle" => run[e].stage # "idle" /\ run'[e].rec = run[e].rec
    BY <1>1, <1>4, <1>5
  <2>2. \A e \in Drills : e # d /\ run[e].stage # "idle" => run[e].rec.id # i /\ run[e].rec.id \in Ids
    BY <1>1, InFlightType DEF RunInv, RunOK, OwnRecord
  <2> HIDE DEF i
  <2>3. UNCHANGED <<runs, dir, att, past>>
    BY <1>1
  <2>4. \A e \in Drills : e # d => RunOK(e)'
    BY <1>5, <1>8, <2>2, <2>3 DEF RunInv, RunOK
  <2>5. RunOK(d)'
    BY <1>2, <1>4, <1>7, <2>3 DEF RunOK, i
  <2>6. OwnRecord'
    BY <2>1 DEF RunInv, OwnRecord
  <2> QED
    BY <2>4, <2>5, <2>6 DEF RunInv
<1>11. FileInv'
  <2>0. i \in Int /\ runs \in Int
    BY <1>0, GateAssumption DEF TypeOK, Ids
  <2>1. ~(i > runs)
    BY <1>2, <2>0
  <2> HIDE DEF i
  <2> QED
    BY <1>1, <1>2, <1>7, <1>8, <2>1 DEF FileInv
<1>12. \A j \in Ids : signer[j] # NoKey => signer'[j] = signer[j]
  BY <1>2, <1>8
<1> QED
  BY <1>1, <1>9, <1>10, <1>11, <1>12 DEF StoreOK

\* AttestBegin and Attest: in the end with the key that is in the signature file.
LEMMA AttestOK ==
    ASSUME IInv, NEW d \in Drills, AttestBegin(d) \/ Attest(d), UNCHANGED <<clock, gateVars>>
    PROVE  StoreOK
<1> USE DEF IInv, gateVars
<1>0. run[d] \in InFlight /\ run[d].rec.id \in Ids
  BY InFlightType DEF AttestBegin, Attest
<1> DEFINE i == run[d].rec.id
<1>1. /\ run[d].stage \in {"signed", "attesting"}
      /\ UNCHANGED <<clock, key, runs, dir, sig, past, signer,
                     gpc, o, scanned, now, todo, names, failing>>
  BY DEF AttestBegin, Attest
<1>2. /\ run[d].rec \in dir => sig[i] = run[d].priv
      /\ run[d].priv \in Keys /\ i <= runs /\ run[d].rec \in past
  BY <1>1 DEF RunInv, RunOK
<1>3. \A e \in Drills : e # d /\ run[e].stage # "idle" => run[e].rec.id # i /\ run[e].rec.id \in Ids
  BY <1>1, InFlightType DEF RunInv, OwnRecord
<1>4. ~(i > runs)
  <2>1. i \in Int /\ runs \in Int
    BY <1>0, GateAssumption DEF TypeOK, Ids
  <2> QED
    BY <1>2, <2>1
<1>5. CASE AttestBegin(d)
  <2>1. /\ att' = [att EXCEPT ![i] = Torn]
        /\ run' = [run EXCEPT ![d] = [run[d] EXCEPT !.stage = "attesting"]]
    BY <1>5 DEF AttestBegin
  <2>2. att'[i] = Torn /\ \A j \in Ids : j # i => att'[j] = att[j]
    BY <1>0, <2>1 DEF TypeOK
  <2>3. run'[d] = [run[d] EXCEPT !.stage = "attesting"]
    BY <2>1 DEF TypeOK
  <2>4. /\ run'[d] \in InFlight /\ run'[d].stage = "attesting"
        /\ run'[d].rec = run[d].rec /\ run'[d].priv = run[d].priv
    BY <1>0, <2>3 DEF InFlight, Stages
  <2>5. \A e \in Drills : e # d => run'[e] = run[e]
    BY <2>1 DEF TypeOK
  <2>6. run' \in [Drills -> {Idle} \cup InFlight]
    BY <2>1, <2>4, <2>5 DEF TypeOK
  <2>7. TypeOK'
    BY <1>0, <1>1, <2>1, <2>6 DEF TypeOK
  <2>8. RunInv'
    <3> HIDE DEF i
    <3>1. UNCHANGED <<runs, dir, sig, past, signer>>
      BY <1>1
    <3>2. \A e \in Drills : e # d => RunOK(e)'
      BY <1>3, <2>2, <2>5, <3>1 DEF RunInv, RunOK
    <3>3. RunOK(d)'
      BY <1>2, <2>2, <2>4, <3>1 DEF RunOK, i
    <3>4. \A e \in Drills : run'[e].stage # "idle" => run[e].stage # "idle" /\ run'[e].rec = run[e].rec
      BY <1>1, <2>4, <2>5
    <3>5. OwnRecord'
      BY <3>4 DEF RunInv, OwnRecord
    <3> QED
      BY <3>2, <3>3, <3>5 DEF RunInv
  <2>9. FileInv'
    <3> HIDE DEF i
    <3> QED
      BY <1>1, <1>4, <2>2 DEF FileInv
  <2> QED
    BY <1>1, <2>7, <2>8, <2>9 DEF StoreOK
<1>6. CASE Attest(d)
  <2>1. /\ att' = IF run[d].rec \in dir THEN [att EXCEPT ![i] = run[d].priv] ELSE att
        /\ run' = [run EXCEPT ![d] = Idle]
    BY <1>6 DEF Attest
  <2>2. \A e \in Drills : run'[e].stage # "idle" => e # d /\ run'[e] = run[e]
    BY <2>1 DEF TypeOK, Idle
  <2>3. /\ att'[i] = att[i] \/ att'[i] = sig[i]
        /\ \A j \in Ids : j # i => att'[j] = att[j]
    BY <1>0, <1>2, <2>1 DEF TypeOK
  <2>4. att' \in [Ids -> Keys \cup {NoKey, Torn}]
    BY <1>0, <1>2, <2>1 DEF TypeOK
  <2>5. TypeOK'
    BY <1>1, <2>1, <2>4 DEF TypeOK
  <2>6. RunInv'
    <3> HIDE DEF i
    <3>1. UNCHANGED <<runs, dir, sig, past, signer>>
      BY <1>1
    <3>2. \A e \in Drills : RunOK(e)'
      BY <1>3, <2>2, <2>3, <3>1 DEF RunInv, RunOK
    <3>3. OwnRecord'
      BY <2>2 DEF RunInv, OwnRecord
    <3> QED
      BY <3>2, <3>3 DEF RunInv
  <2>7. FileInv'
    <3> HIDE DEF i
    <3> QED
      BY <1>1, <1>4, <2>3 DEF FileInv
  <2> QED
    BY <1>1, <2>5, <2>6, <2>7 DEF StoreOK
<1> QED
  BY <1>5, <1>6

\* The key directory, and the loss of the evidence directory.
LEMMA KeyAndWipeOK ==
    ASSUME IInv, RemoveKey \/ GenerateKeypair \/ Wipe, UNCHANGED <<clock, gateVars>>
    PROVE  StoreOK
<1> USE DEF IInv, gateVars
<1>1. CASE RemoveKey \/ GenerateKeypair
  <2>1. /\ key' \in Keys \cup {NoKey}
        /\ UNCHANGED <<clock, runs, run, dir, sig, att, past, signer,
                       gpc, o, scanned, now, todo, names, failing>>
    BY <1>1 DEF RemoveKey, GenerateKeypair
  <2> QED
    BY <2>1 DEF StoreOK, TypeOK, RunInv, RunOK, OwnRecord, FileInv
<1>2. CASE Wipe
  <2>1. /\ dir' = {} /\ sig' = [i \in Ids |-> NoKey] /\ att' = [i \in Ids |-> NoKey]
        /\ UNCHANGED <<clock, key, runs, run, past, signer,
                       gpc, o, scanned, now, todo, names, failing>>
    BY <1>2 DEF Wipe
  <2>2. TypeOK'
    BY <2>1 DEF TypeOK
  <2>3. \A e \in Drills : run[e].stage # "idle" => run[e].rec.id \in Ids
    BY InFlightType
  <2>4. RunInv'
    BY <2>1, <2>3 DEF RunInv, RunOK, OwnRecord
  <2>5. FileInv'
    BY <2>1 DEF FileInv
  <2> QED
    BY <2>1, <2>2, <2>4, <2>5 DEF StoreOK
<1> QED
  BY <1>1, <1>2

\* Every step of the drills and the key directory.
LEMMA StoreActionInv == IInv /\ StoreAction => IInv'
<1> SUFFICES ASSUME IInv, StoreAction PROVE IInv'
  OBVIOUS
<1>1. UNCHANGED <<clock, gateVars>>
  BY DEF StoreAction
<1>2. StoreOK
  BY <1>1, AbandonOK, FinishOK, WriteLoadOK, SignOK, AttestOK, KeyAndWipeOK
     DEF StoreAction, Finalize
<1>3. GateInv'
  BY <1>1, <1>2, GateInvStable DEF StoreOK, IInv
<1> QED
  BY <1>2, <1>3 DEF StoreOK, IInv

-----------------------------------------------------------------------------
(* The steps of the gate.                                                  *)

\* What the gate looks at is not changed by it.
LEMMA StoreStable ==
    ASSUME RunInv, FileInv, UNCHANGED storeVars
    PROVE  RunInv' /\ FileInv'
BY DEF storeVars, RunInv, RunOK, OwnRecord, FileInv

\* The subjects of a record are names of drills or of controls.
LEMMA SubjectsType ==
    ASSUME NEW r \in Records, NEW by
    PROVE  subjectsOf(r, by) \subseteq Drills \cup Controls
BY DEF subjectsOf, Controls, Records


\* GateScan, GateDone and GateExit.
LEMMA GateMoveInv ==
    ASSUME IInv, GateScan \/ GateDone \/ GateExit, UNCHANGED <<clock, storeVars>>
    PROVE  IInv'
<1> USE DEF IInv
<1>1. RunInv' /\ FileInv'
  BY StoreStable
<1>2. CASE GateScan
  <2>1. TypeOK'
    BY <1>2, GateAssumption DEF GateScan, TypeOK, storeVars
  <2>2. GateInv'
    BY <1>2 DEF GateScan, GateInv
  <2> QED
    BY <1>1, <2>1, <2>2
<1>3. CASE GateDone
  <2>1. TypeOK'
    BY <1>3 DEF GateDone, TypeOK, storeVars
  <2>2. /\ gpc = "evaluating" /\ todo = {} /\ gpc' = "done"
        /\ UNCHANGED <<o, scanned, now, todo, names, failing, past, signer>>
    BY <1>3 DEF GateDone, storeVars
  <2>3. \A r, s : Proves(r, s)' <=> Proves(r, s)
    BY <2>2 DEF Proves, SignedFor, subjectsOf
  <2>4. \A s : Group(s)' = Group(s)
    BY <2>2 DEF Group, subjectsOf
  <2>5. GateInv'
    BY <2>2, <2>3, <2>4 DEF GateInv
  <2> QED
    BY <1>1, <2>1, <2>5
<1>4. CASE GateExit
  <2>1. todo = {}
    BY <1>4 DEF GateExit, GateInv
  <2>2. TypeOK'
    BY <1>4, <2>1, ConstantTypes DEF GateExit, TypeOK, storeVars
  <2>3. GateInv'
    BY <1>4 DEF GateExit, GateInv
  <2> QED
    BY <1>1, <2>2, <2>3
<1> QED
  BY <1>2, <1>3, <1>4

\* GateStart: nothing is found in order yet.
LEMMA GateStartInv ==
    ASSUME IInv, GateStart, UNCHANGED <<clock, storeVars>>
    PROVE  IInv'
<1> USE DEF IInv
<1>1. RunInv' /\ FileInv'
  BY StoreStable
<1>2. names' \subseteq Drills \cup Controls
  <2>1. \A r \in scanned : subjectsOf(r, o.by) \subseteq Drills \cup Controls
    BY SubjectsType DEF TypeOK
  <2>2. o.subjects \subseteq Drills \cup Controls
    BY DEF TypeOK, GateOptions
  <2> QED
    BY <2>1, <2>2 DEF GateStart
<1>3. TypeOK'
  BY <1>2 DEF GateStart, TypeOK, storeVars
<1>4. GateInv'
  BY DEF GateStart, GateInv
<1> QED
  BY <1>1, <1>3, <1>4

\* A signature that verifies was made, by the pinned key if there is one.
LEMMA VerifyMeansSigned ==
    ASSUME TypeOK, FileInv, NEW r \in Records, NEW k, Verify(r, k)
    PROVE  signer[r.id] # NoKey /\ (k # NoKey => signer[r.id] = k)
<1>1. r.id \in Ids
  BY DEF Records
<1> QED
  BY <1>1 DEF FileInv, Verify

\* Evaluate: a subject the gate finds in order has the run it needs.
LEMMA EvaluateInv ==
    ASSUME IInv, NEW s \in todo, Evaluate(s), UNCHANGED <<clock, storeVars>>
    PROVE  IInv'
<1> USE DEF IInv
<1>1. RunInv' /\ FileInv'
  BY StoreStable
<1>2. /\ gpc = "evaluating" /\ todo' = todo \ {s}
      /\ UNCHANGED <<gpc, o, scanned, now, names, past, signer>>
  BY DEF Evaluate, storeVars
<1>3. failing' = failing \cup {s} \/ failing' = failing
  BY DEF Evaluate
<1>4. TypeOK'
  BY <1>2, <1>3 DEF TypeOK, storeVars
<1>5. ASSUME failing' # failing \cup {s}
      PROVE  /\ o.maxAge > 0 => \E r \in past : Proves(r, s)
             /\ ~o.allowUnverified =>
                  \E v \in Group(s) : v.verified /\ \A r \in Group(s) : r.finished <= v.finished
  <2>1. PICK latest \in Newest(Group(s)) :
          LET verified == Newest({r \in Group(s) : r.verified}) IN
          \E proof \in IF verified = {} THEN {{}} ELSE {{r} : r \in verified} :
             failing' = IF violates(latest, proof) THEN failing \cup {s} ELSE failing
    BY <1>5 DEF Evaluate
  <2> DEFINE verified == Newest({r \in Group(s) : r.verified})
  <2>2. PICK proof \in IF verified = {} THEN {{}} ELSE {{r} : r \in verified} :
          failing' = IF violates(latest, proof) THEN failing \cup {s} ELSE failing
    BY <2>1
  <2>3. ~violates(latest, proof)
    BY <1>5, <2>2
  <2>4. proof \subseteq {r \in Group(s) : r.verified}
    BY <2>2 DEF Newest
  <2>5. latest \in Group(s) /\ \A r \in Group(s) : r.finished <= latest.finished
    BY <2>1 DEF Newest
  <2>6. Group(s) \subseteq past /\ \A r \in Group(s) : s \in subjectsOf(r, o.by)
    BY DEF Group, TypeOK
  <2>7. ASSUME ~o.allowUnverified
        PROVE  \E v \in Group(s) : v.verified /\ \A r \in Group(s) : r.finished <= v.finished
    <3>1. latest.verified
      BY <2>3, <2>7 DEF violates
    <3> QED
      BY <2>5, <3>1
  <2>8. ASSUME o.maxAge > 0
        PROVE  \E r \in past : Proves(r, s)
    <3>1. PICK r \in proof : now - r.finished <= o.maxAge
      BY <2>3, <2>8 DEF violates
    <3>2. r \in past /\ r \in Records /\ r.verified /\ s \in subjectsOf(r, o.by)
      BY <2>4, <2>6 DEF TypeOK
    <3>3. o.requireSigned => Verify(r, o.key)
      BY <2>3, <3>1 DEF violates
    <3>4. SignedFor(r)
      BY <3>2, <3>3, VerifyMeansSigned DEF SignedFor
    <3> QED
      BY <3>1, <3>2, <3>4 DEF Proves
  <2> QED
    BY <2>7, <2>8
<1>6. GateInv'
  <2>1. \A r, t : Proves(r, t)' <=> Proves(r, t)
    BY <1>2 DEF Proves, SignedFor, subjectsOf
  <2>2. \A t : Group(t)' = Group(t)
    BY <1>2 DEF Group, subjectsOf
  <2>3. ASSUME NEW t \in names, t \notin todo', t \notin failing'
        PROVE  /\ o.maxAge > 0 => \E r \in past : Proves(r, t)
               /\ ~o.allowUnverified =>
                    \E v \in Group(t) : v.verified /\ \A r \in Group(t) : r.finished <= v.finished
    <3>1. CASE t = s
      BY <1>5, <2>3, <3>1
    <3>2. CASE t # s
      BY <1>2, <1>3, <2>3, <3>2 DEF GateInv
    <3> QED
      BY <3>1, <3>2
  <2> QED
    BY <1>2, <2>1, <2>2, <2>3 DEF GateInv
<1> QED
  BY <1>1, <1>4, <1>6

\* Every step preserves the invariant.
LEMMA NextInv == IInv /\ [Next]_vars => IInv'
<1> SUFFICES ASSUME IInv, [Next]_vars PROVE IInv'
  OBVIOUS
<1>1. CASE Tick \/ UNCHANGED vars
  <2>1. clock' \in Nat /\ UNCHANGED storeVars /\ UNCHANGED gateVars
    BY <1>1 DEF Tick, vars, IInv, TypeOK
  <2>2. TypeOK'
    BY <2>1 DEF IInv, TypeOK, storeVars, gateVars
  <2>3. GateInv'
    BY <2>1, GateInvStable DEF IInv, storeVars
  <2> QED
    BY <2>1, <2>2, <2>3, StoreStable DEF IInv
<1>2. CASE StoreAction
  BY <1>2, StoreActionInv
<1>3. CASE GateAction
  BY <1>3, GateMoveInv, GateStartInv, EvaluateInv DEF GateAction, Gate
<1> QED
  BY <1>1, <1>2, <1>3 DEF Next

-----------------------------------------------------------------------------
(* The theorems.                                                           *)

\* The inductive invariant holds in every reachable state.
THEOREM Invariance == Spec => []IInv
BY InitInv, NextInv, PTL DEF Spec

\* Every variable keeps its type; in particular no record on disk and no record
\* the gate read was made up or altered after its drill finished.
THEOREM TypeCorrect == Spec => []TypeOK
BY Invariance, PTL DEF IInv

\* A gate with a window that opens had, for each of its subjects, a verified
\* run within the window, signed as required: whatever is written, signed,
\* rotated or wiped between its scan and its verdict.
THEOREM GateIsSound == Spec => []OpenGateMeansProven
<1>1. IInv => OpenGateMeansProven
  BY DEF IInv, GateInv, OpenGateMeansProven, Open, Proves
<1> QED
  BY <1>1, Invariance, PTL

\* A gate that opens without tolerance saw no failure newer than the newest
\* verified run of the same subject.
THEOREM GateHidesNothing == Spec => []OpenGateHidesNoFailure
<1>1. IInv => OpenGateHidesNoFailure
  BY DEF IInv, GateInv, OpenGateHidesNoFailure, Open
<1> QED
  BY <1>1, Invariance, PTL

\* A signed record's attestation never contradicts its signature, however often
\* the signing key is rotated while drills finish.
THEOREM BundlesStayValid == Spec => []BundleStaysValid
<1>1. IInv => BundleStaysValid
  <2> SUFFICES ASSUME IInv, NEW r \in dir, Verify(r, NoKey), att[r.id] # Torn
              PROVE  VerifyBundle(r)
    BY DEF BundleStaysValid
  <2>1. r.id \in Ids
    BY DEF IInv, TypeOK, Records
  <2> QED
    BY <2>1 DEF IInv, FileInv, VerifyBundle, VerifyAttestation
<1> QED
  BY <1>1, Invariance, PTL
=============================================================================
