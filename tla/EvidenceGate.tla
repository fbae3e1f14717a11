---------------------------- MODULE EvidenceGate ----------------------------
(***************************************************************************)
(* The evidence directory (pkg/report): drills that write, sign and attest *)
(* their records one file after another, the signing key and its rotation, *)
(* and `firedrill gate`, another process, which scans the records first    *)
(* and looks at signatures subject by subject afterwards.                  *)
(***************************************************************************)
EXTENDS Integers

CONSTANTS
    Drills,         \* names of the drills that write to the directory
    ControlsOf,     \* the compliance controls each of them evidences
    Keys,           \* signing keys that keygen may come up with
    NoKey,
    Torn,           \* what is left of a file whose writing did not end
    Options,        \* the GateOptions a gate may be run with
    MaxRuns,        \* bound on drill runs
    MaxTime         \* bound on the clock

Controls == UNION {ControlsOf[d] : d \in Drills}

\* maxAge 0 is no window; key NoKey is no pinned key; subjects {} means whatever
\* the directory holds.
GateOptions == [maxAge : Nat, by : {"drill", "control"},
                subjects : SUBSET (Drills \cup Controls),
                requireSigned : BOOLEAN, key : Keys \cup {NoKey},
                allowUnverified : BOOLEAN]

ASSUME GateAssumption ==
    /\ NoKey \notin Keys /\ Torn \notin Keys \cup {NoKey}
    /\ MaxRuns \in Nat /\ MaxTime \in Nat
    \* gateCmd: --public-key implies --require-signed.
    /\ Options \subseteq {o \in GateOptions : o.key # NoKey => o.requireSigned}

Ids == 1 .. MaxRuns
Records == [id : Ids, drill : Drills, finished : Nat, verified : BOOLEAN]
NoRecord == [id |-> 0]
NoOptions == [maxAge |-> 0, by |-> "drill", subjects |-> {}, requireSigned |-> FALSE,
              key |-> NoKey, allowUnverified |-> FALSE]

VARIABLES
    clock,
    key,        \* the private key in the key directory
    runs,       \* number of drill runs so far
    run,        \* per drill: how far finalize got with which record and key
    dir,        \* the evidence JSON files in the directory
    sig,        \* signer of <id>.json.sig, NoKey if there is no readable one
    att,        \* signer of <id>.json.intoto.jsonl, or Torn
    gpc,        \* where the gate is
    o,          \* its options
    scanned,    \* the records it read
    now,        \* its idea of the time
    todo,       \* subjects still to be evaluated
    names,      \* all subjects of this gate
    failing,    \* subjects with a violation
    past,       \* history: every record any drill ever finished
    signer      \* history: who signed which record, wiped or not

storeVars == <<key, runs, run, dir, sig, att, past, signer>>
gateVars == <<gpc, o, scanned, now, todo, names, failing>>
vars == <<clock, storeVars, gateVars>>

Stages == {"idle", "finished", "written", "keyed", "signed", "attesting"}
Idle == [stage |-> "idle", rec |-> NoRecord, priv |-> NoKey]
InFlight == [stage : Stages \ {"idle"}, rec : Records, priv : Keys \cup {NoKey}]

TypeOK ==
    /\ clock \in Nat
    /\ key \in Keys \cup {NoKey}
    /\ runs \in 0 .. MaxRuns
    /\ run \in [Drills -> {Idle} \cup InFlight]
    /\ dir \subseteq past
    /\ sig \in [Ids -> Keys \cup {NoKey}]
    /\ att \in [Ids -> Keys \cup {NoKey, Torn}]
    /\ gpc \in {"idle", "scanned", "evaluating", "done"}
    /\ o \in GateOptions
    /\ scanned \subseteq past
    /\ now \in Nat
    /\ todo \subseteq names
    /\ names \subseteq Drills \cup Controls
    /\ failing \subseteq names
    /\ past \subseteq Records
    /\ signer \in [Ids -> Keys \cup {NoKey}]

Init ==
    /\ clock = 0
    /\ key = NoKey
    /\ runs = 0
    /\ run = [d \in Drills |-> Idle]
    /\ dir = {}
    /\ sig = [i \in Ids |-> NoKey]
    /\ att = [i \in Ids |-> NoKey]
    /\ gpc = "idle"
    /\ o = NoOptions
    /\ scanned = {} /\ now = 0
    /\ todo = {} /\ names = {} /\ failing = {}
    /\ past = {}
    /\ signer = [i \in Ids |-> NoKey]

-----------------------------------------------------------------------------
(* finalize, as far as it concerns the directory.  Any of its steps may be *)
(* the last one (an error or a crash); the files written so far stay.      *)

Abandon(d) ==
    /\ run[d].stage # "idle"
    /\ run' = [run EXCEPT ![d] = Idle]
    /\ UNCHANGED <<key, runs, dir, sig, att, past, signer>>

\* The verdict is reached and FinishedAt taken.
Finish(d) ==
    /\ run[d].stage = "idle" /\ runs < MaxRuns
    /\ runs' = runs + 1
    /\ \E v \in BOOLEAN :
         LET r == [id |-> runs + 1, drill |-> d, finished |-> clock, verified |-> v] IN
         /\ run' = [run EXCEPT ![d] = [stage |-> "finished", rec |-> r, priv |-> NoKey]]
         /\ past' = past \cup {r}
    /\ UNCHANGED <<key, dir, sig, att, signer>>

\* Mutant: FinishedAt is taken again when the file is written.
WriteRestamped(d) ==
    /\ run[d].stage = "finished"
    /\ dir' = dir \cup {[run[d].rec EXCEPT !.finished = clock]}
    /\ run' = [run EXCEPT ![d].stage = "written"]
    /\ UNCHANGED <<key, runs, sig, att, past, signer>>

\* Evidence.Write: temporary file and rename, under a name of its own.
Write(d) ==
    /\ run[d].stage = "finished"
    /\ dir' = dir \cup {run[d].rec}
    /\ run' = [run EXCEPT ![d].stage = "written"]
    /\ UNCHANGED <<key, runs, sig, att, past, signer>>

\* LoadPrivateKey, once for signature and attestation.
LoadKey(d) ==
    /\ run[d].stage = "written" /\ key # NoKey
    /\ run' = [run EXCEPT ![d].stage = "keyed", ![d].priv = key]
    /\ UNCHANGED <<key, runs, dir, sig, att, past, signer>>

\* Sign reads the record back, so it must still be there.
Sign(d) ==
    /\ run[d].stage = "keyed" /\ run[d].rec \in dir
    /\ sig' = [sig EXCEPT ![run[d].rec.id] = run[d].priv]
    /\ signer' = [signer EXCEPT ![run[d].rec.id] = run[d].priv]
    /\ run' = [run EXCEPT ![d].stage = "signed"]
    /\ UNCHANGED <<key, runs, dir, att, past>>

\* Attest reads the record and creates its file, not by way of a rename.
AttestBegin(d) ==
    /\ run[d].stage = "signed" /\ run[d].rec \in dir
    /\ att' = [att EXCEPT ![run[d].rec.id] = Torn]
    /\ run' = [run EXCEPT ![d].stage = "attesting"]
    /\ UNCHANGED <<key, runs, dir, sig, past, signer>>

\* Mutant: the attestation looks the key up again.
AttestReloadingKey(d) ==
    /\ run[d].stage = "attesting" /\ key # NoKey
    /\ att' = IF run[d].rec \in dir THEN [att EXCEPT ![run[d].rec.id] = key] ELSE att
    /\ run' = [run EXCEPT ![d] = Idle]
    /\ UNCHANGED <<key, runs, dir, sig, past, signer>>

\* The attestation is complete, with the key the signature was made with; a
\* file removed meanwhile is written to in vain.
Attest(d) ==
    /\ run[d].stage = "attesting"
    /\ att' = IF run[d].rec \in dir THEN [att EXCEPT ![run[d].rec.id] = run[d].priv] ELSE att
    /\ run' = [run EXCEPT ![d] = Idle]
    /\ UNCHANGED <<key, runs, dir, sig, past, signer>>

Finalize(d) ==
    \/ Finish(d)
    \/ Write(d)
    \/ LoadKey(d)
    \/ Sign(d)
    \/ AttestBegin(d)
    \/ Attest(d)
    \/ Abandon(d)

\* Rotation: the old key has to be removed first, keygen never overwrites one.
RemoveKey ==
    /\ key # NoKey
    /\ key' = NoKey
    /\ UNCHANGED <<runs, run, dir, sig, att, past, signer>>

\* A generated key is a new one.
GenerateKeypair ==
    /\ key = NoKey
    /\ key' \in {k \in Keys : /\ \A i \in Ids : signer[i] # k
                             /\ \A d \in Drills : run[d].priv # k}
    /\ UNCHANGED <<runs, run, dir, sig, att, past, signer>>

\* The directory is lost: an emptyDir volume, a CI workspace.
Wipe ==
    /\ dir # {}
    /\ dir' = {}
    /\ sig' = [i \in Ids |-> NoKey]
    /\ att' = [i \in Ids |-> NoKey]
    /\ UNCHANGED <<key, runs, run, past, signer>>

-----------------------------------------------------------------------------
(* Reading evidence.                                                       *)

\* Verify: the record and its signature file are there and agree, and the
\* signer is the trusted key if there is one.
Verify(r, trusted) ==
    /\ r \in dir
    /\ sig[r.id] # NoKey
    /\ trusted # NoKey => sig[r.id] = trusted

\* VerifyAttestation: the attestation is whole and by key k.
VerifyAttestation(r, k) == att[r.id] = k

\* VerifyBundle with no pinned key: the attestation, if present, is checked
\* against the key in the record's own signature file.
VerifyBundle(r) ==
    /\ Verify(r, NoKey)
    /\ att[r.id] # NoKey => VerifyAttestation(r, sig[r.id])

subjectsOf(r, by) == IF by = "control" THEN ControlsOf[r.drill] ELSE {r.drill}

\* The first of the runs sorted by FinishedAt, newest first; which one that is
\* among equals is not defined.
Newest(rs) == {r \in rs : \A s \in rs : s.finished <= r.finished}

Group(s) == {r \in scanned : s \in subjectsOf(r, o.by)}

\* Mutant: the age of the latest run is taken for that of the verified one.
violatesByLatestAge(latest, proof) ==
    \/ ~latest.verified /\ ~o.allowUnverified
    \/ o.maxAge > 0 /\ (proof = {} \/ now - latest.finished > o.maxAge)
    \/ o.requireSigned /\ \E r \in (IF proof = {} THEN {latest} ELSE proof) : ~Verify(r, o.key)

\* Mutant: --allow-unverified is taken to be the default.
violatesUnlessStale(latest, proof) ==
    \/ o.maxAge > 0 /\ ~\E r \in proof : now - r.finished <= o.maxAge
    \/ o.requireSigned /\ \E r \in (IF proof = {} THEN {latest} ELSE proof) : ~Verify(r, o.key)

\* evaluate, for a subject that has runs: `latest` is its latest run, `proof`
\* holds its latest verified one, if any.  The signature looked at is that of
\* the run the gate leans on.
violates(latest, proof) ==
    \/ ~latest.verified /\ ~o.allowUnverified
    \/ o.maxAge > 0 /\ ~\E r \in proof : now - r.finished <= o.maxAge
    \/ o.requireSigned /\ \E r \in (IF proof = {} THEN {latest} ELSE proof) : ~Verify(r, o.key)

-----------------------------------------------------------------------------
(* The gate.                                                               *)

\* scanEvidence.  The names are listed once and records never change, so the
\* scan is a snapshot; a record that is gone when it is read ends the gate
\* without a report.
GateScan ==
    /\ gpc = "idle"
    /\ o' \in Options
    /\ scanned' = dir
    /\ gpc' = "scanned"
    /\ UNCHANGED <<now, todo, names, failing>>

\* The clock is read; the subjects are the required ones or those found.
GateStart ==
    /\ gpc = "scanned"
    /\ now' = clock
    /\ names' = IF o.subjects # {} THEN o.subjects
                ELSE UNION {subjectsOf(r, o.by) : r \in scanned}
    /\ todo' = names'
    /\ failing' = {}
    /\ gpc' = "evaluating"
    /\ UNCHANGED <<o, scanned>>

\* One subject.  Its signature is read only now.
Evaluate(s) ==
    /\ gpc = "evaluating" /\ s \in todo
    /\ todo' = todo \ {s}
    /\ \/ Group(s) = {} /\ failing' = failing \cup {s}
       \/ \E latest \in Newest(Group(s)) :
            LET verified == Newest({r \in Group(s) : r.verified}) IN
            \E proof \in IF verified = {} THEN {{}} ELSE {{r} : r \in verified} :
               failing' = IF violates(latest, proof) THEN failing \cup {s} ELSE failing
    /\ UNCHANGED <<gpc, o, scanned, now, names>>

GateDone ==
    /\ gpc = "evaluating" /\ todo = {}
    /\ gpc' = "done"
    /\ UNCHANGED <<o, scanned, now, todo, names, failing>>

\* The process exits; another gate may be run.
GateExit ==
    /\ gpc = "done"
    /\ gpc' = "idle"
    /\ o' = NoOptions /\ scanned' = {} /\ now' = 0 /\ names' = {} /\ failing' = {}
    /\ UNCHANGED todo

Gate == GateScan \/ GateStart \/ (\E s \in todo : Evaluate(s)) \/ GateDone \/ GateExit

Tick ==
    /\ clock < MaxTime
    /\ clock' = clock + 1
    /\ UNCHANGED <<storeVars, gateVars>>

StoreAction ==
    /\ (\E d \in Drills : Finalize(d)) \/ RemoveKey \/ GenerateKeypair \/ Wipe
    /\ UNCHANGED <<clock, gateVars>>

GateAction == Gate /\ UNCHANGED <<clock, storeVars>>

Next == Tick \/ StoreAction \/ GateAction

Spec == Init /\ [][Next]_vars

-----------------------------------------------------------------------------
(* Properties.                                                             *)

\* The gate reports no violation.
Open == gpc = "done" /\ failing = {}

\* Signed by someone, and by the pinned key if one was given.
SignedFor(r) ==
    o.requireSigned => /\ signer[r.id] # NoKey
                       /\ o.key # NoKey => signer[r.id] = o.key

\* An open gate with a window is a guarantee: each of its subjects, whether it
\* still runs or not, had a run that verified recovery within the window and,
\* if signatures are required, was signed by the key that is trusted; also
\* when records, signatures and keys come and go while the gate is looking.
OpenGateMeansProven ==
    Open /\ o.maxAge > 0 =>
        \A s \in names :
           \E r \in past : /\ s \in subjectsOf(r, o.by)
                           /\ r.verified
                           /\ now - r.finished <= o.maxAge
                           /\ SignedFor(r)

\* An open gate hides no failure: unless told to tolerate it, no failed run of
\* a subject that the gate saw is newer than all the verified ones it saw.
OpenGateHidesNoFailure ==
    Open /\ ~o.allowUnverified =>
        \A s \in names : \A r \in Group(s) :
           \E v \in Group(s) : v.verified /\ v.finished >= r.finished

\* Evidence outlives its key: an attestation that was written out never makes
\* a record with a valid signature fail verification, whatever happened to the
\* key directory between signing and attesting or since.
BundleStaysValid ==
    \A r \in dir : Verify(r, NoKey) /\ att[r.id] # Torn => VerifyBundle(r)

\* GateOptions: "AllowUnverified accepts a subject whose latest run failed, as
\* long as a verified run still falls inside MaxAge".
ToleranceNeedsProof ==
    Open /\ o.allowUnverified => \A s \in names : \E r \in Group(s) : r.verified
=============================================================================
