--------------------------- MODULE MCEvidenceGate ---------------------------
(* Small instances of EvidenceGate for TLC. *)
EXTENDS EvidenceGate, TLC

OneControl == [d \in Drills |-> {"control"}]

OptionsOf(age, by, subjects, signed, pinned, allow) ==
    [maxAge |-> age, by |-> by, subjects |-> subjects, requireSigned |-> signed,
     key |-> pinned, allowUnverified |-> allow]

Pinned == CHOOSE k \in Keys : TRUE

\* With a window: a required control, signed by a pinned key; whatever drills
\* the directory holds, signed by anyone, tolerating failures.
WindowOptions ==
    {OptionsOf(1, "control", {"control"}, TRUE, Pinned, FALSE),
     OptionsOf(1, "drill", {}, TRUE, NoKey, TRUE)}

\* Failures tolerated, no window.
NoWindow == {OptionsOf(0, "drill", Drills, FALSE, NoKey, TRUE)}

\* The drills are interchangeable; the keys are not, one of them is pinned.
DrillSymmetry == Permutations(Drills)
=============================================================================
