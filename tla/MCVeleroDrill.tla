--------------------------- MODULE MCVeleroDrill ---------------------------
(* Small instances of VeleroDrill for TLC. *)
EXTENDS VeleroDrill

CheckOf(n, v) == [name |-> n, op |-> ">=", val |-> v]

DrillOf(verify) ==
    [verify |-> verify, spooled |-> FALSE, coldStart |-> FALSE, sign |-> FALSE, html |-> FALSE]

\* Counting objects and watching pods, in the order a spec lists them.
NamespaceDrills == {DrillOf(<<CheckOf("resourceCount", 1), CheckOf("podsReady", NoExpect)>>)}

\* One check is enough to reach every place of the verification.
PodDrills == {DrillOf(<<CheckOf("podsReady", NoExpect)>>)}

Sweeps == {[force |-> FALSE, dryRun |-> FALSE]}
=============================================================================
