------------------------- MODULE MCKubernetesDrill -------------------------
(* A small instance of KubernetesDrill for TLC. *)
EXTENDS KubernetesDrill

\* One row count, the cheapest drill that can be verified.
RowCountDrill ==
    [verify |-> <<[name |-> "rowCount", op |-> ">=", val |-> 1]>>,
     spooled |-> TRUE, coldStart |-> FALSE, sign |-> FALSE, html |-> FALSE]

OneDrill == {RowCountDrill}

Sweeps == {[force |-> FALSE, dryRun |-> FALSE]}
=============================================================================
