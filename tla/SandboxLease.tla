---------------------------- MODULE SandboxLease ----------------------------
(***************************************************************************)
(* What a drill promises about its sandbox, whichever provider it uses.    *)
(* Resources may be acquired and may be released by anyone (the drill, the *)
(* watchdog, a garbage collector), but a drill publishes at most one       *)
(* record, a record that says "destroyed" is published only when nothing   *)
(* is left, and from then on nothing comes back.                           *)
(***************************************************************************)
VARIABLES
    held,       \* some resource of the sandbox exists
    record      \* the published evidence's word on the sandbox

LeaseTypeOK ==
    /\ held \in BOOLEAN
    /\ record \in {"none", "standing", "destroyed"}

LeaseInit ==
    /\ held = FALSE
    /\ record = "none"

\* A sandbox is only ever built before the record is published.
Acquire ==
    /\ record = "none"
    /\ held' = TRUE
    /\ UNCHANGED record

Release ==
    /\ held' = FALSE
    /\ UNCHANGED record

\* "standing" makes no claim; "destroyed" does.
Publish ==
    /\ record = "none"
    /\ record' \in {"standing", "destroyed"}
    /\ record' = "destroyed" => ~held
    /\ UNCHANGED held

LeaseNext == Acquire \/ Release \/ Publish

LeaseSpec == LeaseInit /\ [][LeaseNext]_<<held, record>>
=============================================================================
