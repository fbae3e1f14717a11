---------------------------- MODULE KubernetesGC ----------------------------
(***************************************************************************)
(* gc.SweepKubernetes: a separate process (`firedrill gc`, or the operator *)
(* when it starts) that removes what drills left in the cluster.  The      *)
(* clock is read once, then pods, namespaces and Velero restores are       *)
(* listed one kind after the other.  What a sweep does to each kind is     *)
(* with the component that owns it; this module holds the sweep itself.    *)
(***************************************************************************)
EXTENDS Process

CONSTANTS
    SweepOptions,   \* the gc.Options a sweep may be started with
    OlderThan       \* age threshold for what carries no expiry annotation

ASSUME KubernetesGCAssumption ==
    /\ SweepOptions \subseteq [force : BOOLEAN, dryRun : BOOLEAN]
    /\ OlderThan \in Nat

VARIABLES
    gpc,            \* which kind the sweep is about to list
    o,              \* its options
    sweepNow        \* its `now`

gcVars == <<gpc, o, sweepNow>>

NoOptions == [force |-> FALSE, dryRun |-> FALSE]

GCTypeOK ==
    /\ gpc \in {"idle", "pods", "namespaces", "restores"}
    /\ o \in [force : BOOLEAN, dryRun : BOOLEAN]
    /\ sweepNow \in Nat

GCInit ==
    /\ gpc = "idle"
    /\ o = NoOptions
    /\ sweepNow = 0

\* Pods and namespaces carry the annotation; Force falls back to the age.
expired(expiresAt, created) ==
    IF o.force THEN sweepNow - created > OlderThan ELSE sweepNow > expiresAt

\* Clients, then `now`; the first list call comes later.
SweepStart(first) ==
    /\ gpc = "idle"
    /\ o' \in SweepOptions
    /\ sweepNow' = clock
    /\ gpc' = first

\* On to the next kind; "idle" ends the sweep.
SweepOn(kind, next) ==
    /\ gpc = kind
    /\ gpc' = next
    /\ IF next = "idle" THEN o' = NoOptions /\ sweepNow' = 0 ELSE UNCHANGED <<o, sweepNow>>
=============================================================================
