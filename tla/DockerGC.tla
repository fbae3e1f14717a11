------------------------------ MODULE DockerGC ------------------------------
(***************************************************************************)
(* gc.SweepDocker: a separate process (`firedrill gc`, by hand or from     *)
(* cron) that removes what drills left behind, one sweep                   *)
(* after another, while drills may be running.                             *)
(***************************************************************************)
EXTENDS DockerSandbox

CONSTANTS
    SweepOptions,   \* the gc.Options a sweep may be started with
    OlderThan       \* age threshold for what carries no expiry label

ASSUME GCAssumption ==
    /\ SweepOptions \subseteq [force : BOOLEAN, dryRun : BOOLEAN]
    /\ OlderThan \in Nat

VARIABLES
    gpc,            \* where the sweep is
    o,              \* its options
    condemned,      \* the container was listed and found expired
    networkAged     \* the network was older than OlderThan at the sweep's `now`

gcVars == <<gpc, o, condemned, networkAged>>

NoOptions == [force |-> FALSE, dryRun |-> FALSE]

GCTypeOK ==
    /\ gpc \in {"idle", "containers", "networks"}
    /\ o \in [force : BOOLEAN, dryRun : BOOLEAN]
    /\ condemned \in BOOLEAN
    /\ networkAged \in BOOLEAN

GCInit ==
    /\ gpc = "idle"
    /\ o = NoOptions
    /\ condemned = FALSE
    /\ networkAged = FALSE

\* Containers always carry the label; Force falls back to the age.
expired(opts, now) ==
    IF opts.force THEN now - containerBorn > OlderThan ELSE now > expiresAt

\* Ping, read the clock (once, for both halves of the sweep), list the
\* containers.
SweepStart ==
    /\ gpc = "idle"
    /\ \E opts \in SweepOptions :
         /\ o' = opts
         /\ condemned' = (ContainerExists /\ expired(opts, clock))
    /\ networkAged' = (NetworkExists /\ clock - networkBorn > OlderThan)
    /\ gpc' = "containers"
    /\ UNCHANGED sandboxVars

\* Remove the condemned container; an error is reported and the sweep goes on.
SweepContainer ==
    /\ gpc = "containers"
    /\ \/ condemned /\ ~o.dryRun /\ ContainerExists /\ container' = "removed"
       \/ UNCHANGED container
    /\ condemned' = FALSE
    /\ gpc' = "networks"
    /\ UNCHANGED <<o, networkAged, network, networkBorn, containerBorn, destroyVars,
                   provisionVars, watchdog, expiry>>

\* Mutant: networks go only when forced.
SweepNetworkForcedOnly ==
    /\ gpc = "networks"
    /\ \/ /\ o.force
          /\ ~o.dryRun /\ NetworkExists /\ ~Up
          /\ network' = "removed"
       \/ UNCHANGED network
    /\ gpc' = "idle"
    /\ o' = NoOptions
    /\ networkAged' = FALSE
    /\ UNCHANGED <<condemned, networkBorn, container, containerBorn, destroyVars,
                   provisionVars, watchdog, expiry>>

\* Networks carry no label: age alone, or Force, decides.  A network with a
\* running container attached refuses to go, which counts as skipped.
SweepNetwork ==
    /\ gpc = "networks"
    /\ \/ /\ networkAged \/ o.force
          /\ ~o.dryRun /\ NetworkExists /\ ~Up
          /\ network' = "removed"
       \/ UNCHANGED network
    /\ gpc' = "idle"
    /\ o' = NoOptions
    /\ networkAged' = FALSE
    /\ UNCHANGED <<condemned, networkBorn, container, containerBorn, destroyVars,
                   provisionVars, watchdog, expiry>>

SweepStep == SweepStart \/ SweepContainer \/ SweepNetwork
=============================================================================
