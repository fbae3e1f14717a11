------------------------------ MODULE Process ------------------------------
(***************************************************************************)
(* The process that runs a drill, as the rest of the model sees it: wall-  *)
(* clock time, whether the process is still there, and the root context    *)
(* that main() builds from the first signal (cmd/firedrill/main.go).       *)
(***************************************************************************)
EXTENDS Integers

CONSTANTS
    TTL,        \* spec.sandbox.ttl, the lease every part of a drill counts from
    MaxTime     \* bound on the clock (state-space bound)

ASSUME ProcessAssumption == TTL \in Nat \ {0} /\ MaxTime \in Nat

VARIABLES
    clock,      \* time.Now(), in abstract units
    alive,      \* FALSE once the process was killed or exited
    cancelled   \* the root context was cancelled by a signal

processVars == <<clock, alive, cancelled>>

ProcessTypeOK ==
    /\ clock \in Nat
    /\ alive \in BOOLEAN
    /\ cancelled \in BOOLEAN

ProcessInit ==
    /\ clock = 0
    /\ alive = TRUE
    /\ cancelled = FALSE

\* Time passes independently of everything else.
Tick ==
    /\ clock < MaxTime
    /\ clock' = clock + 1
    /\ UNCHANGED <<alive, cancelled>>

\* First SIGINT/SIGTERM: only the context is cancelled, teardown still runs.
Interrupt ==
    /\ alive
    /\ ~cancelled
    /\ cancelled' = TRUE
    /\ UNCHANGED <<clock, alive>>

\* Second signal (os.Exit(130), no deferred function runs), SIGKILL, a crash
\* of the host process: every goroutine stops where it is.
Kill ==
    /\ alive
    /\ alive' = FALSE
    /\ UNCHANGED <<clock, cancelled>>
=============================================================================
