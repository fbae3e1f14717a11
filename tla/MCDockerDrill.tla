--------------------------- MODULE MCDockerDrill ---------------------------
(* Small instances of DockerDrill for TLC. *)
EXTENDS DockerDrill

CheckOf(n, rel, v) == [name |-> n, op |-> rel, val |-> v]
RowCount(min) == CheckOf("rowCount", ">=", min)
Restored == CheckOf("restoreSucceeded", "==", NoExpect)
Checksum(v) == CheckOf("checksum", "==", v)

DrillOf(verify, cold, outputs) ==
    [verify |-> verify, spooled |-> TRUE, coldStart |-> cold, sign |-> outputs, html |-> outputs]

\* For races between teardown, watchdog and garbage collector.
RaceDrills == {DrillOf(<<RowCount(1)>>, FALSE, FALSE)}

\* For the verdict as well: a check that asks nothing of the sandbox, then two
\* that do (a checksum that may differ, a row count that an empty table satisfies),
\* so that the sandbox can be lost between them.
VerdictDrills == {DrillOf(<<Restored, Checksum(0), RowCount(0)>>, TRUE, TRUE)}

UnforcedSweeps == {[force |-> FALSE, dryRun |-> FALSE]}
=============================================================================
