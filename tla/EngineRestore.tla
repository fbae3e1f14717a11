--------------------------- MODULE EngineRestore ---------------------------
(***************************************************************************)
(* Driver.Restore of the database engines (pkg/drivers): the artifact that *)
(* Fetch left is streamed into a tool that runs in the sandbox, or a       *)
(* physical backup is unpacked and the server started over it.  One module *)
(* for postgres, mysql and mongodb: a format stands for its tool.  What    *)
(* enters from outside are operator arguments:                             *)
(*   t        time.Now()                                                   *)
(*   ctxDone  the drill's context is done; then no Exec succeeds           *)
(*   content  what the Backup's path holds                                 *)
(***************************************************************************)
EXTENDS Integers

CONSTANT StartLimit     \* how long a restored cluster may take to accept queries

ASSUME RestoreAssumption == StartLimit \in Nat

\* psql and mysql take the end of their input for the end of the dump, and tar
\* an end between two members for the end of the archive; pg_restore and
\* mongorestore notice that it was cut short.
Formats == {"custom", "plain", "mysql", "archive", "basebackup"}
StopsShort == {"plain", "mysql", "basebackup"}

VARIABLES
    format,     \* spec.source.driver and format, as detected (never changes)
    rpc,        \* where Restore is
    input,      \* the opened artifact
    cut,        \* reading it failed midway, and Exec dropped the error
    loaded,     \* how much of it the engine has
    startAt,    \* when the measurement began
    pollBy,     \* physical restore: the deadline of the polling
    cluster,    \* the server over a restored data directory; one that is up may be
                \* without the role or the database that Restore asks for
    log,        \* its log, by the kind of the FATAL lines in it
    res         \* what Restore returned

restoreVars == <<format, rpc, input, cut, loaded, startAt, pollBy, cluster, log, res>>

NoInput == [mod |-> -1]
Unmeasured == -1
Running == [err |-> FALSE, dur |-> Unmeasured, step |-> "none"]

RestoreTypeOK ==
    /\ format \in Formats
    /\ rpc \in {"idle", "preflight", "open", "config", "exec", "untar", "prepare", "start",
                "poll", "grep", "done"}
    /\ cut \in BOOLEAN
    /\ loaded \in {"none", "part", "all"}
    /\ startAt \in Nat /\ pollBy \in Nat
    /\ cluster \in {"cold", "recovering", "up", "refusing", "dead"}
    /\ log \subseteq {"transient", "refused", "fatal"}
    /\ res \in [err : BOOLEAN, dur : Nat \cup {Unmeasured}, step : {"none", "startup"}]

RestoreInit ==
    /\ rpc = "idle"
    /\ input = NoInput
    /\ cut = FALSE /\ loaded = "none"
    /\ startAt = 0 /\ pollBy = 0
    /\ cluster = "cold" /\ log = {}
    /\ res = Running

Returns(r) == rpc' = "done" /\ res' = r

\* An Exec that could not be carried out: no result comes with the error.
ReturnsError == Returns([err |-> TRUE, dur |-> Unmeasured, step |-> "none"])

\* The tool ran and reported failure.
ReturnsFailed(t) == Returns([err |-> TRUE, dur |-> t - startAt, step |-> "none"])

ReturnsOk(t) == Returns([err |-> FALSE, dur |-> t - startAt, step |-> "none"])

Begin ==
    /\ rpc = "idle"
    /\ rpc' = IF format = "archive" THEN "preflight" ELSE "open"
    /\ UNCHANGED <<format, input, cut, loaded, startAt, pollBy, cluster, log, res>>

\* mongodb: are the tools in the image?
Preflight(ctxDone) ==
    /\ rpc = "preflight"
    /\ \/ ~ctxDone /\ rpc' = "open" /\ UNCHANGED res
       \/ ReturnsError
    /\ UNCHANGED <<format, input, cut, loaded, startAt, pollBy, cluster, log>>

\* os.Open of the Backup's path, and a look at its first bytes.  A file in place
\* may have been pruned.  The measurement starts before the tool does.
OpenBackup(t, content) ==
    /\ rpc = "open"
    /\ \/ /\ content # NoInput
          /\ input' = content
          /\ startAt' = t
          /\ rpc' = CASE format = "archive" -> "config"
                      [] format = "basebackup" -> "untar"
                      [] OTHER -> "exec"
          /\ UNCHANGED res
       \/ ReturnsError /\ UNCHANGED <<input, startAt>>
    /\ UNCHANGED <<format, cut, loaded, pollBy, cluster, log>>

\* mongodb: the tools' password file; the clock is started after it.
WriteConfig(t, ctxDone) ==
    /\ rpc = "config"
    /\ \/ ~ctxDone /\ rpc' = "exec" /\ startAt' = t /\ UNCHANGED res
       \/ ReturnsError /\ UNCHANGED startAt
    /\ UNCHANGED <<format, input, cut, loaded, pollBy, cluster, log>>

\* Exec streams the artifact into a tool.  A read error of the artifact ends the
\* stream like its end does: the goroutine that copies drops it.
Stream ==
    /\ cut' \in BOOLEAN
    /\ loaded' \in {"part", "all"}
    /\ cut' => loaded' = "part"

\* The tool exits with 0: it has had all it was sent.
ToolSucceeds(ctxDone) ==
    /\ ~ctxDone
    /\ cut' => format \in StopsShort
    /\ ~cut' => loaded' = "all"

\* pg_restore, psql, mysql or mongorestore.
Load(t, ctxDone) ==
    /\ rpc = "exec"
    /\ Stream
    /\ \/ ToolSucceeds(ctxDone) /\ ReturnsOk(t)
       \/ ~ctxDone /\ ReturnsFailed(t)
       \/ ReturnsError
    /\ UNCHANGED <<format, input, startAt, pollBy, cluster, log>>

Untar(t, ctxDone) ==
    /\ rpc = "untar"
    /\ Stream
    /\ \/ ToolSucceeds(ctxDone) /\ rpc' = "prepare" /\ UNCHANGED res
       \/ ~ctxDone /\ ReturnsFailed(t)
       \/ ReturnsError
    /\ UNCHANGED <<format, input, startAt, pollBy, cluster, log>>

\* Ownership, mode and pg_hba.conf of the data directory.
PrepareDirectory(t, ctxDone) ==
    /\ rpc = "prepare"
    /\ \/ ~ctxDone /\ rpc' = "start" /\ UNCHANGED res
       \/ ~ctxDone /\ ReturnsFailed(t)
       \/ ReturnsError
    /\ UNCHANGED <<format, input, cut, loaded, startAt, pollBy, cluster, log>>

\* Mutant: the exit code of the background start is taken for the server's.
StartClusterTrusted(t, ctxDone) ==
    /\ rpc = "start"
    /\ \/ ~ctxDone /\ ReturnsOk(t) /\ cluster' = "recovering"
       \/ ReturnsError /\ UNCHANGED cluster
    /\ UNCHANGED <<format, input, cut, loaded, startAt, pollBy, log>>

\* The server is started in the background; the exit code is echo's.
StartCluster(t, ctxDone) ==
    /\ rpc = "start"
    /\ \/ ~ctxDone /\ rpc' = "poll" /\ cluster' = "recovering" /\ pollBy' = t + StartLimit
          /\ UNCHANGED res
       \/ ~ctxDone /\ ReturnsFailed(t) /\ UNCHANGED <<cluster, pollBy>>
       \/ ReturnsError /\ UNCHANGED <<cluster, pollBy>>
    /\ UNCHANGED <<format, input, cut, loaded, startAt, log>>

\* The FATAL line that a failed query itself leaves in the server's log: one of
\* the transient ones while the server recovers, "role (or database) does not
\* exist" once it is up and lacks them.
QueryLogged ==
    \/ cluster = "recovering" /\ log' = log \cup {"transient"}
    \/ cluster = "refusing" /\ log' = log \cup {"refused"}

\* One round: the deadline, the context, a query as user postgres.
PollCluster(t, ctxDone) ==
    /\ rpc = "poll"
    /\ \/ t > pollBy /\ ReturnsError /\ UNCHANGED log
       \/ t <= pollBy /\ ctxDone /\ ReturnsError /\ UNCHANGED log
       \/ t <= pollBy /\ ~ctxDone /\ cluster = "up" /\ ReturnsOk(t) /\ UNCHANGED log
       \/ /\ t <= pollBy
          /\ rpc' = "grep"
          /\ QueryLogged \/ UNCHANGED log     \* it may not have reached a server
          /\ UNCHANGED res
    /\ UNCHANGED <<format, input, cut, loaded, startAt, pollBy, cluster>>

\* Mutant: any FATAL line counts.
fatalStartupLineAny == log # {}

\* A FATAL line that is not one of those a recovering server writes, whoever
\* provoked it.
fatalStartupLine == log \cap {"refused", "fatal"} # {}

\* After a failed query the log is searched, so that a broken data directory is
\* found before the deadline.  A search that fails says nothing.
GrepLog(t, ctxDone) ==
    /\ rpc = "grep"
    /\ \/ /\ fatalStartupLine /\ ~ctxDone
          /\ Returns([err |-> TRUE, dur |-> t - startAt, step |-> "startup"])
       \/ rpc' = "poll" /\ UNCHANGED res
    /\ UNCHANGED <<format, input, cut, loaded, startAt, pollBy, cluster, log>>

\* The server: replays its log and comes up, with the users and databases of
\* the cluster that was backed up, or gives up with a FATAL line.
ClusterMoves ==
    /\ cluster = "recovering"
    /\ \/ cluster' \in {"up", "refusing"} /\ UNCHANGED log
       \/ cluster' = "dead" /\ log' = log \cup {"fatal"}
    /\ UNCHANGED <<format, rpc, input, cut, loaded, startAt, pollBy, res>>

\* One step of Restore.
RestoreStep(t, ctxDone, content) ==
    \/ Begin
    \/ Preflight(ctxDone)
    \/ OpenBackup(t, content)
    \/ WriteConfig(t, ctxDone)
    \/ Load(t, ctxDone)
    \/ Untar(t, ctxDone)
    \/ PrepareDirectory(t, ctxDone)
    \/ StartCluster(t, ctxDone)
    \/ PollCluster(t, ctxDone)
    \/ GrepLog(t, ctxDone)
=============================================================================
