------------------------------ MODULE Verdict ------------------------------
(***************************************************************************)
(* verify.Run's checks and finalize's verdict as operators.  The answer of *)
(* the restored engine is a small number (a row count, a scalar, a sum) or *)
(* QueryErr; what the checks do with it is the code's.                     *)
(***************************************************************************)
EXTENDS Integers, Sequences

CONSTANTS
    Answers,    \* what a query against the sandbox may return
    RTO,        \* objective: longest restore
    RPO         \* objective: oldest backup

ASSUME VerdictAssumption == Answers \subseteq Nat /\ RTO \in Nat /\ RPO \in Nat

QueryErr == -1      \* the query failed: engine gone, context done, SQL error
NoExpect == -1      \* checksum with no recorded value to compare against

\* The checks that inspect restored data.
dataCheckNames ==
    {"rowCount", "checksum", "smoke", "canary", "podsReady", "resourceCount"}

\* Every check a spec may list; podsReady and resourceCount are for velero drills
\* and the other four data checks for engine drills.
CheckNames == dataCheckNames \cup {"restoreSucceeded", "freshness"}

\* spec.Check: which check it is and what it asserts.  op is used by smoke only.
Checks == [name : CheckNames,
           op   : {">=", "<=", "==", ">", "<"},
           val  : Nat \cup {NoExpect}]

Results == [name : CheckNames, passed : BOOLEAN, skipped : BOOLEAN]

\* A row-count expression of a smoke check.
evalRows(n, op, v) ==
    \/ op = ">=" /\ n >= v
    \/ op = "<=" /\ n <= v
    \/ op = "==" /\ n = v
    \/ op = ">"  /\ n > v
    \/ op = "<"  /\ n < v

\* Mutant: the error of a query is ignored and its zero value compared.
enginePassedOnError(c, answer) ==
    LET n == IF answer = QueryErr THEN 0 ELSE answer IN
    \/ c.name = "rowCount" /\ n >= c.val
    \/ c.name = "checksum" /\ (c.val = NoExpect \/ n = c.val)
    \/ c.name = "smoke"    /\ evalRows(n, c.op, c.val)
    \/ c.name = "canary"   /\ n = c.val

\* The checks that ask one question: a failed query or list call fails the check,
\* otherwise the check's own comparison decides.  (podsReady asks many times.)
enginePassed(c, answer) ==
    /\ answer # QueryErr
    /\ \/ c.name \in {"rowCount", "resourceCount"} /\ answer >= c.val
       \/ c.name = "checksum" /\ (c.val = NoExpect \/ answer = c.val)
       \/ c.name = "smoke"    /\ evalRows(answer, c.op, c.val)
       \/ c.name = "canary"   /\ answer = c.val

\* One check.  Data checks are skipped, not failed, when the restore failed.
runOne(c, restoreErr, backupAge, answer) ==
    [name    |-> c.name,
     passed  |-> \/ c.name = "restoreSucceeded" /\ ~restoreErr
                 \/ c.name = "freshness" /\ backupAge <= c.val
                 \/ c.name \in dataCheckNames /\ ~restoreErr /\ enginePassed(c, answer),
     skipped |-> c.name \in dataCheckNames /\ restoreErr]

\* The answers a check may see: a data check asks the engine only when the
\* restore succeeded, and the engine answers only while it can be reached.
AnswersTo(c, restoreErr, reachable) ==
    IF c.name \in dataCheckNames /\ ~restoreErr /\ reachable
    THEN Answers \cup {QueryErr}
    ELSE {QueryErr}

RTOMet(restoreErr, restoreDur) == ~restoreErr /\ restoreDur <= RTO

RPOMet(backupAge) == backupAge <= RPO

\* Mutant: one passing data check is enough, whatever the others say.
VerifiedByOneCheck(restoreErr, restoreDur, backupAge, checks) ==
    /\ ~restoreErr
    /\ RTOMet(restoreErr, restoreDur)
    /\ RPOMet(backupAge)
    /\ \E i \in DOMAIN checks : checks[i].passed /\ checks[i].name \in dataCheckNames

\* finalize's verdict: objectives met, nothing failed or was skipped, and at
\* least one check that looked at restored data passed.
Verified(restoreErr, restoreDur, backupAge, checks) ==
    /\ ~restoreErr
    /\ RTOMet(restoreErr, restoreDur)
    /\ RPOMet(backupAge)
    /\ \A i \in DOMAIN checks : checks[i].passed /\ ~checks[i].skipped
    /\ \E i \in DOMAIN checks : checks[i].passed /\ checks[i].name \in dataCheckNames
=============================================================================
