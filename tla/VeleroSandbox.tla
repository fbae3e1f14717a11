--------------------------- MODULE VeleroSandbox ---------------------------
(***************************************************************************)
(* The velero driver (pkg/drivers/velero): Prepare, Restore, the TTL       *)
(* watchdog goroutine and Destroy, with the part of the cluster they talk  *)
(* to: an ephemeral namespace and a Restore object that the Velero server  *)
(* works on, making the namespace again when it is missing.  A create call *)
(* that reports an error may have taken effect, or may take effect later.  *)
(***************************************************************************)
EXTENDS Process

VARIABLES
    ns,           \* cluster: the ephemeral namespace; one that is terminating may be gone,
                  \* one that Velero made again has no label of firedrill, no policy
    nsBorn,       \* cluster: its creation time
    expiresAt,    \* value of its expires-at annotation
    cr,           \* cluster: the Restore object, by its phase; orphaned: deleted while
                  \* the server works on it, which it goes on doing
    crBorn,       \* cluster: its creation time
    inflight,     \* a create of it the client gave up on may still take effect
    ppc,          \* where Prepare is
    rpc,          \* where Restore is
    restoreName,  \* d.restoreName is set: Destroy knows of the Restore object
    watchdog,     \* the TTL goroutine
    expiry,       \* when its timer fires
    once,         \* destroyOnce, and how far its body got
    destroyErr,
    destroyed     \* the atomic flag behind WasDestroyed()

clusterVars == <<ns, nsBorn, cr, crBorn, inflight>>
driverVars == <<expiresAt, ppc, rpc, restoreName>>
watchdogVars == <<watchdog, expiry>>
destroyVars == <<once, destroyErr, destroyed>>
sandboxVars == <<clusterVars, driverVars, watchdogVars, destroyVars>>

SandboxTypeOK ==
    /\ ns \in {"absent", "active", "terminating", "recreated"}
    /\ nsBorn \in Nat /\ crBorn \in Nat
    /\ expiresAt \in Nat
    /\ cr \in {"absent", "running", "completed", "failed", "orphaned", "removed"}
    /\ inflight \in {"none", "travelling", "landed"}
    /\ ppc \in {"backup", "namespace", "policy", "abort", "ok", "refused", "failed"}
    /\ rpc \in {"name", "create", "poll", "done"}
    /\ restoreName \in BOOLEAN
    /\ watchdog \in {"unarmed", "armed", "cancelled", "firing", "exited"}
    /\ expiry \in Nat
    /\ once \in {"free", "namespace", "restore", "done"}
    /\ destroyErr \in BOOLEAN /\ destroyed \in BOOLEAN

SandboxInit ==
    /\ ns = "absent" /\ nsBorn = 0
    /\ cr = "absent" /\ crBorn = 0
    /\ inflight = "none"
    /\ expiresAt = 0
    /\ ppc = "backup"
    /\ rpc = "name"
    /\ restoreName = FALSE
    /\ watchdog = "unarmed" /\ expiry = 0
    /\ once = "free" /\ destroyErr = FALSE /\ destroyed = FALSE

RestoreExists == cr \in {"running", "completed", "failed"}

\* What deleting the object leaves, and what deleting the namespace by its name
\* leaves.
RestoreDeleted == CASE cr = "running" -> "orphaned"
                    [] cr \in {"completed", "failed"} -> "removed"
                    [] OTHER -> cr

NamespaceDeleted == IF ns \in {"active", "recreated"} THEN "terminating" ELSE ns

-----------------------------------------------------------------------------
(* Prepare, past the reading of the backup.  ctxDone: its context is done. *)

\* Namespaces.Create.  When it reports an error Prepare returns at once: a
\* namespace that was created all the same has no owner.
CreateNamespace(ctxDone) ==
    /\ ppc = "namespace"
    /\ expiresAt' = clock + TTL
    /\ \/ ~ctxDone /\ ns' = "active" /\ nsBorn' = clock /\ ppc' = "policy"
       \/ /\ \/ UNCHANGED <<ns, nsBorn>>
             \/ ns' = "active" /\ nsBorn' = clock
          /\ ppc' = "refused"
    /\ UNCHANGED <<cr, crBorn, inflight, rpc, restoreName, watchdogVars, destroyVars>>

\* Mutant: the namespace is not taken down when its policy cannot be made.
CreatePolicyNoCleanup(ctxDone) ==
    /\ ppc = "policy"
    /\ \/ ~ctxDone /\ ppc' = "ok" /\ watchdog' = "armed" /\ expiry' = clock + TTL
       \/ ppc' = "failed" /\ UNCHANGED watchdogVars
    /\ UNCHANGED <<clusterVars, expiresAt, rpc, restoreName, destroyVars>>

\* EnsureDenyEgressPolicy, with a Destroy of its own on failure, then the
\* watchdog is armed: its TTL runs from here.
CreatePolicy(ctxDone) ==
    /\ ppc = "policy"
    /\ \/ ~ctxDone /\ ppc' = "ok" /\ watchdog' = "armed" /\ expiry' = clock + TTL
       \/ ppc' = "abort" /\ UNCHANGED watchdogVars
    /\ UNCHANGED <<clusterVars, expiresAt, rpc, restoreName, destroyVars>>

\* The Destroy of a failed Prepare has returned.
Aborted ==
    /\ ppc = "abort"
    /\ once = "done"
    /\ ppc' = "failed"
    /\ UNCHANGED <<clusterVars, expiresAt, rpc, restoreName, watchdogVars, destroyVars>>

Prepare(ctxDone) ==
    \/ CreateNamespace(ctxDone)
    \/ CreatePolicy(ctxDone)
    \/ Aborted

-----------------------------------------------------------------------------
(* Restore, up to the outcome of its polling.                              *)

\* d.restoreName is written without synchronisation with Destroy.
NameRestore ==
    /\ rpc = "name"
    /\ restoreName' = TRUE
    /\ rpc' = "create"
    /\ UNCHANGED <<clusterVars, expiresAt, ppc, watchdogVars, destroyVars>>

RestoreAppears == cr' = "running" /\ crBorn' = clock

\* restores.Create answered.
RestoreCreated ==
    /\ rpc = "create"
    /\ RestoreAppears
    /\ rpc' = "poll"
    /\ UNCHANGED <<ns, nsBorn, inflight, expiresAt, ppc, restoreName, watchdogVars,
                   destroyVars>>

\* restores.Create reported an error.
RestoreNotCreated ==
    /\ rpc = "create"
    /\ \/ RestoreAppears /\ UNCHANGED inflight
       \/ inflight' \in {"none", "travelling"} /\ UNCHANGED <<cr, crBorn>>
    /\ rpc' = "done"
    /\ UNCHANGED <<ns, nsBorn, expiresAt, ppc, restoreName, watchdogVars, destroyVars>>

\* The polling loop ends.
PollingEnds ==
    /\ rpc = "poll"
    /\ rpc' = "done"
    /\ UNCHANGED <<clusterVars, expiresAt, ppc, restoreName, watchdogVars, destroyVars>>

-----------------------------------------------------------------------------
(* Destroy.  sync.Once: the first caller runs the body, whoever calls      *)
(* meanwhile waits for it, and nobody ever runs it again.                  *)

\* The main goroutine, a failing Prepare or the watchdog is in d.Destroy, and
\* the first of them cancels the watchdog.
EnterDestroy(mainWants) ==
    /\ mainWants \/ ppc = "abort" \/ watchdog = "firing"
    /\ once = "free"
    /\ once' = "namespace"
    /\ watchdog' = IF watchdog = "armed" THEN "cancelled" ELSE watchdog
    /\ UNCHANGED <<clusterVars, driverVars, expiry, destroyErr, destroyed>>

\* Mutant: only an error of the Restore object's deletion is kept.
DeleteNamespaceErrorLost ==
    /\ once = "namespace"
    /\ once' = "restore"
    /\ ns' \in {ns, NamespaceDeleted}
    /\ UNCHANGED <<nsBorn, cr, crBorn, inflight, driverVars, watchdogVars, destroyErr,
                   destroyed>>

\* Namespaces.Delete: accepted, it only starts the termination.  "Not found"
\* counts as deleted; an error may hide a deletion that was accepted.
DeleteNamespace ==
    /\ once = "namespace"
    /\ once' = "restore"
    /\ \/ ns' = NamespaceDeleted /\ UNCHANGED destroyErr
       \/ ns' \in {ns, NamespaceDeleted} /\ destroyErr' = TRUE
    /\ UNCHANGED <<nsBorn, cr, crBorn, inflight, driverVars, watchdogVars, destroyed>>

\* The Restore object, tried even if the namespace could not be deleted, but
\* only if its name is set by now.  (A torn read of the name ends the process,
\* which Kill covers.)  Then the flag is stored; nobody reads it before the
\* Once is done.
DeleteRestore ==
    /\ once = "restore"
    /\ once' = "done"
    /\ \/ ~restoreName /\ UNCHANGED <<cr, destroyErr>>
       \/ restoreName /\ cr' = RestoreDeleted /\ UNCHANGED destroyErr
       \/ restoreName /\ cr' \in {cr, RestoreDeleted} /\ destroyErr' = TRUE
    /\ destroyed' = ~destroyErr'
    /\ UNCHANGED <<ns, nsBorn, crBorn, inflight, driverVars, watchdogVars>>

\* The rest of the Once's body, in whichever goroutine entered it.
DestroyBody == DeleteNamespace \/ DeleteRestore

-----------------------------------------------------------------------------
(* The TTL watchdog goroutine.                                             *)

\* select: with the timer due and the cancellation seen, Go picks either.
WatchdogFires ==
    /\ watchdog \in {"armed", "cancelled"}
    /\ clock >= expiry
    /\ watchdog' = "firing"
    /\ UNCHANGED <<clusterVars, driverVars, destroyVars, expiry>>

\* It leaves because it was cancelled, or because its Destroy returned.
WatchdogExits ==
    /\ \/ watchdog = "cancelled"
       \/ watchdog = "firing" /\ once = "done"
    /\ watchdog' = "exited"
    /\ UNCHANGED <<clusterVars, driverVars, destroyVars, expiry>>

-----------------------------------------------------------------------------
(* The cluster and the Velero server on their own.                         *)

\* A create the client gave up on takes effect after all.
LateRestore ==
    /\ inflight = "travelling"
    /\ RestoreAppears
    /\ inflight' = "landed"
    /\ UNCHANGED <<ns, nsBorn, driverVars, watchdogVars, destroyVars>>

\* The server restores into the mapped namespace.  One that is on its way out it
\* waits for, one that is missing it creates, without what Prepare gave it.
VeleroRecreates ==
    /\ cr \in {"running", "orphaned"}
    /\ ns = "terminating"
    /\ ns' = "recreated" /\ nsBorn' = clock
    /\ UNCHANGED <<cr, crBorn, inflight, driverVars, watchdogVars, destroyVars>>

\* Velero finishes a restore, one way or the other, or never does.
RestoreEnds ==
    /\ \/ cr = "running" /\ cr' \in {"completed", "failed"}
       \/ cr = "orphaned" /\ cr' = "removed"
    /\ UNCHANGED <<ns, nsBorn, crBorn, inflight, driverVars, watchdogVars, destroyVars>>
=============================================================================
