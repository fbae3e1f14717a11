------------------------- MODULE KubernetesSandbox -------------------------
(***************************************************************************)
(* The kubernetes provider (pkg/sandbox/kubernetes): Provision, the TTL    *)
(* watchdog goroutine and Destroy, with the part of the cluster they talk  *)
(* to.  A create call that reports an error may have taken effect, or may  *)
(* take effect later: the API server does not stop a request because its   *)
(* client stopped waiting.                                                 *)
(***************************************************************************)
EXTENDS Process

CONSTANTS
    ReadyLimit,     \* waitReady's own limit on readiness polling
    DeadlineSlack   \* what activeDeadlineSeconds grants on top of the TTL

ASSUME KubernetesAssumption == ReadyLimit \in Nat /\ DeadlineSlack \in Nat

VARIABLES
    namespace,    \* cluster: the shared namespace exists
    policy,       \* cluster: the deny-egress NetworkPolicy exists in it
    pod,          \* cluster: the sandbox's pod
    podBorn,      \* cluster: its creation time
    podStart,     \* cluster: when the kubelet started it
    inflight,     \* a create the client gave up on and that may still take effect
    expiresAt,    \* value of the pod's expires-at annotation
    inCluster,    \* LoadConfig found the in-cluster configuration
    forward,      \* the port-forward goroutine
    ppc,          \* where Provision is
    readyBy,      \* waitReady's deadline
    watchdog,     \* the TTL goroutine
    expiry,       \* when its timer fires
    once,         \* destroyOnce, and how far its body got
    destroyErr,
    destroyed     \* the atomic flag behind WasDestroyed()

clusterVars == <<namespace, policy, pod, podBorn, podStart, inflight>>
destroyVars == <<once, destroyErr, destroyed>>
watchdogVars == <<watchdog, expiry>>
provisionVars == <<expiresAt, inCluster, ppc, readyBy>>
sandboxVars == <<clusterVars, destroyVars, watchdogVars, provisionVars, forward>>

SandboxTypeOK ==
    /\ namespace \in BOOLEAN /\ policy \in BOOLEAN
    /\ pod \in {"absent", "pending", "running", "failed", "removed"}
    /\ podBorn \in Nat /\ podStart \in Nat
    /\ inflight \in {"none", "travelling", "landed"}
    /\ expiresAt \in Nat
    /\ inCluster \in BOOLEAN
    /\ forward \in {"none", "open", "closed"}
    /\ ppc \in {"config", "namespace", "policy", "create", "ready", "connect",
                "abort", "ok", "failed"}
    /\ readyBy \in Nat
    /\ watchdog \in {"unarmed", "armed", "cancelled", "firing", "exited"}
    /\ expiry \in Nat
    /\ once \in {"free", "cancel", "delete", "store", "done"}
    /\ destroyErr \in BOOLEAN /\ destroyed \in BOOLEAN

\* An earlier drill may have left the namespace, and the policy in it.
SandboxInit ==
    /\ namespace \in BOOLEAN
    /\ policy \in BOOLEAN /\ (policy => namespace)
    /\ pod = "absent" /\ podBorn = 0 /\ podStart = 0
    /\ inflight = "none"
    /\ expiresAt = 0
    /\ inCluster = FALSE
    /\ forward = "none"
    /\ ppc = "config"
    /\ readyBy = 0
    /\ watchdog = "unarmed" /\ expiry = 0
    /\ once = "free" /\ destroyErr = FALSE /\ destroyed = FALSE

\* The pod object is in the API, whether or not its container runs.
PodExists == pod \in {"pending", "running", "failed"}

\* Exec reaches the engine; a SQL connection from outside the cluster also
\* needs the forward.
Up == pod = "running"
Connected == Up /\ (inCluster \/ forward = "open")

-----------------------------------------------------------------------------
(* Provision.  ctxDone: the context it was given is done.                  *)

\* LoadConfig and the client: no call is made, nothing is deferred yet.
Configure ==
    /\ ppc = "config"
    /\ \/ inCluster' \in BOOLEAN /\ ppc' = "namespace"
       \/ ppc' = "failed" /\ UNCHANGED inCluster
    /\ UNCHANGED <<clusterVars, destroyVars, watchdogVars, expiresAt, readyBy, forward>>

\* From here on an error goes through the deferred Destroy.  A namespace that
\* is there already is as good as a new one.
ensureNamespace(ctxDone) ==
    /\ ppc = "namespace"
    /\ \/ ~ctxDone /\ namespace' = TRUE /\ ppc' = "policy"
       \/ namespace' \in {namespace, TRUE} /\ ppc' = "abort"
    /\ UNCHANGED <<policy, pod, podBorn, podStart, inflight, destroyVars, watchdogVars, expiresAt,
                   inCluster, readyBy, forward>>

\* Mutant: a policy that could not be created is only worth a warning.
EnsureDenyEgressPolicyIgnoringErrors(ctxDone) ==
    /\ ppc = "policy"
    /\ policy' \in {policy, TRUE}
    /\ ppc' = "create"
    /\ expiresAt' = clock + TTL
    /\ UNCHANGED <<namespace, pod, podBorn, podStart, inflight, destroyVars, watchdogVars,
                   inCluster, readyBy, forward>>

\* The same for the policy.  The annotation is computed after it, before the
\* pod is asked for.
EnsureDenyEgressPolicy(ctxDone) ==
    /\ ppc = "policy"
    /\ \/ ~ctxDone /\ policy' = TRUE /\ ppc' = "create" /\ expiresAt' = clock + TTL
       \/ policy' \in {policy, TRUE} /\ ppc' = "abort" /\ UNCHANGED expiresAt
    /\ UNCHANGED <<namespace, pod, podBorn, podStart, inflight, destroyVars, watchdogVars,
                   inCluster, readyBy, forward>>

PodAppears == pod' = "pending" /\ podBorn' = clock

\* Pods.Create.  The pod's name was chosen before, so Destroy can ask for it
\* whatever this call reports.
CreatePod(ctxDone) ==
    /\ ppc = "create"
    /\ \/ /\ ~ctxDone
          /\ PodAppears
          /\ ppc' = "ready"
          /\ readyBy' = clock + ReadyLimit
          /\ UNCHANGED inflight
       \/ /\ \/ PodAppears /\ UNCHANGED inflight
             \/ inflight' \in {"none", "travelling"} /\ UNCHANGED <<pod, podBorn>>
          /\ ppc' = "abort"
          /\ UNCHANGED readyBy
    /\ UNCHANGED <<namespace, policy, podStart, destroyVars, watchdogVars, expiresAt, inCluster,
                   forward>>

\* waitReady: the pod runs and (unless the start is cold) one pass of the
\* readiness commands succeeds.  A pod that exited is given up at once; an
\* error of Get or Exec only means another round.
waitReady(ctxDone) ==
    /\ ppc = "ready"
    /\ \/ ~ctxDone /\ Up /\ ppc' = "connect"
       \/ (ctxDone \/ clock >= readyBy \/ pod = "failed") /\ ppc' = "abort"
    /\ readyBy' = 0
    /\ UNCHANGED <<clusterVars, destroyVars, watchdogVars, expiresAt, inCluster, forward>>

\* The pod's IP inside the cluster; outside it a port-forward, which has a
\* limit of its own, does not look at the context, and leaves no forward
\* behind when it fails.  Then the watchdog is armed: its TTL runs from here.
Connect(ctxDone) ==
    /\ ppc = "connect"
    /\ \/ /\ \/ inCluster /\ ~ctxDone /\ PodExists /\ UNCHANGED forward
             \/ ~inCluster /\ Up /\ forward' = "open"
          /\ watchdog' = "armed"
          /\ expiry' = clock + TTL
          /\ ppc' = "ok"
       \/ ppc' = "abort" /\ UNCHANGED <<watchdogVars, forward>>
    /\ UNCHANGED <<clusterVars, destroyVars, expiresAt, inCluster, readyBy>>

\* The deferred Destroy of a failed Provision has returned.
Aborted ==
    /\ ppc = "abort"
    /\ once = "done"
    /\ ppc' = "failed"
    /\ UNCHANGED <<clusterVars, destroyVars, watchdogVars, expiresAt, inCluster, readyBy, forward>>

Provision(ctxDone) ==
    \/ Configure
    \/ ensureNamespace(ctxDone)
    \/ EnsureDenyEgressPolicy(ctxDone)
    \/ CreatePod(ctxDone)
    \/ waitReady(ctxDone)
    \/ Connect(ctxDone)
    \/ Aborted

-----------------------------------------------------------------------------
(* Destroy.  sync.Once: the first caller runs the body, whoever calls      *)
(* meanwhile waits for it, and nobody ever runs it again.                  *)

\* The main goroutine, a failing Provision or the watchdog is in s.Destroy.
EnterDestroy(mainWants) ==
    /\ mainWants \/ ppc = "abort" \/ watchdog = "firing"
    /\ once = "free"
    /\ once' = "cancel"
    /\ UNCHANGED <<clusterVars, provisionVars, watchdogVars, forward, destroyErr, destroyed>>

CancelTTL == watchdog' = IF watchdog = "armed" THEN "cancelled" ELSE watchdog

\* Mutant: the port-forward is left to the garbage collector of the runtime.
ReleaseForwardKept ==
    /\ once = "cancel"
    /\ once' = "delete"
    /\ CancelTTL
    /\ UNCHANGED <<clusterVars, provisionVars, expiry, forward, destroyErr, destroyed>>

\* s.ttlCancel() and close(s.pfStop).
Release ==
    /\ once = "cancel"
    /\ once' = "delete"
    /\ CancelTTL
    /\ forward' = IF forward = "open" THEN "closed" ELSE forward
    /\ UNCHANGED <<clusterVars, provisionVars, expiry, destroyErr, destroyed>>

\* Mutant: any error of the delete is taken for "not found".
DeletePodErrorsIgnored ==
    /\ once = "delete"
    /\ once' = "store"
    /\ pod' \in {pod, IF PodExists THEN "removed" ELSE pod}
    /\ UNCHANGED <<namespace, policy, podBorn, podStart, inflight, provisionVars, watchdogVars,
                   forward, destroyErr, destroyed>>

\* Pods.Delete without grace.  A pod that is not there (any more, or yet)
\* counts as deleted; an error may hide a deletion that took place.
DeletePod ==
    /\ once = "delete"
    /\ once' = "store"
    /\ LET gone == IF PodExists THEN "removed" ELSE pod IN
         \/ pod' = gone /\ UNCHANGED destroyErr
         \/ pod' \in {pod, gone} /\ destroyErr' = TRUE
    /\ UNCHANGED <<namespace, policy, podBorn, podStart, inflight, provisionVars, watchdogVars,
                   forward, destroyed>>

StoreDestroyed ==
    /\ once = "store"
    /\ once' = "done"
    /\ destroyed' = ~destroyErr
    /\ UNCHANGED <<clusterVars, provisionVars, watchdogVars, forward, destroyErr>>

\* The body of the Once, in whichever goroutine entered it.
DestroyBody == Release \/ DeletePod \/ StoreDestroyed

-----------------------------------------------------------------------------
(* The TTL watchdog goroutine.                                             *)

\* select: with the timer due and the cancellation seen, Go picks either.
WatchdogFires ==
    /\ watchdog \in {"armed", "cancelled"}
    /\ clock >= expiry
    /\ watchdog' = "firing"
    /\ UNCHANGED <<clusterVars, destroyVars, provisionVars, forward, expiry>>

\* It leaves because it was cancelled, or because its Destroy returned.
WatchdogExits ==
    /\ \/ watchdog = "cancelled"
       \/ watchdog = "firing" /\ once = "done"
    /\ watchdog' = "exited"
    /\ UNCHANGED <<clusterVars, destroyVars, provisionVars, forward, expiry>>

-----------------------------------------------------------------------------
(* The cluster on its own.                                                 *)

\* Mutant: the pod carries no deadline, nothing ends it before the bound.
NoDeadline == MaxTime + 1

\* How long the kubelet lets the pod run.
activeDeadlineSeconds == TTL + DeadlineSlack

\* A create the client gave up on takes effect after all.
LateCreate ==
    /\ inflight = "travelling"
    /\ PodAppears
    /\ inflight' = "landed"
    /\ UNCHANGED <<namespace, policy, podStart, destroyVars, provisionVars, watchdogVars, forward>>

\* The kubelet starts the pod; its container may exit at any time and is
\* never restarted.
PodStarts ==
    /\ pod = "pending"
    /\ pod' = "running" /\ podStart' = clock
    /\ UNCHANGED <<namespace, policy, podBorn, inflight, destroyVars, provisionVars, watchdogVars,
                   forward>>

PodFails ==
    /\ pod' = "failed"
    /\ UNCHANGED <<namespace, policy, podBorn, podStart, inflight, destroyVars, provisionVars,
                   watchdogVars, forward>>

PodExits == pod \in {"pending", "running"} /\ PodFails

\* The API-side backstop: the pod object stays, its container does not.
DeadlineExceeded == Up /\ clock >= podStart + activeDeadlineSeconds /\ PodFails
=============================================================================
