--------------------------- MODULE DockerSandbox ---------------------------
(***************************************************************************)
(* The docker provider (pkg/sandbox/docker): Provision, the TTL watchdog   *)
(* goroutine and Destroy, with the part of the Docker daemon they talk to. *)
(* A daemon call that fails may have taken effect all the same (the reply  *)
(* was lost, or the context ended while the daemon was working).           *)
(***************************************************************************)
EXTENDS Process

CONSTANT ReadyLimit     \* waitReady's own limit on readiness polling

ASSUME DockerAssumption == ReadyLimit \in Nat

VARIABLES
    network,      \* daemon: the sandbox's bridge network
    networkBorn,  \* daemon: its creation time
    container,    \* daemon: the sandbox's container
    containerBorn,
    expiresAt,    \* value of the container's firedrill.expires-at label
    networkID,    \* s.networkID is set: Destroy knows the network
    containerID,  \* s.ContainerID is set: Destroy knows the container
    ppc,          \* where Provision is
    readyBy,      \* waitReady's deadline
    watchdog,     \* the TTL goroutine
    expiry,       \* when its timer fires
    once,         \* destroyOnce, and how far its body got
    destroyErr,
    destroyed     \* the atomic flag behind WasDestroyed()

daemonVars == <<network, networkBorn, container, containerBorn>>
destroyVars == <<once, destroyErr, destroyed>>
provisionVars == <<expiresAt, networkID, containerID, ppc, readyBy>>
sandboxVars == <<daemonVars, destroyVars, provisionVars, watchdog, expiry>>

SandboxTypeOK ==
    /\ network \in {"absent", "present", "removed"}
    /\ container \in {"absent", "created", "running", "removed"}
    /\ networkBorn \in Nat /\ containerBorn \in Nat
    /\ expiresAt \in Nat
    /\ networkID \in BOOLEAN /\ containerID \in BOOLEAN
    /\ ppc \in {"ping", "network", "pull", "create", "start", "ready", "inspect",
                "abort", "ok", "failed"}
    /\ readyBy \in Nat
    /\ watchdog \in {"unarmed", "armed", "cancelled", "firing", "exited"}
    /\ expiry \in Nat
    /\ once \in {"free", "cancel", "container", "network", "store", "done"}
    /\ destroyErr \in BOOLEAN /\ destroyed \in BOOLEAN

SandboxInit ==
    /\ network = "absent" /\ networkBorn = 0
    /\ container = "absent" /\ containerBorn = 0
    /\ expiresAt = 0
    /\ networkID = FALSE /\ containerID = FALSE
    /\ ppc = "ping"
    /\ readyBy = 0
    /\ watchdog = "unarmed" /\ expiry = 0
    /\ once = "free" /\ destroyErr = FALSE /\ destroyed = FALSE

ContainerExists == container \in {"created", "running"}
NetworkExists == network = "present"

\* Docker objects of this sandbox that are still there.
Standing == ContainerExists \/ NetworkExists

\* The engine can be reached: exec and the published port work.
Up == container = "running"

-----------------------------------------------------------------------------
(* Provision.  ctxDone: the context it was given is done.                  *)

\* client.New and Ping: nothing exists yet, nothing is cleaned up.
Ping(ctxDone) ==
    /\ ppc = "ping"
    /\ \/ ~ctxDone /\ ppc' = "network"
       \/ ppc' = "failed"
    /\ UNCHANGED <<daemonVars, destroyVars, expiresAt, networkID, containerID, readyBy,
                   watchdog, expiry>>

\* NetworkCreate.  The cleanup defer is installed only after it succeeded, so
\* a network created by a call that reported an error has no owner.
CreateNetwork(ctxDone) ==
    /\ ppc = "network"
    /\ \/ /\ ~ctxDone
          /\ network' = "present" /\ networkBorn' = clock
          /\ networkID' = TRUE
          /\ ppc' = "pull"
       \/ /\ \/ UNCHANGED <<network, networkBorn>>
             \/ network' = "present" /\ networkBorn' = clock
          /\ ppc' = "failed"
          /\ UNCHANGED networkID
    /\ UNCHANGED <<container, containerBorn, destroyVars, expiresAt, containerID, readyBy,
                   watchdog, expiry>>

\* ImagePull and Wait.  The expiry label is computed right after it, before
\* the container is asked for.
Pull(ctxDone) ==
    /\ ppc = "pull"
    /\ \/ ~ctxDone /\ expiresAt' = clock + TTL /\ ppc' = "create"
       \/ ppc' = "abort" /\ UNCHANGED expiresAt
    /\ UNCHANGED <<daemonVars, destroyVars, networkID, containerID, readyBy, watchdog, expiry>>

\* ContainerCreate.  When it reports an error s.ContainerID stays empty.
CreateContainer(ctxDone) ==
    /\ ppc = "create"
    /\ \/ /\ ~ctxDone
          /\ container' = "created" /\ containerBorn' = clock
          /\ containerID' = TRUE
          /\ ppc' = "start"
       \/ /\ \/ UNCHANGED <<container, containerBorn>>
             \/ container' = "created" /\ containerBorn' = clock
          /\ ppc' = "abort"
          /\ UNCHANGED containerID
    /\ UNCHANGED <<network, networkBorn, destroyVars, expiresAt, networkID, readyBy,
                   watchdog, expiry>>

\* ContainerStart needs the container and its network; a physical restore
\* (ColdStart) does not wait for the engine.
StartContainer(ctxDone, coldStart) ==
    /\ ppc = "start"
    /\ \/ /\ ~ctxDone /\ container = "created" /\ NetworkExists
          /\ container' = "running"
          /\ ppc' = IF coldStart THEN "inspect" ELSE "ready"
          /\ readyBy' = IF coldStart THEN 0 ELSE clock + ReadyLimit
       \/ /\ \/ UNCHANGED container
             \/ container = "created" /\ NetworkExists /\ container' = "running"
          /\ ppc' = "abort"
          /\ UNCHANGED readyBy
    /\ UNCHANGED <<network, networkBorn, containerBorn, destroyVars, expiresAt, networkID,
                   containerID, watchdog, expiry>>

\* waitReady: polls until one pass succeeds; an exec error only means "not
\* yet", so it gives up on the context or on its own limit alone.
WaitReady(ctxDone) ==
    /\ ppc = "ready"
    /\ \/ ~ctxDone /\ Up /\ ppc' = "inspect"
       \/ (ctxDone \/ clock >= readyBy) /\ ppc' = "abort"
    /\ readyBy' = 0
    /\ UNCHANGED <<daemonVars, destroyVars, expiresAt, networkID, containerID, watchdog, expiry>>

\* ContainerInspect for the published port, then the watchdog is armed: its
\* TTL runs from here, the label's TTL ran from before ContainerCreate.
Inspect(ctxDone) ==
    /\ ppc = "inspect"
    /\ \/ /\ ~ctxDone /\ Up
          /\ watchdog' = "armed"
          /\ expiry' = clock + TTL
          /\ ppc' = "ok"
       \/ ppc' = "abort" /\ UNCHANGED <<watchdog, expiry>>
    /\ UNCHANGED <<daemonVars, destroyVars, expiresAt, networkID, containerID, readyBy>>

\* The deferred Destroy of a failed Provision has returned.
Aborted ==
    /\ ppc = "abort"
    /\ once = "done"
    /\ ppc' = "failed"
    /\ UNCHANGED <<daemonVars, destroyVars, expiresAt, networkID, containerID, readyBy,
                   watchdog, expiry>>

Provision(ctxDone, coldStart) ==
    \/ Ping(ctxDone)
    \/ CreateNetwork(ctxDone)
    \/ Pull(ctxDone)
    \/ CreateContainer(ctxDone)
    \/ StartContainer(ctxDone, coldStart)
    \/ WaitReady(ctxDone)
    \/ Inspect(ctxDone)
    \/ Aborted

-----------------------------------------------------------------------------
(* Destroy.  sync.Once: the first caller runs the body, whoever calls      *)
(* meanwhile waits for it, and nobody ever runs it again.                  *)

\* Someone in the process is inside s.Destroy(...).
Destroying(mainWants) == mainWants \/ ppc = "abort" \/ watchdog = "firing"

EnterDestroy(mainWants) ==
    /\ Destroying(mainWants)
    /\ once = "free"
    /\ once' = "cancel"
    /\ UNCHANGED <<daemonVars, provisionVars, destroyErr, destroyed, watchdog, expiry>>

\* s.ttlCancel(): a goroutine still waiting on its timer will leave.
CancelWatchdog ==
    /\ once = "cancel"
    /\ once' = "container"
    /\ watchdog' = IF watchdog = "armed" THEN "cancelled" ELSE watchdog
    /\ UNCHANGED <<daemonVars, provisionVars, destroyErr, destroyed, expiry>>

\* ContainerRemove (force).  A container that is not there any more is an
\* error like any other, and an error may hide a removal that took place.
RemoveContainer ==
    /\ once = "container"
    /\ once' = "network"
    /\ \/ ~containerID /\ UNCHANGED <<container, destroyErr>>
       \/ containerID /\ ContainerExists /\ container' = "removed" /\ UNCHANGED destroyErr
       \/ /\ containerID
          /\ \/ UNCHANGED container
             \/ ContainerExists /\ container' = "removed"
          /\ destroyErr' = TRUE
    /\ UNCHANGED <<network, networkBorn, containerBorn, provisionVars, destroyed, watchdog, expiry>>

\* Mutant: a failed NetworkRemove is not recorded.
RemoveNetworkQuietly ==
    /\ once = "network"
    /\ once' = "store"
    /\ \/ UNCHANGED network
       \/ networkID /\ NetworkExists /\ ~Up /\ network' = "removed"
    /\ UNCHANGED <<networkBorn, container, containerBorn, provisionVars, destroyErr, destroyed,
                   watchdog, expiry>>

\* NetworkRemove, tried even if the container could not be removed; the daemon
\* refuses while a running container is attached.
RemoveNetwork ==
    /\ once = "network"
    /\ once' = "store"
    /\ \/ ~networkID /\ UNCHANGED <<network, destroyErr>>
       \/ networkID /\ NetworkExists /\ ~Up /\ network' = "removed" /\ UNCHANGED destroyErr
       \/ /\ networkID
          /\ \/ UNCHANGED network
             \/ NetworkExists /\ ~Up /\ network' = "removed"
          /\ destroyErr' = TRUE
    /\ UNCHANGED <<networkBorn, container, containerBorn, provisionVars, destroyed, watchdog, expiry>>

\* Mutant: the flag is set whether or not the removals succeeded.
StoreDestroyedAlways ==
    /\ once = "store"
    /\ once' = "done"
    /\ destroyed' = TRUE
    /\ UNCHANGED <<daemonVars, provisionVars, destroyErr, watchdog, expiry>>

\* The flag behind WasDestroyed(): both removals went without an error.
StoreDestroyed ==
    /\ once = "store"
    /\ once' = "done"
    /\ destroyed' = ~destroyErr
    /\ UNCHANGED <<daemonVars, provisionVars, destroyErr, watchdog, expiry>>

\* The body of the Once, in whichever goroutine entered it.
DestroyBody ==
    \/ CancelWatchdog
    \/ RemoveContainer
    \/ RemoveNetwork
    \/ StoreDestroyed

-----------------------------------------------------------------------------
(* The TTL watchdog goroutine.                                             *)

\* Mutant: the watchdog is derived from the drill's own context and dies with it.
WatchdogOnRequestContext ==
    /\ ~cancelled
    /\ watchdog \in {"armed", "cancelled"}
    /\ clock >= expiry
    /\ watchdog' = "firing"
    /\ UNCHANGED <<daemonVars, destroyVars, provisionVars, expiry>>

\* select: with the timer due and the cancellation seen, Go picks either.
WatchdogFires ==
    /\ watchdog \in {"armed", "cancelled"}
    /\ clock >= expiry
    /\ watchdog' = "firing"
    /\ UNCHANGED <<daemonVars, destroyVars, provisionVars, expiry>>

\* It leaves because it was cancelled, or because its Destroy returned.
WatchdogExits ==
    /\ \/ watchdog = "cancelled"
       \/ watchdog = "firing" /\ once = "done"
    /\ watchdog' = "exited"
    /\ UNCHANGED <<daemonVars, destroyVars, provisionVars, expiry>>
=============================================================================
