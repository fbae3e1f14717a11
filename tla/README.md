# FireDrill in TLA+

FireDrill restores a backup into a throwaway sandbox, checks the restored data, measures the
restore against objectives and leaves signed evidence. This directory specifies the parts of it
in which steps of several actors meet (drill, watchdog, garbage collector, operator, docker daemon,
cluster, Velero, backup jobs, signals, gate), model-checks them with TLC and proves the central ones with TLAPS.

Run a check with `tlc -config MCDockerDrill.cfg MCDockerDrill`, the proofs with `tlapm DockerDrillProofs.tla`
and likewise for `DrillProofs`, `KubernetesDrillProofs`, `VeleroDrillProofs`, `OperatorProofs`,
`FetchRestoreProofs` and `EvidenceGateProofs`. `PROJECT.json` maps every definition to the lines it models.

## 1. Inventory

| component | state it keeps | operations | meets others through | what is hard |
|---|---|---|---|---|
| drill runner `pkg/drill` | the evidence being built, the deadline, the fetched copy | `Run`, `finalize`, `runVelero`, `RunAll` | calls provider, driver, verify, report, sinks | deferred teardown on every path, record written after teardown, narrowing deadlines, partial failure after the record is on disk |
| verification `pkg/verify` | none | `Run`, one function per check | queries the sandbox | a sandbox that disappears under the checks; skipped and failed checks in the verdict |
| docker sandbox `pkg/sandbox/docker` | IDs, `destroyOnce`, `destroyErr`, `destroyed`, the watchdog | `Provision`, `waitReady`, `Exec`, `Destroy` | Docker daemon; `Destroy` is called by drill, Provision and watchdog | calls that fail after taking effect, one shot at removal, two leases with different starts |
| kubernetes sandbox `pkg/sandbox/kubernetes` | the same for pod, policy, port-forward | the same | API server | the same, plus `activeDeadlineSeconds` |
| garbage collector `pkg/gc` | none | `SweepDocker`, `SweepKubernetes` | another process on the same daemon or cluster | list, decide, remove, with the world moving in between |
| velero driver `pkg/drivers/velero` | name of the restore | `Prepare`, `Restore`, `Destroy` | Velero through custom resources | unsynchronised field read by the watchdog's Destroy; a Restore object that appears late; a server that makes a deleted namespace again; polling that only the context ends; pods that flap |
| engine drivers `pkg/drivers/*` | none | `Restore`, `DSN`, `ReadyCmds` | `Exec` | a stream cut short that looks like its end, a server started in the background, a log that fills with harmless FATAL lines |
| backup source `pkg/source` | spool files | `Fetch` (file, s3), `decrypt`, `decompress` | disk, S3 | spool files on error paths, size limits at their edges, errors that look like the end of a stream, selection of the latest backup while jobs write |
| evidence and gate `pkg/report` | files: record, `.sig`, `.intoto.jsonl`, keys | `Write`, `Sign`, `Attest`, `Verify`, `Gate`, exports | drill writes, gate reads | crash between record and signature, stale or missing evidence, options that combine badly |
| specification `pkg/spec` | none | `ParseAll`, `Validate` | CLI, operator | cross-field rules |
| operator `pkg/operator` | none of its own; `.status` in the API server | `Reconcile`, `patchStatus`, startup sweep | API server, watch, work queue | edits during a run, crashes, lost updates, its own events, requeueing |
| sinks `pkg/notify`, `pkg/metrics` | none | `Slack`, `Webhook`, `Export` | called at the end of a drill | they use the drill's context |
| CLI `cmd/firedrill` | root context | commands, signal handler | everything | the second signal skips every deferred function |

What makes each part correct:

* drill runner: evidence tells the truth about sandbox and verdict; nothing it owns is forgotten;
  it ends.
* sandbox: what was created is removed, or the failure is known; the watchdog works without the
  drill's help.
* garbage collector: everything abandoned goes eventually; nothing alive goes.
* operator: `.status` speaks for the spec that was run; every spec and every firing is run;
  errors are retried after the backoff.
* gate: it opens only on a recent, verified (and signed) run.
* source: a broken stream never passes for a short backup; limits hold at their edges; the newest
  backup is taken and its age is not understated; no plaintext copy stays behind; the source is
  never changed.
* engine drivers: a restore that succeeded has loaded what it was given, its server is up, and a
  server that is still recovering is not called broken.

`PROJECT.json` lists the hazards at their lines, with the properties that cover them.

## 2. Modules

| module | models | state and actions |
|---|---|---|
| `Process` | `cmd/firedrill/main.go` signal handling | `clock`, `alive`, `cancelled`; first signal, kill, time |
| `Verdict` | `verify.runOne`, `finalize`'s verdict | operators only: what an answer means for a check, what results mean for the verdict |
| `Drill` | `drill.Run` and `finalize` | one action per stage, each with its error returns; `pc` is the goroutine's place, deferred functions are the places `unwind` and `cleanup`. What every record owes its spec (`VerifiedCoversSpec`) is stated here, for all three providers |
| `DrillProofs` | | lemmas about the stages of `Drill`, used by the three providers' proofs |
| `DockerSandbox` | `docker.Provision`, watchdog, `Destroy` | `ppc` is the place in Provision, `once` the place in the body of the `sync.Once`, `watchdog` the goroutine; `network`, `container` are the daemon's |
| `DockerGC` | `gc.SweepDocker` | a sweep in three steps with the options it was started with |
| `DockerDrill` | the composition | one disjunct per actor; properties; fairness |
| `SandboxLease` | abstract specification | `held`, `record`; Acquire, Release, Publish |
| `DockerDrillProofs` | | the theorems |
| `KubernetesSandbox` | `kubernetes.Provision`, watchdog, `Destroy` | as `DockerSandbox`, with `namespace`, `policy`, `pod` (the API server's), `inflight` (a create that its caller gave up), `forward` (the port-forward); the kubelet starts pods, lets them exit and enforces the deadline |
| `KubernetesGC` | `gc.SweepKubernetes` | the sweep as such: options, clock, kind after kind |
| `KubernetesDrill` | the composition with `Drill` | the second implementation of `SandboxLease`; the sweep of pods |
| `KubernetesDrillProofs` | | the theorems |
| `VeleroSandbox` | `velero.Prepare`, `Destroy`, watchdog, the Restore object | `ns` and `cr` are the cluster's, with a Velero server that creates the mapped namespace when it is missing (`recreated`) and goes on with a Restore object that was deleted under it (`orphaned`); `restoreName` is the field that Restore sets and Destroy reads |
| `VeleroDrill` | `runVelero`, `velero.Restore`, `podsReady`, `resourceCount` | polling of the restore and of the pods; sweeps of namespaces and Restore objects; history variable `goodLooks` |
| `VeleroDrillProofs` | | the theorems |
| `Source` | `source.Fetch` for files and S3 | `store` is the directory or bucket, with jobs that write and prune; `pc` is the place in Fetch; a stream is its length and whether it ends in an error |
| `EngineRestore` | `Driver.Restore` of postgres, mysql and mongodb | `rpc` is the place in Restore; `cluster` and `log` the server over a restored data directory |
| `FetchRestore` | the composition of the two with `Backup.Cleanup` | properties of the way from the store into the engine |
| `FetchRestoreProofs` | | the theorems |
| `Operator` | `Reconcile`, `patchStatus`, the queue | `wpc` is the place in Reconcile, `obj` the object it read, `cr`/`status` the API server's; history variables `ran`, `lost`, `proven` |
| `OperatorProofs` | | the theorems |
| `EvidenceGate` | `pkg/report`: `Write`, `Sign`, `Attest`, keys, `Verify`, `VerifyBundle`, `Gate` | `run` is how far each drill's finalize got, `dir`, `sig`, `att` the files, `key` the key directory, `gpc` the gate's place; history variables `past`, `signer` |
| `EvidenceGateProofs` | | the gate's theorems |
| `MCDockerDrill`, `MCKubernetesDrill`, `MCVeleroDrill`, `MCFetchRestore`, `MCOperator`, `MCEvidenceGate` | | instances for TLC |

Operators whose comment starts with "Mutant" are plausible mistakes in the definition that
follows them. No specification uses them; each shows that a property can fail (section 3).

Decisions worth knowing when comparing with the code:

* **Daemon calls.** A call that returns an error may have taken effect. `CreateNetwork`,
  `CreateContainer`, `StartContainer` and both removals have all three outcomes. A call whose
  context is done fails.
* **Destroy.** `sync.Once` is `once`: the first caller moves it from `free`, later callers wait
  for `done`. The callers are main in `teardown` or `unwind`, Provision in `abort`, the watchdog
  in `firing`. `NotFound` from the daemon is an error, as in the code.
* **Watchdog.** Go's `select` chooses either ready case: a cancelled watchdog whose timer is due
  may still fire.
* **Time.** One unit stands for any duration; TTL, allowance and readiness limit keep their
  roles. Restore and backup ages are measured on the same clock.
* **Data.** Specs are sequences of checks with a small number to compare against; a query answers
  with a small number or an error. Names, wording, HTML, passwords and ports are left out.
* **Operator.** One object, one worker for it at a time (the queue guarantees that). `patchStatus`
  is atomic, since its conflict loop re-reads and merges. `drill.Run` is one step with the three
  outcomes Reconcile distinguishes. Reads are not cached (unstructured objects are read live).
  A schedule with period `p` fires at multiples of `p`.

* **Evidence files.** A record is an identity, its drill, its end and its verdict; a signature is
  its signer. A signature file that was not written out is as good as none (`Verify` rejects
  both), so `sig` does not tell them apart; an attestation that was not written out is `Torn`,
  because `verify-evidence` treats it differently from a missing one. Every step of finalize may
  be its last (`Abandon`), which stands for an error, a crash, and a drill that does not sign.
* **The gate.** Scan, clock and each subject are separate steps, with drills, key rotation and the
  loss of the directory in between. Among runs that ended at the same time the unstable sort may
  put any one first. A scan that fails (a listed file is gone) ends the gate without a report and
  is not a step of the model. Signatures are unforgeable, and a generated key is a new one.
* **The cluster.** A create whose caller gave up may still take effect, at any later moment, also
  after Destroy was told NotFound. A delete has the outcomes of a docker removal, except that
  NotFound counts as success. Velero drills share the shape of `Drill` from the verdict on; what
  differs (Prepare, Restore, polling) is in `VeleroDrill`. A namespace counts as gone when its
  deletion was accepted, as in the code. Velero is external and modelled from the Restore object the
  code makes (`velero.go:139-155`): it restores into the mapped namespace, creates it when it is
  missing, without labels, annotation or policy of firedrill, and is not stopped by the deletion of the object.
* **Streams.** `LimitReader` and `copyLimited` work on int64 numbers that wrap (`Wrap`, with
  `IntMax` in place of 2^63-1 and `Factor` in place of 100). Which bytes of a broken stream were
  seen is left open. gpg's failure is known at the end of its output only, age's refusal of a wrong
  header at once. A plain local file is handed out in place, so the driver reads what is under the
  name by then.
* **Stores.** Writers replace an object as a whole (PutObject, rename) and stamp it with the
  current time; a file that is written in place while it is read is not modelled. An S3 listing
  meets each key when it gets to it, a directory listing takes its names at once.
* **Tools.** A tool exits with 0 only after it has had all it was sent; psql and mysql take the end
  of their input for the end of the dump, tar an end between two members for the end of the archive;
  pg_restore and mongorestore notice a cut. Exec drops an error of reading the artifact
  (`docker.go:212`).
* **The restored server** has the roles and databases of its source. It may be up and lack the ones the
  readiness query asks for (`cluster = "refusing"`); it then logs a FATAL line for each query.
* **Temp files.** `os.Remove` of the process's own temp file is taken to succeed; the code drops
  its error (`source.go:141`, `229`, `329`). `NoPlaintextLeft` is about the paths that must call it.

## 3. Runs

Passing runs. Every property has a mutant of the code that TLC shows it to catch. (`TypeOK` of the
kubernetes and velero drills is left to its proof.)

| run | question | bounds |
|---|---|---|
| `docker` | Can any order of teardown, watchdog, sweep, signal, kill and daemon failure make the record untrue, or make Run forget something? Is "verified" ever said of a spec that was not proven? Does an armed watchdog end the sandbox and with it the drill, without anybody's help; do sweeps reclaim the rest? `DestroyedClaimIsTrue`, `RecordMatchesSandbox`, `NothingForgotten`, `ImplementsLease`, `VerifiedCoversSpec`, `LostSandboxNeverVerifies`, `WatchdogBackstop`, `ArmedDrillEnds`, `EventuallyReclaimed`, `TypeOK` | TTL 1, allowance 1, clock to 2: deadline, label and watchdog expire in both orders relative to every stage, and a lease can end with time left for a sweep. One spec with a cold start, a signature and a report, a check that asks nothing of the sandbox and two that do, so that the sandbox can be lost between them. Forced and dry-run sweeps and backups of several ages are left to the proofs, which hold for all of them. 440 thousand states |
| `operator` | Does `.status` ever speak for a spec that was not run; does an unscheduled drill run twice; is every spec and every firing run? `ObservedWasExecuted`, `RunOnceRunsOnce`, `LatestSpecIsRun`, `RunningIsTransient`, `DueIsRun`, `TypeOK` | two generations (an edit at any moment of a run), two faults (crash, API error), without a schedule and with period 1, clock to 2. 450 thousand states |
| `kubernetes` | Is a sandbox pod ever without its policy; does Destroy let go of port-forward and watchdog; does the pod of a dead drill stop and go? `IsolatedFromBirth`, `NothingForgotten`, `ImplementsLease`, `PodRunEnds`, `EventuallyReclaimed` | TTL 1, deadline 1 later, clock to 3, so the watchdog, the deadline and a sweep can each be the one that ends the pod. 810 thousand states |
| `velero` | Is a namespace verified that was not stably ready; is it forgotten; is "destroyed" true of the namespace Prepare made, and for good if the restore had completed into it? Does the drill end whatever phase the restore is in; do sweeps reclaim what carries firedrill's labels? `VerifiedMeansStable`, `NothingForgotten`, `DestroyedClaimIsTrue`, `DestroyedForGood`, `DrillTerminates`, `EventuallyReclaimed` | TTL 1, no allowance, clock to 2, two looks in a row for three (one reset between them is all that a third would repeat), a count and a readiness check. 540 thousand states |
| `fetch_restore` | Is what the engine loaded the backup, whole, the newest, within the caps, as old as claimed, and is nothing left or changed? `CopyIsWhole`, `CapsHold`, `NoPlaintextLeft`, `LatestWins`, `ClaimNotNewer`, `SourceUntouched`, `RestoredMeansServing`, `RecoveryIsNotFailure`, `TypeOK` | three names (one a directory), six kinds of object (plain, empty, packed, one that expands beyond every limit, age, gpg), five source configurations, one write or removal at any moment, listings longer than their limit. The formats `plain`, `archive`, `basebackup` and `custom`, so that every step of the drivers is taken. 4.7 million states |
| `gate` | Does an open gate mean anything while the directory changes under it? `OpenGateMeansProven`, `OpenGateHidesNoFailure`, `BundleStaysValid`, `TypeOK` | two drills evidencing one control, two runs, two keys (one pinned), window 1, clock to 2, so runs are inside or outside the window; gates by a required control and by whatever drills are there. Two runs are enough for the latest and the latest verified one to differ |

The runs of operator and source do not check for deadlock: a reconciler with an empty queue, a
deleted object and a clock at its bound rightly has nothing to do, and a fetch that failed or was
cleaned up is over. A drill always has the sweeps left.

Runs that TLC must refute; each is a disagreement between the code and a statement in the
repository (quoted in `PROJECT.json`, `findings`).

| run | statement | what happens |
|---|---|---|
| `docker_lease` | the expiry label distinguishes live drills from orphans | the label's TTL starts before the container is created, the watchdog's after it is ready: in between an unforced sweep removes a live drill's container |
| `operator_retry` | execution errors must retry; errored run-once drills retry with backoff | the event of the reconciler's own status update runs an unscheduled drill again at once |
| `docker_hang` | nothing can hang indefinitely, every drill is deadline-bounded | the output of an exec is read without the context; in `waitReady` the watchdog is not armed yet, so a readiness probe that never ends keeps Run for ever |
| `velero_leak` | teardown is guaranteed, no sandbox is leaked, `firedrill gc` reaps what is left | Velero, still at work on the Restore object, creates the namespace again that Destroy deleted and the record calls destroyed; sweeps list namespaces by firedrill's label, which the new one does not carry |
| `restore_cut` | a failed restore never gives a false PASS | reading the artifact fails midway, Exec drops the error, psql, mysql or tar take the end of their input for the end of the backup |
| `gate_tolerance` | tolerance needs a verified run inside the window | without `--max-age` there is no window and nobody asks for a verified run |

Further instances show the same or a neighbouring disagreement from another side; TLC refutes each
(`tlc -config <cfg> <module>`).

| instance | statement | what happens |
|---|---|---|
| `MCOperatorNoRetry.cfg`, `MCOperator` | `ErrorRetriesWithBackoff`, for a scheduled drill: execution errors must retry (`controller.go:117`) | an errored run moves `lastRunTime` (`controller.go:113`), so the drill is not due when the backoff ends and the retry waits for the next firing |
| `MCSourceLimit.cfg`, `MCFetchRestore` | `CopyIsWhole`, with the largest int64 as limit (`compress.go:99`) | `limit+1` wraps, nothing is read and an empty artifact is accepted |
| `MCStartupFailure.cfg`, `MCFetchRestore` | `StartupFailureIsReal`: `fatalStartupLine` indicates a cluster that is genuinely broken (`postgres.go:199`) | a server that is up and lacks the role or the database of the readiness query (`postgres.go:164`) logs a FATAL line for it, and the restore is reported as a failed startup |

Two more observations have no run of their own. Run returns an error although the drill was
executed when signing, attesting or the report fails (`drill.go:282`; the comment at `drill.go:57`
says that an error means it could not execute). Destroy runs without a deadline, so a daemon that
never answers a removal holds Run for ever (`README.md:340` calls every drill deadline-bounded);
the liveness properties assume that it answers.

### Fairness

* Docker, `FairSpec`: the clock advances, the watchdog goroutine is scheduled, and `Destroy`
  proceeds (the daemon answers calls without a deadline). Nothing is assumed of the main
  goroutine, so `WatchdogBackstop` covers a drill that hangs for ever.
* `ArmedDrillEnds` (docker) and `DrillTerminates` (velero) add `CallsEndWithContext`: Go's network
  calls return once their context is done. It says nothing of calls whose context is alive, and in the
  docker model it leaves out the output of a docker exec (`InExec`), which is read from a hijacked
  connection without looking at the context. Once the watchdog is armed, its removal of the container
  ends such an exec, so `ArmedDrillEnds` assumes no sweeps; what it excepts is a removal that failed.
  `NothingHangs` makes the same assumption and run `docker_hang` refutes it.
* Kubernetes, Velero: as docker, with the API server answering the calls of Destroy. `PodRunEnds`
  rests on the kubelet ending pods past `activeDeadlineSeconds` and on nothing of the drill's
  process, so it covers a kill at any point. Client-go's exec streams end with their context.
* `EventuallyReclaimed` (and `NothingIsLeaked`, which is refuted all the same) adds `SweepsGoOn`:
  `firedrill gc` is run again and again, as the repository's README asks, and a removal that stays possible is not refused for ever (strong fairness, since each
  sweep only attempts it).
* Operator: workers, watch and delayed queue make progress, the Deployment restarts the pod.
  `LatestSpecIsRun` adds `InfraRecovers`, because a drill that fails to execute for ever is
  rightly never observed.

## 4. Proofs

Every invariant, action property and refinement that a passing run checks is also proved, for every
value of the constants. The assumptions are the named ones in the modules: numbers that must be
positive are (`TTL`, `stablePolls` and the like), the others are natural, specs and options are of
their types, and a source has finitely many names. The bounds of the instances (`MaxTime`, numbers of edits, faults and writes) are arbitrary
numbers in the theorems. Two theorems carry a hypothesis of their own, explained below.

The layout is the same everywhere. `IInv` is the conjunction of `TypeOK` and the named parts below;
one lemma per actor (or per operation) shows that it keeps each part, frame lemmas show that steps
elsewhere do not touch it, `InvStep` puts them together and `Invariance` is `Spec => []IInv`.
No property is inductive by itself: each rests on what the code relies on silently, namely what has
already happened when a goroutine is at a given place.

### Drills

| module | theorems |
|---|---|
| `DockerDrillProofs` | `TypeCorrect`, `DestroyedClaimHolds`, `RecordMatches`, `NothingIsForgotten`, `VerdictCoversSpec`, `LostSandboxIsNotVerified`, `DockerImplementsLease` |
| `KubernetesDrillProofs` | `TypeCorrect`, `PodsAreIsolated`, `NothingIsForgotten`, `VerdictCoversSpec`, `KubernetesImplementsLease` |
| `VeleroDrillProofs` | `TypeCorrect`, `VerifiedIsStable`, `NothingIsForgotten`, `VerdictCoversSpec`, `DestroyedClaimHolds`, `CompletedIsDestroyedForGood` |

Shared by all three (`DrillProofs`):

* `OrderInv`: the record is on disk from the write on and not before.
* `ChecksInv`: the results so far are those of the first configured checks, in order; when teardown
  begins there is one for each; "verified" is what the verdict's rule says of these results. That no
  early return may skip a check and still reach the write is what `VerdictCoversSpec` needs, for specs
  of any length.

Of each provider, with its own handles:

* `PhaseInv`: where Provision (Prepare) stands at each stage of Run. Every stage that tears down knows
  that Provision succeeded.
* `HandleInv`: what is known and what may exist at each stage of Provision, that Destroy cannot have
  started before Provision ends, and that an armed watchdog is one Destroy has not yet cancelled. In
  the cluster: a create call is in flight only once Provision has given up on it.
* `DestroyInv`: after each removal without error its object is gone (in the cluster: or a given-up
  create has landed), and the flag is the negation of the error. An object once removed is never
  created again by the drill, which is why a sweep in another process cannot make the claim false.
* `RecordInv`: a record exists only after `once = "done"`, when flag and error no longer change.
* `IsolationInv` (kubernetes): the pod, *and a create call that may still make one*, come after
  namespace and policy. Without the second half a late create would break isolation.
* `PodsInv` (velero): while `podsReady` polls, its counter is the row of good looks seen so far; between
  two checks a row that let every `podsReady` pass is still the last one seen. Hence an API error or a
  pod that flaps between two looks cannot be counted over, for any number of polls and checks.

`LostSandboxIsNotVerified` is a temporal property of two moments. `Doomed` (past Provision, no running
container, no data check passed) is stable: nothing restarts the container, and a check without one
fails. The theorem follows since a doomed drill's verdict is negative.

`CompletedIsDestroyedForGood` has the same form. `RestoreInv` says that one restore is asked for and that
it is called a success only when Velero is through with it. With the namespace Prepare made still active
that makes the drill `Settled` (nothing in flight, no Restore object at work, the namespace not made again),
which is stable, and a settled drill's claim is true by `DestroyInv` and `RecordInv`. The hypothesis on the
restore cannot be dropped: run `velero_leak` is the counterexample. For the same reason a namespace-level
drill does not implement `SandboxLease`, whose record is true for good.

The refinements (docker, kubernetes) map each step to Acquire, Release, Publish or a stutter of `SandboxLease`. Three facts
carry them: what a record says was destroyed does not come back (`NothingComesBack`), a recorded fate is
written once (`FateIsWrittenOnce`), and the write publishes the truth (`WritePublishes`). In the cluster
the first needs that a drill that gets as far as a record has no create in flight (`HandleInv`).

### Operator

`OperatorProofs`: `TypeCorrect`, `ObservedIsExecuted`, `RunsOnce`, for any number of edits, crashes,
failed updates and generations.

* `SpecInv`: what Reconcile read is today's spec or an older one, and generations not yet written have
  not run.
* `StatusInv`: only the worker writes `observedGeneration` and `lastRunTime`, so from Get to the final
  patch `.status` says what was read. This is why a decision taken on a stale object still stands when
  the drill starts, although the spec may be edited meanwhile.
* `DecisionInv`: past the decision, an unscheduled spec is one that `.status` does not cover.
* `ExecutedInv`: an observed generation has run, and a result not yet published is one of a run.
* `OnceInv`: every run of today's unscheduled spec is in `.status`, about to be published, or lost to a
  crash or failed update; at most one is not lost. `RunsOnce` is its first half.

### Fetch and restore

`FetchRestoreProofs`, for streams of any length, any number of names and writes:

| theorem | statement |
|---|---|
| `TypeCorrect` | `Spec => []TypeOK` |
| `NoPlaintextIsLeft` | `Spec => []NoPlaintextLeft` |
| `CopyIsComplete` | `Spec => [](LimitFits => CopyIsWhole)` |
| `CapsAreKept` | `Spec => [](LimitFits => CapsHold)` |
| `NewestIsFetched` | `Spec => []LatestWins` |
| `ClaimIsNotNewer` | `Spec => [](Dated => ClaimNotNewer)` |
| `SourceIsReadOnly` | `Spec => SourceUntouched` |
| `RestoredIsServing` | `Spec => []RestoredMeansServing` |
| `RecoveryIsWaitedFor` | `Spec => []RecoveryIsNotFailure` |

* `LimitFits` says that the limit is below the largest integer, so that one byte more does not wrap.
  It cannot be dropped: the instance `MCSourceLimit.cfg` is the counterexample. Every limit a user would write
  satisfies it.
* `Dated` says that the source is a directory or a store that sends Last-Modified. Without it
  the code takes the time of the fetch for the age of the backup, and the claim is false.

The invariant's parts:

* `PlaceInv`, `TmpInv`: what is open at each place in Fetch, and that the temp file is there only while
  it is written or a Backup points to it, whose Cleanup knows of it and of nothing of the source's.
* `AgeInv`, `ClaimInv`: nothing is dated in the future and a name's date only grows, so between Stat,
  Open and the driver's own Open the file can only have become newer. This is the step from a value
  checked earlier to the file used later.
* `BodyInv`: a stream still whole at the copy was decrypted with what it was encrypted with and was not
  over the transfer cap; the reader is limited to one byte more than the cap, so a copy of at most the
  cap has reached the end.
* `ListInv`, `ChosenInv`: the best so far is at least as new as every name looked at and untouched since;
  what is fetched is the best, or what replaced it.
* `EngineInv`: formats and places in Restore go together, there is no server and no log before the
  server is started, and a FATAL line that is not a transient one is about a server that gave up or that
  is up and refuses the poll (`LinesAreTrue`), which is final. A transient line proves nothing, however
  long it stays in the log.

### Gate

`EvidenceGateProofs` proves for all sets of drills, controls, keys and gate options and any number
of runs:

| theorem | statement |
|---|---|
| `TypeCorrect` | `Spec => []TypeOK` (records are never altered after their drill finished) |
| `GateIsSound` | `Spec => []OpenGateMeansProven` |
| `GateHidesNothing` | `Spec => []OpenGateHidesNoFailure` |
| `BundlesStayValid` | `Spec => []BundleStaysValid` |

The assumptions: `NoKey`, `Torn` and the keys differ, and a pinned key implies required signatures
(`gateCmd`). Again the properties are not inductive:

* `RunInv`: a run in flight owns its record's number, and from signing on the signature on disk is
  by the key it holds, unless the directory was lost.
* `FileInv`: numbers not yet used are unsigned, a signature on disk is one that was made, a whole
  attestation is by the signer. This is what rotation between the two files could break.
* `GateInv`: a subject already evaluated and found in order has its proving run. It is stable under
  the other actors because it speaks of what was signed and finished, not of what is still on
  disk (`GateInvStable`).

### Only model-checked

Liveness under fairness is beyond this prover and stays with TLC: `WatchdogBackstop`, `ArmedDrillEnds` and
`EventuallyReclaimed` (docker), `DrillTerminates` and `EventuallyReclaimed` (velero), `PodRunEnds` and
`EventuallyReclaimed` (kubernetes),
`LatestSpecIsRun`, `RunningIsTransient` and `DueIsRun` (operator). So do the refutations of section 3.

## 5. Not modelled

* Content: SQL, mongo queries, dump formats, HTML, log output, exit codes, flags, key encodings.
* Exec's output and its cap: they carry data only.
* `RunAll` (one Run after the other) and the scorecard, history and control exports: they read and
  print what the gate's model already reads.
* Parsing and validation of specs (`pkg/spec`): cross-field rules without state. The constants'
  assumptions say what a valid spec is.
* Slack, webhook and metrics: one request or one file each; that they are tried with the drill's
  context, after the record, is in `Drill.NotifySinks`.
* The operator's startup sweep (a `SweepKubernetes`, modelled as a sweep of another process), its
  metrics and health endpoints; several objects at once (reconciles of different objects share
  nothing but the evidence directory).
* The temp file that a kill leaves behind: nothing in the repository looks for it.

## 6. Plan

1. done: `Process`, `Verdict`, `Drill`, `DockerSandbox`, `DockerGC`, `DockerDrill` with its proofs;
   `Operator`; `EvidenceGate` with its proofs.
2. done: `KubernetesSandbox`, `KubernetesGC` and `KubernetesDrill`; `VeleroSandbox` and
   `VeleroDrill`; `Source`, `EngineRestore` and `FetchRestore`.
3. done: proofs of every safety property the runs check, for all components.
4. Open: a lease for the gate's side (that what the gate calls proven is a record `Drill` may write, as a
   refinement between `EvidenceGate` and the drills), and two hazards without a property: the attestation
   that is written in place, and the store that sends no Last-Modified (for the latter `Dated` marks the line).
