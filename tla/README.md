# TLA+ models of the live-migration operator

The repository is a Kubernetes operator that moves a pod from one cluster to
another. On the source it checkpoints the pod's containers through the kubelet,
uploads the archives to a file handler on the destination and deletes the pod;
on the destination it builds images from the archives and creates the pod
again. An API server beside it creates and lists the LiveMigration objects that
ask for this. These modules model that path, from the API server's requests and
`Reconcile` to the restored pod, check it with TLC on small instances and prove
its safety with TLAPS for all instances.

## Parts of the system

| Part | State | Operations | Hard because |
|---|---|---|---|
| Reconciler (`controllers/livemigration.go`) | work queue, one worker, two goroutines per Reconcile | load object, decide the cluster's role, start goroutines, wait | the role is decided once; the wait never ends; errors are retried, goroutines are not |
| Dummy pod and service (`controllers/dummy`) | two objects at the API server | get, create, wait until ready | timeouts, restarts between create and ready |
| Migration pipeline (`controllers/migrate.go`, `checkpoint.go`, `utils`) | three stages, two channels, two wait groups, the folder `/tmp/checkpoints/checkpoints`, the pod | clear, checkpoint, read, upload, mark, delete, watch, clean up | parallel requests, unbuffered channels, panics in the middle, requests that outlive the process |
| File handler (`file-handler`) | files under `/mnt/data` | create, copy | parallel uploads, failed copies that look like successes |
| Restore (`controllers/livemigration.go`, `restore.go`) | file events, the results channel, working containers, images | list, chmod, from, add, config, commit, rm, create pod | it starts at one file and takes all; every command may fail; a channel nobody reads |
| Older path (`migrate.go`, `crio.go`, `restore.go`) | as pipeline and restore; lists shared by goroutines | `MigratePod`, `BuildahRestore`, `BuildahRestoreParallelized` | goes on after failures; appends without a lock |
| API server manager (`api-server`) | `started`, cache, error signal, two stop channels, a server and a listener for each start | start, wait for the cache, listen, stop, shut down | start order, channels closed twice, errors nobody receives |
| API server endpoints (`api-server/endpoints`) | requests, LiveMigrations, a cache that lags | create, list (no other route exists) | check then create, answers lost after the create |
| Names (`controllers/utils`) | none | parse archive names | fixed year, fixed number of dashes |

The parts interact through the API server (LiveMigration objects, pods,
`dummy-service`), through HTTP (kubelet, file handler) and through two folders.
The file handler writes to `/mnt/data`, which `dummy.go:64` mounts from the host's
`/tmp/checkpoints/checkpoints`; the restore watches `/checkpoints/` in its own
file system. The two are taken to be one folder, so that a file the handler
creates is an event for the restore. The marker file `dummy`, sent after all
archives, is the only message "the checkpoint is complete".

## Modules

`MigratePipeline` is the source side. `main` is the goroutine of Reconcile that
finds the pod and runs `MigratePodPipelined`; `stage1`, `stage2`, `closer` are
the goroutines it starts. A worker of a wait group is an element of a set:
`toCheckpoint`/`checkpointing` for the checkpoint requests of
`CheckpointPodPipelined`, `toStat`/`toPost`/`posting` for the uploads of
`MigrateCheckpointParallelized`; `wg.Wait` is "the sets are empty". A send on
an unbuffered channel is one action of both sides (`SendCheckpoints`,
`ReceiveMigrated`), `defer close(checkpoints)` is `stage1 = "done"`. The kubelet
and the file handler hold requests of their own (`kubelet`, `received`,
`copying`), so a request survives a sender that gives up (`lost`) or dies.
`Die` is a panic in any goroutine (`ServicePanics`, `WatchPanics`) or a kill;
`Restart` is the next start. A file is `<<name, boot>>`: the boot stands for
the timestamp the kubelet puts into the name.

`Restore` is the destination side: the watching goroutine of Reconcile,
`BuildahRestorePipelined`, `getFiles` and `processFile`, one action for each
buildah command. `results` counts the messages in `make(chan string, 2)`.
Archives are numbers in name order. Uploads are external and keep the order
of `Delivery`, except for the archives in `Late`. The watching goroutine looks for
"dummy" anywhere in the name of a new file: `DummyNamed` are the archives that it
takes for the marker.

`Delivery` is the abstract specification between the two clusters: what the
source promises about the files it creates in the destination's folder. Archives
come before their marker and are closed when it comes, unless their sender has
given up. `MigratePipeline` implements it under the refinement mapping `Folder`
(`DeliversInOrder`, checked and proved), and `Restore` takes the guard
`Folder!MayCreate` of the same module for its uploads: what one side assumes is
what the other guarantees.

`Reconciler` is Reconcile itself: the worker, its early returns, the dummies
and the two goroutines, with several LiveMigrations. There is no action from
`worker = "select"`, as there is no send to the channels of that select. The
dummies may be there from the beginning, in any state; `waited` records whether
this process has created `dummy-pod` and whether its wait timed out.

Its `Restart` is `main` of the operator: a start comes up with every object in
the queue, or ends at once when there is no configuration or no manager.

`ApiServer` is `manager.Start` with its cache goroutine and `errSignaler`, the
server and the listening goroutine of each call of `Start` (`srv`, `lis`), and
the two endpoints as steps of requests. A listener with an error waits at
`"send"` for the receiver of `errChan`; `inner` is the channel that `Start`
closes when it returns. A POST is cut where its handler waits: reading and
listing pods (`FindSourcePod`), `CreateObject`, `WriteAsJson`.

`Names` has `RetrievePodName` and `RetrieveContainerName` as operators. An
archive name is a sequence of parts between dashes, a part a sequence of words
between underscores. `MCRestore` extends it: the tags of the run are the results
of `RetrieveContainerName` for three archive names, which an assumption checks.

`OlderPath` extends `MigratePipeline`: `MigratePod` uses most of the helpers
that `MigratePodPipelined` uses, one after the other, so its actions are those of
`MigratePipeline` where the code is shared. It composes the source, the file
handler and one of the two older restores on the same files, from pod to pod.
An append to the shared list is two steps, the read of the slice
(`WorkerProcesses`) and its store (`WorkerAppends`).

`*Proofs` hold the theorems (`FaultlessProofs` those that the pipeline and the older
path share), `MC*` the instances. A definition whose comment
begins with "Variant" is a changed form of the definition after it, used to
show that a property can fail; no specification uses it.

## What the model leaves out or assumes

- The LiveMigration has the name of its source pod, as in
  `pods/multi-container/local`; the code uses one for the checkpoint and the
  deletion and the other for the look-up.
- The kubelet writes its archives to `/tmp/checkpoints/checkpoints`. Nobody but
  the operator deletes the source pod (in `MigratePipeline`).
- The operator's `/checkpoints/` shows the folder that the file handler fills.
  `config/liqo/checkpoint-pv.yaml` has `/tmp/checkpoints/` for it, `dummy.go:64`
  `/tmp/checkpoints/checkpoints`; no file of the repository mounts either at
  `/checkpoints/`.
- Nobody cleans the destination's folder. A migration away from the same host
  would: `/tmp/checkpoints/checkpoints` is also the folder that
  `MigratePodPipelined` removes. A host is taken to be source or destination.
- Nobody deletes `dummy-pod` or `dummy-service`.
- In `OlderPath` no pod, namespace or container has "dummy" in its name; `Restore`
  shows what happens otherwise.
- `curl` without `-f` reports an HTTP error as success: `KubeletRefuses` and
  `HandlerRejects` are invisible to their senders.
- The file handler (fasthttp) has the whole body before it calls `handleFile`.
- A buildah command given the empty container name fails.
- The API server refuses a pod without containers.
- `fault` records whether any call has failed. It is not read by any action;
  properties use it to speak of runs without failures. In `MigratePipeline` and
  `Restore` the death of the process counts as a failure, in `Reconciler` it does
  not, nor does the timeout of the wait for `dummy-pod`.
- Whether an uploaded file is complete is part of `fault` only: to a restore a
  file is open or closed.
- The marker of a second start overwrites the file of the first on the
  destination: `MigratePipeline` tells them apart by boot, `Restore` does not.
- Contents of archives, log messages and YAML are left out.
- The repository has no constructor of `manager`; `internalStop` and
  `internalStopper` are taken to be the two ends of one channel, made once.
  `WaitForCacheSync` may come back without a synced cache once `cache.Start` has
  failed. The caller of `Start` may end the process as soon as `Start` returns.
- `MigratePod`, `BuildahRestore` and `BuildahRestoreParallelized` have no caller.
  They are taken to be called where Reconcile calls the pipelined ones: the calls
  of the restores stand there as comments (`livemigration.go:157-158`). A restore
  on one archive is one step in `OlderPath`, its working containers are not
  tracked (`Restore` has the commands one by one), and a torn slice is a crash.
  The source operator of `OlderPath` is started once.

## Runs

| Run | Instance | Shows |
|---|---|---|
| `pipeline_crash` | 1 container, 2 starts | `MarkerLast`, `NoStaleShipped`, `DeleteWaitsForCheckpoints` and the refinement `DeliversInOrder` under deaths and restarts (2.1 million states) |
| `pipeline_parallel` | 3 containers, 2 of the pod, 1 start | `UploadsFindFiles`, `NoGoroutineLeft`, `FaultlessRunShips`, `MigrationEnds` |
| `restore` | 3 archives, 1 with "dummy" in its name, 2 of another container, 1 of these late, 2 starts (1.3 million states) | `HangsOnlyAfterTwoFailures`, `NewestArchiveWins`, `BuildersRemoved`, `AddsWholeArchives`, `RestoreEnds`, `MarkerStartsRestore`; `PodNameRecovered` and `ContainerNameRecovered` for all names of up to 2 words out of 3 |
| `reconciler` | 3 LiveMigrations, 1 with template, 2 starts, any dummies at the beginning | `OneMigrationAtATime`, `DestinationReady`, `ReconcileSettles`, `SourceMigrates` |
| `api_server` | 2 requests for 1 name, 2 calls of Start, 3 calls in all | `ServesSyncedCache`, `AnswersAreTrue`, `OneStartNeverPanics`, `StopDrains`, `ListenFailureEndsStart` |
| `older_path` | 2 containers (symmetric), 1 start, both restores | `NeverTwoPods`, `FaultlessMigrationRestores`, `ImagesAreWhole`, `DeleteWaitsForCheckpoints` (1.8 million states) |

One container and two starts are enough for the crash properties, because they
relate one archive to one marker of the same or the other start; a second
container adds only parallel uploads, which the other run has. Two archives
with one tag are the least for which an order matters, the third gives a second
tag and has "dummy" in its name; while it is absent, nothing is taken for the
marker. Two LiveMigrations without a template are the least that could overlap.
Two requests for one name race for one object; the second call of `Start` is the
one that meets the channel the first has closed, and `MaxCalls` keeps the two
kinds of calls from multiplying. Two containers are the least for which an append
can overwrite another; they are alike, and no property of `older_path` is
temporal but one action property, so symmetry is sound. `Stale` is empty in that
run; with the marker of an earlier migration in it TLC reaches the exception that
`ImagesAreWhole` names: `MigratePod` goes on when the folder cannot be cleared,
ships the old marker among the archives, and the restore may begin too early.
Two words are enough for names with and without a dash; the year in the code is
one of the words, so it may also be part of a name.

Three properties say exactly how far a promise goes where the code breaks it.
`DestinationReady` does not hold without its two exceptions: a `dummy-pod` that is
found is never waited for, also when the operator was killed in its wait
(`dummy.go:85`), and a timeout is only logged. `BuildersRemoved` has one leak in
it: add, config and commit fail, the third send blocks at `livemigration.go:343`
and `buildah rm` at line 348 is not reached. `AddsWholeArchives` holds until an
archive with "dummy" in its name comes: `livemigration.go:156` takes it for the
marker and restores in the middle of the uploads. In each case the run reaches
the exception, and the theorem says that there is no other.

What `ContainerNameRecovered` says is less than the comment "the previous part is
the container name" (`utils.go:185`) suggests: the function returns the two parts
before the year. A container `db` of namespace `liqo-demo` gets the name
`demo-db`, and only names with exactly one dash come back as they are.

Six runs show where the code differs from what it says of itself:

- `terminated_checkpointed`: `TerminateCheckpointedPod` deletes a pod of which
  there is no checkpoint when stage 1 fails.
- `processfile_returns`: `processFile` blocks for ever after two failures on one
  archive, which a failed `buildah from` always leads to.
- `restored_pod`: `containers` is shadowed in the loop of
  `BuildahRestorePipelined`; a restore without failures creates no pod.
- `reconcile_returns`: Reconcile never returns once it has started its
  goroutines. `OneMigrationAtATime` holds only because of this: a Reconcile that
  returned would let two migrations share the folder (the run's variant
  `StartAndReturn` shows it).
- `poller_retries`: a source pod that is not there at the first look is never
  migrated.
- `marker_detected`: a marker that arrives before `watcher.Add` is never
  detected, though the file handler can be reached by then: in the run that TLC
  finds a marker comes, the operator lives and no restore ever begins. Once a
  restore has begun the property holds, so a marker that was detected and
  restored does not violate it. (One that overwrites the marker of an earlier
  migration is no Create event and is not detected either; the property does not
  speak of it.)

Deadlock is not checked: the operator may come to rest, finished or dead.

## Fairness

`FairSpec` assumes that Go runs a goroutine that can run, that commands (curl,
buildah) end, that the file handler works on what it has received, that the
kubelet ends a terminating pod and the API server ends a watch. Each is weak
fairness of the group of these steps. Nothing is assumed of kills, restarts,
uploads, users, the readiness of the dummy pod or the service's appearance. In
`Reconciler` the end of a migration is assumed; `MigrationEnds` is why.
`WatchedSpec` adds to the `FairSpec` of `Restore` that `watcher.Add` is reached
and succeeds, which makes the counterexample of `marker_detected` one that no
delay or failure of the operator explains. In `ApiServer` the goroutines of
manager, server and listener run while they can and handlers end; nothing is
assumed of the caller, the cache, the clients, or whether a port can be bound
or a server that serves will fail.
`OlderSpec` has no fairness; only safety is checked of it.

## Proofs

All theorems hold for every value of the constants under the named assumptions
of each module, and need no fairness.

`MigratePipelineProofs`: `IInv` is inductive. `MarkerLast` alone is not: an
archive could still be on its way through the folder, the kubelet or stage 2.
`SealedInv` says that once a marker has arrived, stage 2 of its boot is past its
uploads, and that no request or file of that boot which could still be shipped
is left except given-up ones. This needs `AwaitedInv` (what the kubelet and the
file handler hold is awaited by a goroutine of this boot or given up), `BootsInv`
(boots of files, and that a cleared folder has no marker and nothing of boot 0),
`UploadsInv` and `StagesInv` (which goroutine states go together). From `IInv`
follow `MarkerLast`, `NoStaleShipped`, `UploadsFindFiles`, `NoGoroutineLeft` and
the action property `DeleteWaitsForCheckpoints`. `SourceDelivers` is the
refinement: the starts are numbered within `MaxBoots` (`BootBound`), and under `IInv` every
step is a step of `Delivery` or leaves its variables alone (`NextDelivers`); the
file handler creates a file only while `SealedInv` lets it.

`RestoreProofs`: `SendsInv` (messages sent = commands failed) gives
`HangsOnlyAfterTwoFailures`; `BuildersInv` (how many commands can have failed so
far on the archive whose container exists, so that only the third failure, that
of commit, can block before the removal) gives `BuildersRemoved`; `OrderInv` (a
restore implies a marker or an archive taken for one, a marker implies that no
ordered archive is open) gives `AddsWholeArchives`; `LoopInv`,
`CurrentInv` and `NewestInv` (done files come before those left, the image of a
done file's tag is at least as new) give `NewestArchiveWins`.

`ReconcilerProofs`: a goroutine exists only beside the worker that waits in its
Reconcile (`PollerInv`), which gives `OneMigrationAtATime`; `DummyInv` (outside
its wait, a process has no `dummy-pod` of its own that it has not awaited) gives
`DestinationReady`, across restarts and whatever dummies there were.

`ApiServerProofs`: `CacheInv` (a started manager has waited for its cache, and
only a started one has servers and requests), `StopperInv` (who has closed
`internalStopper`, and when) and `ObjectInv` (what a request has stored at each
point of its handler) are inductive together, one lemma for each group of steps,
and give `ServesSyncedCache`, `OneStartNeverPanics` and `AnswersAreTrue`.

`FaultlessProofs`: `FaultlessRunShips` needs an invariant that follows each
archive of the pod. `CheckpointedInv` has it with the kubelet or in the folder
until stage 2 has read the folder, `ShippedInv` in one of the sets of the uploads
or on the other cluster's disk from then on, and `PodInv` ties the pod to where
`main` is; all of it as long as `fault` is false (`FaultlessInv`). Most steps
are shared by `MigratePodPipelined` and `MigratePod`. They are collected in
`SharedNext` and proved once (`SharedFaultless`) from `SharedInv`, the part of
`IInv` that also holds of `MigratePod`. `PipelineEndsInv` adds how the stages
end: stage 1 ends only after its send, and stage 3 clears the folder only
after stage 2 has ended.

`OlderPathProofs`: `IInv` does not hold of `MigratePod`, which goes on when the
folder cannot be cleared and may ship files of boot 0. `SourceInv` is what is
left. Its stages run one after the other (`SequentialInv`), every upload is
awaited or given up, old files included (`UploadsAwaitedInv`), and once the marker
has arrived only given-up archives are under way (`MarkerInv`). Together with
`CalledInv` (a restore that no old marker has called works on files after this
migration's marker) and `RestoreInv` this makes `ImagesAreWhole` inductive
(`OlderIInv`), for any set `Stale` of leftovers. The run has an empty one; the
theorem covers the others too. `OlderFaultlessInv` adds, for runs without a
fault, that only the pod's archives and the marker are shipped (`ShipmentInv`)
and that the restore keeps each of them in its files, its list or a worker that
appends, until an append is overwritten (`RestoredInv`). It gives `NeverTwoPods`
and `FaultlessMigrationRestores`. The restores' own steps are split from the
source's: a step of the source changes no variable of the restore
(`SourceSteps`), and one of the restore none of the source.

`NamesProofs`: `PodNames` and `ContainerNames` are for names of any length,
without induction. `ArchiveNameIs` says which part of an archive's name stands
where (`Layout`), by the lengths of the pod, the namespace and the container.
`PodNameIs` then finds that exactly one part has an underscore in it;
`ContainerNameIs` and `PanicsAt` find the last part that is the year. That a
bounded set of numbers has a maximum (`MaxExists`) comes from the well-foundedness
of `<`. The proofs use `NamesAssumption` only. They made one change to `Names`:
`RetrieveContainerName` was a `CASE` whose first two guards can both be true when
no part is the year, because `Max({})` is then unspecified. It is now an `IF`, in
the order of the loop in the code.

The assumptions used are `ConstantsAssumption` (the pod's containers are among
those listed, none has the name of the marker, there is a start), `StaleAssumption`
(leftovers are of boot 0), `RestoreAssumption`, `NamesAssumption` and those of
`Reconciler` and `ApiServer`, each in the module that declares the constants.

Checked with TLC only: the liveness properties (`MigrationEnds`, `RestoreEnds`,
`MarkerStartsRestore`, `ReconcileSettles`, `SourceMigrates`, `StopDrains`,
`ListenFailureEndsStart`), which are out of the prover's reach. Every invariant
and every action property of the passing runs, and the refinement, is proved.

## Not modelled, and the plan

Done: the pipeline, the restore, the reconciler with `main`, the API server, the
names, the older path, the refinement between the two clusters, and the proofs of
all safety properties. What is left of the plan is proofs of facts that no run
states yet:

1. That `MigratePod` implements `Delivery` when nothing is left over (`Stale`
   empty) or the folder was cleared.
2. Safety parts of the liveness properties: in which states the pipeline and the
   restore can wait at all, and for whom.

Left out for good: the API types and generated code, which declare data only; the
converter of the endpoints, which copies fields; functions that nothing calls and
that no comment shows in use (`RemoveCheckpointPod`, `updateAnnotations`,
`PushDockerImage`, `GetActualRunningPod`, `MigrateCheckpoint`, `MigrateDummyFile`,
`WaitForServiceReady`); and the shell scripts.
