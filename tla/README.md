# Database Lab Engine: a TLA+ verification project

Database Lab Engine (DLE) is a Go daemon that provides thin clones of a large
PostgreSQL database. A clone is a Docker container over a copy-on-write dataset
(ZFS or LVM) made from a snapshot. This directory holds TLA+ modules of its
core logic, TLC configurations that check them on small instances, and TLAPS
proofs. Paths below are relative to the repository's root (`src/` in
PROJECT.json).

How to run (in this directory):

    tlc -workers 2 -config SerialSessionsAllFaults.cfg MCSerialSessions
    tlapm SerialSessions_proofs.tla

and `tlapm` likewise for the other modules with proofs: `Cloning_proofs`,
`CloneRecovery_proofs`, `SnapshotBox_proofs`, `PoolRefresh_proofs`,
`SnapshotRetention_proofs`, `Observation_proofs` and `FiniteFacts`.

## 1. Inventory of the system

| Component | State | Operations | Interacts with |
|---|---|---|---|
| Cloning service, `internal/cloning/base.go` | map ID -> wrapper (clone, session), under a RWMutex | CreateClone, DestroyClone, ResetClone, UpdateClone, UpdateCloneStatus, idle check | HTTP handlers call it; it starts a goroutine per operation that calls the Provisioner |
| Clone state file, `internal/cloning/storage.go`, `cmd/database-lab/main.go` | `sessions.json` | SaveClonesState, RestoreClonesState, filterRunningClones, cleanupInvalidClones | saved after each operation and on SIGTERM, read by Run |
| Snapshot box, `internal/cloning/snapshots.go` | map of snapshots, the latest, a counter of clones for each | fetchSnapshots, increment, decrement | reads the Provisioner's snapshots and the clone map |
| Provisioner, `internal/provision/mode_local.go` | the port pool, under a mutex; the session counter | StartSession, StopSession, ResetSession, StopAllSessions, RevisePortPool | shell commands to Docker and ZFS, through the pool manager |
| Clone containers, `internal/provision/databases/postgres`, `internal/provision/docker` | Docker's containers | Start (with a wait loop), Stop, List | Docker |
| Thin clones, `internal/provision/thinclones/{zfs,lvm}` | datasets, snapshots | CreateClone, DestroyClone, CreateSnapshot, CleanupSnapshots | ZFS, LVM |
| Pool manager, `internal/provision/pool` | list of pools, the active one in front | ReloadPools, MakeActive, GetPoolToUpdate | Provisioner, retrieval |
| Retrieval, `internal/retrieval` | mode, status, alerts, schedulers | Run, fullRefresh, Reload | jobs, pool manager |
| Logical jobs, `.../engine/postgres/logical` | dump location, databases | dump, restore | Docker containers, source database |
| Physical job, `.../engine/postgres/physical` | sync container | restore, sync instance | WAL-G or another tool |
| Snapshot jobs, `.../engine/postgres/snapshot` | two cron schedulers | snapshot, promotion, clean-up | ZFS, containers |
| Observer, `internal/observer` | map clone -> observing clone, a `done` channel | start, stop, artifacts | HTTP handlers, Platform, the clone's status |
| Estimator, `internal/estimator` | profile of wait events | Start, Stop, EstimateTime | web socket |
| HTTP API, `internal/srv` | none of its own | one handler per route | all the services |
| API client and CLI, `pkg/client/dblabapi`, `cmd/cli` | none | requests, polling of a clone's status | HTTP API |
| Migration checker, `internal/runci`, `cmd/runci` | none | runMigration | API client, observer |
| Configuration, models, telemetry, port forwarding, UI, networks | data and glue | | |

What is hard, by component, and what makes each correct:

* Provisioner: several operations at a time, each a sequence of shell commands
  of which every one may fail. A port is at once the identity of a container
  and of a dataset, so two clones that share a port destroy each other.
  Correct: ports are exclusive, a failed operation gives back what it took, a
  free port is clean, a clone in use stays on its own data.
* Cloning service: handlers read the registry, release the lock, and go on with
  what they have read; results come back by clone ID. Correct: it calls the
  Provisioner for one operation per clone at a time; a clone shown as OK works;
  nothing runs that the registry does not know; every operation ends;
  unused clones are deleted; a protected clone is not (which holds only without
  overlapping requests, section 4).
* State file: a crash at any point, also in the middle of a write. Correct:
  clones that were ready survive.
* Snapshot box: a cache with counters that several goroutines replace and update
  without one lock over both. Correct: a counter equals the number of clones.
* Pool manager and retrieval: a refresh wipes a pool while clones are created,
  the list of pools is rebuilt under it, and cron may start the next one early.
  Correct: the service goes on, running clones keep their snapshots, the newest
  data comes to the front, no status is stuck.
* Observer and migration checker: a handler that waits for a goroutine that may
  have gone, a client that asks twice. Correct: a stop returns, a check ends, a
  summary covers the whole run, the clone is released.
* Snapshot jobs: jobs that overlap with each other, with retention and with
  cloning. Correct: no snapshot in use is destroyed, the youngest are kept,
  nothing half built stays (but for what section 4 names), a label says what is in the snapshot.

The `hazards` of PROJECT.json list these points with their lines.

## 2. Plan

Done: (1) `Provision`, `SerialSessions` and its proofs, with and without failed
clean-up commands; (2) `Cloning` and its proofs, the refinement of
`SerialSessions` among them; (3) `CloneRecovery`, which composes `Cloning` with
the state file, and its proofs; (4) `PoolRefresh`, the pool manager with the retrieval service and
clients, and its proofs; (5) `SnapshotRetention` and its proofs; (6) `Observation`
with the migration checker, and its proofs; (7) `SnapshotBox` and its proofs.

Next:

8. `PgStart` (the wait loop of `postgres.Start`) and `Estimator` (the ticker, the
   waits and Stop of the profiler).
9. The logical and physical jobs inside: discovery of dumps, the sync container,
   the recovery configuration, as functions checked against a reference.
10. The timeout of the API client's polling, as a request that overlaps.

Every safety and action property of the runs is proved (section 5). Theorems worth
proving next: what else about `Cloning` survives when `ClientsWait` is false or the
idle check works beside clients that delete and reset clones, beyond the types, the
pointers and what a restart makes good again.

## 3. The modules

### Provision

`internal/provision/mode_local.go` with the Docker and ZFS commands it runs.

| Variable | In the code |
|---|---|
| `bind` | `Provisioner.ports`, a port of the pool is marked as busy |
| `container` | the container Docker knows under the clone name of a port, whether it is up and in which pool its data is |
| `dataset` | the ZFS clone of that name in each pool, and the snapshot it comes from |
| `session` | `CloneWrapper.Session`: port and pool |
| `pc`, `call` | the next step of a goroutine inside StartSession, StopSession or ResetSession, and its arguments and locals |

One step is one lookup, one critical section or one shell command; calls
interleave between steps. `GetSnapshot`, `GetFSManager`, `SwitchPool` and
`AllocatePort` are the lookups and the allocation, `CreateClone`,
`StartPostgres` and `PrepareDB` build a clone, `StopPostgres`, `DestroyClone`
and `FreePort` take it down, and `RevertStop`, `RevertDestroy` and
`AfterRevert` are the deferred `revertSession`. `Faults` names the commands
that may fail; a command can fail after it has had its effect (`zfs clone`
followed by a failing chown, `docker run` that leaves a created container).
Two failures are coarser than the code: a failing `StopPostgres` leaves the
container as it is, where the removal of the socket directory may also fail after
`docker rm` has succeeded (`postgres.go:136`), and `DestroyClone` fails only if there
is a dataset, where a failing `zfs list` makes it fail without one (`zfs.go:201`).

Three details of the code carry most of the behaviour:

* `zfs.CreateClone` treats a dataset of the wanted name as success, and looks
  for the name over all pools.
* `zfs.DestroyClone` does nothing if no pool has the name, and fails if only
  another pool has it.
* `postgres.Start` may remove the container on a timeout and still return nil;
  `prepareDB`, which connects to the clone, is what notices.

`Occupied` are ports of the pool on which another program listens from the
beginning. `MaxNumberOfPortsToCheck` is the constant of the same name.

### SerialSessions

An abstract caller of the Provisioner: any number of clones and calls, but one
call per clone at a time. `clone` records the snapshot and whether the clone is
shown as ready. It says what the Provisioner promises, and is the abstract
specification that `Cloning` implements.

### Cloning

`internal/cloning/base.go` with its handlers of `internal/srv/routes.go`.

| Variable | In the code |
|---|---|
| `clones` | `Base.clones`: ID -> wrapper |
| `wrapper` | `CloneWrapper.Clone`: ID, status, snapshot, protection |
| `session` (of Provision) | `CloneWrapper.Session` |
| `handler` | a request between two of its critical sections |

An action is a critical section together with what follows it until the next
one: `CreateFind`, `CreateSet`, `StartDone`; `DestroyFind`, `DestroyMark`,
`DestroyGo`, `StopDone`; `ResetFind`, `ResetMark`, `ResetDone`; `UpdateClone`;
`ObserveStop`, `ObserveReturn`; `IdleFound`, `IdleRefused`. Between two of them
any other goroutine may run. As in the code, the later ones use the wrapper
pointer for the session and the ID for the status, the session of a start and
the deletion, so they may meet another wrapper, or none. A wrapper that nothing
refers to is reset by `Keep`, so that wrappers can be reused.

The idle check is one goroutine (`IdleChecker`) that finds a clone idle and
then calls DestroyClone by ID; its timer and its loop over the map are the
choice of an ID. How long a clone is unused is not modelled: `Unused` says what
`isIdleClone` says after the time has passed.

Two constants describe the environment. `ClientsWait`: clients send the next
request for an ID only after the previous one has settled, as the API client
(`watchCloneStatus`) and the CLI do by default. `PromptStops`: a StopSession
ends before the idle check comes round again (its period is minutes); it only
removes behaviours of the idle check against itself.

`Recorded` is the refinement mapping: what `SerialSessions` calls a clone is the
snapshot of a wrapper that has a session, and whether its status is OK.

Left out: timestamps, database credentials, extra configuration, the counters
of clones per snapshot, `SaveClonesState` (no file yet), deletion of a clone
that does not exist (an error reply). `UpdateClone` is one action for a lookup and
a critical section after it (`base.go:354` and `362`), and a patch that leaves the
protection as it is is no step here (it only saves).

### CloneRecovery

`internal/cloning/storage.go` and `Base.Run`, composed with `Cloning`.

| Variable | In the code |
|---|---|
| `file` | `sessions.json`: the wrapper of each ID as it was last saved, or `Torn` |
| `saves` | calls of SaveClonesState that have not yet got the lock |
| `phase` | serving (`up`), or the next step of Run |
| `unclean` | the pools StopAllSessions has still to visit |
| `settled` | history variable: the clones that were at rest, worked and were saved as they were when the daemon went down |

`Serve` is a step of `Cloning` while the daemon is up; a successful operation
and a change of the protection leave a save to be done (`Saves`), a failed one
does not, as in the code. `Save` writes the whole registry. `Crash` forgets
everything in memory, stops the containers if the machine goes down, and, when
`TornWrites` holds and the daemon was up, may leave a file that cannot be decoded
(the idle check may be saving when nobody else is). `Shutdown` is the SIGTERM path of `main`. `RestoreClonesState`,
`RestartCloneContainers`, `FilterRunningClones`, `StopPoolSessions` and
`RevisePortPool` are the steps of `Run`; a crash may come between any two of
them, which also covers a step that fails and ends the daemon. The first
RevisePortPool (`Init`) and the FreePort of the filter are left out: nothing
reads the port pool before the last RevisePortPool computes it anew.

### PoolRefresh

`internal/provision/pool/pool_manager.go` and `internal/retrieval/retrieval.go`
in the logical mode, with clients of the pools.

| Variable | In the code |
|---|---|
| `order`, `poolStatus`, `gen` | `fsManagerList`, `Pool.status`, and which list and which Pool objects are the current ones |
| `marker`, `snaps`, `latest` | the data state marker and the snapshots on disk; the newest data restored so far |
| `retrieval`, `lock`, `ctx`, `scheduled` | `State.Status`, `retrieveMutex`, whose context `r.ctxCancel` cancels, is cron running |
| `ref` | where Run (`Main`) or a fullRefresh (`Ticks`) is, with the pool, the object and the list element it holds |
| `clone` | a client: snapshot found, dataset made, container running |
| `failed`, `disturbed`, `overlapped` | history variables of the properties; `overlapped` says at which point of another refresh a tick has begun one: while it was preparing its pool or data, or between its two calls of MakeActive (`finishing`) |

`Run` is Run up to `run`; `FullRefresh`, `CheckClones`, `DestroySnapshot` (one
`zfs destroy -R` each), `CleanUpControlContainers` are fullRefresh before it;
`BeginRun`, `Lock`, `Restore`, `TakeSnapshot`, `Activate`, `JobFails` are `run`;
`ActivateAgain` is the second MakeActive. `Reload` is `reloadConfig`, `Restart` a
crash and a new start. Everything a refresher holds is known by its generation:
`SetStatus` on an old object is lost, `MakeActive` of an old element moves nothing
but still marks the first pool of the new list. Left out: alerts, telemetry, what
is inside the jobs, the physical mode (it never changes the pool).

### SnapshotRetention

`internal/retrieval/engine/postgres/snapshot/physical.go` and the snapshots of
`internal/provision/thinclones/zfs/zfs.go`, in one pool, with promotion enabled.

| Variable | In the code |
|---|---|
| `preSnap`, `unlabelled` | the datasets `pool@snapshot_k_pre`, and those of them that `zfs set` has not labelled |
| `preClone`, `taken` | the clones `clone_pre_k` and their snapshots, which the clients are offered |
| `data`, `label` | what state the data is in, and the property `dblab:datastateat` |
| `marker`, `dbMark` | the marker file and `p.dbMark`, one for all runs of the job |
| `job`, `cleaner` | the goroutines of cron: `run`, and `CleanupSnapshots` with the two lists it makes |
| `clone` | the clones of the clients |
| `source`, `next` | the source's data state, the next number |
| `overlapped`, `left` | history: jobs have been at work at once; the pre-snapshots whose job ended in a `zfs set` or a deferred `zfs destroy` that failed |

One step is one command, and each may fail (`Commands`). `CreatePreSnapshot` and
`LabelPreSnapshot` are the two commands of CreateSnapshot: when the second fails, run
returns before it has deferred DestroySnapshot (`physical.go:331-336`), and the
pre-snapshot stays. `UndoClone` and `UndoSnapshot` are the two deferred functions,
whose errors are only logged. `zfs destroy -R` takes along clones nothing runs on;
it fails on one with a container (`Held`), or for any other reason (fault
`destroy`), possibly after it has destroyed others (`DestroyFails`). `Position` is the
order of retention's list, in which what has no label is the last. The times in the
names are numbers that grow. Left out: the recovery configuration, what the
preprocessing does, the start and stop of the schedulers, and a crash of the server in
the middle of a job, which would leave a half-built pre-snapshot as a failure does.

### SnapshotBox

`internal/cloning/snapshots.go` with the operations of `base.go` that call it.

| Variable | In the code |
|---|---|
| `box` | `SnapshotBox`: items with their NumClones, latestSnapshot |
| `clone` | the wrappers, those of `Base.clones` and those that somebody still holds: ID, is it the one registered under the ID, has it a session, its snapshot |
| `op` | the operation a goroutine is in, and what a fetch has read and counted |
| `pool`, `taken` | the snapshots of the pools |
| `drifted` | history: the numbers may be wrong until the next undisturbed fetch |

A fetch (`Fetch`, `CountEntry` for each entry, `ResetSnapshots`) reads the
registry without its lock; `SetWrapper` and `CountClone`, `Delete` and `Uncount`,
`ResetSession`, `Replace` and `CountClone` change the registry and then the
number. A client may choose the ID (`CreateClone`), so two creations of one ID can
overlap, an ID is used again after a deletion, and an operation that holds a wrapper
can meet another one under its ID, or none (`Register`, `Start`, `Unregister`).
`Restart` is filterRunningClones after a fetch of an empty registry; creations go on
after it. The body of a status change or of a session command is in `Cloning` and `Provision`.

### Observation

`internal/observer`, the observation handlers of `internal/srv/routes.go` and
`runCommands` of `internal/runci/handlers.go`, for one clone.

| Variable | In the code |
|---|---|
| `clone`, `database`, `deletion`, `notice` | the clone's status, its Postgres, the goroutine of DestroyClone, its message in `observingCh` |
| `stored` | `Observer.storage` |
| `obs` | an ObservingClone: session set, where RunSession is, cancelled, the signal in `c.done`, summarised |
| `req` | the request of a client that is being served |
| `checker` | where runCommands is |

`StartConnect` to `StartInit` are startObservation, `Run...` RunSession,
`Stop...` stopObservation with ObservingClone.Stop in the middle; the deferred
function is `StopRestore`, reached on every path that returns. `CheckReply`
contains the deferred second stop. Left out: the content of the artifacts and of
the summary, uploads whose errors are only logged, and a second clone under the ID
of the deleted one.

## 4. The runs

Every run explores all reachable states of its instance.

| Run | Checks | Instance |
|---|---|---|
| `SerialSessionsAllFaults` | `SerialTypeOK`, `PortExclusive` | 3 ports of which one is occupied, 2 pools, 2 snapshots, 2 clones, 2 calls, every fault |
| `SerialSessionsCleanFailures` | `IsolatedClones`, `NoLeakedPort`, `FreePortIsClean`, `NoStrayDataset` | 2 pools, 3 snapshots; the faults that building a clone can meet |
| `CloningWaitingClients` | `CloningTypeOK`, `ReadyCloneWorks`, `NoOrphan`, `UsesProvisionSerially` | 2 IDs, 2 handlers, 2 calls, 2 pools, fault `run`; clients wait |
| `CloningOverlappingClients` | `NothingDangles`, `OperationsEnd` | 1 ID, creations, deletions, resets and observations that overlap freely |
| `CloningIdleCheck` | `NoOrphan`, `UnusedCloneIsDeleted` | 2 IDs, clients that create and protect, the idle check |
| `CloningDoubleDestroy` | `IndependentClones` is violated | idle check beside a waiting client |
| `CloneRecovery` | `RecoveryTypeOK`, `NothingLeftBehind`, `SettledClonesSurvive`, `RestoredPortsHeld` | 2 IDs, 2 ports, 2 pools, 1 call, 1 handler, any number of crashes, reboots and shutdowns, torn writes, fault `start` |
| `PoolRefresh` | `PoolRefreshTypeOK`, `StatusSettles`, `FrontIsNewest`, `ClonesKeepSnapshot`, `ServiceContinues`, `RefreshEnds` | 2 pools with or without data, Run and 2 ticks of cron, 1 client, a reload or a restart, every fault |
| `SnapshotRetention` | `RetentionTypeOK`, `ClonesKeepSnapshot`, `LabelMatchesData`, `NothingHalfBuilt`, `RetentionKeeps` | 2 jobs, retention with limit 3, 1 client, 4 snapshots of which jobs leave at most 1 behind, 2 data states, every fault |
| `SnapshotBox` | `SnapshotBoxTypeOK`, `CountsFollowRegistry` | 2 goroutines, 2 IDs, 2 wrappers, 2 snapshots, 2 resets between two restarts, any number of restarts |
| `Observation` | `ObservationTypeOK`, `SummaryOfWholeRun`, `SignalKept`, `ExportingIsServed`, `StopEnds`, `CheckEnds`, `RunnersEnd`, `UnusedCloneIsDeletedUnlessStuck` | the migration checker and 1 other client, 2 observations, every fault |
| `ObservationStuckStop` | `UnusedCloneIsDeleted` is violated | the checker alone, fault `report` |

Why the bounds are enough. A conflict over a port needs two clones, two calls
and one port that becomes free and is taken again; a third port, occupied by
another program, makes the allocation skip. Two pools are what a reset across
pools needs; a third snapshot makes a reset inside a pool and one across pools
possible in the same run. The conflicts over an ID need two handlers, and a
second wrapper for the ID. For a restart one call and one handler are enough:
what matters is where in an operation on one clone the crash comes, while
another clone is at rest or triggers a save. `MaxSaves` bounds the saves in
progress; a save writes the state it finds, so a second one adds nothing.

Two pools are the least with which a refresh leaves something to serve; a second
tick meets a running refresh or, in the window before its status is set,
overlaps with it; `MaxRefreshes` lets a refresh be followed by another one (the
pools start with data of their own), `MaxReloads` rebuilds the list once under a
refresher. Retention with `Limit` 3 destroys the oldest of four snapshots, and
with both jobs at work and nothing left behind at least one must stay, so
`RetentionKeeps` says something; `MaxLeft` lets one pre-snapshot be left behind,
beside which a second job succeeds, fails and cleans up, or is still at work
(the theorems hold for any number of them); with one client a snapshot is busy
or not. Two goroutines and two wrappers, with one ID or with two, are what a
drift of a counter needs; a second snapshot makes a reset move a clone. A second
observation replaces the first; two clients may stop the same one.

Symmetry is used only in runs that check safety and whose properties treat
the permuted values alike; ports, snapshots and data states are ordered and are
integers.

Deadlock is checked, except where the instance really may stop: `PoolRefresh`
(the first Run has failed, so no tick fires, and there is nothing to clone),
`Observation` and `ObservationStuckStop` (everything is over, or a stop waits for
ever while the clone is gone or EXPORTING; this is the subject of the properties).

### What the properties mean

* `PortExclusive`: two clones, or a clone and a start, never share a port.
* `IsolatedClones`: a clone shown as ready has its container up, on its own
  dataset, of the snapshot it was asked for.
* `IsolatedClones` and the next three are checked without the faults `destroy`
  and `rm`, with which they do not hold.
* `NoLeakedPort`, `FreePortIsClean`, `NoStrayDataset`: what a failed operation
  leaves. `NoLeakedPort` needs the pool lookup after the allocation to succeed:
  StartSession does not free the port if it fails (`mode_local.go:165`).
* `UsesProvisionSerially`: refinement of `SerialSessions` by `Cloning`.
* `ReadyCloneWorks`, `NoOrphan`: the registry and the machine agree.
* No property says that protection blocks deletion: the flag is read in
  `DestroyFind` and not again when the clone is marked as DELETING, so it can be set,
  by a second client or while the idle check is at work, and lost.
* `NothingDangles`: `base.go` looks up a wrapper under the lock and uses it, and
  its session, after the unlock; however requests overlap, what a handler or a
  goroutine still needs is there.
* `OperationsEnd`, `UnusedCloneIsDeleted`: liveness, the second of clones that are
  ready or whose start has failed.
* `SettledClonesSurvive`: an action property of the step that ends Run, about the
  clones the history variable names. A clone that was being reset, or that did
  not work, when the daemon went down is not claimed to survive, nor is anything
  after a torn write.
* `NothingLeftBehind`, `RestoredPortsHeld`: `NoOrphan` through crashes; the ports
  of the restored clones are busy.

* `ServiceContinues`: an action property of all the steps: once a client is
  offered a snapshot there always is one, unless a refresh fails or cron fires
  in the window in which the previous refresh has not yet set its status.
* `StatusSettles`, `FrontIsNewest`: what holds when no refresher is at work,
  however they ended, the first one also across reloads. `FrontIsNewest` excludes
  every overlap, also the one that `ServiceContinues` allows: a refresher that has
  set its status and not yet called MakeActive again. If the next tick completes a
  whole refresh there, the older pool comes to the front afterwards. It takes three
  refreshes in a row to see it (`MaxRefreshes = 3`); the proof found it.
* `ClonesKeepSnapshot` (of both modules): `zfs destroy -R` never reaches a running
  clone, in whatever order lists are made, commands run and clones start.
* `RefreshEnds`: no refresh leaves the status that makes cron skip the next one.
* `RetentionKeeps`: while retention destroys, at least `Limit` are left to clone,
  less one for each job and one for each pre-snapshot a job has left behind
  (`Leaked`). `NothingHalfBuilt`: at rest, a pre-snapshot without its snapshot is one
  whose `zfs set` or whose deferred `zfs destroy` has failed; no other failure leaves
  one, nor do two of them, a promotion that finds nothing new, or a retention that
  destroys the datasets of a job at work. `LabelMatchesData`: as long as jobs have not overlapped.
* `CountsFollowRegistry`: the number in the cache plus what is about to be added
  equals the registry plus what is about to be taken away, unless `drifted`, which
  is set by the cases that the comment of the property lists and by nothing else.
* `SummaryOfWholeRun`, `SignalKept`, `ExportingIsServed`: what the unlocked
  session, the one-place channel and the deferred status update rely on.
* `StopEnds`, `CheckEnds`, `RunnersEnd`: each wait ends, but for the three causes
  of `NeverSignals`: Init failed after the session was set; the runner met an
  error of the database; another stop has taken the signal.
* `UnusedCloneIsDeletedUnlessStuck`: the idle check deletes the clone unless such
  a stop has left it EXPORTING.

### Fairness

`Fairness` is weak fairness of the steps of each Provisioner goroutine and of
each handler in the middle of a request: the Go scheduler runs every goroutine
that can go on, and every shell command ends. Requests are not fair: nobody has
to send one. `ObserveReturn` is not fair either, because stopObservation waits
for the observing goroutine and for the Platform. `IdleFairness` adds strong
fairness of `IdleFound` for each ID (the timer fires again and again and each
time all clones are looked at, and users leave the clones alone) and weak
fairness of the deletion it starts.

`FairRefreshSpec` is weak fairness of each refresher's steps: jobs end, in success
or failure. Cron, signals and clients owe nothing. `FairObservationSpec` is weak
fairness of each handler, each runner, the checker, the idle check and the
deletion; other clients owe nothing, nor does the client that might delete the
clone.

### Findings

Each finding of PROJECT.json is a violation run:

* `CloningDoubleDestroy`: no check for DELETING before a deletion, so a second
  StopSession may take down the clone that has got the port.
* `ObservationStuckStop`: one failed request to the Platform makes the migration
  checker stop twice; the second stop never returns, the clone stays EXPORTING
  and is never deleted.

### Further behaviours the model shows

Each follows from one of the modules; some contradict a sentence of a document,
and the properties above carry the exception they need.

* A failed start whose `zfs destroy` fails too frees the port and leaves the
  dataset (`mode_local.go:172`, `zfs.go:178`); the next clone on that port runs on
  the old data and is shown as OK (README.md:46, "independent clones").
* The deferred OK of stopObservation (`routes.go:410`) shows a clone as ready
  whose reset has failed (pkg/models/status.go:27).
* A failed clone whose container is gone cannot be asked for its activity
  (`base.go:652`) and is never found idle (README.md:87).
* A crash while `sessions.json` is written (`storage.go:135`) makes the restart
  forget, and remove, every clone (README.md:90).
* With `ClientsWait = FALSE`, a clone destroyed while it is being created is
  forgotten, and what the start creates stays until the daemon restarts (which
  removes it: `RestartsCleanUp`). A crash
  during a reset, after the new container runs and before the save, restores the
  clone as OK with its old snapshot on the new data. A status that another clone's
  save has written while an operation was going on (RESETTING, DELETING) is
  restored, and nothing continues the operation. A save between FreePort and
  deleteClone keeps a deleted clone, and its port may belong to a new clone by
  the next save: both are restored, with the same port (with two calls, where the
  container of the new clone makes both pass the filter).
* A refresh that fails marks its pool as empty and does not move it. If it was
  the front pool and the other one has clones, the next tick finds no pool or,
  once they are gone, takes the only pool with data and destroys its snapshots
  (README.md:85, "full refresh won't require downtime").
* Two ticks overlap if the second fires after the first has looked at the status
  and before `run` sets it: both prepare pools, and the second cancels the first.
  They also overlap if the second fires after `run` has set the status to finished
  and before `fullRefresh` calls MakeActive again: that call then puts the pool of
  the first, older refresh in front of the pool of the second.
* A first Run that fails returns before setupScheduler: there is no scheduled
  refresh until the configuration is reloaded.
* The marker is written before the snapshot exists: a restart in between shows
  the pool as active, and puts it in front, with nothing to offer.
* A `zfs set` that fails after `zfs snapshot` leaves a pre-snapshot without a label
  (`zfs.go:297`, `physical.go:332`). Retention sorts it last and counts it for ever, so
  each one lowers by one what is kept for the clients.
* Retention counts pre-snapshots, unfinished ones included, so it may leave fewer
  than `Limit` snapshots to clone
  (`configs/config.example.physical_generic.yml:293`).
* `dbMark` is shared by overlapping jobs: a snapshot may be labelled with the
  state of another one's data.
* A protection that is set after `DestroyFind` and before `DestroyMark` is lost
  (`base.go:274`, `base.go:278`): the clone is deleted.
* Two overlapping creations of one ID are counted twice and registered once
  (`base.go:130`, `base.go:175`, `base.go:184`).
* The number of clones of a snapshot drifts in this case, and when a fetch counts
  while an operation is between the registry and the number; when a clone is
  destroyed twice, or the deletion finds another clone under its ID; when it is
  destroyed before it is counted (zero stays zero, and the count then ends one too
  high) or while it is reset; when two resets overlap; and after a restart that
  drops clones that do not run. The next undisturbed fetch puts it right.

## 5. The proofs

`SerialSessions_proofs` proves, for all values of the constants that satisfy
`ProvisionAssumption` and `SerialAssumption` (in particular for any set of
faults, any number of clones, calls, pools and ports):

* `SerialTypes`: `Spec => []SerialTypeOK`;
* `PortsAreExclusive`: `Spec => []PortExclusive`;
* `SerialInvariant`: `Spec => []IInv`, from which both follow.

`PortExclusive` is not inductive: a call could free a port it does not own. The
strengthening `IInv` adds what the code relies on without saying it:

* `CallInv`: what a call has in its registers at each step (a start has a port
  from the step after the allocation on; a stop or reset has the port of the
  session of its clone, which the caller leaves alone meanwhile);
* `OneCall`: at most one call per clone, the caller's discipline;
* `CloneInv`: a clone that is recorded has a session;
* `UsedPortsBusy`: a port held by a session or by a start is marked as busy. It
  is the link between the sessions and the port pool: `AllocatePort` takes only
  ports that are not busy, and `FreePort` frees the port of the one call that
  holds it.

`IInv` is preserved step by step: a lemma for each group of actions (`BuildInv`,
`TakeDownInv`, `AllocatePortInv`, `FreePortInv`, `SwitchPoolInv`, `InvokeInv`,
`CallerInv`, `ReturnInv`), gathered in `NextKept`. They keep two things apart:
`DisciplineInv` (the types, `CallInv`, `OneCall` and `CloneInv`) is preserved by
itself, and `PortInv` (`UsedPortsBusy` and `PortExclusive`) is if `DisciplineInv`
holds. After a restart only the first does (see `CloneRecovery_proofs`). The proofs
use only that the sets are those of the assumptions; nothing is assumed about how
many faults happen.

The same module proves what failed operations leave behind. Each theorem names the faults it excludes, because with them it is false (the runs show it);
all other faults may happen at any time.

* `NoPortLeaks`: `[]NoLeakedPort`, if the lookup of the pool does not fail:
  StartSession has not deferred revertSession yet when it makes it. `LeakInv` adds
  that a start without a port has not allocated one.
* `ClonesAreIsolated`, `FreePortsAreClean`, `NoDatasetStrays`, if clean-up commands
  succeed (`CleanUpWorks`: `docker rm` and `zfs destroy` do not fail). `FootprintInv`
  says for each step of each call what there is on its port: what is taken down
  already (`TakenDown`), what is built up (`BuiltUp`), in which pool a stop or a reset
  looks (`SessionPools`); and for each clone at rest that its dataset is in the pool
  of its session only. `OwnerAlone` is the lemma that makes it work: by
  `PortExclusive`, the port of a call is nobody else's, so a command disturbs what is
  said of no other call (`FootprintFrame`).
* `NextKeeps`, which is no theorem of its own but what `NoOrphan` of `Cloning` and
  `NothingLeftBehind` of `CloneRecovery` rest on: under the same condition each
  container and each dataset has somebody who will remove it (`KeptInv`), a session
  on its port whose StopSession, if there is one, has not come past that step
  (`Keeps`), or a start in progress in its pool that can still revert it (`Builds`). It follows from `DisciplineInv` alone, no port has to be
  exclusive, so it also holds of restored clones that share one.

`Cloning_proofs` proves, for any number of IDs, wrappers, handlers and calls,
whatever requests overlap,

* `CloningTypes`: `Spec => []CloningTypeOK`;
* `NoNilPointers`: `Spec => []NothingDangles`.

Both rest on `TypedInv`: a wrapper that the map, a handler or a call refers to exists
(`Keep` takes only what nobody refers to), and is under its own ID; each call has in
its registers what its next step needs (`Registers`), a stop or reset above all a
session, and each handler what it needs between two critical sections (`Locals`).
Types are not inductive without it: a handler that followed a pointer to nothing
would put nothing into the registers of a call. A status says nothing here, two calls
may work for a clone, and a lookup by ID may meet another wrapper than the caller
holds, so nothing of `WaitInv` below can be used.

Under `WaitingClients` it proves

* `CloningIsSerial`: `Spec => UsesProvisionSerially`, the refinement;
* `ReadyClonesWork` and `NothingIsOrphaned`: `[]ReadyCloneWorks` and `[]NoOrphan`, if
  clean-up commands succeed.

`WaitingClients` says that clients wait for a clone to settle, that observations are
not at work, and that the idle check, if it is at work, is the only one that deletes
clones and nobody resets them, as in the run `CloningIdleCheck`. The idle check and
observations do not look whether an operation is in progress: when a client deletes
a clone too, two calls work for it (the finding `CloningDoubleDestroy`), and the
deferred OK of stopObservation shows a clone as ready that is not. Creations need no
such exclusion: `isIdleClone` skips a clone that is being created, since it has no
session and has not failed (`IdleAlone`). A change of the protection does not look
for the idle check either, and disturbs nothing but the protection itself: a clone
that becomes protected when the idle check has looked is deleted all the same
(`IdleFound`, `DestroyFind`, `UpdateClone`, `DestroyMark`). `NoOrphan` follows from `WaitInv` and `KeptInv` (`KeptServed`). The
invariant `WaitInv` is what waiting gives: a wrapper exists exactly as
long as it is registered, under its ID, and has a session when it is OK
(`RegistryInv`); the status of a clone names the call that works for it (`CallsInv`);
what a handler has found between two of its critical sections is still there, not
protected (unless the handler is the idle check), marked as deleted, with a session,
as it needs it (`HandlersInv`); one
request or one call works for an ID (`OneAgent`). So a lookup by ID meets the wrapper
the handler holds, and `Keep` removes nothing but a deleted clone: the `...Effect`
lemmas say what each critical section does in such a state. The step simulation
(`StepIsSerial`) maps `CreateSet` to `Start`, `StartDone`, `StopDone` and `ResetDone` to
`Return`, `DestroyMark` to `Withdraw`, `DestroyGo` to `Stop`, `ResetMark` to `Reset`, a
step of the Provisioner to itself, and every arrival of a request to a stutter; so do
`DestroyMark` and `DestroyGo` for a clone without a session. The invariants of
`SerialSessions` are thereby available in `Cloning`, and `WaitInv` needs them: the two
are proved together, as `IInv` of the instance holds in every state of the mapping.
`SameSteps` shows that the steps of the Provisioner are the same in the instance that
carries the proofs (`SP`) and in the one the run checks (`Serial`).
`RecordsAssumption` is that `nil` is no record and no status.

`CloneRecovery_proofs` proves, for any number of crashes, reboots and shutdowns at any
step, torn writes or not, and whatever the clients do,

* `RecoveryTypes`: `[]RecoveryTypeOK`;
* `PortsAreHeldAgain`: `RestoredPortsHeld`;
* `ClonesSurvive`: `SettledClonesSurvive`, if the snapshots can be listed. With the
  fault `snapshot` a restart may find none (`base.go:81` only logs it), and the filter
  then drops every clone.
* `RestartsCleanUp`: `RestartCleansUp`, when Run has ended every container and
  dataset belongs to a clone of the registry, whatever failed or overlapped before;
* `NothingStaysBehind`: `[]NothingLeftBehind`, under `WaitingClients` and if clean-up
  commands succeed.

`RecoveryInv` says that the wrappers of the file have the ID they are saved under
(`FileInv`), that the daemon at rest is in a state of the proofs about `Cloning`
(`TypedInv`), and that while it comes up nobody else is at work (`Quiet`) on a registry
whose wrappers exist exactly as long as they are registered, under their IDs
(`KnownInv`). `QuietTyped` is the lemma that joins the two: a registry that nobody works
on satisfies the cloning invariant whatever statuses were saved. `ClonesSurvive`
needs two more invariants: `UpFree` (no container is up on a port another program
listens on, so a restart of a container finds its port) and `SettledInv`, which says for
each phase of Run where a clone of `settled` is on its way (`Surviving`): in the file,
then in the registry, then with its container up and its dataset in its pool.
`RestartsCleanUp` needs `SweptInv`: each pool that StopAllSessions has been through
holds only what has the name of a registered clone (`Swept`), and a container always
has a pool that it comes to. `NothingStaysBehind` is about the service at work, too. Its `PatientInv` adds to
`RecoveryInv` that a clone shown as OK has a session, in the file and in the registry,
so that what Run starts satisfies `WaitInv` and `SP!DisciplineInv` (`QuietInv`). It is
not a service that `SerialSessions` could have reached: two saved clones may have the
same port, so `PortInv` is lost, and with it what the isolation of clones rests on. And
its `LeftInv` says that datasets of one name are in one pool only (`MachineInv`), whatever
was interrupted, and that the service, which starts when all pools are swept, preserves
`KeptInv`. `RecoveryAssumption` adds to the types of the two constants that what cannot be decoded
is no saved state, and nil no entry of one.

`SnapshotBox_proofs` proves `BoxTypes` (a counter never goes below zero) and
`CountsAreRight` (`CountsFollowRegistry`), for any number of goroutines, IDs, wrappers,
snapshots, resets and restarts. `BoxInv` adds that one wrapper at most is registered
under an ID (`OneEntry`), that the goroutine that creates a clone is alone with its
wrapper until that is registered, whoever else creates the same ID, that a clone
leaves the registry before it is counted down, and that a fetch which nothing has
disturbed has counted what the registry holds (`FetchCounts`), which is the step from
one number at a time to the whole list.

`FiniteFacts` holds what these proofs and the next need about finite sets: that sets
of integers have a greatest element, cardinalities of sets with one element more or
less, and an induction over numbers stated with a set instead of a predicate.

`PoolRefresh_proofs` proves `PoolTypes`, `RunningClonesKeepSnapshots`,
`StatusesSettle`, `HeadHasNewest` and `ServiceGoesOn`, for any number of pools, ticks
and clones and any bounds. What the lists are is proved first: MakeActive and a
rebuilt list are lists of all the pools (`MovedToFront`, `DiscoveredNewest`), and the
rebuilt list begins with the newest data. `PoolInv` is the conjunction of

* `RefInv`: types; a refresher works on a pool, and knows no list or object that has
  not been made yet;
* `VersionsSuffice`: the number of versions of the data left is enough for the
  refreshers that have still to restore one, so the bound never blocks a refresh;
* `ClonesHold`: the snapshot that the dataset of a clone, made or running, depends
  on is there;
* `MarkedHeld`: each pool marked as refreshing in the current list has a refresher
  that will take the mark away;
* `Orderly`: without failures, reloads and overlaps, one refresher at most is at
  work, and the list has the newest data in front unless it is about to put it there.

`ServiceGoesOn` needs `ServeInv` on top: in a smooth run (no failure and no tick
during preparation) one refresher at most is in the part where its pool has no
snapshots, clones are in pools that offer some, and the head of the list or another
pool offers a snapshot. It assumes two pools or more (`SeveralPools`): with one pool
a refresh takes the only one, and there is a downtime. The document that promises
none (README.md:85) says that several pools are needed for it.

`SnapshotRetention_proofs` proves `RetentionTypes`, `RunningClonesKeepSnapshots`,
`LabelsMatchData`, `NothingIsHalfBuilt` and `RetentionLeavesEnough` from
`RetentionAssumption`, for any number of jobs, clones and faults. Their conjunction is not inductive; the
strengthening `RetentionInv` adds that a snapshot's number is below `next`
(`Older`), that clones, started or not, have their snapshot (`ClonesHaveSnapshot`),
that each dataset without a snapshot has a job that owns it or was left by one (`Owned`), and, until
jobs have overlapped, that one at most is at work (`Single`) and that the mark is
that of its data from the promotion on (`Marked`); only a snapshot has a label
(`Unlabelled`). Each action has a lemma of its own;
`DestroyAllStored` and `DestroyFailsStored` gather what `zfs destroy -R` does for
the three callers. `RetentionLeavesEnough` (`RetentionKeeps`) counts: when the list of
old snapshots is made, the greatest of them has `Limit` newer pre-snapshots, of which
every job may have one that has no snapshot yet or that it may still undo
(`OneEach`). The rest are `Spare`, settled and not on the list, and no later step
takes one away (`KeepInv`); each of them is a snapshot the clients are offered or was left
by a job (`Leaked`).

`Observation_proofs` proves `ObservationTypes`, `SummariesFollowRuns`,
`SignalsAreKept` and `ExportingClonesAreServed` from `ObservationAssumption`, for
any number of clients. Its invariant `SummaryInv` adds that a signal, a summary and
a handler in the middle of one exclude each other and each imply that the runner
has ended (`SignalAtEnd`, `SummarizesAlone`, `FinishedAtEnd`), that a handler uses
an observing clone that has been made and starts one that no other handler starts
(`UsesMade`, `Blank`, `StartsAlone`), and in which phases the checker is inside a
request (`CheckerWaits`).

Only model-checked: all liveness, `RefreshEnds` of `PoolRefresh`, `StopEnds`, `CheckEnds` and
`RunnersEnd` of `Observation`, `OperationsEnd` and `UnusedCloneIsDeleted` of `Cloning`
among them: fairness and ENABLED are out of the prover's reach. No module declares a RECURSIVE operator; `Examined` of
`PoolRefresh` is a recursive function.

## 6. What is not modelled

See `components` in PROJECT.json. LVM, the CLI, the Platform client, telemetry,
port forwarding, the embedded UI, networks, configuration parsing and the
generated UI bundles are I/O, glue or generated code and are left out for good;
the estimator, the inside of the logical and physical jobs and the wait loop of
`postgres.Start` are on the plan of section 2. The Go memory model is not
modelled: a read of the map of clones without the lock is atomic for one entry
here (`SnapshotBox` splits the walk over the entries of the snapshot list), in the
program it is a data race that may stop the process.
