----------------------------- MODULE PoolRefresh -----------------------------
(***************************************************************************)
(* The list of storage pools (internal/provision/pool/pool_manager.go) and *)
(* the retrieval service that refreshes them in the logical mode           *)
(* (internal/retrieval/retrieval.go), with the clients that create and     *)
(* destroy clones meanwhile, a SIGHUP that rebuilds the list and a restart *)
(* of the engine.                                                          *)
(*                                                                         *)
(* A refresher is a goroutine: Main executes Run once, each member of      *)
(* Ticks executes fullRefresh whenever cron fires.  ReloadPools builds new *)
(* Pool objects and a new list, so an object or a list element is known by *)
(* the generation of the list it belongs to: what a refresher does to an   *)
(* old one is lost.                                                        *)
(*                                                                         *)
(* Data is as old as the number of its refresh.  The jobs are three steps: *)
(* restore, which ends with the data state marker, the snapshot, which is  *)
(* the last job, and the return of run.                                    *)
(***************************************************************************)
EXTENDS Integers, Sequences, FiniteSets, SequencesExt

CONSTANTS
  Pools,
  Entries,      \* the pools in the order of os.ReadDir
  Main,         \* the goroutine that executes Run
  Ticks,        \* goroutines of cron that execute fullRefresh
  Clones,
  None,         \* nil
  Faults,       \* what may fail: "prepare", "job", "crash"
  MaxRefreshes, \* bound: no tick fires after so many refreshes
  MaxReloads    \* bound: reloads of the list, restarts included

Refreshers == {Main} \cup Ticks

ASSUME PoolRefreshAssumption ==
  /\ Entries \in Seq(Pools) /\ ToSet(Entries) = Pools /\ Len(Entries) = Cardinality(Pools)
  /\ Pools # {}
  /\ IsFiniteSet(Ticks) /\ Main \notin Ticks
  /\ None \notin Pools \cup Refreshers
  /\ Faults \subseteq {"prepare", "job", "crash"}
  /\ MaxRefreshes \in Nat /\ MaxReloads \in Nat

VARIABLES
  order,      \* fsManagerList: the pools, the active one first
  poolStatus, \* Pool.status of the current objects
  gen,        \* how many times the list has been built
  marker,     \* data state in the marker file of a pool's data directory, 0: none
  snaps,      \* the snapshots of a pool, by the state of their data
  latest,     \* the newest data ever restored
  retrieval,  \* State.Status of the retrieval service
  lock,       \* retrieveMutex
  ctx,        \* the refresher whose context r.ctxCancel would cancel
  scheduled,  \* is cron running?
  ref,        \* where a refresher is, and its locals
  clone,      \* the clones of the clients
  failed,     \* history: some refresh has not succeeded since it destroyed data
  disturbed,  \* history: the list was rebuilt while a refresher was at work
  overlapped  \* history: cron fired while another refresher was still preparing,
              \* or was finishing

poolVars == <<order, poolStatus, gen>>
diskVars == <<marker, snaps, latest>>
serviceVars == <<retrieval, lock, ctx, scheduled>>
history == <<failed, disturbed, overlapped>>
timing == <<disturbed, overlapped>>
refreshVars == <<poolVars, diskVars, serviceVars, ref, clone, history>>

-----------------------------------------------------------------------------
(* States *)

PoolStatuses == {"active", "refreshing", "empty"}
RetrievalStatuses == {"inactive", "refreshing", "finished", "failed"}
MaxScheduled == MaxRefreshes + Cardinality(Pools)
Versions == 1 .. (MaxScheduled + MaxReloads + Cardinality(Ticks) + 1)

\* Where a refresher is: "prepare" .. "lock" is before State.Status is set.
Preparing == {"prepare", "destroy", "run", "lock"}
Working == Preparing \cup {"restore", "snapshot", "activate", "activate again"}

\* pool: the chosen FSManager; obj and elem: the generation of its Pool
\* object and of the list element that run found by name.
AtRest == [at |-> "idle", pool |-> None, obj |-> 0, elem |-> 0]
NoClone == [at |-> "none", pool |-> None, snap |-> 0]

PoolRefreshTypeOK ==
  /\ order \in Seq(Pools) /\ ToSet(order) = Pools /\ Len(order) = Cardinality(Pools)
  /\ poolStatus \in [Pools -> PoolStatuses]
  /\ gen \in Nat
  /\ marker \in [Pools -> Versions \cup {0}]
  /\ snaps \in [Pools -> SUBSET Versions]
  /\ latest \in Versions \cup {0}
  /\ retrieval \in RetrievalStatuses
  /\ lock \in Refreshers \cup {None}
  /\ ctx \in Refreshers \cup {None}
  /\ scheduled \in BOOLEAN
  /\ ref \in [Refreshers -> [at : Working \cup {"start", "idle", "ended"},
                             pool : Pools \cup {None}, obj : Nat, elem : Nat]]
  /\ clone \in [Clones -> [at : {"none", "chosen", "dataset", "running"},
                           pool : Pools \cup {None}, snap : Versions \cup {0}]]
  /\ failed \in BOOLEAN /\ disturbed \in BOOLEAN /\ overlapped \subseteq {"preparing", "finishing"}

\* ListClonesNames: the clones whose dataset is in the pool.
ClonesIn(p) == {c \in Clones : clone[c].pool = p /\ clone[c].at \in {"dataset", "running"}}

\* What Provisioner.GetSnapshots offers to the clients.
Offered == {o \in Pools \X Versions : poolStatus[o[1]] = "active" /\ o[2] \in snaps[o[1]]}

At(r, step) == ref[r].at = step
GoTo(r, step) == ref' = [ref EXCEPT ![r].at = step]
Finishing(r) == ref' = [ref EXCEPT ![r] = [AtRest EXCEPT !.at = IF r = Main THEN "ended" ELSE "idle"]]
Busy == \E r \in Refreshers : ref[r].at \in Working

-----------------------------------------------------------------------------
(* Pool manager *)

\* Mutants of the next definition: the old element stays, or nothing moves.
CopyToFront(p, list) == <<p>> \o list
LeaveInPlace(p, list) == list

\* list.MoveToFront
MoveToFront(p, list) ==
  LET place == CHOOSE i \in DOMAIN list : list[i] = p
  IN [i \in DOMAIN list |->
        IF i = 1 THEN p ELSE IF i <= place THEN list[i - 1] ELSE list[i]]

\* examineEntries: the first entry, and each one with newer data than the
\* head of the list, comes first; the others follow at the back.
Examine(list, p) ==
  IF list = <<>> \/ marker[Head(list)] < marker[p] THEN <<p>> \o list ELSE Append(list, p)

\* The list after the first n entries.
Examined[n \in 0 .. Len(Entries)] ==
  IF n = 0 THEN <<>> ELSE Examine(Examined[n - 1], Entries[n])

Discovered == Examined[Len(Entries)]

\* ReloadPools: the status of a new object is that of the marker.
ReloadPools ==
  /\ order' = Discovered
  /\ poolStatus' = [p \in Pools |-> IF marker[p] > 0 THEN "active" ELSE "empty"]
  /\ gen' = gen + 1

\* Mutant of GetPoolToUpdate: the walk starts at the front.
PoolToUpdateFromFront ==
  LET unused == {i \in DOMAIN order : ClonesIn(order[i]) = {}}
  IN IF unused = {} THEN None ELSE order[Min(unused)]

\* GetPoolToUpdate: from the back of the list, the first pool without clones.
PoolToUpdate ==
  LET unused == {i \in DOMAIN order : ClonesIn(order[i]) = {}}
  IN IF unused = {} THEN None ELSE order[Max(unused)]

\* Mutant of the next definition: a failure leaves the status as it is.
SetStatusUnlessEmpty(r, status) ==
  poolStatus' = IF ref[r].obj = gen /\ status # "empty"
                  THEN [poolStatus EXCEPT ![ref[r].pool] = status] ELSE poolStatus

\* SetStatus on the object that the refresher holds.
SetStatus(r, status) ==
  poolStatus' = IF ref[r].obj = gen THEN [poolStatus EXCEPT ![ref[r].pool] = status] ELSE poolStatus

\* MakeActive(element): an element of an old list is not moved, but the
\* first pool becomes active all the same.
MakeActive(r, elemGen) ==
  /\ order' = IF elemGen = gen THEN MoveToFront(ref[r].pool, order) ELSE order
  /\ poolStatus' = [poolStatus EXCEPT ![Head(order')] = "active"]

-----------------------------------------------------------------------------
(* Run and fullRefresh *)

\* Run: getPoolToDataRetrieving.
Run ==
  /\ At(Main, "start")
  /\ ctx' = Main
  /\ LET first == Head(order)
         chosen == IF poolStatus[first] = "empty" THEN first ELSE PoolToUpdate
     IN IF chosen # None
          THEN /\ ref' = [ref EXCEPT ![Main] = [at |-> "run", pool |-> chosen, obj |-> gen, elem |-> 0]]
               /\ UNCHANGED <<retrieval, scheduled>>
          ELSE \* the first pool is active: skip the refresh
               /\ Finishing(Main)
               /\ retrieval' = "finished"
               /\ scheduled' = TRUE
  /\ UNCHANGED <<poolVars, diskVars, lock, clone, history>>

\* fullRefresh up to the choice of the pool; it is skipped when another
\* refresh is running or when every pool has clones.
FullRefresh(t) ==
  /\ At(t, "idle") /\ scheduled
  /\ retrieval # "refreshing"
  /\ latest < MaxScheduled
  /\ ctx' = t
  /\ LET others == {r \in Refreshers : ref[r].at \in Working \cup {"start"}}
     IN overlapped' = overlapped \cup
          {IF At(r, "activate again") THEN "finishing" ELSE "preparing" : r \in others}
  /\ ref' = IF PoolToUpdate = None THEN ref
              ELSE [ref EXCEPT ![t] = [at |-> "prepare", pool |-> PoolToUpdate, obj |-> gen, elem |-> gen]]
  /\ UNCHANGED <<poolVars, diskVars, retrieval, lock, scheduled, clone, failed, disturbed>>

\* preparePoolToRefresh, the check of the clones.
CheckClones(t) ==
  /\ At(t, "prepare")
  /\ IF ClonesIn(ref[t].pool) # {} THEN Finishing(t) ELSE GoTo(t, "destroy")
  /\ UNCHANGED <<poolVars, diskVars, serviceVars, clone, history>>

\* Mutant of the next definition: `zfs destroy -Rf`.
HeldForced(p, s) == FALSE

\* `zfs destroy -R` without -f fails while a container runs on a clone.
Held(p, s) == \E c \in Clones : clone[c].pool = p /\ clone[c].snap = s /\ clone[c].at = "running"

\* preparePoolToRefresh, `zfs destroy -R` of one snapshot, which takes the
\* clones along.
DestroySnapshot(t) ==
  /\ At(t, "destroy")
  /\ LET p == ref[t].pool
         On(s) == {c \in Clones : clone[c].pool = p /\ clone[c].snap = s}
     IN \E s \in snaps[p] :
          \/ /\ ~ Held(p, s)
             /\ snaps' = [snaps EXCEPT ![p] = @ \ {s}]
             /\ clone' = [c \in Clones |-> IF c \in On(s) /\ clone[c].at = "dataset"
                                             THEN NoClone ELSE clone[c]]
             /\ UNCHANGED <<ref, failed>>
          \/ /\ Held(p, s) \/ "prepare" \in Faults
             /\ Finishing(t)
             /\ failed' = TRUE
             /\ UNCHANGED <<snaps, clone>>
  /\ UNCHANGED <<poolVars, marker, latest, serviceVars, timing>>

\* preparePoolToRefresh returns, then CleanUpControlContainers, which a
\* cancelled context makes fail.
CleanUpControlContainers(t) ==
  /\ At(t, "destroy") /\ snaps[ref[t].pool] = {}
  /\ \/ GoTo(t, "run") /\ failed' = failed
     \/ ("prepare" \in Faults \/ ctx # t) /\ Finishing(t) /\ failed' = TRUE
  /\ UNCHANGED <<poolVars, diskVars, serviceVars, clone, timing>>

\* run up to the lock: the configuration and the checks of the pool may fail,
\* then the pool is marked before the lock is taken.
BeginRun(r) ==
  /\ At(r, "run")
  /\ \/ /\ ref' = [ref EXCEPT ![r].at = "lock", ![r].elem = gen]
        /\ SetStatus(r, "refreshing")
        /\ failed' = failed
     \/ /\ "prepare" \in Faults
        /\ Finishing(r)
        /\ failed' = TRUE
        /\ UNCHANGED poolStatus
  /\ UNCHANGED <<order, gen, diskVars, serviceVars, clone, timing>>

\* retrieveMutex.Lock
Lock(r) ==
  /\ At(r, "lock") /\ lock = None
  /\ lock' = r
  /\ retrieval' = "refreshing"
  /\ GoTo(r, "restore")
  /\ UNCHANGED <<poolVars, diskVars, ctx, scheduled, clone, history>>

\* Mutant of the next definition: a failure does not reset the status.
DeferredOnSuccess(outcome) ==
  /\ retrieval' = IF outcome = "failed" THEN retrieval ELSE outcome
  /\ lock' = None

\* The deferred function of run.
Deferred(outcome) ==
  /\ retrieval' = outcome
  /\ lock' = None

\* A job returns an error.
JobFails(r) ==
  /\ ref[r].at \in {"restore", "snapshot"}
  /\ "job" \in Faults \/ ctx # r
  /\ Deferred("failed")
  /\ SetStatus(r, "empty")
  /\ Finishing(r)
  /\ failed' = TRUE
  /\ UNCHANGED <<order, gen, diskVars, ctx, scheduled, clone, timing>>

\* The dump and restore jobs: the data directory is rewritten, then marked.
Restore(r) ==
  /\ At(r, "restore")
  /\ latest' = latest + 1
  /\ marker' = [marker EXCEPT ![ref[r].pool] = latest']
  /\ GoTo(r, "snapshot")
  /\ UNCHANGED <<poolVars, snaps, serviceVars, clone, history>>

\* LogicalInitial.Run: the snapshot of what the marker says.
TakeSnapshot(r) ==
  /\ At(r, "snapshot")
  /\ snaps' = [snaps EXCEPT ![ref[r].pool] = @ \cup {marker[ref[r].pool]}]
  /\ GoTo(r, "activate")
  /\ UNCHANGED <<poolVars, marker, latest, serviceVars, clone, history>>

\* run after the jobs: MakeActive(poolByName), then the deferred function; Run
\* goes on to set up the scheduler.
Activate(r) ==
  /\ At(r, "activate")
  /\ MakeActive(r, ref[r].elem)
  /\ Deferred("finished")
  /\ IF r = Main THEN Finishing(r) /\ scheduled' = TRUE
                 ELSE GoTo(r, "activate again") /\ UNCHANGED scheduled
  /\ UNCHANGED <<gen, diskVars, ctx, clone, history>>

\* fullRefresh after run: MakeActive(elementToUpdate).
ActivateAgain(t) ==
  /\ At(t, "activate again")
  /\ MakeActive(t, ref[t].obj)
  /\ Finishing(t)
  /\ UNCHANGED <<gen, diskVars, serviceVars, clone, history>>

RefreshStep(r) ==
  \/ BeginRun(r) \/ Lock(r) \/ JobFails(r) \/ Restore(r) \/ TakeSnapshot(r)
  \/ Activate(r)

PrepareStep(t) ==
  \/ CheckClones(t) \/ DestroySnapshot(t)
  \/ CleanUpControlContainers(t) \/ ActivateAgain(t)

-----------------------------------------------------------------------------
(* Reload and restart *)

\* reloadConfig on SIGHUP: a new list of pools and a new scheduler.
Reload ==
  /\ gen < MaxReloads
  /\ ReloadPools
  /\ scheduled' = TRUE
  /\ disturbed' = (disturbed \/ Busy)
  /\ UNCHANGED <<diskVars, retrieval, lock, ctx, ref, clone, failed, overlapped>>

\* The engine is killed and started again; the clones that run are restored.
Restart ==
  /\ "crash" \in Faults /\ gen < MaxReloads
  /\ ReloadPools
  /\ retrieval' = "inactive"
  /\ lock' = None
  /\ ctx' = None
  /\ scheduled' = FALSE
  /\ ref' = [r \in Refreshers |-> IF r = Main THEN [AtRest EXCEPT !.at = "start"] ELSE AtRest]
  /\ clone' = [c \in Clones |-> IF clone[c].at = "running" THEN clone[c] ELSE NoClone]
  /\ failed' = (failed \/ Busy)
  /\ UNCHANGED <<diskVars, timing>>

-----------------------------------------------------------------------------
(* Clients: StartSession finds the snapshot in an active pool, then runs   *)
(* `zfs clone`, then starts the container.                                 *)

ChooseSnapshot(c) ==
  /\ clone[c].at = "none"
  /\ \E o \in Offered : clone' = [clone EXCEPT ![c] = [at |-> "chosen", pool |-> o[1], snap |-> o[2]]]
  /\ UNCHANGED <<poolVars, diskVars, serviceVars, ref, history>>

CreateClone(c) ==
  /\ clone[c].at = "chosen"
  /\ clone' = [clone EXCEPT ![c] = IF @.snap \in snaps[@.pool] THEN [@ EXCEPT !.at = "dataset"]
                                                              ELSE NoClone]
  /\ UNCHANGED <<poolVars, diskVars, serviceVars, ref, history>>

StartContainer(c) ==
  /\ clone[c].at = "dataset"
  /\ clone' = [clone EXCEPT ![c].at = "running"]
  /\ UNCHANGED <<poolVars, diskVars, serviceVars, ref, history>>

DestroyClone(c) ==
  /\ clone[c].at = "running"
  /\ clone' = [clone EXCEPT ![c] = NoClone]
  /\ UNCHANGED <<poolVars, diskVars, serviceVars, ref, history>>

ClientStep(c) == ChooseSnapshot(c) \/ CreateClone(c) \/ StartContainer(c) \/ DestroyClone(c)

-----------------------------------------------------------------------------
(* Specification *)

\* An engine that starts over pools some of which hold data already, the
\* later entries the newer data.
Init ==
  /\ \E held \in SUBSET DOMAIN Entries :
       /\ marker = [p \in Pools |-> IF \E i \in held : Entries[i] = p
                                     THEN CHOOSE i \in held : Entries[i] = p ELSE 0]
       /\ snaps = [p \in Pools |-> {marker[p]} \ {0}]
  /\ order = Discovered
  /\ poolStatus = [p \in Pools |-> IF marker[p] > 0 THEN "active" ELSE "empty"]
  /\ gen = 0
  /\ latest = Cardinality(Pools)
  /\ retrieval = "inactive" /\ lock = None /\ ctx = None /\ scheduled = FALSE
  /\ ref = [r \in Refreshers |-> IF r = Main THEN [AtRest EXCEPT !.at = "start"] ELSE AtRest]
  /\ clone = [c \in Clones |-> NoClone]
  /\ failed = FALSE /\ disturbed = FALSE /\ overlapped = {}

Next ==
  \/ Run
  \/ \E r \in Refreshers : RefreshStep(r)
  \/ \E t \in Ticks : FullRefresh(t) \/ PrepareStep(t)
  \/ Reload \/ Restart
  \/ \E c \in Clones : ClientStep(c)

RefreshSpec == Init /\ [][Next]_refreshVars

\* Goroutines are scheduled and the jobs end; clients, cron and signals owe
\* nothing.
FairRefreshSpec ==
  /\ RefreshSpec
  /\ WF_refreshVars(Run)
  /\ \A r \in Refreshers : WF_refreshVars(RefreshStep(r))
  /\ \A t \in Ticks : WF_refreshVars(PrepareStep(t))

-----------------------------------------------------------------------------
(* Properties *)

\* README.md: "full refresh won't require downtime".  Once the clients are
\* offered a snapshot they always are: with two pools, a refresh that does not
\* fail never takes the last one, whoever has clones where and whenever the
\* list of pools is rebuilt.
ServiceContinues == [][Offered # {} /\ ~ failed' /\ "preparing" \notin overlapped' => Offered' # {}]_refreshVars

\* No pool is left marked as refreshing after the refreshers are done, however
\* they ended and whatever list the marked object belonged to: such a pool
\* would never offer its snapshots again.
StatusSettles ==
  (\A r \in Refreshers : ref[r].at \in {"idle", "ended"}) => \A p \in Pools : poolStatus[p] # "refreshing"

\* The head of the list, whose image and data directory the rest of the engine
\* uses, is the pool with the newest data, unless a refresh failed, was
\* disturbed by a reload or overlapped with another one: a refresher between
\* its two MakeActive puts its pool before the newer one of the next refresh.
FrontIsNewest ==
  (~ failed /\ ~ disturbed /\ overlapped = {} /\ ~ Busy) => \A p \in Pools : marker[p] <= marker[Head(order)]

\* A running clone never loses the snapshot it depends on to a refresh.
ClonesKeepSnapshot ==
  \A c \in Clones : clone[c].at = "running" => clone[c].snap \in snaps[clone[c].pool]

\* A refresh that has begun ends, and cron may start the next one: the status
\* it checks does not stay at refreshing.
RefreshEnds == retrieval = "refreshing" ~> retrieval # "refreshing"

=============================================================================
