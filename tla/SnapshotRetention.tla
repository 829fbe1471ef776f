-------------------------- MODULE SnapshotRetention --------------------------
(***************************************************************************)
(* The snapshots of one ZFS pool in the physical mode: the job that takes  *)
(* them (snapshot/physical.go, run), the retention job that destroys old   *)
(* ones (zfs.go, CleanupSnapshots) and the clients whose clones depend on  *)
(* them.  Cron starts each job in a goroutine of its own, whether or not   *)
(* the previous one has ended.                                             *)
(*                                                                         *)
(* Snapshot k is three datasets: the pre-snapshot pool@snapshot_k_pre, its *)
(* clone pool/clone_pre_k, in which the data is promoted, and the snapshot *)
(* of that clone, the only one the clients are offered.  The number of a   *)
(* snapshot stands for the time in its name, by which retention sorts; a   *)
(* data state is the number of source states seen so far.                  *)
(***************************************************************************)
EXTENDS Integers, FiniteSets

CONSTANTS
  Jobs,         \* goroutines of cron that execute run
  Clones,       \* clones of the clients
  Limit,        \* options.Scheduler.Retention.Limit
  Faults,       \* what may fail, a subset of the next definition
  MaxSnapshots, \* bound: pre-snapshots ever taken
  MaxLeft,      \* bound: those that jobs leave behind
  MaxState      \* bound: data states of the source

\* The commands of a job that may fail: `zfs snapshot` and `zfs set` of the
\* pre-snapshot, the clone with its chown, the promotion, the preprocessing script or
\* the marker file, `zfs set` of the snapshot, and any `zfs destroy`.
Commands == {"snapshot", "set", "clone", "promote", "mark", "label", "destroy"}

ASSUME RetentionAssumption ==
  /\ IsFiniteSet(Jobs) /\ IsFiniteSet(Clones)
  /\ Limit \in Nat
  /\ Faults \subseteq Commands
  /\ MaxSnapshots \in Nat /\ MaxLeft \in Nat /\ MaxState \in Nat \ {0}

VARIABLES
  source,     \* the data state of the sync instance
  next,       \* the number of the next pre-snapshot
  preSnap,    \* pre-snapshots that exist
  unlabelled, \* those without dblab:datastateat
  preClone,   \* those whose clone exists
  taken,      \* those whose clone has a snapshot
  data,       \* the data state in a pre-snapshot
  label,      \* dblab:datastateat of the snapshot, 0: not set
  marker,     \* the data state in the marker file of the pool
  dbMark,     \* p.dbMark.DataStateAt, one for all the jobs
  job,        \* where a job is, and its pre-snapshot
  cleaner,    \* the retention job: where it is, what it found
  clone,      \* the clones of the clients
  overlapped, \* history: two jobs have been at work at once
  left        \* history: pre-snapshots whose job ended in a command that failed

zfsVars == <<preSnap, unlabelled, preClone, taken, label, data>>
markVars == <<marker, dbMark>>
history == <<overlapped, left>>
retentionVars == <<source, next, zfsVars, markVars, job, cleaner, clone, history>>

-----------------------------------------------------------------------------
(* States *)

Numbers == 1 .. MaxSnapshots
States == 1 .. MaxState

NoJob == [at |-> "idle", snap |-> 0]
NoClean == [at |-> "idle", busy |-> {}, old |-> {}]
NoClone == [at |-> "none", snap |-> 0]

JobSteps ==
  {"idle", "snapshot", "set", "clone", "promote", "mark", "take", "undo clone", "undo snapshot"}

JobRecords == [at : JobSteps, snap : Numbers \cup {0}]
CleanerRecords ==
  [at : {"idle", "list", "destroy"}, busy : SUBSET Numbers, old : SUBSET Numbers]
CloneRecords == [at : {"none", "dataset", "running"}, snap : Numbers \cup {0}]

RetentionTypeOK ==
  /\ source \in States /\ next \in 1 .. MaxSnapshots + 1
  /\ preSnap \subseteq Numbers /\ unlabelled \subseteq preSnap
  /\ preClone \subseteq preSnap /\ taken \subseteq preClone
  /\ data \in [Numbers -> States \cup {0}]
  /\ label \in [Numbers -> States \cup {0}]
  /\ marker \in States \cup {0} /\ dbMark \in States \cup {0}
  /\ job \in [Jobs -> JobRecords]
  /\ cleaner \in CleanerRecords
  /\ clone \in [Clones -> CloneRecords]
  /\ overlapped \in BOOLEAN /\ left \subseteq Numbers

At(j, step) == job[j].at = step
GoTo(j, step) == job' = [job EXCEPT ![j].at = step]
Finish(j) == job' = [job EXCEPT ![j] = NoJob]
MayFail(what) == what \in Faults

\* GetSnapshots: the pre-snapshots are filtered out.
Usable == taken

ClonesOn(k) == {c \in Clones : clone[c].snap = k}

\* Mutant of the next definition: `zfs destroy -Rf`.
HeldForced(k) == FALSE

\* A container that runs on a clone keeps its dataset busy.
Held(k) == \E c \in Clones : clone[c].snap = k /\ clone[c].at = "running"

\* The clones whose container has not been started go with their origin, and
\* their creation fails.
LoseClones(k) ==
  clone' = [c \in Clones |-> IF clone[c].snap = k /\ clone[c].at = "dataset" THEN NoClone ELSE clone[c]]

\* The job ends and its pre-snapshot, if it is there, stays.
LeaveBehind(k) ==
  /\ left' = left \cup (preSnap \cap {k})
  /\ Cardinality(left') <= MaxLeft

\* Mutant of the next definition: `zfs destroy` without -R, errors ignored.
DestroyOne(k) ==
  /\ preSnap' = preSnap \ {k}
  /\ UNCHANGED <<unlabelled, preClone, taken, label, data, clone>>

\* `zfs destroy -R` of a pre-snapshot: its clone, the snapshot and the clones
\* of the clients that nothing runs on go with it.
DestroyAll(k) ==
  /\ preSnap' = preSnap \ {k}
  /\ unlabelled' = unlabelled \ {k}
  /\ preClone' = preClone \ {k}
  /\ taken' = taken \ {k}
  /\ label' = [label EXCEPT ![k] = 0]
  /\ data' = [data EXCEPT ![k] = 0]
  /\ LoseClones(k)

\* `zfs destroy -R` that fails, as it does when it meets a busy clone, maybe after
\* it has destroyed other clones.
DestroyFails(k) ==
  /\ Held(k) \/ MayFail("destroy")
  /\ UNCHANGED zfsVars
  /\ UNCHANGED clone \/ LoseClones(k)

-----------------------------------------------------------------------------
(* The snapshot job: run *)

\* The first statements of run: the mark is read again from the file.
Begin(j) ==
  /\ At(j, "idle") /\ next <= MaxSnapshots
  /\ dbMark' = marker
  /\ GoTo(j, "snapshot")
  /\ overlapped' = (overlapped \/ \E i \in Jobs : ~ At(i, "idle"))
  /\ UNCHANGED <<source, next, zfsVars, marker, cleaner, clone, left>>

\* CreateSnapshot("", now_pre) up to `zfs snapshot`: an error leaves nothing.
CreatePreSnapshot(j) ==
  /\ At(j, "snapshot")
  /\ \/ /\ next <= MaxSnapshots
        /\ next' = next + 1
        /\ preSnap' = preSnap \cup {next}
        /\ unlabelled' = unlabelled \cup {next}
        /\ data' = [data EXCEPT ![next] = source]
        /\ job' = [job EXCEPT ![j] = [at |-> "set", snap |-> next]]
     \/ /\ next > MaxSnapshots \/ MayFail("snapshot")
        /\ Finish(j)
        /\ UNCHANGED <<next, preSnap, unlabelled, data>>
  /\ UNCHANGED <<source, preClone, taken, label, markVars, cleaner, clone, history>>

\* The rest of it, `zfs set`.  After an error run returns before it has deferred
\* DestroySnapshot, and the pre-snapshot stays.
LabelPreSnapshot(j) ==
  /\ At(j, "set")
  /\ LET k == job[j].snap
     IN \/ k \in preSnap /\ unlabelled' = unlabelled \ {k} /\ GoTo(j, "clone") /\ UNCHANGED left
        \/ /\ k \notin preSnap \/ MayFail("set")
           /\ LeaveBehind(k)
           /\ Finish(j)
           /\ UNCHANGED unlabelled
  /\ UNCHANGED <<source, next, preSnap, preClone, taken, label, data, markVars, cleaner, clone, overlapped>>

\* CreateClone(clone_pre_now): `zfs clone`, whose origin retention may have
\* removed, and chown, which may fail when the clone exists.
CreatePreClone(j) ==
  /\ At(j, "clone")
  /\ LET k == job[j].snap
     IN \/ /\ k \in preSnap
           /\ preClone' = preClone \cup {k}
           /\ GoTo(j, "promote") \/ (MayFail("clone") /\ GoTo(j, "undo snapshot"))
        \/ (k \notin preSnap \/ MayFail("clone")) /\ GoTo(j, "undo snapshot") /\ UNCHANGED preClone
  /\ UNCHANGED <<source, next, preSnap, unlabelled, taken, label, data, markVars, cleaner, clone, history>>

\* Mutant of the next definition: a mark that is set already stays.
FirstDSA(k) == dbMark' = IF dbMark = 0 THEN data[k] ELSE dbMark

\* markDSA
MarkDSA(k) == dbMark' = data[k]

\* promoteInstance with markDSA, under promotionMutex: nothing newer than the
\* mark is an error of a kind of its own, which run cleans up after as well.
Promote(j) ==
  /\ At(j, "promote")
  /\ LET k == job[j].snap
         unchanged == dbMark # 0 /\ data[k] = dbMark
     IN \/ /\ k \in preClone /\ ~ unchanged
           /\ MarkDSA(k)
           /\ GoTo(j, "mark") \/ (MayFail("promote") /\ GoTo(j, "undo clone"))
        \/ /\ k \notin preClone \/ unchanged \/ MayFail("promote")
           /\ GoTo(j, "undo clone")
           /\ UNCHANGED dbMark
  /\ UNCHANGED <<source, next, zfsVars, marker, cleaner, clone, history>>

\* The preprocessing script and markDatabaseData.
Mark(j) ==
  /\ At(j, "mark")
  /\ \/ marker' = dbMark /\ GoTo(j, "take")
     \/ MayFail("mark") /\ GoTo(j, "undo clone") /\ UNCHANGED marker
  /\ UNCHANGED <<source, next, zfsVars, dbMark, cleaner, clone, history>>

\* CreateSnapshot(cloneName, DataStateAt): `zfs snapshot`, then `zfs set`.
TakeSnapshot(j) ==
  /\ At(j, "take")
  /\ LET k == job[j].snap
     IN \/ /\ k \in preClone
           /\ taken' = taken \cup {k}
           /\ \/ label' = [label EXCEPT ![k] = dbMark] /\ Finish(j)
              \/ MayFail("label") /\ GoTo(j, "undo clone") /\ UNCHANGED label
        \/ /\ k \notin preClone
           /\ GoTo(j, "undo clone")
           /\ UNCHANGED <<taken, label>>
  /\ UNCHANGED <<source, next, preSnap, unlabelled, preClone, data, markVars, cleaner, clone, history>>

\* Mutant of UndoClone: the first deferred function that runs ends the clean-up.
UndoNothing(j) ==
  /\ At(j, "undo clone")
  /\ Finish(j)
  /\ UNCHANGED <<source, next, zfsVars, markVars, cleaner, clone, history>>

\* Deferred: DestroyClone, which is `zfs destroy -R` of the job's clone, and
\* an error of which is only logged.
UndoClone(j) ==
  /\ At(j, "undo clone")
  /\ LET k == job[j].snap
     IN \/ DestroyFails(k)
        \/ /\ ~ Held(k)
           /\ preClone' = preClone \ {k}
           /\ taken' = taken \ {k}
           /\ label' = [label EXCEPT ![k] = 0]
           /\ LoseClones(k)
           /\ UNCHANGED <<preSnap, unlabelled, data>>
  /\ GoTo(j, "undo snapshot")
  /\ UNCHANGED <<source, next, markVars, cleaner, history>>

\* Deferred: DestroySnapshot, an error of which is only logged, too.
UndoSnapshot(j) ==
  /\ At(j, "undo snapshot")
  /\ LET k == job[j].snap
     IN \/ DestroyFails(k) /\ LeaveBehind(k)
        \/ ~ Held(k) /\ DestroyAll(k) /\ UNCHANGED left
  /\ Finish(j)
  /\ UNCHANGED <<source, next, markVars, cleaner, overlapped>>

JobStep(j) ==
  \/ CreatePreSnapshot(j) \/ LabelPreSnapshot(j) \/ CreatePreClone(j) \/ Promote(j) \/ Mark(j)
  \/ TakeSnapshot(j) \/ UndoClone(j) \/ UndoSnapshot(j)

-----------------------------------------------------------------------------
(* The retention job: CleanupSnapshots *)

\* `-s dblab:datastateat -s creation`: labels are in the order of the numbers, and
\* what has none comes last.
Position(k) == IF k \in unlabelled THEN MaxSnapshots + k ELSE k

\* Mutant of the next definition: `head -n` without the minus sign.
OldestSome ==
  {k \in preSnap : Cardinality({i \in preSnap : Position(i) < Position(k)}) < Limit}

\* `head -n -limit` of the sorted pre-snapshots.
AllButNewest ==
  {k \in preSnap : Cardinality({i \in preSnap : Position(i) > Position(k)}) >= Limit}

\* The first command, for getBusySnapshotList.
ListBusy ==
  /\ cleaner.at = "idle"
  /\ cleaner' = [at |-> "list", busy |-> {k \in taken : ClonesOn(k) # {}}, old |-> {}]
  /\ UNCHANGED <<source, next, zfsVars, markVars, job, clone, history>>

\* The second command up to the pipe into xargs.
ListOld ==
  /\ cleaner.at = "list"
  /\ cleaner' = [at |-> "destroy", busy |-> {}, old |-> AllButNewest \ cleaner.busy]
  /\ UNCHANGED <<source, next, zfsVars, markVars, job, clone, history>>

\* xargs runs `zfs destroy -R` on each in turn, here in any order, and goes on
\* after an error; the container of a promotion may keep the dataset busy, too.
DestroyOld ==
  /\ cleaner.at = "destroy"
  /\ \E k \in cleaner.old :
       /\ \/ ~ Held(k) /\ k \in preSnap /\ DestroyAll(k)
          \/ DestroyFails(k)
          \/ /\ k \notin preSnap \/ \E j \in Jobs : At(j, "promote") /\ job[j].snap = k
             /\ UNCHANGED <<zfsVars, clone>>
       /\ cleaner' = [cleaner EXCEPT !.old = @ \ {k}]
  /\ UNCHANGED <<source, next, markVars, job, history>>

CleanedUp ==
  /\ cleaner.at = "destroy" /\ cleaner.old = {}
  /\ cleaner' = NoClean
  /\ UNCHANGED <<source, next, zfsVars, markVars, job, clone, history>>

Cleaner == ListBusy \/ ListOld \/ DestroyOld \/ CleanedUp

-----------------------------------------------------------------------------
(* The source and the clients *)

\* Only as long as a snapshot may still be taken of the new state.
Advance ==
  /\ source < MaxState /\ next <= MaxSnapshots
  /\ source' = source + 1
  /\ UNCHANGED <<next, zfsVars, markVars, job, cleaner, clone, history>>

\* StartSession up to `zfs clone`, which fails without a trace when the snapshot
\* it was asked for is gone.
CreateClone(c) ==
  /\ clone[c].at = "none"
  /\ \E k \in Usable : clone' = [clone EXCEPT ![c] = [at |-> "dataset", snap |-> k]]
  /\ UNCHANGED <<source, next, zfsVars, markVars, job, cleaner, history>>

StartContainer(c) ==
  /\ clone[c].at = "dataset"
  /\ clone' = [clone EXCEPT ![c].at = "running"]
  /\ UNCHANGED <<source, next, zfsVars, markVars, job, cleaner, history>>

DestroyClone(c) ==
  /\ clone[c].at = "running"
  /\ clone' = [clone EXCEPT ![c] = NoClone]
  /\ UNCHANGED <<source, next, zfsVars, markVars, job, cleaner, history>>

ClientStep(c) == CreateClone(c) \/ StartContainer(c) \/ DestroyClone(c)

-----------------------------------------------------------------------------
(* Specification *)

Init ==
  /\ source = 1 /\ next = 1
  /\ preSnap = {} /\ unlabelled = {} /\ preClone = {} /\ taken = {}
  /\ data = [k \in Numbers |-> 0] /\ label = [k \in Numbers |-> 0]
  /\ marker = 0 /\ dbMark = 0
  /\ job = [j \in Jobs |-> NoJob]
  /\ cleaner = NoClean
  /\ clone = [c \in Clones |-> NoClone]
  /\ overlapped = FALSE /\ left = {}

Next ==
  \/ \E j \in Jobs : Begin(j) \/ JobStep(j)
  \/ Cleaner
  \/ Advance
  \/ \E c \in Clones : ClientStep(c)

RetentionSpec == Init /\ [][Next]_retentionVars

-----------------------------------------------------------------------------
(* Properties *)

\* What a job has left behind: a pre-snapshot of no use to the clients.
Leaked == left \cap (preSnap \ taken)

\* Retention leaves the clients Limit snapshots, less one for each snapshot
\* job and one for each pre-snapshot that a job left behind: those are counted by
\* `head -n -limit`, the ones without a label for ever, and a job may fail after
\* the list has been made.
RetentionKeeps ==
  [][cleaner.at = "destroy" /\ Usable' # Usable /\ UNCHANGED job
       => Cardinality(Usable') + Cardinality(Leaked') >= Limit - Cardinality(Jobs)]_retentionVars

\* A running clone keeps the snapshot it was made of, whichever of the two
\* lists it was too late for and whatever the jobs undo.
ClonesKeepSnapshot ==
  \A c \in Clones : clone[c].at = "running" => clone[c].snap \in taken

\* A snapshot says the state of the data that is in it.  The mark is one for
\* all the jobs, so this holds until two of them overlap.
LabelMatchesData == ~ overlapped => \A k \in taken : label[k] \in {0, data[k]}

\* When no job is at work, a pre-snapshot without its snapshot is one whose own
\* `zfs set` or whose deferred `zfs destroy` failed.  Any other failure, two or
\* more of them, a promotion that finds nothing new and a retention job that
\* destroys datasets under the job leave nothing half built.
NothingHalfBuilt == (\A j \in Jobs : At(j, "idle")) => preSnap \ taken \subseteq left

=============================================================================
