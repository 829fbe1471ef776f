----------------------- MODULE SnapshotRetention_proofs -----------------------
(***************************************************************************)
(* Proofs about module SnapshotRetention: types, that the running clones   *)
(* keep their snapshots, what a job may leave half built, that labels are  *)
(* right while jobs do not overlap, and how many snapshots retention       *)
(* leaves; for any number of jobs, clones and snapshots, any retention     *)
(* limit and every set of faults.                                          *)
(***************************************************************************)
EXTENDS SnapshotRetention, FiniteFacts

-----------------------------------------------------------------------------
(* The inductive invariant *)

\* The number of the next pre-snapshot is new.
Older == \A k \in preSnap : k < next

\* Every clone, its container running or not, has its snapshot.
ClonesHaveSnapshot == \A c \in Clones : clone[c].at # "none" => clone[c].snap \in taken

\* A pre-snapshot without its snapshot belongs to a job that is at work on it, or
\* has been left behind by a command that failed.
AtWork(j) == job[j].at \notin {"idle", "snapshot"}

Owned == \A k \in preSnap \ (taken \cup left) : \E j \in Jobs : AtWork(j) /\ job[j].snap = k

\* Until two jobs have overlapped one at most is at work,
Single ==
  ~ overlapped =>
    \A i, j \in Jobs : job[i].at # "idle" /\ job[j].at # "idle" => i = j

\* and from the promotion to its end the mark is that of its data.
Marked ==
  ~ overlapped =>
    \A j \in Jobs :
      job[j].at \in {"mark", "take"} /\ job[j].snap \in preClone => dbMark = data[job[j].snap]

\* Only a snapshot has a label.
Unlabelled == \A k \in Numbers \ taken : label[k] = 0

RetentionInv ==
  /\ RetentionTypeOK
  /\ Older /\ ClonesHaveSnapshot /\ Owned /\ Single /\ Marked
  /\ LabelMatchesData /\ Unlabelled

LEMMA RetentionInvInit == Init => RetentionInv
<1> SUFFICES ASSUME Init PROVE RetentionInv
  OBVIOUS
<1> USE RetentionAssumption DEF RetentionAssumption, Init
<1>1. NoJob \in JobRecords
  BY DEF NoJob, JobRecords, JobSteps
<1>2. NoClean \in CleanerRecords
  BY DEF NoClean, CleanerRecords
<1>3. NoClone \in CloneRecords
  BY DEF NoClone, CloneRecords
<1>4. source \in States /\ next \in 1 .. MaxSnapshots + 1
  BY DEF States
<1>5. RetentionTypeOK
  BY <1>1, <1>2, <1>3, <1>4 DEF RetentionTypeOK
<1>6. QED
  BY <1>5 DEF RetentionInv, Older, ClonesHaveSnapshot, Owned, Single, Marked, LabelMatchesData,
              Unlabelled, NoJob, NoClone

-----------------------------------------------------------------------------
(* A job moves *)

\* Only j has moved.
OnlyMoved(j) == \A i \in Jobs : i # j => job'[i] = job[i]

LEMMA JobMoves ==
  ASSUME RetentionTypeOK, NEW j \in Jobs, NEW step \in JobSteps, GoTo(j, step)
  PROVE  /\ job' \in [Jobs -> JobRecords] /\ OnlyMoved(j)
         /\ job'[j].at = step /\ job'[j].snap = job[j].snap
BY DEF GoTo, RetentionTypeOK, JobRecords, OnlyMoved

LEMMA JobEnds ==
  ASSUME RetentionTypeOK, NEW j \in Jobs, Finish(j)
  PROVE  job' \in [Jobs -> JobRecords] /\ OnlyMoved(j) /\ job'[j].at = "idle"
<1>1. NoJob \in JobRecords /\ NoJob.at = "idle"
  BY DEF NoJob, JobRecords, JobSteps
<1>2. QED
  BY <1>1 DEF Finish, RetentionTypeOK, OnlyMoved

\* A pre-snapshot stays owned when the job on it goes on, or leaves it complete,
\* destroyed or recorded.
LEMMA OwnedKept ==
  ASSUME Owned, NEW j \in Jobs, OnlyMoved(j), preSnap' \subseteq preSnap, left \subseteq left',
         \A k \in preSnap' \ (taken' \cup left') :
           /\ k \in taken => AtWork(j)' /\ job'[j].snap = k
           /\ AtWork(j) /\ job[j].snap = k => AtWork(j)' /\ job'[j].snap = k
  PROVE  Owned'
<1> SUFFICES ASSUME NEW k \in preSnap' \ (taken' \cup left')
             PROVE  \E i \in Jobs : AtWork(i)' /\ job'[i].snap = k
  BY DEF Owned
<1>1. CASE k \in taken
  BY <1>1
<1>2. CASE k \notin taken
  <2>1. PICK i \in Jobs : AtWork(i) /\ job[i].snap = k
    BY <1>2 DEF Owned
  <2>2. CASE i = j
    BY <2>1, <2>2
  <2>3. CASE i # j
    BY <2>1, <2>3 DEF OnlyMoved, AtWork
  <2>4. QED
    BY <2>2, <2>3
<1>3. QED
  BY <1>1, <1>2

LEMMA SingleKept ==
  ASSUME Single, NEW j \in Jobs, OnlyMoved(j), job[j].at # "idle", UNCHANGED overlapped
  PROVE  Single'
BY DEF Single, OnlyMoved

\* The mark stays right when the job on its way to the snapshot keeps it so.
LEMMA MarkedKept ==
  ASSUME Single, Marked, NEW j \in Jobs, OnlyMoved(j), job[j].at # "idle", UNCHANGED overlapped,
         ~ overlapped /\ job'[j].at \in {"mark", "take"} /\ job'[j].snap \in preClone'
           => dbMark' = data'[job'[j].snap]
  PROVE  Marked'
BY DEF Single, Marked, OnlyMoved

-----------------------------------------------------------------------------
(* Steps of the jobs *)

LEMMA BeginStep ==
  ASSUME RetentionInv, NEW j \in Jobs, Begin(j)
  PROVE  RetentionInv'
<1>1. /\ job[j].at = "idle" /\ dbMark' = marker
      /\ UNCHANGED <<source, next, zfsVars, marker, cleaner, clone, left>>
  BY DEF Begin, At
<1>2. /\ job' \in [Jobs -> JobRecords] /\ OnlyMoved(j)
      /\ job'[j].at = "snapshot" /\ job'[j].snap = job[j].snap
  BY JobMoves DEF Begin, RetentionInv, JobSteps
<1>3. /\ overlapped' \in BOOLEAN
      /\ ~ overlapped' => ~ overlapped /\ \A i \in Jobs : job[i].at = "idle"
  BY DEF Begin, At, RetentionInv, RetentionTypeOK
<1>4. RetentionTypeOK'
  BY <1>1, <1>2, <1>3 DEF RetentionInv, RetentionTypeOK, zfsVars
<1>5. Older' /\ ClonesHaveSnapshot'
  BY <1>1 DEF RetentionInv, Older, ClonesHaveSnapshot, zfsVars
<1>6. Owned'
  BY <1>1, <1>2, OwnedKept DEF RetentionInv, zfsVars, AtWork
<1>7. Single' /\ Marked'
  BY <1>2, <1>3 DEF Single, Marked, OnlyMoved
<1>8. LabelMatchesData' /\ Unlabelled'
  BY <1>1, <1>3 DEF RetentionInv, LabelMatchesData, Unlabelled, zfsVars
<1>9. QED
  BY <1>4, <1>5, <1>6, <1>7, <1>8 DEF RetentionInv

LEMMA CreatePreSnapshotStep ==
  ASSUME RetentionInv, NEW j \in Jobs, CreatePreSnapshot(j)
  PROVE  RetentionInv'
<1>1. /\ job[j].at = "snapshot"
      /\ UNCHANGED <<source, preClone, taken, label, markVars, cleaner, clone, overlapped, left>>
  BY DEF CreatePreSnapshot, At, history
<1>2. ASSUME next <= MaxSnapshots, next' = next + 1, preSnap' = preSnap \cup {next},
             unlabelled' = unlabelled \cup {next},
             data' = [data EXCEPT ![next] = source],
             job' = [job EXCEPT ![j] = [at |-> "set", snap |-> next]]
      PROVE  RetentionInv'
  <2>1. /\ next' = next + 1 /\ preSnap' = preSnap \cup {next}
        /\ unlabelled' = unlabelled \cup {next}
        /\ data' = [data EXCEPT ![next] = source]
        /\ job' = [job EXCEPT ![j] = [at |-> "set", snap |-> next]]
    BY <1>2
  <2>2. next \in Numbers /\ next' \in 1 .. MaxSnapshots + 1
    BY <1>2, <2>1, RetentionAssumption
    DEF RetentionInv, RetentionTypeOK, Numbers, RetentionAssumption
  <2>3. [at |-> "set", snap |-> next] \in JobRecords
    BY <2>2 DEF JobRecords, JobSteps
  <2>4. /\ job' \in [Jobs -> JobRecords] /\ OnlyMoved(j)
        /\ job'[j].at = "set" /\ job'[j].snap = next
    BY <2>1, <2>3 DEF RetentionInv, RetentionTypeOK, OnlyMoved
  <2>5. data' \in [Numbers -> States \cup {0}] /\ \A k \in Numbers : k # next => data'[k] = data[k]
    BY <2>1 DEF RetentionInv, RetentionTypeOK
  <2>6. RetentionTypeOK'
    BY <1>1, <2>1, <2>2, <2>4, <2>5 DEF RetentionInv, RetentionTypeOK, markVars
  <2>7. preSnap \subseteq Int /\ next \in Int
    BY DEF RetentionInv, RetentionTypeOK, Numbers
  <2>8. Older' /\ next \notin preSnap
    BY <2>1, <2>7 DEF RetentionInv, Older
  <2>9. ClonesHaveSnapshot'
    BY <1>1 DEF RetentionInv, ClonesHaveSnapshot
  <2>10. Owned'
    <3> SUFFICES ASSUME NEW k \in preSnap' \ (taken' \cup left')
                 PROVE  \E i \in Jobs : AtWork(i)' /\ job'[i].snap = k
      BY DEF Owned
    <3>1. CASE k = next
      BY <2>4, <3>1 DEF AtWork
    <3>2. CASE k # next
      <4>1. PICK i \in Jobs : AtWork(i) /\ job[i].snap = k
        BY <1>1, <2>1, <3>2 DEF RetentionInv, Owned
      <4>2. i # j
        BY <1>1, <4>1 DEF AtWork
      <4>3. QED
        BY <2>4, <4>1, <4>2 DEF OnlyMoved, AtWork
    <3>3. QED
      BY <3>1, <3>2
  <2>11. Single' /\ Marked'
    BY <1>1, <2>4, SingleKept, MarkedKept DEF RetentionInv
  <2>12. LabelMatchesData' /\ Unlabelled'
    BY <1>1, <2>5, <2>8 DEF RetentionInv, LabelMatchesData, Unlabelled, RetentionTypeOK
  <2>13. QED
    BY <2>6, <2>8, <2>9, <2>10, <2>11, <2>12 DEF RetentionInv
<1>3. ASSUME UNCHANGED <<next, preSnap, unlabelled, data>>, Finish(j)
      PROVE  RetentionInv'
  <2>1. UNCHANGED <<next, preSnap, unlabelled, data>> /\ Finish(j)
    BY <1>3
  <2>2. job' \in [Jobs -> JobRecords] /\ OnlyMoved(j) /\ job'[j].at = "idle"
    BY <2>1, JobEnds DEF RetentionInv
  <2>3. RetentionTypeOK'
    BY <1>1, <2>1, <2>2 DEF RetentionInv, RetentionTypeOK, markVars
  <2>4. Older' /\ ClonesHaveSnapshot'
    BY <1>1, <2>1 DEF RetentionInv, Older, ClonesHaveSnapshot
  <2>5. Owned'
    BY <1>1, <2>1, <2>2, OwnedKept DEF RetentionInv, AtWork
  <2>6. Single' /\ Marked'
    BY <1>1, <2>2, SingleKept, MarkedKept DEF RetentionInv
  <2>7. LabelMatchesData' /\ Unlabelled'
    BY <1>1, <2>1 DEF RetentionInv, LabelMatchesData, Unlabelled
  <2>8. QED
    BY <2>3, <2>4, <2>5, <2>6, <2>7 DEF RetentionInv
<1>4. QED
  BY <1>2, <1>3 DEF CreatePreSnapshot

LEMMA LabelPreSnapshotStep ==
  ASSUME RetentionInv, NEW j \in Jobs, LabelPreSnapshot(j)
  PROVE  RetentionInv'
<1> DEFINE k == job[j].snap
<1>1. /\ job[j].at = "set"
      /\ UNCHANGED <<source, next, preSnap, preClone, taken, label, data, markVars, cleaner, clone,
                     overlapped>>
  BY DEF LabelPreSnapshot, LeaveBehind, At
<1>2. \/ unlabelled' = unlabelled \ {k} /\ GoTo(j, "clone") /\ UNCHANGED left
      \/ left' = left \cup (preSnap \cap {k}) /\ Finish(j) /\ UNCHANGED unlabelled
  BY DEF LabelPreSnapshot, LeaveBehind
<1>3. /\ job' \in [Jobs -> JobRecords] /\ OnlyMoved(j)
      /\ \/ job'[j].at = "clone" /\ job'[j].snap = k
         \/ job'[j].at = "idle" /\ (k \in preSnap => k \in left')
  BY <1>2, JobMoves, JobEnds DEF RetentionInv, JobSteps
<1>4. left \subseteq left' /\ left' \subseteq Numbers /\ unlabelled' \subseteq preSnap
  BY <1>2 DEF RetentionInv, RetentionTypeOK
<1>5. RetentionTypeOK'
  BY <1>1, <1>3, <1>4 DEF RetentionInv, RetentionTypeOK, markVars
<1>6. Older' /\ ClonesHaveSnapshot' /\ LabelMatchesData' /\ Unlabelled'
  BY <1>1 DEF RetentionInv, Older, ClonesHaveSnapshot, LabelMatchesData, Unlabelled
<1>7. Owned'
  BY <1>1, <1>3, <1>4, OwnedKept DEF RetentionInv, AtWork
<1>8. Single' /\ Marked'
  BY <1>1, <1>3, SingleKept, MarkedKept DEF RetentionInv
<1>9. QED
  BY <1>5, <1>6, <1>7, <1>8 DEF RetentionInv

LEMMA CreatePreCloneStep ==
  ASSUME RetentionInv, NEW j \in Jobs, CreatePreClone(j)
  PROVE  RetentionInv'
<1>1. /\ job[j].at = "clone"
      /\ UNCHANGED <<source, next, preSnap, unlabelled, taken, label, data, markVars, cleaner, clone,
                     overlapped, left>>
  BY DEF CreatePreClone, At, history
<1>2. GoTo(j, "promote") \/ GoTo(j, "undo snapshot")
  BY DEF CreatePreClone
<1>3. /\ job' \in [Jobs -> JobRecords] /\ OnlyMoved(j)
      /\ job'[j].at \in {"promote", "undo snapshot"} /\ job'[j].snap = job[j].snap
  BY <1>2, JobMoves DEF RetentionInv, JobSteps
<1>4. preClone \subseteq preClone' /\ preClone' \subseteq preSnap
  BY DEF CreatePreClone, RetentionInv, RetentionTypeOK
<1>5. RetentionTypeOK'
  BY <1>1, <1>3, <1>4 DEF RetentionInv, RetentionTypeOK, markVars
<1>6. Older' /\ ClonesHaveSnapshot' /\ LabelMatchesData' /\ Unlabelled'
  BY <1>1 DEF RetentionInv, Older, ClonesHaveSnapshot, LabelMatchesData, Unlabelled
<1>7. Owned'
  BY <1>1, <1>3, OwnedKept DEF RetentionInv, AtWork
<1>8. Single' /\ Marked'
  BY <1>1, <1>3, SingleKept, MarkedKept DEF RetentionInv
<1>9. QED
  BY <1>5, <1>6, <1>7, <1>8 DEF RetentionInv

LEMMA PromoteStep ==
  ASSUME RetentionInv, NEW j \in Jobs, Promote(j)
  PROVE  RetentionInv'
<1> DEFINE k == job[j].snap
<1>1. /\ job[j].at = "promote"
      /\ UNCHANGED <<source, next, zfsVars, marker, cleaner, clone, overlapped, left>>
  BY DEF Promote, At, history
<1>2. \/ k \in preClone /\ dbMark' = data[k] /\ (GoTo(j, "mark") \/ GoTo(j, "undo clone"))
      \/ GoTo(j, "undo clone") /\ UNCHANGED dbMark
  BY DEF Promote, MarkDSA
<1>3. /\ job' \in [Jobs -> JobRecords] /\ OnlyMoved(j)
      /\ job'[j].at \in {"mark", "undo clone"} /\ job'[j].snap = k
      /\ job'[j].at = "mark" => dbMark' = data[k]
  BY <1>2, JobMoves DEF RetentionInv, JobSteps
<1>4. dbMark' \in States \cup {0}
  <2>1. k \in preClone => data[k] \in States \cup {0}
    BY DEF RetentionInv, RetentionTypeOK
  <2>2. QED
    BY <1>2, <2>1 DEF RetentionInv, RetentionTypeOK
<1>5. RetentionTypeOK'
  BY <1>1, <1>3, <1>4 DEF RetentionInv, RetentionTypeOK, zfsVars
<1>6. Older' /\ ClonesHaveSnapshot' /\ LabelMatchesData' /\ Unlabelled'
  BY <1>1 DEF RetentionInv, Older, ClonesHaveSnapshot, LabelMatchesData, Unlabelled, zfsVars
<1>7. Owned'
  BY <1>1, <1>3, OwnedKept DEF RetentionInv, AtWork, zfsVars
<1>8. Single' /\ Marked'
  BY <1>1, <1>3, SingleKept, MarkedKept DEF RetentionInv, zfsVars
<1>9. QED
  BY <1>5, <1>6, <1>7, <1>8 DEF RetentionInv

LEMMA MarkStep ==
  ASSUME RetentionInv, NEW j \in Jobs, Mark(j)
  PROVE  RetentionInv'
<1>1. /\ job[j].at = "mark" /\ (marker' = dbMark \/ UNCHANGED marker)
      /\ UNCHANGED <<source, next, zfsVars, dbMark, cleaner, clone, overlapped, left>>
  BY DEF Mark, At, history
<1>2. /\ job' \in [Jobs -> JobRecords] /\ OnlyMoved(j)
      /\ job'[j].at \in {"take", "undo clone"} /\ job'[j].snap = job[j].snap
  BY JobMoves DEF Mark, RetentionInv, JobSteps
<1>3. RetentionTypeOK'
  BY <1>1, <1>2 DEF RetentionInv, RetentionTypeOK, zfsVars
<1>4. Older' /\ ClonesHaveSnapshot' /\ LabelMatchesData' /\ Unlabelled'
  BY <1>1 DEF RetentionInv, Older, ClonesHaveSnapshot, LabelMatchesData, Unlabelled, zfsVars
<1>5. Owned'
  BY <1>1, <1>2, OwnedKept DEF RetentionInv, AtWork, zfsVars
<1>6. ~ overlapped /\ job[j].snap \in preClone => dbMark = data[job[j].snap]
  BY <1>1 DEF RetentionInv, Marked
<1>7. Single' /\ Marked'
  BY <1>1, <1>2, <1>6, SingleKept, MarkedKept DEF RetentionInv, zfsVars
<1>8. QED
  BY <1>3, <1>4, <1>5, <1>7 DEF RetentionInv

LEMMA TakeSnapshotStep ==
  ASSUME RetentionInv, NEW j \in Jobs, TakeSnapshot(j)
  PROVE  RetentionInv'
<1> DEFINE k == job[j].snap
<1>1. /\ job[j].at = "take"
      /\ UNCHANGED <<source, next, preSnap, unlabelled, preClone, data, markVars, cleaner, clone,
                     overlapped, left>>
  BY DEF TakeSnapshot, At, history
<1>2. \/ /\ k \in preClone /\ taken' = taken \cup {k}
         /\ \/ label' = [label EXCEPT ![k] = dbMark] /\ Finish(j)
            \/ GoTo(j, "undo clone") /\ UNCHANGED label
      \/ GoTo(j, "undo clone") /\ UNCHANGED <<taken, label>>
  BY DEF TakeSnapshot
<1>3. /\ job' \in [Jobs -> JobRecords] /\ OnlyMoved(j)
      /\ \/ job'[j].at = "idle" /\ k \in taken'
         \/ job'[j].at = "undo clone" /\ job'[j].snap = k
  BY <1>2, JobMoves, JobEnds DEF RetentionInv, JobSteps
<1>4. /\ taken \subseteq taken' /\ taken' \subseteq preClone
      /\ \A i \in taken' : i \in taken \/ i = k
  BY <1>2 DEF RetentionInv, RetentionTypeOK
<1>5. label' \in [Numbers -> States \cup {0}]
  BY <1>2 DEF RetentionInv, RetentionTypeOK
<1>6. RetentionTypeOK'
  BY <1>1, <1>3, <1>4, <1>5 DEF RetentionInv, RetentionTypeOK, markVars
<1>7. Older' /\ ClonesHaveSnapshot'
  BY <1>1, <1>4 DEF RetentionInv, Older, ClonesHaveSnapshot
<1>8. Owned'
  BY <1>1, <1>3, <1>4, OwnedKept DEF RetentionInv, AtWork
<1>9. Single' /\ Marked'
  BY <1>1, <1>3, SingleKept, MarkedKept DEF RetentionInv, markVars
<1>10. LabelMatchesData'
  <2> SUFFICES ASSUME ~ overlapped, NEW i \in taken' PROVE label'[i] \in {0, data[i]}
    BY <1>1 DEF LabelMatchesData
  <2>1. k \in preClone => dbMark = data[k]
    BY <1>1 DEF RetentionInv, Marked
  <2>2. \A m \in taken : label[m] \in {0, data[m]}
    BY DEF RetentionInv, LabelMatchesData
  <2>3. i \in Numbers /\ (i \notin taken => label[i] = 0)
    BY <1>4 DEF RetentionInv, RetentionTypeOK, Unlabelled
  <2>4. QED
    BY <1>2, <1>4, <2>1, <2>2, <2>3 DEF RetentionInv, RetentionTypeOK
<1>11. Unlabelled'
  BY <1>2, <1>4 DEF RetentionInv, RetentionTypeOK, Unlabelled
<1>12. QED
  BY <1>6, <1>7, <1>8, <1>9, <1>10, <1>11 DEF RetentionInv

-----------------------------------------------------------------------------
(* What is destroyed *)

\* The clones that remain after the snapshot k is lost, which nothing runs on.
LEMMA ClonesLost ==
  ASSUME RetentionTypeOK, NEW k, LoseClones(k)
  PROVE  /\ clone' \in [Clones -> CloneRecords]
         /\ \A c \in Clones : clone'[c].at # "none" => clone'[c] = clone[c] /\ clone[c].at # "none"
         /\ ~ Held(k) => \A c \in Clones : clone'[c].at # "none" => clone'[c].snap # k
<1>1. NoClone \in CloneRecords /\ NoClone.at = "none"
  BY DEF NoClone, CloneRecords
<1>2. clone' \in [Clones -> CloneRecords]
  BY <1>1 DEF LoseClones, RetentionTypeOK
<1>3. SUFFICES ASSUME NEW c \in Clones, clone'[c].at # "none"
               PROVE  /\ clone'[c] = clone[c] /\ clone[c].at # "none"
                      /\ ~ Held(k) => clone'[c].snap # k
  BY <1>2
<1>4. clone'[c] = clone[c] /\ ~ (clone[c].snap = k /\ clone[c].at = "dataset")
  BY <1>1, <1>3 DEF LoseClones
<1>5. clone[c].at \in {"none", "dataset", "running"}
  BY DEF RetentionTypeOK, CloneRecords
<1>6. QED
  BY <1>3, <1>4, <1>5 DEF Held

\* What the invariant says of the datasets and the clones.
Stored ==
  /\ preSnap \subseteq Numbers /\ unlabelled \subseteq preSnap
  /\ preClone \subseteq preSnap /\ taken \subseteq preClone
  /\ data \in [Numbers -> States \cup {0}] /\ label \in [Numbers -> States \cup {0}]
  /\ clone \in [Clones -> CloneRecords]
  /\ Older /\ ClonesHaveSnapshot /\ LabelMatchesData /\ Unlabelled

LEMMA DestroyAllStored ==
  ASSUME RetentionInv, NEW k, ~ Held(k), DestroyAll(k), UNCHANGED <<next, overlapped>>
  PROVE  /\ Stored'
         /\ preSnap' = preSnap \ {k} /\ preClone' = preClone \ {k} /\ taken' = taken \ {k}
         /\ \A i \in Numbers : i # k => data'[i] = data[i]
<1>1. /\ preSnap' = preSnap \ {k} /\ preClone' = preClone \ {k} /\ taken' = taken \ {k}
      /\ unlabelled' = unlabelled \ {k}
      /\ label' = [label EXCEPT ![k] = 0] /\ data' = [data EXCEPT ![k] = 0]
      /\ LoseClones(k)
  BY DEF DestroyAll
<1>2. /\ data' \in [Numbers -> States \cup {0}] /\ label' \in [Numbers -> States \cup {0}]
      /\ \A i \in Numbers : i # k => data'[i] = data[i] /\ label'[i] = label[i]
      /\ k \in Numbers => label'[k] = 0
  BY <1>1 DEF RetentionInv, RetentionTypeOK
<1>3. /\ clone' \in [Clones -> CloneRecords]
      /\ \A c \in Clones : clone'[c].at # "none" =>
           clone'[c] = clone[c] /\ clone[c].at # "none" /\ clone'[c].snap # k
  BY <1>1, ClonesLost DEF RetentionInv
<1>4. ClonesHaveSnapshot'
  BY <1>1, <1>3 DEF RetentionInv, ClonesHaveSnapshot
<1>5. LabelMatchesData' /\ Unlabelled'
  BY <1>1, <1>2 DEF RetentionInv, RetentionTypeOK, LabelMatchesData, Unlabelled
<1>6. Older'
  BY <1>1 DEF RetentionInv, Older
<1>7. QED
  BY <1>1, <1>2, <1>3, <1>4, <1>5, <1>6 DEF Stored, RetentionInv, RetentionTypeOK

LEMMA DestroyFailsStored ==
  ASSUME RetentionInv, NEW k, DestroyFails(k), UNCHANGED <<next, overlapped>>
  PROVE  Stored' /\ UNCHANGED zfsVars
<1>1. UNCHANGED zfsVars /\ (UNCHANGED clone \/ LoseClones(k))
  BY DEF DestroyFails
<1>2. /\ clone' \in [Clones -> CloneRecords]
      /\ \A c \in Clones : clone'[c].at # "none" => clone'[c] = clone[c] /\ clone[c].at # "none"
  BY <1>1, ClonesLost DEF RetentionInv, RetentionTypeOK
<1>3. ClonesHaveSnapshot'
  BY <1>1, <1>2 DEF RetentionInv, ClonesHaveSnapshot, zfsVars
<1>4. QED
  BY <1>1, <1>2, <1>3
  DEF Stored, RetentionInv, RetentionTypeOK, Older, LabelMatchesData, Unlabelled, zfsVars

LEMMA UndoCloneStep ==
  ASSUME RetentionInv, NEW j \in Jobs, UndoClone(j)
  PROVE  RetentionInv'
<1> DEFINE k == job[j].snap
<1>1. /\ job[j].at = "undo clone"
      /\ UNCHANGED <<source, next, markVars, cleaner, overlapped, left>>
  BY DEF UndoClone, At, history
<1>2. /\ job' \in [Jobs -> JobRecords] /\ OnlyMoved(j)
      /\ job'[j].at = "undo snapshot" /\ job'[j].snap = k
  BY JobMoves DEF UndoClone, RetentionInv, JobSteps
<1>3. /\ Stored' /\ preSnap' = preSnap
      /\ \/ taken' = taken \/ taken' = taken \ {k}
      /\ preClone' \subseteq preClone /\ UNCHANGED data
  <2>1. CASE DestroyFails(k)
    BY <1>1, <2>1, DestroyFailsStored DEF zfsVars
  <2>2. ASSUME ~ Held(k), preClone' = preClone \ {k}, taken' = taken \ {k},
               label' = [label EXCEPT ![k] = 0], LoseClones(k),
               UNCHANGED <<preSnap, unlabelled, data>>
        PROVE  /\ Stored' /\ preSnap' = preSnap /\ taken' = taken \ {k}
               /\ preClone' \subseteq preClone /\ UNCHANGED data
    <3>1. /\ preClone' = preClone \ {k} /\ taken' = taken \ {k}
          /\ label' = [label EXCEPT ![k] = 0] /\ LoseClones(k)
          /\ UNCHANGED <<preSnap, unlabelled, data>>
      BY <2>2
    <3>2. /\ clone' \in [Clones -> CloneRecords]
          /\ \A c \in Clones : clone'[c].at # "none" =>
               clone'[c] = clone[c] /\ clone[c].at # "none" /\ clone'[c].snap # k
      BY <2>2, <3>1, ClonesLost DEF RetentionInv
    <3>3. ClonesHaveSnapshot'
      BY <3>1, <3>2 DEF RetentionInv, ClonesHaveSnapshot
    <3>4. /\ label' \in [Numbers -> States \cup {0}]
          /\ \A i \in Numbers : i # k => label'[i] = label[i]
          /\ k \in Numbers => label'[k] = 0
      BY <3>1 DEF RetentionInv, RetentionTypeOK
    <3>5. LabelMatchesData' /\ Unlabelled' /\ Older'
      BY <1>1, <3>1, <3>4 DEF RetentionInv, RetentionTypeOK, LabelMatchesData, Unlabelled, Older
    <3>6. QED
      BY <3>1, <3>2, <3>3, <3>4, <3>5 DEF Stored, RetentionInv, RetentionTypeOK
  <2>3. QED
    BY <2>1, <2>2 DEF UndoClone
<1>4. RetentionTypeOK'
  BY <1>1, <1>2, <1>3 DEF RetentionInv, RetentionTypeOK, Stored, markVars
<1>5. Owned'
  BY <1>1, <1>2, <1>3, OwnedKept DEF RetentionInv, AtWork
<1>6. Single' /\ Marked'
  BY <1>1, <1>2, SingleKept, MarkedKept DEF RetentionInv, markVars
<1>7. QED
  BY <1>3, <1>4, <1>5, <1>6 DEF RetentionInv, Stored

LEMMA UndoSnapshotStep ==
  ASSUME RetentionInv, NEW j \in Jobs, UndoSnapshot(j)
  PROVE  RetentionInv'
<1> DEFINE k == job[j].snap
<1>1. /\ job[j].at = "undo snapshot"
      /\ UNCHANGED <<source, next, markVars, cleaner, overlapped>>
  BY DEF UndoSnapshot, LeaveBehind, At, history
<1>2. job' \in [Jobs -> JobRecords] /\ OnlyMoved(j) /\ job'[j].at = "idle"
  BY JobEnds DEF UndoSnapshot, RetentionInv
<1>3. /\ Stored' /\ preSnap' \subseteq preSnap
      /\ left \subseteq left' /\ left' \subseteq Numbers
      /\ \A i \in preSnap' \ (taken' \cup left') : i \in preSnap \ taken /\ i # k
  <2>1. CASE DestroyFails(k) /\ left' = left \cup (preSnap \cap {k})
    <3>1. Stored' /\ UNCHANGED zfsVars
      BY <1>1, <2>1, DestroyFailsStored
    <3>2. preSnap \subseteq Numbers /\ left \subseteq Numbers
      BY DEF RetentionInv, RetentionTypeOK
    <3> QED
      BY <2>1, <3>1, <3>2 DEF zfsVars
  <2>2. CASE ~ Held(k) /\ DestroyAll(k) /\ UNCHANGED left
    <3>1. DestroyAll(k) /\ UNCHANGED <<next, overlapped>>
      BY <1>1, <2>2
    <3>2. /\ Stored' /\ preSnap' = preSnap \ {k} /\ taken' = taken \ {k}
      BY <2>2, <3>1, DestroyAllStored
    <3>3. QED
      BY <2>2, <3>2 DEF RetentionInv, RetentionTypeOK
  <2>3. QED
    BY <2>1, <2>2 DEF UndoSnapshot, LeaveBehind
<1>4. RetentionTypeOK'
  BY <1>1, <1>2, <1>3 DEF RetentionInv, RetentionTypeOK, Stored, markVars
<1>5. Owned'
  BY <1>2, <1>3, OwnedKept DEF RetentionInv
<1>6. Single' /\ Marked'
  BY <1>1, <1>2, SingleKept, MarkedKept DEF RetentionInv
<1>7. QED
  BY <1>3, <1>4, <1>5, <1>6 DEF RetentionInv, Stored

-----------------------------------------------------------------------------
(* Steps of the retention job, the source and the clients *)

LEMMA DestroyOldStep ==
  ASSUME RetentionInv, DestroyOld
  PROVE  RetentionInv'
<1>1. PICK k \in cleaner.old :
        /\ \/ ~ Held(k) /\ k \in preSnap /\ DestroyAll(k)
           \/ DestroyFails(k)
           \/ UNCHANGED <<zfsVars, clone>>
        /\ cleaner' = [cleaner EXCEPT !.old = @ \ {k}]
  BY DEF DestroyOld
<1>2. UNCHANGED <<source, next, markVars, job, overlapped, left>>
  BY DEF DestroyOld, history
<1>3. /\ Stored' /\ preSnap' \subseteq preSnap
      /\ preClone' \subseteq preClone
      /\ \A i \in preSnap' \ taken' : i \in preSnap \ taken
      /\ \A i \in preClone' : data'[i] = data[i]
  <2>1. CASE ~ Held(k) /\ DestroyAll(k)
    <3>1. preClone \subseteq Numbers
      BY DEF RetentionInv, RetentionTypeOK
    <3>2. QED
      BY <1>2, <2>1, <3>1, DestroyAllStored
  <2>2. CASE DestroyFails(k)
    BY <1>2, <2>2, DestroyFailsStored DEF zfsVars
  <2>3. CASE UNCHANGED <<zfsVars, clone>>
    BY <1>2, <2>3
    DEF Stored, RetentionInv, RetentionTypeOK, Older, ClonesHaveSnapshot, LabelMatchesData,
        Unlabelled, zfsVars
  <2>4. QED
    BY <1>1, <2>1, <2>2, <2>3
<1>4. cleaner' \in CleanerRecords
  BY <1>1 DEF RetentionInv, RetentionTypeOK, CleanerRecords
<1>5. RetentionTypeOK'
  BY <1>2, <1>3, <1>4 DEF RetentionInv, RetentionTypeOK, Stored, markVars
<1>6. Owned' /\ Single' /\ Marked'
  BY <1>2, <1>3 DEF RetentionInv, Owned, AtWork, Single, Marked, markVars
<1>7. QED
  BY <1>3, <1>5, <1>6 DEF RetentionInv, Stored

\* The cleaner looks at the pool or stops.
LEMMA CleanerStep ==
  ASSUME RetentionInv, ListBusy \/ ListOld \/ CleanedUp
  PROVE  RetentionInv'
<1>1. UNCHANGED <<source, next, zfsVars, markVars, job, clone, overlapped, left>>
  BY DEF ListBusy, ListOld, CleanedUp, history
<1>2. /\ taken \subseteq Numbers
      /\ AllButNewest \ cleaner.busy \subseteq Numbers
  BY DEF AllButNewest, RetentionInv, RetentionTypeOK
<1>3. cleaner' \in CleanerRecords
  <2>1. CASE ListBusy
    <3>1. {k \in taken : ClonesOn(k) # {}} \subseteq Numbers
      BY <1>2
    <3>2. QED
      BY <2>1, <3>1 DEF ListBusy, CleanerRecords
  <2>2. CASE ListOld
    BY <1>2, <2>2 DEF ListOld, CleanerRecords
  <2>3. CASE CleanedUp
    BY <2>3 DEF CleanedUp, NoClean, CleanerRecords
  <2>4. QED
    BY <2>1, <2>2, <2>3
<1>4. RetentionTypeOK'
  BY <1>1, <1>3 DEF RetentionInv, RetentionTypeOK, zfsVars, markVars
<1>5. QED
  BY <1>1, <1>4
  DEF RetentionInv, Older, ClonesHaveSnapshot, Owned, AtWork, Single, Marked, LabelMatchesData,
      Unlabelled, zfsVars, markVars

LEMMA AdvanceStep ==
  ASSUME RetentionInv, Advance
  PROVE  RetentionInv'
<1>1. /\ source < MaxState /\ source' = source + 1
      /\ UNCHANGED <<next, zfsVars, markVars, job, cleaner, clone, overlapped, left>>
  BY DEF Advance, history
<1>2. source' \in States
  BY <1>1, RetentionAssumption DEF RetentionInv, RetentionTypeOK, States, RetentionAssumption
<1>3. RetentionTypeOK'
  BY <1>1, <1>2 DEF RetentionInv, RetentionTypeOK, zfsVars, markVars
<1>4. QED
  BY <1>1, <1>3
  DEF RetentionInv, Older, ClonesHaveSnapshot, Owned, AtWork, Single, Marked, LabelMatchesData,
      Unlabelled, zfsVars, markVars

LEMMA ClientsStep ==
  ASSUME RetentionInv, NEW c \in Clones, ClientStep(c)
  PROVE  RetentionInv'
<1>1. UNCHANGED <<source, next, zfsVars, markVars, job, cleaner, overlapped, left>>
  BY DEF ClientStep, CreateClone, StartContainer, DestroyClone, history
<1>2. /\ clone' \in [Clones -> CloneRecords]
      /\ \A b \in Clones : clone'[b].at # "none" => clone'[b].snap \in taken
  <2>1. CASE CreateClone(c)
    <3>1. PICK k \in taken : clone' = [clone EXCEPT ![c] = [at |-> "dataset", snap |-> k]]
      BY <2>1 DEF CreateClone, Usable
    <3>2. k \in Numbers
      BY <3>1 DEF RetentionInv, RetentionTypeOK
    <3>3. [at |-> "dataset", snap |-> k] \in CloneRecords
      BY <3>2 DEF CloneRecords
    <3>4. QED
      BY <3>1, <3>3 DEF RetentionInv, RetentionTypeOK, ClonesHaveSnapshot
  <2>2. CASE StartContainer(c)
    BY <2>2 DEF StartContainer, RetentionInv, RetentionTypeOK, CloneRecords, ClonesHaveSnapshot
  <2>3. CASE DestroyClone(c)
    <3>1. NoClone \in CloneRecords /\ NoClone.at = "none"
      BY DEF NoClone, CloneRecords
    <3>2. QED
      BY <2>3, <3>1 DEF DestroyClone, RetentionInv, RetentionTypeOK, ClonesHaveSnapshot
  <2>4. QED
    BY <2>1, <2>2, <2>3 DEF ClientStep
<1>3. RetentionTypeOK'
  BY <1>1, <1>2 DEF RetentionInv, RetentionTypeOK, zfsVars, markVars
<1>4. QED
  BY <1>1, <1>2, <1>3
  DEF RetentionInv, Older, ClonesHaveSnapshot, Owned, AtWork, Single, Marked, LabelMatchesData,
      Unlabelled, zfsVars, markVars

-----------------------------------------------------------------------------
(* The theorems *)

LEMMA RetentionInvStep == RetentionInv /\ [Next]_retentionVars => RetentionInv'
<1> SUFFICES ASSUME RetentionInv, [Next]_retentionVars PROVE RetentionInv'
  OBVIOUS
<1>1. CASE \E j \in Jobs : Begin(j) \/ JobStep(j)
  BY <1>1, BeginStep, CreatePreSnapshotStep, LabelPreSnapshotStep, CreatePreCloneStep, PromoteStep, MarkStep,
     TakeSnapshotStep, UndoCloneStep, UndoSnapshotStep
  DEF JobStep
<1>2. CASE Cleaner
  BY <1>2, CleanerStep, DestroyOldStep DEF Cleaner
<1>3. CASE Advance
  BY <1>3, AdvanceStep
<1>4. CASE \E c \in Clones : ClientStep(c)
  BY <1>4, ClientsStep
<1>5. CASE UNCHANGED retentionVars
  BY <1>5
  DEF RetentionInv, RetentionTypeOK, Older, ClonesHaveSnapshot, Owned, AtWork, Single, Marked,
      LabelMatchesData, Unlabelled, retentionVars, zfsVars, markVars, history
<1>6. QED
  BY <1>1, <1>2, <1>3, <1>4, <1>5 DEF Next

LEMMA RetentionInvariant == RetentionSpec => []RetentionInv
BY RetentionInvInit, RetentionInvStep, PTL DEF RetentionSpec

\* Datasets exist together with what they are made from (zfs.go, CreateClone
\* and DestroySnapshot), and every job is at a step of run.
THEOREM RetentionTypes == RetentionSpec => []RetentionTypeOK
<1>1. RetentionInv => RetentionTypeOK
  BY DEF RetentionInv
<1>2. QED
  BY <1>1, RetentionInvariant, PTL

\* Neither CleanupSnapshots nor the deferred functions of run take the snapshot
\* of a clone that a container runs on, however many of them run at once.
THEOREM RunningClonesKeepSnapshots == RetentionSpec => []ClonesKeepSnapshot
<1>1. RetentionInv => ClonesKeepSnapshot
  BY DEF RetentionInv, ClonesHaveSnapshot, ClonesKeepSnapshot
<1>2. QED
  BY <1>1, RetentionInvariant, PTL

\* While snapshot jobs do not overlap, dblab:datastateat says the state of the
\* data that the promoted clone was made of.
THEOREM LabelsMatchData == RetentionSpec => []LabelMatchesData
<1>1. RetentionInv => LabelMatchesData
  BY DEF RetentionInv
<1>2. QED
  BY <1>1, RetentionInvariant, PTL

\* A pre-snapshot that run leaves without a snapshot is one whose `zfs set`
\* (zfs.go:297-301) or whose deferred `zfs destroy` (physical.go:336-342) failed; it
\* leaves none after any other failure and whatever retention destroys under it.
THEOREM NothingIsHalfBuilt == RetentionSpec => []NothingHalfBuilt
<1>1. RetentionInv => NothingHalfBuilt
  BY DEF RetentionInv, Owned, AtWork, At, NothingHalfBuilt
<1>2. QED
  BY <1>1, RetentionInvariant, PTL

-----------------------------------------------------------------------------
(* What retention leaves *)

\* A pre-snapshot that no job may still take back: it is complete or left behind,
Settled == {k \in preSnap : \A j \in Jobs : ~ (AtWork(j) /\ job[j].snap = k)}

\* and that the retention job is not going to destroy.
Spare == Settled \ cleaner.old

\* While the retention job has something to destroy, there are so many of them.
KeepInv ==
  cleaner.at = "destroy" /\ cleaner.old # {}
    => Cardinality(Spare) >= Limit - Cardinality(Jobs)

LEMMA SpareIsFinite ==
  ASSUME RetentionTypeOK
  PROVE  IsFiniteSet(preSnap) /\ IsFiniteSet(Spare) /\ Spare \subseteq preSnap
<1>1. IsFiniteSet(Numbers)
  BY RetentionAssumption, FS_Interval DEF RetentionAssumption, Numbers
<1>2. preSnap \subseteq Numbers /\ Spare \subseteq preSnap
  BY DEF RetentionTypeOK, Spare, Settled
<1> QED
  BY <1>1, <1>2, FS_Subset

\* What a job has at work is no more than there are jobs.
LEMMA OneEach ==
  ASSUME NEW T, \A k \in T : \E j \in Jobs : job[j].snap = k
  PROVE  IsFiniteSet(T) /\ Cardinality(T) <= Cardinality(Jobs)
<1> DEFINE Own == {j \in Jobs : job[j].snap \in T}
           f == [j \in Own |-> job[j].snap]
<1>1. IsFiniteSet(Own) /\ Cardinality(Own) <= Cardinality(Jobs)
  BY RetentionAssumption, FS_Subset DEF RetentionAssumption
<1>2. f \in Surjection(Own, T)
  BY DEF Surjection
<1>3. IsFiniteSet(T) /\ Cardinality(T) <= Cardinality(Own)
  <2> HIDE DEF Own, f
  <2> QED
    BY <1>1, <1>2, FS_Surjection
<1>4. Cardinality(T) \in Nat /\ Cardinality(Own) \in Nat /\ Cardinality(Jobs) \in Nat
  BY <1>1, <1>3, RetentionAssumption, FS_CardinalityType DEF RetentionAssumption
<1> QED
  BY <1>1, <1>3, <1>4

\* There is something to destroy only if Limit newer pre-snapshots stay, of
\* which each job may have one that is unfinished.
LEMMA ListOldKeeps ==
  ASSUME RetentionInv, ListOld
  PROVE  KeepInv'
<1> SUFFICES ASSUME cleaner'.old # {}
             PROVE  Cardinality(Spare') >= Limit - Cardinality(Jobs)
  BY DEF KeepInv
<1>1. /\ UNCHANGED <<preSnap, job>>
      /\ cleaner'.old = AllButNewest \ cleaner.busy
  BY DEF ListOld, zfsVars
<1>2. /\ IsFiniteSet(preSnap) /\ AllButNewest \subseteq preSnap /\ AllButNewest # {}
      /\ \A k \in preSnap : Position(k) \in Int
  <2>1. RetentionTypeOK /\ preSnap \subseteq Int /\ MaxSnapshots \in Int
    BY RetentionAssumption DEF RetentionInv, RetentionTypeOK, Numbers, RetentionAssumption
  <2>2. AllButNewest \subseteq preSnap
    BY DEF AllButNewest
  <2> QED
    BY <1>1, <2>1, <2>2, SpareIsFinite DEF Position
<1>3. PICK g \in AllButNewest : \A k \in AllButNewest : Position(k) <= Position(g)
  <2> DEFINE P == {Position(k) : k \in AllButNewest}
  <2>1. P \subseteq Int /\ P # {}
    BY <1>2
  <2>2. IsFiniteSet(P)
    <3> DEFINE f == [k \in AllButNewest |-> Position(k)]
    <3>1. IsFiniteSet(AllButNewest)
      BY <1>2, FS_Subset
    <3>2. f \in Surjection(AllButNewest, P)
      BY DEF Surjection
    <3> HIDE DEF P, f
    <3> QED
      BY <3>1, <3>2, FS_Surjection
  <2>3. PICK p \in P : \A q \in P : q <= p
    <3> HIDE DEF P
    <3> QED
      BY <2>1, <2>2, HasGreatest
  <2> QED
    BY <2>3
<1> DEFINE Newer == {k \in preSnap : Position(k) > Position(g)}
           Unsettled == Newer \ Settled
<1>4. Cardinality(Newer) >= Limit /\ IsFiniteSet(Newer)
  BY <1>2, FS_Subset DEF AllButNewest
<1>5. ASSUME NEW k \in Newer
      PROVE  k \notin AllButNewest
  <2>1. Position(k) \in Int /\ Position(g) \in Int /\ Position(k) > Position(g)
    BY <1>2, <1>3
  <2> QED
    BY <1>3, <2>1
<1>6. IsFiniteSet(Unsettled) /\ Cardinality(Unsettled) <= Cardinality(Jobs)
  <2>1. \A k \in Unsettled : \E j \in Jobs : job[j].snap = k
    BY DEF Settled
  <2> HIDE DEF Unsettled
  <2> QED
    BY <2>1, OneEach
<1>7. Newer \subseteq Unsettled \cup Spare'
  BY <1>1, <1>5 DEF Spare, Settled, AtWork
<1>8. IsFiniteSet(Spare')
  <2>1. Spare' \subseteq preSnap
    BY <1>1 DEF Spare, Settled
  <2> QED
    BY <1>2, <2>1, FS_Subset
<1>9. Cardinality(Newer) <= Cardinality(Unsettled) + Cardinality(Spare')
  <2> HIDE DEF Newer, Unsettled
  <2>1. PICK kept : kept = Spare'
    OBVIOUS
  <2>2. /\ IsFiniteSet(Unsettled \cup kept)
        /\ Cardinality(Unsettled \cup kept)
             = Cardinality(Unsettled) + Cardinality(kept) - Cardinality(Unsettled \cap kept)
    BY <1>6, <1>8, <2>1, FS_Union
  <2>3. Cardinality(Newer) <= Cardinality(Unsettled \cup kept)
    BY <1>7, <2>1, <2>2, FS_Subset
  <2>4. /\ Cardinality(Unsettled) \in Nat /\ Cardinality(kept) \in Nat
        /\ Cardinality(Unsettled \cap kept) \in Nat /\ Cardinality(Newer) \in Nat
        /\ Cardinality(Unsettled \cup kept) \in Nat
    <3>1. IsFiniteSet(Unsettled \cap kept)
      BY <1>6, FS_Subset
    <3> QED
      BY <1>4, <1>6, <1>8, <2>1, <2>2, <3>1, FS_CardinalityType
  <2> QED
    BY <2>1, <2>2, <2>3, <2>4
<1>10. /\ Cardinality(Newer) \in Nat /\ Cardinality(Unsettled) \in Nat
       /\ Cardinality(Spare') \in Nat /\ Cardinality(Jobs) \in Nat /\ Limit \in Nat
  <2> HIDE DEF Newer, Unsettled
  <2>1. PICK kept : kept = Spare'
    OBVIOUS
  <2> QED
    BY <1>4, <1>6, <1>8, <2>1, RetentionAssumption, FS_CardinalityType DEF RetentionAssumption
<1> QED
  <2> HIDE DEF Newer, Unsettled
  <2> QED
    BY <1>4, <1>6, <1>9, <1>10

\* Every other step leaves what was spare.
LEMMA SpareStays ==
  ASSUME RetentionInv, RetentionInv', KeepInv, Spare \subseteq Spare',
         cleaner'.at = "destroy" /\ cleaner'.old # {}
           => cleaner.at = "destroy" /\ cleaner.old # {}
  PROVE  KeepInv'
<1> SUFFICES ASSUME cleaner'.at = "destroy" /\ cleaner'.old # {}
             PROVE  Cardinality(Spare') >= Limit - Cardinality(Jobs)
  BY DEF KeepInv
<1>1. RetentionTypeOK /\ RetentionTypeOK'
  BY DEF RetentionInv
<1>2. IsFiniteSet(Spare')
  <2>1. Spare' \subseteq Numbers
    BY <1>1 DEF RetentionTypeOK, Spare, Settled
  <2>2. IsFiniteSet(Numbers)
    BY RetentionAssumption, FS_Interval DEF RetentionAssumption, Numbers
  <2> QED
    BY <2>1, <2>2, FS_Subset
<1>3. PICK kept : kept = Spare'
  OBVIOUS
<1>4. Cardinality(Spare) <= Cardinality(kept)
  BY <1>2, <1>3, FS_Subset
<1>5. /\ Cardinality(Spare) \in Nat /\ Cardinality(kept) \in Nat
      /\ Cardinality(Jobs) \in Nat /\ Limit \in Nat
  BY <1>1, <1>2, <1>3, SpareIsFinite, RetentionAssumption, FS_CardinalityType
  DEF RetentionAssumption
<1> QED
  BY <1>3, <1>4, <1>5 DEF KeepInv

\* A job takes back only what it is at work on, and begins with what is new.
LEMMA JobSpares ==
  ASSUME NEW j \in Jobs, OnlyMoved(j), UNCHANGED cleaner,
         \A k \in preSnap : k \in preSnap' \/ (AtWork(j) /\ job[j].snap = k),
         AtWork(j)' => \/ AtWork(j) /\ job'[j].snap = job[j].snap
                       \/ job'[j].snap \notin preSnap
  PROVE  Spare \subseteq Spare'
BY DEF Spare, Settled, OnlyMoved, AtWork

LEMMA JobStepSpares ==
  ASSUME RetentionInv, NEW j \in Jobs, Begin(j) \/ JobStep(j)
  PROVE  Spare \subseteq Spare' /\ UNCHANGED cleaner /\ job' # job
<1>1. RetentionTypeOK
  BY DEF RetentionInv
<1>2. CASE Begin(j)
  <2>1. job[j].at = "idle" /\ GoTo(j, "snapshot") /\ UNCHANGED <<zfsVars, cleaner>>
    BY <1>2 DEF Begin, At
  <2>2. OnlyMoved(j) /\ job'[j].at = "snapshot"
    BY <1>1, <2>1, JobMoves DEF JobSteps
  <2> QED
    BY <2>1, <2>2, JobSpares DEF zfsVars, AtWork
<1>3. CASE CreatePreSnapshot(j)
  <2>1. job[j].at = "snapshot" /\ UNCHANGED cleaner /\ preSnap \subseteq preSnap'
    BY <1>3 DEF CreatePreSnapshot, At
  <2>2. CASE Finish(j)
    BY <1>1, <2>1, <2>2, JobEnds, JobSpares DEF AtWork
  <2>3. CASE job' = [job EXCEPT ![j] = [at |-> "set", snap |-> next]]
    <3>1. OnlyMoved(j) /\ job'[j].at = "set" /\ job'[j].snap = next
      BY <1>1, <2>3 DEF RetentionTypeOK, OnlyMoved
    <3>2. next \notin preSnap
      BY DEF RetentionInv, RetentionTypeOK, Older
    <3> QED
      BY <2>1, <3>1, <3>2, JobSpares
  <2> QED
    BY <1>3, <2>2, <2>3 DEF CreatePreSnapshot
<1>4. ASSUME AtWork(j), UNCHANGED cleaner,
             \A k \in preSnap : k \in preSnap' \/ job[j].snap = k,
             Finish(j) \/ \E step \in JobSteps : step # job[j].at /\ GoTo(j, step)
      PROVE  Spare \subseteq Spare' /\ job' # job
  <2>1. CASE Finish(j)
    <3>1. OnlyMoved(j) /\ job'[j].at = "idle"
      BY <1>1, <2>1, JobEnds
    <3> QED
      BY <1>4, <3>1, JobSpares DEF AtWork
  <2>2. ASSUME NEW step \in JobSteps, step # job[j].at, GoTo(j, step)
        PROVE  Spare \subseteq Spare' /\ job' # job
    <3>1. OnlyMoved(j) /\ job'[j].at = step /\ job'[j].snap = job[j].snap
      BY <1>1, <2>2, JobMoves
    <3> QED
      BY <1>4, <2>2, <3>1, JobSpares
  <2> QED
    BY <1>4, <2>1, <2>2
<1>11. CASE LabelPreSnapshot(j)
  BY <1>4, <1>11 DEF LabelPreSnapshot, At, AtWork, JobSteps
<1>5. CASE CreatePreClone(j)
  BY <1>4, <1>5 DEF CreatePreClone, At, AtWork, JobSteps
<1>6. CASE Promote(j)
  BY <1>4, <1>6 DEF Promote, At, AtWork, zfsVars, JobSteps
<1>7. CASE Mark(j)
  BY <1>4, <1>7 DEF Mark, At, AtWork, zfsVars, JobSteps
<1>8. CASE TakeSnapshot(j)
  <2>1. AtWork(j) /\ UNCHANGED <<preSnap, cleaner>>
    BY <1>8 DEF TakeSnapshot, At, AtWork
  <2>2. Finish(j) \/ (GoTo(j, "undo clone") /\ job[j].at # "undo clone")
    BY <1>8 DEF TakeSnapshot, At
  <2> QED
    BY <1>4, <2>1, <2>2 DEF JobSteps
<1>9. CASE UndoClone(j)
  <2>1. job[j].at = "undo clone" /\ UNCHANGED <<preSnap, cleaner>> /\ GoTo(j, "undo snapshot")
    BY <1>9 DEF UndoClone, At, DestroyFails, zfsVars
  <2> QED
    BY <1>4, <2>1 DEF AtWork, JobSteps
<1>10. CASE UndoSnapshot(j)
  <2>1. /\ job[j].at = "undo snapshot" /\ UNCHANGED cleaner /\ Finish(j)
        /\ preSnap' = preSnap \/ preSnap' = preSnap \ {job[j].snap}
    BY <1>10 DEF UndoSnapshot, At, DestroyFails, DestroyAll, zfsVars
  <2> QED
    BY <1>4, <2>1 DEF AtWork
<1> QED
  BY <1>2, <1>3, <1>5, <1>6, <1>7, <1>8, <1>9, <1>10, <1>11 DEF JobStep

LEMMA DestroyOldSpares ==
  ASSUME DestroyOld
  PROVE  /\ Spare \subseteq Spare' /\ cleaner'.at = cleaner.at /\ cleaner.old # {}
         /\ Spare \subseteq preSnap'
<1>1. PICK k \in cleaner.old :
        /\ preSnap' = preSnap \/ preSnap' = preSnap \ {k}
        /\ cleaner' = [cleaner EXCEPT !.old = @ \ {k}]
  BY DEF DestroyOld, DestroyAll, DestroyFails, zfsVars
<1>2. UNCHANGED job
  BY DEF DestroyOld
<1> QED
  BY <1>1, <1>2 DEF Spare, Settled, AtWork

\* What keeps the snapshots that are spare, step by step.
LEMMA KeepInvStep == RetentionInv /\ KeepInv /\ [Next]_retentionVars => KeepInv'
<1> SUFFICES ASSUME RetentionInv, KeepInv, [Next]_retentionVars PROVE KeepInv'
  OBVIOUS
<1>1. RetentionInv'
  BY RetentionInvStep
<1>2. CASE \E j \in Jobs : Begin(j) \/ JobStep(j)
  BY <1>1, <1>2, JobStepSpares, SpareStays
<1>3. CASE ListBusy \/ CleanedUp
  BY <1>3 DEF ListBusy, CleanedUp, NoClean, KeepInv
<1>4. CASE ListOld
  BY <1>4, ListOldKeeps
<1>5. CASE DestroyOld
  <2>1. /\ Spare \subseteq Spare' /\ cleaner'.at = cleaner.at /\ cleaner.old # {}
    BY <1>5, DestroyOldSpares
  <2> QED
    BY <1>1, <2>1, SpareStays
<1>6. CASE UNCHANGED <<preSnap, job, cleaner>>
  <2>1. Spare' = Spare
    BY <1>6 DEF Spare, Settled, AtWork
  <2> QED
    BY <1>6, <2>1 DEF KeepInv
<1>7. CASE Advance \/ \E c \in Clones : ClientStep(c)
  BY <1>6, <1>7 DEF Advance, ClientStep, CreateClone, StartContainer, DestroyClone, zfsVars
<1>8. CASE UNCHANGED retentionVars
  BY <1>6, <1>8 DEF retentionVars, zfsVars
<1> QED
  BY <1>2, <1>3, <1>4, <1>5, <1>7, <1>8 DEF Next, Cleaner

\* `head -n -limit` of CleanupSnapshots counts unfinished pre-snapshots, of which
\* there is one for each job at most, and those that failed jobs have left behind:
\* when a snapshot goes at the hands of retention, the others that stay are at least
\* Limit less these two.
THEOREM RetentionLeavesEnough == RetentionSpec => RetentionKeeps
<1>1. RetentionInv /\ KeepInv /\ RetentionInv' /\ [Next]_retentionVars
        => [cleaner.at = "destroy" /\ Usable' # Usable /\ UNCHANGED job
              => Cardinality(Usable') + Cardinality(Leaked')
                   >= Limit - Cardinality(Jobs)]_retentionVars
  <2> SUFFICES ASSUME RetentionInv, KeepInv, RetentionInv', [Next]_retentionVars,
                      cleaner.at = "destroy", taken' # taken, UNCHANGED job
               PROVE  Cardinality(taken') + Cardinality(Leaked') >= Limit - Cardinality(Jobs)
    BY DEF Usable
  <2>1. DestroyOld
    <3>1. ~ \E j \in Jobs : Begin(j) \/ JobStep(j)
      BY JobStepSpares
    <3>2. Next
      BY DEF retentionVars, zfsVars
    <3> QED
      BY <3>1, <3>2 DEF Next, Cleaner, ListBusy, ListOld, CleanedUp, Advance, ClientStep,
         CreateClone, StartContainer, DestroyClone, zfsVars
  <2>2. /\ Cardinality(Spare) >= Limit - Cardinality(Jobs)
        /\ Spare \subseteq preSnap' /\ Spare \subseteq Spare'
    BY <2>1, DestroyOldSpares DEF KeepInv
  <2>3. PICK usable, leaked : usable = taken' /\ leaked = Leaked'
    OBVIOUS
  <2>4. Spare \subseteq usable \cup leaked
    BY <2>2, <2>3 DEF RetentionInv, Owned, Spare, Settled, Leaked
  <2>5. IsFiniteSet(usable) /\ IsFiniteSet(leaked)
    <3>1. usable \subseteq Numbers /\ leaked \subseteq Numbers
      BY <2>3 DEF RetentionInv, RetentionTypeOK, Leaked
    <3>2. IsFiniteSet(Numbers)
      BY RetentionAssumption, FS_Interval DEF RetentionAssumption, Numbers
    <3> QED
      BY <3>1, <3>2, FS_Subset
  <2>6. /\ IsFiniteSet(usable \cup leaked)
        /\ Cardinality(usable \cup leaked)
             = Cardinality(usable) + Cardinality(leaked) - Cardinality(usable \cap leaked)
    BY <2>5, FS_Union
  <2>7. IsFiniteSet(Spare) /\ Cardinality(Spare) <= Cardinality(usable \cup leaked)
    BY <2>4, <2>6, FS_Subset
  <2>8. /\ Cardinality(Spare) \in Nat /\ Cardinality(usable) \in Nat
        /\ Cardinality(leaked) \in Nat /\ Cardinality(usable \cap leaked) \in Nat
        /\ Cardinality(Jobs) \in Nat /\ Limit \in Nat
    <3>1. IsFiniteSet(usable \cap leaked)
      BY <2>5, FS_Subset
    <3> QED
      BY <2>5, <2>7, <3>1, RetentionAssumption, FS_CardinalityType DEF RetentionAssumption
  <2> QED
    BY <2>2, <2>3, <2>6, <2>7, <2>8
<1>2. Init => KeepInv
  BY DEF Init, NoClean, KeepInv
<1> QED
  BY <1>1, <1>2, RetentionInvInit, RetentionInvStep, KeepInvStep, PTL
  DEF RetentionSpec, RetentionKeeps

=============================================================================
