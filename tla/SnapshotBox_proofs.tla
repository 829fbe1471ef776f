-------------------------- MODULE SnapshotBox_proofs --------------------------
(***************************************************************************)
(* Proofs about SnapshotBox: its types, and that the numbers of clones     *)
(* follow the registry, for any number of goroutines, clones, snapshots,   *)
(* resets and restarts.                                                    *)
(***************************************************************************)
EXTENDS SnapshotBox, FiniteFacts, FiniteSetTheorems, TLAPS

\* Of the wrappers of an ID no more than one is registered.
OneEntry ==
  \A c, d \in Clones :
    clone[c].registered /\ clone[d].registered /\ clone[c].id = clone[d].id => c = d

\* The goroutine that creates a clone is alone with it until it is registered.
CreatesAlone ==
  \A g \in Goroutines, c \in Clones :
    op[g].at \in {"count", "pick", "set"} /\ op[g].clone = {c} =>
      /\ ~ clone[c].registered
      /\ \A h \in Goroutines \ {g} : op[h].clone # {c}

\* Every step but those of a fetch works on a clone.
WorksOnClone ==
  \A g \in Goroutines : op[g].at \notin {"idle", "count"} =>
    \E c \in Clones : op[g].clone = {c}

\* A clone that is to be counted down for is not registered any more.
DeletedFirst ==
  \A g \in Goroutines, c \in Clones :
    At(g, "decrement") /\ op[g].clone = {c} => ~ clone[c].registered

\* A fetch that nothing has disturbed has counted the registry as it is, and no
\* operation has yet to change a number.
FetchCounts ==
  \A g \in Goroutines : At(g, "count") /\ ~ op[g].torn =>
    /\ \A h \in Goroutines : op[h].at \notin Windows
    /\ \A s \in op[g].entries \ op[g].left : op[g].number[s] = Registered(s)

BoxInv ==
  /\ SnapshotBoxTypeOK
  /\ OneEntry
  /\ CreatesAlone
  /\ WorksOnClone
  /\ DeletedFirst
  /\ FetchCounts
  /\ CountsFollowRegistry

-----------------------------------------------------------------------------
(* The types of what is counted and looked for *)

LEMMA NewestType ==
  ASSUME NEW n \in Nat, NEW S, S \subseteq 1 .. n
  PROVE  Newest(S) \in 0 .. n
<1>1. CASE S # {}
  <2>1. IsFiniteSet(1 .. n)
    BY FS_Interval
  <2>2. IsFiniteSet(S)
    BY <2>1, FS_Subset
  <2>3. \A s \in S : s \in Int /\ s \in 0 .. n
    OBVIOUS
  <2>4. S \subseteq Int
    BY <2>3
  <2>5. \E s \in S : \A t \in S : t <= s
    BY <1>1, <2>2, <2>4, HasGreatest
  <2>6. Newest(S) \in S
    BY <1>1, <2>5 DEF Newest
  <2> QED
    BY <2>3, <2>6
<1>2. CASE S = {}
  BY <1>2 DEF Newest
<1> QED
  BY <1>1, <1>2

LEMMA CountType ==
  /\ \A S \in SUBSET Clones : IsFiniteSet(S) /\ Cardinality(S) \in Nat
  /\ \A S \in SUBSET Goroutines : IsFiniteSet(S) /\ Cardinality(S) \in Nat
BY BoxAssumption, FS_Subset, FS_CardinalityType

LEMMA RegisteredType == \A s : Registered(s) \in Nat
BY CountType DEF Registered

-----------------------------------------------------------------------------
(* The operation of a goroutine *)

OpRecords ==
  [at : OpSteps, clone : {{}} \cup {{c} : c \in Clones}, snap : 0 .. taken, old : 0 .. taken,
   entries : SUBSET (1 .. taken), left : SUBSET (1 .. taken), number : Counts,
   torn : BOOLEAN]

CloneStates ==
  [id : IDs \cup {"none"}, registered : BOOLEAN, session : BOOLEAN, snap : 0 .. taken]

Boxes == [items : SUBSET (1 .. taken), number : Counts, latest : 0 .. taken]

\* The type invariant, with its records named.
LEMMA TypeParts ==
  SnapshotBoxTypeOK <=>
    /\ taken \in 1 .. MaxSnapshots /\ pool \subseteq 1 .. taken
    /\ box \in Boxes
    /\ clone \in [Clones -> CloneStates]
    /\ op \in [Goroutines -> OpRecords]
    /\ resets \in 0 .. MaxResets /\ drifted \in BOOLEAN
BY DEF SnapshotBoxTypeOK, OpRecords, CloneStates, Boxes

LEMMA TakenNumbers ==
  ASSUME SnapshotBoxTypeOK
  PROVE  1 .. taken \subseteq Numbers
<1>1. taken \in Nat /\ MaxSnapshots \in Nat /\ taken <= MaxSnapshots
  BY BoxAssumption, TypeParts
<1> QED
  BY <1>1 DEF Numbers

LEMMA NoOpType == SnapshotBoxTypeOK => NoOp \in OpRecords
BY DEF NoOp, OpRecords, OpSteps, Counts, Zero, SnapshotBoxTypeOK

\* How the goroutine g goes on, and what that does to the others.
LEMMA Continued ==
  ASSUME SnapshotBoxTypeOK, NEW g \in Goroutines, NEW o \in OpRecords,
         Continue(g, o) \/ Disturb(g, o)
  PROVE  /\ op' \in [Goroutines -> OpRecords]
         /\ op'[g] = o
         /\ \A h \in Goroutines \ {g} :
              /\ op'[h].at = op[h].at /\ op'[h].clone = op[h].clone
              /\ op'[h].snap = op[h].snap /\ op'[h].old = op[h].old
              /\ op'[h].entries = op[h].entries /\ op'[h].left = op[h].left
              /\ op'[h].number = op[h].number
              /\ Disturb(g, o) /\ At(h, "count") => op'[h].torn
              /\ Continue(g, o) => op'[h] = op[h]
<1>1. op \in [Goroutines -> OpRecords]
  BY TypeParts
<1>2. ASSUME NEW r \in OpRecords
      PROVE  /\ [r EXCEPT !.torn = TRUE] \in OpRecords
             /\ [r EXCEPT !.torn = TRUE].torn
  BY DEF OpRecords
<1>3. ASSUME NEW h \in Goroutines \ {g}, Disturb(g, o), At(h, "count")
      PROVE  op'[h].torn
  BY <1>1, <1>2, <1>3 DEF Disturb
<1>4. CASE Continue(g, o)
  BY <1>1, <1>3, <1>4 DEF Continue
<1>5. CASE Disturb(g, o) /\ ~ Continue(g, o)
  <2>1. op' \in [Goroutines -> OpRecords]
    BY <1>1, <1>2, <1>5 DEF Disturb
  <2>2. op'[g] = o
    BY <1>5 DEF Disturb
  <2>3. ASSUME NEW h \in Goroutines \ {g}
        PROVE  op'[h] = IF At(h, "count") THEN [op[h] EXCEPT !.torn = TRUE] ELSE op[h]
    BY <1>5 DEF Disturb
  <2>4. ASSUME NEW h \in Goroutines \ {g}
        PROVE  /\ op'[h].at = op[h].at /\ op'[h].clone = op[h].clone
               /\ op'[h].snap = op[h].snap /\ op'[h].old = op[h].old
               /\ op'[h].entries = op[h].entries /\ op'[h].left = op[h].left
               /\ op'[h].number = op[h].number
    BY <1>1, <2>3 DEF OpRecords
  <2> QED
    BY <1>3, <1>5, <2>1, <2>2, <2>4
<1> QED
  BY <1>4, <1>5

LEMMA TheClone ==
  ASSUME NEW g \in Goroutines, NEW c \in Clones, op[g].clone = {c}
  PROVE  CloneOf(g) = c
BY DEF CloneOf

\* A goroutine goes on to another step for the same clone.
LEMMA NextOp ==
  ASSUME NEW r \in OpRecords, NEW a \in OpSteps
  PROVE  LET q == [r EXCEPT !.at = a]
         IN q \in OpRecords /\ q.at = a /\ q.clone = r.clone
BY DEF OpRecords

LEMMA FetchOp ==
  ASSUME SnapshotBoxTypeOK, NEW o \in OpRecords, NEW torn \in BOOLEAN
  PROVE  LET r == [o EXCEPT !.at = "count", !.entries = pool, !.left = pool, !.torn = torn]
         IN /\ r \in OpRecords
            /\ r.at = "count" /\ r.clone = o.clone /\ r.entries = pool /\ r.left = pool
            /\ r.torn = torn
BY DEF OpRecords, OpSteps, SnapshotBoxTypeOK

\* A fetch begins: what it has counted is right, as it has counted nothing.
LEMMA Fetched ==
  ASSUME SnapshotBoxTypeOK, NEW g \in Goroutines, NEW o \in OpRecords, Fetch(g, o)
  PROVE  /\ op' \in [Goroutines -> OpRecords]
         /\ op'[g].at = "count" /\ op'[g].clone = o.clone
         /\ op'[g].entries = op'[g].left
         /\ op'[g].torn = \E h \in Goroutines : op[h].at \in Windows
         /\ \A h \in Goroutines \ {g} : op'[h] = op[h]
<1> DEFINE t == \E h \in Goroutines : op[h].at \in Windows
           r == [o EXCEPT !.at = "count", !.entries = pool, !.left = pool, !.torn = t]
<1>1. t \in BOOLEAN
  OBVIOUS
<1>2. /\ r \in OpRecords
      /\ r.at = "count" /\ r.clone = o.clone /\ r.entries = pool /\ r.left = pool
      /\ r.torn = t
  <2> HIDE DEF t
  <2> QED
    BY <1>1, FetchOp
<1>3. Continue(g, r)
  BY DEF Fetch
<1> HIDE DEF r, t
<1>4. /\ op' \in [Goroutines -> OpRecords] /\ op'[g] = r
      /\ \A h \in Goroutines \ {g} : op'[h] = op[h]
  BY <1>2, <1>3, Continued
<1> QED
  BY <1>2, <1>4 DEF t

-----------------------------------------------------------------------------
(* What the steps leave alone *)

LEMMA TypesStay ==
  ASSUME SnapshotBoxTypeOK, taken' = taken, pool' \subseteq 1 .. taken, box' \in Boxes,
         clone' \in [Clones -> CloneStates], op' \in [Goroutines -> OpRecords],
         resets' \in 0 .. MaxResets, drifted' \in BOOLEAN
  PROVE  SnapshotBoxTypeOK'
BY DEF SnapshotBoxTypeOK, OpRecords, CloneStates, Boxes

Creating == {"count", "pick", "set"}

\* A goroutine that goes on with its clone, is done with it, or takes on one
\* that is registered.
LEMMA StructureStays ==
  ASSUME BoxInv, NEW g \in Goroutines,
         \A h \in Goroutines \ {g} : op'[h].at = op[h].at /\ op'[h].clone = op[h].clone,
         \A c \in Clones :
           clone'[c].registered = clone[c].registered /\ clone'[c].id = clone[c].id,
         op'[g].at # "decrement",
         \/ op'[g].at \in {"idle", "count"} /\ op'[g].clone = {}
         \/ /\ op'[g].clone = op[g].clone
            /\ op'[g].at \in Creating => op[g].at \in Creating
            /\ op'[g].at = "count" \/ op[g].at \notin {"idle", "count"} \/ op[g].clone # {}
         \/ /\ op'[g].at \notin Creating
            /\ \E c \in Clones : op'[g].clone = {c} /\ clone[c].registered
  PROVE  CreatesAlone' /\ WorksOnClone' /\ DeletedFirst' /\ OneEntry'
<1>1. \A c \in Clones :
        clone'[c].registered = clone[c].registered /\ clone'[c].id = clone[c].id
  OBVIOUS
<1>2. \/ op'[g].clone \in {{}, op[g].clone}
      \/ \E c \in Clones : op'[g].clone = {c} /\ clone[c].registered
  OBVIOUS
<1>3. OneEntry'
  BY <1>1 DEF BoxInv, OneEntry
<1>4. CreatesAlone'
  <2> SUFFICES ASSUME NEW h \in Goroutines, NEW c \in Clones,
                      op'[h].at \in Creating, op'[h].clone = {c}
               PROVE  /\ ~ clone[c].registered
                      /\ \A i \in Goroutines \ {h} : op'[i].clone # {c}
    BY <1>1 DEF CreatesAlone, Creating
  <2>1. op[h].at \in Creating /\ op[h].clone = {c}
    <3>1. {c} # {}
      OBVIOUS
    <3> QED
      BY <3>1 DEF Creating
  <2>2. ~ clone[c].registered /\ \A i \in Goroutines \ {h} : op[i].clone # {c}
    BY <2>1 DEF BoxInv, CreatesAlone, Creating
  <2> QED
    BY <1>2, <2>2
<1>5. WorksOnClone'
  <2> SUFFICES ASSUME NEW h \in Goroutines, op'[h].at \notin {"idle", "count"}
               PROVE  \E c \in Clones : op'[h].clone = {c}
    BY DEF WorksOnClone
  <2>1. CASE h # g
    BY <2>1 DEF BoxInv, WorksOnClone
  <2>2. CASE h = g /\ op'[g].clone = op[g].clone /\ op[g].at \notin {"idle", "count"}
    BY <2>2 DEF BoxInv, WorksOnClone
  <2>3. CASE h = g /\ op'[g].clone = op[g].clone /\ op[g].clone # {}
    <3>1. op[g].clone \in {{}} \cup {{c} : c \in Clones}
      BY TypeParts DEF BoxInv, OpRecords
    <3> QED
      BY <2>3, <3>1
  <2> QED
    BY <2>1, <2>2, <2>3
<1>6. DeletedFirst'
  <2> SUFFICES ASSUME NEW h \in Goroutines, NEW c \in Clones,
                      op'[h].at = "decrement", op'[h].clone = {c}
               PROVE  ~ clone[c].registered
    BY <1>1 DEF DeletedFirst, At
  <2> QED
    BY DEF BoxInv, DeletedFirst, At
<1> QED
  BY <1>3, <1>4, <1>5, <1>6

\* A wrapper that is not registered is not counted, whatever it is of.
LEMMA CountedAlike ==
  ASSUME \A c \in Clones :
           /\ clone'[c].registered = clone[c].registered
           /\ clone'[c].snap = clone[c].snap \/ Free(c)
  PROVE  \A s : Registered(s)' = Registered(s)
<1>1. \A s : {c \in Clones : clone'[c].registered /\ clone'[c].snap = s}
               = {c \in Clones : clone[c].registered /\ clone[c].snap = s}
  BY DEF Free
<1> QED
  BY <1>1 DEF Registered

\* A step that changes neither the registry nor a number.
LEMMA QuietCounts ==
  ASSUME BoxInv, NEW g \in Goroutines,
         \A h \in Goroutines \ {g} : op'[h] = op[h],
         \A c \in Clones :
           /\ clone'[c].registered = clone[c].registered
           /\ clone'[c].snap = clone[c].snap \/ Free(c),
         box' = box, drifted' = drifted,
         op[g].at \notin Windows, op'[g].at \notin Windows,
         op'[g].at = "count" /\ ~ op'[g].torn =>
           /\ \A h \in Goroutines : op[h].at \notin Windows
           /\ \A s \in op'[g].entries \ op'[g].left : op'[g].number[s] = Registered(s)
  PROVE  FetchCounts' /\ CountsFollowRegistry'
<1>1. \A s : Registered(s)' = Registered(s)
  BY CountedAlike
<1>2. FetchCounts'
  <2> SUFFICES ASSUME NEW h \in Goroutines, op'[h].at = "count", ~ op'[h].torn
               PROVE  /\ \A i \in Goroutines : op'[i].at \notin Windows
                      /\ \A s \in op'[h].entries \ op'[h].left :
                           op'[h].number[s] = Registered(s)
    BY <1>1 DEF FetchCounts, At, Windows
  <2>1. CASE h = g
    BY <2>1
  <2>2. CASE h # g
    <3>1. /\ \A i \in Goroutines : op[i].at \notin Windows
          /\ \A s \in op[h].entries \ op[h].left : op[h].number[s] = Registered(s)
      BY <2>2 DEF BoxInv, FetchCounts, At
    <3> QED
      BY <2>2, <3>1
  <2> QED
    BY <2>1, <2>2
<1>3. ASSUME NEW h \in Goroutines
      PROVE  op'[h] = op[h] \/ (op'[h].at \notin Windows /\ op[h].at \notin Windows)
  OBVIOUS
<1>4. ASSUME NEW s
      PROVE  Rising(s)' = Rising(s)
  BY <1>3 DEF Rising, Windows
<1>5. ASSUME NEW s
      PROVE  Falling(s)' = Falling(s)
  <2>1. \A h \in Goroutines :
          op[h].at = "decrement" => CloneOf(h) \in Clones /\ ~ Free(CloneOf(h))
    BY DEF BoxInv, WorksOnClone, CloneOf, Free
  <2>2. ASSUME NEW h \in Goroutines
        PROVE  h \in Falling(s)' <=> h \in Falling(s)
    <3>1. CASE op'[h] = op[h]
      <4>1. CloneOf(h)' = CloneOf(h)
        BY <3>1 DEF CloneOf
      <4>2. op[h].at = "decrement" => clone'[CloneOf(h)].snap = clone[CloneOf(h)].snap
        BY <2>1
      <4> QED
        BY <3>1, <4>1, <4>2 DEF Falling, At
    <3>2. CASE op'[h].at \notin Windows /\ op[h].at \notin Windows
      BY <3>2 DEF Falling, At, Windows
    <3> QED
      BY <1>3, <3>1, <3>2
  <2> QED
    BY <2>2 DEF Falling
<1>6. CountsFollowRegistry'
  BY <1>1, <1>4, <1>5 DEF BoxInv, CountsFollowRegistry
<1> QED
  BY <1>2, <1>6

-----------------------------------------------------------------------------
(* The quiet steps, which leave the registry and the numbers alone *)

LEMMA OpType == BoxInv => \A g \in Goroutines : op[g] \in OpRecords
BY TypeParts DEF BoxInv

\* A step of a goroutine that leaves alone all but its operation and, at most,
\* the session of a clone.
LEMMA QuietStep ==
  ASSUME BoxInv, NEW g \in Goroutines, NEW o \in OpRecords, Continue(g, o),
         UNCHANGED <<pool, taken, box, drifted>>,
         clone' \in [Clones -> CloneStates], resets' \in 0 .. MaxResets,
         CreatesAlone' /\ WorksOnClone' /\ DeletedFirst' /\ OneEntry',
         \A c \in Clones :
           clone'[c].registered = clone[c].registered /\ clone'[c].snap = clone[c].snap,
         op[g].at \notin Windows, o.at \notin Windows \cup {"count"}
  PROVE  BoxInv'
<1>1. /\ op' \in [Goroutines -> OpRecords] /\ op'[g] = o
      /\ \A h \in Goroutines \ {g} : op'[h] = op[h]
  BY Continued DEF BoxInv
<1>2. SnapshotBoxTypeOK'
  BY <1>1, TypeParts, TypesStay DEF BoxInv
<1>3. FetchCounts' /\ CountsFollowRegistry'
  BY <1>1, QuietCounts
<1> QED
  BY <1>2, <1>3 DEF BoxInv

\* The same, when the goroutine stays with its clone or is done with it.
LEMMA QuietSameClone ==
  ASSUME BoxInv, NEW g \in Goroutines, NEW o \in OpRecords, Continue(g, o),
         UNCHANGED <<pool, taken, box, clone, resets, drifted>>,
         op[g].at \notin Windows \cup {"idle", "count"},
         o.at \notin Windows \cup {"count"},
         o = NoOp \/ (o.clone = op[g].clone /\ (o.at \in Creating => op[g].at \in Creating))
  PROVE  BoxInv'
<1>1. /\ op'[g] = o
      /\ \A h \in Goroutines \ {g} : op'[h] = op[h]
  BY Continued DEF BoxInv
<1>2. NoOp.at = "idle" /\ NoOp.clone = {}
  BY DEF NoOp
<1>3. CreatesAlone' /\ WorksOnClone' /\ DeletedFirst' /\ OneEntry'
  BY <1>1, <1>2, StructureStays DEF Windows
<1>4. /\ clone' \in [Clones -> CloneStates] /\ resets' \in 0 .. MaxResets
      /\ op[g].at \notin Windows
  BY TypeParts DEF BoxInv
<1> QED
  BY <1>3, <1>4, QuietStep

LEMMA PickInv ==
  ASSUME BoxInv, NEW g \in Goroutines, PickSnapshot(g)
  PROVE  BoxInv'
<1>1. op[g].at = "pick"
  BY DEF PickSnapshot, At
<1>2. UNCHANGED <<pool, taken, box, clone, resets, drifted>>
  BY DEF PickSnapshot
<1>3. CASE Continue(g, NoOp)
  <2>1. NoOp \in OpRecords /\ NoOp.at = "idle"
    BY NoOpType DEF BoxInv, NoOp
  <2> QED
    BY <1>1, <1>2, <1>3, <2>1, QuietSameClone DEF Windows
<1>4. CASE Continue(g, [op[g] EXCEPT !.at = "set", !.snap = IF @ = 0 THEN box.latest ELSE @])
  <2>1. op[g] \in OpRecords /\ box.latest \in 0 .. taken /\ op[g].snap \in 0 .. taken
    BY OpType, TypeParts DEF BoxInv, OpRecords, Boxes
  <2>2. PICK s \in 0 .. taken : s = IF op[g].snap = 0 THEN box.latest ELSE op[g].snap
    BY <2>1
  <2>3. Continue(g, [op[g] EXCEPT !.at = "set", !.snap = s])
    BY <1>4, <2>2
  <2>4. PICK o \in OpRecords : o.at = "set" /\ o.clone = op[g].clone /\ Continue(g, o)
    <3> DEFINE o == [op[g] EXCEPT !.at = "set", !.snap = s]
    <3>1. o \in OpRecords /\ o.at = "set" /\ o.clone = op[g].clone
      BY <2>1 DEF OpRecords, OpSteps
    <3>2. Continue(g, o)
      BY <2>3
    <3> HIDE DEF o
    <3> QED
      BY <3>1, <3>2
  <2> QED
    BY <1>1, <1>2, <2>4, QuietSameClone DEF Windows, Creating
<1> QED
  BY <1>3, <1>4 DEF PickSnapshot

LEMMA StopInv ==
  ASSUME BoxInv, NEW g \in Goroutines, Stop(g)
  PROVE  BoxInv'
<1>1. op[g].at = "stop"
  BY DEF Stop, At
<1>2. UNCHANGED <<pool, taken, box, clone, resets, drifted>>
  BY DEF Stop
<1>3. CASE Continue(g, NoOp)
  <2>1. NoOp \in OpRecords /\ NoOp.at = "idle"
    BY NoOpType DEF BoxInv, NoOp
  <2> QED
    BY <1>1, <1>2, <1>3, <2>1, QuietSameClone DEF Windows
<1>4. CASE Continue(g, [op[g] EXCEPT !.at = "delete"])
  <2>1. op[g] \in OpRecords /\ "delete" \in OpSteps
    BY OpType DEF OpSteps
  <2>2. PICK o \in OpRecords : o.at = "delete" /\ o.clone = op[g].clone /\ Continue(g, o)
    BY <1>4, <2>1, NextOp
  <2> QED
    BY <1>1, <1>2, <2>2, QuietSameClone DEF Windows, Creating
<1> QED
  BY <1>3, <1>4 DEF Stop

LEMMA SessionStarts ==
  ASSUME clone \in [Clones -> CloneStates], NEW E,
         clone' = [d \in Clones |-> IF d \in E THEN [clone[d] EXCEPT !.session = TRUE] ELSE clone[d]]
  PROVE  /\ clone' \in [Clones -> CloneStates]
         /\ \A d \in Clones :
              /\ clone'[d].registered = clone[d].registered /\ clone'[d].snap = clone[d].snap
              /\ clone'[d].id = clone[d].id
<1>1. ASSUME NEW r \in CloneStates
      PROVE  LET q == [r EXCEPT !.session = TRUE]
             IN /\ q \in CloneStates
                /\ q.registered = r.registered /\ q.snap = r.snap /\ q.id = r.id
  BY DEF CloneStates
<1>2. \A d \in Clones : clone[d] \in CloneStates
  OBVIOUS
<1> QED
  BY <1>1, <1>2

LEMMA StartInv ==
  ASSUME BoxInv, NEW g \in Goroutines, Start(g)
  PROVE  BoxInv'
<1>1. op[g].at = "start"
  BY DEF Start, At
<1>2. PICK E :
        /\ UNCHANGED <<pool, taken, box, resets, drifted>>
        /\ Continue(g, NoOp)
        /\ \/ clone' = clone
           \/ clone' = [d \in Clones |->
                          IF d \in E THEN [clone[d] EXCEPT !.session = TRUE] ELSE clone[d]]
  BY DEF Start
<1>3. clone \in [Clones -> CloneStates] /\ resets \in 0 .. MaxResets
  BY TypeParts DEF BoxInv
<1>4. /\ clone' \in [Clones -> CloneStates]
      /\ \A d \in Clones :
           /\ clone'[d].registered = clone[d].registered /\ clone'[d].snap = clone[d].snap
           /\ clone'[d].id = clone[d].id
  <2>1. CASE clone' = clone
    BY <1>3, <2>1
  <2>2. CASE clone' = [d \in Clones |->
                         IF d \in E THEN [clone[d] EXCEPT !.session = TRUE] ELSE clone[d]]
    BY <1>3, <2>2, SessionStarts
  <2> QED
    BY <1>2, <2>1, <2>2
<1>5. NoOp \in OpRecords /\ NoOp.at = "idle" /\ NoOp.clone = {}
  BY NoOpType DEF BoxInv, NoOp
<1>6. op'[g] = NoOp /\ \A h \in Goroutines \ {g} : op'[h] = op[h]
  BY <1>2, <1>5, Continued DEF BoxInv
<1>7. CreatesAlone' /\ WorksOnClone' /\ DeletedFirst' /\ OneEntry'
  BY <1>4, <1>5, <1>6, StructureStays
<1> QED
  BY <1>1, <1>2, <1>3, <1>4, <1>5, <1>7, QuietStep DEF Windows

LEMMA DestroyInv ==
  ASSUME BoxInv, NEW g \in Goroutines, DestroyClone(g)
  PROVE  BoxInv'
<1>1. op[g] = NoOp /\ NoOp.at = "idle" /\ NoOp \in OpRecords
  BY NoOpType DEF DestroyClone, Idle, NoOp, BoxInv
<1>2. PICK c \in Clones :
        /\ clone[c].registered
        /\ Continue(g, [NoOp EXCEPT !.clone = {c}, !.at = IF clone[c].session THEN "stop" ELSE "delete"])
  BY DEF DestroyClone
<1>3. PICK a \in {"stop", "delete"} : a = IF clone[c].session THEN "stop" ELSE "delete"
  OBVIOUS
<1>4. /\ [NoOp EXCEPT !.clone = {c}, !.at = a] \in OpRecords
      /\ [NoOp EXCEPT !.clone = {c}, !.at = a].at = a
      /\ [NoOp EXCEPT !.clone = {c}, !.at = a].clone = {c}
  BY <1>1 DEF OpRecords, OpSteps
<1>5. PICK o \in OpRecords : o.at = a /\ o.clone = {c} /\ Continue(g, o)
  BY <1>2, <1>3, <1>4
<1>6. UNCHANGED <<pool, taken, box, clone, resets, drifted>>
  BY DEF DestroyClone
<1>7. op'[g] = o /\ \A h \in Goroutines \ {g} : op'[h] = op[h]
  BY <1>5, Continued DEF BoxInv
<1>8. CreatesAlone' /\ WorksOnClone' /\ DeletedFirst' /\ OneEntry'
  BY <1>2, <1>5, <1>6, <1>7, StructureStays DEF Creating
<1>9. clone' \in [Clones -> CloneStates] /\ resets' \in 0 .. MaxResets
  BY <1>6, TypeParts DEF BoxInv
<1> QED
  BY <1>1, <1>5, <1>6, <1>8, <1>9, QuietStep DEF Windows

LEMMA ResetCloneInv ==
  ASSUME BoxInv, NEW g \in Goroutines, ResetClone(g)
  PROVE  BoxInv'
<1>1. op[g] = NoOp /\ NoOp.at = "idle" /\ NoOp \in OpRecords
  BY NoOpType DEF ResetClone, Idle, NoOp, BoxInv
<1>2. PICK c \in Clones :
        /\ clone[c].registered
        /\ \E s \in box.items \cup {0, clone[c].snap} :
             Continue(g, [NoOp EXCEPT !.at = "reset", !.clone = {c}, !.snap = s, !.old = clone[c].snap])
  BY DEF ResetClone
<1> PICK s \in box.items \cup {0, clone[c].snap} :
      Continue(g, [NoOp EXCEPT !.at = "reset", !.clone = {c}, !.snap = s, !.old = clone[c].snap])
  BY <1>2
<1>3. clone[c].snap \in 0 .. taken /\ s \in 0 .. taken
  <2>1. box.items \subseteq 1 .. taken /\ clone[c].snap \in 0 .. taken /\ taken \in Nat
    BY TypeParts DEF BoxInv, Boxes, CloneStates
  <2> QED
    BY <2>1
<1>4. PICK o \in OpRecords : o.at = "reset" /\ o.clone = {c} /\ Continue(g, o)
  <2> DEFINE o == [NoOp EXCEPT !.at = "reset", !.clone = {c}, !.snap = s, !.old = clone[c].snap]
  <2>1. o \in OpRecords /\ o.at = "reset" /\ o.clone = {c}
    BY <1>1, <1>3 DEF OpRecords, OpSteps
  <2>2. Continue(g, o)
    BY <1>2
  <2> HIDE DEF o
  <2> QED
    BY <2>1, <2>2
<1>5. UNCHANGED <<pool, taken, box, clone, drifted>> /\ resets' = resets + 1
  BY DEF ResetClone
<1>6. op'[g] = o /\ \A h \in Goroutines \ {g} : op'[h] = op[h]
  BY <1>4, Continued DEF BoxInv
<1>7. CreatesAlone' /\ WorksOnClone' /\ DeletedFirst' /\ OneEntry'
  BY <1>2, <1>4, <1>5, <1>6, StructureStays DEF Creating
<1>8. clone' \in [Clones -> CloneStates] /\ resets' \in 0 .. MaxResets
  BY <1>5, TypeParts, BoxAssumption DEF BoxInv, ResetClone
<1> QED
  BY <1>1, <1>4, <1>5, <1>7, <1>8, QuietStep DEF Windows

-----------------------------------------------------------------------------
(* The fetches *)

\* A fetch begins, on its own or for a new clone.
LEMMA FetchBegins ==
  ASSUME BoxInv, NEW g \in Goroutines, Idle(g), NEW o \in OpRecords, Fetch(g, o),
         UNCHANGED <<pool, taken, box, resets, drifted>>,
         clone' \in [Clones -> CloneStates],
         \A c \in Clones :
           /\ clone'[c].registered = clone[c].registered
           /\ clone'[c].snap = clone[c].snap \/ Free(c),
         CreatesAlone' /\ WorksOnClone' /\ DeletedFirst' /\ OneEntry'
  PROVE  BoxInv'
<1>1. /\ op' \in [Goroutines -> OpRecords]
      /\ op'[g].at = "count" /\ op'[g].entries = op'[g].left
      /\ op'[g].torn = \E h \in Goroutines : op[h].at \in Windows
      /\ \A h \in Goroutines \ {g} : op'[h] = op[h]
  BY Fetched DEF BoxInv
<1>2. SnapshotBoxTypeOK'
  BY <1>1, TypeParts, TypesStay DEF BoxInv
<1>3. op[g].at = "idle"
  BY DEF Idle, NoOp
<1>4. op'[g].entries \ op'[g].left = {}
  BY <1>1
<1>5. FetchCounts' /\ CountsFollowRegistry'
  <2>1. op[g].at \notin Windows /\ op'[g].at \notin Windows
    BY <1>1, <1>3 DEF Windows
  <2>2. ~ op'[g].torn => \A h \in Goroutines : op[h].at \notin Windows
    BY <1>1
  <2> QED
    BY <1>1, <1>4, <2>1, <2>2, QuietCounts
<1> QED
  BY <1>2, <1>5 DEF BoxInv

LEMMA GetInv ==
  ASSUME BoxInv, NEW g \in Goroutines, GetSnapshots(g)
  PROVE  BoxInv'
<1>1. NoOp \in OpRecords /\ NoOp.clone = {} /\ Idle(g) /\ Fetch(g, NoOp)
  BY NoOpType DEF BoxInv, NoOp, GetSnapshots
<1>2. UNCHANGED <<pool, taken, box, clone, resets, drifted>>
  BY DEF GetSnapshots
<1>3. /\ op'[g].at = "count" /\ op'[g].clone = {}
      /\ \A h \in Goroutines \ {g} : op'[h] = op[h]
  BY <1>1, Fetched DEF BoxInv
<1>4. CreatesAlone' /\ WorksOnClone' /\ DeletedFirst' /\ OneEntry'
  BY <1>2, <1>3, StructureStays
<1>5. clone' \in [Clones -> CloneStates]
  BY <1>2, TypeParts DEF BoxInv
<1> QED
  BY <1>1, <1>2, <1>4, <1>5, FetchBegins

LEMMA CreateInv ==
  ASSUME BoxInv, NEW g \in Goroutines, CreateClone(g)
  PROVE  BoxInv'
<1>1. Idle(g) /\ op[g].at = "idle" /\ op[g].clone = {}
  BY DEF CreateClone, Idle, NoOp
<1>2. PICK id \in IDs, c \in Clones, s \in 0 .. taken :
        /\ Free(c)
        /\ clone' = [clone EXCEPT ![c] = [NoClone EXCEPT !.id = id]]
        /\ Fetch(g, [NoOp EXCEPT !.clone = {c}, !.snap = s])
  BY DEF CreateClone
<1>3. PICK o \in OpRecords : o.clone = {c} /\ Fetch(g, o)
  <2> DEFINE o == [NoOp EXCEPT !.clone = {c}, !.snap = s]
  <2>1. NoOp \in OpRecords
    BY NoOpType DEF BoxInv
  <2>2. o \in OpRecords /\ o.clone = {c}
    BY <2>1 DEF OpRecords
  <2>3. Fetch(g, o)
    BY <1>2
  <2> HIDE DEF o
  <2> QED
    BY <2>2, <2>3
<1>4. UNCHANGED <<pool, taken, box, resets, drifted>>
  BY DEF CreateClone
<1>5. /\ op'[g].at = "count" /\ op'[g].clone = {c}
      /\ \A h \in Goroutines \ {g} : op'[h] = op[h]
  BY <1>3, Fetched DEF BoxInv
<1>6. clone \in [Clones -> CloneStates]
  BY TypeParts DEF BoxInv
<1>7. PICK n \in CloneStates : clone' = [clone EXCEPT ![c] = n] /\ ~ n.registered
  <2> DEFINE n == [NoClone EXCEPT !.id = id]
  <2>1. 0 \in 0 .. taken
    BY TypeParts DEF BoxInv
  <2>2. n \in CloneStates /\ ~ n.registered
    BY <2>1 DEF NoClone, CloneStates
  <2>3. clone' = [clone EXCEPT ![c] = n]
    BY <1>2
  <2> HIDE DEF n
  <2> QED
    BY <2>2, <2>3
<1>8. clone' \in [Clones -> CloneStates]
  BY <1>6, <1>7
<1>9. ~ clone[c].registered /\ \A h \in Goroutines : op[h].clone # {c}
  BY <1>2 DEF Free
<1>10. \A d \in Clones \ {c} : clone'[d] = clone[d]
  BY <1>6, <1>7
<1>11. /\ ~ clone'[c].registered
       /\ \A d \in Clones :
            /\ clone'[d].registered = clone[d].registered
            /\ clone'[d].snap = clone[d].snap \/ Free(d)
  <2>1. clone'[c] = n /\ clone[c].registered \in BOOLEAN /\ n.registered \in BOOLEAN
    BY <1>6, <1>7 DEF CloneStates
  <2>2. clone'[c].registered = clone[c].registered
    BY <1>7, <1>9, <2>1
  <2> QED
    BY <1>2, <1>7, <1>10, <2>1, <2>2
<1>12. CreatesAlone'
  <2> SUFFICES ASSUME NEW h \in Goroutines, NEW d \in Clones,
                      op'[h].at \in Creating, op'[h].clone = {d}
               PROVE  /\ ~ clone'[d].registered
                      /\ \A i \in Goroutines \ {h} : op'[i].clone # {d}
    BY DEF CreatesAlone, Creating
  <2>1. CASE h = g
    BY <1>5, <1>9, <1>11, <2>1
  <2>2. CASE h # g
    <3>1. d # c
      BY <1>5, <1>9, <2>2
    <3>2. ~ clone[d].registered /\ \A i \in Goroutines \ {h} : op[i].clone # {d}
      BY <1>5, <2>2 DEF BoxInv, CreatesAlone, Creating
    <3>3. {c} # {d}
      BY <3>1
    <3> QED
      BY <1>5, <1>11, <3>2, <3>3
  <2> QED
    BY <2>1, <2>2
<1>13. WorksOnClone'
  BY <1>5 DEF BoxInv, WorksOnClone
<1>14. DeletedFirst'
  BY <1>5, <1>11 DEF BoxInv, DeletedFirst, At
<1>15. OneEntry'
  <2>1. ASSUME NEW d \in Clones, NEW e \in Clones,
               clone'[d].registered, clone'[e].registered, clone'[d].id = clone'[e].id
        PROVE  d = e
    <3>1. d # c /\ e # c
      BY <1>11, <2>1
    <3> QED
      BY <1>10, <2>1, <3>1 DEF BoxInv, OneEntry
  <2> QED
    BY <2>1 DEF OneEntry
<1> QED
  BY <1>1, <1>3, <1>4, <1>8, <1>11, <1>12, <1>13, <1>14, <1>15, FetchBegins

LEMMA CountEntryInv ==
  ASSUME BoxInv, NEW g \in Goroutines, CountEntry(g)
  PROVE  BoxInv'
<1>1. op[g].at = "count"
  BY DEF CountEntry, At
<1>2. PICK s \in op[g].left :
        Continue(g, [op[g] EXCEPT !.left = @ \ {s}, !.number[s] = Registered(s)])
  BY DEF CountEntry
<1>3. UNCHANGED <<pool, taken, box, clone, resets, drifted>>
  BY DEF CountEntry
<1>4. op[g] \in OpRecords /\ Registered(s) \in Nat
  BY OpType, RegisteredType
<1>5. op[g].left \subseteq Numbers
  BY <1>4, TakenNumbers DEF OpRecords, BoxInv
<1>6. PICK o \in OpRecords :
        /\ Continue(g, o)
        /\ o.at = "count" /\ o.clone = op[g].clone /\ o.torn = op[g].torn
        /\ o.entries = op[g].entries /\ o.left = op[g].left \ {s}
        /\ o.number = [op[g].number EXCEPT ![s] = Registered(s)]
  <2> DEFINE o == [op[g] EXCEPT !.left = @ \ {s}, !.number[s] = Registered(s)]
  <2>1. [op[g].number EXCEPT ![s] = Registered(s)] \in Counts
    BY <1>4, <1>5 DEF OpRecords, Counts
  <2>2. /\ o \in OpRecords
        /\ o.at = "count" /\ o.clone = op[g].clone /\ o.torn = op[g].torn
        /\ o.entries = op[g].entries /\ o.left = op[g].left \ {s}
        /\ o.number = [op[g].number EXCEPT ![s] = Registered(s)]
    BY <1>1, <1>4, <2>1 DEF OpRecords
  <2>3. Continue(g, o)
    BY <1>2
  <2> HIDE DEF o
  <2> QED
    BY <2>2, <2>3
<1>7. /\ op' \in [Goroutines -> OpRecords] /\ op'[g] = o
      /\ \A h \in Goroutines \ {g} : op'[h] = op[h]
  BY <1>6, Continued DEF BoxInv
<1>8. SnapshotBoxTypeOK'
  BY <1>3, <1>7, TypeParts, TypesStay DEF BoxInv
<1>9. CreatesAlone' /\ WorksOnClone' /\ DeletedFirst' /\ OneEntry'
  <2>1. op'[g].at = "count" /\ op'[g].clone = op[g].clone
    BY <1>6, <1>7
  <2> QED
    BY <1>1, <1>3, <1>7, <2>1, StructureStays DEF Creating
<1>10. ~ o.torn =>
         /\ \A h \in Goroutines : op[h].at \notin Windows
         /\ \A t \in op[g].entries \ op[g].left : op[g].number[t] = Registered(t)
  BY <1>1, <1>6 DEF BoxInv, FetchCounts, At
<1>11. ASSUME ~ o.torn, NEW t \in o.entries \ o.left
       PROVE  o.number[t] = Registered(t)
  <2>1. t \in Numbers
    BY <1>4, <1>6, TakenNumbers DEF OpRecords, BoxInv
  <2>2. op[g].number \in [Numbers -> Nat]
    BY <1>4 DEF OpRecords, Counts
  <2>3. CASE t = s
    BY <1>6, <2>1, <2>2, <2>3
  <2>4. CASE t # s
    BY <1>6, <1>10, <1>11, <2>1, <2>2, <2>4
  <2> QED
    BY <2>3, <2>4
<1>12. FetchCounts' /\ CountsFollowRegistry'
  <2>1. op[g].at \notin Windows /\ o.at \notin Windows
    BY <1>1, <1>6 DEF Windows
  <2> QED
    BY <1>3, <1>7, <1>10, <1>11, <2>1, QuietCounts
<1> QED
  BY <1>8, <1>9, <1>12 DEF BoxInv

LEMMA ResetSnapshotsInv ==
  ASSUME BoxInv, NEW g \in Goroutines, ResetSnapshots(g)
  PROVE  BoxInv'
<1>1. op[g].at = "count" /\ op[g].left = {} /\ op[g] \in OpRecords
  BY OpType DEF ResetSnapshots, At
<1>2. UNCHANGED <<pool, taken, clone, resets>> /\ drifted' = op[g].torn
  BY DEF ResetSnapshots
<1>3. box' = [items |-> op[g].entries, number |-> op[g].number, latest |-> Newest(op[g].entries)]
  BY DEF ResetSnapshots
<1>4. PICK o \in OpRecords :
        /\ Continue(g, o)
        /\ \/ o.at = "idle" /\ o.clone = {}
           \/ o.at = "pick" /\ o.clone = op[g].clone /\ o.clone # {}
  <2>1. NoOp \in OpRecords /\ NoOp.at = "idle" /\ NoOp.clone = {}
    BY NoOpType DEF BoxInv, NoOp
  <2> DEFINE o == [NoOp EXCEPT !.at = "pick", !.clone = op[g].clone, !.snap = op[g].snap]
  <2>2. o \in OpRecords /\ o.at = "pick" /\ o.clone = op[g].clone
    BY <1>1, <2>1 DEF OpRecords, OpSteps
  <2>3. Continue(g, IF op[g].clone = {} THEN NoOp ELSE o)
    BY DEF ResetSnapshots
  <2> HIDE DEF o
  <2> QED
    BY <2>1, <2>2, <2>3
<1>5. /\ op' \in [Goroutines -> OpRecords] /\ op'[g] = o
      /\ \A h \in Goroutines \ {g} : op'[h] = op[h]
  BY <1>4, Continued DEF BoxInv
<1>6. box' \in Boxes /\ drifted' \in BOOLEAN
  <2>1. op[g].entries \subseteq 1 .. taken /\ op[g].number \in Counts /\ op[g].torn \in BOOLEAN
    BY <1>1 DEF OpRecords
  <2>2. taken \in Nat
    BY TypeParts DEF BoxInv
  <2>3. Newest(op[g].entries) \in 0 .. taken
    BY <2>1, <2>2, NewestType
  <2> QED
    BY <1>2, <1>3, <2>1, <2>3 DEF Boxes
<1>7. SnapshotBoxTypeOK'
  BY <1>2, <1>5, <1>6, TypeParts, TypesStay DEF BoxInv
<1>8. CreatesAlone' /\ WorksOnClone' /\ DeletedFirst' /\ OneEntry'
  BY <1>1, <1>2, <1>4, <1>5, StructureStays DEF Creating
<1>9. \A s : Registered(s)' = Registered(s)
  BY <1>2, CountedAlike
<1>10. op[g].at \notin Windows /\ o.at \notin Windows /\ o.at # "count"
  BY <1>1, <1>4 DEF Windows
<1>11. FetchCounts'
  <2> SUFFICES ASSUME NEW h \in Goroutines, op'[h].at = "count", ~ op'[h].torn
               PROVE  /\ \A i \in Goroutines : op'[i].at \notin Windows
                      /\ \A s \in op'[h].entries \ op'[h].left :
                           op'[h].number[s] = Registered(s)
    BY <1>9 DEF FetchCounts, At, Windows
  <2>1. h # g
    BY <1>5, <1>10
  <2>2. /\ \A i \in Goroutines : op[i].at \notin Windows
        /\ \A s \in op[h].entries \ op[h].left : op[h].number[s] = Registered(s)
    BY <1>5, <2>1 DEF BoxInv, FetchCounts, At
  <2> QED
    BY <1>5, <1>10, <2>1, <2>2
<1>12. CountsFollowRegistry'
  <2> SUFFICES ASSUME ~ op[g].torn, NEW s \in op[g].entries
               PROVE  op[g].number[s] + Cardinality(Rising(s)')
                        = Registered(s) + Cardinality(Falling(s)')
    BY <1>2, <1>3, <1>9 DEF CountsFollowRegistry
  <2>1. \A h \in Goroutines : op'[h].at \notin Windows /\ op[h].at # "decrement"
    BY <1>1, <1>5, <1>10 DEF BoxInv, FetchCounts, At, Windows
  <2>2. op[g].number[s] = Registered(s)
    BY <1>1 DEF BoxInv, FetchCounts, At
  <2>3. Rising(s)' = {} /\ Falling(s)' = {}
    BY <2>1 DEF Rising, Falling, At, Windows
  <2>4. Registered(s) \in Nat
    BY RegisteredType
  <2> QED
    BY <2>2, <2>3, <2>4, FS_EmptySet
<1> QED
  BY <1>7, <1>8, <1>11, <1>12 DEF BoxInv

-----------------------------------------------------------------------------
(* Counting *)

\* The registry changes in one clone.
LEMMA RegistryChanges ==
  ASSUME NEW c \in Clones,
         \A d \in Clones \ {c} :
           clone'[d].registered = clone[d].registered /\ clone'[d].snap = clone[d].snap
  PROVE  \A s : Registered(s)' =
                  Registered(s) + Bit(clone'[c].registered /\ clone'[c].snap = s)
                                - Bit(clone[c].registered /\ clone[c].snap = s)
<1> TAKE s
<1> DEFINE S == {d \in Clones : clone[d].registered /\ clone[d].snap = s}
           T == {d \in Clones : clone'[d].registered /\ clone'[d].snap = s}
<1>1. S \in SUBSET Clones /\ T \in SUBSET Clones /\ S \ {c} = T \ {c}
  OBVIOUS
<1>2. /\ c \in T <=> clone'[c].registered /\ clone'[c].snap = s
      /\ c \in S <=> clone[c].registered /\ clone[c].snap = s
  OBVIOUS
<1>3. Registered(s) = Cardinality(S) /\ Registered(s)' = Cardinality(T)
  BY DEF Registered
<1> HIDE DEF S, T
<1>4. Cardinality(T) = Cardinality(S) + Bit(c \in T) - Bit(c \in S)
  BY <1>1, CountType, CountOne
<1> QED
  BY <1>2, <1>3, <1>4 DEF Bit

\* The windows change in one goroutine.
LEMMA WindowsChange ==
  ASSUME BoxInv, NEW g \in Goroutines,
         \A h \in Goroutines \ {g} :
           /\ op'[h].at = op[h].at /\ op'[h].clone = op[h].clone
           /\ op'[h].snap = op[h].snap /\ op'[h].old = op[h].old
           /\ op[h].at = "decrement" => clone'[CloneOf(h)].snap = clone[CloneOf(h)].snap
  PROVE  \A s :
           /\ Cardinality(Rising(s)') =
                Cardinality(Rising(s)) + Bit(g \in Rising(s)') - Bit(g \in Rising(s))
           /\ Cardinality(Falling(s)') =
                Cardinality(Falling(s)) + Bit(g \in Falling(s)') - Bit(g \in Falling(s))
<1> TAKE s
<1>1. /\ Rising(s) \in SUBSET Goroutines /\ Rising(s)' \in SUBSET Goroutines
      /\ Falling(s) \in SUBSET Goroutines /\ Falling(s)' \in SUBSET Goroutines
  BY DEF Rising, Falling
<1>2. Rising(s) \ {g} = Rising(s)' \ {g}
  BY DEF Rising
<1>3. Falling(s) \ {g} = Falling(s)' \ {g}
  <2>1. ASSUME NEW h \in Goroutines \ {g}
        PROVE  h \in Falling(s) <=> h \in Falling(s)'
    <3>1. CloneOf(h)' = CloneOf(h)
      BY DEF CloneOf
    <3> QED
      BY <3>1 DEF Falling, At
  <2> QED
    BY <1>1, <2>1
<1> QED
  BY <1>1, <1>2, <1>3, CountType, CountOne

LEMMA CountsType ==
  \A s : /\ Registered(s) \in Nat
         /\ Cardinality(Rising(s)) \in Nat
         /\ Cardinality(Falling(s)) \in Nat
BY CountType, RegisteredType DEF Rising, Falling

\* The number of one snapshot changes.
LEMMA NumberOf ==
  ASSUME SnapshotBoxTypeOK, NEW s \in box.items, NEW n \in Nat,
         box' = [box EXCEPT !.number[s] = n]
  PROVE  /\ box' \in Boxes /\ box'.items = box.items
         /\ \A t \in box.items : box'.number[t] = IF t = s THEN n ELSE box.number[t]
<1>1. box \in Boxes /\ box.number \in [Numbers -> Nat] /\ box.items \subseteq Numbers
  BY TypeParts, TakenNumbers DEF Boxes, Counts
<1>2. [box.number EXCEPT ![s] = n] \in Counts
  BY <1>1 DEF Counts
<1>3. box' \in Boxes /\ box'.items = box.items
  BY <1>1, <1>2 DEF Boxes
<1>4. box'.number = [box.number EXCEPT ![s] = n]
  BY <1>1 DEF Boxes
<1> QED
  BY <1>1, <1>3, <1>4

LEMMA NumberType ==
  ASSUME SnapshotBoxTypeOK, NEW s \in box.items
  PROVE  box.number[s] \in Nat
BY TypeParts, TakenNumbers DEF Boxes, Counts

LEMMA Incremented ==
  ASSUME SnapshotBoxTypeOK, NEW s, Increment(s)
  PROVE  /\ box' \in Boxes /\ box'.items = box.items
         /\ \A t \in box.items : box'.number[t] = box.number[t] + Bit(t = s)
<1>1. CASE s \in box.items
  <2>1. PICK n \in Nat : n = box.number[s] + 1
    BY <1>1, NumberType
  <2>2. box' = [box EXCEPT !.number[s] = n]
    BY <1>1, <2>1 DEF Increment
  <2>3. /\ box' \in Boxes /\ box'.items = box.items
        /\ \A t \in box.items :
             box'.number[t] = IF t = s THEN n ELSE box.number[t]
    BY <1>1, <2>1, <2>2, NumberOf
  <2> QED
    BY <2>1, <2>3, NumberType DEF Bit
<1>2. CASE s \notin box.items
  BY <1>2, TypeParts, NumberType DEF Increment, Bit
<1> QED
  BY <1>1, <1>2

LEMMA Decremented ==
  ASSUME SnapshotBoxTypeOK, NEW s, Decrement(s)
  PROVE  /\ box' \in Boxes /\ box'.items = box.items
         /\ \A t \in box.items :
              ~ Underflow(s) => box'.number[t] = box.number[t] - Bit(t = s)
<1>1. CASE s \in box.items /\ box.number[s] > 0
  <2>1. PICK n \in Nat : n = box.number[s] - 1
    BY <1>1, NumberType
  <2>2. box' = [box EXCEPT !.number[s] = n]
    BY <1>1, <2>1 DEF Decrement
  <2>3. /\ box' \in Boxes /\ box'.items = box.items
        /\ \A t \in box.items :
             box'.number[t] = IF t = s THEN n ELSE box.number[t]
    BY <1>1, <2>1, <2>2, NumberOf
  <2> QED
    BY <2>1, <2>3, NumberType DEF Bit
<1>2. CASE ~ (s \in box.items /\ box.number[s] > 0)
  BY <1>2, TypeParts, NumberType DEF Decrement, Bit, Underflow
<1> QED
  BY <1>1, <1>2

\* A step that disturbs the fetches: none of them is undisturbed after it.
LEMMA LoudStep ==
  ASSUME BoxInv, NEW g \in Goroutines, NEW o \in OpRecords, Disturb(g, o), o.at # "count",
         UNCHANGED <<pool, taken, resets>>,
         box' \in Boxes, clone' \in [Clones -> CloneStates], drifted' \in BOOLEAN,
         CreatesAlone' /\ WorksOnClone' /\ DeletedFirst' /\ OneEntry',
         CountsFollowRegistry'
  PROVE  BoxInv'
<1>1. /\ op' \in [Goroutines -> OpRecords] /\ op'[g] = o
      /\ \A h \in Goroutines \ {g} : At(h, "count") => op'[h].torn
      /\ \A h \in Goroutines \ {g} : op'[h].at = op[h].at
  BY Continued DEF BoxInv
<1>2. SnapshotBoxTypeOK'
  BY <1>1, TypeParts, TypesStay DEF BoxInv
<1>3. FetchCounts'
  BY <1>1 DEF FetchCounts, At
<1> QED
  BY <1>2, <1>3 DEF BoxInv

-----------------------------------------------------------------------------
(* The loud steps, which change the registry or a number *)

\* The changes of the windows and the registry are enough to follow the counts.
LEMMA CountsFollow ==
  ASSUME BoxInv, NEW g \in Goroutines, NEW c \in Clones,
         \A h \in Goroutines \ {g} :
           /\ op'[h].at = op[h].at /\ op'[h].clone = op[h].clone
           /\ op'[h].snap = op[h].snap /\ op'[h].old = op[h].old
           /\ op[h].at = "decrement" => clone'[CloneOf(h)].snap = clone[CloneOf(h)].snap,
         \A d \in Clones \ {c} :
           clone'[d].registered = clone[d].registered /\ clone'[d].snap = clone[d].snap,
         box'.items = box.items,
         \A s \in box.items : box'.number[s] \in Int,
         ~ drifted' =>
           /\ ~ drifted
           /\ \A s \in box.items :
                box'.number[s] - box.number[s] + Bit(g \in Rising(s)') - Bit(g \in Rising(s))
                = Bit(clone'[c].registered /\ clone'[c].snap = s)
                  - Bit(clone[c].registered /\ clone[c].snap = s)
                  + Bit(g \in Falling(s)') - Bit(g \in Falling(s))
  PROVE  CountsFollowRegistry'
<1>1. \A s : Registered(s)' =
               Registered(s) + Bit(clone'[c].registered /\ clone'[c].snap = s)
                             - Bit(clone[c].registered /\ clone[c].snap = s)
  BY RegistryChanges
<1>2. \A s :
        /\ Cardinality(Rising(s)') =
             Cardinality(Rising(s)) + Bit(g \in Rising(s)') - Bit(g \in Rising(s))
        /\ Cardinality(Falling(s)') =
             Cardinality(Falling(s)) + Bit(g \in Falling(s)') - Bit(g \in Falling(s))
  BY WindowsChange
<1>3. \A b : Bit(b) \in Int
  BY DEF Bit
<1>4. \A s \in box.items : box.number[s] \in Int
  BY NumberType DEF BoxInv
<1> SUFFICES ASSUME ~ drifted', NEW s \in box.items
             PROVE  box'.number[s] + Cardinality(Rising(s)')
                      = Registered(s)' + Cardinality(Falling(s)')
  BY DEF CountsFollowRegistry
<1>5. PICK r0 \in Int, r1 \in Int : r0 = Bit(g \in Rising(s)) /\ r1 = Bit(g \in Rising(s)')
  BY <1>3
<1>6. PICK f0 \in Int, f1 \in Int : f0 = Bit(g \in Falling(s)) /\ f1 = Bit(g \in Falling(s)')
  BY <1>3
<1>7. PICK c0 \in Int, c1 \in Int :
        /\ c0 = Bit(clone[c].registered /\ clone[c].snap = s)
        /\ c1 = Bit(clone'[c].registered /\ clone'[c].snap = s)
  BY <1>3
<1>8. PICK n0 \in Int, n1 \in Int : n0 = box.number[s] /\ n1 = box'.number[s]
  BY <1>4
<1>9. PICK R \in Int, U \in Int, D \in Int :
        /\ R = Registered(s) /\ U = Cardinality(Rising(s)) /\ D = Cardinality(Falling(s))
  BY CountsType
<1>10. n0 + U = R + D
  BY <1>8, <1>9 DEF BoxInv, CountsFollowRegistry
<1>11. n1 - n0 + r1 - r0 = c1 - c0 + f1 - f0
  BY <1>5, <1>6, <1>7, <1>8
<1>12. n1 + (U + r1 - r0) = (R + c1 - c0) + (D + f1 - f0)
  BY <1>10, <1>11, Z3T(60)
<1> QED
  BY <1>1, <1>2, <1>5, <1>6, <1>7, <1>8, <1>9, <1>12

\* The wrapper c is registered, in the place of any other of its ID.
LEMMA WrapperSet ==
  ASSUME clone \in [Clones -> CloneStates], NEW c \in Clones, NEW s \in 0 .. taken,
         Register(c, s)
  PROVE  /\ clone' \in [Clones -> CloneStates]
         /\ clone'[c].registered /\ clone'[c].snap = s
         /\ \A d \in Clones : clone'[d].id = clone[d].id
         /\ \A d \in Clones \ {c} :
              /\ clone'[d].snap = clone[d].snap
              /\ clone[d].id = clone[c].id => ~ clone'[d].registered
              /\ clone[d].id # clone[c].id => clone'[d] = clone[d]
<1>1. \A d \in Clones : clone[d] \in CloneStates
  OBVIOUS
<1>2. ASSUME NEW q \in CloneStates
      PROVE  LET p == [q EXCEPT !.registered = TRUE, !.snap = s]
             IN p \in CloneStates /\ p.registered /\ p.snap = s /\ p.id = q.id
  BY DEF CloneStates
<1>3. ASSUME NEW q \in CloneStates
      PROVE  LET p == [q EXCEPT !.registered = FALSE]
             IN p \in CloneStates /\ ~ p.registered /\ p.snap = q.snap /\ p.id = q.id
  BY DEF CloneStates
<1> QED
  BY <1>1, <1>2, <1>3 DEF Register

\* The clone another goroutine counts down for is of the snapshot it was of.
LEMMA OthersFall ==
  ASSUME BoxInv, NEW g \in Goroutines, NEW c \in Clones,
         \A d \in Clones \ {c} : clone'[d].snap = clone[d].snap,
         clone[c].registered \/ clone'[c].snap = clone[c].snap
  PROVE  \A h \in Goroutines \ {g} :
           op[h].at = "decrement" => clone'[CloneOf(h)].snap = clone[CloneOf(h)].snap
<1> SUFFICES ASSUME NEW h \in Goroutines \ {g}, op[h].at = "decrement"
             PROVE  clone'[CloneOf(h)].snap = clone[CloneOf(h)].snap
  OBVIOUS
<1>1. PICK d \in Clones : op[h].clone = {d}
  BY DEF BoxInv, WorksOnClone
<1>2. CloneOf(h) = d /\ ~ clone[d].registered
  BY <1>1, TheClone DEF BoxInv, DeletedFirst, At
<1> QED
  BY <1>2

LEMMA SetWrapperInv ==
  ASSUME BoxInv, NEW g \in Goroutines, SetWrapper(g)
  PROVE  BoxInv'
<1>1. op[g].at = "set" /\ op[g] \in OpRecords
  BY OpType DEF SetWrapper, At
<1>2. PICK c \in Clones : op[g].clone = {c}
  BY <1>1 DEF BoxInv, WorksOnClone
<1>3. CloneOf(g) = c
  BY <1>2, TheClone
<1>4. PICK s0 \in 0 .. taken : s0 = op[g].snap
  BY <1>1 DEF OpRecords
<1>5. PICK o \in OpRecords :
        /\ Disturb(g, o)
        /\ o.at = "increment" /\ o.clone = {c} /\ o.snap = s0 /\ o.old = op[g].old
  <2> DEFINE o == [op[g] EXCEPT !.at = "increment"]
  <2>1. o \in OpRecords /\ o.at = "increment" /\ o.clone = {c} /\ o.snap = s0 /\ o.old = op[g].old
    BY <1>1, <1>2, <1>4 DEF OpRecords, OpSteps
  <2>2. Disturb(g, o)
    BY DEF SetWrapper
  <2> HIDE DEF o
  <2> QED
    BY <2>1, <2>2
<1>6. /\ op'[g] = o
      /\ \A h \in Goroutines \ {g} :
           /\ op'[h].at = op[h].at /\ op'[h].clone = op[h].clone
           /\ op'[h].snap = op[h].snap /\ op'[h].old = op[h].old
  BY <1>5, Continued DEF BoxInv
<1>7. /\ UNCHANGED <<pool, taken, box, resets>>
      /\ drifted' = (drifted \/ Entry(clone[c].id) # {})
  BY <1>3 DEF SetWrapper
<1>8. /\ clone' \in [Clones -> CloneStates]
      /\ clone'[c].registered /\ clone'[c].snap = s0
      /\ \A d \in Clones : clone'[d].id = clone[d].id
      /\ \A d \in Clones \ {c} :
           /\ clone'[d].snap = clone[d].snap
           /\ clone[d].id = clone[c].id => ~ clone'[d].registered
           /\ clone[d].id # clone[c].id => clone'[d] = clone[d]
  <2>1. clone \in [Clones -> CloneStates]
    BY TypeParts DEF BoxInv
  <2>2. Register(c, s0)
    BY <1>3, <1>4 DEF SetWrapper
  <2> QED
    BY <2>1, <2>2, WrapperSet
<1>9. /\ ~ clone[c].registered
      /\ \A h \in Goroutines \ {g} : op[h].clone # {c}
  BY <1>1, <1>2 DEF BoxInv, CreatesAlone
<1>10. /\ \A d \in Clones \ {c} : clone'[d].registered => clone[d].registered
       /\ OneEntry'
  <2>1. ASSUME NEW d \in Clones \ {c}, clone'[d].registered
        PROVE  clone[d].registered /\ clone[d].id # clone[c].id
    BY <1>8, <2>1
  <2>2. ASSUME NEW d \in Clones, NEW e \in Clones,
               clone'[d].registered, clone'[e].registered, clone'[d].id = clone'[e].id
        PROVE  d = e
    <3>1. clone[d].id = clone[e].id
      BY <1>8, <2>2
    <3>2. CASE d # c /\ e # c
      BY <2>1, <2>2, <3>1, <3>2 DEF BoxInv, OneEntry
    <3>3. CASE d = c \/ e = c
      BY <2>1, <2>2, <3>1, <3>3
    <3> QED
      BY <3>2, <3>3
  <2> QED
    BY <2>1, <2>2 DEF OneEntry
<1>11. CreatesAlone'
  <2> SUFFICES ASSUME NEW h \in Goroutines, NEW d \in Clones,
                      op'[h].at \in Creating, op'[h].clone = {d}
               PROVE  /\ ~ clone'[d].registered
                      /\ \A i \in Goroutines \ {h} : op'[i].clone # {d}
    BY DEF CreatesAlone, Creating
  <2>1. h # g /\ op[h].clone = {d} /\ op[h].at \in Creating
    BY <1>5, <1>6 DEF Creating
  <2>2. d # c
    BY <1>9, <2>1
  <2>3. ~ clone[d].registered /\ \A i \in Goroutines \ {h} : op[i].clone # {d}
    BY <2>1 DEF BoxInv, CreatesAlone, Creating
  <2> QED
    BY <1>2, <1>5, <1>6, <1>10, <2>2, <2>3
<1>12. WorksOnClone'
  BY <1>5, <1>6 DEF BoxInv, WorksOnClone
<1>13. DeletedFirst'
  <2> SUFFICES ASSUME NEW h \in Goroutines, NEW d \in Clones,
                      op'[h].at = "decrement", op'[h].clone = {d}
               PROVE  ~ clone'[d].registered
    BY DEF DeletedFirst, At
  <2>1. h # g /\ op[h].clone = {d} /\ op[h].at = "decrement"
    BY <1>5, <1>6
  <2>2. d # c
    BY <1>9, <2>1
  <2> QED
    BY <1>10, <2>1, <2>2 DEF BoxInv, DeletedFirst, At
<1>14. CASE drifted'
  <2>1. CountsFollowRegistry'
    BY <1>14 DEF CountsFollowRegistry
  <2>2. box' \in Boxes /\ drifted' \in BOOLEAN
    BY <1>7, <1>14, TypeParts DEF BoxInv
  <2> QED
    BY <1>5, <1>7, <1>8, <1>10, <1>11, <1>12, <1>13, <2>1, <2>2, LoudStep
<1>15. CASE ~ drifted'
  <2>1. \A d \in Clones \ {c} :
          clone'[d].registered = clone[d].registered /\ clone'[d].snap = clone[d].snap
    <3> SUFFICES ASSUME NEW d \in Clones \ {c}
                 PROVE  clone'[d].registered = clone[d].registered
      BY <1>8
    <3>1. CASE clone[d].id # clone[c].id
      BY <1>8, <3>1
    <3>2. CASE clone[d].id = clone[c].id
      <4>1. ~ clone[d].registered /\ ~ clone'[d].registered
        BY <1>7, <1>8, <1>15, <3>2 DEF Entry
      <4>2. clone[d].registered \in BOOLEAN /\ clone'[d].registered \in BOOLEAN
        BY <1>8, TypeParts DEF BoxInv, CloneStates
      <4> QED
        BY <4>1, <4>2
    <3> QED
      BY <3>1, <3>2
  <2>2. /\ \A s : g \notin Rising(s) /\ g \notin Falling(s) /\ g \notin Falling(s)'
        /\ \A s : g \in Rising(s)' <=> s = s0
    BY <1>1, <1>5, <1>6 DEF Rising, Falling, At
  <2>3. \A s \in box.items :
          /\ box'.number[s] \in Int
          /\ box'.number[s] - box.number[s] + Bit(g \in Rising(s)') - Bit(g \in Rising(s))
             = Bit(clone'[c].registered /\ clone'[c].snap = s)
               - Bit(clone[c].registered /\ clone[c].snap = s)
               + Bit(g \in Falling(s)') - Bit(g \in Falling(s))
    BY <1>7, <1>8, <1>9, <2>2, NumberType DEF Bit, BoxInv
  <2>4. \A h \in Goroutines \ {g} :
          op[h].at = "decrement" => clone'[CloneOf(h)].snap = clone[CloneOf(h)].snap
    <3> SUFFICES ASSUME NEW h \in Goroutines \ {g}, op[h].at = "decrement"
                 PROVE  clone'[CloneOf(h)].snap = clone[CloneOf(h)].snap
      OBVIOUS
    <3>1. PICK d \in Clones : op[h].clone = {d}
      BY DEF BoxInv, WorksOnClone
    <3>2. CloneOf(h) = d /\ d # c
      BY <1>9, <3>1, TheClone
    <3> QED
      BY <2>1, <3>2
  <2>5. CountsFollowRegistry'
    <3>1. box'.items = box.items /\ ~ drifted
      BY <1>7, <1>15
    <3>2. \A h \in Goroutines \ {g} :
            /\ op'[h].at = op[h].at /\ op'[h].clone = op[h].clone
            /\ op'[h].snap = op[h].snap /\ op'[h].old = op[h].old
            /\ op[h].at = "decrement" => clone'[CloneOf(h)].snap = clone[CloneOf(h)].snap
      BY <1>6, <2>4
    <3>3. \A s \in box.items : box'.number[s] \in Int
      BY <2>3
    <3> QED
      BY <2>1, <2>3, <3>1, <3>2, <3>3, CountsFollow
  <2>6. box' \in Boxes /\ drifted' \in BOOLEAN
    BY <1>7, <1>15, TypeParts DEF BoxInv
  <2> QED
    BY <1>5, <1>7, <1>8, <1>10, <1>11, <1>12, <1>13, <2>5, <2>6, LoudStep
<1> QED
  BY <1>14, <1>15

LEMMA CountCloneInv ==
  ASSUME BoxInv, NEW g \in Goroutines, CountClone(g)
  PROVE  BoxInv'
<1>1. op[g].at = "increment" /\ op[g] \in OpRecords
  BY OpType DEF CountClone, At
<1>2. PICK c \in Clones : op[g].clone = {c}
  BY <1>1 DEF BoxInv, WorksOnClone
<1>3. PICK s0 : s0 = op[g].snap
  OBVIOUS
<1>4. PICK o \in OpRecords :
        /\ Disturb(g, o)
        /\ o = NoOp \/ (o.at = "start" /\ o.clone = {c})
  <2> DEFINE o == [op[g] EXCEPT !.at = "start"]
  <2>1. NoOp \in OpRecords
    BY NoOpType DEF BoxInv
  <2>2. o \in OpRecords /\ o.at = "start" /\ o.clone = {c}
    BY <1>1, <1>2 DEF OpRecords, OpSteps
  <2>3. Disturb(g, IF op[g].old # 0 THEN NoOp ELSE o)
    BY DEF CountClone
  <2> HIDE DEF o
  <2> QED
    BY <2>1, <2>2, <2>3
<1>5. /\ op'[g] = o
      /\ \A h \in Goroutines \ {g} :
           /\ op'[h].at = op[h].at /\ op'[h].clone = op[h].clone
           /\ op'[h].snap = op[h].snap /\ op'[h].old = op[h].old
  BY <1>4, Continued DEF BoxInv
<1>6. NoOp.at = "idle" /\ NoOp.clone = {}
  BY DEF NoOp
<1>7. UNCHANGED <<pool, taken, clone, resets, drifted>> /\ Increment(s0)
  BY <1>3 DEF CountClone
<1>8. CreatesAlone' /\ WorksOnClone' /\ DeletedFirst' /\ OneEntry'
  <2>1. op'[g] = NoOp \/ (op'[g].at = "start" /\ op'[g].clone = op[g].clone)
    BY <1>2, <1>4, <1>5
  <2> QED
    BY <1>1, <1>5, <1>6, <1>7, <2>1, StructureStays DEF Creating
<1>9. /\ box' \in Boxes /\ box'.items = box.items
      /\ \A s \in box.items : box'.number[s] = box.number[s] + Bit(s = s0)
  BY <1>7, Incremented DEF BoxInv
<1>10. CountsFollowRegistry'
  <2>1. /\ \A s : g \notin Rising(s)' /\ g \notin Falling(s) /\ g \notin Falling(s)'
        /\ \A s : g \in Rising(s) <=> s = s0
    BY <1>1, <1>3, <1>4, <1>5, <1>6 DEF Rising, Falling, At
  <2>2. \A s \in box.items :
          /\ box'.number[s] \in Int
          /\ box'.number[s] - box.number[s] + Bit(g \in Rising(s)') - Bit(g \in Rising(s))
             = Bit(clone'[c].registered /\ clone'[c].snap = s)
               - Bit(clone[c].registered /\ clone[c].snap = s)
               + Bit(g \in Falling(s)') - Bit(g \in Falling(s))
    BY <1>7, <1>9, <2>1, NumberType DEF Bit, BoxInv
  <2> QED
    BY <1>2, <1>5, <1>7, <1>9, <2>2, CountsFollow
<1>11. clone' \in [Clones -> CloneStates] /\ drifted' \in BOOLEAN
  BY <1>7, TypeParts DEF BoxInv
<1> QED
  BY <1>4, <1>6, <1>7, <1>8, <1>9, <1>10, <1>11, LoudStep

LEMMA Unregistered ==
  ASSUME clone \in [Clones -> CloneStates], NEW id, Unregister(id)
  PROVE  /\ clone' \in [Clones -> CloneStates]
         /\ \A d \in Clones :
              /\ clone'[d].id = clone[d].id /\ clone'[d].snap = clone[d].snap
              /\ clone[d].id = id => ~ clone'[d].registered
              /\ clone[d].id # id => clone'[d] = clone[d]
<1>1. \A d \in Clones : clone[d] \in CloneStates
  OBVIOUS
<1>2. ASSUME NEW q \in CloneStates
      PROVE  LET p == [q EXCEPT !.registered = FALSE]
             IN p \in CloneStates /\ ~ p.registered /\ p.snap = q.snap /\ p.id = q.id
  BY DEF CloneStates
<1> QED
  BY <1>1, <1>2 DEF Unregister

LEMMA DeleteInv ==
  ASSUME BoxInv, NEW g \in Goroutines, Delete(g)
  PROVE  BoxInv'
<1>1. op[g].at = "delete" /\ op[g] \in OpRecords
  BY OpType DEF Delete, At
<1>2. PICK c \in Clones : op[g].clone = {c}
  BY <1>1 DEF BoxInv, WorksOnClone
<1>3. CloneOf(g) = c
  BY <1>2, TheClone
<1>4. PICK o \in OpRecords : Disturb(g, o) /\ o.at = "decrement" /\ o.clone = {c}
  <2> DEFINE o == [op[g] EXCEPT !.at = "decrement"]
  <2>1. o \in OpRecords /\ o.at = "decrement" /\ o.clone = {c}
    BY <1>1, <1>2 DEF OpRecords, OpSteps
  <2>2. Disturb(g, o)
    BY DEF Delete
  <2> HIDE DEF o
  <2> QED
    BY <2>1, <2>2
<1>5. /\ op'[g] = o
      /\ \A h \in Goroutines \ {g} :
           /\ op'[h].at = op[h].at /\ op'[h].clone = op[h].clone
           /\ op'[h].snap = op[h].snap /\ op'[h].old = op[h].old
  BY <1>4, Continued DEF BoxInv
<1>6. /\ UNCHANGED <<pool, taken, box, resets>>
      /\ drifted' = (drifted \/ DeletesOther(c))
  BY <1>3 DEF Delete
<1>7. /\ clone' \in [Clones -> CloneStates]
      /\ \A d \in Clones :
           /\ clone'[d].id = clone[d].id /\ clone'[d].snap = clone[d].snap
           /\ clone[d].id = clone[c].id => ~ clone'[d].registered
           /\ clone[d].id # clone[c].id => clone'[d] = clone[d]
  <2>1. clone \in [Clones -> CloneStates]
    BY TypeParts DEF BoxInv
  <2>2. Unregister(clone[c].id)
    BY <1>3 DEF Delete
  <2> QED
    BY <2>1, <2>2, Unregistered
<1>8. \A d \in Clones : clone'[d].registered => clone[d].registered
  BY <1>7
<1>9. \A h \in Goroutines : op'[h].clone = op[h].clone
  BY <1>2, <1>4, <1>5
<1>10. OneEntry'
  BY <1>7, <1>8 DEF BoxInv, OneEntry
<1>11. CreatesAlone'
  BY <1>4, <1>5, <1>8, <1>9 DEF BoxInv, CreatesAlone
<1>12. WorksOnClone'
  BY <1>4, <1>5 DEF BoxInv, WorksOnClone
<1>13. DeletedFirst'
  <2> SUFFICES ASSUME NEW h \in Goroutines, NEW d \in Clones,
                      op'[h].at = "decrement", op'[h].clone = {d}
               PROVE  ~ clone'[d].registered
    BY DEF DeletedFirst, At
  <2>1. CASE h = g
    <3>1. {c} = {d}
      BY <1>4, <1>5, <2>1
    <3>2. c = d
      BY <3>1
    <3> QED
      BY <1>7, <3>2
  <2>2. CASE h # g
    BY <1>5, <1>8, <2>2 DEF BoxInv, DeletedFirst, At
  <2> QED
    BY <2>1, <2>2
<1>14. CASE drifted'
  <2>1. CountsFollowRegistry'
    BY <1>14 DEF CountsFollowRegistry
  <2>2. box' \in Boxes /\ drifted' \in BOOLEAN
    BY <1>6, <1>14, TypeParts DEF BoxInv
  <2> QED
    BY <1>4, <1>6, <1>7, <1>10, <1>11, <1>12, <1>13, <2>1, <2>2, LoudStep
<1>15. CASE ~ drifted'
  <2>1. PICK s0 : s0 = clone[c].snap
    OBVIOUS
  <2>2. PICK d \in Clones : clone[d].registered /\ clone[d].id = clone[c].id /\ clone[d].snap = s0
    BY <1>6, <1>15, <2>1 DEF DeletesOther, Entry
  <2>3. \A e \in Clones \ {d} :
          clone'[e].registered = clone[e].registered /\ clone'[e].snap = clone[e].snap
    <3> SUFFICES ASSUME NEW e \in Clones \ {d}
                 PROVE  clone'[e].registered = clone[e].registered
      BY <1>7
    <3>1. CASE clone[e].id # clone[c].id
      BY <1>7, <3>1
    <3>2. CASE clone[e].id = clone[c].id
      <4>1. ~ clone[e].registered /\ ~ clone'[e].registered
        BY <1>7, <2>2, <3>2 DEF BoxInv, OneEntry
      <4>2. clone[e].registered \in BOOLEAN /\ clone'[e].registered \in BOOLEAN
        BY <1>7, TypeParts DEF BoxInv, CloneStates
      <4> QED
        BY <4>1, <4>2
    <3> QED
      BY <3>1, <3>2
  <2>4. CloneOf(g)' = c
    BY <1>4, <1>5 DEF CloneOf
  <2>5. /\ \A s : g \notin Rising(s) /\ g \notin Rising(s)' /\ g \notin Falling(s)
        /\ \A s : g \in Falling(s)' <=> s = s0
    BY <1>1, <1>4, <1>5, <1>7, <2>1, <2>4 DEF Rising, Falling, At
  <2>6. \A s \in box.items :
          /\ box'.number[s] \in Int
          /\ box'.number[s] - box.number[s] + Bit(g \in Rising(s)') - Bit(g \in Rising(s))
             = Bit(clone'[d].registered /\ clone'[d].snap = s)
               - Bit(clone[d].registered /\ clone[d].snap = s)
               + Bit(g \in Falling(s)') - Bit(g \in Falling(s))
    BY <1>6, <1>7, <2>2, <2>5, NumberType DEF Bit, BoxInv
  <2>7. \A h \in Goroutines \ {g} :
          op[h].at = "decrement" => clone'[CloneOf(h)].snap = clone[CloneOf(h)].snap
    BY <1>7, OthersFall
  <2>8. CountsFollowRegistry'
    <3>1. box'.items = box.items /\ ~ drifted
      BY <1>6, <1>15
    <3>2. \A h \in Goroutines \ {g} :
            /\ op'[h].at = op[h].at /\ op'[h].clone = op[h].clone
            /\ op'[h].snap = op[h].snap /\ op'[h].old = op[h].old
            /\ op[h].at = "decrement" => clone'[CloneOf(h)].snap = clone[CloneOf(h)].snap
      BY <1>5, <2>7
    <3>3. \A s \in box.items : box'.number[s] \in Int
      BY <2>6
    <3> QED
      BY <2>3, <2>6, <3>1, <3>2, <3>3, CountsFollow
  <2>9. box' \in Boxes /\ drifted' \in BOOLEAN
    BY <1>6, <1>15, TypeParts DEF BoxInv
  <2> QED
    BY <1>4, <1>6, <1>7, <1>10, <1>11, <1>12, <1>13, <2>8, <2>9, LoudStep
<1> QED
  BY <1>14, <1>15

LEMMA UncountInv ==
  ASSUME BoxInv, NEW g \in Goroutines, Uncount(g)
  PROVE  BoxInv'
<1>1. op[g].at = "decrement"
  BY DEF Uncount, At
<1>2. PICK c \in Clones : op[g].clone = {c}
  BY <1>1 DEF BoxInv, WorksOnClone
<1>3. CloneOf(g) = c
  BY <1>2, TheClone
<1>4. PICK s0 : s0 = clone[c].snap
  OBVIOUS
<1>5. /\ UNCHANGED <<pool, taken, clone, resets>>
      /\ Decrement(s0) /\ drifted' = (drifted \/ Underflow(s0))
      /\ Disturb(g, NoOp)
  BY <1>3, <1>4 DEF Uncount
<1>6. NoOp \in OpRecords /\ NoOp.at = "idle" /\ NoOp.clone = {}
  BY NoOpType DEF BoxInv, NoOp
<1>7. /\ op'[g] = NoOp
      /\ \A h \in Goroutines \ {g} :
           /\ op'[h].at = op[h].at /\ op'[h].clone = op[h].clone
           /\ op'[h].snap = op[h].snap /\ op'[h].old = op[h].old
  BY <1>5, <1>6, Continued DEF BoxInv
<1>8. CreatesAlone' /\ WorksOnClone' /\ DeletedFirst' /\ OneEntry'
  BY <1>5, <1>6, <1>7, StructureStays
<1>9. /\ box' \in Boxes /\ box'.items = box.items
      /\ \A s \in box.items :
           ~ Underflow(s0) => box'.number[s] = box.number[s] - Bit(s = s0)
  BY <1>5, Decremented DEF BoxInv
<1>10. \A s \in box.items : box'.number[s] \in Int
  BY <1>9, TakenNumbers DEF Boxes, Counts, BoxInv
<1>11. CountsFollowRegistry'
  <2>1. /\ \A s : g \notin Rising(s)' /\ g \notin Rising(s) /\ g \notin Falling(s)'
        /\ \A s : g \in Falling(s) <=> s = s0
    BY <1>1, <1>3, <1>4, <1>6, <1>7 DEF Rising, Falling, At
  <2>2. ~ drifted' => ~ drifted /\ ~ Underflow(s0)
    BY <1>5
  <2>3. ~ drifted' =>
          \A s \in box.items :
            box'.number[s] - box.number[s] + Bit(g \in Rising(s)') - Bit(g \in Rising(s))
            = Bit(clone'[c].registered /\ clone'[c].snap = s)
              - Bit(clone[c].registered /\ clone[c].snap = s)
              + Bit(g \in Falling(s)') - Bit(g \in Falling(s))
    BY <1>5, <1>9, <2>1, <2>2, NumberType DEF Bit, BoxInv
  <2> QED
    BY <1>2, <1>5, <1>7, <1>9, <1>10, <2>2, <2>3, CountsFollow
<1>12. clone' \in [Clones -> CloneStates] /\ drifted' \in BOOLEAN
  BY <1>5, TypeParts DEF BoxInv, Underflow
<1> QED
  BY <1>5, <1>6, <1>8, <1>9, <1>11, <1>12, LoudStep

LEMMA ReplaceInv ==
  ASSUME BoxInv, NEW g \in Goroutines, Replace(g)
  PROVE  BoxInv'
<1>1. op[g].at = "replace" /\ op[g] \in OpRecords
  BY OpType DEF Replace, At
<1>2. PICK c \in Clones : op[g].clone = {c}
  BY <1>1 DEF BoxInv, WorksOnClone
<1>3. PICK s0 : s0 = op[g].old
  OBVIOUS
<1>4. PICK o \in OpRecords :
        Disturb(g, o) /\ o.at = "increment" /\ o.clone = {c} /\ o.snap = op[g].snap
  <2> DEFINE o == [op[g] EXCEPT !.at = "increment"]
  <2>1. o \in OpRecords /\ o.at = "increment" /\ o.clone = {c} /\ o.snap = op[g].snap
    BY <1>1, <1>2 DEF OpRecords, OpSteps
  <2>2. Disturb(g, o)
    BY DEF Replace
  <2> HIDE DEF o
  <2> QED
    BY <2>1, <2>2
<1>5. /\ op'[g] = o
      /\ \A h \in Goroutines \ {g} :
           /\ op'[h].at = op[h].at /\ op'[h].clone = op[h].clone
           /\ op'[h].snap = op[h].snap /\ op'[h].old = op[h].old
  BY <1>4, Continued DEF BoxInv
<1>6. /\ UNCHANGED <<pool, taken, clone, resets>>
      /\ Decrement(s0) /\ drifted' = (drifted \/ Underflow(s0))
  BY <1>3 DEF Replace
<1>7. CreatesAlone' /\ WorksOnClone' /\ DeletedFirst' /\ OneEntry'
  <2>1. op'[g].at = "increment" /\ op'[g].clone = op[g].clone
    BY <1>2, <1>4, <1>5
  <2> QED
    BY <1>1, <1>5, <1>6, <2>1, StructureStays DEF Creating
<1>8. /\ box' \in Boxes /\ box'.items = box.items
      /\ \A s \in box.items :
           ~ Underflow(s0) => box'.number[s] = box.number[s] - Bit(s = s0)
  BY <1>6, Decremented DEF BoxInv
<1>9. \A s \in box.items : box'.number[s] \in Int
  BY <1>8, TakenNumbers DEF Boxes, Counts, BoxInv
<1>10. CountsFollowRegistry'
  <2>1. /\ \A s : g \in Rising(s)' <=> g \in Rising(s)
        /\ \A s : g \notin Falling(s)'
        /\ \A s : g \in Falling(s) <=> s = s0
    BY <1>1, <1>3, <1>4, <1>5 DEF Rising, Falling, At
  <2>2. ~ drifted' => ~ drifted /\ ~ Underflow(s0)
    BY <1>6
  <2>3. ~ drifted' =>
          \A s \in box.items :
            box'.number[s] - box.number[s] + Bit(g \in Rising(s)') - Bit(g \in Rising(s))
            = Bit(clone'[c].registered /\ clone'[c].snap = s)
              - Bit(clone[c].registered /\ clone[c].snap = s)
              + Bit(g \in Falling(s)') - Bit(g \in Falling(s))
    BY <1>6, <1>8, <2>1, <2>2, NumberType DEF Bit, BoxInv
  <2> QED
    BY <1>2, <1>5, <1>6, <1>8, <1>9, <2>2, <2>3, CountsFollow
<1>11. clone' \in [Clones -> CloneStates] /\ drifted' \in BOOLEAN
  BY <1>6, TypeParts DEF BoxInv, Underflow
<1> QED
  BY <1>4, <1>6, <1>7, <1>8, <1>10, <1>11, LoudStep

LEMMA SnapshotChanges ==
  ASSUME clone \in [Clones -> CloneStates], NEW c \in Clones, NEW s \in 0 .. taken,
         clone' = [clone EXCEPT ![c].snap = s]
  PROVE  /\ clone' \in [Clones -> CloneStates]
         /\ clone'[c].snap = s
         /\ \A d \in Clones :
              clone'[d].id = clone[d].id /\ clone'[d].registered = clone[d].registered
         /\ \A d \in Clones \ {c} : clone'[d] = clone[d]
<1>1. \A d \in Clones : clone[d] \in CloneStates
  OBVIOUS
<1>2. [clone[c] EXCEPT !.snap = s] \in CloneStates
  BY <1>1 DEF CloneStates
<1>3. clone' \in [Clones -> CloneStates]
  BY <1>2
<1>4. clone'[c].snap = s
  BY <1>1 DEF CloneStates
<1>5. \A d \in Clones :
        clone'[d].id = clone[d].id /\ clone'[d].registered = clone[d].registered
  BY <1>1 DEF CloneStates
<1>6. \A d \in Clones \ {c} : clone'[d] = clone[d]
  OBVIOUS
<1> QED
  BY <1>3, <1>4, <1>5, <1>6

\* The reset has happened: the wrapper is of the new snapshot, and the numbers
\* of both are to follow.
LEMMA SnapshotReset ==
  ASSUME BoxInv, NEW g \in Goroutines, At(g, "reset"), NEW s1 \in pool,
         clone' = [clone EXCEPT ![CloneOf(g)].snap = s1],
         drifted' = (\/ drifted
                     \/ ~ clone[CloneOf(g)].registered
                     \/ clone[CloneOf(g)].snap # op[g].old),
         Disturb(g, [op[g] EXCEPT !.at = "replace", !.snap = s1]),
         UNCHANGED <<pool, taken, box, resets>>
  PROVE  BoxInv'
<1>1. op[g].at = "reset" /\ op[g] \in OpRecords
  BY OpType DEF At
<1>2. PICK c \in Clones : op[g].clone = {c}
  BY <1>1 DEF BoxInv, WorksOnClone
<1>3. CloneOf(g) = c
  BY <1>2, TheClone
<1>4. s1 \in 0 .. taken
  <2>1. pool \subseteq 1 .. taken /\ taken \in Nat
    BY TypeParts DEF BoxInv
  <2> QED
    BY <2>1
<1>5. PICK s0 : s0 = op[g].old
  OBVIOUS
<1>6. PICK o \in OpRecords :
        Disturb(g, o) /\ o.at = "replace" /\ o.clone = {c} /\ o.snap = s1 /\ o.old = s0
  <2> DEFINE o == [op[g] EXCEPT !.at = "replace", !.snap = s1]
  <2>1. o \in OpRecords /\ o.at = "replace" /\ o.clone = {c} /\ o.snap = s1 /\ o.old = s0
    BY <1>1, <1>2, <1>4, <1>5 DEF OpRecords, OpSteps
  <2>2. Disturb(g, o)
    OBVIOUS
  <2> HIDE DEF o
  <2> QED
    BY <2>1, <2>2
<1>7. /\ op'[g] = o
      /\ \A h \in Goroutines \ {g} :
           /\ op'[h].at = op[h].at /\ op'[h].clone = op[h].clone
           /\ op'[h].snap = op[h].snap /\ op'[h].old = op[h].old
  BY <1>6, Continued DEF BoxInv
<1>8. /\ clone' \in [Clones -> CloneStates]
      /\ clone'[c].snap = s1
      /\ \A d \in Clones :
           clone'[d].id = clone[d].id /\ clone'[d].registered = clone[d].registered
      /\ \A d \in Clones \ {c} : clone'[d] = clone[d]
  BY <1>3, <1>4, TypeParts, SnapshotChanges DEF BoxInv
<1>9. CreatesAlone' /\ WorksOnClone' /\ DeletedFirst' /\ OneEntry'
  <2>1. op'[g].at = "replace" /\ op'[g].clone = op[g].clone
    BY <1>2, <1>6, <1>7
  <2> QED
    BY <1>1, <1>7, <1>8, <2>1, StructureStays DEF Creating
<1>10. ~ drifted' => ~ drifted /\ clone[c].registered /\ clone[c].snap = s0
  BY <1>3, <1>5
<1>11. CASE drifted'
  <2>1. CountsFollowRegistry'
    BY <1>11 DEF CountsFollowRegistry
  <2>2. box' \in Boxes /\ drifted' \in BOOLEAN
    BY <1>11, TypeParts DEF BoxInv
  <2> QED
    BY <1>6, <1>8, <1>9, <2>1, <2>2, LoudStep
<1>12. CASE ~ drifted'
  <2>1. /\ \A s : g \notin Rising(s) /\ g \notin Falling(s)
        /\ \A s : g \in Rising(s)' <=> s = s1
        /\ \A s : g \in Falling(s)' <=> s = s0
    BY <1>1, <1>6, <1>7 DEF Rising, Falling, At
  <2>2. \A s \in box.items :
          /\ box'.number[s] \in Int
          /\ box'.number[s] - box.number[s] + Bit(g \in Rising(s)') - Bit(g \in Rising(s))
             = Bit(clone'[c].registered /\ clone'[c].snap = s)
               - Bit(clone[c].registered /\ clone[c].snap = s)
               + Bit(g \in Falling(s)') - Bit(g \in Falling(s))
    BY <1>8, <1>10, <1>12, <2>1, NumberType DEF Bit, BoxInv
  <2>3. \A h \in Goroutines \ {g} :
          op[h].at = "decrement" => clone'[CloneOf(h)].snap = clone[CloneOf(h)].snap
    BY <1>8, <1>10, <1>12, OthersFall
  <2>4. CountsFollowRegistry'
    <3>1. box'.items = box.items /\ ~ drifted
      BY <1>10, <1>12
    <3>2. \A h \in Goroutines \ {g} :
            /\ op'[h].at = op[h].at /\ op'[h].clone = op[h].clone
            /\ op'[h].snap = op[h].snap /\ op'[h].old = op[h].old
            /\ op[h].at = "decrement" => clone'[CloneOf(h)].snap = clone[CloneOf(h)].snap
      BY <1>7, <2>3
    <3>3. \A d \in Clones \ {c} :
            clone'[d].registered = clone[d].registered /\ clone'[d].snap = clone[d].snap
      BY <1>8
    <3>4. \A s \in box.items : box'.number[s] \in Int
      BY <2>2
    <3> QED
      BY <1>2, <2>2, <3>1, <3>2, <3>3, <3>4, CountsFollow
  <2>5. box' \in Boxes /\ drifted' \in BOOLEAN
    BY <1>10, <1>12, TypeParts DEF BoxInv
  <2> QED
    BY <1>6, <1>8, <1>9, <2>4, <2>5, LoudStep
<1> QED
  BY <1>11, <1>12

LEMMA ResetSessionInv ==
  ASSUME BoxInv, NEW g \in Goroutines, ResetSession(g)
  PROVE  BoxInv'
<1>1. CASE Continue(g, NoOp) /\ UNCHANGED <<clone, drifted>>
  <2>1. NoOp \in OpRecords /\ NoOp.at = "idle"
    BY NoOpType DEF BoxInv, NoOp
  <2>2. /\ op[g].at = "reset"
        /\ UNCHANGED <<pool, taken, box, clone, resets, drifted>>
    BY <1>1 DEF ResetSession, At
  <2> QED
    BY <1>1, <2>1, <2>2, QuietSameClone DEF Windows
<1>2. CASE ~ (Continue(g, NoOp) /\ UNCHANGED <<clone, drifted>>)
  <2>1. PICK s1 \in pool :
          /\ clone' = [clone EXCEPT ![CloneOf(g)].snap = s1]
          /\ drifted' = (\/ drifted
                         \/ ~ clone[CloneOf(g)].registered
                         \/ clone[CloneOf(g)].snap # op[g].old)
          /\ Disturb(g, [op[g] EXCEPT !.at = "replace", !.snap = s1])
    BY <1>2 DEF ResetSession
  <2>2. At(g, "reset") /\ UNCHANGED <<pool, taken, box, resets>>
    BY DEF ResetSession
  <2> QED
    BY <2>1, <2>2, SnapshotReset
<1> QED
  BY <1>1, <1>2

-----------------------------------------------------------------------------
(* The restart, and the snapshots themselves *)

LEMMA RestartInv ==
  ASSUME BoxInv, Restart
  PROVE  BoxInv'
<1>1. PICK saved \in SUBSET {c \in Clones : clone[c].session} :
        /\ \A c, d \in saved : clone[c].id = clone[d].id => c = d
        /\ \E running \in SUBSET saved :
             LET known == {c \in saved : clone[c].snap \in pool}
             IN /\ clone' = [c \in Clones |->
                               [clone[c] EXCEPT !.registered = c \in known \cap running]]
                /\ box' = [items |-> pool, latest |-> Newest(pool),
                           number |-> [s \in Numbers |-> Cardinality({c \in known : clone[c].snap = s})]]
                /\ drifted' = ~ known \subseteq running
  BY DEF Restart
<1>2. PICK running \in SUBSET Clones, known \in SUBSET Clones :
        /\ \A c, d \in known : clone[c].id = clone[d].id => c = d
        /\ clone' = [c \in Clones |-> [clone[c] EXCEPT !.registered = c \in known \cap running]]
        /\ box' = [items |-> pool, latest |-> Newest(pool),
                   number |-> [s \in Numbers |-> Cardinality({c \in known : clone[c].snap = s})]]
        /\ drifted' = ~ known \subseteq running
  BY <1>1
<1>3. op' = [g \in Goroutines |-> NoOp] /\ UNCHANGED <<pool, taken>> /\ resets' = 0
  BY DEF Restart
<1>4. /\ NoOp \in OpRecords /\ NoOp.at = "idle" /\ NoOp.clone = {}
  BY NoOpType DEF BoxInv, NoOp
<1>5. clone \in [Clones -> CloneStates] /\ pool \subseteq 1 .. taken /\ taken \in Nat
  BY TypeParts DEF BoxInv
<1>6. \A c \in Clones :
        /\ clone'[c] \in CloneStates
        /\ clone'[c].id = clone[c].id /\ clone'[c].snap = clone[c].snap
        /\ clone'[c].registered <=> c \in known \cap running
  <2> SUFFICES ASSUME NEW c \in Clones
               PROVE  /\ clone'[c] \in CloneStates
                      /\ clone'[c].id = clone[c].id /\ clone'[c].snap = clone[c].snap
                      /\ clone'[c].registered <=> c \in known \cap running
    OBVIOUS
  <2>1. clone[c] \in CloneStates
    BY <1>5
  <2>2. PICK K : K = known \cap running
    OBVIOUS
  <2>3. PICK r : r = (c \in K)
    OBVIOUS
  <2>4. r \in BOOLEAN
    BY <2>3
  <2>5. clone'[c] = [clone[c] EXCEPT !.registered = r]
    <3>1. clone'[c] = [clone[c] EXCEPT !.registered = c \in K]
      BY <1>2, <2>2
    <3> QED
      BY <2>3, <3>1
  <2>6. clone'[c] \in CloneStates /\ clone'[c].id = clone[c].id /\ clone'[c].snap = clone[c].snap
    BY <2>1, <2>4, <2>5 DEF CloneStates
  <2>7. clone'[c].registered <=> c \in K
    BY <2>1, <2>3, <2>5 DEF CloneStates
  <2> QED
    BY <2>2, <2>6, <2>7
<1>7. clone' \in [Clones -> CloneStates]
  <2>1. clone' = [c \in Clones |-> clone'[c]]
    BY <1>2
  <2> QED
    BY <1>6, <2>1
<1>8. [s \in Numbers |-> Cardinality({c \in known : clone[c].snap = s})] \in Counts
  <2>1. \A s \in Numbers : Cardinality({c \in known : clone[c].snap = s}) \in Nat
    BY <1>2, CountType
  <2> QED
    BY <2>1 DEF Counts
<1>9. box' \in Boxes /\ drifted' \in BOOLEAN
  <2>1. Newest(pool) \in 0 .. taken
    BY <1>5, NewestType
  <2> QED
    BY <1>2, <1>5, <1>8, <2>1 DEF Boxes
<1>10. op' \in [Goroutines -> OpRecords] /\ resets' \in 0 .. MaxResets
  BY <1>3, <1>4, BoxAssumption
<1>11. SnapshotBoxTypeOK'
  BY <1>3, <1>7, <1>9, <1>10, TypeParts, TypesStay DEF BoxInv
<1>12. \A g \in Goroutines : op'[g].at = "idle" /\ op'[g].clone = {}
  BY <1>3, <1>4
<1>13. CreatesAlone' /\ WorksOnClone' /\ DeletedFirst' /\ OneEntry' /\ FetchCounts'
  <2>1. OneEntry'
    <3>1. \A c, d \in known : clone[c].id = clone[d].id => c = d
      BY <1>2
    <3>2. \A c, d \in Clones :
            clone'[c].registered /\ clone'[d].registered
              => c \in known /\ d \in known
      BY <1>6
    <3> QED
      BY <1>6, <3>1, <3>2 DEF OneEntry
  <2>2. CreatesAlone' /\ WorksOnClone' /\ DeletedFirst' /\ FetchCounts'
    BY <1>12 DEF CreatesAlone, WorksOnClone, DeletedFirst, FetchCounts, At
  <2> QED
    BY <2>1, <2>2
<1>14. CountsFollowRegistry'
  <2> SUFFICES ASSUME known \subseteq running, NEW s \in pool
               PROVE  box'.number[s] + Cardinality(Rising(s)')
                        = Registered(s)' + Cardinality(Falling(s)')
    BY <1>2 DEF CountsFollowRegistry
  <2>1. Rising(s)' = {} /\ Falling(s)' = {}
    BY <1>12 DEF Rising, Falling, At
  <2>2. s \in Numbers
    BY <1>5, TakenNumbers DEF BoxInv
  <2>3. box'.number[s] = Cardinality({c \in known : clone[c].snap = s})
    BY <1>2, <2>2
  <2>4. {c \in known : clone[c].snap = s}
          = {c \in Clones : clone'[c].registered /\ clone'[c].snap = s}
    BY <1>2, <1>6
  <2>5. box'.number[s] = Registered(s)'
    BY <2>3, <2>4 DEF Registered
  <2>6. box'.number[s] \in Nat
    BY <1>2, <2>3, CountType
  <2> QED
    BY <2>1, <2>5, <2>6, FS_EmptySet
<1> QED
  BY <1>11, <1>13, <1>14 DEF BoxInv

\* A step that neither the goroutines nor the service see.
LEMMA UnseenStep ==
  ASSUME BoxInv, UNCHANGED <<box, clone, op, drifted>>
  PROVE  /\ CreatesAlone' /\ WorksOnClone' /\ DeletedFirst' /\ OneEntry'
         /\ FetchCounts' /\ CountsFollowRegistry'
<1>1. \A s : Registered(s)' = Registered(s) /\ Rising(s)' = Rising(s) /\ Falling(s)' = Falling(s)
  BY DEF Registered, Rising, Falling, At, CloneOf
<1>2. CreatesAlone' /\ WorksOnClone' /\ DeletedFirst' /\ OneEntry'
  BY DEF BoxInv, OneEntry, CreatesAlone, WorksOnClone, DeletedFirst, At
<1>3. FetchCounts' /\ CountsFollowRegistry'
  BY <1>1 DEF BoxInv, FetchCounts, CountsFollowRegistry, At, Windows
<1> QED
  BY <1>2, <1>3

LEMMA TakeInv ==
  ASSUME BoxInv, TakeSnapshot
  PROVE  BoxInv'
<1>1. /\ taken' = taken + 1 /\ taken' \in 1 .. MaxSnapshots
      /\ pool' = pool \cup {taken + 1} /\ pool \subseteq 1 .. taken
      /\ UNCHANGED <<box, clone, op, resets, drifted>>
  BY TypeParts, BoxAssumption DEF TakeSnapshot, BoxInv
<1>2. taken \in Nat
  BY TypeParts DEF BoxInv
<1>3. 1 .. taken \subseteq 1 .. taken' /\ 0 .. taken \subseteq 0 .. taken'
  BY <1>1, <1>2
<1>4. pool' \subseteq 1 .. taken'
  BY <1>1, <1>2, <1>3
<1>5. Boxes \subseteq Boxes' /\ CloneStates \subseteq CloneStates' /\ OpRecords \subseteq OpRecords'
  <2>1. Boxes \subseteq Boxes'
    BY <1>3 DEF Boxes
  <2>2. CloneStates \subseteq CloneStates'
    BY <1>3 DEF CloneStates
  <2>3. OpRecords \subseteq OpRecords'
    BY <1>3 DEF OpRecords
  <2> QED
    BY <2>1, <2>2, <2>3
<1>6. /\ box' \in Boxes' /\ clone' \in [Clones -> CloneStates']
      /\ op' \in [Goroutines -> OpRecords']
      /\ resets' \in 0 .. MaxResets /\ drifted' \in BOOLEAN
  <2>1. /\ box \in Boxes /\ clone \in [Clones -> CloneStates]
        /\ op \in [Goroutines -> OpRecords]
        /\ resets \in 0 .. MaxResets /\ drifted \in BOOLEAN
    BY TypeParts DEF BoxInv
  <2> QED
    BY <1>1, <1>5, <2>1
<1>7. SnapshotBoxTypeOK'
  BY <1>1, <1>4, <1>6 DEF SnapshotBoxTypeOK, Boxes, CloneStates, OpRecords
<1> QED
  BY <1>1, <1>7, UnseenStep DEF BoxInv

LEMMA RemoveInv ==
  ASSUME BoxInv, RemoveSnapshot
  PROVE  BoxInv'
<1>1. /\ pool' \subseteq pool
      /\ UNCHANGED <<taken, box, clone, op, resets, drifted>>
  BY DEF RemoveSnapshot
<1>2. SnapshotBoxTypeOK'
  BY <1>1, TypeParts, TypesStay DEF BoxInv
<1> QED
  BY <1>1, <1>2, UnseenStep DEF BoxInv

-----------------------------------------------------------------------------
(* The specification *)

LEMMA InitInv ==
  ASSUME Init
  PROVE  BoxInv
<1>1. /\ taken = 1 /\ pool = {1} /\ box = [items |-> {1}, number |-> Zero, latest |-> 1]
      /\ clone = [c \in Clones |-> NoClone] /\ op = [g \in Goroutines |-> NoOp]
      /\ resets = 0 /\ drifted = FALSE
  BY DEF Init
<1>2. MaxSnapshots \in Nat \ {0} /\ MaxResets \in Nat
  BY BoxAssumption
<1>3. Zero \in Counts
  BY DEF Zero, Counts
<1>4. NoOp \in OpRecords
  BY <1>1, <1>3 DEF NoOp, OpRecords, OpSteps
<1>5. NoClone \in CloneStates
  BY <1>1 DEF NoClone, CloneStates
<1>6. box \in Boxes
  BY <1>1, <1>3 DEF Boxes
<1>7. SnapshotBoxTypeOK
  <2>1. clone \in [Clones -> CloneStates] /\ op \in [Goroutines -> OpRecords]
    BY <1>1, <1>4, <1>5
  <2>2. taken \in 1 .. MaxSnapshots /\ pool \subseteq 1 .. taken
    BY <1>1, <1>2
  <2>3. resets \in 0 .. MaxResets
    BY <1>1, <1>2
  <2>4. drifted \in BOOLEAN
    BY <1>1
  <2> QED
    BY <1>6, <2>1, <2>2, <2>3, <2>4, TypeParts
<1>8. \A g \in Goroutines : op[g].at = "idle" /\ op[g].clone = {}
  BY <1>1 DEF NoOp
<1>9. \A c \in Clones : ~ clone[c].registered
  <2>1. ~ NoClone.registered
    BY DEF NoClone
  <2> QED
    BY <1>1, <2>1
<1>10. OneEntry /\ CreatesAlone /\ WorksOnClone /\ DeletedFirst /\ FetchCounts
  BY <1>8, <1>9 DEF OneEntry, CreatesAlone, WorksOnClone, DeletedFirst, FetchCounts, At
<1>11. CountsFollowRegistry
  <2> SUFFICES ASSUME NEW s \in {1}
               PROVE  box.number[s] + Cardinality(Rising(s))
                        = Registered(s) + Cardinality(Falling(s))
    BY <1>1 DEF CountsFollowRegistry
  <2>1. Rising(s) = {} /\ Falling(s) = {} /\ Registered(s) = Cardinality({})
    BY <1>8, <1>9 DEF Rising, Falling, At, Registered
  <2>2. box.number[s] = 0
    <3>1. 1 \in Numbers
      BY <1>2 DEF Numbers
    <3> QED
      BY <1>1, <3>1 DEF Zero
  <2> QED
    BY <2>1, <2>2, FS_EmptySet
<1> QED
  BY <1>7, <1>10, <1>11 DEF BoxInv

LEMMA StepInv ==
  ASSUME BoxInv, [Next]_boxVars
  PROVE  BoxInv'
<1>1. ASSUME NEW g \in Goroutines, FetchStep(g)
      PROVE  BoxInv'
  BY <1>1, GetInv, CountEntryInv, ResetSnapshotsInv DEF FetchStep
<1>2. ASSUME NEW g \in Goroutines, CreateStep(g)
      PROVE  BoxInv'
  BY <1>2, CreateInv, PickInv, SetWrapperInv, CountCloneInv, StartInv DEF CreateStep
<1>3. ASSUME NEW g \in Goroutines, DestroyStep(g)
      PROVE  BoxInv'
  BY <1>3, DestroyInv, StopInv, DeleteInv, UncountInv DEF DestroyStep
<1>4. ASSUME NEW g \in Goroutines, ResetStep(g)
      PROVE  BoxInv'
  BY <1>4, ResetCloneInv, ResetSessionInv, ReplaceInv DEF ResetStep
<1>5. CASE Restart \/ TakeSnapshot \/ RemoveSnapshot
  BY <1>5, RestartInv, TakeInv, RemoveInv
<1>6. CASE UNCHANGED boxVars
  <2>1. UNCHANGED <<pool, taken, box, clone, op, resets, drifted>>
    BY <1>6 DEF boxVars
  <2>2. SnapshotBoxTypeOK'
    BY <2>1, TypeParts, TypesStay DEF BoxInv
  <2> QED
    BY <2>1, <2>2, UnseenStep DEF BoxInv
<1> QED
  BY <1>1, <1>2, <1>3, <1>4, <1>5, <1>6 DEF Next

LEMMA BoxHolds == BoxSpec => []BoxInv
<1>1. Init => BoxInv
  BY InitInv
<1>2. BoxInv /\ [Next]_boxVars => BoxInv'
  BY StepInv
<1> QED
  BY <1>1, <1>2, PTL DEF BoxSpec

\* The cache, the wrappers and the operations in progress have their types: no
\* number falls below zero, and no operation is of two clones.
THEOREM BoxTypes == BoxSpec => []SnapshotBoxTypeOK
<1>1. BoxInv => SnapshotBoxTypeOK
  BY DEF BoxInv
<1> QED
  BY <1>1, BoxHolds, PTL

\* With any number of clients at work, the number of clones of a snapshot is
\* that of the registry, but for the operations under way, until one of the
\* races the history variable names makes it drift; and a fetch that nothing
\* disturbs puts it right.
THEOREM CountsAreRight == BoxSpec => []CountsFollowRegistry
<1>1. BoxInv => CountsFollowRegistry
  BY DEF BoxInv
<1> QED
  BY <1>1, BoxHolds, PTL

=============================================================================
