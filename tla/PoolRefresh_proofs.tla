-------------------------- MODULE PoolRefresh_proofs --------------------------
(***************************************************************************)
(* Proofs about PoolRefresh, for any number of pools, ticks of cron and    *)
(* clones: its types, that a running clone keeps its snapshot, that no     *)
(* pool stays marked as refreshing, that the head of the list has the      *)
(* newest data unless refreshes overlap, and that clients are always       *)
(* offered a snapshot.                                                     *)
(***************************************************************************)
EXTENDS PoolRefresh, FiniteFacts, SequenceTheorems, TLAPS

-----------------------------------------------------------------------------
(* The lists of pools *)

Lists == {list \in Seq(Pools) : ToSet(list) = Pools /\ Len(list) = Cardinality(Pools)}

LEMMA SomePool == Len(Entries) \in Nat \ {0} /\ Len(Entries) = Cardinality(Pools)
<1>1. Entries \in Seq(Pools) /\ ToSet(Entries) = Pools /\ Pools # {}
  BY PoolRefreshAssumption
<1>2. Len(Entries) # 0
  BY <1>1 DEF ToSet
<1> QED
  BY <1>1, <1>2, PoolRefreshAssumption

LEMMA ListType ==
  ASSUME NEW list \in Lists
  PROVE  /\ DOMAIN list = 1 .. Len(list) /\ Len(list) \in Nat \ {0}
         /\ \A i \in DOMAIN list : list[i] \in Pools
         /\ \A p \in Pools : \E i \in DOMAIN list : list[i] = p
         /\ Head(list) = list[1] /\ Head(list) \in Pools
BY SomePool DEF Lists, ToSet

\* The element is at the head, and the pools are the same.
LEMMA MovedToFront ==
  ASSUME NEW list \in Lists, NEW p \in Pools
  PROVE  MoveToFront(p, list) \in Lists /\ Head(MoveToFront(p, list)) = p
<1> DEFINE n == Len(list)
           place == CHOOSE i \in DOMAIN list : list[i] = p
           moved == MoveToFront(p, list)
<1>1. DOMAIN list = 1 .. n /\ n \in Nat \ {0} /\ place \in 1 .. n /\ list[place] = p
  BY ListType
<1>2. moved = [i \in 1 .. n |-> IF i = 1 THEN p ELSE IF i <= place THEN list[i - 1] ELSE list[i]]
  BY <1>1 DEF MoveToFront
<1> HIDE DEF n, place, moved
<1>3. \A i \in 1 .. n : list[i] \in Pools
  BY <1>1, ListType
<1>4. \A i \in 1 .. n : moved[i] \in Pools
  BY <1>1, <1>2, <1>3
<1>5. moved \in Seq(Pools) /\ Len(moved) = n /\ DOMAIN moved = 1 .. n
  BY <1>1, <1>2, <1>4
<1>6. ASSUME NEW q \in Pools
      PROVE  \E i \in 1 .. n : moved[i] = q
  <2>1. PICK i \in 1 .. n : list[i] = q
    BY <1>1, ListType
  <2>2. CASE i = place
    <3>1. 1 \in 1 .. n /\ moved[1] = q
      BY <1>1, <1>2, <2>1, <2>2
    <3> QED
      BY <3>1
  <2>3. CASE i < place
    <3>1. i + 1 \in 1 .. n /\ moved[i + 1] = list[i]
      BY <1>1, <1>2, <2>3
    <3> QED
      BY <2>1, <3>1
  <2>4. CASE i > place
    <3>1. moved[i] = list[i]
      BY <1>1, <1>2, <2>4
    <3> QED
      BY <2>1, <3>1
  <2> QED
    BY <1>1, <2>2, <2>3, <2>4
<1>7. ToSet(moved) = Pools
  BY <1>4, <1>5, <1>6 DEF ToSet
<1>8. Len(moved) = Cardinality(Pools)
  BY <1>5 DEF Lists, n
<1>9. Head(moved) = p
  BY <1>1, <1>2, <1>5
<1> QED
  BY <1>5, <1>7, <1>8, <1>9 DEF Lists, moved

LEMMA UpdatedPool ==
  ASSUME order \in Lists
  PROVE  PoolToUpdate \in Pools \cup {None}
<1> DEFINE unused == {i \in DOMAIN order : ClonesIn(order[i]) = {}}
<1>1. CASE unused = {}
  BY <1>1 DEF PoolToUpdate
<1>2. CASE unused # {}
  <2>1. DOMAIN order = 1 .. Len(order) /\ Len(order) \in Nat
        /\ \A i \in DOMAIN order : order[i] \in Pools
    BY ListType
  <2>2. unused \subseteq 1 .. Len(order)
    BY <2>1
  <2>3. PoolToUpdate = order[Max(unused)]
    BY <1>2 DEF PoolToUpdate
  <2> HIDE DEF unused
  <2>4. \A i \in 1 .. Len(order) : i \in Int
    OBVIOUS
  <2>5. unused \subseteq Int /\ IsFiniteSet(unused)
    <3>1. unused \subseteq Int
      BY <2>2, <2>4
    <3>2. IsFiniteSet(1 .. Len(order))
      BY <2>1, FS_Interval
    <3> QED
      BY <2>2, <3>1, <3>2, FS_Subset
  <2>6. \E x \in unused : \A y \in unused : y <= x
    BY <1>2, <2>5, HasGreatest
  <2>7. \E x \in unused : \A y \in unused : x >= y
    BY <2>5, <2>6
  <2>8. Max(unused) \in unused
    BY <2>7 DEF Max
  <2> QED
    BY <2>1, <2>2, <2>3, <2>8
<1> QED
  BY <1>1, <1>2

-----------------------------------------------------------------------------
(* The list that is built anew *)

\* The recursion of Examined has a solution up to any entry, so Examined is one.
LEMMA ExaminedEntries ==
  Examined = [n \in 0 .. Len(Entries) |->
                IF n = 0 THEN <<>> ELSE Examine(Examined[n - 1], Entries[n])]
<1> DEFINE N == Len(Entries)
           Solves(e, n) == e = [k \in 0 .. n |->
                                  IF k = 0 THEN <<>> ELSE Examine(e[k - 1], Entries[k])]
           S == {n \in 0 .. N : \E f : Solves(f, n)}
<1>1. N \in Nat
  BY SomePool
<1>2. 0 \in S
  <2> DEFINE first == [k \in 0 .. 0 |-> <<>>]
  <2>1. Solves(first, 0)
    OBVIOUS
  <2>2. \E f : Solves(f, 0)
    BY <2>1
  <2> HIDE DEF Solves
  <2> QED
    BY <1>1, <2>2
<1>3. ASSUME NEW n \in 0 .. (N - 1), n \in S
      PROVE  n + 1 \in S
  <2>1. PICK f : Solves(f, n)
    BY <1>3
  <2> DEFINE g == [k \in 0 .. (n + 1) |->
                     IF k = n + 1 THEN Examine(f[n], Entries[n + 1]) ELSE f[k]]
  <2>2. \A k \in 0 .. n : g[k] = f[k]
    OBVIOUS
  <2>3. ASSUME NEW k \in 0 .. (n + 1)
        PROVE  g[k] = IF k = 0 THEN <<>> ELSE Examine(g[k - 1], Entries[k])
    <3>1. CASE k = n + 1
      <4>1. g[k] = Examine(f[n], Entries[k]) /\ k - 1 = n /\ k # 0
        BY <3>1
      <4>2. g[k - 1] = f[n]
        BY <2>2, <4>1
      <4> HIDE DEF g
      <4> QED
        BY <4>1, <4>2
    <3>2. CASE k \in 0 .. n
      <4>1. g[k] = f[k] /\ f[k] = IF k = 0 THEN <<>> ELSE Examine(f[k - 1], Entries[k])
        BY <2>1, <2>2, <3>2
      <4>2. k # 0 => g[k - 1] = f[k - 1]
        BY <2>2, <3>2
      <4> HIDE DEF g
      <4> QED
        BY <4>1, <4>2
    <3> QED
      BY <3>1, <3>2
  <2>4. Solves(g, n + 1)
    BY <2>3
  <2>5. n + 1 \in 0 .. N
    BY <1>1
  <2> HIDE DEF g
  <2> QED
    BY <2>4, <2>5
<1>4. N \in S
  <2> HIDE DEF S
  <2>1. \A k \in 0 .. N : k \in S
    BY <1>1, <1>2, <1>3, UpTo
  <2> QED
    BY <1>1, <2>1
<1>5. PICK f : Solves(f, N)
  BY <1>4
<1>6. Examined = CHOOSE e : Solves(e, N)
  BY DEF Examined
<1> HIDE DEF Solves
<1>7. Solves(Examined, N)
  BY <1>5, <1>6
<1> QED
  BY <1>7 DEF Solves

\* What the list is after the first entries.
ExaminedWell(n) ==
  /\ Examined[n] \in Seq(Pools) /\ Len(Examined[n]) = n
  /\ \A i \in 1 .. n : \E j \in 1 .. n : Examined[n][j] = Entries[i]
  /\ \A i \in 1 .. n : marker[Entries[i]] <= marker[Head(Examined[n])]

LEMMA ExaminedAll ==
  ASSUME marker \in [Pools -> Nat]
  PROVE  ExaminedWell(Len(Entries))
<1> DEFINE N == Len(Entries)
           S == {n \in 0 .. N : ExaminedWell(n)}
<1>1. N \in Nat /\ Entries \in Seq(Pools)
  BY SomePool, PoolRefreshAssumption
<1>2. 0 \in S
  <2>1. Examined[0] = <<>>
    BY <1>1, ExaminedEntries
  <2>2. <<>> \in Seq(Pools) /\ Len(<<>>) = 0
    OBVIOUS
  <2>3. 0 \in 0 .. N /\ 1 .. 0 = {}
    BY <1>1
  <2> QED
    BY <2>1, <2>2, <2>3 DEF ExaminedWell
<1>3. ASSUME NEW n \in 0 .. (N - 1), n \in S
      PROVE  n + 1 \in S
  <2> DEFINE list == Examined[n]
             p == Entries[n + 1]
             new == Examined[n + 1]
  <2>1. n + 1 \in 1 .. N /\ n \in Nat /\ n + 1 \in 0 .. N /\ n + 1 # 0 /\ (n + 1) - 1 = n
    BY <1>1
  <2>2. new = Examine(list, p)
    BY <2>1, ExaminedEntries
  <2>3. p \in Pools /\ \A i \in 1 .. n : Entries[i] \in Pools
    BY <1>1, <2>1
  <2>4. /\ list \in Seq(Pools) /\ Len(list) = n
        /\ \A i \in 1 .. n : \E j \in 1 .. n : list[j] = Entries[i]
        /\ \A i \in 1 .. n : marker[Entries[i]] <= marker[Head(list)]
    BY <1>3 DEF ExaminedWell
  <2> HIDE DEF list, p, new
  <2>5. n # 0 => list # <<>> /\ Head(list) = list[1] /\ Head(list) \in Pools
    BY <2>1, <2>4
  <2>6. CASE list = <<>> \/ marker[Head(list)] < marker[p]
    <3>1. new = <<p>> \o list
      BY <2>2, <2>6 DEF Examine
    <3>2. new \in Seq(Pools) /\ Len(new) = n + 1 /\ Head(new) = p /\ new[1] = p
      BY <2>1, <2>3, <2>4, <3>1
    <3>3. \A j \in 1 .. n : new[j + 1] = list[j]
      BY <2>1, <2>3, <2>4, <3>1
    <3>4. ASSUME NEW i \in 1 .. (n + 1)
          PROVE  /\ \E j \in 1 .. (n + 1) : new[j] = Entries[i]
                 /\ marker[Entries[i]] <= marker[p]
      <4>1. CASE i = n + 1
        BY <2>1, <2>3, <3>2, <4>1 DEF p
      <4>2. CASE i \in 1 .. n
        <5>1. PICK j \in 1 .. n : list[j] = Entries[i]
          BY <2>4, <4>2
        <5>2. j + 1 \in 1 .. (n + 1) /\ new[j + 1] = Entries[i]
          BY <2>1, <3>3, <5>1
        <5>3. n # 0 /\ Head(list) \in Pools /\ Entries[i] \in Pools /\ list # <<>>
          BY <2>1, <2>3, <2>5, <4>2
        <5>4. marker[Entries[i]] \in Nat /\ marker[Head(list)] \in Nat /\ marker[p] \in Nat
          BY <2>3, <5>3
        <5>5. marker[Entries[i]] <= marker[Head(list)] /\ marker[Head(list)] < marker[p]
          BY <2>4, <2>6, <4>2, <5>3
        <5> QED
          BY <5>2, <5>4, <5>5
      <4> QED
        BY <2>1, <4>1, <4>2
    <3> QED
      BY <2>1, <3>2, <3>4 DEF ExaminedWell, new
  <2>7. CASE ~ (list = <<>> \/ marker[Head(list)] < marker[p])
    <3>1. new = Append(list, p) /\ list # <<>>
      BY <2>2, <2>7 DEF Examine
    <3>2. n # 0
      BY <2>4, <3>1
    <3>3. /\ new \in Seq(Pools) /\ Len(new) = n + 1 /\ new[n + 1] = p
          /\ \A j \in 1 .. n : new[j] = list[j]
      <4>1. p \in Pools /\ list \in Seq(Pools) /\ Len(list) = n
        BY <2>3, <2>4
      <4> QED
        BY <3>1, <4>1, AppendProperties
    <3>4. Head(new) = Head(list)
      BY <2>1, <2>5, <3>2, <3>3
    <3>5. ASSUME NEW i \in 1 .. (n + 1)
          PROVE  /\ \E j \in 1 .. (n + 1) : new[j] = Entries[i]
                 /\ marker[Entries[i]] <= marker[Head(list)]
      <4>1. CASE i = n + 1
        <5>1. marker[p] <= marker[Head(list)]
          BY <2>3, <2>5, <2>7, <3>2
        <5> QED
          BY <2>1, <3>3, <4>1, <5>1 DEF p
      <4>2. CASE i \in 1 .. n
        <5>1. PICK j \in 1 .. n : list[j] = Entries[i]
          BY <2>4, <4>2
        <5>2. j \in 1 .. (n + 1) /\ new[j] = Entries[i]
          BY <2>1, <3>3, <5>1
        <5> QED
          BY <2>4, <4>2, <5>2
      <4> QED
        BY <2>1, <4>1, <4>2
    <3> QED
      BY <2>1, <3>3, <3>4, <3>5 DEF ExaminedWell, new
  <2> QED
    BY <2>6, <2>7
<1> HIDE DEF S
<1>4. \A n \in 0 .. N : n \in S
  BY <1>1, <1>2, <1>3, UpTo
<1> QED
  BY <1>1, <1>4 DEF S

\* Every pool is in the list, and its head has the newest data.
LEMMA DiscoveredNewest ==
  ASSUME marker \in [Pools -> Nat]
  PROVE  Discovered \in Lists /\ \A p \in Pools : marker[p] <= marker[Head(Discovered)]
<1> DEFINE N == Len(Entries)
<1>1. N \in Nat \ {0} /\ N = Cardinality(Pools) /\ Entries \in Seq(Pools) /\ ToSet(Entries) = Pools
  BY SomePool, PoolRefreshAssumption
<1>2. /\ Discovered \in Seq(Pools) /\ Len(Discovered) = N
      /\ \A i \in 1 .. N : \E j \in 1 .. N : Discovered[j] = Entries[i]
      /\ \A i \in 1 .. N : marker[Entries[i]] <= marker[Head(Discovered)]
  BY ExaminedAll DEF ExaminedWell, Discovered
<1>3. \A p \in Pools : \E i \in 1 .. N : Entries[i] = p
  BY <1>1 DEF ToSet
<1>4. \A p \in Pools : \E j \in 1 .. N : Discovered[j] = p
  BY <1>2, <1>3
<1>5. ToSet(Discovered) = Pools
  <2>1. DOMAIN Discovered = 1 .. N /\ \A j \in 1 .. N : Discovered[j] \in Pools
    BY <1>1, <1>2
  <2> HIDE DEF N
  <2> QED
    BY <1>4, <2>1 DEF ToSet
<1> QED
  BY <1>1, <1>2, <1>3, <1>5 DEF Lists

-----------------------------------------------------------------------------
(* Types *)

\* After SetStatus(refreshing) and up to the return of run.
Marking == {"lock", "restore", "snapshot", "activate"}

RefRecords ==
  [at : Working \cup {"start", "idle", "ended"}, pool : Pools \cup {None}, obj : Nat, elem : Nat]

CloneRecords(n) ==
  [at : {"none", "chosen", "dataset", "running"}, pool : Pools \cup {None}, snap : 0 .. n]

\* The types, with the newest data as the bound of the data.
RefreshTypes ==
  /\ order \in Lists
  /\ poolStatus \in [Pools -> PoolStatuses]
  /\ gen \in 0 .. MaxReloads
  /\ latest \in Nat
  /\ marker \in [Pools -> 0 .. latest]
  /\ snaps \in [Pools -> SUBSET (1 .. latest)]
  /\ retrieval \in RetrievalStatuses
  /\ lock \in Refreshers \cup {None}
  /\ ctx \in Refreshers \cup {None}
  /\ scheduled \in BOOLEAN
  /\ ref \in [Refreshers -> RefRecords]
  /\ clone \in [Clones -> CloneRecords(latest)]
  /\ failed \in BOOLEAN /\ disturbed \in BOOLEAN /\ overlapped \subseteq {"preparing", "finishing"}

\* A refresher works on a pool, and takes a snapshot of marked data only.
WorksOnPool ==
  \A r \in Refreshers :
    /\ ref[r].at \in Working => ref[r].pool \in Pools
    /\ ref[r].at = "snapshot" => marker[ref[r].pool] # 0

\* No object or element is newer than the list, and the element found by name
\* is no older than the object.
KnownGens ==
  \A r \in Refreshers :
    /\ ref[r].obj <= gen /\ ref[r].elem <= gen
    /\ ref[r].at \in Marking => ref[r].obj <= ref[r].elem

RefInv == RefreshTypes /\ WorksOnPool /\ KnownGens

LEMMA RefType ==
  ASSUME RefInv, NEW r \in Refreshers
  PROVE  /\ ref[r] \in RefRecords
         /\ ref[r].at \in Working \cup {"start", "idle", "ended"}
         /\ ref[r].pool \in Pools \cup {None} /\ ref[r].obj \in Nat /\ ref[r].elem \in Nat
BY DEF RefInv, RefreshTypes, RefRecords

LEMMA Goes ==
  ASSUME RefInv, NEW r \in Refreshers, NEW a \in Working \cup {"idle", "ended"}, GoTo(r, a)
  PROVE  /\ ref' \in [Refreshers -> RefRecords]
         /\ ref'[r].at = a /\ ref'[r].pool = ref[r].pool
         /\ ref'[r].obj = ref[r].obj /\ ref'[r].elem = ref[r].elem
         /\ \A q \in Refreshers \ {r} : ref'[q] = ref[q]
<1>1. ref \in [Refreshers -> RefRecords] /\ ref[r] \in RefRecords
  BY DEF RefInv, RefreshTypes
<1>2. ref' = [ref EXCEPT ![r] = [ref[r] EXCEPT !.at = a]]
  BY DEF GoTo
<1>3. [ref[r] EXCEPT !.at = a] \in RefRecords
  BY <1>1 DEF RefRecords
<1>4. ref'[r] = [ref[r] EXCEPT !.at = a]
  BY <1>1, <1>2
<1>5. /\ ref'[r].at = a /\ ref'[r].pool = ref[r].pool
      /\ ref'[r].obj = ref[r].obj /\ ref'[r].elem = ref[r].elem
  BY <1>1, <1>4 DEF RefRecords
<1> QED
  BY <1>1, <1>2, <1>3, <1>5

LEMMA Finishes ==
  ASSUME RefInv, NEW r \in Refreshers, Finishing(r)
  PROVE  /\ ref' \in [Refreshers -> RefRecords]
         /\ ref'[r].at \in {"idle", "ended"} /\ (r = Main => ref'[r].at = "ended")
         /\ ref'[r].pool = None /\ ref'[r].obj = 0 /\ ref'[r].elem = 0
         /\ \A q \in Refreshers \ {r} : ref'[q] = ref[q]
<1> DEFINE a == IF r = Main THEN "ended" ELSE "idle"
           rest == [AtRest EXCEPT !.at = a]
<1>1. ref \in [Refreshers -> RefRecords]
  BY DEF RefInv, RefreshTypes
<1>2. ref' = [ref EXCEPT ![r] = rest]
  BY DEF Finishing
<1>3. rest \in RefRecords /\ rest.at = a /\ rest.pool = None /\ rest.obj = 0 /\ rest.elem = 0
  BY DEF AtRest, RefRecords
<1> HIDE DEF rest
<1> QED
  BY <1>1, <1>2, <1>3

\* A refresher begins with a pool.
LEMMA Begins ==
  ASSUME RefInv, NEW r \in Refreshers, NEW a \in {"run", "prepare"}, NEW p \in Pools,
         NEW e \in Nat, e <= gen,
         ref' = [ref EXCEPT ![r] = [at |-> a, pool |-> p, obj |-> gen, elem |-> e]]
  PROVE  /\ ref' \in [Refreshers -> RefRecords]
         /\ ref'[r].at = a /\ ref'[r].pool = p /\ ref'[r].obj = gen /\ ref'[r].elem = e
         /\ \A q \in Refreshers \ {r} : ref'[q] = ref[q]
<1>1. ref \in [Refreshers -> RefRecords] /\ gen \in Nat
  BY DEF RefInv, RefreshTypes
<1> DEFINE x == [at |-> a, pool |-> p, obj |-> gen, elem |-> e]
<1>2. x \in RefRecords /\ x.at = a /\ x.pool = p /\ x.obj = gen /\ x.elem = e
  BY <1>1 DEF RefRecords, Working, Preparing
<1>3. ref' = [ref EXCEPT ![r] = x]
  OBVIOUS
<1> HIDE DEF x
<1> QED
  BY <1>1, <1>2, <1>3

\* The step of one refresher, when what it works on is as before.
LEMMA RefStays ==
  ASSUME RefInv, NEW r \in Refreshers,
         gen' = gen, marker' = marker,
         \A q \in Refreshers \ {r} : ref'[q] = ref[q],
         \/ ref'[r].at \in {"idle", "ended"} /\ ref'[r].obj = 0 /\ ref'[r].elem = 0
         \/ /\ ref'[r].at \in Working \ {"snapshot"} /\ ref'[r].pool \in Pools
            /\ ref'[r].obj \in Nat /\ ref'[r].elem \in Nat
            /\ ref'[r].obj <= gen /\ ref'[r].elem <= gen
            /\ ref'[r].at \in Marking => ref'[r].obj <= ref'[r].elem
  PROVE  WorksOnPool' /\ KnownGens'
<1>1. gen \in Nat
  BY DEF RefInv, RefreshTypes
<1>2. WorksOnPool'
  <2> SUFFICES ASSUME NEW q \in Refreshers
               PROVE  /\ ref'[q].at \in Working => ref'[q].pool \in Pools
                      /\ ref'[q].at = "snapshot" => marker[ref'[q].pool] # 0
    BY DEF WorksOnPool
  <2>1. CASE q = r
    BY <2>1 DEF Working, Preparing
  <2>2. CASE q # r
    BY <2>2 DEF RefInv, WorksOnPool
  <2> QED
    BY <2>1, <2>2
<1>3. KnownGens'
  <2> SUFFICES ASSUME NEW q \in Refreshers
               PROVE  /\ ref'[q].obj <= gen /\ ref'[q].elem <= gen
                      /\ ref'[q].at \in Marking => ref'[q].obj <= ref'[q].elem
    BY DEF KnownGens
  <2>1. CASE q = r
    BY <1>1, <2>1 DEF Marking
  <2>2. CASE q # r
    BY <2>2 DEF RefInv, KnownGens
  <2> QED
    BY <2>1, <2>2
<1> QED
  BY <1>2, <1>3

\* Nothing but the refreshers' places, the service and the history changes.
LEMMA ServiceTypes ==
  ASSUME RefInv, UNCHANGED <<order, gen, latest, marker>>,
         poolStatus' \in [Pools -> PoolStatuses],
         snaps' \in [Pools -> SUBSET (1 .. latest)],
         retrieval' \in RetrievalStatuses, lock' \in Refreshers \cup {None},
         ctx' \in Refreshers \cup {None}, scheduled' \in BOOLEAN,
         ref' \in [Refreshers -> RefRecords], clone' \in [Clones -> CloneRecords(latest)],
         failed' \in BOOLEAN, disturbed' \in BOOLEAN,
         overlapped' \subseteq {"preparing", "finishing"}
  PROVE  RefreshTypes'
BY DEF RefInv, RefreshTypes

LEMMA RunTypes ==
  ASSUME RefInv, Run
  PROVE  RefInv'
<1>1. /\ UNCHANGED <<order, poolStatus, gen, marker, snaps, latest, lock, clone,
                     failed, disturbed, overlapped>>
      /\ ctx' = Main
  BY DEF Run, poolVars, diskVars, history
<1>2. Main \in Refreshers
  BY DEF Refreshers
<1> DEFINE first == Head(order)
           chosen == IF poolStatus[first] = "empty" THEN first ELSE PoolToUpdate
<1>3. chosen \in Pools \cup {None}
  BY ListType, UpdatedPool DEF RefInv, RefreshTypes
<1>4. \/ /\ chosen # None
         /\ ref' = [ref EXCEPT ![Main] = [at |-> "run", pool |-> chosen, obj |-> gen, elem |-> 0]]
         /\ UNCHANGED <<retrieval, scheduled>>
      \/ Finishing(Main) /\ retrieval' = "finished" /\ scheduled' = TRUE
  BY DEF Run
<1>5. gen \in Nat /\ 0 <= gen
  BY DEF RefInv, RefreshTypes
<1>6. retrieval' \in RetrievalStatuses /\ scheduled' \in BOOLEAN
  BY <1>4 DEF RefInv, RefreshTypes, RetrievalStatuses
<1> HIDE DEF chosen
<1>7. ref' \in [Refreshers -> RefRecords] /\ WorksOnPool' /\ KnownGens'
  <2>1. CASE Finishing(Main)
    BY <1>1, <1>2, <2>1, Finishes, RefStays
  <2>2. CASE /\ chosen # None
             /\ ref' = [ref EXCEPT ![Main] = [at |-> "run", pool |-> chosen, obj |-> gen, elem |-> 0]]
    <3>1. PICK p \in Pools : p = chosen
      BY <1>3, <2>2
    <3>2. /\ ref' \in [Refreshers -> RefRecords]
          /\ ref'[Main].at = "run" /\ ref'[Main].pool = p
          /\ ref'[Main].obj = gen /\ ref'[Main].elem = 0
          /\ \A q \in Refreshers \ {Main} : ref'[q] = ref[q]
      BY <1>2, <1>5, <2>2, <3>1, Begins
    <3>3. /\ ref'[Main].at \in Working \ {"snapshot"} /\ ref'[Main].at \notin Marking
          /\ ref'[Main].pool \in Pools
          /\ ref'[Main].obj \in Nat /\ ref'[Main].elem \in Nat
          /\ ref'[Main].obj <= gen /\ ref'[Main].elem <= gen
      BY <1>5, <3>2 DEF Working, Preparing, Marking
    <3> QED
      BY <1>1, <1>2, <3>2, <3>3, RefStays
  <2> QED
    BY <1>4, <2>1, <2>2
<1>8. RefreshTypes'
  BY <1>1, <1>2, <1>6, <1>7, ServiceTypes DEF RefInv, RefreshTypes
<1> QED
  BY <1>7, <1>8 DEF RefInv

LEMMA FullRefreshTypes ==
  ASSUME RefInv, NEW t \in Ticks, FullRefresh(t)
  PROVE  RefInv'
<1>1. /\ UNCHANGED <<order, poolStatus, gen, marker, snaps, latest, retrieval, lock, scheduled,
                     clone, failed, disturbed>>
      /\ ctx' = t
  BY DEF FullRefresh, poolVars, diskVars
<1>2. t \in Refreshers
  BY DEF Refreshers
<1>3. PoolToUpdate \in Pools \cup {None}
  BY UpdatedPool DEF RefInv, RefreshTypes
<1>4. overlapped' \subseteq {"preparing", "finishing"}
  BY DEF FullRefresh, RefInv, RefreshTypes
<1>5. gen \in Nat /\ gen <= gen
  BY DEF RefInv, RefreshTypes
<1>6. ref' \in [Refreshers -> RefRecords] /\ WorksOnPool' /\ KnownGens'
  <2>1. CASE PoolToUpdate = None
    <3>1. ref' = ref
      BY <2>1 DEF FullRefresh
    <3> QED
      BY <1>1, <3>1 DEF RefInv, RefreshTypes, WorksOnPool, KnownGens
  <2>2. CASE PoolToUpdate # None
    <3>1. ref' = [ref EXCEPT ![t] = [at |-> "prepare", pool |-> PoolToUpdate, obj |-> gen, elem |-> gen]]
      BY <2>2 DEF FullRefresh
    <3>2. PICK p \in Pools : p = PoolToUpdate
      BY <1>3, <2>2
    <3>3. /\ ref' \in [Refreshers -> RefRecords]
          /\ ref'[t].at = "prepare" /\ ref'[t].pool = p
          /\ ref'[t].obj = gen /\ ref'[t].elem = gen
          /\ \A q \in Refreshers \ {t} : ref'[q] = ref[q]
      BY <1>2, <1>5, <3>1, <3>2, Begins
    <3> QED
      BY <1>1, <1>2, <1>5, <3>3, RefStays DEF Working, Preparing, Marking
  <2> QED
    BY <2>1, <2>2
<1>7. RefreshTypes'
  BY <1>1, <1>2, <1>4, <1>6, ServiceTypes DEF RefInv, RefreshTypes
<1> QED
  BY <1>6, <1>7 DEF RefInv

\* A refresher that finishes, or goes on with the same pool.
LEMMA GoesOrFinishes ==
  ASSUME RefInv, NEW r \in Refreshers, ref[r].at \in Working, gen' = gen, marker' = marker,
         \/ Finishing(r)
         \/ \E a \in Working \ {"snapshot"} :
              GoTo(r, a) /\ (a \in Marking => ref[r].at \in Marking)
  PROVE  ref' \in [Refreshers -> RefRecords] /\ WorksOnPool' /\ KnownGens'
<1>1. CASE Finishing(r)
  BY <1>1, Finishes, RefStays
<1>2. CASE \E a \in Working \ {"snapshot"} :
             GoTo(r, a) /\ (a \in Marking => ref[r].at \in Marking)
  <2>1. PICK a \in Working \ {"snapshot"} :
          GoTo(r, a) /\ (a \in Marking => ref[r].at \in Marking)
    BY <1>2
  <2>2. /\ ref' \in [Refreshers -> RefRecords]
        /\ ref'[r].at = a /\ ref'[r].pool = ref[r].pool
        /\ ref'[r].obj = ref[r].obj /\ ref'[r].elem = ref[r].elem
        /\ \A q \in Refreshers \ {r} : ref'[q] = ref[q]
    BY <2>1, Goes
  <2>3. /\ ref[r].pool \in Pools /\ ref[r].obj \in Nat /\ ref[r].elem \in Nat
        /\ ref[r].obj <= gen /\ ref[r].elem <= gen
        /\ ref[r].at \in Marking => ref[r].obj <= ref[r].elem
    BY RefType DEF RefInv, WorksOnPool, KnownGens
  <2> QED
    BY <2>1, <2>2, <2>3, RefStays
<1> QED
  BY <1>1, <1>2

LEMMA CheckTypes ==
  ASSUME RefInv, NEW t \in Ticks, CheckClones(t)
  PROVE  RefInv'
<1>1. UNCHANGED <<order, poolStatus, gen, marker, snaps, latest, retrieval, lock, ctx, scheduled,
                  clone, failed, disturbed, overlapped>>
  BY DEF CheckClones, poolVars, diskVars, serviceVars, history
<1>2. t \in Refreshers /\ ref[t].at = "prepare" /\ (Finishing(t) \/ GoTo(t, "destroy"))
  BY DEF CheckClones, Refreshers, At
<1>3. ref' \in [Refreshers -> RefRecords] /\ WorksOnPool' /\ KnownGens'
  <2>1. ref[t].at \in Working
    BY <1>2 DEF Working, Preparing
  <2>2. "destroy" \in Working \ {"snapshot"} /\ "destroy" \notin Marking
    BY DEF Working, Preparing, Marking
  <2> QED
    BY <1>1, <1>2, <2>1, <2>2, GoesOrFinishes
<1>4. RefreshTypes'
  BY <1>1, <1>3, ServiceTypes DEF RefInv, RefreshTypes
<1> QED
  BY <1>3, <1>4 DEF RefInv

LEMMA DestroySnapshotTypes ==
  ASSUME RefInv, NEW t \in Ticks, DestroySnapshot(t)
  PROVE  RefInv'
<1>1. UNCHANGED <<order, poolStatus, gen, marker, latest, retrieval, lock, ctx, scheduled,
                  disturbed, overlapped>>
  BY DEF DestroySnapshot, poolVars, serviceVars, timing
<1>2. t \in Refreshers /\ ref[t].at = "destroy" /\ ref[t].pool \in Pools
  BY DEF DestroySnapshot, Refreshers, At, RefInv, WorksOnPool, Working, Preparing
<1>3. /\ snaps \in [Pools -> SUBSET (1 .. latest)] /\ clone \in [Clones -> CloneRecords(latest)]
      /\ latest \in Nat /\ failed \in BOOLEAN
  BY DEF RefInv, RefreshTypes
<1>4. CASE /\ Finishing(t) /\ failed' = TRUE /\ UNCHANGED <<snaps, clone>>
  <2>1. ref' \in [Refreshers -> RefRecords] /\ WorksOnPool' /\ KnownGens'
    BY <1>1, <1>2, <1>4, GoesOrFinishes DEF Working, Preparing, Marking
  <2>2. RefreshTypes'
    BY <1>1, <1>3, <1>4, <2>1, ServiceTypes DEF RefInv, RefreshTypes
  <2> QED
    BY <2>1, <2>2 DEF RefInv
<1>5. CASE \E s \in snaps[ref[t].pool] :
             /\ snaps' = [snaps EXCEPT ![ref[t].pool] = @ \ {s}]
             /\ clone' = [c \in Clones |->
                            IF c \in {d \in Clones : clone[d].pool = ref[t].pool /\ clone[d].snap = s}
                                 /\ clone[c].at = "dataset"
                              THEN NoClone ELSE clone[c]]
             /\ UNCHANGED <<ref, failed>>
  <2>1. NoClone \in CloneRecords(latest)
    BY <1>3 DEF NoClone, CloneRecords
  <2>2. clone' \in [Clones -> CloneRecords(latest)]
    BY <1>3, <1>5, <2>1
  <2>3. snaps' \in [Pools -> SUBSET (1 .. latest)]
    BY <1>2, <1>3, <1>5
  <2>4. ref' = ref /\ failed' = failed
    BY <1>5
  <2>5. RefreshTypes'
    BY <1>1, <1>3, <2>2, <2>3, <2>4, ServiceTypes DEF RefInv, RefreshTypes
  <2> QED
    BY <1>1, <2>4, <2>5 DEF RefInv, WorksOnPool, KnownGens
<1> QED
  BY <1>4, <1>5 DEF DestroySnapshot

LEMMA CleanUpTypes ==
  ASSUME RefInv, NEW t \in Ticks, CleanUpControlContainers(t)
  PROVE  RefInv'
<1>1. UNCHANGED <<order, poolStatus, gen, marker, snaps, latest, retrieval, lock, ctx, scheduled,
                  clone, disturbed, overlapped>>
  BY DEF CleanUpControlContainers, poolVars, diskVars, serviceVars, timing
<1>2. /\ t \in Refreshers /\ ref[t].at = "destroy" /\ failed' \in BOOLEAN
      /\ Finishing(t) \/ GoTo(t, "run")
  BY DEF CleanUpControlContainers, Refreshers, At, RefInv, RefreshTypes
<1>3. ref' \in [Refreshers -> RefRecords] /\ WorksOnPool' /\ KnownGens'
  <2>1. ref[t].at \in Working
    BY <1>2 DEF Working, Preparing
  <2>2. "run" \in Working \ {"snapshot"} /\ "run" \notin Marking
    BY DEF Working, Preparing, Marking
  <2> QED
    BY <1>1, <1>2, <2>1, <2>2, GoesOrFinishes
<1>4. RefreshTypes'
  BY <1>1, <1>2, <1>3, ServiceTypes DEF RefInv, RefreshTypes
<1> QED
  BY <1>3, <1>4 DEF RefInv

LEMMA StatusSet ==
  ASSUME poolStatus \in [Pools -> PoolStatuses], NEW r, NEW s \in PoolStatuses, SetStatus(r, s)
  PROVE  poolStatus' \in [Pools -> PoolStatuses]
BY DEF SetStatus

LEMMA BeginRunTypes ==
  ASSUME RefInv, NEW r \in Refreshers, BeginRun(r)
  PROVE  RefInv'
<1>1. UNCHANGED <<order, gen, marker, snaps, latest, retrieval, lock, ctx, scheduled,
                  clone, disturbed, overlapped>>
  BY DEF BeginRun, diskVars, serviceVars, timing
<1>2. ref[r].at = "run" /\ failed' \in BOOLEAN
  BY DEF BeginRun, At, RefInv, RefreshTypes
<1>3. CASE Finishing(r) /\ UNCHANGED poolStatus
  <2>1. ref' \in [Refreshers -> RefRecords] /\ WorksOnPool' /\ KnownGens'
    BY <1>1, <1>2, <1>3, GoesOrFinishes DEF Working, Preparing, Marking
  <2>2. RefreshTypes'
    BY <1>1, <1>2, <1>3, <2>1, ServiceTypes DEF RefInv, RefreshTypes
  <2> QED
    BY <2>1, <2>2 DEF RefInv
<1>4. CASE ref' = [ref EXCEPT ![r].at = "lock", ![r].elem = gen] /\ SetStatus(r, "refreshing")
  <2>1. /\ ref \in [Refreshers -> RefRecords] /\ ref[r] \in RefRecords /\ gen \in Nat
        /\ ref[r].pool \in Pools /\ ref[r].obj \in Nat /\ ref[r].obj <= gen
    <3>1. ref[r].at \in Working
      BY <1>2 DEF Working, Preparing
    <3>2. ref[r].pool \in Pools /\ ref[r].obj <= gen
      BY <3>1 DEF RefInv, WorksOnPool, KnownGens
    <3>3. ref \in [Refreshers -> RefRecords] /\ gen \in Nat
      BY DEF RefInv, RefreshTypes
    <3> QED
      BY <3>2, <3>3, RefType
  <2> DEFINE x == [ref[r] EXCEPT !.at = "lock", !.elem = gen]
  <2>2. x \in RefRecords /\ x.at = "lock" /\ x.pool = ref[r].pool /\ x.obj = ref[r].obj /\ x.elem = gen
    BY <2>1 DEF RefRecords, Working, Preparing
  <2>3. ref' = [ref EXCEPT ![r] = x]
    BY <1>4, <2>1
  <2> HIDE DEF x
  <2>4. ref' \in [Refreshers -> RefRecords] /\ ref'[r] = x /\ \A q \in Refreshers \ {r} : ref'[q] = ref[q]
    BY <2>1, <2>2, <2>3
  <2>5. WorksOnPool' /\ KnownGens'
    <3>1. /\ ref'[r].at \in Working \ {"snapshot"} /\ ref'[r].pool \in Pools
          /\ ref'[r].obj \in Nat /\ ref'[r].elem \in Nat
          /\ ref'[r].obj <= gen /\ ref'[r].elem <= gen
          /\ ref'[r].at \in Marking => ref'[r].obj <= ref'[r].elem
      <4>1. /\ ref'[r].at = "lock" /\ ref'[r].pool = ref[r].pool
            /\ ref'[r].obj = ref[r].obj /\ ref'[r].elem = gen
        BY <2>2, <2>4
      <4>2. "lock" \in Working \ {"snapshot"} /\ gen <= gen
        BY <2>1 DEF Working, Preparing
      <4> QED
        BY <2>1, <4>1, <4>2
    <3> QED
      BY <1>1, <2>4, <3>1, RefStays
  <2>6. poolStatus' \in [Pools -> PoolStatuses]
    BY <1>4, StatusSet DEF RefInv, RefreshTypes, PoolStatuses
  <2>7. RefreshTypes'
    BY <1>1, <1>2, <2>4, <2>6, ServiceTypes DEF RefInv, RefreshTypes
  <2> QED
    BY <2>5, <2>7 DEF RefInv
<1> QED
  BY <1>3, <1>4 DEF BeginRun

LEMMA LockTypes ==
  ASSUME RefInv, NEW r \in Refreshers, Lock(r)
  PROVE  RefInv'
<1>1. /\ UNCHANGED <<order, poolStatus, gen, marker, snaps, latest, ctx, scheduled,
                     clone, failed, disturbed, overlapped>>
      /\ lock' = r /\ retrieval' = "refreshing"
  BY DEF Lock, poolVars, diskVars, history
<1>2. ref[r].at = "lock" /\ GoTo(r, "restore")
  BY DEF Lock, At
<1>3. ref' \in [Refreshers -> RefRecords] /\ WorksOnPool' /\ KnownGens'
  BY <1>1, <1>2, GoesOrFinishes DEF Working, Preparing, Marking
<1>4. RefreshTypes'
  BY <1>1, <1>3, ServiceTypes DEF RefInv, RefreshTypes, RetrievalStatuses
<1> QED
  BY <1>3, <1>4 DEF RefInv

LEMMA JobFailsTypes ==
  ASSUME RefInv, NEW r \in Refreshers, JobFails(r)
  PROVE  RefInv'
<1>1. /\ UNCHANGED <<order, gen, marker, snaps, latest, ctx, scheduled, clone, disturbed, overlapped>>
      /\ lock' = None /\ retrieval' = "failed" /\ failed' = TRUE
  BY DEF JobFails, diskVars, timing, Deferred
<1>2. ref[r].at \in {"restore", "snapshot"} /\ Finishing(r) /\ SetStatus(r, "empty")
  BY DEF JobFails
<1>3. ref' \in [Refreshers -> RefRecords] /\ WorksOnPool' /\ KnownGens'
  BY <1>1, <1>2, GoesOrFinishes DEF Working, Preparing, Marking
<1>4. poolStatus' \in [Pools -> PoolStatuses]
  BY <1>2, StatusSet DEF RefInv, RefreshTypes, PoolStatuses
<1>5. RefreshTypes'
  BY <1>1, <1>3, <1>4, ServiceTypes DEF RefInv, RefreshTypes, RetrievalStatuses
<1> QED
  BY <1>3, <1>5 DEF RefInv

\* The newest data grows, so what was within its bound still is.
LEMMA WithinLatest ==
  ASSUME RefInv, latest' = latest + 1
  PROVE  /\ latest' \in Nat /\ marker \in [Pools -> 0 .. latest']
         /\ snaps \in [Pools -> SUBSET (1 .. latest')] /\ clone \in [Clones -> CloneRecords(latest')]
<1>1. /\ latest \in Nat /\ marker \in [Pools -> 0 .. latest]
      /\ snaps \in [Pools -> SUBSET (1 .. latest)] /\ clone \in [Clones -> CloneRecords(latest)]
  BY DEF RefInv, RefreshTypes
<1>2. PICK n \in Nat : n = latest
  BY <1>1
<1>3. 0 .. n \subseteq 0 .. (n + 1) /\ 1 .. n \subseteq 1 .. (n + 1)
  OBVIOUS
<1>4. CloneRecords(n) \subseteq CloneRecords(n + 1)
  BY <1>3 DEF CloneRecords
<1>5. /\ marker \in [Pools -> 0 .. n] /\ snaps \in [Pools -> SUBSET (1 .. n)]
      /\ clone \in [Clones -> CloneRecords(n)]
  BY <1>1, <1>2
<1>6. marker \in [Pools -> 0 .. (n + 1)]
  BY <1>3, <1>5
<1>7. snaps \in [Pools -> SUBSET (1 .. (n + 1))]
  BY <1>3, <1>5
<1>8. clone \in [Clones -> CloneRecords(n + 1)]
  BY <1>4, <1>5
<1> QED
  BY <1>2, <1>6, <1>7, <1>8

LEMMA RestoreTypes ==
  ASSUME RefInv, NEW r \in Refreshers, Restore(r)
  PROVE  RefInv'
<1>1. /\ UNCHANGED <<order, poolStatus, gen, snaps, retrieval, lock, ctx, scheduled, clone,
                     failed, disturbed, overlapped>>
      /\ latest' = latest + 1 /\ marker' = [marker EXCEPT ![ref[r].pool] = latest + 1]
  BY DEF Restore, poolVars, serviceVars, history
<1>2. ref[r].at = "restore" /\ GoTo(r, "snapshot")
  BY DEF Restore, At
<1>3. /\ ref[r].pool \in Pools /\ ref[r].obj <= gen /\ ref[r].elem <= gen
      /\ ref[r].obj <= ref[r].elem
  BY <1>2 DEF RefInv, WorksOnPool, KnownGens, Working, Marking
<1>4. /\ latest + 1 \in Nat /\ latest + 1 # 0 /\ marker \in [Pools -> 0 .. (latest + 1)]
      /\ snaps' \in [Pools -> SUBSET (1 .. latest')] /\ clone' \in [Clones -> CloneRecords(latest')]
  BY <1>1, WithinLatest DEF RefInv, RefreshTypes
<1>5. marker' \in [Pools -> 0 .. latest'] /\ marker'[ref[r].pool] # 0
      /\ \A p \in Pools : marker[p] # 0 => marker'[p] # 0
  <2>1. PICK n \in Nat : n = latest + 1 /\ n # 0
    BY <1>4
  <2>2. marker' = [marker EXCEPT ![ref[r].pool] = n] /\ marker \in [Pools -> 0 .. n] /\ latest' = n
    BY <1>1, <1>4, <2>1
  <2> QED
    BY <1>3, <2>1, <2>2
<1>6. "snapshot" \in Working
  BY DEF Working
<1>7. /\ ref' \in [Refreshers -> RefRecords]
      /\ ref'[r].at = "snapshot" /\ ref'[r].pool = ref[r].pool
      /\ ref'[r].obj = ref[r].obj /\ ref'[r].elem = ref[r].elem
      /\ \A q \in Refreshers \ {r} : ref'[q] = ref[q]
  BY <1>2, <1>6, Goes
<1>8. RefreshTypes'
  BY <1>1, <1>4, <1>5, <1>7 DEF RefInv, RefreshTypes
<1>9. WorksOnPool'
  <2> SUFFICES ASSUME NEW q \in Refreshers
               PROVE  /\ ref'[q].at \in Working => ref'[q].pool \in Pools
                      /\ ref'[q].at = "snapshot" => marker'[ref'[q].pool] # 0
    BY DEF WorksOnPool
  <2>1. CASE q = r
    BY <1>3, <1>5, <1>7, <2>1
  <2>2. CASE q # r
    BY <1>5, <1>6, <1>7, <2>2 DEF RefInv, WorksOnPool
  <2> QED
    BY <2>1, <2>2
<1>10. KnownGens'
  <2> SUFFICES ASSUME NEW q \in Refreshers
               PROVE  /\ ref'[q].obj <= gen /\ ref'[q].elem <= gen
                      /\ ref'[q].at \in Marking => ref'[q].obj <= ref'[q].elem
    BY <1>1 DEF KnownGens
  <2>1. CASE q = r
    BY <1>3, <1>7, <2>1
  <2>2. CASE q # r
    BY <1>7, <2>2 DEF RefInv, KnownGens
  <2> QED
    BY <2>1, <2>2
<1> QED
  BY <1>8, <1>9, <1>10 DEF RefInv

LEMMA TakeSnapshotTypes ==
  ASSUME RefInv, NEW r \in Refreshers, TakeSnapshot(r)
  PROVE  RefInv'
<1>1. /\ UNCHANGED <<order, poolStatus, gen, marker, latest, retrieval, lock, ctx, scheduled, clone,
                     failed, disturbed, overlapped>>
      /\ snaps' = [snaps EXCEPT ![ref[r].pool] = @ \cup {marker[ref[r].pool]}]
  BY DEF TakeSnapshot, poolVars, serviceVars, history
<1>2. ref[r].at = "snapshot" /\ GoTo(r, "activate")
  BY DEF TakeSnapshot, At
<1>3. ref[r].pool \in Pools /\ marker[ref[r].pool] # 0
  BY <1>2 DEF RefInv, WorksOnPool, Working
<1>4. ref' \in [Refreshers -> RefRecords] /\ WorksOnPool' /\ KnownGens'
  <2>1. ref[r].at \in Working /\ ref[r].at \in Marking
    BY <1>2 DEF Working, Marking
  <2>2. "activate" \in Working \ {"snapshot"}
    BY DEF Working
  <2> QED
    BY <1>1, <1>2, <2>1, <2>2, GoesOrFinishes
<1>5. snaps' \in [Pools -> SUBSET (1 .. latest)]
  <2>1. /\ latest \in Nat /\ marker \in [Pools -> 0 .. latest]
        /\ snaps \in [Pools -> SUBSET (1 .. latest)]
    BY DEF RefInv, RefreshTypes
  <2>2. marker[ref[r].pool] \in 1 .. latest
    BY <1>3, <2>1
  <2> QED
    BY <1>1, <1>3, <2>1, <2>2
<1>6. RefreshTypes'
  BY <1>1, <1>4, <1>5, ServiceTypes DEF RefInv, RefreshTypes
<1> QED
  BY <1>4, <1>6 DEF RefInv

\* The first pool becomes active.  It is the refresher's, if its element is current.
LEMMA MadeActive ==
  ASSUME RefInv, NEW r \in Refreshers, ref[r].pool \in Pools, NEW e, MakeActive(r, e)
  PROVE  /\ order' \in Lists /\ Head(order') \in Pools
         /\ poolStatus' = [poolStatus EXCEPT ![Head(order')] = "active"]
         /\ poolStatus' \in [Pools -> PoolStatuses]
         /\ e = gen => Head(order') = ref[r].pool
         /\ e # gen => order' = order
<1>1. order \in Lists /\ poolStatus \in [Pools -> PoolStatuses]
  BY DEF RefInv, RefreshTypes
<1>2. /\ order' = IF e = gen THEN MoveToFront(ref[r].pool, order) ELSE order
      /\ poolStatus' = [poolStatus EXCEPT ![Head(order')] = "active"]
  BY DEF MakeActive
<1>3. MoveToFront(ref[r].pool, order) \in Lists /\ Head(MoveToFront(ref[r].pool, order)) = ref[r].pool
  BY <1>1, MovedToFront
<1>4. order' \in Lists
  BY <1>1, <1>2, <1>3
<1>5. Head(order') \in Pools
  BY <1>4, ListType
<1> QED
  BY <1>1, <1>2, <1>3, <1>4, <1>5 DEF PoolStatuses

LEMMA ActivateTypes ==
  ASSUME RefInv, NEW r \in Refreshers, Activate(r)
  PROVE  RefInv'
<1>1. /\ UNCHANGED <<gen, marker, snaps, latest, ctx, clone, failed, disturbed, overlapped>>
      /\ lock' = None /\ retrieval' = "finished" /\ MakeActive(r, ref[r].elem)
  BY DEF Activate, diskVars, history, Deferred
<1>2. /\ ref[r].at = "activate"
      /\ \/ Finishing(r) /\ scheduled' = TRUE
         \/ GoTo(r, "activate again") /\ scheduled' = scheduled
  BY DEF Activate, At
<1>3. ref[r].at \in Working /\ ref[r].pool \in Pools
  BY <1>2 DEF RefInv, WorksOnPool, Working
<1>4. ref' \in [Refreshers -> RefRecords] /\ WorksOnPool' /\ KnownGens'
  <2>1. "activate again" \in Working \ {"snapshot"} /\ "activate again" \notin Marking
    BY DEF Working, Marking
  <2> QED
    BY <1>1, <1>2, <1>3, <2>1, GoesOrFinishes
<1>5. order' \in Lists /\ poolStatus' \in [Pools -> PoolStatuses]
  BY <1>1, <1>3, MadeActive
<1>6. scheduled' \in BOOLEAN
  BY <1>2 DEF RefInv, RefreshTypes
<1>7. retrieval' \in RetrievalStatuses /\ lock' \in Refreshers \cup {None}
  BY <1>1 DEF RetrievalStatuses
<1>8. RefreshTypes'
  BY <1>1, <1>4, <1>5, <1>6, <1>7 DEF RefInv, RefreshTypes
<1> QED
  BY <1>4, <1>8 DEF RefInv

LEMMA ActivateAgainTypes ==
  ASSUME RefInv, NEW t \in Ticks, ActivateAgain(t)
  PROVE  RefInv'
<1>1. /\ UNCHANGED <<gen, marker, snaps, latest, retrieval, lock, ctx, scheduled, clone,
                     failed, disturbed, overlapped>>
      /\ MakeActive(t, ref[t].obj)
  BY DEF ActivateAgain, diskVars, serviceVars, history
<1>2. t \in Refreshers /\ ref[t].at = "activate again" /\ Finishing(t)
  BY DEF ActivateAgain, At, Refreshers
<1>3. ref[t].at \in Working /\ ref[t].pool \in Pools
  BY <1>2 DEF RefInv, WorksOnPool, Working
<1>4. ref' \in [Refreshers -> RefRecords] /\ WorksOnPool' /\ KnownGens'
  BY <1>1, <1>2, <1>3, GoesOrFinishes
<1>5. order' \in Lists /\ poolStatus' \in [Pools -> PoolStatuses]
  BY <1>1, <1>2, <1>3, MadeActive
<1>6. RefreshTypes'
  BY <1>1, <1>4, <1>5 DEF RefInv, RefreshTypes
<1> QED
  BY <1>4, <1>6 DEF RefInv

\* A new list has every pool, the newest data first, and none is refreshing.
LEMMA Reloaded ==
  ASSUME marker \in [Pools -> Nat], gen \in Nat, ReloadPools
  PROVE  /\ order' \in Lists /\ poolStatus' \in [Pools -> PoolStatuses \ {"refreshing"}]
         /\ gen' = gen + 1 /\ gen' \in Nat
         /\ \A p \in Pools : marker[p] <= marker[Head(order')]
BY DiscoveredNewest DEF ReloadPools, PoolStatuses

LEMMA ReloadTypes ==
  ASSUME RefInv, Reload
  PROVE  RefInv'
<1>1. /\ UNCHANGED <<marker, snaps, latest, retrieval, lock, ctx, ref, clone, failed, overlapped>>
      /\ scheduled' = TRUE /\ disturbed' = (disturbed \/ Busy) /\ gen < MaxReloads /\ ReloadPools
  BY DEF Reload, diskVars
<1>2. gen \in 0 .. MaxReloads /\ latest \in Nat /\ marker \in [Pools -> 0 .. latest] /\ MaxReloads \in Nat
  BY PoolRefreshAssumption DEF RefInv, RefreshTypes
<1>3. marker \in [Pools -> Nat]
  <2>1. 0 .. latest \subseteq Nat
    BY <1>2
  <2> QED
    BY <1>2, <2>1
<1>4. order' \in Lists /\ poolStatus' \in [Pools -> PoolStatuses] /\ gen' = gen + 1
  BY <1>1, <1>2, <1>3, Reloaded
<1>5. gen' \in 0 .. MaxReloads
  BY <1>1, <1>2, <1>4
<1>6. disturbed' \in BOOLEAN
  <2>1. disturbed' = (disturbed \/ Busy) /\ disturbed \in BOOLEAN
    BY <1>1 DEF RefInv, RefreshTypes
  <2> QED
    BY <2>1, Zenon
<1>7. RefreshTypes'
  BY <1>1, <1>4, <1>5, <1>6 DEF RefInv, RefreshTypes
<1>8. WorksOnPool'
  BY <1>1 DEF RefInv, WorksOnPool
<1>9. KnownGens'
  <2> SUFFICES ASSUME NEW q \in Refreshers
               PROVE  /\ ref[q].obj <= gen + 1 /\ ref[q].elem <= gen + 1
                      /\ ref[q].at \in Marking => ref[q].obj <= ref[q].elem
    BY <1>1, <1>4 DEF KnownGens
  <2>1. ref[q].obj \in Nat /\ ref[q].elem \in Nat
    BY RefType
  <2>2. ref[q].obj <= gen /\ ref[q].elem <= gen /\ (ref[q].at \in Marking => ref[q].obj <= ref[q].elem)
    BY DEF RefInv, KnownGens
  <2> QED
    BY <1>2, <2>1, <2>2
<1> QED
  BY <1>7, <1>8, <1>9 DEF RefInv

\* The refreshers of an engine that has just started.
LEMMA Fresh ==
  ASSUME NEW f, f = [r \in Refreshers |-> IF r = Main THEN [AtRest EXCEPT !.at = "start"] ELSE AtRest]
  PROVE  /\ f \in [Refreshers -> RefRecords]
         /\ \A r \in Refreshers : /\ f[r].at = (IF r = Main THEN "start" ELSE "idle")
                                  /\ f[r].obj = 0 /\ f[r].elem = 0
         /\ \A r \in Refreshers : f[r].at \notin Working
<1> DEFINE s == [AtRest EXCEPT !.at = "start"]
<1>1. /\ s \in RefRecords /\ s.at = "start" /\ s.obj = 0 /\ s.elem = 0
      /\ AtRest \in RefRecords /\ AtRest.at = "idle" /\ AtRest.obj = 0 /\ AtRest.elem = 0
  BY DEF AtRest, RefRecords
<1>2. "start" \notin Working /\ "idle" \notin Working
  BY DEF Working, Preparing
<1> HIDE DEF s
<1>3. f = [r \in Refreshers |-> IF r = Main THEN s ELSE AtRest]
  BY DEF s
<1>4. f \in [Refreshers -> RefRecords]
  BY <1>1, <1>3
<1>5. \A r \in Refreshers : f[r] = IF r = Main THEN s ELSE AtRest
  BY <1>3
<1> QED
  BY <1>1, <1>2, <1>4, <1>5

LEMMA RestartTypes ==
  ASSUME RefInv, Restart
  PROVE  RefInv'
<1>1. /\ UNCHANGED <<marker, snaps, latest, disturbed, overlapped>>
      /\ retrieval' = "inactive" /\ lock' = None /\ ctx' = None /\ scheduled' = FALSE
      /\ gen < MaxReloads /\ ReloadPools
      /\ failed' = (failed \/ Busy)
  BY DEF Restart, diskVars, timing
<1>2. gen \in 0 .. MaxReloads /\ latest \in Nat /\ marker \in [Pools -> 0 .. latest] /\ MaxReloads \in Nat
  BY PoolRefreshAssumption DEF RefInv, RefreshTypes
<1>3. marker \in [Pools -> Nat]
  <2>1. 0 .. latest \subseteq Nat
    BY <1>2
  <2> QED
    BY <1>2, <2>1
<1>4. order' \in Lists /\ poolStatus' \in [Pools -> PoolStatuses] /\ gen' = gen + 1
  BY <1>1, <1>2, <1>3, Reloaded
<1>5. gen' \in 0 .. MaxReloads /\ 0 <= gen'
  BY <1>1, <1>2, <1>4
<1>6. failed' \in BOOLEAN
  <2>1. failed' = (failed \/ Busy) /\ failed \in BOOLEAN
    BY <1>1 DEF RefInv, RefreshTypes
  <2> QED
    BY <2>1, Zenon
<1>7. clone' \in [Clones -> CloneRecords(latest)]
  <2>1. clone' = [c \in Clones |-> IF clone[c].at = "running" THEN clone[c] ELSE NoClone]
    BY DEF Restart
  <2>2. NoClone \in CloneRecords(latest)
    BY <1>2 DEF NoClone, CloneRecords
  <2>3. clone \in [Clones -> CloneRecords(latest)]
    BY DEF RefInv, RefreshTypes
  <2> QED
    BY <2>1, <2>2, <2>3
<1>8. /\ ref' \in [Refreshers -> RefRecords]
      /\ \A r \in Refreshers : /\ ref'[r].at = (IF r = Main THEN "start" ELSE "idle")
                               /\ ref'[r].obj = 0 /\ ref'[r].elem = 0
      /\ \A r \in Refreshers : ref'[r].at \notin Working
  BY Fresh DEF Restart
<1>9. retrieval' \in RetrievalStatuses /\ lock' \in Refreshers \cup {None}
      /\ ctx' \in Refreshers \cup {None} /\ scheduled' \in BOOLEAN
  BY <1>1 DEF RetrievalStatuses
<1>10. RefreshTypes'
  BY <1>1, <1>4, <1>5, <1>6, <1>7, <1>8, <1>9 DEF RefInv, RefreshTypes
<1>11. WorksOnPool'
  <2>1. "snapshot" \in Working
    BY DEF Working
  <2> QED
    BY <1>8, <2>1 DEF WorksOnPool
<1>12. KnownGens'
  BY <1>5, <1>8 DEF KnownGens
<1> QED
  BY <1>10, <1>11, <1>12 DEF RefInv

LEMMA ClientTypes ==
  ASSUME RefInv, NEW c \in Clones, ClientStep(c)
  PROVE  RefInv'
<1>1. UNCHANGED <<order, poolStatus, gen, marker, snaps, latest, retrieval, lock, ctx, scheduled,
                  ref, failed, disturbed, overlapped>>
  BY DEF ClientStep, ChooseSnapshot, CreateClone, StartContainer, DestroyClone,
         poolVars, diskVars, serviceVars, history
<1>2. /\ latest \in Nat /\ clone \in [Clones -> CloneRecords(latest)] /\ clone[c] \in CloneRecords(latest)
      /\ snaps \in [Pools -> SUBSET (1 .. latest)]
  BY DEF RefInv, RefreshTypes
<1>3. NoClone \in CloneRecords(latest)
  BY <1>2 DEF NoClone, CloneRecords
<1>4. clone' \in [Clones -> CloneRecords(latest)]
  <2>1. CASE ChooseSnapshot(c)
    <3>1. PICK o \in Offered :
            clone' = [clone EXCEPT ![c] = [at |-> "chosen", pool |-> o[1], snap |-> o[2]]]
      BY <2>1 DEF ChooseSnapshot
    <3>2. o[1] \in Pools /\ o[2] \in 0 .. latest
      BY <1>2 DEF Offered
    <3>3. [at |-> "chosen", pool |-> o[1], snap |-> o[2]] \in CloneRecords(latest)
      BY <3>2 DEF CloneRecords
    <3> QED
      BY <1>2, <3>1, <3>3
  <2>2. CASE CreateClone(c)
    <3>1. [clone[c] EXCEPT !.at = "dataset"] \in CloneRecords(latest)
      BY <1>2 DEF CloneRecords
    <3>2. \/ clone' = [clone EXCEPT ![c] = [clone[c] EXCEPT !.at = "dataset"]]
          \/ clone' = [clone EXCEPT ![c] = NoClone]
      BY <1>2, <2>2 DEF CreateClone
    <3> QED
      BY <1>2, <1>3, <3>1, <3>2
  <2>3. CASE StartContainer(c)
    <3>1. [clone[c] EXCEPT !.at = "running"] \in CloneRecords(latest)
      BY <1>2 DEF CloneRecords
    <3>2. clone' = [clone EXCEPT ![c] = [clone[c] EXCEPT !.at = "running"]]
      BY <1>2, <2>3 DEF StartContainer
    <3> QED
      BY <1>2, <3>1, <3>2
  <2>4. CASE DestroyClone(c)
    BY <1>2, <1>3, <2>4 DEF DestroyClone
  <2> QED
    BY <2>1, <2>2, <2>3, <2>4 DEF ClientStep
<1>5. RefreshTypes'
  BY <1>1, <1>4, ServiceTypes DEF RefInv, RefreshTypes
<1> QED
  BY <1>1, <1>5 DEF RefInv, WorksOnPool, KnownGens

LEMMA InitTypes ==
  ASSUME Init
  PROVE  RefInv
<1> DEFINE n == Cardinality(Pools)
<1>1. n \in Nat \ {0} /\ Len(Entries) = n /\ DOMAIN Entries = 1 .. n
  BY SomePool, PoolRefreshAssumption
<1>2. PICK held \in SUBSET DOMAIN Entries :
        /\ marker = [p \in Pools |-> IF \E i \in held : Entries[i] = p
                                       THEN CHOOSE i \in held : Entries[i] = p ELSE 0]
        /\ snaps = [p \in Pools |-> {marker[p]} \ {0}]
  BY DEF Init
<1> HIDE DEF n
<1>3. ASSUME NEW p \in Pools
      PROVE  (IF \E i \in held : Entries[i] = p
                THEN CHOOSE i \in held : Entries[i] = p ELSE 0) \in 0 .. n
  <2>1. CASE \E i \in held : Entries[i] = p
    <3>1. (CHOOSE i \in held : Entries[i] = p) \in held
      BY <2>1
    <3>2. held \subseteq 0 .. n
      BY <1>1, <1>2
    <3> QED
      BY <2>1, <3>1, <3>2
  <2>2. CASE ~ \E i \in held : Entries[i] = p
    BY <1>1, <2>2
  <2> QED
    BY <2>1, <2>2
<1>4. marker \in [Pools -> 0 .. n]
  BY <1>2, <1>3
<1>5. snaps \in [Pools -> SUBSET (1 .. n)]
  BY <1>1, <1>2, <1>4
<1>6. latest = n
  BY DEF Init, n
<1>7. order \in Lists
  <2>1. 0 .. n \subseteq Nat
    BY <1>1
  <2>2. marker \in [Pools -> Nat]
    BY <1>4, <2>1
  <2> QED
    BY <2>2, DiscoveredNewest DEF Init
<1>8. /\ ref \in [Refreshers -> RefRecords]
      /\ \A r \in Refreshers : /\ ref[r].at = (IF r = Main THEN "start" ELSE "idle")
                               /\ ref[r].obj = 0 /\ ref[r].elem = 0
      /\ \A r \in Refreshers : ref[r].at \notin Working
  BY Fresh DEF Init
<1>9. clone \in [Clones -> CloneRecords(n)]
  <2>1. NoClone \in CloneRecords(n)
    BY <1>1 DEF NoClone, CloneRecords
  <2> QED
    BY <2>1 DEF Init
<1>10. poolStatus \in [Pools -> PoolStatuses]
  BY DEF Init, PoolStatuses
<1>11. /\ gen = 0 /\ gen \in 0 .. MaxReloads
       /\ retrieval \in RetrievalStatuses /\ lock \in Refreshers \cup {None}
       /\ ctx \in Refreshers \cup {None} /\ scheduled \in BOOLEAN
       /\ failed \in BOOLEAN /\ disturbed \in BOOLEAN /\ overlapped \subseteq {"preparing", "finishing"}
  <2>1. /\ gen = 0 /\ retrieval = "inactive" /\ lock = None /\ ctx = None /\ scheduled = FALSE
        /\ failed = FALSE /\ disturbed = FALSE /\ overlapped = {}
    BY DEF Init
  <2>2. MaxReloads \in Nat
    BY PoolRefreshAssumption
  <2>3. gen = 0 /\ gen \in 0 .. MaxReloads
    BY <2>1, <2>2
  <2>4. retrieval \in RetrievalStatuses
    BY <2>1 DEF RetrievalStatuses
  <2>5. scheduled \in BOOLEAN /\ failed \in BOOLEAN /\ disturbed \in BOOLEAN
    BY <2>1
  <2> QED
    BY <2>1, <2>3, <2>4, <2>5
<1>12. RefreshTypes
  <2>1. /\ latest \in Nat /\ marker \in [Pools -> 0 .. latest]
        /\ snaps \in [Pools -> SUBSET (1 .. latest)] /\ clone \in [Clones -> CloneRecords(latest)]
    BY <1>1, <1>4, <1>5, <1>6, <1>9
  <2> QED
    BY <1>7, <1>8, <1>10, <1>11, <2>1 DEF RefreshTypes
<1>13. WorksOnPool
  <2>1. "snapshot" \in Working
    BY DEF Working
  <2> QED
    BY <1>8, <2>1 DEF WorksOnPool
<1>14. KnownGens
  BY <1>8, <1>11 DEF KnownGens
<1> QED
  BY <1>12, <1>13, <1>14 DEF RefInv

LEMMA StepTypes ==
  ASSUME RefInv, [Next]_refreshVars
  PROVE  RefInv'
<1>1. CASE UNCHANGED refreshVars
  BY <1>1 DEF RefInv, RefreshTypes, WorksOnPool, KnownGens, CloneRecords,
              refreshVars, poolVars, diskVars, serviceVars, history
<1>2. CASE Next
  BY <1>2, RunTypes, FullRefreshTypes, CheckTypes, DestroySnapshotTypes, CleanUpTypes,
     BeginRunTypes, LockTypes, JobFailsTypes, RestoreTypes, TakeSnapshotTypes, ActivateTypes,
     ActivateAgainTypes, ReloadTypes, RestartTypes, ClientTypes
     DEF Next, RefreshStep, PrepareStep
<1> QED
  BY <1>1, <1>2

-----------------------------------------------------------------------------
(* Moves of one refresher *)

OthersStay(r) == \A q \in Refreshers \ {r} : ref'[q] = ref[q]

Rests(r) == ref'[r].at \in {"idle", "ended"} /\ OthersStay(r)

Carries(r, a) ==
  ref'[r].at = a /\ ref'[r].pool = ref[r].pool /\ ref'[r].obj = ref[r].obj /\ OthersStay(r)

LEMMA FinishingRests ==
  ASSUME RefInv, NEW r \in Refreshers, Finishing(r)
  PROVE  Rests(r)
BY Finishes DEF Rests, OthersStay

LEMMA GoToCarries ==
  ASSUME RefInv, NEW r \in Refreshers, NEW a \in Working, GoTo(r, a)
  PROVE  Carries(r, a)
BY Goes DEF Carries, OthersStay

\* The pool of Run.
RunChoice == IF poolStatus[Head(order)] = "empty" THEN Head(order) ELSE PoolToUpdate

LEMMA RunMoves ==
  ASSUME RefInv, Run
  PROVE  /\ Main \in Refreshers /\ ref[Main].at = "start"
         /\ \/ Rests(Main) /\ RunChoice = None
            \/ /\ ref'[Main].at = "run" /\ ref'[Main].obj = gen /\ OthersStay(Main)
               /\ \E p \in Pools : p = RunChoice /\ ref'[Main].pool = p
<1>1. Main \in Refreshers /\ ref[Main].at = "start"
  BY DEF Run, Refreshers, At
<1>2. Finishing(Main) => Rests(Main)
  BY <1>1, FinishingRests
<1>3. RunChoice \in Pools \cup {None}
  BY ListType, UpdatedPool DEF RefInv, RefreshTypes, RunChoice
<1>4. gen \in Nat /\ 0 <= gen
  BY DEF RefInv, RefreshTypes
<1>5. \/ /\ RunChoice # None
         /\ ref' = [ref EXCEPT ![Main] = [at |-> "run", pool |-> RunChoice, obj |-> gen, elem |-> 0]]
      \/ RunChoice = None /\ Finishing(Main)
  BY DEF Run, RunChoice
<1>6. PICK p \in Pools \cup {None} : p = RunChoice
  BY <1>3
<1>7. CASE p # None /\ ref' = [ref EXCEPT ![Main] = [at |-> "run", pool |-> p, obj |-> gen, elem |-> 0]]
  BY <1>1, <1>4, <1>6, <1>7, Begins DEF OthersStay
<1> QED
  BY <1>1, <1>2, <1>5, <1>6, <1>7

LEMMA FullRefreshMoves ==
  ASSUME RefInv, NEW t \in Ticks, FullRefresh(t)
  PROVE  /\ t \in Refreshers /\ ref[t].at = "idle"
         /\ \/ ref' = ref
            \/ /\ ref'[t].at = "prepare" /\ ref'[t].obj = gen /\ OthersStay(t)
               /\ \E p \in Pools : p = PoolToUpdate /\ ref'[t].pool = p
<1>1. t \in Refreshers /\ ref[t].at = "idle"
  BY DEF FullRefresh, Refreshers, At
<1>2. PoolToUpdate \in Pools \cup {None}
  BY UpdatedPool DEF RefInv, RefreshTypes
<1>3. gen \in Nat /\ gen <= gen
  BY DEF RefInv, RefreshTypes
<1>4. CASE PoolToUpdate = None
  BY <1>1, <1>4 DEF FullRefresh
<1>5. CASE PoolToUpdate # None
  <2>1. PICK p \in Pools : p = PoolToUpdate
    BY <1>2, <1>5
  <2>2. ref' = [ref EXCEPT ![t] = [at |-> "prepare", pool |-> p, obj |-> gen, elem |-> gen]]
    BY <1>5, <2>1 DEF FullRefresh
  <2> QED
    BY <1>1, <1>3, <2>1, <2>2, Begins DEF OthersStay
<1> QED
  BY <1>4, <1>5

LEMMA PrepareMoves ==
  ASSUME RefInv, NEW t \in Ticks
  PROVE  /\ t \in Refreshers
         /\ CheckClones(t) => ref[t].at = "prepare" /\ (Rests(t) \/ Carries(t, "destroy"))
         /\ DestroySnapshot(t) => ref[t].at = "destroy" /\ (Rests(t) \/ ref' = ref)
         /\ CleanUpControlContainers(t) => ref[t].at = "destroy" /\ (Rests(t) \/ Carries(t, "run"))
         /\ ActivateAgain(t) => ref[t].at = "activate again" /\ Rests(t)
<1>1. t \in Refreshers
  BY DEF Refreshers
<1>2. Finishing(t) => Rests(t)
  BY <1>1, FinishingRests
<1>3. (GoTo(t, "destroy") => Carries(t, "destroy")) /\ (GoTo(t, "run") => Carries(t, "run"))
  <2>1. "destroy" \in Working /\ "run" \in Working
    BY DEF Working, Preparing
  <2> QED
    BY <1>1, <2>1, GoToCarries
<1>4. CheckClones(t) => ref[t].at = "prepare" /\ (Rests(t) \/ Carries(t, "destroy"))
  BY <1>2, <1>3 DEF CheckClones, At
<1>5. DestroySnapshot(t) => ref[t].at = "destroy" /\ (Rests(t) \/ ref' = ref)
  BY <1>2 DEF DestroySnapshot, At
<1>6. CleanUpControlContainers(t) => ref[t].at = "destroy" /\ (Rests(t) \/ Carries(t, "run"))
  BY <1>2, <1>3 DEF CleanUpControlContainers, At
<1>7. ActivateAgain(t) => ref[t].at = "activate again" /\ Rests(t)
  BY <1>2 DEF ActivateAgain, At
<1> QED
  BY <1>1, <1>4, <1>5, <1>6, <1>7

LEMMA BeginRunMoves ==
  ASSUME RefInv, NEW r \in Refreshers, BeginRun(r)
  PROVE  /\ ref[r].at = "run"
         /\ Rests(r) \/ Carries(r, "lock")
<1>1. ref \in [Refreshers -> RefRecords] /\ ref[r] \in RefRecords
  BY DEF RefInv, RefreshTypes
<1>2. CASE Finishing(r)
  BY <1>2, FinishingRests DEF BeginRun, At
<1>3. CASE ref' = [ref EXCEPT ![r].at = "lock", ![r].elem = gen]
  <2> DEFINE x == [ref[r] EXCEPT !.at = "lock", !.elem = gen]
  <2>1. x.at = "lock" /\ x.pool = ref[r].pool /\ x.obj = ref[r].obj
    BY <1>1 DEF RefRecords
  <2>2. ref' = [ref EXCEPT ![r] = x]
    BY <1>1, <1>3
  <2> HIDE DEF x
  <2>3. ref'[r] = x /\ \A q \in Refreshers \ {r} : ref'[q] = ref[q]
    BY <1>1, <2>2
  <2> QED
    BY <2>1, <2>3 DEF Carries, OthersStay, BeginRun, At
<1> QED
  BY <1>2, <1>3 DEF BeginRun

LEMMA RefreshMoves ==
  ASSUME RefInv, NEW r \in Refreshers
  PROVE  /\ Lock(r) => ref[r].at = "lock" /\ Carries(r, "restore")
         /\ JobFails(r) => ref[r].at \in {"restore", "snapshot"} /\ Rests(r)
         /\ Restore(r) => ref[r].at = "restore" /\ Carries(r, "snapshot")
         /\ TakeSnapshot(r) => ref[r].at = "snapshot" /\ Carries(r, "activate")
         /\ Activate(r) => ref[r].at = "activate" /\ (Rests(r) \/ Carries(r, "activate again"))
<1>1. Finishing(r) => Rests(r)
  BY FinishingRests
<1>2. \A a \in Working : GoTo(r, a) => Carries(r, a)
  BY GoToCarries
<1>3. {"restore", "snapshot", "activate", "activate again"} \subseteq Working
  BY DEF Working
<1>4. Lock(r) => ref[r].at = "lock" /\ Carries(r, "restore")
  BY <1>2, <1>3 DEF Lock, At
<1>5. JobFails(r) => ref[r].at \in {"restore", "snapshot"} /\ Rests(r)
  BY <1>1 DEF JobFails
<1>6. Restore(r) => ref[r].at = "restore" /\ Carries(r, "snapshot")
  BY <1>2, <1>3 DEF Restore, At
<1>7. TakeSnapshot(r) => ref[r].at = "snapshot" /\ Carries(r, "activate")
  BY <1>2, <1>3 DEF TakeSnapshot, At
<1>8. Activate(r) => ref[r].at = "activate" /\ (Rests(r) \/ Carries(r, "activate again"))
  BY <1>1, <1>2, <1>3 DEF Activate, At
<1> QED
  BY <1>4, <1>5, <1>6, <1>7, <1>8

\* What a single refresher's step leaves of a place.
LEMMA StaysApart ==
  ASSUME NEW r \in Refreshers, OthersStay(r), NEW q \in Refreshers
  PROVE  q = r \/ ref'[q] = ref[q]
BY DEF OthersStay

-----------------------------------------------------------------------------
(* There are versions enough *)

Early == Preparing \cup {"start", "restore"}

\* The refreshers that may yet restore data.
Ahead == {r \in Refreshers : ref[r].at \in Early}

VersionsSuffice ==
  latest + Cardinality(Ahead) <= MaxScheduled + Cardinality(Ticks) + gen + 1

LEMMA Numbers ==
  /\ IsFiniteSet(Refreshers) /\ Cardinality(Refreshers) = Cardinality(Ticks) + 1
  /\ Cardinality(Ticks) \in Nat /\ MaxScheduled \in Nat /\ Cardinality(Pools) \in Nat
  /\ Cardinality(Pools) <= MaxScheduled
<1>1. IsFiniteSet(Ticks) /\ Main \notin Ticks /\ MaxRefreshes \in Nat
  BY PoolRefreshAssumption
<1>2. Cardinality(Pools) \in Nat
  BY SomePool
<1>3. Refreshers = Ticks \cup {Main}
  BY DEF Refreshers
<1>4. IsFiniteSet(Refreshers) /\ Cardinality(Refreshers) = Cardinality(Ticks) + 1
  BY <1>1, <1>3, FS_AddElement
<1>5. Cardinality(Ticks) \in Nat
  BY <1>1, FS_CardinalityType
<1> QED
  BY <1>1, <1>2, <1>4, <1>5 DEF MaxScheduled

LEMMA SomeAhead ==
  ASSUME NEW S, S \subseteq Refreshers
  PROVE  IsFiniteSet(S) /\ Cardinality(S) \in Nat /\ Cardinality(S) <= Cardinality(Ticks) + 1
BY Numbers, FS_Subset, FS_CardinalityType

\* Nobody new is ahead, and nothing is restored.
LEMMA NobodyNewAhead ==
  ASSUME RefInv, VersionsSuffice, Ahead' \subseteq Ahead, latest' = latest, gen' \in Nat, gen <= gen'
  PROVE  VersionsSuffice'
<1>1. PICK A, B, C, D, G, H, L : /\ A = Cardinality(Ahead) /\ B = Cardinality(Ahead')
                                 /\ C = Cardinality(Ticks) /\ D = MaxScheduled /\ G = gen /\ H = gen'
                                 /\ L = latest
  OBVIOUS
<1>2. Ahead \subseteq Refreshers /\ Ahead' \subseteq Refreshers
  BY DEF Ahead
<1>3. A \in Nat /\ B \in Nat /\ B <= A
  BY <1>1, <1>2, SomeAhead, FS_Subset
<1>4. C \in Nat /\ D \in Nat
  BY <1>1, Numbers
<1>5. G \in Nat /\ H \in Nat /\ L \in Nat /\ G <= H
  BY <1>1 DEF RefInv, RefreshTypes
<1>6. L + A <= D + C + G + 1
  BY <1>1 DEF VersionsSuffice
<1>7. L + B <= D + C + H + 1
  BY <1>3, <1>4, <1>5, <1>6
<1> QED
  BY <1>1, <1>7 DEF VersionsSuffice

LEMMA OneMoves ==
  ASSUME RefInv, VersionsSuffice, NEW r \in Refreshers, OthersStay(r),
         ref'[r].at \in Early => ref[r].at \in Early,
         latest' = latest, gen' = gen
  PROVE  VersionsSuffice'
<1>1. Ahead' \subseteq Ahead
  BY DEF Ahead, OthersStay
<1>2. gen' \in Nat /\ gen <= gen'
  BY DEF RefInv, RefreshTypes
<1> QED
  BY <1>1, <1>2, NobodyNewAhead

LEMMA NobodyMoves ==
  ASSUME RefInv, VersionsSuffice, ref' = ref, latest' = latest, gen' = gen
  PROVE  VersionsSuffice'
BY OneMoves DEF OthersStay, Refreshers

LEMMA RestoreVersions ==
  ASSUME RefInv, VersionsSuffice, NEW r \in Refreshers, Restore(r)
  PROVE  VersionsSuffice'
<1>1. latest' = latest + 1 /\ gen' = gen
  BY DEF Restore, poolVars
<1>2. /\ ref[r].at = "restore" /\ ref'[r].at = "snapshot"
      /\ \A q \in Refreshers \ {r} : ref'[q] = ref[q]
  BY RefreshMoves DEF Carries, OthersStay
<1>3. "restore" \in Early /\ "snapshot" \notin Early
  BY DEF Early, Preparing
<1>4. Ahead' = Ahead \ {r} /\ r \in Ahead
  BY <1>2, <1>3 DEF Ahead
<1>5. PICK A, B, C, D, G, L : /\ A = Cardinality(Ahead) /\ B = Cardinality(Ahead')
                              /\ C = Cardinality(Ticks) /\ D = MaxScheduled /\ G = gen /\ L = latest
  OBVIOUS
<1>6. Ahead \subseteq Refreshers /\ Ahead' \subseteq Refreshers
  BY DEF Ahead
<1>7. A \in Nat /\ B \in Nat /\ B = A - 1
  BY <1>4, <1>5, <1>6, SomeAhead, FS_RemoveElement
<1>8. C \in Nat /\ D \in Nat
  BY <1>5, Numbers
<1>9. G \in Nat /\ L \in Nat
  BY <1>5 DEF RefInv, RefreshTypes
<1>10. L + A <= D + C + G + 1
  BY <1>5 DEF VersionsSuffice
<1>11. (L + 1) + B <= D + C + G + 1
  BY <1>7, <1>8, <1>9, <1>10
<1> QED
  BY <1>1, <1>5, <1>11 DEF VersionsSuffice

\* A tick begins only below the bound.
LEMMA FullRefreshVersions ==
  ASSUME RefInv, NEW t \in Ticks, FullRefresh(t)
  PROVE  VersionsSuffice'
<1>1. latest' = latest /\ latest < MaxScheduled /\ gen' = gen
  BY DEF FullRefresh, diskVars, poolVars
<1>2. PICK B, C, D, G, L : /\ B = Cardinality(Ahead')
                           /\ C = Cardinality(Ticks) /\ D = MaxScheduled /\ G = gen /\ L = latest
  OBVIOUS
<1>3. Ahead' \subseteq Refreshers
  BY DEF Ahead
<1>4. B \in Nat /\ B <= C + 1
  BY <1>2, <1>3, SomeAhead
<1>5. C \in Nat /\ D \in Nat
  BY <1>2, Numbers
<1>6. G \in Nat /\ L \in Nat /\ L < D
  BY <1>1, <1>2 DEF RefInv, RefreshTypes
<1>7. L + B <= D + C + G + 1
  BY <1>4, <1>5, <1>6
<1> QED
  BY <1>1, <1>2, <1>7 DEF VersionsSuffice

\* Only Main may restore data after a restart, which a reload pays for.
LEMMA RestartVersions ==
  ASSUME RefInv, VersionsSuffice, Restart
  PROVE  VersionsSuffice'
<1>1. latest' = latest /\ gen' = gen + 1
  BY DEF Restart, diskVars, ReloadPools
<1>2. ref' = [r \in Refreshers |-> IF r = Main THEN [AtRest EXCEPT !.at = "start"] ELSE AtRest]
  BY DEF Restart
<1>3. \A r \in Refreshers \ {Main} : ref'[r].at = "idle"
  <2>1. \A r \in Refreshers : ref'[r].at = (IF r = Main THEN "start" ELSE "idle")
    BY <1>2, Fresh
  <2> QED
    BY <2>1
<1>4. "idle" \notin Early
  BY DEF Early, Preparing
<1>5. Ahead' \subseteq {Main}
  BY <1>3, <1>4 DEF Ahead
<1>6. PICK A, B, C, D, G, L : /\ A = Cardinality(Ahead) /\ B = Cardinality(Ahead')
                              /\ C = Cardinality(Ticks) /\ D = MaxScheduled /\ G = gen /\ L = latest
  OBVIOUS
<1>7. Ahead \subseteq Refreshers /\ Ahead' \subseteq Refreshers
  BY DEF Ahead
<1>8. A \in Nat /\ B \in Nat /\ B <= 1
  <2>1. A \in Nat /\ B \in Nat
    BY <1>6, <1>7, SomeAhead
  <2>2. IsFiniteSet({Main}) /\ Cardinality({Main}) = 1
    BY FS_Singleton
  <2>3. Cardinality(Ahead') <= Cardinality({Main})
    BY <1>5, <2>2, FS_Subset
  <2> QED
    BY <1>6, <2>1, <2>2, <2>3
<1>9. C \in Nat /\ D \in Nat
  BY <1>6, Numbers
<1>10. G \in Nat /\ L \in Nat
  BY <1>6 DEF RefInv, RefreshTypes
<1>11. L + A <= D + C + G + 1
  BY <1>6 DEF VersionsSuffice
<1>12. L + B <= D + C + (G + 1) + 1
  BY <1>8, <1>9, <1>10, <1>11
<1> QED
  BY <1>1, <1>6, <1>12 DEF VersionsSuffice

LEMMA InitVersions ==
  ASSUME Init
  PROVE  VersionsSuffice
<1>1. latest = Cardinality(Pools) /\ gen = 0
  BY DEF Init
<1>2. PICK A, C, D, P : /\ A = Cardinality(Ahead) /\ C = Cardinality(Ticks)
                        /\ D = MaxScheduled /\ P = Cardinality(Pools)
  OBVIOUS
<1>3. Ahead \subseteq Refreshers
  BY DEF Ahead
<1>4. A \in Nat /\ A <= C + 1 /\ C \in Nat /\ D \in Nat /\ P \in Nat /\ P <= D
  BY <1>2, <1>3, SomeAhead, Numbers
<1>5. P + A <= D + C + 0 + 1
  BY <1>4
<1> QED
  BY <1>1, <1>2, <1>5 DEF VersionsSuffice

LEMMA StepVersions ==
  ASSUME RefInv, VersionsSuffice, [Next]_refreshVars
  PROVE  VersionsSuffice'
<1>1. /\ \A a \in {"idle", "ended", "snapshot", "activate", "activate again"} : a \notin Early
      /\ \A a \in {"start", "prepare", "destroy", "run", "lock", "restore"} : a \in Early
  BY DEF Early, Preparing
<1>2. CASE UNCHANGED refreshVars
  BY <1>2, NobodyMoves DEF refreshVars, poolVars, diskVars
<1>3. CASE Run
  <2>1. latest' = latest /\ gen' = gen
    BY <1>3 DEF Run, diskVars, poolVars
  <2>2. Main \in Refreshers /\ OthersStay(Main) /\ ref[Main].at \in Early
    BY <1>1, <1>3, RunMoves DEF Rests
  <2> QED
    BY <2>1, <2>2, OneMoves
<1>4. ASSUME NEW r \in Refreshers, RefreshStep(r)
      PROVE  VersionsSuffice'
  <2>1. CASE Restore(r)
    BY <2>1, RestoreVersions
  <2>2. CASE BeginRun(r)
    <3>1. latest' = latest /\ gen' = gen
      BY <2>2 DEF BeginRun, diskVars
    <3>2. OthersStay(r) /\ ref[r].at \in Early
      BY <1>1, <2>2, BeginRunMoves DEF Rests, Carries
    <3> QED
      BY <3>1, <3>2, OneMoves
  <2>3. CASE Lock(r)
    <3>1. latest' = latest /\ gen' = gen
      BY <2>3 DEF Lock, diskVars, poolVars
    <3>2. OthersStay(r) /\ ref[r].at \in Early
      BY <1>1, <2>3, RefreshMoves DEF Carries
    <3> QED
      BY <3>1, <3>2, OneMoves
  <2>4. CASE JobFails(r)
    <3>1. latest' = latest /\ gen' = gen
      BY <2>4 DEF JobFails, diskVars
    <3>2. OthersStay(r) /\ ref'[r].at \notin Early
      BY <1>1, <2>4, RefreshMoves DEF Rests
    <3> QED
      BY <3>1, <3>2, OneMoves
  <2>5. CASE TakeSnapshot(r)
    <3>1. latest' = latest /\ gen' = gen
      BY <2>5 DEF TakeSnapshot, poolVars
    <3>2. OthersStay(r) /\ ref'[r].at \notin Early
      BY <1>1, <2>5, RefreshMoves DEF Carries
    <3> QED
      BY <3>1, <3>2, OneMoves
  <2>6. CASE Activate(r)
    <3>1. latest' = latest /\ gen' = gen
      BY <2>6 DEF Activate, diskVars
    <3>2. OthersStay(r) /\ ref'[r].at \notin Early
      BY <1>1, <2>6, RefreshMoves DEF Rests, Carries
    <3> QED
      BY <3>1, <3>2, OneMoves
  <2> QED
    BY <1>4, <2>1, <2>2, <2>3, <2>4, <2>5, <2>6 DEF RefreshStep
<1>5. ASSUME NEW t \in Ticks, PrepareStep(t)
      PROVE  VersionsSuffice'
  <2>1. latest' = latest /\ gen' = gen
    BY <1>5 DEF PrepareStep, CheckClones, DestroySnapshot, CleanUpControlContainers, ActivateAgain,
                poolVars, diskVars
  <2>2. t \in Refreshers
    BY PrepareMoves
  <2>3. \/ ref' = ref
        \/ OthersStay(t) /\ ref[t].at \in Early
        \/ OthersStay(t) /\ ref'[t].at \notin Early
    BY <1>1, <1>5, PrepareMoves DEF PrepareStep, Rests, Carries
  <2> QED
    BY <2>1, <2>2, <2>3, OneMoves, NobodyMoves
<1>6. ASSUME NEW t \in Ticks, FullRefresh(t)
      PROVE  VersionsSuffice'
  BY <1>6, FullRefreshVersions
<1>7. CASE Reload
  <2>1. ref' = ref /\ latest' = latest /\ gen' = gen + 1
    BY <1>7 DEF Reload, diskVars, ReloadPools
  <2>2. gen' \in Nat /\ gen <= gen' /\ Ahead' \subseteq Ahead
    BY <2>1 DEF RefInv, RefreshTypes, Ahead
  <2> QED
    BY <2>1, <2>2, NobodyNewAhead
<1>8. CASE Restart
  BY <1>8, RestartVersions
<1>9. ASSUME NEW c \in Clones, ClientStep(c)
      PROVE  VersionsSuffice'
  BY <1>9, NobodyMoves DEF ClientStep, ChooseSnapshot, CreateClone, StartContainer, DestroyClone,
                           poolVars, diskVars
<1> QED
  BY <1>2, <1>3, <1>4, <1>5, <1>6, <1>7, <1>8, <1>9 DEF Next

-----------------------------------------------------------------------------
(* Clones and their snapshots *)

\* The dataset of a clone depends on a snapshot that is there.
ClonesHold ==
  \A c \in Clones :
    /\ clone[c].at # "none" => clone[c].pool \in Pools
    /\ clone[c].at \in {"dataset", "running"} => clone[c].snap \in snaps[clone[c].pool]

\* Nothing happens to the clones, and no snapshot is destroyed.
LEMMA ClonesUntouched ==
  ASSUME ClonesHold, clone' = clone, \A p \in Pools : snaps[p] \subseteq snaps'[p]
  PROVE  ClonesHold'
<1> SUFFICES ASSUME NEW c \in Clones
             PROVE  /\ clone[c].at # "none" => clone[c].pool \in Pools
                    /\ clone[c].at \in {"dataset", "running"} => clone[c].snap \in snaps'[clone[c].pool]
  BY DEF ClonesHold
<1>1. /\ clone[c].at # "none" => clone[c].pool \in Pools
      /\ clone[c].at \in {"dataset", "running"} => clone[c].snap \in snaps[clone[c].pool]
  BY DEF ClonesHold
<1> QED
  BY <1>1

\* A snapshot is destroyed with the datasets on it, unless a container runs on one.
LEMMA DestroySnapshotClones ==
  ASSUME RefInv, ClonesHold, NEW t \in Ticks, DestroySnapshot(t)
  PROVE  ClonesHold'
<1>1. CASE UNCHANGED <<snaps, clone>>
  BY <1>1, ClonesUntouched
<1>2. CASE \E s \in snaps[ref[t].pool] :
             /\ ~ Held(ref[t].pool, s)
             /\ snaps' = [snaps EXCEPT ![ref[t].pool] = @ \ {s}]
             /\ clone' = [c \in Clones |->
                            IF c \in {d \in Clones : clone[d].pool = ref[t].pool /\ clone[d].snap = s}
                                 /\ clone[c].at = "dataset"
                              THEN NoClone ELSE clone[c]]
  <2>1. PICK s \in snaps[ref[t].pool] :
             /\ ~ Held(ref[t].pool, s)
             /\ snaps' = [snaps EXCEPT ![ref[t].pool] = @ \ {s}]
             /\ clone' = [c \in Clones |->
                            IF c \in {d \in Clones : clone[d].pool = ref[t].pool /\ clone[d].snap = s}
                                 /\ clone[c].at = "dataset"
                              THEN NoClone ELSE clone[c]]
    BY <1>2
  <2>2. snaps \in [Pools -> SUBSET (1 .. latest)]
    BY DEF RefInv, RefreshTypes
  <2> SUFFICES ASSUME NEW c \in Clones
               PROVE  /\ clone'[c].at # "none" => clone'[c].pool \in Pools
                      /\ clone'[c].at \in {"dataset", "running"} => clone'[c].snap \in snaps'[clone'[c].pool]
    BY DEF ClonesHold
  <2>3. CASE clone'[c] = NoClone
    BY <2>3 DEF NoClone
  <2>4. CASE clone'[c] = clone[c] /\ ~ (clone[c].pool = ref[t].pool /\ clone[c].snap = s
                                          /\ clone[c].at = "dataset")
    <3>1. /\ clone[c].at # "none" => clone[c].pool \in Pools
          /\ clone[c].at \in {"dataset", "running"} => clone[c].snap \in snaps[clone[c].pool]
      BY DEF ClonesHold
    <3>2. ~ (clone[c].pool = ref[t].pool /\ clone[c].snap = s /\ clone[c].at = "running")
      BY <2>1 DEF Held
    <3>3. ASSUME clone[c].at \in {"dataset", "running"}
          PROVE  clone[c].snap \in snaps'[clone[c].pool]
      <4>1. clone[c].pool \in Pools /\ clone[c].snap \in snaps[clone[c].pool]
        BY <3>1, <3>3
      <4>2. clone[c].pool # ref[t].pool \/ clone[c].snap # s
        BY <2>4, <3>2, <3>3
      <4> QED
        BY <2>1, <2>2, <4>1, <4>2
    <3> QED
      BY <2>4, <3>1, <3>3
  <2> QED
    BY <2>1, <2>3, <2>4
<1> QED
  BY <1>1, <1>2 DEF DestroySnapshot

LEMMA ClientClones ==
  ASSUME RefInv, ClonesHold, NEW c \in Clones, ClientStep(c)
  PROVE  ClonesHold'
<1>1. snaps' = snaps
  BY DEF ClientStep, ChooseSnapshot, CreateClone, StartContainer, DestroyClone, diskVars
<1>2. clone \in [Clones -> CloneRecords(latest)] /\ clone[c] \in CloneRecords(latest)
  BY DEF RefInv, RefreshTypes
<1>3. /\ \A d \in Clones \ {c} : clone'[d] = clone[d]
      /\ clone'[c].at # "none" => clone'[c].pool \in Pools
      /\ clone'[c].at \in {"dataset", "running"} => clone'[c].snap \in snaps[clone'[c].pool]
  <2>1. CASE ChooseSnapshot(c)
    <3>1. PICK o \in Offered :
            clone' = [clone EXCEPT ![c] = [at |-> "chosen", pool |-> o[1], snap |-> o[2]]]
      BY <2>1 DEF ChooseSnapshot
    <3>2. o[1] \in Pools
      BY DEF Offered
    <3> QED
      BY <1>2, <3>1, <3>2
  <2>2. CASE CreateClone(c)
    <3>1. clone[c].at = "chosen" /\ clone[c].pool \in Pools
      BY <2>2 DEF CreateClone, ClonesHold
    <3>2. CASE clone' = [clone EXCEPT ![c] = NoClone]
      BY <1>2, <3>2 DEF NoClone
    <3>3. CASE clone[c].snap \in snaps[clone[c].pool]
               /\ clone' = [clone EXCEPT ![c] = [clone[c] EXCEPT !.at = "dataset"]]
      <4>1. /\ [clone[c] EXCEPT !.at = "dataset"].pool = clone[c].pool
            /\ [clone[c] EXCEPT !.at = "dataset"].snap = clone[c].snap
        BY <1>2 DEF CloneRecords
      <4> QED
        BY <1>2, <3>1, <3>3, <4>1
    <3> QED
      BY <1>2, <2>2, <3>2, <3>3 DEF CreateClone
  <2>3. CASE StartContainer(c)
    <3>1. clone[c].at = "dataset" /\ clone' = [clone EXCEPT ![c] = [clone[c] EXCEPT !.at = "running"]]
      BY <1>2, <2>3 DEF StartContainer
    <3>2. clone[c].pool \in Pools /\ clone[c].snap \in snaps[clone[c].pool]
      BY <3>1 DEF ClonesHold
    <3>3. /\ [clone[c] EXCEPT !.at = "running"].pool = clone[c].pool
          /\ [clone[c] EXCEPT !.at = "running"].snap = clone[c].snap
      BY <1>2 DEF CloneRecords
    <3> QED
      BY <1>2, <3>1, <3>2, <3>3
  <2>4. CASE DestroyClone(c)
    BY <1>2, <2>4 DEF DestroyClone, NoClone
  <2> QED
    BY <2>1, <2>2, <2>3, <2>4 DEF ClientStep
<1> SUFFICES ASSUME NEW d \in Clones
             PROVE  /\ clone'[d].at # "none" => clone'[d].pool \in Pools
                    /\ clone'[d].at \in {"dataset", "running"} => clone'[d].snap \in snaps[clone'[d].pool]
  BY <1>1 DEF ClonesHold
<1>4. CASE d = c
  BY <1>3, <1>4
<1>5. CASE d # c
  BY <1>3, <1>5 DEF ClonesHold
<1> QED
  BY <1>4, <1>5

LEMMA StepClones ==
  ASSUME RefInv, ClonesHold, [Next]_refreshVars
  PROVE  ClonesHold'
<1>1. ASSUME NEW r \in Refreshers, TakeSnapshot(r)
      PROVE  ClonesHold'
  <2>1. clone' = clone /\ snaps' = [snaps EXCEPT ![ref[r].pool] = @ \cup {marker[ref[r].pool]}]
    BY <1>1 DEF TakeSnapshot
  <2>2. snaps \in [Pools -> SUBSET (1 .. latest)]
    BY DEF RefInv, RefreshTypes
  <2>3. \A p \in Pools : snaps[p] \subseteq snaps'[p]
    BY <2>1, <2>2
  <2> QED
    BY <2>1, <2>3, ClonesUntouched
<1>2. CASE UNCHANGED <<clone, snaps>>
  BY <1>2, ClonesUntouched
<1>3. CASE Restart
  <2>1. snaps' = snaps /\ clone' = [c \in Clones |-> IF clone[c].at = "running" THEN clone[c] ELSE NoClone]
    BY <1>3 DEF Restart, diskVars
  <2>2. \A c \in Clones : clone'[c] = NoClone \/ clone'[c] = clone[c]
    BY <2>1
  <2> QED
    BY <2>1, <2>2 DEF ClonesHold, NoClone
<1>4. ASSUME NEW t \in Ticks, DestroySnapshot(t)
      PROVE  ClonesHold'
  BY <1>4, DestroySnapshotClones
<1>5. ASSUME NEW c \in Clones, ClientStep(c)
      PROVE  ClonesHold'
  BY <1>5, ClientClones
<1>6. Run \/ Reload => UNCHANGED <<clone, snaps>>
  BY DEF Run, Reload, diskVars
<1>7. \A t \in Ticks : FullRefresh(t) \/ CheckClones(t) \/ CleanUpControlContainers(t) \/ ActivateAgain(t)
                         => UNCHANGED <<clone, snaps>>
  BY DEF FullRefresh, CheckClones, CleanUpControlContainers, ActivateAgain, diskVars
<1>8. \A r \in Refreshers : BeginRun(r) \/ Lock(r) \/ JobFails(r) \/ Restore(r) \/ Activate(r)
                              => UNCHANGED <<clone, snaps>>
  BY DEF BeginRun, Lock, JobFails, Restore, Activate, diskVars
<1>9. UNCHANGED refreshVars => UNCHANGED <<clone, snaps>>
  BY DEF refreshVars, diskVars
<1> QED
  BY <1>1, <1>2, <1>3, <1>4, <1>5, <1>6, <1>7, <1>8, <1>9 DEF Next, RefreshStep, PrepareStep

-----------------------------------------------------------------------------
(* Pools marked as refreshing *)

\* The refresher that will set the status again: its object is current.
Marks(r, p) == ref[r].at \in Marking /\ ref[r].pool = p /\ ref[r].obj = gen

MarkedHeld ==
  \A p \in Pools : poolStatus[p] = "refreshing" => \E r \in Refreshers : Marks(r, p)

\* No pool is newly marked, and the refresher that moves leaves none behind.
LEMMA NothingLeftMarked ==
  ASSUME MarkedHeld, NEW r \in Refreshers, OthersStay(r), gen' = gen,
         \A p \in Pools : poolStatus'[p] = "refreshing" => poolStatus[p] = "refreshing",
         \/ ref[r].at \notin Marking
         \/ ref'[r].at \in Marking /\ ref'[r].pool = ref[r].pool /\ ref'[r].obj = ref[r].obj
         \/ ref[r].obj = gen => poolStatus'[ref[r].pool] # "refreshing"
  PROVE  MarkedHeld'
<1> SUFFICES ASSUME NEW p \in Pools, poolStatus'[p] = "refreshing"
             PROVE  \E q \in Refreshers :
                      ref'[q].at \in Marking /\ ref'[q].pool = p /\ ref'[q].obj = gen
  BY DEF MarkedHeld, Marks
<1>1. PICK q \in Refreshers : ref[q].at \in Marking /\ ref[q].pool = p /\ ref[q].obj = gen
  BY DEF MarkedHeld, Marks
<1>2. CASE q # r
  BY <1>1, <1>2 DEF OthersStay
<1>3. CASE q = r
  BY <1>1, <1>3
<1> QED
  BY <1>2, <1>3

LEMMA NothingMarked ==
  ASSUME MarkedHeld, ref' = ref, gen' = gen, poolStatus' = poolStatus
  PROVE  MarkedHeld'
BY DEF MarkedHeld, Marks

\* MakeActive marks no pool, and the refresher's own is active unless it is of an old list.
LEMMA ActiveNotMarked ==
  ASSUME RefInv, NEW r \in Refreshers, ref[r].at \in Working, NEW e, MakeActive(r, e)
  PROVE  /\ \A p \in Pools : poolStatus'[p] = "refreshing" => poolStatus[p] = "refreshing"
         /\ e = gen => poolStatus'[ref[r].pool] # "refreshing"
<1>1. ref[r].pool \in Pools
  BY DEF RefInv, WorksOnPool
<1>2. /\ Head(order') \in Pools
      /\ poolStatus' = [poolStatus EXCEPT ![Head(order')] = "active"]
      /\ e = gen => Head(order') = ref[r].pool
  BY <1>1, MadeActive
<1>3. poolStatus \in [Pools -> PoolStatuses]
  BY DEF RefInv, RefreshTypes
<1> QED
  BY <1>1, <1>2, <1>3

LEMMA BeginRunMarks ==
  ASSUME RefInv, MarkedHeld, NEW r \in Refreshers, BeginRun(r)
  PROVE  MarkedHeld'
<1>1. gen' = gen /\ ref[r].at = "run" /\ ref[r].at \notin Marking
  BY DEF BeginRun, At, Marking
<1>2. CASE UNCHANGED poolStatus
  <2>1. OthersStay(r)
    BY BeginRunMoves DEF Rests, Carries
  <2> QED
    BY <1>1, <1>2, <2>1, NothingLeftMarked
<1>3. CASE SetStatus(r, "refreshing") /\ ref' = [ref EXCEPT ![r].at = "lock", ![r].elem = gen]
  <2>1. ref \in [Refreshers -> RefRecords] /\ poolStatus \in [Pools -> PoolStatuses]
    BY DEF RefInv, RefreshTypes
  <2>2. Carries(r, "lock")
    <3> DEFINE x == [ref[r] EXCEPT !.at = "lock", !.elem = gen]
    <3>1. x.at = "lock" /\ x.pool = ref[r].pool /\ x.obj = ref[r].obj
      BY <2>1 DEF RefRecords
    <3>2. ref' = [ref EXCEPT ![r] = x]
      BY <1>3, <2>1
    <3> HIDE DEF x
    <3>3. ref'[r] = x /\ \A q \in Refreshers \ {r} : ref'[q] = ref[q]
      BY <2>1, <3>2
    <3> QED
      BY <3>1, <3>3 DEF Carries, OthersStay
  <2> SUFFICES ASSUME NEW p \in Pools, poolStatus'[p] = "refreshing"
               PROVE  \E q \in Refreshers :
                        ref'[q].at \in Marking /\ ref'[q].pool = p /\ ref'[q].obj = gen
    BY <1>1 DEF MarkedHeld, Marks
  <2>3. CASE p = ref[r].pool /\ ref[r].obj = gen
    BY <2>2, <2>3 DEF Carries, Marking
  <2>4. CASE ~ (p = ref[r].pool /\ ref[r].obj = gen)
    <3>1. poolStatus[p] = "refreshing"
      BY <1>3, <2>1, <2>4 DEF SetStatus
    <3>2. PICK q \in Refreshers : ref[q].at \in Marking /\ ref[q].pool = p /\ ref[q].obj = gen
      BY <3>1 DEF MarkedHeld, Marks
    <3>3. q # r
      BY <1>1, <3>2
    <3> QED
      BY <2>2, <3>2, <3>3 DEF Carries, OthersStay
  <2> QED
    BY <2>3, <2>4
<1> QED
  BY <1>2, <1>3 DEF BeginRun

LEMMA RefreshStepMarks ==
  ASSUME RefInv, MarkedHeld, NEW r \in Refreshers, RefreshStep(r)
  PROVE  MarkedHeld'
<1>1. CASE BeginRun(r)
  BY <1>1, BeginRunMarks
<1>2. CASE Lock(r) \/ Restore(r) \/ TakeSnapshot(r)
  <2>1. gen' = gen /\ poolStatus' = poolStatus
    BY <1>2 DEF Lock, Restore, TakeSnapshot, poolVars
  <2>2. Carries(r, "restore") \/ Carries(r, "snapshot") \/ Carries(r, "activate")
    BY <1>2, RefreshMoves
  <2>3. /\ OthersStay(r) /\ ref'[r].at \in Marking
        /\ ref'[r].pool = ref[r].pool /\ ref'[r].obj = ref[r].obj
    BY <2>2 DEF Carries, Marking
  <2> QED
    BY <2>1, <2>3, NothingLeftMarked
<1>3. CASE JobFails(r)
  <2>1. gen' = gen /\ SetStatus(r, "empty") /\ ref[r].at \in {"restore", "snapshot"}
    BY <1>3 DEF JobFails
  <2>2. ref[r].pool \in Pools /\ poolStatus \in [Pools -> PoolStatuses]
    BY <2>1 DEF RefInv, RefreshTypes, WorksOnPool, Working
  <2>3. OthersStay(r)
    BY <1>3, RefreshMoves DEF Rests
  <2>4. /\ \A p \in Pools : poolStatus'[p] = "refreshing" => poolStatus[p] = "refreshing"
        /\ ref[r].obj = gen => poolStatus'[ref[r].pool] # "refreshing"
    BY <2>1, <2>2 DEF SetStatus
  <2> QED
    BY <2>1, <2>3, <2>4, NothingLeftMarked
<1>4. CASE Activate(r)
  <2>1. gen' = gen /\ MakeActive(r, ref[r].elem) /\ ref[r].at = "activate"
    BY <1>4 DEF Activate, At
  <2>2. ref[r].at \in Working /\ ref[r].at \in Marking
    BY <2>1 DEF Working, Marking
  <2>3. ref[r].obj = gen => ref[r].elem = gen
    <3>1. ref[r].obj <= ref[r].elem /\ ref[r].elem <= gen
      BY <2>2 DEF RefInv, KnownGens
    <3>2. ref[r].elem \in Nat /\ ref[r].obj \in Nat /\ gen \in Nat
      BY RefType DEF RefInv, RefreshTypes
    <3> QED
      BY <3>1, <3>2
  <2>4. OthersStay(r)
    BY <1>4, RefreshMoves DEF Rests, Carries
  <2>5. /\ \A p \in Pools : poolStatus'[p] = "refreshing" => poolStatus[p] = "refreshing"
        /\ ref[r].obj = gen => poolStatus'[ref[r].pool] # "refreshing"
    BY <2>1, <2>2, <2>3, ActiveNotMarked
  <2> QED
    BY <2>1, <2>4, <2>5, NothingLeftMarked
<1> QED
  BY <1>1, <1>2, <1>3, <1>4 DEF RefreshStep

LEMMA PrepareStepMarks ==
  ASSUME RefInv, MarkedHeld, NEW t \in Ticks, PrepareStep(t)
  PROVE  MarkedHeld'
<1>1. t \in Refreshers
  BY PrepareMoves
<1>2. CASE CheckClones(t) \/ DestroySnapshot(t) \/ CleanUpControlContainers(t)
  <2>1. gen' = gen /\ poolStatus' = poolStatus
    BY <1>2 DEF CheckClones, DestroySnapshot, CleanUpControlContainers, poolVars
  <2>2. ref' = ref \/ (OthersStay(t) /\ ref[t].at \notin Marking)
    BY <1>2, PrepareMoves DEF Rests, Carries, Marking
  <2> QED
    BY <1>1, <2>1, <2>2, NothingLeftMarked, NothingMarked
<1>3. CASE ActivateAgain(t)
  <2>1. gen' = gen /\ MakeActive(t, ref[t].obj)
    BY <1>3 DEF ActivateAgain
  <2>2. ref[t].at = "activate again" /\ OthersStay(t)
    BY <1>3, PrepareMoves DEF Rests
  <2>3. ref[t].at \in Working /\ ref[t].at \notin Marking
    BY <2>2 DEF Working, Marking
  <2>4. \A p \in Pools : poolStatus'[p] = "refreshing" => poolStatus[p] = "refreshing"
    BY <1>1, <2>1, <2>3, ActiveNotMarked
  <2> QED
    BY <1>1, <2>1, <2>2, <2>3, <2>4, NothingLeftMarked
<1> QED
  BY <1>2, <1>3 DEF PrepareStep

\* A list that is built anew has no pool marked as refreshing.
LEMMA ReloadMarks ==
  ASSUME RefInv, Reload \/ Restart
  PROVE  MarkedHeld'
<1>1. ReloadPools
  BY DEF Reload, Restart
<1>2. \A p \in Pools : poolStatus'[p] # "refreshing"
  BY <1>1 DEF ReloadPools
<1> QED
  BY <1>2 DEF MarkedHeld

LEMMA StepMarks ==
  ASSUME RefInv, MarkedHeld, [Next]_refreshVars
  PROVE  MarkedHeld'
<1>1. CASE UNCHANGED refreshVars
  BY <1>1, NothingMarked DEF refreshVars, poolVars
<1>2. CASE Run
  <2>1. gen' = gen /\ poolStatus' = poolStatus
    BY <1>2 DEF Run, poolVars
  <2>2. Main \in Refreshers /\ OthersStay(Main) /\ ref[Main].at \notin Marking
    BY <1>2, RunMoves DEF Rests, Marking
  <2> QED
    BY <2>1, <2>2, NothingLeftMarked
<1>3. ASSUME NEW t \in Ticks, FullRefresh(t)
      PROVE  MarkedHeld'
  <2>1. gen' = gen /\ poolStatus' = poolStatus
    BY <1>3 DEF FullRefresh, poolVars
  <2>2. t \in Refreshers /\ (ref' = ref \/ (OthersStay(t) /\ ref[t].at \notin Marking))
    BY <1>3, FullRefreshMoves DEF Marking
  <2> QED
    BY <2>1, <2>2, NothingLeftMarked, NothingMarked
<1>4. ASSUME NEW c \in Clones, ClientStep(c)
      PROVE  MarkedHeld'
  BY <1>4, NothingMarked DEF ClientStep, ChooseSnapshot, CreateClone, StartContainer, DestroyClone,
                             poolVars
<1> QED
  BY <1>1, <1>2, <1>3, <1>4, RefreshStepMarks, PrepareStepMarks, ReloadMarks DEF Next

-----------------------------------------------------------------------------
(* Refreshes that neither fail, are disturbed nor overlap *)

Quiet == ~ failed /\ ~ disturbed /\ overlapped = {}

Active(r) == ref[r].at \in Working \cup {"start"}
Alone == \A r, s \in Refreshers : Active(r) /\ Active(s) => r = s
CurrentObjects == \A r \in Refreshers : ref[r].at \in Working => ref[r].obj = gen

\* Between the restore and the change of the list, the newest data is in the
\* refresher's pool; after it and at any other time, at the head of the list.
Restored == {"snapshot", "activate"}
Newer(r) == ref[r].at \in Restored \cup {"activate again"}
RefresherNewest ==
  \A r \in Refreshers : Newer(r) => \A p \in Pools : marker[p] <= marker[ref[r].pool]
HeadNewest ==
  (\A r \in Refreshers : ref[r].at \notin Restored) => \A p \in Pools : marker[p] <= marker[Head(order)]

Orderly == Quiet => Alone /\ CurrentObjects /\ RefresherNewest /\ HeadNewest

\* The refresher at work goes on, with the data and the list as they are.
LEMMA OrderlyMove ==
  ASSUME Orderly, Quiet, NEW r \in Refreshers, Active(r), OthersStay(r),
         gen' = gen, marker' = marker, order' = order,
         ref'[r].at \in Working => ref'[r].obj = gen,
         Newer(r)' => Newer(r) /\ ref'[r].pool = ref[r].pool,
         ref[r].at \in Restored => ref'[r].at \in Restored
  PROVE  Orderly'
<1>1. Alone /\ CurrentObjects /\ RefresherNewest /\ HeadNewest
  BY DEF Orderly
<1>2. \A q \in Refreshers : q = r \/ (ref'[q] = ref[q] /\ ~ Active(q))
  BY <1>1 DEF OthersStay, Alone
<1>3. \A q \in Refreshers : q = r \/ ~ Active(q)'
  BY <1>2 DEF Active
<1>4. Alone'
  BY <1>3 DEF Alone
<1>5. CurrentObjects'
  BY <1>1, <1>2 DEF CurrentObjects, Active
<1>6. RefresherNewest'
  BY <1>1, <1>2 DEF RefresherNewest, Newer, Active
<1>7. HeadNewest'
  BY <1>1, <1>2 DEF HeadNewest
<1> QED
  BY <1>4, <1>5, <1>6, <1>7 DEF Orderly

\* The refresher's pool comes to the head of the list.
LEMMA OrderlyActivate ==
  ASSUME Orderly, Quiet, NEW r \in Refreshers, Newer(r), OthersStay(r),
         gen' = gen, marker' = marker, Head(order') = ref[r].pool,
         \/ ref'[r].at \in {"idle", "ended"}
         \/ ref'[r].at = "activate again" /\ ref'[r].pool = ref[r].pool /\ ref'[r].obj = ref[r].obj
  PROVE  Orderly'
<1>1. Alone /\ CurrentObjects /\ RefresherNewest
  BY DEF Orderly
<1>2. ref[r].at \in Working
  BY DEF Newer, Restored, Working
<1>3. \A q \in Refreshers : q = r \/ (ref'[q] = ref[q] /\ ~ Active(q))
  BY <1>1, <1>2 DEF OthersStay, Alone, Active
<1>4. \A p \in Pools : marker[p] <= marker[ref[r].pool]
  BY <1>1 DEF RefresherNewest
<1>5. \A q \in Refreshers : q = r \/ ~ Active(q)'
  BY <1>3 DEF Active
<1>6. Alone'
  BY <1>5 DEF Alone
<1>7. CurrentObjects'
  <2> SUFFICES ASSUME NEW q \in Refreshers, ref'[q].at \in Working
               PROVE  ref'[q].obj = gen
    BY DEF CurrentObjects
  <2>1. q = r
    BY <1>3 DEF Active
  <2>2. "idle" \notin Working /\ "ended" \notin Working
    BY DEF Working, Preparing
  <2> QED
    BY <1>1, <1>2, <2>1, <2>2 DEF CurrentObjects
<1>8. RefresherNewest'
  <2> SUFFICES ASSUME NEW q \in Refreshers, ref'[q].at \in Restored \cup {"activate again"}
               PROVE  \A p \in Pools : marker[p] <= marker[ref'[q].pool]
    BY DEF RefresherNewest, Newer
  <2>1. Restored \cup {"activate again"} \subseteq Working
    BY DEF Restored, Working
  <2>2. q = r
    BY <1>3, <2>1 DEF Active
  <2>3. ref'[r].pool = ref[r].pool
    BY <2>2 DEF Restored
  <2> QED
    BY <1>4, <2>2, <2>3
<1>9. HeadNewest'
  BY <1>4 DEF HeadNewest
<1> QED
  BY <1>6, <1>7, <1>8, <1>9 DEF Orderly

LEMMA OrderlyStays ==
  ASSUME Orderly, ref' = ref, gen' = gen, marker' = marker, order' = order, Quiet' => Quiet
  PROVE  Orderly'
BY DEF Orderly, Alone, CurrentObjects, RefresherNewest, HeadNewest, Active, Newer

LEMMA RunOrderly ==
  ASSUME RefInv, Orderly, Run
  PROVE  Orderly'
<1> SUFFICES ASSUME Quiet'
             PROVE  Orderly'
  BY DEF Orderly
<1>1. Quiet /\ gen' = gen /\ marker' = marker /\ order' = order
  BY DEF Run, Quiet, history, poolVars, diskVars
<1>2. Main \in Refreshers /\ OthersStay(Main) /\ Active(Main) /\ ref[Main].at \notin Restored
  BY RunMoves DEF Rests, Active, Restored
<1>3. \/ ref'[Main].at \in {"idle", "ended"}
      \/ ref'[Main].at = "run" /\ ref'[Main].obj = gen
  BY RunMoves DEF Rests
<1>4. ref'[Main].at \in Working => ref'[Main].obj = gen
  BY <1>3 DEF Working, Preparing
<1>5. ~ Newer(Main)'
  BY <1>3 DEF Newer, Restored
<1> QED
  BY <1>1, <1>2, <1>4, <1>5, OrderlyMove

\* Cron fires while nobody is at work, or the refreshes overlap.
LEMMA FullRefreshOrderly ==
  ASSUME RefInv, Orderly, NEW t \in Ticks, FullRefresh(t)
  PROVE  Orderly'
<1> SUFFICES ASSUME Quiet'
             PROVE  Orderly'
  BY DEF Orderly
<1>1. gen' = gen /\ marker' = marker /\ order' = order /\ failed' = failed /\ disturbed' = disturbed
  BY DEF FullRefresh, poolVars, diskVars
<1>2. overlapped = {} /\ \A r \in Refreshers : ~ Active(r)
  BY DEF FullRefresh, Quiet, Active
<1>3. Quiet /\ Alone /\ CurrentObjects /\ RefresherNewest /\ HeadNewest
  BY <1>1, <1>2 DEF Quiet, Orderly
<1>4. t \in Refreshers /\ (ref' = ref \/ (ref'[t].at = "prepare" /\ ref'[t].obj = gen /\ OthersStay(t)))
  BY FullRefreshMoves
<1>5. CASE ref' = ref
  BY <1>1, <1>3, <1>5, OrderlyStays
<1>6. CASE ref'[t].at = "prepare" /\ ref'[t].obj = gen /\ OthersStay(t)
  <2>1. \A q \in Refreshers : q = t \/ (ref'[q] = ref[q] /\ ~ Active(q)')
    BY <1>2, <1>6 DEF OthersStay, Active
  <2>2. Alone'
    BY <2>1 DEF Alone
  <2>3. CurrentObjects'
    BY <1>1, <1>6, <2>1 DEF CurrentObjects, Active
  <2>4. RefresherNewest'
    <3>1. \A q \in Refreshers : ~ Newer(q)'
      BY <1>6, <2>1 DEF Newer, Restored, Active, Working
    <3> QED
      BY <3>1 DEF RefresherNewest
  <2>5. HeadNewest'
    <3>1. \A q \in Refreshers : ref[q].at \notin Restored
      BY <1>2 DEF Active, Restored, Working
    <3> QED
      BY <1>1, <1>3, <3>1 DEF HeadNewest
  <2> QED
    BY <2>2, <2>3, <2>4, <2>5 DEF Orderly
<1> QED
  BY <1>4, <1>5, <1>6

LEMMA PrepareOrderly ==
  ASSUME RefInv, Orderly, NEW t \in Ticks, PrepareStep(t)
  PROVE  Orderly'
<1> SUFFICES ASSUME Quiet'
             PROVE  Orderly'
  BY DEF Orderly
<1>1. gen' = gen /\ marker' = marker /\ disturbed' = disturbed /\ overlapped' = overlapped
  BY DEF PrepareStep, CheckClones, DestroySnapshot, CleanUpControlContainers, ActivateAgain,
         poolVars, diskVars, history, timing
<1>2. failed => failed'
  BY DEF PrepareStep, CheckClones, DestroySnapshot, CleanUpControlContainers, ActivateAgain, history
<1>3. Quiet
  BY <1>1, <1>2 DEF Quiet
<1>4. t \in Refreshers
  BY PrepareMoves
<1>5. CASE ActivateAgain(t)
  <2>1. MakeActive(t, ref[t].obj)
    BY <1>5 DEF ActivateAgain
  <2>2. ref[t].at = "activate again" /\ Rests(t)
    BY <1>5, PrepareMoves
  <2>3. ref[t].at \in Working /\ Newer(t)
    BY <2>2 DEF Working, Newer
  <2>4. ref[t].pool \in Pools /\ ref[t].obj = gen
    BY <1>3, <1>4, <2>3 DEF RefInv, WorksOnPool, Orderly, CurrentObjects
  <2>5. Head(order') = ref[t].pool
    BY <1>4, <2>1, <2>4, MadeActive
  <2> QED
    BY <1>1, <1>3, <1>4, <2>2, <2>3, <2>5, OrderlyActivate DEF Rests
<1>6. CASE CheckClones(t) \/ DestroySnapshot(t) \/ CleanUpControlContainers(t)
  <2>1. order' = order
    BY <1>6 DEF CheckClones, DestroySnapshot, CleanUpControlContainers, poolVars
  <2>2. /\ ref[t].at \in {"prepare", "destroy"}
        /\ Rests(t) \/ Carries(t, "destroy") \/ Carries(t, "run") \/ ref' = ref
    BY <1>6, PrepareMoves
  <2>3. CASE ref' = ref
    BY <1>1, <1>3, <2>1, <2>3, OrderlyStays
  <2>4. CASE Rests(t) \/ Carries(t, "destroy") \/ Carries(t, "run")
    <3>1. ref[t].at \in Working /\ Active(t) /\ ref[t].at \notin Restored
      BY <2>2 DEF Active, Working, Preparing, Restored
    <3>2. ref[t].obj = gen
      BY <1>3, <1>4, <3>1 DEF Orderly, CurrentObjects
    <3>3. ref'[t].at \in {"idle", "ended", "destroy", "run"} /\ OthersStay(t)
      BY <2>4 DEF Rests, Carries
    <3>4. ~ Newer(t)'
      BY <3>3 DEF Newer, Restored
    <3>5. ref'[t].at \in Working => ref'[t].obj = gen
      BY <2>4, <3>2 DEF Rests, Carries, Working, Preparing
    <3> QED
      BY <1>1, <1>3, <1>4, <2>1, <3>1, <3>3, <3>4, <3>5, OrderlyMove
  <2> QED
    BY <2>2, <2>3, <2>4
<1> QED
  BY <1>5, <1>6 DEF PrepareStep

\* The newest data ever is in the refresher's pool.
LEMMA RestoreOrderly ==
  ASSUME RefInv, Orderly, Quiet, NEW r \in Refreshers, Restore(r)
  PROVE  Orderly'
<1>1. gen' = gen /\ marker' = [marker EXCEPT ![ref[r].pool] = latest + 1]
  BY DEF Restore, poolVars
<1>2. ref[r].at = "restore" /\ Carries(r, "snapshot")
  BY RefreshMoves
<1>3. Alone /\ CurrentObjects
  BY DEF Orderly
<1>4. ref[r].at \in Working
  BY <1>2 DEF Working
<1>5. \A q \in Refreshers : q = r \/ (ref'[q] = ref[q] /\ ~ Active(q)')
  BY <1>2, <1>3, <1>4 DEF Carries, OthersStay, Alone, Active
<1>6. Alone'
  BY <1>5 DEF Alone
<1>7. CurrentObjects'
  BY <1>1, <1>2, <1>3, <1>4, <1>5 DEF CurrentObjects, Active, Carries
<1>8. RefresherNewest'
  <2>1. \A q \in Refreshers : Newer(q)' => q = r
    BY <1>5 DEF Newer, Restored, Active, Working
  <2>2. latest \in Nat /\ marker \in [Pools -> 0 .. latest] /\ ref[r].pool \in Pools
    BY <1>4 DEF RefInv, RefreshTypes, WorksOnPool
  <2>3. marker'[ref[r].pool] = latest + 1
    BY <1>1, <2>2
  <2>4. \A p \in Pools : marker'[p] <= latest + 1
    <3> TAKE p \in Pools
    <3>1. marker[p] \in 0 .. latest
      BY <2>2
    <3>2. marker'[p] = marker[p] \/ marker'[p] = latest + 1
      BY <1>1, <2>2
    <3> QED
      BY <2>2, <3>1, <3>2
  <2>5. ref'[r].pool = ref[r].pool
    BY <1>2 DEF Carries
  <2> QED
    BY <2>1, <2>3, <2>4, <2>5 DEF RefresherNewest
<1>9. HeadNewest'
  BY <1>2 DEF HeadNewest, Restored, Carries
<1> QED
  BY <1>6, <1>7, <1>8, <1>9 DEF Orderly

LEMMA RefreshStepOrderly ==
  ASSUME RefInv, Orderly, NEW r \in Refreshers, RefreshStep(r)
  PROVE  Orderly'
<1> SUFFICES ASSUME Quiet'
             PROVE  Orderly'
  BY DEF Orderly
<1>1. gen' = gen /\ disturbed' = disturbed /\ overlapped' = overlapped
  BY DEF RefreshStep, BeginRun, Lock, JobFails, Restore, TakeSnapshot, Activate,
         poolVars, history, timing
<1>2. failed => failed'
  BY DEF RefreshStep, BeginRun, Lock, JobFails, Restore, TakeSnapshot, Activate, history
<1>3. Quiet
  BY <1>1, <1>2 DEF Quiet
<1>4. ASSUME ref[r].at \in Working
      PROVE  ref[r].obj = gen
  BY <1>3, <1>4 DEF Orderly, CurrentObjects
<1>5. CASE JobFails(r)
  BY <1>5 DEF JobFails, Quiet
<1>6. CASE Restore(r)
  BY <1>3, <1>6, RestoreOrderly
<1>7. CASE BeginRun(r)
  <2>1. marker' = marker /\ order' = order
    BY <1>7 DEF BeginRun, diskVars
  <2>2. ref[r].at = "run" /\ (Rests(r) \/ Carries(r, "lock"))
    BY <1>7, BeginRunMoves
  <2>3. ref[r].at \in Working /\ Active(r) /\ ref[r].at \notin Restored
    BY <2>2 DEF Active, Working, Preparing, Restored
  <2>4. ref'[r].at \in {"idle", "ended", "lock"} /\ OthersStay(r)
    BY <2>2 DEF Rests, Carries
  <2>5. ~ Newer(r)'
    BY <2>4 DEF Newer, Restored
  <2>6. ref'[r].at \in Working => ref'[r].obj = gen
    BY <1>4, <2>2, <2>3 DEF Rests, Carries, Working, Preparing
  <2> QED
    BY <1>1, <1>3, <2>1, <2>3, <2>4, <2>5, <2>6, OrderlyMove
<1>8. CASE Lock(r)
  <2>1. marker' = marker /\ order' = order
    BY <1>8 DEF Lock, diskVars, poolVars
  <2>2. ref[r].at = "lock" /\ Carries(r, "restore")
    BY <1>8, RefreshMoves
  <2>3. ref[r].at \in Working /\ Active(r) /\ ref[r].at \notin Restored
    BY <2>2 DEF Active, Working, Preparing, Restored
  <2>4. OthersStay(r) /\ ~ Newer(r)'
    BY <2>2 DEF Carries, Newer, Restored
  <2>5. ref'[r].obj = gen
    BY <1>4, <2>2, <2>3 DEF Carries
  <2> QED
    BY <1>1, <1>3, <2>1, <2>3, <2>4, <2>5, OrderlyMove
<1>9. CASE TakeSnapshot(r)
  <2>1. marker' = marker /\ order' = order
    BY <1>9 DEF TakeSnapshot, poolVars
  <2>2. ref[r].at = "snapshot" /\ Carries(r, "activate")
    BY <1>9, RefreshMoves
  <2>3. ref[r].at \in Working /\ Active(r) /\ Newer(r)
    BY <2>2 DEF Active, Working, Newer, Restored
  <2>4. OthersStay(r) /\ ref'[r].at \in Restored /\ ref'[r].pool = ref[r].pool
    BY <2>2 DEF Carries, Restored
  <2>5. ref'[r].obj = gen
    BY <1>4, <2>2, <2>3 DEF Carries
  <2> QED
    BY <1>1, <1>3, <2>1, <2>3, <2>4, <2>5, OrderlyMove
<1>10. CASE Activate(r)
  <2>1. marker' = marker /\ MakeActive(r, ref[r].elem)
    BY <1>10 DEF Activate, diskVars
  <2>2. ref[r].at = "activate" /\ (Rests(r) \/ Carries(r, "activate again"))
    BY <1>10, RefreshMoves
  <2>3. ref[r].at \in Working /\ ref[r].at \in Marking /\ Newer(r)
    BY <2>2 DEF Working, Marking, Newer, Restored
  <2>4. ref[r].pool \in Pools /\ ref[r].elem = gen
    <3>1. ref[r].pool \in Pools /\ ref[r].obj <= ref[r].elem /\ ref[r].elem <= gen
      BY <2>3 DEF RefInv, WorksOnPool, KnownGens
    <3>2. ref[r].elem \in Nat /\ gen \in Nat /\ ref[r].obj = gen
      BY <1>4, <2>3, RefType DEF RefInv, RefreshTypes
    <3> QED
      BY <3>1, <3>2
  <2>5. Head(order') = ref[r].pool
    BY <2>1, <2>4, MadeActive
  <2> QED
    BY <1>1, <1>3, <2>1, <2>2, <2>3, <2>5, OrderlyActivate DEF Rests, Carries
<1> QED
  BY <1>5, <1>6, <1>7, <1>8, <1>9, <1>10 DEF RefreshStep

\* A new list begins with the newest data, when nobody is at work.
LEMMA NewListOrderly ==
  ASSUME RefInv, ReloadPools, marker' = marker, \A r \in Refreshers : ref'[r].at \notin Working,
         Alone'
  PROVE  Orderly'
<1>1. gen \in Nat /\ latest \in Nat /\ marker \in [Pools -> 0 .. latest]
  BY DEF RefInv, RefreshTypes
<1>2. marker \in [Pools -> Nat]
  <2>1. 0 .. latest \subseteq Nat
    BY <1>1
  <2> QED
    BY <1>1, <2>1
<1>3. \A p \in Pools : marker[p] <= marker[Head(order')]
  BY <1>1, <1>2, Reloaded
<1>4. HeadNewest'
  BY <1>3 DEF HeadNewest
<1>5. RefresherNewest' /\ CurrentObjects'
  <2>1. Restored \cup {"activate again"} \subseteq Working
    BY DEF Restored, Working
  <2> QED
    BY <2>1 DEF RefresherNewest, CurrentObjects, Newer
<1> QED
  BY <1>4, <1>5 DEF Orderly

LEMMA ReloadOrderly ==
  ASSUME RefInv, Orderly, Reload \/ Restart
  PROVE  Orderly'
<1> SUFFICES ASSUME Quiet'
             PROVE  Orderly'
  BY DEF Orderly
<1>1. marker' = marker /\ ReloadPools
  BY DEF Reload, Restart, diskVars
<1>2. CASE Reload
  <2>1. ref' = ref /\ failed' = failed /\ overlapped' = overlapped /\ disturbed' = (disturbed \/ Busy)
    BY <1>2 DEF Reload
  <2>2. ~ disturbed /\ ~ Busy
    BY <2>1 DEF Quiet
  <2>3. Quiet
    BY <2>1, <2>2 DEF Quiet
  <2>4. Alone'
    BY <2>1, <2>3 DEF Orderly, Alone, Active
  <2>5. \A r \in Refreshers : ref'[r].at \notin Working
    BY <2>1, <2>2 DEF Busy
  <2> QED
    BY <1>1, <2>4, <2>5, NewListOrderly
<1>3. CASE Restart
  <2>1. ref' = [r \in Refreshers |-> IF r = Main THEN [AtRest EXCEPT !.at = "start"] ELSE AtRest]
    BY <1>3 DEF Restart
  <2>2. /\ \A r \in Refreshers : ref'[r].at = (IF r = Main THEN "start" ELSE "idle")
        /\ \A r \in Refreshers : ref'[r].at \notin Working
    BY <2>1, Fresh
  <2>3. Alone'
    BY <2>2 DEF Alone, Active
  <2> QED
    BY <1>1, <2>2, <2>3, NewListOrderly
<1> QED
  BY <1>2, <1>3

LEMMA StepOrderly ==
  ASSUME RefInv, Orderly, [Next]_refreshVars
  PROVE  Orderly'
<1>1. CASE UNCHANGED refreshVars
  BY <1>1, OrderlyStays DEF refreshVars, poolVars, diskVars, history, Quiet
<1>2. ASSUME NEW c \in Clones, ClientStep(c)
      PROVE  Orderly'
  <2>1. UNCHANGED <<order, gen, marker, ref, failed, disturbed, overlapped>>
    BY <1>2 DEF ClientStep, ChooseSnapshot, CreateClone, StartContainer, DestroyClone,
                poolVars, diskVars, history
  <2> QED
    BY <2>1, OrderlyStays DEF Quiet
<1> QED
  BY <1>1, <1>2, RunOrderly, FullRefreshOrderly, PrepareOrderly, RefreshStepOrderly, ReloadOrderly
     DEF Next

-----------------------------------------------------------------------------
(* Theorems *)

PoolInv == RefInv /\ VersionsSuffice /\ ClonesHold /\ MarkedHeld /\ Orderly

LEMMA InitPool ==
  ASSUME Init
  PROVE  PoolInv
<1>1. RefInv /\ VersionsSuffice
  BY InitTypes, InitVersions
<1>2. ClonesHold
  BY DEF Init, ClonesHold, NoClone
<1>3. MarkedHeld
  BY DEF Init, MarkedHeld
<1>4. Orderly
  <2>1. ref = [r \in Refreshers |-> IF r = Main THEN [AtRest EXCEPT !.at = "start"] ELSE AtRest]
    BY DEF Init
  <2>2. /\ \A r \in Refreshers : ref[r].at = (IF r = Main THEN "start" ELSE "idle")
        /\ \A r \in Refreshers : ref[r].at \notin Working
    BY <2>1, Fresh
  <2>3. Alone
    BY <2>2 DEF Alone, Active
  <2>4. CurrentObjects /\ RefresherNewest
    BY <2>2 DEF CurrentObjects, RefresherNewest, Newer, Restored
  <2>5. latest \in Nat /\ marker \in [Pools -> 0 .. latest]
    BY <1>1 DEF RefInv, RefreshTypes
  <2>6. marker \in [Pools -> Nat]
    <3>1. 0 .. latest \subseteq Nat
      BY <2>5
    <3> QED
      BY <2>5, <3>1
  <2>7. HeadNewest
    <3>1. order = Discovered
      BY DEF Init
    <3> QED
      BY <2>6, <3>1, DiscoveredNewest DEF HeadNewest
  <2> QED
    BY <2>3, <2>4, <2>7 DEF Orderly
<1> QED
  BY <1>1, <1>2, <1>3, <1>4 DEF PoolInv

LEMMA PoolInvariant == RefreshSpec => []PoolInv
<1>1. Init => PoolInv
  BY InitPool
<1>2. PoolInv /\ [Next]_refreshVars => PoolInv'
  BY StepTypes, StepVersions, StepClones, StepMarks, StepOrderly DEF PoolInv
<1> QED
  BY <1>1, <1>2, PTL DEF RefreshSpec

\* The variables have their types, and the data its bound: the newest data never
\* exceeds the versions that the bounds of ticks and reloads allow.
THEOREM PoolTypes == RefreshSpec => []PoolRefreshTypeOK
<1>1. PoolInv => PoolRefreshTypeOK
  <2> SUFFICES ASSUME PoolInv
               PROVE  PoolRefreshTypeOK
    OBVIOUS
  <2> DEFINE top == MaxScheduled + MaxReloads + Cardinality(Ticks) + 1
  <2>1. latest \in 0 .. top /\ top \in Nat
    <3>1. PICK A, C, D, G, L : /\ A = Cardinality(Ahead) /\ C = Cardinality(Ticks)
                               /\ D = MaxScheduled /\ G = gen /\ L = latest
      OBVIOUS
    <3>2. Ahead \subseteq Refreshers
      BY DEF Ahead
    <3>3. A \in Nat /\ C \in Nat /\ D \in Nat
      BY <3>1, <3>2, SomeAhead, Numbers
    <3>4. G \in 0 .. MaxReloads /\ L \in Nat /\ MaxReloads \in Nat
      BY <3>1, PoolRefreshAssumption DEF PoolInv, RefInv, RefreshTypes
    <3>5. L + A <= D + C + G + 1
      BY <3>1 DEF PoolInv, VersionsSuffice
    <3>6. L <= D + MaxReloads + C + 1 /\ D + MaxReloads + C + 1 \in Nat
      BY <3>3, <3>4, <3>5
    <3> QED
      BY <3>1, <3>4, <3>6
  <2>2. Versions = 1 .. top
    BY DEF Versions
  <2> HIDE DEF top
  <2>3. 1 .. latest \subseteq Versions /\ 0 .. latest \subseteq Versions \cup {0}
    BY <2>1, <2>2
  <2>4. latest \in Versions \cup {0}
    BY <2>1, <2>2
  <2>5. CloneRecords(latest) \subseteq
          [at : {"none", "chosen", "dataset", "running"},
           pool : Pools \cup {None}, snap : Versions \cup {0}]
    BY <2>3 DEF CloneRecords
  <2>6. marker \in [Pools -> 0 .. latest] /\ snaps \in [Pools -> SUBSET (1 .. latest)]
        /\ clone \in [Clones -> CloneRecords(latest)]
    BY DEF PoolInv, RefInv, RefreshTypes
  <2>7. marker \in [Pools -> Versions \cup {0}]
    BY <2>3, <2>6
  <2>8. snaps \in [Pools -> SUBSET Versions]
    BY <2>3, <2>6
  <2>9. clone \in [Clones -> [at : {"none", "chosen", "dataset", "running"},
                              pool : Pools \cup {None}, snap : Versions \cup {0}]]
    BY <2>5, <2>6
  <2>10. gen \in Nat
    BY DEF PoolInv, RefInv, RefreshTypes
  <2>11. /\ order \in Seq(Pools) /\ ToSet(order) = Pools /\ Len(order) = Cardinality(Pools)
    BY DEF PoolInv, RefInv, RefreshTypes, Lists
  <2>12. /\ poolStatus \in [Pools -> PoolStatuses]
         /\ retrieval \in RetrievalStatuses
         /\ lock \in Refreshers \cup {None} /\ ctx \in Refreshers \cup {None}
         /\ scheduled \in BOOLEAN
         /\ failed \in BOOLEAN /\ disturbed \in BOOLEAN /\ overlapped \subseteq {"preparing", "finishing"}
    BY DEF PoolInv, RefInv, RefreshTypes
  <2>13. ref \in [Refreshers -> [at : Working \cup {"start", "idle", "ended"},
                                 pool : Pools \cup {None}, obj : Nat, elem : Nat]]
    BY DEF PoolInv, RefInv, RefreshTypes, RefRecords
  <2> QED
    BY <2>4, <2>7, <2>8, <2>9, <2>10, <2>11, <2>12, <2>13 DEF PoolRefreshTypeOK
<1> QED
  BY <1>1, PoolInvariant, PTL

\* A refresh destroys snapshots with the datasets on them, whatever the clients
\* do between its check of the clones and `zfs destroy -R`: never the snapshot
\* of a running clone.
THEOREM RunningClonesKeepSnapshots == RefreshSpec => []ClonesKeepSnapshot
<1>1. PoolInv => ClonesKeepSnapshot
  BY DEF PoolInv, ClonesHold, ClonesKeepSnapshot
<1> QED
  BY <1>1, PoolInvariant, PTL

\* When every refresher is done, no pool is marked as refreshing: each way out
\* of run sets the status of the object it marked or the list was rebuilt.
THEOREM StatusesSettle == RefreshSpec => []StatusSettles
<1>1. PoolInv => StatusSettles
  BY DEF PoolInv, MarkedHeld, Marks, Marking, StatusSettles
<1> QED
  BY <1>1, PoolInvariant, PTL

\* The head of the list has the newest data when no refresher is at work and none
\* failed, was disturbed by a reload or overlapped with another.
THEOREM HeadHasNewest == RefreshSpec => []FrontIsNewest
<1>1. PoolInv => FrontIsNewest
  <2>1. Restored \subseteq Working
    BY DEF Restored, Working
  <2> QED
    BY <2>1 DEF PoolInv, Orderly, Quiet, HeadNewest, Busy, FrontIsNewest
<1> QED
  BY <1>1, PoolInvariant, PTL

-----------------------------------------------------------------------------
(* Somewhere to create clones *)

\* No pool is in a list twice.
LEMMA NoPoolTwice ==
  ASSUME NEW list \in Lists, NEW i \in DOMAIN list, NEW j \in DOMAIN list, list[i] = list[j]
  PROVE  i = j
<1> DEFINE n == Len(list)
<1>1. /\ DOMAIN list = 1 .. n /\ n \in Nat
      /\ \A k \in DOMAIN list : list[k] \in Pools
      /\ \A p \in Pools : \E k \in DOMAIN list : list[k] = p
  BY ListType
<1>2. n = Cardinality(Pools) /\ list \in Seq(Pools)
  BY DEF Lists
<1>3. list \in Surjection(1 .. n, Pools)
  <2>1. list \in [1 .. n -> Pools]
    BY <1>1, <1>2
  <2> HIDE DEF n
  <2> QED
    BY <1>1, <2>1 DEF Surjection
<1> HIDE DEF n
<1>4. IsFiniteSet(1 .. n) /\ Cardinality(1 .. n) = n
  <2>1. IsFiniteSet(1 .. n) /\ Cardinality(1 .. n) = IF 1 > n THEN 0 ELSE n - 1 + 1
    BY <1>1, FS_Interval
  <2> QED
    BY <1>1, <2>1
<1>5. list \in Injection(1 .. n, Pools)
  BY <1>2, <1>3, <1>4, FS_SurjSameCardinalityImpliesInj
<1> QED
  BY <1>1, <1>5 DEF Injection, IsInjective

\* The pool to update has no clones, and every pool behind it has some.
LEMMA UpdatedPoolIsLast ==
  ASSUME order \in Lists, NEW p \in Pools, PoolToUpdate = p
  PROVE  /\ ClonesIn(p) = {}
         /\ \E i \in DOMAIN order :
              order[i] = p /\ \A j \in DOMAIN order : j > i => ClonesIn(order[j]) # {}
<1> DEFINE unused == {i \in DOMAIN order : ClonesIn(order[i]) = {}}
<1>1. unused # {}
  BY PoolRefreshAssumption DEF PoolToUpdate
<1>2. DOMAIN order = 1 .. Len(order) /\ Len(order) \in Nat
  BY ListType
<1>3. PoolToUpdate = order[Max(unused)]
  BY <1>1 DEF PoolToUpdate
<1>4. unused \subseteq 1 .. Len(order)
  BY <1>2
<1>5. \A j \in DOMAIN order : j \notin unused => ClonesIn(order[j]) # {}
  OBVIOUS
<1>6. \A j \in unused : j \in DOMAIN order /\ ClonesIn(order[j]) = {}
  OBVIOUS
<1> HIDE DEF unused
<1>7. \A i \in 1 .. Len(order) : i \in Int
  OBVIOUS
<1>8. unused \subseteq Int /\ IsFiniteSet(unused)
  <2>1. unused \subseteq Int
    BY <1>4, <1>7
  <2>2. IsFiniteSet(1 .. Len(order))
    BY <1>2, FS_Interval
  <2> QED
    BY <1>4, <2>1, <2>2, FS_Subset
<1>9. \E x \in unused : \A y \in unused : y <= x
  BY <1>1, <1>8, HasGreatest
<1>10. \E x \in unused : \A y \in unused : x >= y
  BY <1>8, <1>9
<1>11. Max(unused) \in unused /\ \A y \in unused : Max(unused) >= y
  BY <1>10 DEF Max
<1>12. PICK m \in unused : m = Max(unused) /\ \A y \in unused : m >= y
  BY <1>11
<1>13. order[m] = p /\ m \in DOMAIN order /\ ClonesIn(order[m]) = {}
  BY <1>3, <1>6, <1>12
<1>14. \A j \in DOMAIN order : j > m => j \notin unused
  BY <1>2, <1>7, <1>8, <1>12
<1> QED
  BY <1>5, <1>13, <1>14

\* The list depends on the markers only.
LEMMA SameDiscovered ==
  ASSUME marker' = marker
  PROVE  Discovered' = Discovered
BY DEF Discovered, Examined, Examine

\* No refresh failed since it destroyed data, and none began while another was
\* preparing.
Smooth == ~ failed /\ "preparing" \notin overlapped

\* Where the snapshots of a refresher's pool may be gone, and where they are
\* gone or the list is yet to change.
Rebuilding == {"destroy", "run", "lock", "restore", "snapshot"}
Changing == Rebuilding \cup {"activate"}
Occupied == Changing \cup {"prepare"}
Before == {"prepare", "destroy", "run"}

Offers(p) == poolStatus[p] = "active" /\ snaps[p] # {}

\* Before the first refresh of an engine without data.
Blank == \A p \in Pools : marker[p] = 0

MarkedSnaps == \A p \in Pools : snaps[p] # {} => marker[p] # 0

OneOccupied ==
  \A r, s \in Refreshers :
    ref[r].at \in Occupied \cup {"start"} /\ ref[s].at \in Occupied \cup {"start"} => r = s

\* Data without a snapshot is being replaced.
DataKept ==
  \A p \in Pools : marker[p] # 0 /\ snaps[p] = {} =>
    \E r \in Refreshers : ref[r].at \in Rebuilding /\ ref[r].pool = p

ClonesServed ==
  \A c \in Clones : clone[c].at # "none" =>
    marker[clone[c].pool] # 0 /\ poolStatus[clone[c].pool] # "empty"

RefreshedData ==
  \A r \in Refreshers :
    /\ ref[r].at = "activate" => snaps[ref[r].pool] # {}
    /\ ref[r].at = "activate again" => marker[ref[r].pool] # 0

Still == \A r \in Refreshers : ref[r].at \notin Changing
HeadServes ==
  ~ Blank => marker[Head(order)] # 0 /\ (Still => poolStatus[Head(order)] = "active")

\* Without data, Main refreshes the head of the list.
FirstRefresh ==
  Blank => /\ order = Discovered
           /\ \/ ref[Main].at = "start" /\ poolStatus[Head(order)] = "empty"
              \/ ref[Main].at \in {"run", "lock", "restore"} /\ ref[Main].pool = Head(order)

\* A refresher that has not marked its pool leaves another one to the clients.
AnotherServes ==
  ~ Blank => \A r \in Refreshers : ref[r].at \in Before => \E p \in Pools \ {ref[r].pool} : Offers(p)

Served ==
  OneOccupied /\ DataKept /\ ClonesServed /\ RefreshedData /\ HeadServes /\ FirstRefresh /\ AnotherServes

ServeInv == MarkedSnaps /\ (Smooth => Served)

SeveralPools == \E p, q \in Pools : p # q

LEMMA StepMarkedSnaps ==
  ASSUME RefInv, MarkedSnaps, [Next]_refreshVars
  PROVE  MarkedSnaps'
<1>1. CASE UNCHANGED <<marker, snaps>>
  BY <1>1 DEF MarkedSnaps
<1>2. ASSUME NEW t \in Ticks, DestroySnapshot(t)
      PROVE  MarkedSnaps'
  <2>1. marker' = marker /\ snaps \in [Pools -> SUBSET (1 .. latest)]
    BY <1>2 DEF DestroySnapshot, RefInv, RefreshTypes
  <2>2. \A p \in Pools : snaps'[p] \subseteq snaps[p]
    BY <1>2, <2>1 DEF DestroySnapshot
  <2> QED
    BY <2>1, <2>2 DEF MarkedSnaps
<1>3. ASSUME NEW r \in Refreshers, Restore(r)
      PROVE  MarkedSnaps'
  <2>1. /\ snaps' = snaps /\ marker' = [marker EXCEPT ![ref[r].pool] = latest + 1]
        /\ latest \in Nat /\ marker \in [Pools -> 0 .. latest]
    BY <1>3 DEF Restore, RefInv, RefreshTypes
  <2>2. \A p \in Pools : marker[p] # 0 => marker'[p] # 0
    BY <2>1
  <2> QED
    BY <2>1, <2>2 DEF MarkedSnaps
<1>4. ASSUME NEW r \in Refreshers, TakeSnapshot(r)
      PROVE  MarkedSnaps'
  <2>1. /\ marker' = marker /\ snaps' = [snaps EXCEPT ![ref[r].pool] = @ \cup {marker[ref[r].pool]}]
        /\ snaps \in [Pools -> SUBSET (1 .. latest)] /\ ref[r].at = "snapshot"
    BY <1>4 DEF TakeSnapshot, At, RefInv, RefreshTypes
  <2>2. marker[ref[r].pool] # 0
    BY <2>1 DEF RefInv, WorksOnPool
  <2> QED
    BY <2>1, <2>2 DEF MarkedSnaps
<1>5. Run \/ Reload \/ Restart \/ UNCHANGED refreshVars => UNCHANGED <<marker, snaps>>
  BY DEF Run, Reload, Restart, refreshVars, diskVars
<1>6. \A t \in Ticks : FullRefresh(t) \/ CheckClones(t) \/ CleanUpControlContainers(t) \/ ActivateAgain(t)
                         => UNCHANGED <<marker, snaps>>
  BY DEF FullRefresh, CheckClones, CleanUpControlContainers, ActivateAgain, diskVars
<1>7. \A r \in Refreshers : BeginRun(r) \/ Lock(r) \/ JobFails(r) \/ Activate(r)
                              => UNCHANGED <<marker, snaps>>
  BY DEF BeginRun, Lock, JobFails, Activate, diskVars
<1>8. \A c \in Clones : ClientStep(c) => UNCHANGED <<marker, snaps>>
  BY DEF ClientStep, ChooseSnapshot, CreateClone, StartContainer, DestroyClone, diskVars
<1> QED
  BY <1>1, <1>2, <1>3, <1>4, <1>5, <1>6, <1>7, <1>8 DEF Next, RefreshStep, PrepareStep

\* The refresher at work goes on, and nothing that the clients see changes,
\* but that the pool it is about to restore may be marked.
LEMMA ServingMove ==
  ASSUME ClonesHold, Served, NEW r \in Refreshers, OthersStay(r),
         order' = order, marker' = marker, snaps' = snaps, clone' = clone,
         \/ poolStatus' = poolStatus
         \/ ref'[r].at = "lock" /\ \A p \in Pools : poolStatus'[p] = "empty" => poolStatus[p] = "empty",
         ref[r].at \in Occupied, ref'[r].at \notin {"start", "activate", "activate again"},
         ref[r].at \in Rebuilding => ref'[r].at \in Rebuilding /\ ref'[r].pool = ref[r].pool,
         ref'[r].at \in Before => ref[r].at \in Before /\ ref'[r].pool = ref[r].pool,
         ref[r].at \notin {"activate"},
         Blank /\ r = Main => ref'[r].at \in {"run", "lock", "restore"} /\ ref'[r].pool = ref[r].pool
  PROVE  Served'
<1>1. OneOccupied /\ DataKept /\ ClonesServed /\ RefreshedData /\ HeadServes /\ FirstRefresh /\ AnotherServes
  BY DEF Served
<1>2. \A q \in Refreshers : q = r \/ (ref'[q] = ref[q] /\ ref[q].at \notin Occupied \cup {"start"})
  BY <1>1 DEF OneOccupied, OthersStay
<1>3. OneOccupied'
  BY <1>2 DEF OneOccupied
<1>4. DataKept'
  <2> SUFFICES ASSUME NEW p \in Pools, marker[p] # 0, snaps[p] = {}
               PROVE  \E s \in Refreshers : ref'[s].at \in Rebuilding /\ ref'[s].pool = p
    BY DEF DataKept
  <2>1. PICK s \in Refreshers : ref[s].at \in Rebuilding /\ ref[s].pool = p
    BY <1>1 DEF DataKept
  <2> QED
    BY <1>2, <2>1
<1>5. ClonesServed'
  <2> SUFFICES ASSUME NEW c \in Clones, clone[c].at # "none"
               PROVE  marker[clone[c].pool] # 0 /\ poolStatus'[clone[c].pool] # "empty"
    BY DEF ClonesServed
  <2>1. marker[clone[c].pool] # 0 /\ poolStatus[clone[c].pool] # "empty"
    BY <1>1 DEF ClonesServed
  <2>2. clone[c].pool \in Pools
    BY DEF ClonesHold
  <2> QED
    BY <2>1, <2>2
<1>6. RefreshedData'
  BY <1>1, <1>2 DEF RefreshedData
<1>7. HeadServes'
  <2>1. Blank' = Blank
    BY DEF Blank
  <2>2. Still' => poolStatus' = poolStatus /\ Still
    BY <1>2 DEF Still, Changing, Rebuilding, Occupied
  <2> QED
    BY <1>1, <2>1, <2>2 DEF HeadServes
<1>8. FirstRefresh'
  <2> SUFFICES ASSUME Blank'
               PROVE  /\ order' = Discovered'
                      /\ ref'[Main].at \in {"run", "lock", "restore"} /\ ref'[Main].pool = Head(order)
    BY DEF FirstRefresh
  <2>1. Blank /\ order' = Discovered'
    BY <1>1, SameDiscovered DEF Blank, FirstRefresh
  <2>2. Main \in Refreshers
    BY DEF Refreshers
  <2>3. ref[Main].at \in {"run", "lock", "restore", "start"} /\ (ref[Main].at # "start" => ref[Main].pool = Head(order))
    BY <1>1, <2>1 DEF FirstRefresh
  <2>4. ref[Main].at \in Occupied \cup {"start"} /\ "start" \notin Occupied
    BY <2>3 DEF Occupied, Changing, Rebuilding
  <2>5. r = Main
    BY <1>1, <2>2, <2>4 DEF OneOccupied
  <2> QED
    BY <2>1, <2>3, <2>4, <2>5
<1>9. AnotherServes'
  <2> SUFFICES ASSUME ~ Blank, NEW q \in Refreshers, ref'[q].at \in Before
               PROVE  \E p \in Pools \ {ref'[q].pool} : Offers(p)'
    BY DEF AnotherServes, Blank
  <2>1. Before \subseteq Occupied /\ "lock" \notin Before
    BY DEF Before, Occupied, Changing, Rebuilding
  <2>2. q = r
    BY <1>2, <2>1
  <2>3. ref[r].at \in Before /\ ref'[r].pool = ref[r].pool /\ poolStatus' = poolStatus
    BY <2>1, <2>2
  <2>4. PICK p \in Pools \ {ref[r].pool} : Offers(p)
    BY <1>1, <2>3 DEF AnotherServes
  <2> QED
    BY <2>2, <2>3, <2>4 DEF Offers
<1> QED
  BY <1>3, <1>4, <1>5, <1>6, <1>7, <1>8, <1>9 DEF Served

\* Nobody moves, and nothing changes but that a pool may be offered more.
LEMMA ServingStays ==
  ASSUME ServeInv, UNCHANGED <<order, poolStatus, marker, snaps, ref>>, Smooth' => Smooth,
         ClonesServed => ClonesServed'
  PROVE  Smooth' => Served'
<1> SUFFICES ASSUME Smooth'
             PROVE  Served'
  OBVIOUS
<1>1. OneOccupied /\ DataKept /\ ClonesServed /\ RefreshedData /\ HeadServes /\ FirstRefresh /\ AnotherServes
  BY DEF ServeInv, Served
<1>2. OneOccupied' /\ DataKept' /\ RefreshedData'
  BY <1>1 DEF OneOccupied, DataKept, RefreshedData
<1>3. Blank' = Blank /\ Still' = Still /\ \A p \in Pools : Offers(p)' = Offers(p)
  BY DEF Blank, Still, Offers
<1>4. HeadServes'
  BY <1>1, <1>3 DEF HeadServes
<1>5. FirstRefresh'
  BY <1>1, <1>3, SameDiscovered DEF FirstRefresh
<1>6. AnotherServes'
  BY <1>1, <1>3 DEF AnotherServes
<1> QED
  BY <1>1, <1>2, <1>4, <1>5, <1>6 DEF Served

\* The choice of a pool, while nobody is at work on one, leaves another to the clients.
LEMMA ChoiceLeavesAnother ==
  ASSUME RefInv, ClonesHold, MarkedHeld, Served, SeveralPools, ~ Blank, Still,
         NEW p \in Pools, PoolToUpdate = p
  PROVE  \E q \in Pools \ {p} : Offers(q)
<1> DEFINE h == Head(order)
<1>1. order \in Lists /\ poolStatus \in [Pools -> PoolStatuses]
  BY DEF RefInv, RefreshTypes
<1>2. /\ h = order[1] /\ h \in Pools /\ 1 \in DOMAIN order
      /\ DOMAIN order = 1 .. Len(order) /\ Len(order) \in Nat \ {0}
      /\ \A i \in DOMAIN order : order[i] \in Pools
      /\ \A q \in Pools : \E i \in DOMAIN order : order[i] = q
  BY <1>1, ListType
<1>3. Offers(h)
  <2>1. marker[h] # 0 /\ poolStatus[h] = "active"
    BY DEF Served, HeadServes
  <2>2. \A r \in Refreshers : ref[r].at \notin Rebuilding
    BY DEF Still, Changing
  <2> HIDE DEF h
  <2>3. snaps[h] # {}
    BY <1>2, <2>1, <2>2 DEF Served, DataKept
  <2> QED
    BY <2>1, <2>3 DEF Offers
<1>4. PICK i \in DOMAIN order :
        order[i] = p /\ \A j \in DOMAIN order : j > i => ClonesIn(order[j]) # {}
  BY <1>1, UpdatedPoolIsLast
<1>5. CASE h # p
  BY <1>2, <1>3, <1>5
<1>6. CASE h = p
  <2>1. i = 1
    BY <1>1, <1>2, <1>4, <1>6, NoPoolTwice
  <2>2. 2 \in DOMAIN order
    <3>1. PICK a, b \in Pools : a # b
      BY DEF SeveralPools
    <3>2. PICK k, l \in DOMAIN order : order[k] = a /\ order[l] = b
      BY <1>2
    <3>3. k # l
      BY <3>1, <3>2
    <3> QED
      BY <1>2, <3>3
  <2>3. PICK c \in Clones : clone[c].pool = order[2] /\ clone[c].at \in {"dataset", "running"}
    BY <1>4, <2>1, <2>2 DEF ClonesIn
  <2>4. order[2] # p
    BY <1>1, <2>3, UpdatedPoolIsLast DEF ClonesIn
  <2>5. order[2] \in Pools /\ snaps[order[2]] # {}
    BY <1>2, <2>2, <2>3 DEF ClonesHold
  <2>6. poolStatus[order[2]] # "empty"
    BY <2>3 DEF Served, ClonesServed
  <2>7. poolStatus[order[2]] # "refreshing"
    <3>1. Marking \subseteq Changing
      BY DEF Marking, Changing, Rebuilding
    <3> QED
      BY <2>5, <3>1 DEF MarkedHeld, Marks, Still
  <2>8. Offers(order[2])
    BY <1>1, <2>5, <2>6, <2>7 DEF Offers, PoolStatuses
  <2> QED
    BY <2>4, <2>5, <2>8
<1> QED
  BY <1>5, <1>6

\* A refresher begins while no other is at work, but for the last MakeActive.
LEMMA ServingBegins ==
  ASSUME Served, NEW r \in Refreshers, OthersStay(r),
         UNCHANGED <<order, poolStatus, marker, snaps, clone>>,
         \A q \in Refreshers \ {r} : ref[q].at \notin Occupied \cup {"start"},
         ref[r].at \in {"start", "idle"},
         ref'[r].at \in {"run", "prepare", "idle", "ended"},
         ~ Blank /\ ref'[r].at \in Before => \E p \in Pools \ {ref'[r].pool} : Offers(p),
         Blank => r = Main /\ ref'[r].at = "run" /\ ref'[r].pool = Head(order)
  PROVE  Served'
<1>1. OneOccupied /\ DataKept /\ ClonesServed /\ RefreshedData /\ HeadServes /\ FirstRefresh /\ AnotherServes
  BY DEF Served
<1>2. \A q \in Refreshers : q = r \/ (ref'[q] = ref[q] /\ ref[q].at \notin Occupied \cup {"start"})
  BY DEF OthersStay
<1>3. OneOccupied'
  BY <1>2 DEF OneOccupied
<1>4. DataKept'
  <2>1. Rebuilding \subseteq Occupied /\ "start" \notin Rebuilding /\ "idle" \notin Rebuilding
    BY DEF Rebuilding, Changing, Occupied
  <2> QED
    BY <1>1, <1>2, <2>1 DEF DataKept
<1>5. ClonesServed'
  BY <1>1 DEF ClonesServed
<1>6. RefreshedData'
  BY <1>1, <1>2 DEF RefreshedData
<1>7. HeadServes'
  <2>1. Blank' = Blank
    BY DEF Blank
  <2>2. Still
    BY <1>2 DEF Still, Changing, Rebuilding, Occupied
  <2> QED
    BY <1>1, <2>1, <2>2 DEF HeadServes
<1>8. FirstRefresh'
  <2>1. Blank' = Blank
    BY DEF Blank
  <2> QED
    BY <1>1, <2>1, SameDiscovered DEF FirstRefresh
<1>9. AnotherServes'
  <2> SUFFICES ASSUME ~ Blank, NEW q \in Refreshers, ref'[q].at \in Before
               PROVE  \E p \in Pools \ {ref'[q].pool} : Offers(p)'
    BY DEF AnotherServes, Blank
  <2>1. Before \subseteq Occupied
    BY DEF Before, Occupied, Changing, Rebuilding
  <2>2. q = r
    BY <1>2, <2>1
  <2>3. PICK p \in Pools \ {ref'[r].pool} : Offers(p)
    BY <2>2
  <2> QED
    BY <2>2, <2>3 DEF Offers
<1> QED
  BY <1>3, <1>4, <1>5, <1>6, <1>7, <1>8, <1>9 DEF Served

LEMMA RunServing ==
  ASSUME RefInv, ClonesHold, MarkedHeld, ServeInv, SeveralPools, Run, Smooth'
  PROVE  Served'
<1>1. UNCHANGED <<order, poolStatus, marker, snaps, clone, failed, overlapped>>
  BY DEF Run, poolVars, diskVars, history
<1>2. Served
  BY <1>1 DEF Smooth, ServeInv
<1>3. /\ Main \in Refreshers /\ ref[Main].at = "start"
      /\ \/ Rests(Main) /\ RunChoice = None
         \/ /\ ref'[Main].at = "run" /\ ref'[Main].obj = gen /\ OthersStay(Main)
            /\ \E p \in Pools : p = RunChoice /\ ref'[Main].pool = p
  BY RunMoves
<1>4. \A q \in Refreshers \ {Main} : ref[q].at \notin Occupied \cup {"start"}
  BY <1>2, <1>3 DEF Served, OneOccupied
<1>5. Still
  <2>1. "start" \notin Changing /\ Changing \subseteq Occupied
    BY DEF Changing, Rebuilding, Occupied
  <2> QED
    BY <1>3, <1>4, <2>1 DEF Still
<1>6. ref'[Main].at \in {"run", "idle", "ended"} /\ OthersStay(Main)
  BY <1>3 DEF Rests
<1>7. CASE Blank
  <2>1. poolStatus[Head(order)] = "empty"
    BY <1>2, <1>3, <1>7 DEF Served, FirstRefresh
  <2>2. RunChoice = Head(order) /\ Head(order) \in Pools
    BY <2>1, ListType DEF RunChoice, RefInv, RefreshTypes
  <2>3. RunChoice # None
    BY <2>2, PoolRefreshAssumption
  <2> QED
    BY <1>1, <1>2, <1>3, <1>4, <1>6, <1>7, <2>2, <2>3, ServingBegins
<1>8. CASE ~ Blank
  <2>1. poolStatus[Head(order)] = "active"
    BY <1>2, <1>5, <1>8 DEF Served, HeadServes
  <2>2. RunChoice = PoolToUpdate
    BY <2>1 DEF RunChoice
  <2>3. ref'[Main].at \in Before => \E p \in Pools \ {ref'[Main].pool} : Offers(p)
    <3> SUFFICES ASSUME ref'[Main].at \in Before
                 PROVE  \E p \in Pools \ {ref'[Main].pool} : Offers(p)
      OBVIOUS
    <3>1. ~ Rests(Main)
      BY DEF Rests, Before
    <3>2. PICK p \in Pools : p = PoolToUpdate /\ ref'[Main].pool = p
      BY <1>3, <2>2, <3>1
    <3>3. \E q \in Pools \ {p} : Offers(q)
      BY <1>2, <1>5, <1>8, <3>2, ChoiceLeavesAnother
    <3> QED
      BY <3>2, <3>3
  <2> QED
    BY <1>1, <1>2, <1>3, <1>4, <1>6, <1>8, <2>3, ServingBegins
<1> QED
  BY <1>7, <1>8

LEMMA FullRefreshServing ==
  ASSUME RefInv, ClonesHold, MarkedHeld, ServeInv, SeveralPools,
         NEW t \in Ticks, FullRefresh(t), Smooth'
  PROVE  Served'
<1>1. UNCHANGED <<order, poolStatus, marker, snaps, clone, failed>>
  BY DEF FullRefresh, poolVars, diskVars
<1>2. "preparing" \notin overlapped
      /\ \A r \in Refreshers : ref[r].at \in Working \cup {"start"} => ref[r].at = "activate again"
  <2>1. overlapped' = overlapped \cup
          {IF At(r, "activate again") THEN "finishing" ELSE "preparing" :
             r \in {q \in Refreshers : ref[q].at \in Working \cup {"start"}}}
    BY DEF FullRefresh
  <2>2. "preparing" \notin overlapped'
    BY DEF Smooth
  <2> QED
    BY <2>1, <2>2 DEF At
<1>3. Served
  BY <1>1, <1>2 DEF Smooth, ServeInv
<1>4. /\ t \in Refreshers /\ ref[t].at = "idle"
      /\ \/ ref' = ref
         \/ /\ ref'[t].at = "prepare" /\ OthersStay(t)
            /\ \E p \in Pools : p = PoolToUpdate /\ ref'[t].pool = p
  BY FullRefreshMoves
<1>5. \A q \in Refreshers : ref[q].at \notin Occupied \cup {"start"}
  <2>1. Occupied \subseteq Working /\ "activate again" \notin Occupied /\ "start" # "activate again"
    BY DEF Occupied, Changing, Rebuilding, Working, Preparing
  <2> QED
    BY <1>2, <2>1
<1>6. Still
  BY <1>5 DEF Still, Occupied
<1>7. ~ Blank
  <2>1. Main \in Refreshers /\ {"run", "lock", "restore"} \subseteq Occupied
    BY DEF Refreshers, Occupied, Changing, Rebuilding
  <2> QED
    BY <1>3, <1>5, <2>1 DEF Served, FirstRefresh
<1>8. CASE ref' = ref
  <2>1. ClonesServed => ClonesServed'
    BY <1>1 DEF ClonesServed
  <2>2. Smooth
    BY <1>1, <1>2 DEF Smooth
  <2> QED
    BY <1>1, <1>8, <2>1, <2>2, ServingStays
<1>9. CASE /\ ref'[t].at = "prepare" /\ OthersStay(t)
           /\ \E p \in Pools : p = PoolToUpdate /\ ref'[t].pool = p
  <2>1. \E p \in Pools \ {ref'[t].pool} : Offers(p)
    <3>1. PICK p \in Pools : p = PoolToUpdate /\ ref'[t].pool = p
      BY <1>9
    <3>2. \E q \in Pools \ {p} : Offers(q)
      BY <1>3, <1>6, <1>7, <3>1, ChoiceLeavesAnother
    <3> QED
      BY <3>1, <3>2
  <2> QED
    BY <1>1, <1>3, <1>4, <1>5, <1>7, <1>9, <2>1, ServingBegins
<1> QED
  BY <1>4, <1>8, <1>9

\* The steps of a refresh that leave the list and the data alone.
LEMMA MoveServing ==
  ASSUME RefInv, ClonesHold, ServeInv, NEW r \in Refreshers, Smooth',
         \/ r \in Ticks /\ (CheckClones(r) \/ CleanUpControlContainers(r))
         \/ BeginRun(r) \/ Lock(r)
  PROVE  Served'
<1>1. UNCHANGED <<order, marker, snaps, clone, overlapped>> /\ (failed => failed')
  BY DEF CheckClones, CleanUpControlContainers, BeginRun, Lock, poolVars, diskVars, history, timing
<1>2. Served
  BY <1>1 DEF Smooth, ServeInv
<1>3. ~ failed'
  BY DEF Smooth
<1>4. "prepare" \in Occupied \ Rebuilding /\ {"destroy", "run", "lock", "restore"} \subseteq Rebuilding
      /\ Rebuilding \subseteq Occupied /\ {"idle", "ended", "lock", "restore"} \cap Before = {}
      /\ Before = {"prepare", "destroy", "run"}
  BY DEF Before, Occupied, Changing, Rebuilding
<1>5. CASE r \in Ticks /\ CheckClones(r)
  <2>1. poolStatus' = poolStatus
    BY <1>5 DEF CheckClones, poolVars
  <2>2. ref[r].at = "prepare" /\ (Rests(r) \/ Carries(r, "destroy"))
    BY <1>5, PrepareMoves
  <2>3. r # Main
    BY <1>5, PoolRefreshAssumption
  <2> QED
    BY <1>1, <1>2, <1>4, <2>1, <2>2, <2>3, ServingMove DEF Rests, Carries
<1>6. CASE r \in Ticks /\ CleanUpControlContainers(r)
  <2>1. poolStatus' = poolStatus
    BY <1>6 DEF CleanUpControlContainers, poolVars
  <2>2. ref[r].at = "destroy" /\ Carries(r, "run")
    <3>1. ref[r].at = "destroy" /\ GoTo(r, "run")
      BY <1>3, <1>6 DEF CleanUpControlContainers, At
    <3>2. "run" \in Working
      BY DEF Working, Preparing
    <3> QED
      BY <3>1, <3>2, GoToCarries
  <2>3. r # Main
    BY <1>6, PoolRefreshAssumption
  <2> QED
    BY <1>1, <1>2, <1>4, <2>1, <2>2, <2>3, ServingMove DEF Carries
<1>7. CASE BeginRun(r)
  <2>1. ref[r].at = "run" /\ Carries(r, "lock")
    <3>1. ref' = [ref EXCEPT ![r].at = "lock", ![r].elem = gen]
      BY <1>3, <1>7 DEF BeginRun
    <3>2. ref'[r].at = "lock"
      BY <3>1 DEF RefInv, RefreshTypes, RefRecords
    <3> QED
      BY <1>7, <3>2, BeginRunMoves DEF Rests
  <2>2. \A p \in Pools : poolStatus'[p] = "empty" => poolStatus[p] = "empty"
    <3>1. SetStatus(r, "refreshing") /\ poolStatus \in [Pools -> PoolStatuses]
      BY <1>3, <1>7 DEF BeginRun, RefInv, RefreshTypes
    <3> QED
      BY <3>1 DEF SetStatus
  <2> QED
    BY <1>1, <1>2, <1>4, <2>1, <2>2, ServingMove DEF Carries
<1>8. CASE Lock(r)
  <2>1. poolStatus' = poolStatus
    BY <1>8 DEF Lock, poolVars
  <2>2. ref[r].at = "lock" /\ Carries(r, "restore")
    BY <1>8, RefreshMoves
  <2> QED
    BY <1>1, <1>2, <1>4, <2>1, <2>2, ServingMove DEF Carries
<1> QED
  BY <1>5, <1>6, <1>7, <1>8

\* A snapshot of the refresher's pool is gone, with datasets on it.
LEMMA DestroySnapshotServing ==
  ASSUME RefInv, ServeInv, NEW t \in Ticks, DestroySnapshot(t), Smooth'
  PROVE  Served'
<1>1. UNCHANGED <<order, poolStatus, marker, overlapped>> /\ (failed => failed')
  BY DEF DestroySnapshot, poolVars, timing
<1>2. Served /\ ~ failed'
  BY <1>1 DEF Smooth, ServeInv
<1>3. t \in Refreshers /\ ref[t].at = "destroy" /\ t # Main
  BY PoolRefreshAssumption DEF DestroySnapshot, At, Refreshers
<1>4. /\ ref' = ref
      /\ \E s \in snaps[ref[t].pool] : snaps' = [snaps EXCEPT ![ref[t].pool] = @ \ {s}]
      /\ \A c \in Clones : clone'[c] = clone[c] \/ clone'[c] = NoClone
  BY <1>2 DEF DestroySnapshot
<1>5. ref[t].pool \in Pools /\ snaps \in [Pools -> SUBSET (1 .. latest)]
  BY <1>3 DEF RefInv, RefreshTypes, WorksOnPool, Working, Preparing
<1>6. \A p \in Pools \ {ref[t].pool} : snaps'[p] = snaps[p]
  BY <1>4, <1>5
<1>7. ~ Blank
  BY <1>4, <1>5 DEF ServeInv, MarkedSnaps, Blank
<1>8. OneOccupied /\ DataKept /\ ClonesServed /\ RefreshedData /\ HeadServes /\ AnotherServes
  BY <1>2 DEF Served
<1>9. Blank' = Blank /\ Still' = Still
  BY <1>1, <1>4 DEF Blank, Still
<1>10. OneOccupied'
  BY <1>4, <1>8 DEF OneOccupied
<1>11. DataKept'
  <2> SUFFICES ASSUME NEW p \in Pools, marker[p] # 0, snaps'[p] = {}
               PROVE  \E r \in Refreshers : ref[r].at \in Rebuilding /\ ref[r].pool = p
    BY <1>1, <1>4 DEF DataKept
  <2>1. CASE p = ref[t].pool
    BY <1>3, <2>1 DEF Rebuilding
  <2>2. CASE p # ref[t].pool
    BY <1>6, <1>8, <2>2 DEF DataKept
  <2> QED
    BY <2>1, <2>2
<1>12. ClonesServed'
  BY <1>1, <1>4, <1>8 DEF ClonesServed, NoClone
<1>13. RefreshedData'
  <2> SUFFICES ASSUME NEW r \in Refreshers
               PROVE  /\ ref[r].at = "activate" => snaps'[ref[r].pool] # {}
                      /\ ref[r].at = "activate again" => marker[ref[r].pool] # 0
    BY <1>1, <1>4 DEF RefreshedData
  <2>1. ref[r].at # "activate"
    <3>1. "activate" \in Occupied /\ "destroy" \in Occupied
      BY DEF Occupied, Changing, Rebuilding
    <3> QED
      BY <1>3, <1>8, <3>1 DEF OneOccupied
  <2> QED
    BY <1>8, <2>1 DEF RefreshedData
<1>14. HeadServes'
  BY <1>1, <1>8, <1>9 DEF HeadServes
<1>15. FirstRefresh'
  BY <1>7, <1>9 DEF FirstRefresh
<1>16. AnotherServes'
  <2> SUFFICES ASSUME NEW q \in Refreshers, ref[q].at \in Before
               PROVE  \E p \in Pools \ {ref[q].pool} : Offers(p)'
    BY <1>4 DEF AnotherServes
  <2>1. q = t
    <3>1. Before \subseteq Occupied /\ "destroy" \in Occupied
      BY DEF Before, Occupied, Changing, Rebuilding
    <3> QED
      BY <1>3, <1>8, <3>1 DEF OneOccupied
  <2>2. PICK p \in Pools \ {ref[q].pool} : Offers(p)
    BY <1>7, <1>8 DEF AnotherServes
  <2> QED
    BY <1>1, <1>6, <2>1, <2>2 DEF Offers
<1> QED
  BY <1>10, <1>11, <1>12, <1>13, <1>14, <1>15, <1>16 DEF Served

LEMMA RestoreServing ==
  ASSUME RefInv, ServeInv, NEW r \in Refreshers, Restore(r), Smooth'
  PROVE  Served'
<1>1. UNCHANGED <<order, poolStatus, snaps, clone, failed, overlapped>>
      /\ marker' = [marker EXCEPT ![ref[r].pool] = latest + 1]
  BY DEF Restore, poolVars, history
<1>2. Served
  BY <1>1 DEF Smooth, ServeInv
<1>3. ref[r].at = "restore" /\ Carries(r, "snapshot")
  BY RefreshMoves
<1>4. /\ ref[r].pool \in Pools /\ latest + 1 # 0 /\ marker \in [Pools -> 0 .. latest]
      /\ order \in Lists /\ Head(order) \in Pools
  <2>1. latest \in Nat /\ marker \in [Pools -> 0 .. latest] /\ order \in Lists
    BY DEF RefInv, RefreshTypes
  <2>2. ref[r].pool \in Pools
    BY <1>3 DEF RefInv, WorksOnPool, Working
  <2> QED
    BY <2>1, <2>2, ListType
<1>5. marker'[ref[r].pool] # 0 /\ \A p \in Pools \ {ref[r].pool} : marker'[p] = marker[p]
  BY <1>1, <1>4
<1>6. \A p \in Pools : marker[p] # 0 => marker'[p] # 0
  BY <1>5
<1>7. OneOccupied /\ DataKept /\ ClonesServed /\ RefreshedData /\ HeadServes /\ FirstRefresh
  BY <1>2 DEF Served
<1>8. "restore" \in Occupied /\ "restore" \in Rebuilding /\ "snapshot" \in Rebuilding
      /\ Rebuilding \subseteq Changing /\ Changing \subseteq Occupied /\ "snapshot" \notin Before
      /\ Before \subseteq Occupied
  BY DEF Occupied, Changing, Rebuilding, Before
<1>9. \A q \in Refreshers : q = r \/ (ref'[q] = ref[q] /\ ref[q].at \notin Occupied \cup {"start"})
  BY <1>3, <1>7, <1>8 DEF OneOccupied, Carries, OthersStay
<1>10. ref'[r].at = "snapshot" /\ ref'[r].pool = ref[r].pool
  BY <1>3 DEF Carries
<1>11. ~ Blank'
  BY <1>4, <1>5 DEF Blank
<1>12. OneOccupied'
  BY <1>9 DEF OneOccupied
<1>13. DataKept'
  <2> SUFFICES ASSUME NEW p \in Pools, marker'[p] # 0, snaps[p] = {}
               PROVE  \E q \in Refreshers : ref'[q].at \in Rebuilding /\ ref'[q].pool = p
    BY <1>1 DEF DataKept
  <2>1. CASE p = ref[r].pool
    BY <1>8, <1>10, <2>1
  <2>2. CASE p # ref[r].pool
    <3>1. marker[p] # 0
      BY <1>5, <2>2
    <3>2. PICK q \in Refreshers : ref[q].at \in Rebuilding /\ ref[q].pool = p
      BY <1>7, <3>1 DEF DataKept
    <3> QED
      BY <1>8, <1>9, <2>2, <3>2
  <2> QED
    BY <2>1, <2>2
<1>14. ClonesServed'
  <2> SUFFICES ASSUME NEW c \in Clones, clone[c].at # "none"
               PROVE  marker'[clone[c].pool] # 0 /\ poolStatus[clone[c].pool] # "empty"
    BY <1>1 DEF ClonesServed
  <2>1. marker[clone[c].pool] # 0 /\ poolStatus[clone[c].pool] # "empty"
    BY <1>7 DEF ClonesServed
  <2>2. marker'[clone[c].pool] # 0
    BY <1>1, <1>4, <2>1
  <2> QED
    BY <2>1, <2>2
<1>15. RefreshedData'
  <2> SUFFICES ASSUME NEW q \in Refreshers
               PROVE  /\ ref'[q].at = "activate" => snaps[ref'[q].pool] # {}
                      /\ ref'[q].at = "activate again" => marker'[ref'[q].pool] # 0
    BY <1>1 DEF RefreshedData
  <2>1. CASE q = r
    BY <1>10, <2>1
  <2>2. CASE q # r
    <3>1. ref'[q] = ref[q]
      BY <1>9, <2>2
    <3>2. ref[q].at = "activate again" => ref[q].pool \in Pools /\ marker[ref[q].pool] # 0
      BY <1>7 DEF RefInv, WorksOnPool, Working, RefreshedData
    <3>3. ref[q].at = "activate" => snaps[ref[q].pool] # {}
      BY <1>7 DEF RefreshedData
    <3> QED
      BY <1>1, <1>6, <3>1, <3>2, <3>3
  <2> QED
    BY <2>1, <2>2
<1>16. HeadServes'
  <2>1. ~ Still'
    BY <1>8, <1>10 DEF Still
  <2>2. marker'[Head(order)] # 0
    <3>1. CASE Blank
      <4>1. Main \in Refreshers /\ ref[Main].at \in {"start", "run", "lock", "restore"}
            /\ (ref[Main].at # "start" => ref[Main].pool = Head(order))
        BY <1>7, <3>1 DEF FirstRefresh, Refreshers
      <4>2. {"start", "run", "lock", "restore"} \subseteq Occupied \cup {"start"}
        BY DEF Occupied, Changing, Rebuilding
      <4>3. r = Main
        BY <1>9, <4>1, <4>2
      <4>4. ref[r].pool = Head(order)
        BY <1>3, <4>1, <4>3
      <4> QED
        BY <1>5, <4>4
    <3>2. CASE ~ Blank
      BY <1>4, <1>6, <1>7, <3>2 DEF HeadServes
    <3> QED
      BY <3>1, <3>2
  <2> QED
    BY <1>1, <2>1, <2>2 DEF HeadServes
<1>17. FirstRefresh'
  BY <1>11 DEF FirstRefresh
<1>18. AnotherServes'
  <2>1. \A q \in Refreshers : ref'[q].at \notin Before
    BY <1>8, <1>9, <1>10
  <2> QED
    BY <2>1 DEF AnotherServes
<1> QED
  BY <1>12, <1>13, <1>14, <1>15, <1>16, <1>17, <1>18 DEF Served

LEMMA TakeSnapshotServing ==
  ASSUME RefInv, ServeInv, NEW r \in Refreshers, TakeSnapshot(r), Smooth'
  PROVE  Served'
<1>1. /\ UNCHANGED <<order, poolStatus, marker, clone, failed, overlapped>>
      /\ snaps' = [snaps EXCEPT ![ref[r].pool] = @ \cup {marker[ref[r].pool]}]
  BY DEF TakeSnapshot, poolVars, history
<1>2. Served
  BY <1>1 DEF Smooth, ServeInv
<1>3. ref[r].at = "snapshot" /\ Carries(r, "activate")
  BY RefreshMoves
<1>4. ref[r].pool \in Pools /\ snaps \in [Pools -> SUBSET (1 .. latest)] /\ marker[ref[r].pool] # 0
  BY <1>3 DEF RefInv, RefreshTypes, WorksOnPool, Working
<1>5. snaps'[ref[r].pool] # {} /\ \A p \in Pools \ {ref[r].pool} : snaps'[p] = snaps[p]
  BY <1>1, <1>4
<1>6. OneOccupied /\ DataKept /\ ClonesServed /\ RefreshedData /\ HeadServes
  BY <1>2 DEF Served
<1>7. "snapshot" \in Occupied /\ "activate" \in Changing /\ "activate" \notin Before
      /\ "activate" \in Occupied /\ Rebuilding \subseteq Occupied /\ Before \subseteq Occupied
  BY DEF Occupied, Changing, Rebuilding, Before
<1>8. \A q \in Refreshers : q = r \/ (ref'[q] = ref[q] /\ ref[q].at \notin Occupied \cup {"start"})
  BY <1>3, <1>6, <1>7 DEF OneOccupied, Carries, OthersStay
<1>9. ref'[r].at = "activate" /\ ref'[r].pool = ref[r].pool
  BY <1>3 DEF Carries
<1>10. ~ Blank /\ Blank' = Blank
  BY <1>1, <1>4 DEF Blank
<1>11. OneOccupied'
  BY <1>8 DEF OneOccupied
<1>12. DataKept'
  <2> SUFFICES ASSUME NEW p \in Pools, marker[p] # 0, snaps'[p] = {}
               PROVE  FALSE
    BY <1>1 DEF DataKept
  <2>1. p # ref[r].pool /\ snaps[p] = {}
    BY <1>5
  <2>2. PICK q \in Refreshers : ref[q].at \in Rebuilding /\ ref[q].pool = p
    BY <1>6, <2>1 DEF DataKept
  <2> QED
    BY <1>7, <1>8, <2>1, <2>2
<1>13. ClonesServed'
  BY <1>1, <1>6 DEF ClonesServed
<1>14. RefreshedData'
  <2> SUFFICES ASSUME NEW q \in Refreshers
               PROVE  /\ ref'[q].at = "activate" => snaps'[ref'[q].pool] # {}
                      /\ ref'[q].at = "activate again" => marker[ref'[q].pool] # 0
    BY <1>1 DEF RefreshedData
  <2>1. CASE q = r
    BY <1>5, <1>9, <2>1
  <2>2. CASE q # r
    BY <1>6, <1>7, <1>8, <2>2 DEF RefreshedData
  <2> QED
    BY <2>1, <2>2
<1>15. HeadServes'
  <2>1. ~ Still'
    BY <1>7, <1>9 DEF Still
  <2> QED
    BY <1>1, <1>6, <1>10, <2>1 DEF HeadServes
<1>16. FirstRefresh'
  BY <1>10 DEF FirstRefresh
<1>17. AnotherServes'
  <2>1. \A q \in Refreshers : ref'[q].at \notin Before
    BY <1>7, <1>8, <1>9
  <2> QED
    BY <2>1 DEF AnotherServes
<1> QED
  BY <1>11, <1>12, <1>13, <1>14, <1>15, <1>16, <1>17 DEF Served
\* The head of the list becomes active: the refresher's pool, which has data, or
\* the old head.
LEMMA ActiveServing ==
  ASSUME RefInv, ClonesHold, MarkedSnaps, Served, NEW r \in Refreshers, OthersStay(r),
         UNCHANGED <<marker, snaps, clone>>, NEW e, MakeActive(r, e),
         ref[r].at \in {"activate", "activate again"},
         \/ ref'[r].at \in {"idle", "ended"}
         \/ ref'[r].at = "activate again" /\ ref'[r].pool = ref[r].pool
  PROVE  Served'
<1>1. OneOccupied /\ DataKept /\ ClonesServed /\ RefreshedData /\ HeadServes /\ AnotherServes
  BY DEF Served
<1>2. ref[r].pool \in Pools
  BY DEF RefInv, WorksOnPool, Working
<1>3. marker[ref[r].pool] # 0
  BY <1>1, <1>2 DEF RefreshedData, MarkedSnaps
<1>4. ~ Blank /\ ~ Blank'
  BY <1>2, <1>3 DEF Blank
<1>5. PICK h \in Pools : /\ h = Head(order') /\ poolStatus' = [poolStatus EXCEPT ![h] = "active"]
                         /\ h = ref[r].pool \/ h = Head(order)
  BY <1>2, MadeActive
<1>6. poolStatus \in [Pools -> PoolStatuses]
  BY DEF RefInv, RefreshTypes
<1>7. poolStatus'[h] = "active" /\ \A p \in Pools : poolStatus'[p] = poolStatus[p] \/ poolStatus'[p] = "active"
  BY <1>5, <1>6
<1>8. \A q \in Refreshers :
        \/ ref'[q] = ref[q]
        \/ q = r /\ ref'[q].at \notin Occupied \cup {"start"}
  BY DEF OthersStay, Occupied, Changing, Rebuilding
<1>9. OneOccupied'
  BY <1>1, <1>8 DEF OneOccupied
<1>10. DataKept'
  <2> SUFFICES ASSUME NEW p \in Pools, marker[p] # 0, snaps[p] = {}
               PROVE  \E q \in Refreshers : ref'[q].at \in Rebuilding /\ ref'[q].pool = p
    BY DEF DataKept
  <2>1. PICK q \in Refreshers : ref[q].at \in Rebuilding /\ ref[q].pool = p
    BY <1>1 DEF DataKept
  <2>2. q # r
    BY <2>1 DEF Rebuilding
  <2> QED
    BY <1>8, <2>1, <2>2
<1>11. ClonesServed'
  <2> SUFFICES ASSUME NEW c \in Clones, clone[c].at # "none"
               PROVE  marker[clone[c].pool] # 0 /\ poolStatus'[clone[c].pool] # "empty"
    BY DEF ClonesServed
  <2>1. marker[clone[c].pool] # 0 /\ poolStatus[clone[c].pool] # "empty"
    BY <1>1 DEF ClonesServed
  <2>2. clone[c].pool \in Pools
    BY DEF ClonesHold
  <2> QED
    BY <1>7, <2>1, <2>2
<1>12. RefreshedData'
  <2> SUFFICES ASSUME NEW q \in Refreshers
               PROVE  /\ ref'[q].at = "activate" => snaps[ref'[q].pool] # {}
                      /\ ref'[q].at = "activate again" => marker[ref'[q].pool] # 0
    BY DEF RefreshedData
  <2>1. CASE q = r
    BY <1>3, <2>1
  <2>2. CASE q # r
    BY <1>1, <2>2 DEF RefreshedData, OthersStay
  <2> QED
    BY <2>1, <2>2
<1>13. HeadServes'
  BY <1>1, <1>3, <1>4, <1>5, <1>7 DEF HeadServes
<1>14. FirstRefresh'
  BY <1>4 DEF FirstRefresh
<1>15. AnotherServes'
  <2> SUFFICES ASSUME NEW q \in Refreshers, ref'[q].at \in Before
               PROVE  \E p \in Pools \ {ref'[q].pool} : Offers(p)'
    BY DEF AnotherServes
  <2>1. ref'[q] = ref[q]
    <3>1. Before \subseteq Occupied
      BY DEF Before, Occupied, Changing, Rebuilding
    <3> QED
      BY <1>8, <3>1
  <2>2. PICK p \in Pools \ {ref[q].pool} : Offers(p)
    BY <1>1, <1>4, <2>1 DEF AnotherServes
  <2> QED
    BY <1>7, <2>1, <2>2 DEF Offers
<1> QED
  BY <1>9, <1>10, <1>11, <1>12, <1>13, <1>14, <1>15 DEF Served

\* In a new list a pool is active when it has data, and the head has some if any has.
LEMMA NewListServes ==
  ASSUME RefInv, ReloadPools, marker' = marker
  PROVE  /\ order' = Discovered' /\ Head(order') \in Pools
         /\ \A p \in Pools : poolStatus'[p] = IF marker[p] # 0 THEN "active" ELSE "empty"
         /\ ~ Blank => marker[Head(order')] # 0
<1>1. latest \in Nat /\ marker \in [Pools -> 0 .. latest] /\ gen \in Nat
  BY DEF RefInv, RefreshTypes
<1>2. marker \in [Pools -> Nat]
  <2>1. 0 .. latest \subseteq Nat
    BY <1>1
  <2> QED
    BY <1>1, <2>1
<1>3. order' = Discovered'
  BY SameDiscovered DEF ReloadPools
<1>4. order' \in Lists /\ \A p \in Pools : marker[p] <= marker[Head(order')]
  BY <1>1, <1>2, Reloaded
<1>5. Head(order') \in Pools
  BY <1>4, ListType
<1>6. \A p \in Pools : poolStatus'[p] = IF marker[p] # 0 THEN "active" ELSE "empty"
  BY <1>2 DEF ReloadPools
<1>7. ~ Blank => marker[Head(order')] # 0
  BY <1>2, <1>4, <1>5 DEF Blank
<1> QED
  BY <1>3, <1>5, <1>6, <1>7

LEMMA ReloadServing ==
  ASSUME RefInv, ClonesHold, ServeInv, Reload, Smooth'
  PROVE  Served'
<1>1. UNCHANGED <<ref, marker, snaps, clone, failed, overlapped>> /\ ReloadPools
  BY DEF Reload, diskVars
<1>2. Served /\ MarkedSnaps
  BY <1>1 DEF Smooth, ServeInv
<1>3. OneOccupied /\ DataKept /\ ClonesServed /\ RefreshedData /\ HeadServes /\ FirstRefresh /\ AnotherServes
  BY <1>2 DEF Served
<1>4. /\ order' = Discovered' /\ Head(order') \in Pools
      /\ \A p \in Pools : poolStatus'[p] = IF marker[p] # 0 THEN "active" ELSE "empty"
      /\ ~ Blank => marker[Head(order')] # 0
  BY <1>1, NewListServes
<1>5. OneOccupied' /\ DataKept' /\ RefreshedData'
  BY <1>1, <1>3 DEF OneOccupied, DataKept, RefreshedData
<1>6. ClonesServed'
  BY <1>1, <1>3, <1>4 DEF ClonesServed, ClonesHold
<1>7. Blank' = Blank
  BY <1>1 DEF Blank
<1>8. HeadServes'
  BY <1>1, <1>4, <1>7 DEF HeadServes
<1>9. FirstRefresh'
  <2> SUFFICES ASSUME Blank
               PROVE  \/ ref[Main].at = "start" /\ poolStatus'[Head(order')] = "empty"
                      \/ ref[Main].at \in {"run", "lock", "restore"} /\ ref[Main].pool = Head(order')
    BY <1>1, <1>4, <1>7 DEF FirstRefresh
  <2>1. poolStatus'[Head(order')] = "empty"
    BY <1>4 DEF Blank
  <2>2. order' = order
    BY <1>1, <1>3, <1>4, SameDiscovered DEF FirstRefresh
  <2> QED
    BY <1>3, <2>1, <2>2 DEF FirstRefresh
<1>10. AnotherServes'
  <2>1. \A p \in Pools : Offers(p) => Offers(p)'
    BY <1>1, <1>2, <1>4 DEF Offers, MarkedSnaps
  <2> QED
    BY <1>1, <1>3, <1>7, <2>1 DEF AnotherServes
<1> QED
  BY <1>5, <1>6, <1>8, <1>9, <1>10 DEF Served

LEMMA RestartServing ==
  ASSUME RefInv, ClonesHold, ServeInv, Restart, Smooth'
  PROVE  Served'
<1>1. UNCHANGED <<marker, snaps, overlapped>> /\ ReloadPools /\ ~ failed /\ ~ Busy
  BY DEF Restart, diskVars, timing, Smooth
<1>2. DataKept /\ ClonesServed
  BY <1>1 DEF Smooth, ServeInv, Served, Restart, timing
<1>3. /\ order' = Discovered' /\ Head(order') \in Pools
      /\ \A p \in Pools : poolStatus'[p] = IF marker[p] # 0 THEN "active" ELSE "empty"
      /\ ~ Blank => marker[Head(order')] # 0
  BY <1>1, NewListServes
<1>4. \A r \in Refreshers : ref'[r].at = IF r = Main THEN "start" ELSE "idle"
  BY Fresh DEF Restart
<1>5. \A c \in Clones : clone'[c] = clone[c] \/ clone'[c] = NoClone
  BY DEF Restart
<1>6. Main \in Refreshers
  BY DEF Refreshers
<1>7. OneOccupied'
  BY <1>4 DEF OneOccupied, Occupied, Changing, Rebuilding
<1>8. DataKept'
  <2>1. \A r \in Refreshers : ref[r].at \notin Rebuilding
    BY <1>1 DEF Busy, Rebuilding, Working, Preparing
  <2> QED
    BY <1>1, <1>2, <2>1 DEF DataKept
<1>9. ClonesServed'
  BY <1>1, <1>2, <1>3, <1>5 DEF ClonesServed, ClonesHold, NoClone
<1>10. RefreshedData'
  BY <1>4 DEF RefreshedData
<1>11. Blank' = Blank
  BY <1>1 DEF Blank
<1>12. HeadServes'
  BY <1>1, <1>3, <1>11 DEF HeadServes
<1>13. FirstRefresh'
  BY <1>3, <1>4, <1>6, <1>11 DEF FirstRefresh, Blank
<1>14. AnotherServes'
  BY <1>4 DEF AnotherServes, Before
<1> QED
  BY <1>7, <1>8, <1>9, <1>10, <1>12, <1>13, <1>14 DEF Served

\* A client chooses a snapshot that an active pool offers.
LEMMA ClientServing ==
  ASSUME RefInv, ServeInv, NEW c \in Clones, ClientStep(c), Smooth'
  PROVE  Served'
<1>1. UNCHANGED <<order, poolStatus, marker, snaps, ref, failed, overlapped>>
  BY DEF ClientStep, ChooseSnapshot, CreateClone, StartContainer, DestroyClone,
         poolVars, diskVars, history
<1>2. clone \in [Clones -> CloneRecords(latest)] /\ clone[c] \in CloneRecords(latest)
  BY DEF RefInv, RefreshTypes
<1>3. MarkedSnaps
  BY DEF ServeInv
<1>4. \/ clone'[c].at = "none"
      \/ clone[c].at # "none" /\ clone'[c].pool = clone[c].pool
      \/ \E p \in Pools : clone'[c].pool = p /\ poolStatus[p] = "active" /\ snaps[p] # {}
  <2>1. CASE ChooseSnapshot(c)
    <3>1. PICK o \in Offered :
            clone' = [clone EXCEPT ![c] = [at |-> "chosen", pool |-> o[1], snap |-> o[2]]]
      BY <2>1 DEF ChooseSnapshot
    <3>2. o[1] \in Pools /\ poolStatus[o[1]] = "active" /\ snaps[o[1]] # {}
      BY DEF Offered
    <3> QED
      BY <1>2, <3>1, <3>2
  <2>2. CASE CreateClone(c)
    <3>1. [clone[c] EXCEPT !.at = "dataset"].pool = clone[c].pool
      BY <1>2 DEF CloneRecords
    <3>2. \/ clone' = [clone EXCEPT ![c] = [clone[c] EXCEPT !.at = "dataset"]]
          \/ clone' = [clone EXCEPT ![c] = NoClone]
      BY <1>2, <2>2 DEF CreateClone
    <3>3. NoClone.at = "none" /\ clone[c].at = "chosen"
      BY <2>2 DEF NoClone, CreateClone
    <3> QED
      BY <1>2, <3>1, <3>2, <3>3
  <2>3. CASE StartContainer(c)
    <3>1. clone[c].at = "dataset" /\ clone' = [clone EXCEPT ![c] = [clone[c] EXCEPT !.at = "running"]]
      BY <1>2, <2>3 DEF StartContainer
    <3>2. [clone[c] EXCEPT !.at = "running"].pool = clone[c].pool
      BY <1>2 DEF CloneRecords
    <3> QED
      BY <1>2, <3>1, <3>2
  <2>4. CASE DestroyClone(c)
    BY <1>2, <2>4 DEF DestroyClone, NoClone
  <2> QED
    BY <2>1, <2>2, <2>3, <2>4 DEF ClientStep
<1>5. \A d \in Clones \ {c} : clone'[d] = clone[d]
  BY <1>2 DEF ClientStep, ChooseSnapshot, CreateClone, StartContainer, DestroyClone
<1>6. ClonesServed => ClonesServed'
  <2> SUFFICES ASSUME ClonesServed, NEW d \in Clones, clone'[d].at # "none"
               PROVE  marker[clone'[d].pool] # 0 /\ poolStatus[clone'[d].pool] # "empty"
    BY <1>1 DEF ClonesServed
  <2>1. CASE d = c
    BY <1>3, <1>4, <2>1 DEF ClonesServed, MarkedSnaps
  <2>2. CASE d # c
    BY <1>5, <2>2 DEF ClonesServed
  <2> QED
    BY <2>1, <2>2
<1> QED
  BY <1>1, <1>6, ServingStays DEF Smooth
LEMMA InitServing ==
  ASSUME Init
  PROVE  ServeInv
<1>1. RefInv
  BY InitTypes
<1>2. marker \in [Pools -> Nat]
  <2>1. latest \in Nat /\ marker \in [Pools -> 0 .. latest]
    BY <1>1 DEF RefInv, RefreshTypes
  <2>2. 0 .. latest \subseteq Nat
    BY <2>1
  <2> QED
    BY <2>1, <2>2
<1>3. \A p \in Pools : snaps[p] = {marker[p]} \ {0}
  BY DEF Init
<1>4. /\ order = Discovered /\ \A c \in Clones : clone[c].at = "none"
      /\ \A p \in Pools : poolStatus[p] = IF marker[p] > 0 THEN "active" ELSE "empty"
  BY DEF Init, NoClone
<1>5. \A r \in Refreshers : ref[r].at = IF r = Main THEN "start" ELSE "idle"
  BY Fresh DEF Init
<1>6. Main \in Refreshers
  BY DEF Refreshers
<1>7. Head(order) \in Pools /\ \A p \in Pools : marker[p] <= marker[Head(order)]
  BY <1>2, <1>4, DiscoveredNewest, ListType
<1>8. MarkedSnaps
  BY <1>3 DEF MarkedSnaps
<1>9. OneOccupied
  BY <1>5 DEF OneOccupied, Occupied, Changing, Rebuilding
<1>10. DataKept
  BY <1>3 DEF DataKept
<1>11. ClonesServed
  BY <1>4 DEF ClonesServed
<1>12. RefreshedData
  BY <1>5 DEF RefreshedData
<1>13. HeadServes
  <2> SUFFICES ASSUME ~ Blank
               PROVE  marker[Head(order)] # 0 /\ poolStatus[Head(order)] = "active"
    BY DEF HeadServes
  <2>1. marker[Head(order)] > 0
    BY <1>2, <1>7 DEF Blank
  <2> QED
    BY <1>2, <1>4, <1>7, <2>1
<1>14. FirstRefresh
  <2> SUFFICES ASSUME Blank
               PROVE  poolStatus[Head(order)] = "empty"
    BY <1>4, <1>5, <1>6 DEF FirstRefresh
  <2>1. marker[Head(order)] = 0
    BY <1>7 DEF Blank
  <2> QED
    BY <1>4, <1>7, <2>1
<1>15. AnotherServes
  BY <1>5 DEF AnotherServes, Before
<1> QED
  BY <1>8, <1>9, <1>10, <1>11, <1>12, <1>13, <1>14, <1>15 DEF ServeInv, Served

\* The history of failures and overlaps only grows.
LEMMA SmoothBefore ==
  ASSUME [Next]_refreshVars, Smooth'
  PROVE  Smooth
<1>1. (failed => failed') /\ overlapped \subseteq overlapped' => Smooth
  BY DEF Smooth
<1>2. UNCHANGED <<failed, overlapped>> => Smooth
  BY <1>1
<1>3. Run \/ Reload \/ UNCHANGED refreshVars => Smooth
  BY <1>2 DEF Run, Reload, refreshVars, history
<1>4. Restart => Smooth
  BY <1>1 DEF Restart, timing
<1>5. ASSUME NEW t \in Ticks, FullRefresh(t)
      PROVE  Smooth
  <2>1. failed' = failed /\ overlapped \subseteq overlapped'
    BY <1>5 DEF FullRefresh
  <2> QED
    BY <1>1, <2>1
<1>6. ASSUME NEW r \in Refreshers, RefreshStep(r)
      PROVE  Smooth
  <2>1. overlapped' = overlapped
    BY <1>6 DEF RefreshStep, BeginRun, Lock, JobFails, Restore, TakeSnapshot, Activate, history, timing
  <2>2. failed' = failed \/ failed' = TRUE
    BY <1>6 DEF RefreshStep, BeginRun, Lock, JobFails, Restore, TakeSnapshot, Activate, history
  <2> QED
    BY <2>1, <2>2 DEF Smooth
<1>7. ASSUME NEW t \in Ticks, PrepareStep(t)
      PROVE  Smooth
  <2>1. overlapped' = overlapped
    BY <1>7 DEF PrepareStep, CheckClones, DestroySnapshot, CleanUpControlContainers, ActivateAgain,
                history, timing
  <2>2. failed' = failed \/ failed' = TRUE
    BY <1>7 DEF PrepareStep, CheckClones, DestroySnapshot, CleanUpControlContainers, ActivateAgain, history
  <2> QED
    BY <2>1, <2>2 DEF Smooth
<1>8. \A c \in Clones : ClientStep(c) => Smooth
  BY <1>2 DEF ClientStep, ChooseSnapshot, CreateClone, StartContainer, DestroyClone, history
<1> QED
  BY <1>3, <1>4, <1>5, <1>6, <1>7, <1>8 DEF Next

LEMMA StepServing ==
  ASSUME RefInv, ClonesHold, MarkedHeld, ServeInv, SeveralPools, [Next]_refreshVars
  PROVE  ServeInv'
<1>1. MarkedSnaps'
  BY StepMarkedSnaps DEF ServeInv
<1> SUFFICES ASSUME Smooth'
             PROVE  Served'
  BY <1>1 DEF ServeInv
<1>2. Smooth /\ Served /\ MarkedSnaps
  BY SmoothBefore DEF ServeInv
<1>3. CASE UNCHANGED refreshVars
  <2>1. UNCHANGED <<order, poolStatus, marker, snaps, ref, clone>>
    BY <1>3 DEF refreshVars, poolVars, diskVars
  <2>2. ClonesServed => ClonesServed'
    BY <2>1 DEF ClonesServed
  <2> QED
    BY <1>2, <2>1, <2>2, ServingStays
<1>4. CASE Run
  BY <1>4, RunServing
<1>5. ASSUME NEW t \in Ticks, FullRefresh(t)
      PROVE  Served'
  BY <1>5, FullRefreshServing
<1>6. ASSUME NEW r \in Refreshers, RefreshStep(r)
      PROVE  Served'
  <2>1. ~ JobFails(r)
    BY DEF JobFails, Smooth
  <2>2. CASE BeginRun(r) \/ Lock(r)
    BY <2>2, MoveServing
  <2>3. CASE Restore(r)
    BY <2>3, RestoreServing
  <2>4. CASE TakeSnapshot(r)
    BY <2>4, TakeSnapshotServing
  <2>5. CASE Activate(r)
    <3>1. UNCHANGED <<marker, snaps, clone>> /\ MakeActive(r, ref[r].elem)
      BY <2>5 DEF Activate, diskVars
    <3>2. /\ ref[r].at = "activate" /\ OthersStay(r)
          /\ \/ ref'[r].at \in {"idle", "ended"}
             \/ ref'[r].at = "activate again" /\ ref'[r].pool = ref[r].pool
      BY <2>5, RefreshMoves DEF Rests, Carries
    <3> QED
      BY <1>2, <3>1, <3>2, ActiveServing
  <2> QED
    BY <1>6, <2>1, <2>2, <2>3, <2>4, <2>5 DEF RefreshStep
<1>7. ASSUME NEW t \in Ticks, PrepareStep(t)
      PROVE  Served'
  <2>1. t \in Refreshers
    BY PrepareMoves
  <2>2. CASE CheckClones(t) \/ CleanUpControlContainers(t)
    BY <2>1, <2>2, MoveServing
  <2>3. CASE DestroySnapshot(t)
    BY <2>3, DestroySnapshotServing
  <2>4. CASE ActivateAgain(t)
    <3>1. UNCHANGED <<marker, snaps, clone>> /\ MakeActive(t, ref[t].obj)
      BY <2>4 DEF ActivateAgain, diskVars
    <3>2. ref[t].at = "activate again" /\ OthersStay(t) /\ ref'[t].at \in {"idle", "ended"}
      BY <2>4, PrepareMoves DEF Rests
    <3> QED
      BY <1>2, <2>1, <3>1, <3>2, ActiveServing
  <2> QED
    BY <1>7, <2>2, <2>3, <2>4 DEF PrepareStep
<1>8. CASE Reload
  BY <1>8, ReloadServing
<1>9. CASE Restart
  BY <1>9, RestartServing
<1>10. ASSUME NEW c \in Clones, ClientStep(c)
       PROVE  Served'
  BY <1>10, ClientServing
<1> QED
  BY <1>3, <1>4, <1>5, <1>6, <1>7, <1>8, <1>9, <1>10 DEF Next

\* A step that loses what one pool offers leaves another pool that offers some.
LEMMA OffersStay ==
  ASSUME RefInv, ClonesHold, ServeInv, Next, Smooth', NEW p \in Pools, Offers(p)
  PROVE  \E q \in Pools : Offers(q)'
<1>1. Smooth /\ Served /\ MarkedSnaps
  BY SmoothBefore DEF ServeInv
<1>2. ~ Blank
  BY <1>1 DEF Offers, MarkedSnaps, Blank
<1>3. poolStatus \in [Pools -> PoolStatuses] /\ snaps \in [Pools -> SUBSET (1 .. latest)]
  BY DEF RefInv, RefreshTypes
<1>4. UNCHANGED <<poolStatus, snaps>> => Offers(p)'
  BY DEF Offers
<1>5. ASSUME NEW r \in Refreshers, ref[r].at \in Before,
             \A q \in Pools \ {ref[r].pool} : poolStatus'[q] = poolStatus[q] /\ snaps'[q] = snaps[q]
      PROVE  \E q \in Pools : Offers(q)'
  <2>1. PICK q \in Pools \ {ref[r].pool} : Offers(q)
    BY <1>1, <1>2, <1>5 DEF Served, AnotherServes
  <2> QED
    BY <1>5, <2>1 DEF Offers
<1>6. ASSUME NEW r \in Refreshers, NEW e, MakeActive(r, e), ref[r].pool \in Pools, snaps' = snaps
      PROVE  Offers(p)'
  <2>1. PICK h \in Pools : poolStatus' = [poolStatus EXCEPT ![h] = "active"]
    BY <1>6, MadeActive
  <2>2. poolStatus'[p] = "active"
    BY <1>3, <2>1 DEF Offers
  <2> QED
    BY <1>6, <2>2 DEF Offers
<1>7. ASSUME ReloadPools, UNCHANGED <<marker, snaps>>
      PROVE  Offers(p)'
  BY <1>1, <1>7, NewListServes DEF Offers, MarkedSnaps
<1>8. Run => Offers(p)'
  BY <1>4 DEF Run, poolVars, diskVars
<1>9. ASSUME NEW r \in Refreshers, RefreshStep(r)
      PROVE  \E q \in Pools : Offers(q)'
  <2>1. CASE BeginRun(r)
    <3>1. snaps' = snaps /\ ref[r].at \in Before
      BY <2>1 DEF BeginRun, diskVars, At, Before
    <3>2. \A q \in Pools \ {ref[r].pool} : poolStatus'[q] = poolStatus[q]
      BY <1>3, <2>1 DEF BeginRun, SetStatus
    <3> QED
      BY <1>5, <3>1, <3>2
  <2>2. CASE Lock(r) \/ Restore(r)
    BY <1>4, <2>2 DEF Lock, Restore, poolVars, diskVars
  <2>3. ~ JobFails(r)
    BY DEF JobFails, Smooth
  <2>4. CASE TakeSnapshot(r)
    <3>1. poolStatus' = poolStatus /\ snaps' = [snaps EXCEPT ![ref[r].pool] = @ \cup {marker[ref[r].pool]}]
      BY <2>4 DEF TakeSnapshot, poolVars
    <3>2. snaps[p] \subseteq snaps'[p]
      BY <1>3, <3>1
    <3> QED
      BY <3>1, <3>2 DEF Offers
  <2>5. CASE Activate(r)
    <3>1. snaps' = snaps /\ MakeActive(r, ref[r].elem) /\ ref[r].at = "activate"
      BY <2>5 DEF Activate, diskVars, At
    <3>2. ref[r].pool \in Pools
      BY <3>1 DEF RefInv, WorksOnPool, Working
    <3> QED
      BY <1>6, <3>1, <3>2
  <2> QED
    BY <1>9, <2>1, <2>2, <2>3, <2>4, <2>5 DEF RefreshStep
<1>10. ASSUME NEW t \in Ticks, PrepareStep(t)
       PROVE  \E q \in Pools : Offers(q)'
  <2>1. t \in Refreshers
    BY PrepareMoves
  <2>2. CASE CheckClones(t) \/ CleanUpControlContainers(t)
    BY <1>4, <2>2 DEF CheckClones, CleanUpControlContainers, poolVars, diskVars
  <2>3. CASE DestroySnapshot(t)
    <3>1. ref[t].at \in Before /\ poolStatus' = poolStatus
      BY <2>3 DEF DestroySnapshot, At, Before, poolVars
    <3>2. \A q \in Pools \ {ref[t].pool} : snaps'[q] = snaps[q]
      BY <1>3, <2>3 DEF DestroySnapshot
    <3> QED
      BY <1>5, <2>1, <3>1, <3>2
  <2>4. CASE ActivateAgain(t)
    <3>1. snaps' = snaps /\ MakeActive(t, ref[t].obj) /\ ref[t].at = "activate again"
      BY <2>4 DEF ActivateAgain, diskVars, At
    <3>2. ref[t].pool \in Pools
      BY <2>1, <3>1 DEF RefInv, WorksOnPool, Working
    <3> QED
      BY <1>6, <2>1, <3>1, <3>2
  <2> QED
    BY <1>10, <2>2, <2>3, <2>4 DEF PrepareStep
<1>11. \A t \in Ticks : FullRefresh(t) => Offers(p)'
  BY <1>4 DEF FullRefresh, poolVars, diskVars
<1>12. Reload \/ Restart => Offers(p)'
  BY <1>7 DEF Reload, Restart, diskVars
<1>13. \A c \in Clones : ClientStep(c) => Offers(p)'
  BY <1>4 DEF ClientStep, ChooseSnapshot, CreateClone, StartContainer, DestroyClone, poolVars, diskVars
<1> QED
  BY <1>8, <1>9, <1>10, <1>11, <1>12, <1>13 DEF Next

\* Once a snapshot is offered one always is, by another pool while a pool is
\* refreshed: what the README of the engine means by a refresh without downtime.
\* There are at least two pools, and no refresh fails or begins while another one
\* prepares.
THEOREM ServiceGoesOn ==
  ASSUME SeveralPools
  PROVE  RefreshSpec => ServiceContinues
<1>1. Init => ServeInv
  BY InitServing
<1>2. PoolInv /\ ServeInv /\ [Next]_refreshVars => ServeInv'
  BY StepServing DEF PoolInv
<1>3. PoolInv /\ ServeInv /\ PoolRefreshTypeOK /\ PoolRefreshTypeOK' /\ [Next]_refreshVars =>
        [Offered # {} /\ ~ failed' /\ "preparing" \notin overlapped' => Offered' # {}]_refreshVars
  <2> SUFFICES ASSUME PoolInv, ServeInv, PoolRefreshTypeOK, PoolRefreshTypeOK', Next,
                      NEW o \in Offered, Smooth'
               PROVE  Offered' # {}
    BY DEF Smooth
  <2>1. o[1] \in Pools /\ Offers(o[1])
    BY DEF Offered, Offers
  <2>2. PICK q \in Pools : Offers(q)'
    BY <2>1, OffersStay DEF PoolInv
  <2>3. poolStatus'[q] = "active" /\ \E s \in snaps'[q] : TRUE
    BY <2>2 DEF Offers
  <2>4. PICK s \in Versions : s \in snaps'[q]
    BY <2>3 DEF PoolRefreshTypeOK
  <2>5. <<q, s>> \in Offered'
    BY <2>3, <2>4 DEF Offered
  <2> QED
    BY <2>5
<1> QED
  BY <1>1, <1>2, <1>3, PoolInvariant, PoolTypes, PTL DEF RefreshSpec, ServiceContinues

=============================================================================
