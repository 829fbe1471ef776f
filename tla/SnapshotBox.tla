----------------------------- MODULE SnapshotBox -----------------------------
(***************************************************************************)
(* The cloning service's view of the snapshots (internal/cloning/          *)
(* snapshots.go): a cache of the snapshots of the pools with the number of *)
(* clones of each, which a fetch counts anew from the registry of clones   *)
(* and the operations on clones keep up to date in between.                *)
(*                                                                         *)
(* A fetch walks the registry without its lock and replaces the cache      *)
(* later; an operation changes the registry first and its number after     *)
(* that.  The registry maps IDs to wrappers.  A client may choose the ID,  *)
(* which is looked up long before it is set: two creations of one ID may   *)
(* overlap, and an ID may be used again.  An operation that holds a        *)
(* wrapper changes the registry by ID all the same.  A snapshot is its     *)
(* place in the order of data states.                                      *)
(***************************************************************************)
EXTENDS Integers, FiniteSets

CONSTANTS
  Goroutines,   \* handlers of the API with the goroutines they start
  IDs,          \* IDs of clones
  Clones,       \* wrappers: the registered ones and those that somebody holds
  MaxSnapshots, \* bound: snapshots ever taken
  MaxResets     \* bound: resets of clones between two restarts of the engine

ASSUME BoxAssumption ==
  /\ IsFiniteSet(Goroutines) /\ IsFiniteSet(Clones)
  /\ MaxSnapshots \in Nat \ {0} /\ MaxResets \in Nat

VARIABLES
  pool,      \* the snapshots that exist
  taken,     \* the snapshots ever taken: 1 .. taken
  box,       \* SnapshotBox: items, their NumClones, latestSnapshot
  clone,     \* the wrappers, and which of them is registered under its ID
  op,        \* the operation a goroutine is in the middle of
  resets,    \* resets since the engine was started
  drifted    \* history: numbers may be wrong until the next undisturbed fetch

boxVars == <<pool, taken, box, clone, op, resets, drifted>>

-----------------------------------------------------------------------------
(* States *)

Numbers == 1 .. MaxSnapshots
Counts == [Numbers -> Nat]

NoClone == [id |-> "none", registered |-> FALSE, session |-> FALSE, snap |-> 0]
Zero == [s \in Numbers |-> 0]

\* at: the next step; snap: the snapshot asked for, then the one chosen;
\* old: the one before a reset; left, number: what a fetch has to count and
\* has counted; entries: what it read from the pool; torn: the registry or a
\* number has changed under it.
NoOp ==
  [at |-> "idle", clone |-> {}, snap |-> 0, old |-> 0,
   entries |-> {}, left |-> {}, number |-> Zero, torn |-> FALSE]

OpSteps ==
  {"idle", "count", "pick", "set", "increment", "start",
   "stop", "delete", "decrement", "reset", "replace"}

SnapshotBoxTypeOK ==
  /\ taken \in 1 .. MaxSnapshots /\ pool \subseteq 1 .. taken
  /\ box \in [items : SUBSET (1 .. taken), number : Counts, latest : 0 .. taken]
  /\ clone \in [Clones ->
       [id : IDs \cup {"none"}, registered : BOOLEAN, session : BOOLEAN, snap : 0 .. taken]]
  /\ op \in [Goroutines ->
       [at : OpSteps, clone : {{}} \cup {{c} : c \in Clones}, snap : 0 .. taken, old : 0 .. taken,
        entries : SUBSET (1 .. taken), left : SUBSET (1 .. taken), number : Counts, torn : BOOLEAN]]
  /\ resets \in 0 .. MaxResets /\ drifted \in BOOLEAN

Newest(S) == IF S = {} THEN 0 ELSE CHOOSE s \in S : \A t \in S : t <= s

\* How many registered clones are of the snapshot.
Registered(s) == Cardinality({c \in Clones : clone[c].registered /\ clone[c].snap = s})

\* c.clones[id]: the one wrapper that is registered under the ID, if there is one.
Entry(id) == {c \in Clones : clone[c].registered /\ clone[c].id = id}

\* A wrapper that nothing refers to, as good as one that has not been made.
Free(c) == ~ clone[c].registered /\ \A g \in Goroutines : op[g].clone # {c}

Idle(g) == op[g] = NoOp
At(g, step) == op[g].at = step
CloneOf(g) == CHOOSE c \in Clones : op[g].clone = {c}

\* An operation has changed the registry and not yet the number.
Windows == {"increment", "decrement", "replace"}

\* g goes on with the operation o, ...
Continue(g, o) == op' = [op EXCEPT ![g] = o]

\* ... and has changed what the fetches in progress count.
Disturb(g, o) ==
  op' = [h \in Goroutines |->
           IF h = g THEN o
           ELSE IF At(h, "count") THEN [op[h] EXCEPT !.torn = TRUE] ELSE op[h]]

-----------------------------------------------------------------------------
(* fetchSnapshots *)

\* GetSnapshots of the pools; then each entry is counted.
Fetch(g, o) ==
  Continue(g, [o EXCEPT !.at = "count", !.entries = pool, !.left = pool,
                        !.torn = \E h \in Goroutines : op[h].at \in Windows])

\* One entry of the loop: the walk over the registry.
CountEntry(g) ==
  /\ At(g, "count")
  /\ \E s \in op[g].left :
       /\ \A t \in op[g].left : t <= s
       /\ Continue(g, [op[g] EXCEPT !.left = @ \ {s}, !.number[s] = Registered(s)])
  /\ UNCHANGED <<pool, taken, box, clone, resets, drifted>>

\* resetSnapshots; a GET /snapshots is answered, a creation goes on.
ResetSnapshots(g) ==
  /\ At(g, "count") /\ op[g].left = {}
  /\ box' = [items |-> op[g].entries, number |-> op[g].number, latest |-> Newest(op[g].entries)]
  /\ drifted' = op[g].torn
  /\ Continue(g, IF op[g].clone = {}
                   THEN NoOp
                   ELSE [NoOp EXCEPT !.at = "pick", !.clone = op[g].clone, !.snap = op[g].snap])
  /\ UNCHANGED <<pool, taken, clone, resets>>

GetSnapshots(g) ==
  /\ Idle(g)
  /\ Fetch(g, NoOp)
  /\ UNCHANGED <<pool, taken, box, clone, resets, drifted>>

-----------------------------------------------------------------------------
(* incrementCloneNumber and decrementCloneNumber *)

Increment(s) ==
  box' = IF s \in box.items THEN [box EXCEPT !.number[s] = @ + 1] ELSE box

\* Mutant of the next definition: zero is not looked for.
DecrementBelow(s) ==
  box' = IF s \in box.items THEN [box EXCEPT !.number[s] = @ - 1] ELSE box

\* A number that is zero stays, and the clone is missing from the count.
Decrement(s) ==
  box' = IF s \in box.items /\ box.number[s] > 0 THEN [box EXCEPT !.number[s] = @ - 1] ELSE box

Underflow(s) == s \in box.items /\ box.number[s] = 0

-----------------------------------------------------------------------------
(* CreateClone *)

\* The ID, the client's or a new one, is not registered.  A snapshot is requested,
\* or the latest (0).
CreateClone(g) ==
  /\ Idle(g)
  /\ \E i \in IDs, c \in Clones, s \in 0 .. taken :
       /\ Entry(i) = {} /\ Free(c)
       /\ clone' = [clone EXCEPT ![c] = [NoClone EXCEPT !.id = i]]
       /\ Fetch(g, [NoOp EXCEPT !.clone = {c}, !.snap = s])
  /\ UNCHANGED <<pool, taken, box, resets, drifted>>

\* getLatestSnapshot and getSnapshotByID, of a cache that another fetch may have
\* replaced since.
PickSnapshot(g) ==
  /\ At(g, "pick")
  /\ \/ /\ box.latest # 0
        /\ op[g].snap \in box.items \cup {0}
        /\ Continue(g, [op[g] EXCEPT !.at = "set", !.snap = IF @ = 0 THEN box.latest ELSE @])
     \/ /\ box.latest = 0 \/ op[g].snap \notin box.items \cup {0}
        /\ Continue(g, NoOp)
  /\ UNCHANGED <<pool, taken, box, clone, resets, drifted>>

\* c.clones[id] = wrapper
Register(c, s) ==
  clone' = [d \in Clones |->
              IF d = c THEN [clone[c] EXCEPT !.registered = TRUE, !.snap = s]
              ELSE IF clone[d].id = clone[c].id THEN [clone[d] EXCEPT !.registered = FALSE]
              ELSE clone[d]]

\* setWrapper, which does not look for a wrapper that another creation of this ID
\* has set since: that one is counted for ever.
SetWrapper(g) ==
  /\ At(g, "set")
  /\ LET c == CloneOf(g)
     IN /\ Register(c, op[g].snap)
        /\ drifted' = (drifted \/ Entry(clone[c].id) # {})
  /\ Disturb(g, [op[g] EXCEPT !.at = "increment"])
  /\ UNCHANGED <<pool, taken, box, resets>>

\* incrementCloneNumber, the last step of a reset as well; a new clone starts.
CountClone(g) ==
  /\ At(g, "increment")
  /\ Increment(op[g].snap)
  /\ Disturb(g, IF op[g].old # 0 THEN NoOp ELSE [op[g] EXCEPT !.at = "start"])
  /\ UNCHANGED <<pool, taken, clone, resets, drifted>>

\* StartSession fails or finds its snapshot; fillCloneSession gives the session to
\* whatever is registered under the ID by then.
Start(g) ==
  /\ At(g, "start")
  /\ LET entry == Entry(clone[CloneOf(g)].id)
     IN \/ UNCHANGED clone
        \/ /\ op[g].snap \in pool
           /\ clone' = [d \in Clones |->
                          IF d \in entry THEN [clone[d] EXCEPT !.session = TRUE] ELSE clone[d]]
  /\ Continue(g, NoOp)
  /\ UNCHANGED <<pool, taken, box, resets, drifted>>

-----------------------------------------------------------------------------
(* DestroyClone *)

\* A clone without a session is deleted at once.
DestroyClone(g) ==
  /\ Idle(g)
  /\ \E c \in Clones :
       /\ clone[c].registered
       /\ Continue(g, [NoOp EXCEPT !.clone = {c}, !.at = IF clone[c].session THEN "stop" ELSE "delete"])
  /\ UNCHANGED <<pool, taken, box, clone, resets, drifted>>

\* StopSession, which may fail.
Stop(g) ==
  /\ At(g, "stop")
  /\ Continue(g, NoOp) \/ Continue(g, [op[g] EXCEPT !.at = "delete"])
  /\ UNCHANGED <<pool, taken, box, clone, resets, drifted>>

\* delete(c.clones, cloneID)
Unregister(id) ==
  clone' = [d \in Clones |->
              IF clone[d].id = id THEN [clone[d] EXCEPT !.registered = FALSE] ELSE clone[d]]

\* The wrapper that is held is counted down for, and what has been registered under
\* its ID may be nothing any more, or of another snapshot.
DeletesOther(c) == \A d \in Entry(clone[c].id) : clone[d].snap # clone[c].snap

\* Mutant of the next definition: the number of a clone without a session is
\* forgotten.
DeleteUncounted(g) ==
  /\ At(g, "delete")
  /\ LET c == CloneOf(g)
     IN /\ Unregister(clone[c].id)
        /\ drifted' = (drifted \/ DeletesOther(c))
        /\ Disturb(g, IF clone[c].session THEN [op[g] EXCEPT !.at = "decrement"] ELSE NoOp)
  /\ UNCHANGED <<pool, taken, box, resets>>

\* deleteClone
Delete(g) ==
  /\ At(g, "delete")
  /\ LET c == CloneOf(g)
     IN Unregister(clone[c].id) /\ drifted' = (drifted \/ DeletesOther(c))
  /\ Disturb(g, [op[g] EXCEPT !.at = "decrement"])
  /\ UNCHANGED <<pool, taken, box, resets>>

Uncount(g) ==
  /\ At(g, "decrement")
  /\ LET s == clone[CloneOf(g)].snap
     IN Decrement(s) /\ drifted' = (drifted \/ Underflow(s))
  /\ Disturb(g, NoOp)
  /\ UNCHANGED <<pool, taken, clone, resets>>

-----------------------------------------------------------------------------
(* ResetClone *)

\* The snapshot is one of the cache, the clone's own, or the latest (0).
ResetClone(g) ==
  /\ Idle(g) /\ resets < MaxResets
  /\ resets' = resets + 1
  /\ \E c \in Clones :
       /\ clone[c].registered /\ clone[c].session
       /\ \E s \in box.items \cup {0, clone[c].snap} :
            Continue(g, [NoOp EXCEPT !.at = "reset", !.clone = {c}, !.snap = s, !.old = clone[c].snap])
  /\ UNCHANGED <<pool, taken, box, clone, drifted>>

\* ResetSession fails, or the wrapper gets the snapshot, be it registered or not
\* and be it still of the old one or not.
ResetSession(g) ==
  /\ At(g, "reset")
  /\ LET c == CloneOf(g)
         s == IF op[g].snap = 0 THEN Newest(pool) ELSE op[g].snap
     IN \/ /\ Continue(g, NoOp)
           /\ UNCHANGED <<clone, drifted>>
        \/ /\ s \in pool
           /\ clone' = [clone EXCEPT ![c].snap = s]
           /\ drifted' = (drifted \/ ~ clone[c].registered \/ clone[c].snap # op[g].old)
           /\ Disturb(g, [op[g] EXCEPT !.at = "replace", !.snap = s])
  /\ UNCHANGED <<pool, taken, box, resets>>

\* decrementCloneNumber of the snapshot before.
Replace(g) ==
  /\ At(g, "replace")
  /\ Decrement(op[g].old)
  /\ drifted' = (drifted \/ Underflow(op[g].old))
  /\ Disturb(g, [op[g] EXCEPT !.at = "increment"])
  /\ UNCHANGED <<pool, taken, clone, resets>>

-----------------------------------------------------------------------------
(* Restart, and the snapshots themselves *)

\* Run: the fetch of an empty registry, the clones of the state file, one for an ID, and
\* filterRunningClones, which drops those whose snapshot is not in the cache
\* and those that do not run, and counts the latter all the same.
Restart ==
  /\ \E saved \in SUBSET {c \in Clones : clone[c].session} :
       /\ \A c, d \in saved : clone[c].id = clone[d].id => c = d
       /\ \E running \in SUBSET saved :
         LET known == {c \in saved : clone[c].snap \in pool}
         IN /\ clone' = [c \in Clones |-> [clone[c] EXCEPT !.registered = c \in known \cap running]]
            /\ box' = [items |-> pool, latest |-> Newest(pool),
                       number |-> [s \in Numbers |-> Cardinality({c \in known : clone[c].snap = s})]]
            /\ drifted' = ~ known \subseteq running
  /\ op' = [g \in Goroutines |-> NoOp]
  /\ resets' = 0
  /\ UNCHANGED <<pool, taken>>

TakeSnapshot ==
  /\ taken < MaxSnapshots
  /\ taken' = taken + 1 /\ pool' = pool \cup {taken + 1}
  /\ UNCHANGED <<box, clone, op, resets, drifted>>

\* A clone with a session holds its snapshot.
RemoveSnapshot ==
  /\ \E s \in pool :
       /\ \A c \in Clones : clone[c].registered /\ clone[c].session => clone[c].snap # s
       /\ pool' = pool \ {s}
  /\ UNCHANGED <<taken, box, clone, op, resets, drifted>>

-----------------------------------------------------------------------------
(* Specification *)

Init ==
  /\ taken = 1 /\ pool = {1}
  /\ box = [items |-> {1}, number |-> Zero, latest |-> 1]
  /\ clone = [c \in Clones |-> NoClone]
  /\ op = [g \in Goroutines |-> NoOp]
  /\ resets = 0 /\ drifted = FALSE

FetchStep(g) == GetSnapshots(g) \/ CountEntry(g) \/ ResetSnapshots(g)
CreateStep(g) == CreateClone(g) \/ PickSnapshot(g) \/ SetWrapper(g) \/ CountClone(g) \/ Start(g)
DestroyStep(g) == DestroyClone(g) \/ Stop(g) \/ Delete(g) \/ Uncount(g)
ResetStep(g) == ResetClone(g) \/ ResetSession(g) \/ Replace(g)

Next ==
  \/ \E g \in Goroutines : FetchStep(g) \/ CreateStep(g) \/ DestroyStep(g) \/ ResetStep(g)
  \/ Restart \/ TakeSnapshot \/ RemoveSnapshot

BoxSpec == Init /\ [][Next]_boxVars

-----------------------------------------------------------------------------
(* Properties *)

Rising(s) == {g \in Goroutines : op[g].at \in {"increment", "replace"} /\ op[g].snap = s}

Falling(s) ==
  {g \in Goroutines :
     \/ At(g, "decrement") /\ clone[CloneOf(g)].snap = s
     \/ At(g, "replace") /\ op[g].old = s}

\* The number of clones of a snapshot is that of the registry, but for the
\* operations that are about to change it.  It drifts only when a fetch counts
\* while another operation is at work, two creations of one ID overlap, the
\* deletion of a clone finds no clone or one of another snapshot under its ID, a
\* clone is counted down for before it is counted or while it is reset, is
\* reset twice at once, or does not run any more after a restart; the next
\* undisturbed fetch puts it right.
CountsFollowRegistry ==
  ~ drifted =>
    \A s \in box.items :
      box.number[s] + Cardinality(Rising(s)) = Registered(s) + Cardinality(Falling(s))

=============================================================================
