------------------------------- MODULE Cloning -------------------------------
(***************************************************************************)
(* The cloning service (internal/cloning/base.go): the registry of clones, *)
(* the API operations on it, the goroutines that run the Provisioner for   *)
(* them, and the idle check.                                               *)
(*                                                                         *)
(* The registry maps an ID to a wrapper.  Handlers look a wrapper up under *)
(* the lock and go on with the pointer after they have released it, while  *)
(* statuses and deletions are applied by ID: a step may meet another       *)
(* wrapper than the one the handler started with, or none.                 *)
(***************************************************************************)
EXTENDS Provision

CONSTANTS
  IDs,          \* clone IDs
  Handlers,     \* goroutines that serve API requests; IdleChecker is one more
  IdleChecker,
  Requests,     \* the kinds of requests that arrive
  ClientsWait,  \* do clients wait for a clone to settle before the next request?
  PromptStops   \* does StopSession end before the next idle check?

RequestKinds == {"create", "destroy", "reset", "protect", "observe", "idle"}

ASSUME CloningAssumption ==
  /\ Requests \subseteq RequestKinds
  /\ ClientsWait \in BOOLEAN /\ PromptStops \in BOOLEAN
  /\ None \notin IDs
  /\ IdleChecker \notin Handlers

VARIABLES
  clones,    \* Base.clones: the wrapper registered under an ID, or None
  wrapper,   \* the clone of a wrapper (models.Clone), or None
  handler    \* the operation a goroutine is in the middle of

cloningVars == <<clones, wrapper, handler>>
vars == <<provisionVars, cloningVars>>

Statuses == {"OK", "CREATING", "RESETTING", "DELETING", "EXPORTING", "FATAL"}

CloneRecords ==
  [id : IDs, status : Statuses, snapshot : Snapshots, protected : BOOLEAN]

HandlerRecords ==
  [pc : {"idle", "createSet", "destroyFind", "destroyMark", "destroyGo",
         "resetMark", "observe"},
   id : IDs \cup {None}, wrapper : Wrappers \cup {None},
   snapshot : Snapshots \cup {None}]

Idle == [pc |-> "idle", id |-> None, wrapper |-> None, snapshot |-> None]

Goroutines == Handlers \cup {IdleChecker}

CloningTypeOK ==
  /\ ProvisionTypeOK
  /\ clones \in [IDs -> Wrappers \cup {None}]
  /\ wrapper \in [Wrappers -> CloneRecords \cup {None}]
  /\ handler \in [Goroutines -> HandlerRecords]

Init ==
  /\ ProvisionInit
  /\ clones = [i \in IDs |-> None]
  /\ wrapper = [w \in Wrappers |-> None]
  /\ handler = [h \in Goroutines |-> Idle]

-----------------------------------------------------------------------------
(* Helpers *)

\* A wrapper that no map entry, handler or call refers to is garbage.
Referenced(w) ==
  \/ \E i \in IDs : clones[i] = w
  \/ \E h \in Goroutines : handler[h].wrapper = w
  \/ \E c \in Calls : pc[c] # "idle" /\ call[c].wrapper = w

\* Writes the wrappers and sessions of a step, less those that become garbage.
Keep(ws, ss) ==
  /\ wrapper' = [w \in Wrappers |-> IF Referenced(w)' THEN ws[w] ELSE None]
  /\ session' = [w \in Wrappers |-> IF Referenced(w)' THEN ss[w] ELSE None]

\* UpdateCloneStatus: by ID, whatever wrapper is registered under it now.
WithStatus(i, status) ==
  IF clones[i] = None THEN wrapper ELSE [wrapper EXCEPT ![clones[i]].status = status]

Settle(h) == handler' = [handler EXCEPT ![h] = Idle]

\* The ID the call of a goroutine works for.
IdOf(c) == wrapper[call[c].wrapper].id

\* What a client that polls the status of a clone waits for: requests and
\* calls in progress.  It does not see the idle check before it acts.
Pending(i) ==
  \/ \E h \in Handlers : handler[h].id = i
  \/ \E c \in Calls : pc[c] # "idle" /\ IdOf(c) = i

\* A request on a clone arrives at goroutine h.
Request(h, kind, i) ==
  /\ h \in Handlers /\ handler[h] = Idle
  /\ kind \in Requests
  /\ ClientsWait => ~Pending(i)

-----------------------------------------------------------------------------
(* CreateClone *)

\* The ID is free and a snapshot is chosen: the latest, or the requested one.
CreateFind(h, i, s) ==
  /\ Request(h, "create", i)
  /\ clones[i] = None
  /\ handler' = [handler EXCEPT ![h] =
       [pc |-> "createSet", id |-> i, wrapper |-> None, snapshot |-> s]]
  /\ UNCHANGED <<provisionVars, clones, wrapper>>

\* setWrapper, and the goroutine that runs StartSession.  Only clients that use
\* the protection flag ask for a protected clone.
CreateSet(h, w, c, protected) ==
  LET i == handler[h].id
      s == handler[h].snapshot
  IN /\ handler[h].pc = "createSet"
     /\ ~Referenced(w)
     /\ protected => "protect" \in Requests
     /\ clones' = [clones EXCEPT ![i] = w]
     /\ InvokeStart(c, w, s)
     /\ Settle(h)
     /\ Keep([wrapper EXCEPT ![w] = [id |-> i, status |-> "CREATING",
                                     snapshot |-> s, protected |-> protected]],
             session)
     /\ UNCHANGED <<bind, container, dataset>>

\* Mutant: a failed start leaves the status alone.
StartDoneForgetsError(c) ==
  LET i == IdOf(c)
      result == [port |-> call[c].port, pool |-> call[c].newPool]
  IN /\ call[c].op = "start"
     /\ Goto(c, "idle")
     /\ call' = [call EXCEPT ![c] = NoCall]
     /\ UNCHANGED <<bind, container, dataset, clones, handler>>
     /\ IF pc[c] = "ok" /\ clones[i] # None
        THEN Keep(WithStatus(i, "OK"), [session EXCEPT ![clones[i]] = result])
        ELSE Keep(wrapper, session)

\* fillCloneSession on success, a FATAL status on failure, both by ID.
StartDone(c) ==
  LET i == IdOf(c)
      result == [port |-> call[c].port, pool |-> call[c].newPool]
  IN /\ call[c].op = "start"
     /\ Goto(c, "idle")
     /\ call' = [call EXCEPT ![c] = NoCall]
     /\ UNCHANGED <<bind, container, dataset, clones, handler>>
     /\ \/ /\ pc[c] = "ok" /\ clones[i] # None
           /\ Keep(WithStatus(i, "OK"), [session EXCEPT ![clones[i]] = result])
        \/ /\ pc[c] = "ok" /\ clones[i] = None
           /\ Keep(wrapper, session)
        \/ /\ pc[c] = "err"
           /\ Keep(WithStatus(i, "FATAL"), session)

-----------------------------------------------------------------------------
(* DestroyClone *)

\* A failed clone is not protected.
Protected(w) == wrapper[w].protected /\ wrapper[w].status # "FATAL"

DestroyFind(h, i) ==
  LET w == clones[i]
  IN /\ \/ Request(h, "destroy", i)
        \/ handler[h].pc = "destroyFind" /\ handler[h].id = i
     /\ w # None
     /\ ~Protected(w)
     /\ handler' = [handler EXCEPT ![h] =
          [pc |-> "destroyMark", id |-> i, wrapper |-> w, snapshot |-> None]]
     /\ UNCHANGED <<provisionVars, clones, wrapper>>

DestroyMark(h) ==
  LET i == handler[h].id
  IN /\ handler[h].pc = "destroyMark"
     /\ UNCHANGED <<bind, container, dataset, pc, call, clones>>
     /\ \/ /\ clones[i] # None
           /\ handler' = [handler EXCEPT ![h].pc = "destroyGo"]
           /\ Keep(WithStatus(i, "DELETING"), session)
        \/ /\ clones[i] = None
           /\ Settle(h)
           /\ Keep(wrapper, session)

\* Without a session the clone is deleted at once; otherwise a goroutine runs
\* StopSession.
DestroyGo(h, c) ==
  LET i == handler[h].id
      w == handler[h].wrapper
  IN /\ handler[h].pc = "destroyGo"
     /\ Settle(h)
     /\ \/ /\ session[w] = None
           /\ clones' = [clones EXCEPT ![i] = None]
           /\ UNCHANGED <<pc, call>>
        \/ /\ InvokeStop(c, w)
           /\ UNCHANGED clones
     /\ Keep(wrapper, session)
     /\ UNCHANGED <<bind, container, dataset>>

\* Mutant: the session goes with the clone, whoever else works on it.
StopDoneClears(c) ==
  LET i == IdOf(c)
      w == call[c].wrapper
  IN /\ call[c].op = "stop"
     /\ Goto(c, "idle")
     /\ call' = [call EXCEPT ![c] = NoCall]
     /\ UNCHANGED <<bind, container, dataset, handler>>
     /\ \/ /\ pc[c] = "ok"
           /\ clones' = [clones EXCEPT ![i] = None]
           /\ Keep(wrapper, [session EXCEPT ![w] = None])
        \/ /\ pc[c] = "err"
           /\ UNCHANGED clones
           /\ Keep(WithStatus(i, "FATAL"), session)

\* deleteClone on success, a FATAL status on failure, both by ID.
StopDone(c) ==
  LET i == IdOf(c)
  IN /\ call[c].op = "stop"
     /\ Goto(c, "idle")
     /\ call' = [call EXCEPT ![c] = NoCall]
     /\ UNCHANGED <<bind, container, dataset, handler>>
     /\ \/ /\ pc[c] = "ok"
           /\ clones' = [clones EXCEPT ![i] = None]
           /\ Keep(wrapper, session)
        \/ /\ pc[c] = "err"
           /\ UNCHANGED clones
           /\ Keep(WithStatus(i, "FATAL"), session)

-----------------------------------------------------------------------------
(* ResetClone *)

ResetFind(h, i, s) ==
  LET w == clones[i]
  IN /\ Request(h, "reset", i)
     /\ w # None /\ session[w] # None
     /\ handler' = [handler EXCEPT ![h] =
          [pc |-> "resetMark", id |-> i, wrapper |-> w, snapshot |-> s]]
     /\ UNCHANGED <<provisionVars, clones, wrapper>>

\* Mutant: the clone stays OK while it is reset.
ResetMarkSilently(h, c) ==
  /\ handler[h].pc = "resetMark"
  /\ Settle(h)
  /\ InvokeReset(c, handler[h].wrapper, handler[h].snapshot)
  /\ UNCHANGED <<bind, container, dataset, clones>>
  /\ Keep(wrapper, session)

\* UpdateCloneStatus, and the goroutine that runs ResetSession.
ResetMark(h, c) ==
  LET i == handler[h].id
  IN /\ handler[h].pc = "resetMark"
     /\ Settle(h)
     /\ UNCHANGED <<bind, container, dataset, clones>>
     /\ \/ /\ clones[i] # None
           /\ InvokeReset(c, handler[h].wrapper, handler[h].snapshot)
           /\ Keep(WithStatus(i, "RESETTING"), session)
        \/ /\ clones[i] = None
           /\ UNCHANGED <<pc, call>>
           /\ Keep(wrapper, session)

\* The snapshot goes to the wrapper the goroutine holds, the status to the ID.
ResetDone(c) ==
  LET i == IdOf(c)
      w == call[c].wrapper
      ready == WithStatus(i, "OK")
  IN /\ call[c].op = "reset"
     /\ Goto(c, "idle")
     /\ call' = [call EXCEPT ![c] = NoCall]
     /\ UNCHANGED <<bind, container, dataset, clones, handler>>
     /\ \/ /\ pc[c] = "ok"
           /\ Keep([ready EXCEPT ![w].snapshot = call[c].snapshot], session)
        \/ /\ pc[c] = "err"
           /\ Keep(WithStatus(i, "FATAL"), session)

-----------------------------------------------------------------------------
(* UpdateClone, observation, idle check *)

\* The lookup and the write are one step here; a patch that leaves the flag as it
\* is changes nothing.
UpdateClone(h, i, protected) ==
  /\ Request(h, "protect", i)
  /\ clones[i] # None
  /\ wrapper[clones[i]].protected # protected
  /\ wrapper' = [wrapper EXCEPT ![clones[i]].protected = protected]
  /\ UNCHANGED <<provisionVars, clones, handler>>

\* stopObservation marks the clone as EXPORTING while it sends the results,
\* and as OK when it returns, however it returns.  It looks at neither status
\* nor session; the session startObservation has connected to is never unset.
ObserveStop(h, i) ==
  /\ Request(h, "observe", i)
  /\ clones[i] # None /\ session[clones[i]] # None
  /\ wrapper' = WithStatus(i, "EXPORTING")
  /\ handler' = [handler EXCEPT ![h] =
       [pc |-> "observe", id |-> i, wrapper |-> None, snapshot |-> None]]
  /\ UNCHANGED <<provisionVars, clones>>

ObserveReturn(h) ==
  /\ handler[h].pc = "observe"
  /\ wrapper' = WithStatus(handler[h].id, "OK")
  /\ Settle(h)
  /\ UNCHANGED <<provisionVars, clones>>

\* Mutant: a clone without a session is an error.
UnusedWithSession(w) == session[w] # None /\ container[session[w].port].up

\* The idle check finds a clone unused if it failed before it had a session, or
\* if its database answers that nothing is going on.
Unused(w) ==
  IF session[w] = None THEN wrapper[w].status = "FATAL"
  ELSE container[session[w].port].up

\* isIdleClone, in the loop of destroyIdleClones; DestroyClone follows, by ID.
\* A clone that is being deleted already is not excluded.
IdleFound(i) ==
  LET w == clones[i]
      h == IdleChecker
  IN /\ "idle" \in Requests
     /\ handler[h] = Idle
     /\ w # None
     /\ ~wrapper[w].protected /\ wrapper[w].status # "EXPORTING"
     /\ PromptStops => wrapper[w].status # "DELETING"
     /\ Unused(w)
     /\ handler' = [handler EXCEPT ![h] =
          [pc |-> "destroyFind", id |-> i, wrapper |-> None, snapshot |-> None]]
     /\ UNCHANGED <<provisionVars, clones, wrapper>>

\* DestroyClone refuses: the clone is gone, or protected by now.
IdleRefused ==
  LET h == IdleChecker
      w == clones[handler[h].id]
  IN /\ handler[h].pc = "destroyFind"
     /\ w # None => Protected(w)
     /\ Settle(h)
     /\ UNCHANGED <<provisionVars, clones, wrapper>>

-----------------------------------------------------------------------------

CallDone(c) == pc[c] \in {"ok", "err"} /\ (StartDone(c) \/ StopDone(c) \/ ResetDone(c))

\* What goes on without a new request.
HandlerStep(h) ==
  \/ \E w \in Wrappers, c \in Calls, protected \in BOOLEAN : CreateSet(h, w, c, protected)
  \/ DestroyMark(h)
  \/ \E c \in Calls : DestroyGo(h, c) \/ ResetMark(h, c)

GoroutineStep(c) ==
  \/ ProvisionStep(c) /\ UNCHANGED cloningVars
  \/ CallDone(c)

Arrival ==
  \E h \in Goroutines, i \in IDs :
    \/ \E s \in Snapshots : CreateFind(h, i, s) \/ ResetFind(h, i, s)
    \/ DestroyFind(h, i)
    \/ \E protected \in BOOLEAN : UpdateClone(h, i, protected)
    \/ ObserveStop(h, i)

Next ==
  \/ \E c \in Calls : GoroutineStep(c)
  \/ \E h \in Goroutines : HandlerStep(h) \/ ObserveReturn(h)
  \/ \E i \in IDs : IdleFound(i)
  \/ IdleRefused
  \/ Arrival

Spec == Init /\ [][Next]_vars

\* The Go scheduler runs every goroutine that can go on.  Nothing makes a
\* client send a request, and stopObservation waits for others.
Fairness ==
  /\ \A c \in Calls : WF_vars(GoroutineStep(c))
  /\ \A h \in Goroutines : WF_vars(HandlerStep(h))

FairSpec == Spec /\ Fairness

\* The timer of runIdleCheck fires again and again, each time for all the
\* clones, and nobody works in the clones.
IdleFairness ==
  /\ \A i \in IDs : SF_vars(IdleFound(i))
  /\ WF_vars(IdleRefused \/ \E i \in IDs : DestroyFind(IdleChecker, i))

IdleSpec == FairSpec /\ IdleFairness

-----------------------------------------------------------------------------
(* Properties *)

\* The sessions of the registry as SerialSessions sees them.
Recorded ==
  [w \in Wrappers |->
     IF session[w] = None THEN None
     ELSE [snapshot |-> wrapper[w].snapshot, ok |-> wrapper[w].status = "OK"]]

Serial == INSTANCE SerialSessions WITH clone <- Recorded

\* nil is neither a models.Clone, nor what SerialSessions makes of one, nor a
\* status.
ASSUME RecordsAssumption ==
  /\ None \notin CloneRecords /\ None \notin Serial!CloneRecords
  /\ None \notin Statuses

\* Clients that wait make the cloning service a caller that runs one operation
\* per clone at a time, so all that SerialSessions promises holds here: what
\* base.go does with the Provisioner is a behaviour of SerialSessions.
UsesProvisionSerially == Serial!Spec

Serves(w, p) == session[w] # None /\ session[w].port = p

Works(w) ==
  LET s == session[w]
  IN /\ s # None
     /\ container[s.port] = [pool |-> s.pool, up |-> TRUE]
     /\ dataset[s.pool][s.port] = wrapper[w].snapshot

Ready(i) == clones[i] # None /\ wrapper[clones[i]].status = "OK"

\* "Clone is ready to accept Postgres connections" (models.CloneMessageOK): a
\* registered clone with status OK has a session, its container is up, and its
\* dataset comes from the snapshot the API shows for it.
ReadyCloneWorks == \A i \in IDs : Ready(i) => Works(clones[i])

\* The same for the clones nobody operates on: requests on other clones and
\* the idle check leave them alone.
IndependentClones == \A i \in IDs : Ready(i) /\ ~Pending(i) => Works(clones[i])

\* Every container and dataset belongs to a registered clone or to a call in
\* progress: nothing is left that no API request and no idle check can delete.
NoOrphan ==
  \A p \in Ports : container[p] # NoContainer \/ CloneExists(p) =>
    \/ \E i \in IDs : clones[i] # None /\ Serves(clones[i], p)
    \/ \E c \in Calls : pc[c] # "idle" /\ call[c].port = p

\* What base.go dereferences without looking: the wrapper in the map, which has
\* the ID it is found under, the one a handler has kept between two critical
\* sections, and the session of a clone that a goroutine stops or resets.
NothingDangles ==
  /\ \A i \in IDs : clones[i] # None =>
       wrapper[clones[i]] # None /\ wrapper[clones[i]].id = i
  /\ \A h \in Goroutines : handler[h].pc \in {"destroyMark", "destroyGo", "resetMark"} =>
       handler[h].wrapper \in Wrappers /\ wrapper[handler[h].wrapper] # None
  /\ \A c \in Calls : call[c].op \in {"stop", "reset"} /\ pc[c] # "idle" =>
       call[c].wrapper \in Wrappers /\ session[call[c].wrapper] # None

\* Every creation, reset and deletion comes to an end that the polling client
\* sees: the clone gets another status or leaves the registry.
Transient == {"CREATING", "RESETTING", "DELETING"}

OperationsEnd ==
  \A i \in IDs, status \in Transient :
    (clones[i] # None /\ wrapper[clones[i]].status = status) ~>
    (clones[i] = None \/ wrapper[clones[i]].status # status)

\* "Unused clones are automatically deleted": a clone nobody works in leaves
\* the registry, unless it is protected, be it ready or be it FATAL since its
\* start failed.
UnusedCloneIsDeleted ==
  \A i \in IDs :
    clones[i] # None ~> (clones[i] = None \/ wrapper[clones[i]].protected)

=============================================================================
