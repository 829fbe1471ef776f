---------------------------- MODULE Cloning_proofs ----------------------------
(***************************************************************************)
(* Proofs about Cloning, for any number of IDs, wrappers, requests and     *)
(* calls.  Types hold, and no pointer dangles, whatever the clients do.    *)
(* As long as they wait for a clone to settle before they touch it again,  *)
(* and the idle check meets no other deletion or reset, the cloning        *)
(* service is a caller that SerialSessions describes, and what             *)
(* SerialSessions promises holds for the clones of the registry.           *)
(***************************************************************************)
EXTENDS Cloning, TLAPS

\* SerialSessions with its theorems, for the sessions of the registry.
SP == INSTANCE SerialSessions_proofs WITH clone <- Recorded

\* Clients wait, and the two actors that do not look whether an operation is
\* in progress meet none: stopObservation is not at work, and the idle check is
\* the only one that deletes or resets clones, if it is at work.
WaitingClients ==
  /\ ClientsWait /\ "observe" \notin Requests
  /\ "idle" \in Requests => PromptStops /\ Requests \cap {"destroy", "reset"} = {}

-----------------------------------------------------------------------------
(* The inductive invariant *)

\* A wrapper exists as long as it is registered, under its ID.
Registered(w) == \E i \in IDs : clones[i] = w

RegistryInv ==
  /\ \A i \in IDs : clones[i] # None =>
       wrapper[clones[i]] # None /\ wrapper[clones[i]].id = i
  /\ \A w \in Wrappers : ~Registered(w) => wrapper[w] = None /\ session[w] = None
  /\ \A w \in Wrappers :
       wrapper[w] # None /\ wrapper[w].status = "OK" => session[w] # None

\* A call works for a registered clone, whose status says so.
CallOf(c) ==
  LET w == call[c].wrapper
  IN /\ w \in Wrappers /\ wrapper[w] # None
     /\ call[c].op = "start" =>
          wrapper[w].snapshot = call[c].snapshot /\ wrapper[w].status = "CREATING"
     /\ call[c].op = "stop" => wrapper[w].status = "DELETING"
     /\ call[c].op = "reset" => wrapper[w].status = "RESETTING" /\ "reset" \in Requests

CallsInv == \A c \in Calls : pc[c] # "idle" => CallOf(c)

\* The wrapper a handler has found is still the one registered under its ID.
Found(h) ==
  LET w == handler[h].wrapper
  IN w \in Wrappers /\ clones[handler[h].id] = w

\* A goroutine that deletes has been asked to.
Deletes(h) == IF h = IdleChecker THEN "idle" \in Requests ELSE "destroy" \in Requests

\* What a handler relies on between two of its critical sections.  The clone the
\* idle check is going to delete may become protected meanwhile.
HandlerOf(h) ==
  LET k == handler[h]
  IN \/ k = Idle
     \/ /\ k.id \in IDs
        /\ \/ /\ k.pc = "createSet" /\ h # IdleChecker /\ k.wrapper = None
              /\ clones[k.id] = None /\ k.snapshot \in Snapshots
           \/ /\ k.pc = "destroyFind" /\ h = IdleChecker /\ "idle" \in Requests
              /\ k.wrapper = None /\ clones[k.id] # None
           \/ /\ k.pc = "destroyMark" /\ Deletes(h) /\ Found(h)
              /\ h # IdleChecker => ~Protected(k.wrapper)
           \/ /\ k.pc = "destroyGo" /\ Deletes(h) /\ Found(h)
              /\ wrapper[k.wrapper].status = "DELETING"
           \/ /\ k.pc = "resetMark" /\ h # IdleChecker /\ "reset" \in Requests /\ Found(h)
              /\ session[k.wrapper] # None /\ k.snapshot \in Snapshots

HandlersInv == \A h \in Goroutines : HandlerOf(h)

\* One request or one call at a time works for an ID.
OneAgent ==
  /\ \A h, g \in Goroutines :
       handler[h].id # None /\ handler[h].id = handler[g].id => h = g
  /\ \A h \in Goroutines, c \in Calls : pc[c] # "idle" => handler[h].id # IdOf(c)

WaitInv ==
  /\ CloningTypeOK
  /\ RegistryInv
  /\ CallsInv
  /\ HandlersInv
  /\ OneAgent

-----------------------------------------------------------------------------
(* The steps of the Provisioner are those of the instance *)

LEMMA SerialAssumptions == SP!ProvisionAssumption /\ SP!SerialAssumption
<1>1. SP!ProvisionAssumption
  BY ProvisionAssumption DEF SP!ProvisionAssumption, SP!Ports, Ports, SP!Commands, Commands
<1>2. SP!SerialAssumption
  BY RecordsAssumption
     DEF SP!SerialAssumption, SP!CloneRecords, Serial!CloneRecords
<1> QED
  BY <1>1, <1>2

LEMMA SamePorts == SP!Ports = Ports /\ Serial!Ports = Ports
BY DEF SP!Ports, Serial!Ports, Ports

LEMMA SameReachable ==
  ASSUME NEW p
  PROVE  (SP!Reachable(p) <=> Reachable(p)) /\ (Serial!Reachable(p) <=> Reachable(p))
<1>1. \A q : (SP!Listening(q) <=> Listening(q)) /\ (Serial!Listening(q) <=> Listening(q))
  BY DEF SP!Listening, Serial!Listening, Listening
<1>2. \A S : SP!Cardinality(S) = Cardinality(S) /\ Serial!Cardinality(S) = Cardinality(S)
  BY DEF SP!Cardinality, Serial!Cardinality, Cardinality
<1> DEFINE free == {q \in Ports : q < p /\ ~bind[q]}
<1>3. Reachable(p) <=>
        /\ ~bind[p] /\ ~Listening(p)
        /\ \A q \in Ports : q < p => bind[q] \/ Listening(q)
        /\ Cardinality(free) < MaxNumberOfPortsToCheck
  BY DEF Reachable
<1>4. SP!Reachable(p) <=>
        /\ ~bind[p] /\ ~SP!Listening(p)
        /\ \A q \in Ports : q < p => bind[q] \/ SP!Listening(q)
        /\ SP!Cardinality(free) < MaxNumberOfPortsToCheck
  BY SamePorts DEF SP!Reachable
<1>5. Serial!Reachable(p) <=>
        /\ ~bind[p] /\ ~Serial!Listening(p)
        /\ \A q \in Ports : q < p => bind[q] \/ Serial!Listening(q)
        /\ Serial!Cardinality(free) < MaxNumberOfPortsToCheck
  BY SamePorts DEF Serial!Reachable
<1> HIDE DEF free
<1> QED
  BY <1>1, <1>2, <1>3, <1>4, <1>5

LEMMA SameLookups ==
  ASSUME NEW c
  PROVE  /\ (SP!GetSnapshot(c) <=> GetSnapshot(c))
         /\ (Serial!GetSnapshot(c) <=> GetSnapshot(c))
         /\ (SP!GetFSManager(c) <=> GetFSManager(c))
         /\ (Serial!GetFSManager(c) <=> GetFSManager(c))
         /\ (SP!SwitchPool(c) <=> SwitchPool(c))
         /\ (Serial!SwitchPool(c) <=> SwitchPool(c))
         /\ (SP!AllocatePort(c) <=> AllocatePort(c))
         /\ (Serial!AllocatePort(c) <=> AllocatePort(c))
<1> USE DEF SP!Goto, Serial!Goto, Goto, SP!MayFail, Serial!MayFail, MayFail
<1>1. (SP!GetSnapshot(c) <=> GetSnapshot(c)) /\ (Serial!GetSnapshot(c) <=> GetSnapshot(c))
  BY DEF SP!GetSnapshot, Serial!GetSnapshot, GetSnapshot
<1>2. (SP!GetFSManager(c) <=> GetFSManager(c)) /\ (Serial!GetFSManager(c) <=> GetFSManager(c))
  BY DEF SP!GetFSManager, Serial!GetFSManager, GetFSManager
<1>3. (SP!SwitchPool(c) <=> SwitchPool(c)) /\ (Serial!SwitchPool(c) <=> SwitchPool(c))
  BY DEF SP!SwitchPool, Serial!SwitchPool, SwitchPool,
     SP!MoveSession, Serial!MoveSession, MoveSession
<1>4. (SP!AllocatePort(c) <=> AllocatePort(c)) /\ (Serial!AllocatePort(c) <=> AllocatePort(c))
  BY SamePorts, SameReachable DEF SP!AllocatePort, Serial!AllocatePort, AllocatePort
<1> QED
  BY <1>1, <1>2, <1>3, <1>4

LEMMA SameBuild ==
  ASSUME NEW c
  PROVE  /\ (SP!CreateClone(c) <=> CreateClone(c))
         /\ (Serial!CreateClone(c) <=> CreateClone(c))
         /\ (SP!StartPostgres(c) <=> StartPostgres(c))
         /\ (Serial!StartPostgres(c) <=> StartPostgres(c))
         /\ (SP!PrepareDB(c) <=> PrepareDB(c))
         /\ (Serial!PrepareDB(c) <=> PrepareDB(c))
<1> USE DEF SP!Goto, Serial!Goto, Goto, SP!MayFail, Serial!MayFail, MayFail,
        SP!NoContainer, Serial!NoContainer, NoContainer,
        SP!CloneExists, Serial!CloneExists, CloneExists
<1>1. (SP!CreateClone(c) <=> CreateClone(c)) /\ (Serial!CreateClone(c) <=> CreateClone(c))
  BY DEF SP!CreateClone, Serial!CreateClone, CreateClone
<1>2. (SP!StartPostgres(c) <=> StartPostgres(c)) /\ (Serial!StartPostgres(c) <=> StartPostgres(c))
  BY DEF SP!StartPostgres, Serial!StartPostgres, StartPostgres
<1>3. (SP!PrepareDB(c) <=> PrepareDB(c)) /\ (Serial!PrepareDB(c) <=> PrepareDB(c))
  BY DEF SP!PrepareDB, Serial!PrepareDB, PrepareDB
<1> QED
  BY <1>1, <1>2, <1>3

LEMMA SameTakeDown ==
  ASSUME NEW c
  PROVE  /\ (SP!StopPostgres(c) <=> StopPostgres(c))
         /\ (Serial!StopPostgres(c) <=> StopPostgres(c))
         /\ (SP!DestroyClone(c) <=> DestroyClone(c))
         /\ (Serial!DestroyClone(c) <=> DestroyClone(c))
         /\ (SP!FreePort(c) <=> FreePort(c))
         /\ (Serial!FreePort(c) <=> FreePort(c))
         /\ (SP!RevertStop(c) <=> RevertStop(c))
         /\ (Serial!RevertStop(c) <=> RevertStop(c))
         /\ (SP!RevertDestroy(c) <=> RevertDestroy(c))
         /\ (Serial!RevertDestroy(c) <=> RevertDestroy(c))
<1> USE DEF SP!Goto, Serial!Goto, Goto, SP!MayFail, Serial!MayFail, MayFail,
        SP!NoContainer, Serial!NoContainer, NoContainer,
        SP!CloneExists, Serial!CloneExists, CloneExists
<1>1. (SP!StopPostgres(c) <=> StopPostgres(c)) /\ (Serial!StopPostgres(c) <=> StopPostgres(c))
  BY DEF SP!StopPostgres, Serial!StopPostgres, StopPostgres,
     SP!AfterStop, Serial!AfterStop, AfterStop
<1>2. \A q, p : /\ (SP!Destroys(q, p) <=> Destroys(q, p))
                /\ (Serial!Destroys(q, p) <=> Destroys(q, p))
                /\ (SP!DestroyFails(q, p) <=> DestroyFails(q, p))
                /\ (Serial!DestroyFails(q, p) <=> DestroyFails(q, p))
  BY DEF SP!Destroys, Serial!Destroys, Destroys,
     SP!DestroyFails, Serial!DestroyFails, DestroyFails
<1>3. (SP!DestroyClone(c) <=> DestroyClone(c)) /\ (Serial!DestroyClone(c) <=> DestroyClone(c))
  BY <1>2 DEF SP!DestroyClone, Serial!DestroyClone, DestroyClone
<1>4. (SP!FreePort(c) <=> FreePort(c)) /\ (Serial!FreePort(c) <=> FreePort(c))
  BY DEF SP!FreePort, Serial!FreePort, FreePort
<1>5. (SP!RevertStop(c) <=> RevertStop(c)) /\ (Serial!RevertStop(c) <=> RevertStop(c))
  BY DEF SP!RevertStop, Serial!RevertStop, RevertStop
<1>6. (SP!RevertDestroy(c) <=> RevertDestroy(c)) /\ (Serial!RevertDestroy(c) <=> RevertDestroy(c))
  BY <1>2 DEF SP!RevertDestroy, Serial!RevertDestroy, RevertDestroy,
     SP!AfterRevert, Serial!AfterRevert, AfterRevert
<1> QED
  BY <1>1, <1>3, <1>4, <1>5, <1>6

\* A step of the Provisioner is the same step in all three.
LEMMA SameSteps ==
  ASSUME NEW c
  PROVE  /\ (SP!ProvisionStep(c) <=> ProvisionStep(c))
         /\ (Serial!ProvisionStep(c) <=> ProvisionStep(c))
BY SameLookups, SameBuild, SameTakeDown
   DEF SP!ProvisionStep, Serial!ProvisionStep, ProvisionStep

LEMMA SameSerial ==
  /\ (SP!Init <=> Serial!Init)
  /\ ([SP!Next]_SP!serialVars <=> [Serial!Next]_Serial!serialVars)
<1>1. SP!Init <=> Serial!Init
  BY SamePorts DEF SP!Init, Serial!Init, SP!ProvisionInit, Serial!ProvisionInit,
     SP!NoContainer, Serial!NoContainer, SP!NoCall, Serial!NoCall
<1>2. SP!serialVars = Serial!serialVars
  BY DEF SP!serialVars, Serial!serialVars, SP!provisionVars, Serial!provisionVars
<1>3. (UNCHANGED SP!serialVars) <=> (UNCHANGED Serial!serialVars)
  BY DEF SP!serialVars, Serial!serialVars, SP!provisionVars, Serial!provisionVars
<1>4. ASSUME NEW c \in Calls, NEW w \in Wrappers
      PROVE  SP!Stop(c, w) <=> Serial!Stop(c, w)
  BY DEF SP!Stop, Serial!Stop, SP!Busy, Serial!Busy, SP!InvokeStop, Serial!InvokeStop,
     SP!Goto, Serial!Goto
<1>5. ASSUME NEW c \in Calls, NEW w \in Wrappers, NEW s \in Snapshots
      PROVE  /\ (SP!Start(c, w, s) <=> Serial!Start(c, w, s))
             /\ (SP!Reset(c, w, s) <=> Serial!Reset(c, w, s))
  BY DEF SP!Start, Serial!Start, SP!Reset, Serial!Reset, SP!Busy, Serial!Busy,
     SP!InvokeStart, Serial!InvokeStart, SP!InvokeReset, Serial!InvokeReset,
     SP!Goto, Serial!Goto
<1>6. ASSUME NEW c \in Calls
      PROVE  SP!Return(c) <=> Serial!Return(c)
  BY DEF SP!Return, Serial!Return, SP!Goto, Serial!Goto, SP!NoCall, Serial!NoCall
<1>7. ASSUME NEW w \in Wrappers
      PROVE  SP!Withdraw(w) <=> Serial!Withdraw(w)
  BY DEF SP!Withdraw, Serial!Withdraw, SP!provisionVars, Serial!provisionVars
<1>8. SP!Next <=> Serial!Next
  BY <1>4, <1>5, <1>6, <1>7, SameSteps DEF SP!Next, Serial!Next
<1> QED
  BY <1>1, <1>3, <1>8

\* What the invariant of SerialSessions says of the calls of the registry.
LEMMA SerialFacts ==
  ASSUME SP!DisciplineInv
  PROVE  /\ ProvisionTypeOK
         /\ \A c \in Calls :
              \/ pc[c] = "idle" /\ call[c] = NoCall
              \/ /\ pc[c] # "idle" /\ call[c].op = "start"
                 /\ call[c].wrapper \in Wrappers /\ session[call[c].wrapper] = None
                 /\ call[c].snapshot \in Snapshots /\ call[c].newPool \in Pools
                 /\ pc[c] = "ok" => call[c].port \in Ports
              \/ /\ pc[c] # "idle" /\ call[c].op \in {"stop", "reset"}
                 /\ call[c].wrapper \in Wrappers /\ session[call[c].wrapper] # None
                 /\ call[c].op = "reset" => call[c].snapshot \in Snapshots
         /\ \A c, d \in Calls :
              pc[c] # "idle" /\ pc[d] # "idle" /\ call[c].wrapper = call[d].wrapper
              => c = d
<1>1. ProvisionTypeOK
  BY SamePorts DEF SP!DisciplineInv, SP!SerialTypeOK, SP!ProvisionTypeOK, ProvisionTypeOK,
     SP!Containers, Containers, SP!SessionRecords, SessionRecords,
     SP!CallRecords, CallRecords, SP!Steps, Steps
<1>2. ASSUME NEW c \in Calls
      PROVE  \/ pc[c] = "idle" /\ call[c] = NoCall
             \/ /\ pc[c] # "idle" /\ call[c].op = "start"
                /\ call[c].wrapper \in Wrappers /\ session[call[c].wrapper] = None
                /\ call[c].snapshot \in Snapshots /\ call[c].newPool \in Pools
                /\ pc[c] = "ok" => call[c].port \in Ports
             \/ /\ pc[c] # "idle" /\ call[c].op \in {"stop", "reset"}
                /\ call[c].wrapper \in Wrappers /\ session[call[c].wrapper] # None
                /\ call[c].op = "reset" => call[c].snapshot \in Snapshots
  BY SamePorts DEF SP!DisciplineInv, SP!CallInv, SP!StartCall, SP!SessionCall, SP!NoCall, NoCall
<1>3. \A c, d \in Calls :
        pc[c] # "idle" /\ pc[d] # "idle" /\ call[c].wrapper = call[d].wrapper => c = d
  BY DEF SP!DisciplineInv, SP!OneCall
<1> QED
  BY <1>1, <1>2, <1>3

-----------------------------------------------------------------------------
(* What the critical sections find and do *)

LEMMA RegisteredWrapper ==
  ASSUME WaitInv, NEW w \in Wrappers, wrapper[w] # None
  PROVE  /\ wrapper[w] \in CloneRecords /\ wrapper[w].id \in IDs
         /\ clones[wrapper[w].id] = w /\ Registered(w)
<1>1. wrapper[w] \in CloneRecords
  BY DEF WaitInv, CloningTypeOK
<1>2. Registered(w)
  BY DEF WaitInv, RegistryInv
<1>3. PICK i \in IDs : clones[i] = w
  BY <1>2 DEF Registered
<1>4. w # None
  BY ProvisionAssumption
<1>5. wrapper[w].id = i
  BY <1>3, <1>4 DEF WaitInv, RegistryInv
<1> QED
  BY <1>1, <1>2, <1>3, <1>5

\* No client and no call is at work for the ID of a request that arrives, and the
\* idle check is not, unless all that is asked is to change the protection.
LEMMA ArrivesAlone ==
  ASSUME WaitingClients, WaitInv, NEW h, NEW kind, NEW i \in IDs, Request(h, kind, i)
  PROVE  /\ h \in Handlers /\ h # IdleChecker /\ handler[h] = Idle /\ kind \in Requests
         /\ \A g \in Goroutines \ {IdleChecker} : handler[g].id # i
         /\ clones[i] = None \/ kind \in {"destroy", "reset"} =>
              handler[IdleChecker].id # i
         /\ \A c \in Calls : pc[c] # "idle" => IdOf(c) # i
<1>1. /\ h \in Handlers /\ handler[h] = Idle /\ ~Pending(i) /\ kind \in Requests
      /\ h # IdleChecker
  BY CloningAssumption DEF Request, WaitingClients
<1>2. HandlerOf(IdleChecker)
  BY DEF WaitInv, HandlersInv, Goroutines
<1>3. i # None
  BY CloningAssumption
<1>4. ASSUME clones[i] = None \/ kind \in {"destroy", "reset"}
      PROVE  handler[IdleChecker].id # i
  <2>1. CASE "idle" \in Requests
    BY <1>1, <1>2, <1>3, <1>4, <2>1, ProvisionAssumption
       DEF HandlerOf, Idle, Found, WaitingClients
  <2>2. CASE "idle" \notin Requests
    BY <1>2, <1>3, <2>2 DEF HandlerOf, Idle, Deletes
  <2> QED
    BY <2>1, <2>2
<1> QED
  BY <1>1, <1>3, <1>4 DEF Pending, Goroutines

\* As long as nobody leaves the registry, nothing becomes garbage.
LEMMA KeepAll ==
  ASSUME UNCHANGED clones,
         NEW ws, NEW ss, ws = [w \in Wrappers |-> ws[w]], ss = [w \in Wrappers |-> ss[w]],
         \A w \in Wrappers : ~Registered(w) => ws[w] = None /\ ss[w] = None,
         Keep(ws, ss)
  PROVE  wrapper' = ws /\ session' = ss
<1>1. \A w \in Wrappers : Registered(w) => Referenced(w)'
  BY DEF Registered, Referenced
<1>2. \A w \in Wrappers : wrapper'[w] = ws[w] /\ session'[w] = ss[w]
  BY <1>1 DEF Keep
<1>3. /\ wrapper' = [w \in Wrappers |-> wrapper'[w]]
      /\ session' = [w \in Wrappers |-> session'[w]]
  BY DEF Keep
<1> QED
  BY <1>2, <1>3

\* The same for a change of the status of a registered clone.
LEMMA KeepStatus ==
  ASSUME WaitInv, ProvisionTypeOK, UNCHANGED clones,
         NEW w \in Wrappers, wrapper[w] # None, NEW status \in Statuses,
         Keep(WithStatus(wrapper[w].id, status), session)
  PROVE  wrapper' = [wrapper EXCEPT ![w].status = status] /\ session' = session
<1>1. clones[wrapper[w].id] = w /\ w # None /\ Registered(w)
  BY RegisteredWrapper, ProvisionAssumption
<1>2. WithStatus(wrapper[w].id, status) = [wrapper EXCEPT ![w].status = status]
  BY <1>1 DEF WithStatus
<1>3. /\ wrapper = [v \in Wrappers |-> wrapper[v]]
      /\ session = [v \in Wrappers |-> session[v]]
  BY DEF WaitInv, CloningTypeOK, ProvisionTypeOK
<1>4. \A v \in Wrappers : ~Registered(v) =>
        [wrapper EXCEPT ![w].status = status][v] = None /\ session[v] = None
  BY <1>1, <1>3 DEF WaitInv, RegistryInv
<1>5. [wrapper EXCEPT ![w].status = status]
        = [v \in Wrappers |-> [wrapper EXCEPT ![w].status = status][v]]
  BY <1>3
<1>6. Keep([wrapper EXCEPT ![w].status = status], session)
  BY <1>2
<1> QED
  BY <1>3, <1>4, <1>5, <1>6, KeepAll

\* A clone that leaves the registry is forgotten by everybody.
LEMMA KeepOthers ==
  ASSUME WaitInv, ProvisionTypeOK, NEW w \in Wrappers, wrapper[w] # None,
         clones' = [clones EXCEPT ![wrapper[w].id] = None],
         \A h \in Goroutines : handler'[h].wrapper # w,
         \A c \in Calls : pc'[c] # "idle" => call'[c].wrapper # w,
         Keep(wrapper, session)
  PROVE  /\ wrapper' = [wrapper EXCEPT ![w] = None]
         /\ session' = [session EXCEPT ![w] = None]
<1>1. clones[wrapper[w].id] = w /\ w # None
  BY RegisteredWrapper, ProvisionAssumption
<1>2. \A i \in IDs : clones[i] = w => i = wrapper[w].id
  BY <1>1 DEF WaitInv, RegistryInv
<1>3. clones \in [IDs -> Wrappers \cup {None}]
  BY DEF WaitInv, CloningTypeOK
<1>4. ~Referenced(w)'
  BY <1>1, <1>2, <1>3 DEF Referenced
<1>5. \A v \in Wrappers \ {w} : Registered(v) => Referenced(v)'
  BY <1>1, <1>3 DEF Registered, Referenced
<1>6. \A v \in Wrappers \ {w} : ~Registered(v) => wrapper[v] = None /\ session[v] = None
  BY DEF WaitInv, RegistryInv
<1>7. \A v \in Wrappers :
        /\ wrapper'[v] = [wrapper EXCEPT ![w] = None][v]
        /\ session'[v] = [session EXCEPT ![w] = None][v]
  BY <1>4, <1>5, <1>6 DEF Keep, WaitInv, CloningTypeOK, ProvisionTypeOK
<1>8. /\ wrapper' = [v \in Wrappers |-> wrapper'[v]]
      /\ session' = [v \in Wrappers |-> session'[v]]
  BY DEF Keep
<1>9. /\ wrapper \in [Wrappers -> CloneRecords \cup {None}]
      /\ session \in [Wrappers -> SessionRecords \cup {None}]
  BY DEF WaitInv, CloningTypeOK, ProvisionTypeOK
<1> QED
  BY <1>7, <1>8, <1>9

LEMMA CreateSetEffect ==
  ASSUME WaitInv, SP!DisciplineInv, NEW h \in Goroutines, NEW w \in Wrappers, NEW c \in Calls,
         NEW protected \in BOOLEAN, CreateSet(h, w, c, protected)
  PROVE  /\ handler[h].id \in IDs /\ handler[h].snapshot \in Snapshots
         /\ clones[handler[h].id] = None /\ h # IdleChecker
         /\ wrapper[w] = None /\ session[w] = None /\ ~Registered(w)
         /\ \A d \in Calls : pc[d] # "idle" => call[d].wrapper # w
         /\ wrapper' = [wrapper EXCEPT ![w] =
              [id |-> handler[h].id, status |-> "CREATING",
               snapshot |-> handler[h].snapshot, protected |-> protected]]
         /\ session' = session
<1> DEFINE i == handler[h].id
           new == [id |-> i, status |-> "CREATING", snapshot |-> handler[h].snapshot,
                   protected |-> protected]
<1>1. handler[h].pc = "createSet" /\ ~Referenced(w)
  BY DEF CreateSet
<1>2. HandlerOf(h)
  BY DEF WaitInv, HandlersInv
<1>3. /\ i \in IDs /\ handler[h].snapshot \in Snapshots
      /\ clones[i] = None /\ h # IdleChecker
  BY <1>1, <1>2 DEF HandlerOf, Idle
<1>4. /\ ~Registered(w)
      /\ \A d \in Calls : pc[d] # "idle" => call[d].wrapper # w
  BY <1>1 DEF Referenced, Registered
<1>5. wrapper[w] = None /\ session[w] = None
  BY <1>4 DEF WaitInv, RegistryInv
<1>6. clones' = [clones EXCEPT ![i] = w] /\ Keep([wrapper EXCEPT ![w] = new], session)
  BY DEF CreateSet
<1>7. /\ clones \in [IDs -> Wrappers \cup {None}] /\ w # None
      /\ wrapper \in [Wrappers -> CloneRecords \cup {None}]
      /\ session \in [Wrappers -> SessionRecords \cup {None}]
  BY SerialFacts, ProvisionAssumption DEF WaitInv, CloningTypeOK, ProvisionTypeOK
<1>8. \A v \in Wrappers : v = w \/ Registered(v) => Referenced(v)'
  BY <1>3, <1>6, <1>7, ProvisionAssumption DEF Registered, Referenced
<1>9. \A v \in Wrappers : v # w /\ ~Registered(v) => wrapper[v] = None /\ session[v] = None
  BY DEF WaitInv, RegistryInv
<1> HIDE DEF i, new
<1>10. \A v \in Wrappers :
         wrapper'[v] = [wrapper EXCEPT ![w] = new][v] /\ session'[v] = session[v]
  BY <1>6, <1>7, <1>8, <1>9 DEF Keep
<1>11. /\ wrapper' = [v \in Wrappers |-> wrapper'[v]]
       /\ session' = [v \in Wrappers |-> session'[v]]
  BY <1>6 DEF Keep
<1>12. wrapper' = [wrapper EXCEPT ![w] = new] /\ session' = session
  BY <1>7, <1>10, <1>11
<1> QED
  BY <1>3, <1>4, <1>5, <1>12 DEF i, new

\* The clone a call works for is the one registered under its ID.
LEMMA CallWrapper ==
  ASSUME WaitInv, SP!DisciplineInv, NEW c \in Calls, pc[c] # "idle"
  PROVE  /\ call[c].wrapper \in Wrappers /\ wrapper[call[c].wrapper] # None
         /\ CallOf(c) /\ IdOf(c) \in IDs /\ clones[IdOf(c)] = call[c].wrapper
         /\ \A h \in Goroutines : handler[h].wrapper # call[c].wrapper
         /\ \A d \in Calls \ {c} : pc[d] # "idle" => call[d].wrapper # call[c].wrapper
<1> DEFINE w == call[c].wrapper
<1>1. w \in Wrappers /\ wrapper[w] # None /\ CallOf(c)
  BY DEF WaitInv, CallsInv, CallOf
<1>2. IdOf(c) \in IDs /\ clones[IdOf(c)] = w /\ w # None
  BY <1>1, RegisteredWrapper, ProvisionAssumption DEF IdOf
<1>3. ASSUME NEW h \in Goroutines, handler[h].wrapper = w
      PROVE  FALSE
  <2>1. handler[h].id \in IDs /\ clones[handler[h].id] = w
    BY <1>2, <1>3 DEF WaitInv, HandlersInv, HandlerOf, Found, Idle
  <2>2. handler[h].id = IdOf(c)
    BY <1>2, <2>1 DEF WaitInv, RegistryInv
  <2> QED
    BY <2>2 DEF WaitInv, OneAgent
<1>4. \A d \in Calls \ {c} : pc[d] # "idle" => call[d].wrapper # w
  BY SerialFacts
<1> QED
  BY <1>1, <1>2, <1>3, <1>4

LEMMA StartDoneEffect ==
  ASSUME WaitInv, SP!DisciplineInv, NEW c \in Calls, pc[c] \in {"ok", "err"}, StartDone(c)
  PROVE  LET w == call[c].wrapper
         IN \/ /\ pc[c] = "ok"
               /\ wrapper' = [wrapper EXCEPT ![w].status = "OK"]
               /\ session' = [session EXCEPT ![w] =
                    [port |-> call[c].port, pool |-> call[c].newPool]]
            \/ /\ pc[c] = "err"
               /\ wrapper' = [wrapper EXCEPT ![w].status = "FATAL"]
               /\ session' = session
<1> DEFINE w == call[c].wrapper
           i == IdOf(c)
           result == [port |-> call[c].port, pool |-> call[c].newPool]
<1>1. /\ w \in Wrappers /\ wrapper[w] # None /\ w # None /\ clones[i] = w
      /\ i = wrapper[w].id /\ ProvisionTypeOK
  BY CallWrapper, SerialFacts, ProvisionAssumption DEF IdOf
<1>2. CASE pc[c] = "ok"
  <2>1. /\ clones' = clones
        /\ Keep(WithStatus(i, "OK"), [session EXCEPT ![w] = result])
    BY <1>1, <1>2 DEF StartDone
  <2>2. WithStatus(i, "OK") = [wrapper EXCEPT ![w].status = "OK"]
    BY <1>1 DEF WithStatus
  <2>3. Registered(w)
    BY <1>1, RegisteredWrapper
  <2>4. /\ wrapper = [v \in Wrappers |-> wrapper[v]]
        /\ session = [v \in Wrappers |-> session[v]]
    BY <1>1 DEF WaitInv, CloningTypeOK, ProvisionTypeOK
  <2> HIDE DEF result, i, w
  <2>5. /\ [wrapper EXCEPT ![w].status = "OK"]
             = [v \in Wrappers |-> [wrapper EXCEPT ![w].status = "OK"][v]]
        /\ [session EXCEPT ![w] = result]
             = [v \in Wrappers |-> [session EXCEPT ![w] = result][v]]
    BY <2>4
  <2>6. \A v \in Wrappers : ~Registered(v) =>
          /\ [wrapper EXCEPT ![w].status = "OK"][v] = None
          /\ [session EXCEPT ![w] = result][v] = None
    BY <2>3, <2>4 DEF WaitInv, RegistryInv
  <2>7. Keep([wrapper EXCEPT ![w].status = "OK"], [session EXCEPT ![w] = result])
    BY <2>1, <2>2
  <2>8. /\ wrapper' = [wrapper EXCEPT ![w].status = "OK"]
        /\ session' = [session EXCEPT ![w] = result]
    BY <2>1, <2>5, <2>6, <2>7, KeepAll
  <2> QED
    BY <1>2, <2>8 DEF result, w
<1>3. CASE pc[c] = "err"
  <2>1. clones' = clones /\ Keep(WithStatus(wrapper[w].id, "FATAL"), session)
    BY <1>1, <1>3 DEF StartDone
  <2> QED
    BY <1>1, <1>3, <2>1, KeepStatus DEF Statuses
<1> QED
  BY <1>2, <1>3

LEMMA StopDoneEffect ==
  ASSUME WaitInv, SP!DisciplineInv, NEW c \in Calls, pc[c] \in {"ok", "err"}, StopDone(c)
  PROVE  LET w == call[c].wrapper
         IN \/ /\ pc[c] = "ok"
               /\ clones' = [clones EXCEPT ![IdOf(c)] = None]
               /\ wrapper' = [wrapper EXCEPT ![w] = None]
               /\ session' = [session EXCEPT ![w] = None]
            \/ /\ pc[c] = "err"
               /\ clones' = clones
               /\ wrapper' = [wrapper EXCEPT ![w].status = "FATAL"]
               /\ session' = session
<1> DEFINE w == call[c].wrapper
<1>1. /\ w \in Wrappers /\ wrapper[w] # None
      /\ IdOf(c) = wrapper[w].id /\ ProvisionTypeOK
  BY CallWrapper, SerialFacts DEF IdOf
<1>2. CASE pc[c] = "ok"
  <2>1. clones' = [clones EXCEPT ![wrapper[w].id] = None] /\ Keep(wrapper, session)
    BY <1>1, <1>2 DEF StopDone
  <2>2. \A h \in Goroutines : handler'[h].wrapper # w
    BY CallWrapper DEF StopDone
  <2>3. \A d \in Calls : pc'[d] # "idle" => call'[d].wrapper # w
    BY <1>1, CallWrapper DEF StopDone, Goto, ProvisionTypeOK
  <2> QED
    BY <1>1, <1>2, <2>1, <2>2, <2>3, KeepOthers
<1>3. CASE pc[c] = "err"
  <2>1. clones' = clones /\ Keep(WithStatus(wrapper[w].id, "FATAL"), session)
    BY <1>1, <1>3 DEF StopDone
  <2> QED
    BY <1>1, <1>3, <2>1, KeepStatus DEF Statuses
<1> QED
  BY <1>2, <1>3

LEMMA ResetDoneEffect ==
  ASSUME WaitInv, SP!DisciplineInv, NEW c \in Calls, pc[c] \in {"ok", "err"}, ResetDone(c)
  PROVE  LET w == call[c].wrapper
         IN /\ session' = session
            /\ \/ /\ pc[c] = "ok"
                  /\ wrapper' = [wrapper EXCEPT ![w].status = "OK",
                                                ![w].snapshot = call[c].snapshot]
               \/ /\ pc[c] = "err"
                  /\ wrapper' = [wrapper EXCEPT ![w].status = "FATAL"]
<1> DEFINE w == call[c].wrapper
           i == IdOf(c)
           next == [wrapper EXCEPT ![w].status = "OK", ![w].snapshot = call[c].snapshot]
<1>1. /\ w \in Wrappers /\ wrapper[w] # None /\ w # None /\ clones[i] = w
      /\ i = wrapper[w].id /\ ProvisionTypeOK
  BY CallWrapper, SerialFacts, ProvisionAssumption DEF IdOf
<1>2. CASE pc[c] = "ok"
  <2>1. /\ clones' = clones
        /\ Keep([WithStatus(i, "OK") EXCEPT ![w].snapshot = call[c].snapshot], session)
    BY <1>1, <1>2 DEF ResetDone
  <2>2. WithStatus(i, "OK") = [wrapper EXCEPT ![w].status = "OK"]
    BY <1>1 DEF WithStatus
  <2>3. [WithStatus(i, "OK") EXCEPT ![w].snapshot = call[c].snapshot] = next
    BY <2>2
  <2>4. Registered(w)
    BY <1>1, RegisteredWrapper
  <2>5. /\ wrapper = [v \in Wrappers |-> wrapper[v]]
        /\ session = [v \in Wrappers |-> session[v]]
    BY <1>1 DEF WaitInv, CloningTypeOK, ProvisionTypeOK
  <2>6. next = [v \in Wrappers |-> next[v]]
    BY <2>5
  <2>7. \A v \in Wrappers : ~Registered(v) => next[v] = None /\ session[v] = None
    BY <2>4, <2>5 DEF WaitInv, RegistryInv
  <2>8. clones' = clones /\ Keep(next, session)
    BY <2>1, <2>3
  <2> HIDE DEF next
  <2>9. wrapper' = next /\ session' = session
    BY <2>5, <2>6, <2>7, <2>8, KeepAll
  <2> QED
    BY <1>2, <2>9 DEF next
<1>3. CASE pc[c] = "err"
  <2>1. clones' = clones /\ Keep(WithStatus(wrapper[w].id, "FATAL"), session)
    BY <1>1, <1>3 DEF ResetDone
  <2> QED
    BY <1>1, <1>3, <2>1, KeepStatus DEF Statuses
<1> QED
  BY <1>2, <1>3

\* What a handler that has found a clone works on.
LEMMA HandlerWrapper ==
  ASSUME WaitInv, NEW h \in Goroutines,
         handler[h].pc \in {"destroyMark", "destroyGo", "resetMark"}
  PROVE  LET w == handler[h].wrapper
         IN /\ w \in Wrappers /\ w # None /\ wrapper[w] # None
            /\ handler[h].id = wrapper[w].id /\ handler[h].id \in IDs
            /\ clones[handler[h].id] = w
            /\ \A g \in Goroutines \ {h} : handler[g].wrapper # w
            /\ \A c \in Calls : pc[c] # "idle" => call[c].wrapper # w
<1> DEFINE w == handler[h].wrapper
<1>1. w \in Wrappers /\ clones[handler[h].id] = w /\ handler[h].id \in IDs
  BY DEF WaitInv, HandlersInv, HandlerOf, Found, Idle
<1>2. w # None /\ wrapper[w] # None /\ wrapper[w].id = handler[h].id
  BY <1>1, ProvisionAssumption DEF WaitInv, RegistryInv
<1>3. ASSUME NEW g \in Goroutines \ {h}, handler[g].wrapper = w
      PROVE  FALSE
  <2>1. handler[g].id \in IDs /\ clones[handler[g].id] = w
    BY <1>2, <1>3 DEF WaitInv, HandlersInv, HandlerOf, Found, Idle
  <2>2. handler[g].id = handler[h].id /\ handler[g].id # None
    BY <1>2, <2>1, CloningAssumption DEF WaitInv, RegistryInv
  <2> QED
    BY <1>3, <2>2 DEF WaitInv, OneAgent
<1>4. \A c \in Calls : pc[c] # "idle" => call[c].wrapper # w
  BY <1>2 DEF WaitInv, OneAgent, IdOf
<1> QED
  BY <1>1, <1>2, <1>3, <1>4

LEMMA DestroyMarkEffect ==
  ASSUME WaitInv, SP!DisciplineInv, NEW h \in Goroutines, DestroyMark(h)
  PROVE  /\ handler' = [handler EXCEPT ![h].pc = "destroyGo"]
         /\ wrapper' = [wrapper EXCEPT ![handler[h].wrapper].status = "DELETING"]
         /\ session' = session
<1>1. handler[h].pc = "destroyMark"
  BY DEF DestroyMark
<1>2. clones[handler[h].id] # None /\ ProvisionTypeOK
  BY <1>1, HandlerWrapper, SerialFacts
<1>3. /\ clones' = clones /\ handler' = [handler EXCEPT ![h].pc = "destroyGo"]
      /\ Keep(WithStatus(handler[h].id, "DELETING"), session)
  BY <1>2 DEF DestroyMark
<1> QED
  BY <1>1, <1>2, <1>3, HandlerWrapper, KeepStatus DEF Statuses

LEMMA DestroyGoEffect ==
  ASSUME WaitInv, SP!DisciplineInv, NEW h \in Goroutines, NEW c \in Calls, DestroyGo(h, c)
  PROVE  LET w == handler[h].wrapper
         IN \/ /\ session[w] = None
               /\ clones' = [clones EXCEPT ![handler[h].id] = None]
               /\ wrapper' = [wrapper EXCEPT ![w] = None]
               /\ UNCHANGED <<session, pc, call>>
            \/ /\ InvokeStop(c, w)
               /\ UNCHANGED <<clones, wrapper, session>>
<1> DEFINE w == handler[h].wrapper
<1>1. handler[h].pc = "destroyGo"
  BY DEF DestroyGo
<1>2. /\ w \in Wrappers /\ wrapper[w] # None /\ handler[h].id = wrapper[w].id
      /\ ProvisionTypeOK /\ w # None
  BY <1>1, HandlerWrapper, SerialFacts
<1>3. Keep(wrapper, session)
  BY DEF DestroyGo
<1>4. /\ wrapper = [v \in Wrappers |-> wrapper[v]]
      /\ session = [v \in Wrappers |-> session[v]]
  BY <1>2 DEF WaitInv, CloningTypeOK, ProvisionTypeOK
<1>5. CASE session[w] = None /\ clones' = [clones EXCEPT ![handler[h].id] = None]
             /\ UNCHANGED <<pc, call>>
  <2>1. \A g \in Goroutines : handler'[g].wrapper # w
    BY <1>1, <1>2, HandlerWrapper DEF DestroyGo, Settle, Idle, WaitInv, CloningTypeOK
  <2>2. \A d \in Calls : pc'[d] # "idle" => call'[d].wrapper # w
    BY <1>1, <1>5, HandlerWrapper
  <2>3. /\ wrapper' = [wrapper EXCEPT ![w] = None]
        /\ session' = [session EXCEPT ![w] = None]
    BY <1>2, <1>3, <1>5, <2>1, <2>2, KeepOthers
  <2>4. [session EXCEPT ![w] = None] = session
    BY <1>4, <1>5
  <2> QED
    BY <1>5, <2>3, <2>4
<1>6. CASE InvokeStop(c, w) /\ UNCHANGED clones
  <2>1. \A v \in Wrappers : ~Registered(v) => wrapper[v] = None /\ session[v] = None
    BY DEF WaitInv, RegistryInv
  <2>2. clones' = clones
    BY <1>6
  <2>3. wrapper' = wrapper /\ session' = session
    BY <1>3, <1>4, <2>1, <2>2, KeepAll
  <2> QED
    BY <1>6, <2>3
<1> QED
  BY <1>5, <1>6 DEF DestroyGo

LEMMA ResetMarkEffect ==
  ASSUME WaitInv, SP!DisciplineInv, NEW h \in Goroutines, NEW c \in Calls, ResetMark(h, c)
  PROVE  /\ InvokeReset(c, handler[h].wrapper, handler[h].snapshot)
         /\ wrapper' = [wrapper EXCEPT ![handler[h].wrapper].status = "RESETTING"]
         /\ session' = session
<1>1. handler[h].pc = "resetMark"
  BY DEF ResetMark
<1>2. clones[handler[h].id] # None /\ ProvisionTypeOK
  BY <1>1, HandlerWrapper, SerialFacts
<1>3. /\ clones' = clones /\ InvokeReset(c, handler[h].wrapper, handler[h].snapshot)
      /\ Keep(WithStatus(handler[h].id, "RESETTING"), session)
  BY <1>2 DEF ResetMark
<1> QED
  BY <1>1, <1>2, <1>3, HandlerWrapper, KeepStatus DEF Statuses

-----------------------------------------------------------------------------
(* Every step is one of SerialSessions, or leaves its variables alone *)

SerialStep == [SP!Next]_SP!serialVars

\* The steps that are left without stopObservation.
LEMMA WaitingSteps ==
  ASSUME WaitingClients, WaitInv, Next
  PROVE  \/ \E c \in Calls :
              \/ ProvisionStep(c) /\ UNCHANGED cloningVars
              \/ CallDone(c)
         \/ \E h \in Goroutines :
              \/ \E w \in Wrappers, c \in Calls, protected \in BOOLEAN :
                   CreateSet(h, w, c, protected)
              \/ DestroyMark(h)
              \/ \E c \in Calls : DestroyGo(h, c) \/ ResetMark(h, c)
         \/ \E h \in Goroutines, i \in IDs :
              \/ \E s \in Snapshots : CreateFind(h, i, s) \/ ResetFind(h, i, s)
              \/ DestroyFind(h, i)
              \/ \E protected \in BOOLEAN : UpdateClone(h, i, protected)
         \/ \E i \in IDs : IdleFound(i)
         \/ IdleRefused
<1>1. \A h \in Goroutines : handler[h].pc # "observe"
  BY DEF WaitInv, HandlersInv, HandlerOf, Idle
<1>2. /\ \A h \in Goroutines, i \in IDs : ~ObserveStop(h, i)
      /\ \A h \in Goroutines : ~ObserveReturn(h)
  BY <1>1 DEF WaitingClients, ObserveStop, Request, ObserveReturn
<1> QED
  BY <1>2 DEF Next, GoroutineStep, HandlerStep, Arrival

LEMMA RecordedOf ==
  /\ Recorded = [w \in Wrappers |-> Recorded[w]]
  /\ Recorded' = [w \in Wrappers |-> Recorded'[w]]
  /\ \A w \in Wrappers : session[w] = None => Recorded[w] = None
  /\ \A w \in Wrappers : session'[w] = None => Recorded'[w] = None
  /\ \A w \in Wrappers : session[w] # None => Recorded[w] =
       [snapshot |-> wrapper[w].snapshot, ok |-> wrapper[w].status = "OK"]
  /\ \A w \in Wrappers : session'[w] # None => Recorded'[w] =
       [snapshot |-> wrapper'[w].snapshot, ok |-> wrapper'[w].status = "OK"]
BY DEF Recorded

\* What SerialSessions records changes for one clone at most.
LEMMA RecordedElsewhere ==
  ASSUME NEW w \in Wrappers,
         \A v \in Wrappers \ {w} : session'[v] = session[v] /\ wrapper'[v] = wrapper[v]
  PROVE  \A v \in Wrappers \ {w} : Recorded'[v] = Recorded[v]
BY RecordedOf

LEMMA StartStep ==
  ASSUME WaitInv, SP!DisciplineInv, NEW h \in Goroutines, NEW w \in Wrappers, NEW c \in Calls,
         NEW protected \in BOOLEAN, CreateSet(h, w, c, protected)
  PROVE  SerialStep
<1> DEFINE s == handler[h].snapshot
<1>1. /\ s \in Snapshots /\ session[w] = None /\ session' = session
      /\ \A d \in Calls : pc[d] # "idle" => call[d].wrapper # w
      /\ \A v \in Wrappers \ {w} : wrapper'[v] = wrapper[v]
  BY CreateSetEffect DEF WaitInv, CloningTypeOK
<1>2. Recorded'[w] = Recorded[w]
  BY <1>1, RecordedOf
<1>3. Recorded' = Recorded
  BY <1>1, <1>2, RecordedElsewhere, RecordedOf
<1>4. InvokeStart(c, w, s) /\ UNCHANGED <<bind, container, dataset>>
  BY DEF CreateSet
<1>5. SP!Start(c, w, s)
  BY <1>1, <1>3, <1>4 DEF SP!Start, SP!Busy, SP!InvokeStart, InvokeStart, SP!Goto, Goto
<1> QED
  BY <1>1, <1>5 DEF SerialStep, SP!Next

LEMMA ReturnStep ==
  ASSUME WaitInv, SP!DisciplineInv, NEW c \in Calls, CallDone(c)
  PROVE  SerialStep
<1> DEFINE w == call[c].wrapper
<1>1. pc[c] \in {"ok", "err"}
  BY DEF CallDone
<1>2. /\ w \in Wrappers /\ wrapper[w] # None /\ CallOf(c) /\ wrapper[w] \in CloneRecords
      /\ wrapper \in [Wrappers -> CloneRecords \cup {None}]
      /\ session \in [Wrappers -> SessionRecords \cup {None}]
  BY <1>1, CallWrapper, RegisteredWrapper, SerialFacts
     DEF WaitInv, CloningTypeOK, ProvisionTypeOK
<1>3. /\ pc' = [pc EXCEPT ![c] = "idle"] /\ call' = [call EXCEPT ![c] = NoCall]
      /\ UNCHANGED <<bind, container, dataset>>
  BY DEF CallDone, StartDone, StopDone, ResetDone, Goto
<1>4. CASE StartDone(c)
  <2>1. call[c].op = "start" /\ session[w] = None /\ wrapper[w].snapshot = call[c].snapshot
    BY <1>1, <1>2, <1>4, SerialFacts DEF StartDone, CallOf
  <2>2. CASE /\ pc[c] = "ok"
             /\ wrapper' = [wrapper EXCEPT ![w].status = "OK"]
             /\ session' = [session EXCEPT ![w] =
                  [port |-> call[c].port, pool |-> call[c].newPool]]
    <3>1. call[c].port \in Ports /\ call[c].newPool \in Pools
      BY <2>1, <2>2, SerialFacts
    <3>2. session'[w] # None
      BY <1>2, <2>2, <3>1, ProvisionAssumption
    <3>3. wrapper'[w].status = "OK" /\ wrapper'[w].snapshot = call[c].snapshot
      BY <1>2, <2>1, <2>2 DEF CloneRecords
    <3>4. Recorded'[w] = [snapshot |-> call[c].snapshot, ok |-> TRUE]
      BY <1>2, <3>2, <3>3, RecordedOf
    <3>5. \A v \in Wrappers \ {w} : Recorded'[v] = Recorded[v]
      BY <1>2, <2>2, RecordedElsewhere
    <3>6. Recorded' = [Recorded EXCEPT ![w] = [snapshot |-> call[c].snapshot, ok |-> TRUE]]
      BY <1>2, <3>4, <3>5, RecordedOf
    <3>7. SP!Return(c)
      BY <1>3, <2>1, <2>2, <3>6 DEF SP!Return, SP!Goto, SP!NoCall, NoCall
    <3> QED
      BY <3>7 DEF SerialStep, SP!Next
  <2>3. CASE /\ pc[c] = "err" /\ session' = session
             /\ wrapper' = [wrapper EXCEPT ![w].status = "FATAL"]
    <3>1. Recorded'[w] = Recorded[w]
      BY <1>2, <2>1, <2>3, RecordedOf
    <3>2. \A v \in Wrappers \ {w} : Recorded'[v] = Recorded[v]
      BY <1>2, <2>3, RecordedElsewhere
    <3>3. Recorded' = Recorded
      BY <3>1, <3>2, RecordedOf
    <3>4. SP!Return(c)
      BY <1>3, <2>3, <3>3 DEF SP!Return, SP!Goto, SP!NoCall, NoCall
    <3> QED
      BY <3>4 DEF SerialStep, SP!Next
  <2> QED
    BY <1>1, <1>4, <2>2, <2>3, StartDoneEffect
<1>5. CASE StopDone(c)
  <2>1. call[c].op = "stop" /\ session[w] # None /\ wrapper[w].status = "DELETING"
    BY <1>1, <1>2, <1>5, SerialFacts DEF StopDone, CallOf
  <2>2. CASE /\ pc[c] = "ok"
             /\ wrapper' = [wrapper EXCEPT ![w] = None]
             /\ session' = [session EXCEPT ![w] = None]
    <3>1. Recorded'[w] = None
      BY <1>2, <2>2, RecordedOf
    <3>2. \A v \in Wrappers \ {w} : Recorded'[v] = Recorded[v]
      BY <1>2, <2>2, RecordedElsewhere
    <3>3. Recorded' = [Recorded EXCEPT ![w] = None]
      BY <1>2, <3>1, <3>2, RecordedOf
    <3>4. SP!Return(c)
      BY <1>3, <2>1, <2>2, <3>3 DEF SP!Return, SP!Goto, SP!NoCall, NoCall
    <3> QED
      BY <3>4 DEF SerialStep, SP!Next
  <2>3. CASE /\ pc[c] = "err" /\ session' = session
             /\ wrapper' = [wrapper EXCEPT ![w].status = "FATAL"]
    <3>1. wrapper'[w].snapshot = wrapper[w].snapshot /\ wrapper'[w].status # "OK"
      BY <1>2, <2>3 DEF CloneRecords
    <3>2. Recorded'[w] = Recorded[w]
      <4>1. Recorded[w] = [snapshot |-> wrapper[w].snapshot, ok |-> FALSE]
        BY <1>2, <2>1, RecordedOf
      <4>2. Recorded'[w] = [snapshot |-> wrapper[w].snapshot, ok |-> FALSE]
        BY <1>2, <2>1, <2>3, <3>1, RecordedOf
      <4> QED
        BY <4>1, <4>2
    <3>3. \A v \in Wrappers \ {w} : Recorded'[v] = Recorded[v]
      BY <1>2, <2>3, RecordedElsewhere
    <3>4. Recorded' = Recorded
      BY <3>2, <3>3, RecordedOf
    <3>5. SP!Return(c)
      BY <1>3, <2>3, <3>4 DEF SP!Return, SP!Goto, SP!NoCall, NoCall
    <3> QED
      BY <3>5 DEF SerialStep, SP!Next
  <2> QED
    BY <1>1, <1>5, <2>2, <2>3, StopDoneEffect
<1>6. CASE ResetDone(c)
  <2>1. /\ call[c].op = "reset" /\ session[w] # None /\ session' = session
        /\ wrapper[w].status = "RESETTING"
    BY <1>1, <1>2, <1>6, SerialFacts, ResetDoneEffect DEF ResetDone, CallOf
  <2>2. CASE /\ pc[c] = "ok"
             /\ wrapper' = [wrapper EXCEPT ![w].status = "OK",
                                           ![w].snapshot = call[c].snapshot]
    <3>1. wrapper'[w].status = "OK" /\ wrapper'[w].snapshot = call[c].snapshot
      BY <1>2, <2>2 DEF CloneRecords
    <3>2. Recorded'[w] = [snapshot |-> call[c].snapshot, ok |-> TRUE]
      BY <1>2, <2>1, <3>1, RecordedOf
    <3>3. \A v \in Wrappers \ {w} : Recorded'[v] = Recorded[v]
      BY <1>2, <2>1, <2>2, RecordedElsewhere
    <3>4. Recorded' = [Recorded EXCEPT ![w] = [snapshot |-> call[c].snapshot, ok |-> TRUE]]
      BY <1>2, <3>2, <3>3, RecordedOf
    <3>5. SP!Return(c)
      BY <1>3, <2>1, <2>2, <3>4 DEF SP!Return, SP!Goto, SP!NoCall, NoCall
    <3> QED
      BY <3>5 DEF SerialStep, SP!Next
  <2>3. CASE pc[c] = "err" /\ wrapper' = [wrapper EXCEPT ![w].status = "FATAL"]
    <3>1. wrapper'[w].snapshot = wrapper[w].snapshot /\ wrapper'[w].status # "OK"
      BY <1>2, <2>3 DEF CloneRecords
    <3>2. Recorded'[w] = Recorded[w]
      <4>1. Recorded[w] = [snapshot |-> wrapper[w].snapshot, ok |-> FALSE]
        BY <1>2, <2>1, RecordedOf
      <4>2. Recorded'[w] = [snapshot |-> wrapper[w].snapshot, ok |-> FALSE]
        BY <1>2, <2>1, <2>3, <3>1, RecordedOf
      <4> QED
        BY <4>1, <4>2
    <3>3. \A v \in Wrappers \ {w} : Recorded'[v] = Recorded[v]
      BY <1>2, <2>1, <2>3, RecordedElsewhere
    <3>4. Recorded' = Recorded
      BY <3>2, <3>3, RecordedOf
    <3>5. SP!Return(c)
      BY <1>3, <2>1, <2>3, <3>4 DEF SP!Return, SP!Goto, SP!NoCall, NoCall
    <3> QED
      BY <3>5 DEF SerialStep, SP!Next
  <2> QED
    BY <1>1, <1>6, <2>2, <2>3, ResetDoneEffect
<1> QED
  BY <1>4, <1>5, <1>6 DEF CallDone

LEMMA NotOk ==
  ASSUME NEW f, f = [w \in Wrappers |-> f[w]], NEW w \in Wrappers, NEW s, NEW ok \in BOOLEAN,
         f[w] = [snapshot |-> s, ok |-> ok]
  PROVE  [f EXCEPT ![w].ok = FALSE][w] = [snapshot |-> s, ok |-> FALSE]
<1>1. [f EXCEPT ![w].ok = FALSE][w] = [f[w] EXCEPT !.ok = FALSE]
  OBVIOUS
<1>2. ASSUME NEW r \in [snapshot : {s}, ok : BOOLEAN], NEW b
      PROVE  [r EXCEPT !.ok = b] = [snapshot |-> s, ok |-> b]
  OBVIOUS
<1>3. f[w] \in [snapshot : {s}, ok : BOOLEAN]
  OBVIOUS
<1> QED
  BY <1>1, <1>2, <1>3

\* The status that leaves OK is what SerialSessions calls a withdrawal.
LEMMA WithdrawStep ==
  ASSUME WaitInv, SP!DisciplineInv, NEW h \in Goroutines, DestroyMark(h)
  PROVE  SerialStep
<1> DEFINE w == handler[h].wrapper
<1>1. /\ w \in Wrappers /\ wrapper[w] # None /\ wrapper[w] \in CloneRecords
      /\ wrapper \in [Wrappers -> CloneRecords \cup {None}]
      /\ session' = session /\ wrapper' = [wrapper EXCEPT ![w].status = "DELETING"]
      /\ UNCHANGED <<bind, container, dataset, pc, call>>
  BY HandlerWrapper, RegisteredWrapper, DestroyMarkEffect
     DEF DestroyMark, WaitInv, CloningTypeOK
<1>2. \A v \in Wrappers \ {w} : Recorded'[v] = Recorded[v]
  BY <1>1, RecordedElsewhere
<1>3. UNCHANGED SP!provisionVars
  BY <1>1 DEF SP!provisionVars
<1>4. CASE session[w] = None
  <2>1. Recorded[w] = None /\ Recorded'[w] = None
    BY <1>1, <1>4, RecordedOf
  <2>2. Recorded' = Recorded
    BY <1>2, <2>1, RecordedOf
  <2> QED
    BY <1>3, <2>2 DEF SerialStep, SP!serialVars
<1>5. CASE session[w] # None
  <2>1. wrapper'[w].snapshot = wrapper[w].snapshot /\ wrapper'[w].status # "OK"
    BY <1>1 DEF CloneRecords
  <2>2. PICK ok \in BOOLEAN : Recorded[w] = [snapshot |-> wrapper[w].snapshot, ok |-> ok]
    BY <1>1, <1>5, RecordedOf
  <2>3. Recorded'[w] = [snapshot |-> wrapper[w].snapshot, ok |-> FALSE]
    BY <1>1, <1>5, <2>1, RecordedOf
  <2>4. [Recorded EXCEPT ![w].ok = FALSE][w]
          = [snapshot |-> wrapper[w].snapshot, ok |-> FALSE]
    BY <1>1, <2>2, RecordedOf, NotOk
  <2>5. Recorded' = [Recorded EXCEPT ![w].ok = FALSE]
    BY <1>2, <2>3, <2>4, RecordedOf
  <2>6. Recorded[w] \in Serial!CloneRecords
    BY <1>1, <2>2 DEF Serial!CloneRecords, CloneRecords
  <2>7. SP!Withdraw(w)
    BY <1>3, <2>5, <2>6, RecordsAssumption DEF SP!Withdraw
  <2> QED
    BY <1>1, <2>7 DEF SerialStep, SP!Next
<1> QED
  BY <1>4, <1>5

\* A clone that is not shown as ready has nothing to withdraw.
LEMMA NotReady ==
  ASSUME NEW w \in Wrappers, wrapper[w] \in CloneRecords, session[w] # None,
         wrapper[w].status # "OK"
  PROVE  [Recorded EXCEPT ![w].ok = FALSE] = Recorded
<1>1. Recorded[w] = [snapshot |-> wrapper[w].snapshot, ok |-> FALSE]
  BY RecordedOf
<1>2. [Recorded EXCEPT ![w].ok = FALSE][w] = Recorded[w]
  BY <1>1, NotOk, RecordedOf
<1> QED
  BY <1>2, RecordedOf

LEMMA StopStep ==
  ASSUME WaitInv, SP!DisciplineInv, NEW h \in Goroutines, NEW c \in Calls, DestroyGo(h, c)
  PROVE  SerialStep
<1> DEFINE w == handler[h].wrapper
<1>1. /\ handler[h].pc = "destroyGo"
      /\ UNCHANGED <<bind, container, dataset>>
  BY DEF DestroyGo
<1>2. /\ w \in Wrappers /\ wrapper[w] # None /\ wrapper[w] \in CloneRecords
      /\ wrapper \in [Wrappers -> CloneRecords \cup {None}]
      /\ \A d \in Calls : pc[d] # "idle" => call[d].wrapper # w
  BY <1>1, HandlerWrapper, RegisteredWrapper DEF WaitInv, CloningTypeOK
<1>3. CASE /\ session[w] = None
           /\ wrapper' = [wrapper EXCEPT ![w] = None]
           /\ UNCHANGED <<session, pc, call>>
  <2>1. Recorded[w] = None /\ Recorded'[w] = None
    BY <1>2, <1>3, RecordedOf
  <2>2. \A v \in Wrappers \ {w} : Recorded'[v] = Recorded[v]
    BY <1>2, <1>3, RecordedElsewhere
  <2>3. Recorded' = Recorded
    BY <2>1, <2>2, RecordedOf
  <2> QED
    BY <1>1, <1>3, <2>3 DEF SerialStep, SP!serialVars, SP!provisionVars
<1>4. CASE InvokeStop(c, w) /\ UNCHANGED <<wrapper, session>>
  <2>1. session[w] # None /\ wrapper[w].status = "DELETING"
    BY <1>1, <1>2, <1>4
       DEF InvokeStop, WaitInv, HandlersInv, HandlerOf, Idle
  <2>2. [Recorded EXCEPT ![w].ok = FALSE] = Recorded
    BY <1>2, <2>1, NotReady
  <2>3. Recorded' = Recorded
    BY <1>4 DEF Recorded
  <2>4. SP!Stop(c, w)
    BY <1>1, <1>2, <1>4, <2>2, <2>3
       DEF SP!Stop, SP!Busy, SP!InvokeStop, InvokeStop, SP!Goto, Goto
  <2> QED
    BY <1>2, <2>4 DEF SerialStep, SP!Next
<1> QED
  BY <1>3, <1>4, DestroyGoEffect

LEMMA ResetStep ==
  ASSUME WaitInv, SP!DisciplineInv, NEW h \in Goroutines, NEW c \in Calls, ResetMark(h, c)
  PROVE  SerialStep
<1> DEFINE w == handler[h].wrapper
           s == handler[h].snapshot
<1>1. /\ handler[h].pc = "resetMark"
      /\ UNCHANGED <<bind, container, dataset>>
  BY DEF ResetMark
<1>2. /\ w \in Wrappers /\ wrapper[w] # None /\ wrapper[w] \in CloneRecords
      /\ wrapper \in [Wrappers -> CloneRecords \cup {None}]
      /\ \A d \in Calls : pc[d] # "idle" => call[d].wrapper # w
  BY <1>1, HandlerWrapper, RegisteredWrapper DEF WaitInv, CloningTypeOK
<1>3. s \in Snapshots /\ session[w] # None
  BY <1>1 DEF WaitInv, HandlersInv, HandlerOf, Idle
<1>4. /\ InvokeReset(c, w, s) /\ session' = session
      /\ wrapper' = [wrapper EXCEPT ![w].status = "RESETTING"]
  BY ResetMarkEffect
<1>5. wrapper'[w].snapshot = wrapper[w].snapshot /\ wrapper'[w].status # "OK"
  BY <1>2, <1>4 DEF CloneRecords
<1>6. PICK ok \in BOOLEAN : Recorded[w] = [snapshot |-> wrapper[w].snapshot, ok |-> ok]
  BY <1>2, <1>3, RecordedOf
<1>7. Recorded'[w] = [snapshot |-> wrapper[w].snapshot, ok |-> FALSE]
  BY <1>2, <1>3, <1>4, <1>5, RecordedOf
<1>8. [Recorded EXCEPT ![w].ok = FALSE][w]
        = [snapshot |-> wrapper[w].snapshot, ok |-> FALSE]
  BY <1>2, <1>6, RecordedOf, NotOk
<1>9. \A v \in Wrappers \ {w} : Recorded'[v] = Recorded[v]
  BY <1>2, <1>4, RecordedElsewhere
<1>10. Recorded' = [Recorded EXCEPT ![w].ok = FALSE]
  BY <1>7, <1>8, <1>9, RecordedOf
<1>11. SP!Reset(c, w, s)
  BY <1>1, <1>2, <1>4, <1>10
     DEF SP!Reset, SP!Busy, SP!InvokeReset, InvokeReset, SP!Goto, Goto
<1> QED
  BY <1>2, <1>3, <1>11 DEF SerialStep, SP!Next

\* What a step of the Provisioner leaves to its caller.
LEMMA ProvisionEffect ==
  ASSUME SP!DisciplineInv, NEW c \in Calls, ProvisionStep(c)
  PROVE  /\ pc[c] # "idle" /\ pc'[c] # "idle"
         /\ \A d \in Calls \ {c} : pc'[d] = pc[d] /\ call'[d] = call[d]
         /\ call'[c].wrapper = call[c].wrapper /\ call'[c].op = call[c].op
         /\ call'[c].snapshot = call[c].snapshot
BY SerialAssumptions, SameSteps, SP!ProvisionFrame

LEMMA ProvisionSerial ==
  ASSUME WaitInv, SP!DisciplineInv, NEW c \in Calls, ProvisionStep(c), UNCHANGED cloningVars
  PROVE  SerialStep /\ \A w \in Wrappers : session'[w] = None <=> session[w] = None
<1>1. SP!ProvisionStep(c)
  BY SameSteps
<1>2. \A w \in Wrappers : session'[w] = None <=> session[w] = None
  <2>1. CASE pc[c] # "switch"
    BY <1>1, <2>1, SerialAssumptions, SP!ProvisionFrame
  <2>2. CASE pc[c] = "switch"
    <3>1. SwitchPool(c)
      BY <2>2 DEF ProvisionStep, GetSnapshot, GetFSManager, PrepareDB, AllocatePort,
         CreateClone, StartPostgres, StopPostgres, DestroyClone, FreePort, RevertStop,
         RevertDestroy
    <3>2. /\ session \in [Wrappers -> SessionRecords \cup {None}]
          /\ \/ session' = session
             \/ /\ call[c].wrapper \in Wrappers
                /\ session' = [session EXCEPT ![call[c].wrapper].pool
                                 = PoolOf[call[c].snapshot]]
      BY <3>1, SerialFacts, CallWrapper, <2>2
         DEF SwitchPool, MoveSession, ProvisionTypeOK, WaitInv, CallsInv, CallOf
    <3>3. call[c].snapshot \in Snapshots /\ session[call[c].wrapper] # None
      BY <2>2 DEF SP!DisciplineInv, SP!CallInv, SP!StartCall, SP!SessionCall,
         SP!StartSteps, SP!StopSteps
    <3> QED
      BY <3>2, <3>3, ProvisionAssumption DEF SessionRecords
  <2> QED
    BY <2>1, <2>2
<1>3. \A w \in Wrappers : Recorded'[w] = Recorded[w]
  BY <1>2, RecordedOf DEF cloningVars
<1>4. Recorded' = Recorded
  BY <1>3, RecordedOf
<1> QED
  BY <1>1, <1>2, <1>4 DEF SerialStep, SP!Next

\* A request that arrives changes nothing the Provisioner knows.
LEMMA ArrivalStep ==
  ASSUME WaitInv, SP!DisciplineInv, NEW h \in Goroutines, NEW i \in IDs,
         \/ \E s \in Snapshots : CreateFind(h, i, s) \/ ResetFind(h, i, s)
         \/ DestroyFind(h, i)
         \/ \E protected \in BOOLEAN : UpdateClone(h, i, protected)
         \/ IdleFound(i) \/ IdleRefused
  PROVE  SerialStep
<1>1. UNCHANGED provisionVars
  BY DEF CreateFind, ResetFind, DestroyFind, UpdateClone, IdleFound, IdleRefused
<1>2. UNCHANGED SP!provisionVars /\ session' = session
  BY <1>1 DEF provisionVars, SP!provisionVars
<1>3. CASE wrapper' = wrapper
  <2>1. Recorded' = Recorded
    BY <1>2, <1>3 DEF Recorded
  <2> QED
    BY <1>2, <2>1 DEF SerialStep, SP!serialVars
<1>4. ASSUME NEW protected \in BOOLEAN, UpdateClone(h, i, protected)
      PROVE  SerialStep
  <2> DEFINE w == clones[i]
  <2>1. /\ w \in Wrappers /\ wrapper[w] # None
        /\ wrapper' = [wrapper EXCEPT ![w].protected = protected]
        /\ wrapper \in [Wrappers -> CloneRecords \cup {None}]
    BY <1>4 DEF UpdateClone, WaitInv, RegistryInv, CloningTypeOK
  <2>2. wrapper[w] \in CloneRecords
    BY <2>1
  <2>3. wrapper'[w].snapshot = wrapper[w].snapshot /\ wrapper'[w].status = wrapper[w].status
    BY <2>1, <2>2 DEF CloneRecords
  <2>4. Recorded'[w] = Recorded[w]
    <3>1. CASE session[w] = None
      BY <1>2, <2>1, <3>1, RecordedOf
    <3>2. CASE session[w] # None
      <4>1. PICK ok \in BOOLEAN : ok <=> wrapper[w].status = "OK"
        OBVIOUS
      <4>2. Recorded[w] = [snapshot |-> wrapper[w].snapshot, ok |-> ok]
        BY <2>1, <3>2, <4>1, RecordedOf
      <4>3. Recorded'[w] = [snapshot |-> wrapper[w].snapshot, ok |-> ok]
        BY <1>2, <2>1, <2>3, <3>2, <4>1, RecordedOf
      <4> QED
        BY <4>2, <4>3
    <3> QED
      BY <3>1, <3>2
  <2>5. \A v \in Wrappers \ {w} : Recorded'[v] = Recorded[v]
    BY <1>2, <2>1, RecordedElsewhere
  <2>6. Recorded' = Recorded
    BY <2>4, <2>5, RecordedOf
  <2> QED
    BY <1>2, <2>6 DEF SerialStep, SP!serialVars
<1> QED
  BY <1>3, <1>4 DEF CreateFind, ResetFind, DestroyFind, IdleFound, IdleRefused

LEMMA StepIsSerial ==
  ASSUME WaitingClients
  PROVE  WaitInv /\ SP!DisciplineInv /\ [Next]_vars => SerialStep /\ SP!DisciplineInv'
<1> SUFFICES ASSUME WaitInv, SP!DisciplineInv, [Next]_vars
             PROVE  SerialStep /\ SP!DisciplineInv'
  OBVIOUS
<1>1. CASE UNCHANGED vars
  <2>1. Recorded' = Recorded /\ UNCHANGED SP!provisionVars
    BY <1>1 DEF vars, cloningVars, provisionVars, SP!provisionVars, Recorded
  <2> QED
    BY <2>1, SerialAssumptions, SP!NextKept DEF SerialStep, SP!serialVars, SP!InvKept
<1>2. CASE Next
  <2>1. IdleRefused => SerialStep
    <3>1. IdleRefused => handler[IdleChecker].id \in IDs /\ IdleChecker \in Goroutines
      BY DEF IdleRefused, Goroutines, WaitInv, HandlersInv, HandlerOf, Idle
    <3> QED
      BY <3>1, ArrivalStep
  <2>2. \A i \in IDs : IdleFound(i) => SerialStep
    BY ArrivalStep DEF Goroutines
  <2>3. SerialStep
    BY <1>2, <2>1, <2>2, WaitingSteps, ProvisionSerial, ReturnStep, StartStep, WithdrawStep,
       StopStep, ResetStep, ArrivalStep
  <2> QED
    BY <2>3, SerialAssumptions, SP!NextKept DEF SerialStep, SP!InvKept
<1> QED
  BY <1>1, <1>2

-----------------------------------------------------------------------------
(* The invariant holds *)

LEMMA InitWait == Init => WaitInv /\ SP!Init /\ SP!DisciplineInv /\ SP!IInv
<1> SUFFICES ASSUME Init PROVE WaitInv /\ SP!Init /\ SP!DisciplineInv /\ SP!IInv
  OBVIOUS
<1>1. SP!Init
  <2>1. Recorded = [w \in Wrappers |-> None]
    BY DEF Init, ProvisionInit, Recorded
  <2> QED
    BY <2>1, SamePorts DEF Init, SP!Init, ProvisionInit, SP!ProvisionInit,
       NoContainer, SP!NoContainer, NoCall, SP!NoCall
<1>2. SP!DisciplineInv /\ SP!IInv
  BY <1>1, SerialAssumptions, SP!InitInv, SP!IInvDisciplined
<1>3. CloningTypeOK
  BY <1>2, SerialFacts DEF Init, CloningTypeOK, HandlerRecords, Idle
<1>4. RegistryInv /\ CallsInv
  BY ProvisionAssumption
     DEF Init, ProvisionInit, RegistryInv, CallsInv
<1>5. HandlersInv /\ OneAgent
  BY CloningAssumption
     DEF Init, ProvisionInit, HandlersInv, HandlerOf, OneAgent, Idle
<1> QED
  BY <1>1, <1>2, <1>3, <1>4, <1>5 DEF WaitInv

\* A step that changes one registered clone and leaves it registered.
LEMMA StaysInv ==
  ASSUME WaitInv, SP!DisciplineInv, ProvisionTypeOK', UNCHANGED clones,
         NEW w \in Wrappers, wrapper[w] # None,
         NEW r \in CloneRecords, r.id = wrapper[w].id,
         wrapper' = [wrapper EXCEPT ![w] = r],
         r.status = "OK" => session'[w] # None,
         \A v \in Wrappers \ {w} : session'[v] = session[v],
         \A g \in Goroutines :
           \/ handler'[g] = handler[g] /\ handler[g].wrapper # w
           \/ HandlerOf(g)',
         \A d \in Calls : pc'[d] # "idle" =>
           \/ pc[d] # "idle" /\ call'[d] = call[d] /\ call[d].wrapper # w
           \/ CallOf(d)',
         handler' \in [Goroutines -> HandlerRecords],
         OneAgent'
  PROVE  WaitInv'
<1>1. /\ wrapper \in [Wrappers -> CloneRecords \cup {None}]
      /\ clones \in [IDs -> Wrappers \cup {None}]
      /\ wrapper'[w] = r /\ \A v \in Wrappers \ {w} : wrapper'[v] = wrapper[v]
      /\ r # None
  BY RecordsAssumption DEF WaitInv, CloningTypeOK
<1>2. CloningTypeOK'
  BY <1>1 DEF WaitInv, CloningTypeOK
<1>3. RegistryInv'
  <2>1. \A i \in IDs : clones'[i] # None =>
          wrapper'[clones'[i]] # None /\ wrapper'[clones'[i]].id = i
    BY <1>1 DEF WaitInv, RegistryInv
  <2>2. Registered(w)
    BY RegisteredWrapper
  <2>3. \A v \in Wrappers : ~Registered(v)' => wrapper'[v] = None /\ session'[v] = None
    BY <1>1, <2>2 DEF WaitInv, RegistryInv, Registered
  <2>4. \A v \in Wrappers :
          wrapper'[v] # None /\ wrapper'[v].status = "OK" => session'[v] # None
    BY <1>1 DEF WaitInv, RegistryInv
  <2> QED
    BY <2>1, <2>3, <2>4 DEF RegistryInv
<1>4. CallsInv'
  BY <1>1 DEF WaitInv, CallsInv, CallOf
<1>5. ASSUME NEW g \in Goroutines
      PROVE  HandlerOf(g)'
  BY <1>1, <1>5 DEF WaitInv, HandlersInv, HandlerOf, Found, Deletes, Protected
<1> QED
  BY <1>2, <1>3, <1>4, <1>5 DEF WaitInv, HandlersInv

\* A step that removes one clone from the registry.
LEMMA LeavesInv ==
  ASSUME WaitInv, SP!DisciplineInv, ProvisionTypeOK',
         NEW w \in Wrappers, wrapper[w] # None,
         clones' = [clones EXCEPT ![wrapper[w].id] = None],
         wrapper' = [wrapper EXCEPT ![w] = None],
         session'[w] = None,
         \A v \in Wrappers \ {w} : session'[v] = session[v],
         \A g \in Goroutines :
           \/ /\ handler'[g] = handler[g]
              /\ handler[g].wrapper # w /\ handler[g].id # wrapper[w].id
           \/ handler'[g] = Idle,
         \A d \in Calls : pc'[d] # "idle" =>
           pc[d] # "idle" /\ call'[d] = call[d] /\ call[d].wrapper # w,
         handler' \in [Goroutines -> HandlerRecords]
  PROVE  WaitInv'
<1>1. /\ wrapper \in [Wrappers -> CloneRecords \cup {None}]
      /\ clones \in [IDs -> Wrappers \cup {None}]
      /\ wrapper'[w] = None /\ \A v \in Wrappers \ {w} : wrapper'[v] = wrapper[v]
      /\ w # None
  BY ProvisionAssumption DEF WaitInv, CloningTypeOK
<1>2. /\ wrapper[w].id \in IDs /\ clones[wrapper[w].id] = w
      /\ \A i \in IDs : clones[i] = w => i = wrapper[w].id
  BY <1>1, RegisteredWrapper DEF WaitInv, RegistryInv
<1>3. CloningTypeOK'
  BY <1>1, <1>2 DEF WaitInv, CloningTypeOK
<1>4. RegistryInv'
  <2>1. \A i \in IDs : clones'[i] # None =>
          wrapper'[clones'[i]] # None /\ wrapper'[clones'[i]].id = i
    BY <1>1, <1>2 DEF WaitInv, RegistryInv
  <2>2. \A v \in Wrappers \ {w} : Registered(v) => Registered(v)'
    BY <1>1, <1>2 DEF Registered
  <2>3. \A v \in Wrappers : ~Registered(v)' => wrapper'[v] = None /\ session'[v] = None
    BY <1>1, <2>2 DEF WaitInv, RegistryInv
  <2>4. \A v \in Wrappers :
          wrapper'[v] # None /\ wrapper'[v].status = "OK" => session'[v] # None
    BY <1>1 DEF WaitInv, RegistryInv
  <2> QED
    BY <2>1, <2>3, <2>4 DEF RegistryInv
<1>5. CallsInv'
  BY <1>1 DEF WaitInv, CallsInv, CallOf
<1>6. ASSUME NEW g \in Goroutines
      PROVE  HandlerOf(g)'
  <2>1. CASE handler'[g] = Idle
    BY <2>1 DEF HandlerOf
  <2>2. CASE /\ handler'[g] = handler[g]
             /\ handler[g].wrapper # w /\ handler[g].id # wrapper[w].id
    BY <1>1, <1>2, <2>2 DEF WaitInv, HandlersInv, HandlerOf, Found, Deletes, Protected
  <2> QED
    BY <2>1, <2>2
<1>7. OneAgent'
  <2>1. \A g \in Goroutines : handler'[g].id = handler[g].id \/ handler'[g].id = None
    BY DEF Idle
  <2>2. \A d \in Calls : pc'[d] # "idle" =>
          pc[d] # "idle" /\ IdOf(d)' = IdOf(d) /\ IdOf(d) # None
    BY <1>1, RegisteredWrapper, CloningAssumption DEF IdOf, WaitInv, CallsInv, CallOf
  <2> QED
    BY <2>1, <2>2 DEF WaitInv, OneAgent
<1> QED
  BY <1>3, <1>4, <1>5, <1>6, <1>7 DEF WaitInv, HandlersInv

LEMMA ProvisionWait ==
  ASSUME WaitInv, SP!DisciplineInv, ProvisionTypeOK',
         NEW c \in Calls, ProvisionStep(c), UNCHANGED cloningVars
  PROVE  WaitInv'
<1>1. /\ \A w \in Wrappers : session'[w] = None <=> session[w] = None
      /\ clones' = clones /\ wrapper' = wrapper /\ handler' = handler
  BY ProvisionSerial DEF cloningVars
<1>2. \A d \in Calls : pc'[d] # "idle" =>
        /\ pc[d] # "idle" /\ call'[d].wrapper = call[d].wrapper
        /\ call'[d].op = call[d].op /\ call'[d].snapshot = call[d].snapshot
  BY ProvisionEffect
<1>3. CloningTypeOK'
  BY <1>1 DEF WaitInv, CloningTypeOK
<1>4. RegistryInv'
  BY <1>1 DEF WaitInv, CloningTypeOK, RegistryInv, Registered
<1>5. CallsInv'
  BY <1>1, <1>2 DEF WaitInv, CallsInv, CallOf
<1>6. HandlersInv'
  BY <1>1 DEF WaitInv, HandlersInv, HandlerOf, Found, Deletes, Protected
<1>7. OneAgent'
  BY <1>1, <1>2 DEF WaitInv, OneAgent, IdOf
<1> QED
  BY <1>3, <1>4, <1>5, <1>6, <1>7 DEF WaitInv

LEMMA ReturnWait ==
  ASSUME WaitInv, SP!DisciplineInv, ProvisionTypeOK', NEW c \in Calls, CallDone(c)
  PROVE  WaitInv'
<1> DEFINE w == call[c].wrapper
<1>1. pc[c] \in {"ok", "err"}
  BY DEF CallDone
<1>2. /\ w \in Wrappers /\ wrapper[w] # None /\ wrapper[w] \in CloneRecords /\ CallOf(c)
      /\ wrapper[w].id = IdOf(c)
      /\ \A h \in Goroutines : handler[h].wrapper # w
      /\ \A d \in Calls \ {c} : pc[d] # "idle" => call[d].wrapper # w
      /\ wrapper \in [Wrappers -> CloneRecords \cup {None}]
      /\ session \in [Wrappers -> SessionRecords \cup {None}]
  BY <1>1, CallWrapper, RegisteredWrapper, SerialFacts
     DEF WaitInv, CloningTypeOK, ProvisionTypeOK, IdOf
<1>3. /\ handler' = handler
      /\ \A d \in Calls : pc'[d] # "idle" =>
           d # c /\ pc[d] # "idle" /\ call'[d] = call[d] /\ call[d].wrapper # w
  BY <1>2, SerialFacts
     DEF CallDone, StartDone, StopDone, ResetDone, Goto, ProvisionTypeOK
<1>4. handler' \in [Goroutines -> HandlerRecords]
  BY <1>3 DEF WaitInv, CloningTypeOK
<1>5. ASSUME UNCHANGED clones, NEW r \in CloneRecords, r.id = wrapper[w].id,
             wrapper' = [wrapper EXCEPT ![w] = r],
             r.status = "OK" => session'[w] # None,
             \A v \in Wrappers \ {w} : session'[v] = session[v]
      PROVE  WaitInv'
  <2>1. \A d \in Calls : pc'[d] # "idle" => IdOf(d)' = IdOf(d)
    BY <1>2, <1>3, <1>5 DEF IdOf, WaitInv, CallsInv, CallOf
  <2>2. OneAgent'
    BY <1>3, <2>1 DEF WaitInv, OneAgent
  <2> QED
    BY <1>2, <1>3, <1>4, <1>5, <2>2, StaysInv
<1>6. ASSUME UNCHANGED clones, session' = session, NEW status \in Statuses \ {"OK"},
             wrapper' = [wrapper EXCEPT ![w].status = status]
      PROVE  WaitInv'
  <2> DEFINE r == [wrapper[w] EXCEPT !.status = status]
  <2>1. r \in CloneRecords /\ r.id = wrapper[w].id /\ r.status = status
    BY <1>2 DEF CloneRecords
  <2>2. wrapper' = [wrapper EXCEPT ![w] = r]
    BY <1>2, <1>6
  <2> HIDE DEF r
  <2> QED
    BY <1>5, <1>6, <2>1, <2>2
<1>7. "FATAL" \in Statuses \ {"OK"}
  BY DEF Statuses
<1>8. CASE StartDone(c)
  <2>1. clones' = clones
    BY <1>8 DEF StartDone
  <2>2. CASE /\ pc[c] = "ok"
             /\ wrapper' = [wrapper EXCEPT ![w].status = "OK"]
             /\ session' = [session EXCEPT ![w] =
                  [port |-> call[c].port, pool |-> call[c].newPool]]
    <3> DEFINE r == [wrapper[w] EXCEPT !.status = "OK"]
    <3>1. r \in CloneRecords /\ r.id = wrapper[w].id
      BY <1>2 DEF CloneRecords, Statuses
    <3>2. wrapper' = [wrapper EXCEPT ![w] = r]
      BY <1>2, <2>2
    <3>3. call[c].port \in Ports /\ call[c].newPool \in Pools
      BY <1>8, <2>2, SerialFacts DEF StartDone
    <3>4. session'[w] # None
      BY <1>2, <2>2, <3>3, ProvisionAssumption
    <3>5. \A v \in Wrappers \ {w} : session'[v] = session[v]
      BY <1>2, <2>2
    <3> HIDE DEF r
    <3> QED
      BY <1>5, <2>1, <3>1, <3>2, <3>4, <3>5
  <2>3. CASE /\ clones' = clones /\ session' = session
             /\ wrapper' = [wrapper EXCEPT ![w].status = "FATAL"]
    BY <1>6, <1>7, <2>3
  <2> QED
    BY <1>1, <1>8, <2>1, <2>2, <2>3, StartDoneEffect
<1>9. CASE StopDone(c)
  <2>1. CASE /\ clones' = [clones EXCEPT ![IdOf(c)] = None]
             /\ wrapper' = [wrapper EXCEPT ![w] = None]
             /\ session' = [session EXCEPT ![w] = None]
    <3>1. session'[w] = None /\ \A v \in Wrappers \ {w} : session'[v] = session[v]
      BY <1>2, <2>1
    <3>2. \A h \in Goroutines : handler[h].id # wrapper[w].id
      BY <1>1, <1>2 DEF WaitInv, OneAgent
    <3> QED
      BY <1>2, <1>3, <1>4, <2>1, <3>1, <3>2, LeavesInv
  <2>2. CASE /\ clones' = clones /\ session' = session
             /\ wrapper' = [wrapper EXCEPT ![w].status = "FATAL"]
    BY <1>6, <1>7, <2>2
  <2> QED
    BY <1>1, <1>9, <2>1, <2>2, StopDoneEffect
<1>10. CASE ResetDone(c)
  <2>1. clones' = clones /\ session' = session /\ session[w] # None
        /\ call[c].snapshot \in Snapshots
    BY <1>1, <1>10, SerialFacts, ResetDoneEffect DEF ResetDone
  <2>2. CASE wrapper' = [wrapper EXCEPT ![w].status = "OK",
                                        ![w].snapshot = call[c].snapshot]
    <3> DEFINE r == [wrapper[w] EXCEPT !.status = "OK", !.snapshot = call[c].snapshot]
    <3>1. r \in CloneRecords /\ r.id = wrapper[w].id
      BY <1>2, <2>1 DEF CloneRecords, Statuses
    <3>2. wrapper' = [wrapper EXCEPT ![w] = r]
      BY <1>2, <2>2
    <3> HIDE DEF r
    <3> QED
      BY <1>5, <2>1, <3>1, <3>2
  <2>3. CASE /\ clones' = clones /\ session' = session
             /\ wrapper' = [wrapper EXCEPT ![w].status = "FATAL"]
    BY <1>6, <1>7, <2>3
  <2> QED
    BY <1>1, <1>10, <2>1, <2>2, <2>3, ResetDoneEffect
<1> QED
  BY <1>8, <1>9, <1>10 DEF CallDone

LEMMA CreateSetWait ==
  ASSUME WaitInv, SP!DisciplineInv, ProvisionTypeOK', NEW h \in Goroutines, NEW w \in Wrappers,
         NEW c \in Calls, NEW protected \in BOOLEAN, CreateSet(h, w, c, protected)
  PROVE  WaitInv'
<1> DEFINE i == handler[h].id
           s == handler[h].snapshot
           new == [id |-> i, status |-> "CREATING", snapshot |-> s,
                   protected |-> protected]
<1>1. /\ i \in IDs /\ s \in Snapshots /\ clones[i] = None /\ h # IdleChecker
      /\ wrapper[w] = None /\ session[w] = None /\ ~Registered(w)
      /\ \A d \in Calls : pc[d] # "idle" => call[d].wrapper # w
      /\ wrapper' = [wrapper EXCEPT ![w] = new] /\ session' = session
  BY CreateSetEffect
<1>2. /\ new \in CloneRecords /\ new # None /\ w # None
      /\ new.id = i /\ new.status = "CREATING" /\ new.snapshot = s
  BY <1>1, RecordsAssumption, ProvisionAssumption DEF CloneRecords, Statuses
<1> HIDE DEF new
<1>3. /\ handler' = [handler EXCEPT ![h] = Idle] /\ InvokeStart(c, w, s)
      /\ clones' = [clones EXCEPT ![i] = w]
  BY DEF CreateSet, Settle
<1>4. /\ wrapper \in [Wrappers -> CloneRecords \cup {None}]
      /\ clones \in [IDs -> Wrappers \cup {None}]
      /\ handler \in [Goroutines -> HandlerRecords]
      /\ pc \in [Calls -> Steps] /\ call \in [Calls -> CallRecords]
  BY SerialFacts DEF WaitInv, CloningTypeOK, ProvisionTypeOK
<1>5. /\ pc[c] = "idle" /\ call'[c].wrapper = w /\ call'[c].op = "start"
      /\ call'[c].snapshot = s
      /\ \A d \in Calls \ {c} : pc'[d] = pc[d] /\ call'[d] = call[d]
  BY <1>3, <1>4 DEF InvokeStart, Goto
<1>6. /\ clones'[i] = w /\ \A j \in IDs \ {i} : clones'[j] = clones[j]
      /\ wrapper'[w] = new /\ \A v \in Wrappers \ {w} : wrapper'[v] = wrapper[v]
      /\ handler'[h] = Idle /\ \A g \in Goroutines \ {h} : handler'[g] = handler[g]
      /\ \A j \in IDs : clones[j] # w
  BY <1>1, <1>3, <1>4 DEF Registered
<1>7. CloningTypeOK'
  <2>1. Idle \in HandlerRecords
    BY DEF Idle, HandlerRecords
  <2> QED
    BY <1>1, <1>2, <1>3, <1>4, <2>1 DEF CloningTypeOK
<1>8. RegistryInv'
  <2>1. \A j \in IDs : clones'[j] # None =>
          wrapper'[clones'[j]] # None /\ wrapper'[clones'[j]].id = j
    BY <1>2, <1>4, <1>6 DEF WaitInv, RegistryInv
  <2>2. \A v \in Wrappers : ~Registered(v)' => v # w /\ ~Registered(v)
    BY <1>1, <1>6, ProvisionAssumption DEF Registered
  <2>3. \A v \in Wrappers : ~Registered(v)' => wrapper'[v] = None /\ session'[v] = None
    BY <1>1, <1>6, <2>2 DEF WaitInv, RegistryInv
  <2>4. \A v \in Wrappers :
          wrapper'[v] # None /\ wrapper'[v].status = "OK" => session'[v] # None
    BY <1>1, <1>2, <1>6 DEF WaitInv, RegistryInv
  <2> QED
    BY <2>1, <2>3, <2>4 DEF RegistryInv
<1>9. CallsInv'
  BY <1>1, <1>2, <1>5, <1>6 DEF WaitInv, CallsInv, CallOf
<1>10. ASSUME NEW g \in Goroutines
       PROVE  HandlerOf(g)'
  <2>1. CASE g = h
    BY <1>6, <2>1 DEF HandlerOf
  <2>2. CASE g # h
    <3>1. handler[g] = Idle \/ handler[g].id # i
      BY <1>1, <2>2, CloningAssumption DEF WaitInv, OneAgent
    <3>2. HandlerOf(g)
      BY DEF WaitInv, HandlersInv
    <3>3. Found(g) => handler[g].wrapper # w \/ handler[g].id \notin IDs
      BY <1>6 DEF Found
    <3> QED
      BY <1>1, <1>2, <1>6, <2>2, <3>1, <3>2, <3>3 DEF HandlerOf, Found, Deletes, Protected
  <2> QED
    BY <2>1, <2>2
<1>11. OneAgent'
  <2>1. IdOf(c)' = i
    BY <1>2, <1>5, <1>6 DEF IdOf
  <2>2. \A d \in Calls \ {c} : pc'[d] # "idle" => pc[d] # "idle" /\ IdOf(d)' = IdOf(d)
    BY <1>1, <1>5, <1>6 DEF IdOf, WaitInv, CallsInv, CallOf
  <2>3. \A g \in Goroutines : handler'[g].id # i
    BY <1>1, <1>6, CloningAssumption DEF WaitInv, OneAgent, Idle
  <2>4. \A g \in Goroutines : handler'[g].id = None \/ (g # h /\ handler'[g] = handler[g])
    BY <1>6 DEF Idle
  <2>5. \A d \in Calls \ {c} : pc'[d] # "idle" => IdOf(d)' # None
    BY <1>4, <2>2, CallWrapper, CloningAssumption
  <2> QED
    BY <1>1, <2>1, <2>2, <2>3, <2>4, <2>5, CloningAssumption DEF WaitInv, OneAgent
<1> QED
  BY <1>7, <1>8, <1>9, <1>10, <1>11 DEF WaitInv, HandlersInv

\* A handler that passes from one critical section to the next, or to a call.
LEMMA HandlerWait ==
  ASSUME WaitInv, SP!DisciplineInv, ProvisionTypeOK', NEW h \in Goroutines,
         handler[h].pc \in {"destroyMark", "destroyGo", "resetMark"},
         UNCHANGED <<clones, session>>, NEW status \in Statuses \ {"OK"},
         wrapper' = [wrapper EXCEPT ![handler[h].wrapper].status = status],
         NEW k \in HandlerRecords, handler' = [handler EXCEPT ![h] = k],
         \/ /\ k.pc = "destroyGo" /\ k.id = handler[h].id
            /\ k.wrapper = handler[h].wrapper /\ status = "DELETING" /\ Deletes(h)
            /\ UNCHANGED <<pc, call>>
         \/ /\ k = Idle
            /\ \E c \in Calls :
                 /\ pc[c] = "idle" /\ call'[c].wrapper = handler[h].wrapper
                 /\ \/ call'[c].op = "stop" /\ status = "DELETING"
                    \/ call'[c].op = "reset" /\ status = "RESETTING" /\ "reset" \in Requests
                 /\ \A d \in Calls \ {c} : pc'[d] = pc[d] /\ call'[d] = call[d]
  PROVE  WaitInv'
<1> DEFINE w == handler[h].wrapper
           i == handler[h].id
           r == [wrapper[w] EXCEPT !.status = status]
<1>1. /\ w \in Wrappers /\ w # None /\ wrapper[w] # None
      /\ i = wrapper[w].id /\ i \in IDs /\ clones[i] = w
      /\ wrapper[w] \in CloneRecords
      /\ \A g \in Goroutines \ {h} : handler[g].wrapper # w
      /\ \A c \in Calls : pc[c] # "idle" => call[c].wrapper # w
  BY HandlerWrapper, RegisteredWrapper
<1>2. /\ wrapper \in [Wrappers -> CloneRecords \cup {None}]
      /\ handler \in [Goroutines -> HandlerRecords] /\ i # None
  BY <1>1, CloningAssumption DEF WaitInv, CloningTypeOK
<1>3. r \in CloneRecords /\ r.id = wrapper[w].id /\ r.status = status
  BY <1>1 DEF CloneRecords
<1>4. wrapper' = [wrapper EXCEPT ![w] = r]
  BY <1>1, <1>2
<1> HIDE DEF r
<1>5. /\ wrapper'[w] = r /\ \A v \in Wrappers \ {w} : wrapper'[v] = wrapper[v]
      /\ handler'[h] = k /\ \A g \in Goroutines \ {h} : handler'[g] = handler[g]
      /\ r # None
  BY <1>1, <1>2, <1>3, <1>4, RecordsAssumption
<1>6. HandlerOf(h)'
  BY <1>1, <1>3, <1>5 DEF HandlerOf, Found
<1>7. \A v \in Wrappers : wrapper[v] # None => wrapper'[v].id = wrapper[v].id
  BY <1>3, <1>5
<1>8. /\ handler' \in [Goroutines -> HandlerRecords]
      /\ \A g \in Goroutines :
           \/ handler'[g] = handler[g] /\ handler[g].wrapper # w
           \/ HandlerOf(g)'
  BY <1>1, <1>2, <1>5, <1>6
<1>9. ASSUME OneAgent',
             \A d \in Calls : pc'[d] # "idle" =>
               \/ pc[d] # "idle" /\ call'[d] = call[d] /\ call[d].wrapper # w
               \/ CallOf(d)'
      PROVE  WaitInv'
  <2>1. /\ UNCHANGED clones /\ (r.status = "OK" => session'[w] # None)
        /\ \A v \in Wrappers \ {w} : session'[v] = session[v]
    BY <1>3
  <2>2. w \in Wrappers /\ wrapper[w] # None
    BY <1>1
  <2> HIDE DEF w
  <2> QED
    BY <1>3, <1>4, <1>8, <1>9, <2>1, <2>2, StaysInv
<1>10. CASE k # Idle
  <2>1. k.id = i /\ UNCHANGED <<pc, call>>
    BY <1>10
  <2>2. \A c \in Calls : pc[c] # "idle" => CallOf(c)
    BY DEF WaitInv, CallsInv
  <2>3. \A c \in Calls : pc'[c] # "idle" => IdOf(c)' = IdOf(c)
    BY <1>7, <2>1, <2>2 DEF IdOf, CallOf
  <2>4. \A g \in Goroutines : handler'[g].id = handler[g].id
    BY <1>5, <2>1
  <2>5. OneAgent'
    BY <2>1, <2>3, <2>4 DEF WaitInv, OneAgent
  <2> QED
    BY <1>1, <1>9, <2>1, <2>5
<1>11. CASE k = Idle
  <2>1. PICK c \in Calls :
          /\ pc[c] = "idle" /\ call'[c].wrapper = w
          /\ \/ call'[c].op = "stop" /\ status = "DELETING"
             \/ call'[c].op = "reset" /\ status = "RESETTING" /\ "reset" \in Requests
          /\ \A d \in Calls \ {c} : pc'[d] = pc[d] /\ call'[d] = call[d]
    BY <1>11 DEF Idle
  <2>2. CallOf(c)'
    BY <1>1, <1>3, <1>5, <2>1 DEF CallOf
  <2>3. IdOf(c)' = i
    BY <1>1, <1>3, <1>5, <2>1 DEF IdOf
  <2>4. \A d \in Calls \ {c} : pc'[d] # "idle" =>
          pc[d] # "idle" /\ IdOf(d)' = IdOf(d) /\ IdOf(d) # i /\ IdOf(d) # None
    BY <1>5, <1>1, <2>1, CallWrapper, CloningAssumption DEF IdOf, WaitInv, OneAgent
  <2>5. \A g \in Goroutines : handler'[g].id = None \/ (g # h /\ handler'[g] = handler[g])
    BY <1>5, <1>11 DEF Idle
  <2>6. \A g \in Goroutines \ {h} : handler[g].id # i
    BY <1>2 DEF WaitInv, OneAgent
  <2>7. OneAgent'
    BY <1>2, <2>3, <2>4, <2>5, <2>6 DEF WaitInv, OneAgent
  <2>8. \A d \in Calls : pc'[d] # "idle" =>
          \/ pc[d] # "idle" /\ call'[d] = call[d] /\ call[d].wrapper # w
          \/ CallOf(d)'
    BY <1>1, <2>1, <2>2
  <2> QED
    BY <1>9, <2>7, <2>8
<1> QED
  BY <1>10, <1>11

LEMMA MarkWait ==
  ASSUME WaitInv, SP!DisciplineInv, ProvisionTypeOK', NEW h \in Goroutines,
         DestroyMark(h) \/ \E c \in Calls : DestroyGo(h, c) \/ ResetMark(h, c)
  PROVE  WaitInv'
<1>1. /\ handler \in [Goroutines -> HandlerRecords]
      /\ wrapper \in [Wrappers -> CloneRecords \cup {None}]
      /\ pc \in [Calls -> Steps] /\ call \in [Calls -> CallRecords]
      /\ session \in [Wrappers -> SessionRecords \cup {None}]
  BY SerialFacts DEF WaitInv, CloningTypeOK, ProvisionTypeOK
<1>2. Idle \in HandlerRecords
  BY DEF Idle, HandlerRecords
<1>3. CASE DestroyMark(h)
  <2> DEFINE k == [handler[h] EXCEPT !.pc = "destroyGo"]
  <2>1. /\ k \in HandlerRecords /\ k.pc = "destroyGo" /\ k.id = handler[h].id
        /\ k.wrapper = handler[h].wrapper
    BY <1>1 DEF HandlerRecords
  <2>2. handler' = [handler EXCEPT ![h] = k]
    BY <1>1, <1>3, DestroyMarkEffect
  <2>3. /\ handler[h].pc = "destroyMark" /\ clones' = clones /\ session' = session
        /\ UNCHANGED <<pc, call>> /\ Deletes(h)
        /\ wrapper' = [wrapper EXCEPT ![handler[h].wrapper].status = "DELETING"]
    BY <1>3, DestroyMarkEffect DEF DestroyMark, WaitInv, HandlersInv, HandlerOf, Idle
  <2>4. "DELETING" \in Statuses \ {"OK"}
    BY DEF Statuses
  <2> HIDE DEF k
  <2> QED
    BY <2>1, <2>2, <2>3, <2>4, HandlerWait
<1>4. ASSUME NEW c \in Calls, DestroyGo(h, c)
      PROVE  WaitInv'
  <2> DEFINE w == handler[h].wrapper
  <2>1. handler[h].pc = "destroyGo" /\ handler' = [handler EXCEPT ![h] = Idle]
    BY <1>4 DEF DestroyGo, Settle
  <2>2. /\ w \in Wrappers /\ wrapper[w] # None /\ handler[h].id = wrapper[w].id
        /\ clones[handler[h].id] = w /\ handler[h].id \in IDs
        /\ \A g \in Goroutines \ {h} : handler[g].wrapper # w
        /\ \A d \in Calls : pc[d] # "idle" => call[d].wrapper # w
    BY <2>1, HandlerWrapper
  <2>3. CASE /\ session[w] = None
             /\ clones' = [clones EXCEPT ![handler[h].id] = None]
             /\ wrapper' = [wrapper EXCEPT ![w] = None]
             /\ UNCHANGED <<session, pc, call>>
    <3>1. /\ handler' \in [Goroutines -> HandlerRecords]
          /\ \A g \in Goroutines :
               \/ /\ handler'[g] = handler[g]
                  /\ handler[g].wrapper # w /\ handler[g].id # wrapper[w].id
               \/ handler'[g] = Idle
      BY <1>1, <1>2, <2>1, <2>2, CloningAssumption DEF WaitInv, OneAgent
    <3> QED
      BY <2>2, <2>3, <3>1, LeavesInv
  <2>4. CASE InvokeStop(c, w) /\ UNCHANGED <<clones, wrapper, session>>
    <3>1. wrapper[w].status = "DELETING"
      BY <2>1 DEF WaitInv, HandlersInv, HandlerOf, Idle
    <3>2. wrapper' = [wrapper EXCEPT ![w].status = "DELETING"]
      BY <1>1, <2>2, <2>4, <3>1 DEF CloneRecords
    <3>3. "DELETING" \in Statuses \ {"OK"}
      BY DEF Statuses
    <3>4. /\ pc[c] = "idle" /\ call'[c].wrapper = w /\ call'[c].op = "stop"
          /\ \A d \in Calls \ {c} : pc'[d] = pc[d] /\ call'[d] = call[d]
      BY <1>1, <2>4 DEF InvokeStop, Goto
    <3> QED
      BY <1>2, <2>1, <2>4, <3>2, <3>3, <3>4, HandlerWait
  <2> QED
    BY <1>4, <2>3, <2>4, DestroyGoEffect
<1>5. ASSUME NEW c \in Calls, ResetMark(h, c)
      PROVE  WaitInv'
  <2> DEFINE w == handler[h].wrapper
  <2>1. /\ handler[h].pc = "resetMark" /\ handler' = [handler EXCEPT ![h] = Idle]
        /\ clones' = clones /\ "reset" \in Requests
    BY <1>5 DEF ResetMark, Settle, WaitInv, HandlersInv, HandlerOf, Idle
  <2>2. /\ InvokeReset(c, w, handler[h].snapshot) /\ session' = session
        /\ wrapper' = [wrapper EXCEPT ![w].status = "RESETTING"]
    BY <1>5, ResetMarkEffect
  <2>3. "RESETTING" \in Statuses \ {"OK"}
    BY DEF Statuses
  <2>4. /\ pc[c] = "idle" /\ call'[c].wrapper = w /\ call'[c].op = "reset"
        /\ \A d \in Calls \ {c} : pc'[d] = pc[d] /\ call'[d] = call[d]
    BY <1>1, <2>2 DEF InvokeReset, Goto
  <2> QED
    BY <1>2, <2>1, <2>2, <2>3, <2>4, HandlerWait
<1> QED
  BY <1>3, <1>4, <1>5

\* A request that arrives on an ID nobody works for.
LEMMA FindWait ==
  ASSUME WaitingClients, WaitInv, SP!DisciplineInv, NEW h \in Goroutines, NEW i \in IDs,
         \/ \E s \in Snapshots : CreateFind(h, i, s) \/ ResetFind(h, i, s)
         \/ DestroyFind(h, i)
  PROVE  WaitInv'
<1>1. UNCHANGED <<provisionVars, clones, wrapper>>
  BY DEF CreateFind, ResetFind, DestroyFind
<1>2. /\ \A g \in Goroutines \ {h} : handler[g].id # i
      /\ \A c \in Calls : pc[c] # "idle" => IdOf(c) # i
      /\ \A s \in Snapshots : CreateFind(h, i, s) => h # IdleChecker
      /\ \A s \in Snapshots : ResetFind(h, i, s) => h # IdleChecker /\ "reset" \in Requests
      /\ DestroyFind(h, i) =>
           Deletes(h) /\ (h # IdleChecker => handler[h].pc # "destroyFind")
  <2>1. CASE handler[h].pc = "destroyFind" /\ handler[h].id = i
    <3>1. h = IdleChecker /\ "idle" \in Requests /\ i # None /\ handler[h] # Idle
      BY <2>1, CloningAssumption DEF WaitInv, HandlersInv, HandlerOf, Idle
    <3>2. \A s \in Snapshots : ~CreateFind(h, i, s) /\ ~ResetFind(h, i, s)
      BY <3>1 DEF CreateFind, ResetFind, Request
    <3> QED
      BY <2>1, <3>1, <3>2 DEF WaitInv, OneAgent, Deletes
  <2>2. ASSUME NEW s \in Snapshots, CreateFind(h, i, s)
        PROVE  Request(h, "create", i) /\ clones[i] = None
    BY <2>2 DEF CreateFind
  <2>3. ASSUME NEW s \in Snapshots, ResetFind(h, i, s)
        PROVE  Request(h, "reset", i)
    BY <2>3 DEF ResetFind
  <2>4. CASE DestroyFind(h, i) /\ Request(h, "destroy", i)
    <3>1. handler[h].pc # "destroyFind" /\ Deletes(h)
      BY <2>4, ArrivesAlone DEF Idle, Deletes
    <3> QED
      BY <2>2, <2>3, <2>4, <3>1, ArrivesAlone
  <2>5. CASE ~DestroyFind(h, i)
    BY <2>2, <2>3, <2>5, ArrivesAlone
  <2> QED
    BY <2>1, <2>4, <2>5 DEF DestroyFind
<1>3. /\ UNCHANGED <<session, pc, call, clones, wrapper>>
      /\ handler \in [Goroutines -> HandlerRecords] /\ i # None
      /\ clones[i] \in Wrappers \cup {None}
  BY <1>1, CloningAssumption DEF provisionVars, WaitInv, CloningTypeOK
<1>4. PICK k \in HandlerRecords :
        /\ handler' = [handler EXCEPT ![h] = k] /\ k.id = i
        /\ \/ /\ k.pc = "createSet" /\ k.wrapper = None /\ h # IdleChecker
              /\ clones[i] = None /\ k.snapshot \in Snapshots
           \/ /\ k.pc = "destroyMark" /\ k.wrapper = clones[i] /\ clones[i] # None
              /\ ~Protected(k.wrapper) /\ Deletes(h)
           \/ /\ k.pc = "resetMark" /\ h # IdleChecker /\ "reset" \in Requests
              /\ k.wrapper = clones[i] /\ clones[i] # None
              /\ session[k.wrapper] # None /\ k.snapshot \in Snapshots
  <2>1. ASSUME NEW s \in Snapshots, CreateFind(h, i, s)
        PROVE  /\ handler' = [handler EXCEPT ![h] =
                    [pc |-> "createSet", id |-> i, wrapper |-> None, snapshot |-> s]]
               /\ clones[i] = None
               /\ [pc |-> "createSet", id |-> i, wrapper |-> None, snapshot |-> s]
                    \in HandlerRecords
    BY <2>1 DEF CreateFind, HandlerRecords
  <2>2. ASSUME NEW s \in Snapshots, ResetFind(h, i, s)
        PROVE  /\ handler' = [handler EXCEPT ![h] =
                    [pc |-> "resetMark", id |-> i, wrapper |-> clones[i], snapshot |-> s]]
               /\ clones[i] # None /\ session[clones[i]] # None
               /\ [pc |-> "resetMark", id |-> i, wrapper |-> clones[i], snapshot |-> s]
                    \in HandlerRecords
    BY <1>3, <2>2 DEF ResetFind, HandlerRecords
  <2>3. ASSUME DestroyFind(h, i)
        PROVE  /\ handler' = [handler EXCEPT ![h] =
                    [pc |-> "destroyMark", id |-> i, wrapper |-> clones[i],
                     snapshot |-> None]]
               /\ clones[i] # None /\ ~Protected(clones[i])
               /\ [pc |-> "destroyMark", id |-> i, wrapper |-> clones[i], snapshot |-> None]
                    \in HandlerRecords
    BY <1>3, <2>3 DEF DestroyFind, HandlerRecords
  <2>4. CASE \E s \in Snapshots : CreateFind(h, i, s)
    BY <1>2, <2>1, <2>4
  <2>5. CASE \E s \in Snapshots : ResetFind(h, i, s)
    BY <1>2, <2>2, <2>5
  <2>6. CASE DestroyFind(h, i)
    BY <1>2, <2>3, <2>6
  <2> QED
    BY <2>4, <2>5, <2>6
<1>5. handler'[h] = k /\ \A g \in Goroutines \ {h} : handler'[g] = handler[g]
  BY <1>3, <1>4
<1>6. CloningTypeOK'
  BY <1>1, <1>3, <1>4, SerialFacts
     DEF WaitInv, CloningTypeOK, ProvisionTypeOK, provisionVars
<1>7. RegistryInv'
  BY <1>3 DEF WaitInv, RegistryInv, Registered
<1>8. CallsInv'
  BY <1>3 DEF WaitInv, CallsInv, CallOf
<1>9. ASSUME NEW g \in Goroutines
      PROVE  HandlerOf(g)'
  <2>1. CASE g = h
    BY <1>2, <1>3, <1>4, <1>5, <2>1 DEF HandlerOf, Found, Deletes, Protected
  <2>2. CASE g # h
    BY <1>3, <1>5, <2>2 DEF WaitInv, HandlersInv, HandlerOf, Found, Deletes, Protected
  <2> QED
    BY <2>1, <2>2
<1>10. OneAgent'
  <2>1. \A c \in Calls : IdOf(c)' = IdOf(c)
    BY <1>3 DEF IdOf
  <2> QED
    BY <1>2, <1>3, <1>4, <1>5, <2>1 DEF WaitInv, OneAgent
<1> QED
  BY <1>6, <1>7, <1>8, <1>9, <1>10 DEF WaitInv, HandlersInv

LEMMA UpdateWait ==
  ASSUME WaitingClients, WaitInv, SP!DisciplineInv, NEW h \in Goroutines, NEW i \in IDs,
         NEW protected \in BOOLEAN, UpdateClone(h, i, protected)
  PROVE  WaitInv'
<1> DEFINE w == clones[i]
           r == [wrapper[w] EXCEPT !.protected = protected]
<1>1. /\ \A g \in Goroutines \ {IdleChecker} : handler[g].id # i
      /\ \A c \in Calls : pc[c] # "idle" => IdOf(c) # i
  BY ArrivesAlone DEF UpdateClone
<1>2. /\ w \in Wrappers /\ wrapper[w] # None /\ wrapper[w].id = i
      /\ wrapper \in [Wrappers -> CloneRecords \cup {None}]
      /\ handler \in [Goroutines -> HandlerRecords]
      /\ wrapper' = [wrapper EXCEPT ![w].protected = protected]
  BY DEF UpdateClone, WaitInv, RegistryInv, CloningTypeOK
<1>3. wrapper[w] \in CloneRecords
  BY <1>2
<1>4. r \in CloneRecords /\ r.id = wrapper[w].id /\ r.status = wrapper[w].status
  BY <1>3 DEF CloneRecords
<1>5. wrapper' = [wrapper EXCEPT ![w] = r]
  BY <1>2
<1>6. /\ UNCHANGED <<session, pc, call, clones, handler>> /\ ProvisionTypeOK'
  BY SerialFacts DEF UpdateClone, provisionVars, ProvisionTypeOK
<1>7. ASSUME NEW g \in Goroutines \ {IdleChecker}
      PROVE  handler[g].wrapper # w
  BY <1>1, <1>2, ProvisionAssumption
     DEF WaitInv, HandlersInv, HandlerOf, Found, Idle, RegistryInv
<1>8. \A c \in Calls : pc[c] # "idle" => call[c].wrapper # w
  BY <1>1, <1>2 DEF IdOf
<1> HIDE DEF r, w
<1>9. OneAgent'
  <2>1. \A v \in Wrappers : wrapper'[v] = wrapper[v] \/ wrapper'[v].id = wrapper[v].id
    BY <1>2, <1>4, <1>5
  <2>2. \A c \in Calls : pc[c] # "idle" => IdOf(c)' = IdOf(c)
    BY <1>6, <2>1 DEF IdOf, WaitInv, CallsInv, CallOf
  <2> QED
    BY <1>6, <2>2 DEF WaitInv, OneAgent
<1>10. r.status = "OK" => session'[w] # None
  BY <1>2, <1>4, <1>6 DEF WaitInv, RegistryInv
<1>11. /\ \A v \in Wrappers \ {w} : session'[v] = session[v]
       /\ \A g \in Goroutines \ {IdleChecker} :
            handler'[g] = handler[g] /\ handler[g].wrapper # w
       /\ \A d \in Calls : pc'[d] # "idle" =>
            pc[d] # "idle" /\ call'[d] = call[d] /\ call[d].wrapper # w
       /\ handler' \in [Goroutines -> HandlerRecords]
  BY <1>2, <1>6, <1>7, <1>8
<1>12. w \in Wrappers /\ wrapper[w] # None
  BY <1>2
<1>13. HandlerOf(IdleChecker)'
  <2>1. HandlerOf(IdleChecker)
    BY DEF WaitInv, HandlersInv, Goroutines
  <2>2. \A v \in Wrappers : wrapper'[v] = wrapper[v] \/ wrapper'[v].status = wrapper[v].status
    BY <1>2, <1>4, <1>5
  <2> QED
    BY <1>6, <2>1, <2>2 DEF HandlerOf, Found, Deletes
<1> QED
  BY <1>4, <1>5, <1>6, <1>9, <1>10, <1>11, <1>12, <1>13, StaysInv

\* The idle check finds a clone that no client and no call works for.
LEMMA IdleAlone ==
  ASSUME WaitingClients, WaitInv, SP!DisciplineInv, NEW i \in IDs, IdleFound(i)
  PROVE  /\ \A g \in Goroutines : handler[g].id # i
         /\ \A c \in Calls : pc[c] # "idle" => IdOf(c) # i
<1> DEFINE w == clones[i]
<1>1. /\ "idle" \in Requests /\ handler[IdleChecker] = Idle /\ w # None
      /\ wrapper[w].status # "DELETING" /\ Unused(w)
      /\ Requests \cap {"destroy", "reset"} = {}
  BY DEF IdleFound, WaitingClients
<1>2. ASSUME NEW g \in Goroutines
      PROVE  handler[g].id # i
  <2>1. HandlerOf(g) /\ i # None
    BY CloningAssumption DEF WaitInv, HandlersInv
  <2> QED
    BY <1>1, <2>1 DEF HandlerOf, Deletes, Idle
<1>3. ASSUME NEW c \in Calls, pc[c] # "idle", IdOf(c) = i
      PROVE  FALSE
  <2>1. call[c].wrapper = w /\ CallOf(c)
    BY <1>3, CallWrapper
  <2>2. CASE call[c].op = "start"
    <3>1. session[w] = None /\ wrapper[w].status = "CREATING"
      BY <1>3, <2>1, <2>2, SerialFacts DEF CallOf
    <3> QED
      BY <1>1, <3>1 DEF Unused
  <2>3. CASE call[c].op \in {"stop", "reset"}
    BY <1>1, <2>1, <2>3 DEF CallOf
  <2> QED
    BY <1>3, <2>2, <2>3, SerialFacts
<1> QED
  BY <1>2, <1>3

LEMMA IdleWait ==
  ASSUME WaitingClients, WaitInv, SP!DisciplineInv,
         IdleRefused \/ \E i \in IDs : IdleFound(i)
  PROVE  WaitInv'
<1>1. UNCHANGED <<provisionVars, clones, wrapper>> /\ IdleChecker \in Goroutines
  BY DEF IdleRefused, IdleFound, Goroutines
<1>2. /\ UNCHANGED <<session, pc, call, clones, wrapper>> /\ ProvisionTypeOK'
      /\ handler \in [Goroutines -> HandlerRecords]
  BY <1>1, SerialFacts DEF provisionVars, ProvisionTypeOK, WaitInv, CloningTypeOK
<1>3. PICK k \in HandlerRecords :
        /\ handler' = [handler EXCEPT ![IdleChecker] = k]
        /\ \/ k = Idle
           \/ /\ k.pc = "destroyFind" /\ k.wrapper = None /\ "idle" \in Requests
              /\ k.id \in IDs /\ clones[k.id] # None
              /\ \A g \in Goroutines : handler[g].id # k.id
              /\ \A c \in Calls : pc[c] # "idle" => IdOf(c) # k.id
  <2>1. CASE IdleRefused
    <3>1. Idle \in HandlerRecords /\ handler' = [handler EXCEPT ![IdleChecker] = Idle]
      BY <2>1 DEF IdleRefused, Settle, Idle, HandlerRecords
    <3> QED
      BY <3>1
  <2>2. ASSUME NEW i \in IDs, IdleFound(i)
        PROVE  LET k == [pc |-> "destroyFind", id |-> i, wrapper |-> None, snapshot |-> None]
               IN /\ k \in HandlerRecords /\ handler' = [handler EXCEPT ![IdleChecker] = k]
                  /\ "idle" \in Requests /\ clones[i] # None
                  /\ \A g \in Goroutines : handler[g].id # i
                  /\ \A c \in Calls : pc[c] # "idle" => IdOf(c) # i
    BY <2>2, IdleAlone DEF IdleFound, HandlerRecords
  <2> QED
    BY <2>1, <2>2
<1>4. /\ handler'[IdleChecker] = k
      /\ \A g \in Goroutines \ {IdleChecker} : handler'[g] = handler[g]
      /\ handler' \in [Goroutines -> HandlerRecords]
  BY <1>1, <1>2, <1>3
<1>5. CloningTypeOK' /\ RegistryInv' /\ CallsInv'
  BY <1>2, <1>4 DEF WaitInv, CloningTypeOK, RegistryInv, Registered, CallsInv, CallOf
<1>6. HandlerOf(IdleChecker)'
  BY <1>2, <1>3, <1>4 DEF HandlerOf
<1>7. ASSUME NEW g \in Goroutines \ {IdleChecker}
      PROVE  HandlerOf(g)'
  BY <1>2, <1>4 DEF WaitInv, HandlersInv, HandlerOf, Found, Deletes, Protected
<1>8. OneAgent'
  <2>1. \A c \in Calls : IdOf(c)' = IdOf(c)
    BY <1>2 DEF IdOf
  <2>2. \A g \in Goroutines :
          handler'[g].id = IF g = IdleChecker THEN k.id ELSE handler[g].id
    BY <1>4
  <2>3. CASE k = Idle
    <3>1. ASSUME NEW c \in Calls, pc[c] # "idle"
          PROVE  IdOf(c) # None
      BY <3>1, CallWrapper, CloningAssumption
    <3> QED
      BY <1>2, <2>1, <2>2, <2>3, <3>1 DEF WaitInv, OneAgent, Idle
  <2>4. CASE k # Idle
    BY <1>2, <1>3, <2>1, <2>2, <2>4 DEF WaitInv, OneAgent
  <2> QED
    BY <2>3, <2>4
<1> QED
  BY <1>5, <1>6, <1>7, <1>8 DEF WaitInv, HandlersInv

LEMMA NextWait ==
  ASSUME WaitingClients
  PROVE  WaitInv /\ SP!DisciplineInv /\ [Next]_vars => WaitInv' /\ SP!DisciplineInv'
<1> SUFFICES ASSUME WaitInv, SP!DisciplineInv, [Next]_vars
             PROVE  WaitInv' /\ SP!DisciplineInv'
  OBVIOUS
<1>1. SP!DisciplineInv'
  BY StepIsSerial
<1>2. ProvisionTypeOK'
  BY <1>1, SamePorts DEF SP!DisciplineInv, SP!SerialTypeOK, SP!ProvisionTypeOK, ProvisionTypeOK,
     SP!Containers, Containers, SP!SessionRecords, SessionRecords,
     SP!CallRecords, CallRecords, SP!Steps, Steps
<1>3. CASE UNCHANGED vars
  <2>1. /\ UNCHANGED <<clones, wrapper, handler, session, pc, call>>
    BY <1>3 DEF vars, cloningVars, provisionVars
  <2>2. CloningTypeOK' /\ RegistryInv' /\ CallsInv'
    BY <1>2, <2>1 DEF WaitInv, CloningTypeOK, RegistryInv, Registered, CallsInv, CallOf
  <2>3. HandlersInv' /\ OneAgent'
    BY <2>1 DEF WaitInv, HandlersInv, HandlerOf, Found, Deletes, Protected, OneAgent, IdOf
  <2> QED
    BY <1>1, <2>2, <2>3 DEF WaitInv
<1>4. CASE Next
  BY <1>1, <1>2, <1>4, WaitingSteps, ProvisionWait, ReturnWait, CreateSetWait, MarkWait,
     FindWait, UpdateWait, IdleWait
<1> QED
  BY <1>3, <1>4

LEMMA WaitHolds ==
  ASSUME WaitingClients
  PROVE  Spec => [](WaitInv /\ SP!DisciplineInv)
BY InitWait, NextWait, PTL DEF Spec

\* What SerialSessions says of containers and datasets, if clean-up commands
\* do not fail.
LEMMA CleanHolds ==
  ASSUME WaitingClients, SP!CleanUpWorks
  PROVE  Spec => [](SP!IInv /\ SP!FootprintInv /\ SP!KeptInv)
<1>1. Init => SP!IInv /\ SP!FootprintInv /\ SP!KeptInv
  BY InitWait, SerialAssumptions, SP!InitFootprint, SP!InitKept
<1>2. WaitInv /\ SP!IInv /\ SP!FootprintInv /\ SP!KeptInv /\ [Next]_vars
        => SP!IInv' /\ SP!FootprintInv' /\ SP!KeptInv'
  <2> SUFFICES ASSUME WaitInv, SP!IInv, SP!FootprintInv, SP!KeptInv, [Next]_vars
               PROVE  SP!IInv' /\ SP!FootprintInv' /\ SP!KeptInv'
    OBVIOUS
  <2>1. [SP!Next]_SP!serialVars
    BY StepIsSerial, SerialAssumptions, SP!IInvDisciplined DEF SerialStep
  <2>2. SP!IInv'
    BY <2>1, SerialAssumptions, SP!NextInv
  <2>3. SP!FootprintInv'
    BY <2>1, SerialAssumptions, SP!NextFootprint
  <2>4. SP!KeptInv'
    BY <2>1, SerialAssumptions, SP!NextKeeps, SP!IInvDisciplined
  <2> QED
    BY <2>2, <2>3, <2>4
<1> QED
  BY <1>1, <1>2, WaitHolds, PTL DEF Spec

\* What is left is somebody's: this uses nothing about ports that are shared.
LEMMA KeptServed == WaitInv /\ SP!KeptInv => NoOrphan
<1> SUFFICES ASSUME WaitInv, SP!KeptInv, NEW p \in Ports,
                    container[p] # NoContainer \/ CloneExists(p)
             PROVE  \/ \E i \in IDs : clones[i] # None /\ Serves(clones[i], p)
                    \/ \E c \in Calls : pc[c] # "idle" /\ call[c].port = p
  BY DEF NoOrphan
<1>1. ASSUME NEW w \in Wrappers, NEW steps, SP!Keeps(w, p, steps)
      PROVE  \E i \in IDs : clones[i] # None /\ Serves(clones[i], p)
  <2>1. session[w] # None /\ session[w].port = p
    BY <1>1 DEF SP!Keeps
  <2>2. Registered(w) /\ w # None
    BY <2>1, ProvisionAssumption DEF WaitInv, RegistryInv
  <2> QED
    BY <2>1, <2>2 DEF Registered, Serves
<1>2. ASSUME NEW c \in Calls, NEW q, NEW steps, "idle" \notin steps, SP!Builds(c, q, p, steps)
      PROVE  pc[c] # "idle" /\ call[c].port = p
  BY <1>2 DEF SP!Builds
<1>3. CASE container[p] # NoContainer
  BY <1>1, <1>2, <1>3, SamePorts DEF SP!KeptInv, SP!ContainersKept, SP!NoContainer, NoContainer
<1>4. CASE CloneExists(p)
  BY <1>1, <1>2, <1>4, SamePorts DEF SP!KeptInv, SP!DatasetsKept, CloneExists
<1> QED
  BY <1>3, <1>4

-----------------------------------------------------------------------------
(* Whatever the clients do *)

\* What a call has in its registers at each step, whoever else works on its clone.
Registers(c) ==
  LET k == call[c]
  IN \/ pc[c] = "idle"
     \/ /\ k.op = "start" /\ pc[c] \in SP!StartSteps /\ k.wrapper \in Wrappers
        /\ k.snapshot \in Snapshots /\ k.newPool \in Pools
        /\ pc[c] \notin {"snapshot", "port", "err"} => k.port \in Ports
     \/ /\ k.op \in {"stop", "reset"} /\ k.wrapper \in Wrappers /\ session[k.wrapper] # None
        /\ k.port \in Ports /\ k.pool \in Pools /\ k.newPool \in Pools
        /\ k.op = "stop" => pc[c] \in SP!StopSteps
        /\ k.op = "reset" => pc[c] \in SP!ResetSteps /\ k.snapshot \in Snapshots

\* What a handler has in its registers between two critical sections.
Locals(h) ==
  LET k == handler[h]
  IN /\ k.pc # "idle" => k.id \in IDs
     /\ k.pc \in {"createSet", "resetMark"} => k.snapshot \in Snapshots
     /\ k.pc \in {"destroyMark", "destroyGo", "resetMark"} => k.wrapper \in Wrappers

\* No entry of the map, handler or call refers to nil, or to a session that is gone.
TypedInv ==
  /\ CloningTypeOK
  /\ \A i \in IDs : clones[i] # None => wrapper[clones[i]].id = i
  /\ \A w \in Wrappers : Referenced(w) => wrapper[w] # None
  /\ \A c \in Calls : Registers(c)
  /\ \A h \in Goroutines : Locals(h)

\* The parts of the invariant as the steps use them.
LEMMA TypedFacts ==
  ASSUME TypedInv
  PROVE  /\ bind \in [Ports -> BOOLEAN] /\ container \in [Ports -> Containers]
         /\ dataset \in [Pools -> [Ports -> Snapshots \cup {None}]]
         /\ session \in [Wrappers -> SessionRecords \cup {None}]
         /\ pc \in [Calls -> Steps] /\ call \in [Calls -> CallRecords]
         /\ clones \in [IDs -> Wrappers \cup {None}]
         /\ wrapper \in [Wrappers -> CloneRecords \cup {None}]
         /\ handler \in [Goroutines -> HandlerRecords]
         /\ \A i \in IDs : clones[i] # None =>
              /\ clones[i] \in Wrappers /\ wrapper[clones[i]] \in CloneRecords
              /\ wrapper[clones[i]].id = i
         /\ \A c \in Calls : pc[c] # "idle" =>
              /\ call[c].wrapper \in Wrappers /\ wrapper[call[c].wrapper] \in CloneRecords
              /\ IdOf(c) \in IDs
<1>1. CloningTypeOK /\ ProvisionTypeOK
  BY DEF TypedInv, CloningTypeOK
<1>2. ASSUME NEW w \in Wrappers, Referenced(w)
      PROVE  wrapper[w] \in CloneRecords /\ wrapper[w].id \in IDs
  BY <1>1, <1>2 DEF TypedInv, CloningTypeOK, CloneRecords
<1>3. ASSUME NEW i \in IDs, clones[i] # None
      PROVE  clones[i] \in Wrappers /\ wrapper[clones[i]] \in CloneRecords
             /\ wrapper[clones[i]].id = i
  <2>1. clones[i] \in Wrappers /\ wrapper[clones[i]].id = i
    BY <1>1, <1>3 DEF TypedInv, CloningTypeOK
  <2>2. Referenced(clones[i])
    BY DEF Referenced
  <2> QED
    BY <1>2, <2>1, <2>2
<1>4. ASSUME NEW c \in Calls, pc[c] # "idle"
      PROVE  call[c].wrapper \in Wrappers /\ wrapper[call[c].wrapper] \in CloneRecords
             /\ IdOf(c) \in IDs
  <2>1. call[c].wrapper \in Wrappers
    BY <1>4 DEF TypedInv, Registers
  <2>2. Referenced(call[c].wrapper)
    BY <1>4 DEF Referenced
  <2> QED
    BY <1>2, <2>1, <2>2 DEF IdOf
<1> QED
  BY <1>1, <1>3, <1>4 DEF CloningTypeOK, ProvisionTypeOK

\* What a step has to leave as it is.
LEMMA StepTyped ==
  ASSUME TypedInv, CloningTypeOK',
         \A w \in Wrappers : Referenced(w)' =>
           /\ wrapper'[w] # None
           /\ Referenced(w) => wrapper'[w].id = wrapper[w].id
           /\ session[w] # None => session'[w] # None,
         \A i \in IDs : clones'[i] \in {clones[i], None} \/ wrapper'[clones'[i]].id = i,
         \A c \in Calls :
           \/ pc'[c] = "idle"
           \/ pc'[c] = pc[c] /\ call'[c] = call[c]
           \/ Registers(c)',
         \A h \in Goroutines : handler'[h] = handler[h] \/ Locals(h)'
  PROVE  TypedInv'
<1>1. ASSUME NEW i \in IDs, clones'[i] # None
      PROVE  wrapper'[clones'[i]].id = i
  <2>1. CASE clones'[i] = clones[i]
    <3>1. /\ clones[i] \in Wrappers /\ wrapper[clones[i]].id = i
          /\ wrapper[clones[i]] \in CloneRecords
      BY <1>1, <2>1, TypedFacts
    <3>2. Referenced(clones[i]) /\ Referenced(clones[i])'
      BY <2>1 DEF Referenced
    <3> QED
      BY <2>1, <3>1, <3>2
  <2> QED
    BY <1>1, <2>1
<1>2. ASSUME NEW c \in Calls
      PROVE  Registers(c)'
  <2>1. CASE pc'[c] = "idle"
    BY <2>1 DEF Registers
  <2>2. CASE pc'[c] # "idle" /\ pc'[c] = pc[c] /\ call'[c] = call[c]
    <3>1. Registers(c)
      BY DEF TypedInv
    <3>2. Referenced(call[c].wrapper)'
      BY <2>2 DEF Referenced
    <3> QED
      BY <2>2, <3>1, <3>2 DEF Registers
  <2> QED
    BY <2>1, <2>2
<1>3. ASSUME NEW h \in Goroutines
      PROVE  Locals(h)'
  BY DEF TypedInv, Locals
<1> QED
  BY <1>1, <1>2, <1>3 DEF TypedInv

-----------------------------------------------------------------------------
(* The steps of the Provisioner, for any caller *)

\* A step of a call moves it on, and leaves its wrapper and the others alone.
LEMMA AdvanceTyped ==
  ASSUME TypedInv, NEW c \in Calls, NEW step \in Steps, Goto(c, step), step # "idle",
         pc[c] # "idle", UNCHANGED cloningVars, ProvisionTypeOK',
         \A w \in Wrappers : session[w] # None => session'[w] # None,
         \A d \in Calls \ {c} : call'[d] = call[d],
         call'[c].wrapper = call[c].wrapper, Registers(c)'
  PROVE  TypedInv'
<1>1. \A d \in Calls : pc'[d] = IF d = c THEN step ELSE pc[d]
  BY TypedFacts DEF Goto
<1>2. \A w \in Wrappers : Referenced(w)' => Referenced(w)
  BY <1>1 DEF Referenced, cloningVars
<1>3. CloningTypeOK'
  BY DEF TypedInv, CloningTypeOK, cloningVars
<1>4. \A w \in Wrappers : Referenced(w) => wrapper[w] # None
  BY DEF TypedInv
<1> QED
  BY <1>1, <1>2, <1>3, <1>4, StepTyped DEF cloningVars

LEMMA MoveTyped ==
  ASSUME TypedInv, NEW c \in Calls, NEW step \in Steps, Goto(c, step), step # "idle",
         pc[c] # "idle", UNCHANGED cloningVars, UNCHANGED <<session, call>>,
         bind' \in [Ports -> BOOLEAN], container' \in [Ports -> Containers],
         dataset' \in [Pools -> [Ports -> Snapshots \cup {None}]],
         call[c].op = "start" =>
           /\ step \in SP!StartSteps
           /\ step \notin {"snapshot", "port", "err"} => call[c].port \in Ports,
         call[c].op = "stop" => step \in SP!StopSteps,
         call[c].op = "reset" => step \in SP!ResetSteps
  PROVE  TypedInv'
<1>1. pc' \in [Calls -> Steps] /\ pc'[c] = step
  BY TypedFacts DEF Goto
<1>2. ProvisionTypeOK'
  BY <1>1, TypedFacts DEF ProvisionTypeOK
<1>3. Registers(c)
  BY DEF TypedInv
<1>4. Registers(c)'
  BY <1>1, <1>3 DEF Registers
<1> QED
  BY <1>2, <1>4, AdvanceTyped

\* What a call knows of its registers, by the steps it may be at.
LEMMA RegisterFacts ==
  ASSUME TypedInv, NEW c \in Calls, pc[c] # "idle"
  PROVE  /\ call[c].op \in {"start", "stop", "reset"} /\ call[c].wrapper \in Wrappers
         /\ call[c].newPool \in Pools /\ call[c] \in CallRecords
         /\ call[c].op \in {"start", "reset"} => call[c].snapshot \in Snapshots
         /\ call[c].op # "start" => call[c].port \in Ports /\ call[c].pool \in Pools
                                    /\ session[call[c].wrapper] \in SessionRecords
         /\ pc[c] \notin {"snapshot", "port", "err"} => call[c].port \in Ports
         /\ call[c].op = "start" => pc[c] \in SP!StartSteps
         /\ call[c].op = "stop" => pc[c] \in SP!StopSteps
         /\ call[c].op = "reset" => pc[c] \in SP!ResetSteps
BY TypedFacts DEF TypedInv, Registers

LEMMA LookupTyped ==
  ASSUME TypedInv, NEW c \in Calls, UNCHANGED cloningVars, GetSnapshot(c) \/ GetFSManager(c)
  PROVE  TypedInv'
<1>1. CASE GetSnapshot(c)
  <2>1. PICK step \in {"port", "switch", "err"} :
           /\ Goto(c, step)
           /\ step = "port" => call[c].op = "start"
           /\ step = "switch" => call[c].op # "start"
    BY <1>1 DEF GetSnapshot
  <2> QED
    BY <1>1, <2>1, MoveTyped, RegisterFacts, TypedFacts
       DEF GetSnapshot, SP!StartSteps, SP!StopSteps, SP!ResetSteps, Steps
<1>2. CASE GetFSManager(c)
  <2>1. PICK step \in {"create", "stop", "snapshot", "err"} :
           /\ Goto(c, step)
           /\ call[c].op = "start" => step \in {"create", "err"}
           /\ call[c].op = "stop" => step \in {"stop", "err"}
           /\ call[c].op = "reset" => step \in {"snapshot", "err"}
    BY <1>2, RegisterFacts DEF GetFSManager
  <2> QED
    BY <1>2, <2>1, MoveTyped, RegisterFacts, TypedFacts
       DEF GetFSManager, SP!StartSteps, SP!StopSteps, SP!ResetSteps, Steps
<1> QED
  BY <1>1, <1>2

LEMMA SwitchTyped ==
  ASSUME TypedInv, NEW c \in Calls, UNCHANGED cloningVars, SwitchPool(c)
  PROVE  TypedInv'
<1> DEFINE w == call[c].wrapper
           target == PoolOf[call[c].snapshot]
<1>1. /\ call[c].op = "reset" /\ w \in Wrappers /\ session[w] \in SessionRecords
      /\ target \in Pools /\ call[c] \in CallRecords /\ pc[c] = "switch"
      /\ call[c].snapshot \in Snapshots /\ call[c].port \in Ports /\ call[c].pool \in Pools
  <2>1. pc[c] = "switch"
    BY DEF SwitchPool
  <2>2. call[c].op = "reset"
    BY <2>1, RegisterFacts DEF SP!StartSteps, SP!StopSteps
  <2> QED
    BY <2>1, <2>2, RegisterFacts, ProvisionAssumption
<1>2. CASE Goto(c, "err") /\ UNCHANGED <<session, call>>
  BY <1>1, <1>2, MoveTyped, TypedFacts DEF SwitchPool, SP!ResetSteps, Steps
<1>3. CASE /\ Goto(c, "stop")
           /\ call' = [call EXCEPT ![c].newPool = target]
           /\ session' = [session EXCEPT ![w].pool = target]
  <2>1. /\ call' \in [Calls -> CallRecords]
        /\ call'[c] = [call[c] EXCEPT !.newPool = target]
        /\ \A d \in Calls \ {c} : call'[d] = call[d]
    BY <1>1, <1>3, TypedFacts DEF CallRecords
  <2>2. /\ call'[c].op = "reset" /\ call'[c].wrapper = w /\ call'[c].newPool = target
        /\ call'[c].snapshot = call[c].snapshot /\ call'[c].port = call[c].port
        /\ call'[c].pool = call[c].pool
    BY <1>1, <2>1 DEF CallRecords
  <2>3. /\ session'[w] = [session[w] EXCEPT !.pool = target]
        /\ \A v \in Wrappers \ {w} : session'[v] = session[v]
        /\ session' = [v \in Wrappers |-> session'[v]]
    BY <1>1, <1>3, TypedFacts
  <2>4. session'[w] \in SessionRecords /\ session'[w] # None
    BY <1>1, <2>3, ProvisionAssumption DEF SessionRecords
  <2>5. session' \in [Wrappers -> SessionRecords \cup {None}]
    BY <2>3, <2>4, TypedFacts
  <2>6. pc' \in [Calls -> Steps] /\ pc'[c] = "stop" /\ "stop" \in Steps
    BY <1>3, TypedFacts DEF Goto, Steps
  <2>7. ProvisionTypeOK'
    BY <2>1, <2>5, <2>6, TypedFacts DEF ProvisionTypeOK, SwitchPool
  <2>8. Registers(c)'
    BY <1>1, <2>2, <2>4, <2>6 DEF Registers, SP!ResetSteps
  <2> QED
    BY <1>1, <1>3, <2>1, <2>2, <2>3, <2>4, <2>6, <2>7, <2>8, AdvanceTyped
<1> QED
  BY <1>2, <1>3 DEF SwitchPool, MoveSession

LEMMA AllocateTyped ==
  ASSUME TypedInv, NEW c \in Calls, UNCHANGED cloningVars, AllocatePort(c)
  PROVE  TypedInv'
<1>1. /\ call[c].op = "start" /\ pc[c] = "port" /\ call[c] \in CallRecords
      /\ call[c].wrapper \in Wrappers /\ call[c].snapshot \in Snapshots
      /\ call[c].newPool \in Pools
  <2>1. pc[c] = "port"
    BY DEF AllocatePort
  <2>2. call[c].op = "start"
    BY <2>1, RegisterFacts DEF SP!StopSteps, SP!ResetSteps
  <2> QED
    BY <2>1, <2>2, RegisterFacts
<1>2. CASE Goto(c, "err") /\ UNCHANGED <<bind, call>>
  BY <1>1, <1>2, MoveTyped, TypedFacts DEF AllocatePort, SP!StartSteps, Steps
<1>3. ASSUME NEW p \in Ports,
             bind' = [bind EXCEPT ![p] = TRUE],
             call' = [call EXCEPT ![c].port = p],
             Goto(c, "fsm")
      PROVE  TypedInv'
  <2>1. /\ call' \in [Calls -> CallRecords]
        /\ call'[c] = [call[c] EXCEPT !.port = p]
        /\ \A d \in Calls \ {c} : call'[d] = call[d]
    BY <1>1, <1>3, TypedFacts DEF CallRecords
  <2>2. /\ call'[c].op = "start" /\ call'[c].wrapper = call[c].wrapper
        /\ call'[c].snapshot = call[c].snapshot /\ call'[c].newPool = call[c].newPool
        /\ call'[c].port = p
    BY <1>1, <2>1 DEF CallRecords
  <2>3. pc' \in [Calls -> Steps] /\ pc'[c] = "fsm" /\ "fsm" \in Steps
    BY <1>3, TypedFacts DEF Goto, Steps
  <2>4. ProvisionTypeOK'
    BY <1>3, <2>1, <2>3, TypedFacts DEF ProvisionTypeOK, AllocatePort
  <2>5. Registers(c)'
    BY <1>1, <1>3, <2>2, <2>3 DEF Registers, SP!StartSteps
  <2> QED
    BY <1>1, <1>3, <2>1, <2>2, <2>3, <2>4, <2>5, AdvanceTyped DEF AllocatePort
<1> QED
  BY <1>2, <1>3 DEF AllocatePort

LEMMA BuildTyped ==
  ASSUME TypedInv, NEW c \in Calls, UNCHANGED cloningVars,
         CreateClone(c) \/ StartPostgres(c) \/ PrepareDB(c)
  PROVE  TypedInv'
<1> DEFINE p == call[c].port
           q == call[c].newPool
<1>1. /\ pc[c] \in {"create", "run", "prepare"}
      /\ p \in Ports /\ q \in Pools /\ call[c].snapshot \in Snapshots
      /\ call[c].op \in {"start", "reset"}
  <2>1. pc[c] \in {"create", "run", "prepare"}
    BY DEF CreateClone, StartPostgres, PrepareDB
  <2> QED
    BY <2>1, RegisterFacts DEF SP!StopSteps
<1>2. CASE CreateClone(c)
  <2>1. \/ dataset' = dataset
        \/ dataset' = [dataset EXCEPT ![q][p] = call[c].snapshot]
    BY <1>2 DEF CreateClone
  <2>2. dataset' \in [Pools -> [Ports -> Snapshots \cup {None}]]
    <3> HIDE DEF p, q
    <3> QED
      BY <1>1, <2>1, TypedFacts
  <2>3. PICK step \in {"run", "revertStop"} : Goto(c, step)
    BY <1>2 DEF CreateClone
  <2> QED
    BY <1>1, <1>2, <2>2, <2>3, MoveTyped, TypedFacts
       DEF CreateClone, SP!StartSteps, SP!ResetSteps, Steps
<1>3. CASE StartPostgres(c)
  <2>1. \/ container' = container
        \/ \E up \in BOOLEAN : container' = [container EXCEPT ![p] = [pool |-> q, up |-> up]]
    BY <1>3 DEF StartPostgres
  <2>2. container' \in [Ports -> Containers]
    <3> HIDE DEF p, q
    <3>1. \A up \in BOOLEAN : [pool |-> q, up |-> up] \in Containers
      BY <1>1 DEF Containers
    <3> QED
      BY <1>1, <2>1, <3>1, TypedFacts
  <2>3. PICK step \in {"prepare", "revertStop"} : Goto(c, step)
    BY <1>3 DEF StartPostgres
  <2> QED
    BY <1>1, <1>3, <2>2, <2>3, MoveTyped, TypedFacts
       DEF StartPostgres, SP!StartSteps, SP!ResetSteps, Steps
<1>4. CASE PrepareDB(c)
  <2>1. PICK step \in {"ok", "revertStop"} : Goto(c, step)
    BY <1>4 DEF PrepareDB
  <2> QED
    BY <1>1, <1>4, <2>1, MoveTyped, TypedFacts
       DEF PrepareDB, SP!StartSteps, SP!ResetSteps, Steps
<1> QED
  BY <1>2, <1>3, <1>4

LEMMA RemoveTyped ==
  ASSUME TypedInv, NEW c \in Calls, UNCHANGED cloningVars,
         StopPostgres(c) \/ RevertStop(c) \/ FreePort(c)
  PROVE  TypedInv'
<1> DEFINE p == call[c].port
<1>1. /\ pc[c] \in {"stop", "revertStop", "free", "revertFree"} /\ p \in Ports
      /\ call[c].op \in {"start", "stop", "reset"}
      /\ pc[c] \in {"stop", "free"} => call[c].op # "start"
      /\ pc[c] \in {"revertStop", "revertFree"} => call[c].op # "stop"
      /\ pc[c] \in {"free", "revertFree"} => call[c].op # "reset"
  <2>1. pc[c] \in {"stop", "revertStop", "free", "revertFree"}
    BY DEF StopPostgres, RevertStop, FreePort
  <2> QED
    BY <2>1, RegisterFacts DEF SP!StartSteps, SP!StopSteps, SP!ResetSteps
<1>2. ASSUME container' = container \/ container' = [container EXCEPT ![p] = NoContainer]
      PROVE  container' \in [Ports -> Containers]
  <2>1. NoContainer \in Containers
    BY DEF NoContainer, Containers
  <2> HIDE DEF p
  <2> QED
    BY <1>1, <1>2, <2>1, TypedFacts
<1>3. CASE StopPostgres(c)
  <2>1. PICK step \in {"destroy", "revertStop", "err"} :
           Goto(c, step) /\ (step = "revertStop" => call[c].op = "reset")
    BY <1>3 DEF StopPostgres, AfterStop
  <2>2. pc[c] = "stop" /\ container' \in [Ports -> Containers]
    BY <1>2, <1>3 DEF StopPostgres
  <2> QED
    BY <1>1, <1>3, <2>1, <2>2, MoveTyped, TypedFacts
       DEF StopPostgres, SP!StopSteps, SP!ResetSteps, Steps
<1>4. CASE RevertStop(c)
  <2>1. pc[c] = "revertStop" /\ container' \in [Ports -> Containers]
    BY <1>2, <1>4 DEF RevertStop
  <2> QED
    BY <1>1, <1>4, <2>1, MoveTyped, TypedFacts
       DEF RevertStop, SP!StartSteps, SP!ResetSteps, Steps
<1>5. CASE FreePort(c)
  <2>1. PICK step \in {"ok", "err"} : Goto(c, step)
    BY <1>5 DEF FreePort
  <2>2. bind' \in [Ports -> BOOLEAN]
    BY <1>5, TypedFacts DEF FreePort
  <2> QED
    BY <1>1, <1>5, <2>1, <2>2, MoveTyped, TypedFacts
       DEF FreePort, SP!StartSteps, SP!StopSteps, Steps
<1> QED
  BY <1>3, <1>4, <1>5

LEMMA DestroyTyped ==
  ASSUME TypedInv, NEW c \in Calls, UNCHANGED cloningVars,
         DestroyClone(c) \/ RevertDestroy(c)
  PROVE  TypedInv'
<1>1. /\ pc[c] \in {"destroy", "revertDestroy"} /\ call[c].port \in Ports
      /\ call[c].op \in {"start", "stop", "reset"}
      /\ pc[c] = "destroy" => call[c].op # "start" /\ call[c].pool \in Pools
      /\ pc[c] = "revertDestroy" => call[c].op # "stop" /\ call[c].newPool \in Pools
  <2>1. pc[c] \in {"destroy", "revertDestroy"}
    BY DEF DestroyClone, RevertDestroy
  <2> QED
    BY <2>1, RegisterFacts DEF SP!StartSteps, SP!StopSteps, SP!ResetSteps
<1>2. ASSUME NEW q \in Pools, NEW p \in Ports, Destroys(q, p) \/ DestroyFails(q, p)
      PROVE  dataset' \in [Pools -> [Ports -> Snapshots \cup {None}]]
  <2>1. dataset' = dataset \/ dataset' = [dataset EXCEPT ![q][p] = None]
    BY <1>2 DEF Destroys, DestroyFails
  <2> QED
    BY <2>1, TypedFacts
<1>3. CASE DestroyClone(c)
  <2>1. PICK step \in {"create", "free", "revertStop", "err"} :
           /\ Goto(c, step)
           /\ step \in {"revertStop", "create"} => call[c].op = "reset"
           /\ step = "free" => call[c].op # "reset"
    BY <1>3 DEF DestroyClone
  <2>2. pc[c] = "destroy" /\ dataset' \in [Pools -> [Ports -> Snapshots \cup {None}]]
    BY <1>1, <1>2, <1>3 DEF DestroyClone
  <2> QED
    BY <1>1, <1>3, <2>1, <2>2, MoveTyped, TypedFacts
       DEF DestroyClone, SP!StopSteps, SP!ResetSteps, Steps
<1>4. CASE RevertDestroy(c)
  <2>1. PICK step \in {"revertFree", "err"} :
           Goto(c, step) /\ (step = "revertFree" <=> call[c].op = "start")
    BY <1>4 DEF RevertDestroy, AfterRevert
  <2>2. pc[c] = "revertDestroy" /\ dataset' \in [Pools -> [Ports -> Snapshots \cup {None}]]
    BY <1>1, <1>2, <1>4 DEF RevertDestroy
  <2> QED
    BY <1>1, <1>4, <2>1, <2>2, MoveTyped, TypedFacts
       DEF RevertDestroy, SP!StartSteps, SP!ResetSteps, Steps
<1> QED
  BY <1>3, <1>4

LEMMA ProvisionTyped ==
  ASSUME TypedInv, NEW c \in Calls, ProvisionStep(c), UNCHANGED cloningVars
  PROVE  TypedInv'
BY LookupTyped, SwitchTyped, AllocateTyped, BuildTyped, RemoveTyped, DestroyTyped
   DEF ProvisionStep

-----------------------------------------------------------------------------
(* The critical sections, for any clients *)

\* What Keep leaves of what refers to something.
LEMMA KeepTyped ==
  ASSUME NEW ws \in [Wrappers -> CloneRecords \cup {None}],
         NEW ss \in [Wrappers -> SessionRecords \cup {None}],
         Keep(ws, ss)
  PROVE  /\ wrapper' \in [Wrappers -> CloneRecords \cup {None}]
         /\ session' \in [Wrappers -> SessionRecords \cup {None}]
         /\ \A w \in Wrappers : Referenced(w)' => wrapper'[w] = ws[w] /\ session'[w] = ss[w]
BY DEF Keep

\* A change of status changes nothing else.
LEMMA StatusTyped ==
  ASSUME TypedInv, NEW i \in IDs, NEW status \in Statuses
  PROVE  /\ WithStatus(i, status) \in [Wrappers -> CloneRecords \cup {None}]
         /\ \A w \in Wrappers : wrapper[w] # None =>
              WithStatus(i, status)[w] # None /\ WithStatus(i, status)[w].id = wrapper[w].id
<1>1. CASE clones[i] = None
  BY <1>1, TypedFacts DEF WithStatus
<1>2. CASE clones[i] # None
  <2> DEFINE v == clones[i]
             r == [wrapper[v] EXCEPT !.status = status]
  <2>1. v \in Wrappers /\ wrapper[v] \in CloneRecords
    BY <1>2, TypedFacts
  <2>2. r \in CloneRecords /\ r.id = wrapper[v].id
    BY <2>1 DEF CloneRecords
  <2>3. WithStatus(i, status) = [wrapper EXCEPT ![v] = r]
    BY <1>2, <2>1, TypedFacts DEF WithStatus
  <2> HIDE DEF v, r
  <2>4. r # None
    BY <2>2, RecordsAssumption
  <2> QED
    BY <2>1, <2>2, <2>3, <2>4, TypedFacts
<1> QED
  BY <1>1, <1>2

\* A critical section that refers to nothing that was not referred to before.
LEMMA SectionTyped ==
  ASSUME TypedInv, UNCHANGED <<bind, container, dataset>>,
         NEW ws \in [Wrappers -> CloneRecords \cup {None}],
         NEW ss \in [Wrappers -> SessionRecords \cup {None}],
         Keep(ws, ss),
         \A w \in Wrappers : wrapper[w] # None => ws[w] # None /\ ws[w].id = wrapper[w].id,
         \A w \in Wrappers : session[w] # None => ss[w] # None,
         clones' \in [IDs -> Wrappers \cup {None}],
         \A i \in IDs : clones'[i] \in {clones[i], None},
         handler' \in [Goroutines -> HandlerRecords],
         \A h \in Goroutines :
           \/ handler'[h] = handler[h]
           \/ handler'[h].wrapper \in {handler[h].wrapper, None} /\ Locals(h)',
         pc' \in [Calls -> Steps], call' \in [Calls -> CallRecords],
         \A c \in Calls :
           \/ pc'[c] = "idle"
           \/ pc'[c] = pc[c] /\ call'[c] = call[c]
           \/ Referenced(call'[c].wrapper) /\ Registers(c)'
  PROVE  TypedInv'
<1>1. CloningTypeOK'
  BY KeepTyped, TypedFacts DEF CloningTypeOK, ProvisionTypeOK
<1>2. ASSUME NEW w \in Wrappers, Referenced(w)'
      PROVE  Referenced(w)
  BY <1>2, ProvisionAssumption DEF Referenced
<1>3. \A w \in Wrappers : Referenced(w) => wrapper[w] # None
  BY DEF TypedInv
<1> QED
  BY <1>1, <1>2, <1>3, KeepTyped, StepTyped

\* What a call returns goes to the wrapper that is registered now.
LEMMA ReturnTyped ==
  ASSUME TypedInv, NEW c \in Calls, CallDone(c)
  PROVE  TypedInv'
<1> DEFINE i == IdOf(c)
           w == call[c].wrapper
<1>1. /\ pc[c] # "idle" /\ w \in Wrappers /\ i \in IDs /\ wrapper[w] \in CloneRecords
      /\ handler' = handler /\ UNCHANGED <<bind, container, dataset>>
      /\ Goto(c, "idle") /\ call' = [call EXCEPT ![c] = NoCall]
  BY TypedFacts DEF CallDone, StartDone, StopDone, ResetDone
<1>2. /\ pc' \in [Calls -> Steps] /\ call' \in [Calls -> CallRecords]
      /\ \A d \in Calls : pc'[d] = "idle" \/ (pc'[d] = pc[d] /\ call'[d] = call[d])
  BY <1>1, TypedFacts DEF Goto, NoCall, CallRecords, Steps
<1>3. /\ clones' \in [IDs -> Wrappers \cup {None}]
      /\ \A j \in IDs : clones'[j] \in {clones[j], None}
  BY <1>1, TypedFacts DEF CallDone, StartDone, StopDone, ResetDone
<1>4. ASSUME NEW ws \in [Wrappers -> CloneRecords \cup {None}],
             NEW ss \in [Wrappers -> SessionRecords \cup {None}],
             Keep(ws, ss),
             \A v \in Wrappers : wrapper[v] # None => ws[v] # None /\ ws[v].id = wrapper[v].id,
             \A v \in Wrappers : session[v] # None => ss[v] # None
      PROVE  TypedInv'
  BY <1>1, <1>2, <1>3, <1>4, TypedFacts, SectionTyped
<1>5. ASSUME NEW status \in Statuses, Keep(WithStatus(i, status), session)
      PROVE  TypedInv'
  BY <1>1, <1>4, <1>5, StatusTyped, TypedFacts
<1>6. ASSUME Keep(wrapper, session)
      PROVE  TypedInv'
  BY <1>4, <1>6, TypedFacts
<1>7. {"OK", "FATAL"} \subseteq Statuses
  BY DEF Statuses
<1>8. CASE StartDone(c)
  <2> DEFINE result == [port |-> call[c].port, pool |-> call[c].newPool]
             ss == [session EXCEPT ![clones[i]] = result]
  <2>1. CASE pc[c] = "ok" /\ clones[i] # None /\ Keep(WithStatus(i, "OK"), ss)
    <3>1. result \in SessionRecords /\ result # None
      <4>1. call[c].port \in Ports /\ call[c].newPool \in Pools
        BY <2>1, RegisterFacts
      <4> QED
        BY <4>1, ProvisionAssumption DEF SessionRecords
    <3>2. clones[i] \in Wrappers
      BY <1>1, <2>1, TypedFacts
    <3>3. /\ ss \in [Wrappers -> SessionRecords \cup {None}]
          /\ \A v \in Wrappers : session[v] # None => ss[v] # None
      <4> HIDE DEF result
      <4> QED
        BY <3>1, <3>2, TypedFacts
    <3> HIDE DEF ss
    <3> QED
      BY <1>1, <1>4, <1>7, <2>1, <3>3, StatusTyped
  <2>2. CASE Keep(wrapper, session) \/ Keep(WithStatus(i, "FATAL"), session)
    BY <1>5, <1>6, <1>7, <2>2
  <2> QED
    BY <1>8, <2>1, <2>2 DEF StartDone
<1>9. CASE StopDone(c)
  BY <1>5, <1>6, <1>7, <1>9 DEF StopDone
<1>10. CASE ResetDone(c)
  <2> DEFINE ready == WithStatus(i, "OK")
             r == [ready[w] EXCEPT !.snapshot = call[c].snapshot]
             ws == [ready EXCEPT ![w].snapshot = call[c].snapshot]
  <2>1. CASE Keep(ws, session)
    <3>1. call[c].snapshot \in Snapshots
      BY <1>1, <1>10, RegisterFacts DEF ResetDone
    <3>2. /\ ready \in [Wrappers -> CloneRecords \cup {None}]
          /\ \A v \in Wrappers : wrapper[v] # None =>
               ready[v] # None /\ ready[v].id = wrapper[v].id
      BY <1>1, <1>7, StatusTyped
    <3>3. ready[w] \in CloneRecords /\ wrapper[w] # None
      BY <1>1, <3>2, RecordsAssumption
    <3>4. r \in CloneRecords /\ r.id = ready[w].id /\ r # None
      <4> HIDE DEF ready
      <4>1. r \in CloneRecords /\ r.id = ready[w].id
        BY <3>1, <3>3 DEF CloneRecords
      <4> QED
        BY <4>1, RecordsAssumption
    <3>5. ws = [ready EXCEPT ![w] = r]
      OBVIOUS
    <3>6. /\ ws \in [Wrappers -> CloneRecords \cup {None}]
          /\ \A v \in Wrappers : wrapper[v] # None => ws[v] # None /\ ws[v].id = wrapper[v].id
      <4> HIDE DEF ready, r, ws
      <4> QED
        BY <1>1, <3>2, <3>3, <3>4, <3>5
    <3> HIDE DEF ws
    <3> QED
      BY <1>4, <2>1, <3>6, TypedFacts
  <2>2. CASE Keep(WithStatus(i, "FATAL"), session)
    BY <1>5, <1>7, <2>2
  <2> QED
    BY <1>10, <2>1, <2>2 DEF ResetDone
<1> QED
  BY <1>8, <1>9, <1>10 DEF CallDone

\* A handler that is done knows nothing.
LEMMA SettleTyped ==
  ASSUME TypedInv, NEW h \in Goroutines, Settle(h)
  PROVE  /\ handler' \in [Goroutines -> HandlerRecords]
         /\ \A g \in Goroutines :
              \/ handler'[g] = handler[g]
              \/ handler'[g].wrapper \in {handler[g].wrapper, None} /\ Locals(g)'
         /\ handler'[h] = Idle /\ \A g \in Goroutines \ {h} : handler'[g] = handler[g]
<1>1. Idle \in HandlerRecords
  BY DEF Idle, HandlerRecords
<1>2. /\ handler' \in [Goroutines -> HandlerRecords] /\ handler'[h] = Idle
      /\ \A g \in Goroutines \ {h} : handler'[g] = handler[g]
  BY <1>1, TypedFacts DEF Settle
<1>3. Locals(h)'
  BY <1>2 DEF Locals, Idle
<1> QED
  BY <1>2, <1>3 DEF Idle

LEMMA CreateSetTyped ==
  ASSUME TypedInv, NEW h \in Goroutines, NEW w \in Wrappers, NEW c \in Calls,
         NEW protected \in BOOLEAN, CreateSet(h, w, c, protected)
  PROVE  TypedInv'
<1> DEFINE i == handler[h].id
           s == handler[h].snapshot
           r == [id |-> i, status |-> "CREATING", snapshot |-> s, protected |-> protected]
           k == [op |-> "start", wrapper |-> w, snapshot |-> s, port |-> None,
                 pool |-> PoolOf[s], newPool |-> PoolOf[s]]
<1>1. i \in IDs /\ s \in Snapshots /\ PoolOf[s] \in Pools
  BY ProvisionAssumption DEF CreateSet, TypedInv, Locals
<1>2. r \in CloneRecords /\ r # None /\ r.id = i /\ k \in CallRecords
  <2>1. r \in CloneRecords /\ k \in CallRecords
    BY <1>1 DEF CloneRecords, Statuses, CallRecords
  <2> QED
    BY <2>1, RecordsAssumption
<1>3. /\ clones' = [clones EXCEPT ![i] = w] /\ ~Referenced(w)
      /\ pc[c] = "idle" /\ Goto(c, "snapshot") /\ call' = [call EXCEPT ![c] = k]
      /\ Keep([wrapper EXCEPT ![w] = r], session)
      /\ UNCHANGED <<bind, container, dataset>>
  BY DEF CreateSet, InvokeStart
<1> HIDE DEF r, k
<1>4. [wrapper EXCEPT ![w] = r] \in [Wrappers -> CloneRecords \cup {None}]
  BY <1>2, TypedFacts
<1>5. /\ pc' \in [Calls -> Steps] /\ call' \in [Calls -> CallRecords]
      /\ pc'[c] = "snapshot" /\ call'[c] = k
      /\ \A d \in Calls \ {c} : pc'[d] = pc[d] /\ call'[d] = call[d]
      /\ clones' \in [IDs -> Wrappers \cup {None}] /\ clones'[i] = w
      /\ \A j \in IDs \ {i} : clones'[j] = clones[j]
  BY <1>1, <1>2, <1>3, TypedFacts DEF Goto, Steps
<1>6. Settle(h)
  BY DEF CreateSet
<1>7. CloningTypeOK'
  BY <1>3, <1>4, <1>5, <1>6, KeepTyped, SettleTyped, TypedFacts DEF CloningTypeOK, ProvisionTypeOK
<1>8. Registers(c)'
  BY <1>1, <1>5 DEF Registers, SP!StartSteps, k
<1>9. Referenced(w)'
  BY <1>1, <1>5 DEF Referenced
<1>10. ASSUME NEW v \in Wrappers \ {w}, Referenced(v)'
       PROVE  Referenced(v)
  <2>1. ASSUME NEW j \in IDs, clones'[j] = v
        PROVE  clones[j] = v
    BY <1>1, <1>5, <1>10, <2>1
  <2>2. ASSUME NEW g \in Goroutines, handler'[g].wrapper = v
        PROVE  handler[g].wrapper = v
    BY <1>6, <2>2, SettleTyped, ProvisionAssumption DEF Idle
  <2>3. ASSUME NEW d \in Calls, pc'[d] # "idle", call'[d].wrapper = v
        PROVE  pc[d] # "idle" /\ call[d].wrapper = v
    BY <1>5, <1>10, <2>3 DEF k
  <2> QED
    BY <1>10, <2>1, <2>2, <2>3 DEF Referenced
<1>11. \A v \in Wrappers : Referenced(v)' =>
         /\ wrapper'[v] = IF v = w THEN r ELSE wrapper[v]
         /\ session'[v] = session[v]
  <2> DEFINE ws == [wrapper EXCEPT ![w] = r]
  <2>1. \A v \in Wrappers : ws[v] = IF v = w THEN r ELSE wrapper[v]
    BY TypedFacts
  <2> HIDE DEF ws
  <2>2. ws \in [Wrappers -> CloneRecords \cup {None}] /\ Keep(ws, session)
    BY <1>3, <1>4 DEF ws
  <2> QED
    BY <2>1, <2>2, TypedFacts, KeepTyped
<1>12. wrapper'[w] = r /\ wrapper'[clones'[i]].id = i
  BY <1>2, <1>5, <1>9, <1>11
<1>13. ASSUME NEW v \in Wrappers, Referenced(v)'
       PROVE  /\ wrapper'[v] # None
              /\ Referenced(v) => wrapper'[v] = wrapper[v]
              /\ session'[v] = session[v]
  BY <1>2, <1>3, <1>10, <1>11, <1>13 DEF TypedInv
<1> QED
  BY <1>5, <1>6, <1>7, <1>8, <1>12, <1>13, SettleTyped, StepTyped

\* DestroyMark, DestroyGo and ResetMark: a clone gets a status or leaves the
\* registry, and a call may begin on the session the handler has found.
LEMMA MarkTyped ==
  ASSUME TypedInv, NEW h \in Goroutines,
         DestroyMark(h) \/ \E c \in Calls : DestroyGo(h, c) \/ ResetMark(h, c)
  PROVE  TypedInv'
<1> DEFINE i == handler[h].id
<1>1. PICK w \in Wrappers :
        /\ w = handler[h].wrapper /\ Referenced(w) /\ i \in IDs
        /\ handler[h].pc = "resetMark" => handler[h].snapshot \in Snapshots
        /\ UNCHANGED <<bind, container, dataset>>
  <2>1. handler[h].pc \in {"destroyMark", "destroyGo", "resetMark"}
        /\ UNCHANGED <<bind, container, dataset>>
    BY DEF DestroyMark, DestroyGo, ResetMark
  <2> QED
    BY <2>1 DEF TypedInv, Locals, Referenced
<1>2. {"DELETING", "RESETTING"} \subseteq Statuses
  BY DEF Statuses
<1>3. ASSUME NEW ws \in [Wrappers -> CloneRecords \cup {None}], Keep(ws, session),
             \A v \in Wrappers : wrapper[v] # None => ws[v] # None /\ ws[v].id = wrapper[v].id,
             \A j \in IDs : clones'[j] \in {clones[j], None},
             clones' \in [IDs -> Wrappers \cup {None}],
             handler' \in [Goroutines -> HandlerRecords],
             \A g \in Goroutines :
               \/ handler'[g] = handler[g]
               \/ handler'[g].wrapper \in {handler[g].wrapper, None} /\ Locals(g)',
             UNCHANGED <<pc, call>>
      PROVE  TypedInv'
  BY <1>1, <1>3, TypedFacts, SectionTyped
<1>4. ASSUME NEW c \in Calls, NEW s \in Snapshots \cup {None}, NEW op \in {"stop", "reset"},
             NEW ws \in [Wrappers -> CloneRecords \cup {None}], Keep(ws, session),
             \A v \in Wrappers : wrapper[v] # None => ws[v] # None /\ ws[v].id = wrapper[v].id,
             UNCHANGED clones, Settle(h), op = "reset" => s \in Snapshots,
             pc[c] = "idle", session[w] # None, Goto(c, "fsm"),
             call' = [call EXCEPT ![c] =
               [op |-> op, wrapper |-> w, snapshot |-> s, port |-> session[w].port,
                pool |-> session[w].pool, newPool |-> session[w].pool]]
      PROVE  TypedInv'
  <2> DEFINE k == [op |-> op, wrapper |-> w, snapshot |-> s, port |-> session[w].port,
                   pool |-> session[w].pool, newPool |-> session[w].pool]
  <2>1. session[w] \in SessionRecords
    BY <1>1, <1>4, TypedFacts
  <2>2. k \in CallRecords /\ k.wrapper = w /\ k.port \in Ports /\ k.pool \in Pools
    BY <1>1, <2>1 DEF CallRecords, SessionRecords
  <2>3. call' = [call EXCEPT ![c] = k]
    BY <1>4
  <2>4. k.op = op /\ k.snapshot = s /\ k.newPool \in Pools
    BY <2>1 DEF SessionRecords
  <2> HIDE DEF k
  <2>5. /\ pc' \in [Calls -> Steps] /\ call' \in [Calls -> CallRecords]
        /\ pc'[c] = "fsm" /\ call'[c] = k
        /\ \A d \in Calls \ {c} : pc'[d] = pc[d] /\ call'[d] = call[d]
    BY <1>4, <2>2, <2>3, TypedFacts DEF Goto, Steps
  <2>6. Referenced(w)'
    BY <2>2, <2>5 DEF Referenced
  <2>7. session'[w] # None
    BY <1>1, <1>4, <2>6, TypedFacts, KeepTyped
  <2>8. Registers(c)'
    BY <1>1, <1>4, <2>2, <2>4, <2>5, <2>7 DEF Registers, SP!StopSteps, SP!ResetSteps
  <2> QED
    BY <1>1, <1>4, <2>2, <2>5, <2>8, SettleTyped, TypedFacts, SectionTyped
<1>5. ASSUME NEW status \in Statuses
      PROVE  /\ WithStatus(i, status) \in [Wrappers -> CloneRecords \cup {None}]
             /\ \A v \in Wrappers : wrapper[v] # None =>
                  WithStatus(i, status)[v] # None /\ WithStatus(i, status)[v].id = wrapper[v].id
  BY <1>1, StatusTyped
<1>6. CASE DestroyMark(h)
  <2>1. CASE handler' = [handler EXCEPT ![h].pc = "destroyGo"]
             /\ Keep(WithStatus(i, "DELETING"), session)
    <3> DEFINE k == [handler[h] EXCEPT !.pc = "destroyGo"]
    <3>1. handler[h] \in HandlerRecords
      BY TypedFacts
    <3>2. k \in HandlerRecords /\ k.pc = "destroyGo" /\ k.id = i /\ k.wrapper = w
      <4>1. k \in HandlerRecords /\ k.pc = "destroyGo" /\ k.id = i
        BY <3>1 DEF HandlerRecords
      <4>2. k.wrapper = handler[h].wrapper
        BY <3>1 DEF HandlerRecords
      <4> QED
        BY <1>1, <4>1, <4>2
    <3>3. handler' = [handler EXCEPT ![h] = k]
      BY <2>1
    <3> HIDE DEF k
    <3>4. /\ handler' \in [Goroutines -> HandlerRecords] /\ handler'[h] = k
          /\ \A g \in Goroutines \ {h} : handler'[g] = handler[g]
      BY <3>2, <3>3, TypedFacts
    <3>5. Locals(h)'
      BY <1>1, <3>2, <3>4 DEF Locals
    <3>6. UNCHANGED <<pc, call, clones>>
      BY <1>6 DEF DestroyMark
    <3> QED
      BY <1>2, <1>3, <1>5, <2>1, <3>2, <3>4, <3>5, <3>6, TypedFacts
  <2>2. CASE Settle(h) /\ Keep(wrapper, session)
    <3>1. UNCHANGED <<pc, call, clones>>
      BY <1>6 DEF DestroyMark
    <3> QED
      BY <1>3, <2>2, <3>1, SettleTyped, TypedFacts
  <2> QED
    BY <1>6, <2>1, <2>2 DEF DestroyMark
<1>7. ASSUME NEW c \in Calls, DestroyGo(h, c)
      PROVE  TypedInv'
  <2>1. Settle(h) /\ Keep(wrapper, session)
    BY <1>7 DEF DestroyGo
  <2>2. CASE clones' = [clones EXCEPT ![i] = None] /\ UNCHANGED <<pc, call>>
    BY <1>1, <1>3, <2>1, <2>2, SettleTyped, TypedFacts
  <2>3. CASE InvokeStop(c, handler[h].wrapper) /\ UNCHANGED clones
    <3>1. /\ pc[c] = "idle" /\ session[w] # None /\ Goto(c, "fsm")
          /\ call' = [call EXCEPT ![c] =
               [op |-> "stop", wrapper |-> w, snapshot |-> None, port |-> session[w].port,
                pool |-> session[w].pool, newPool |-> session[w].pool]]
      BY <1>1, <2>3 DEF InvokeStop
    <3> QED
      BY <1>4, <2>1, <2>3, <3>1, TypedFacts
  <2> QED
    BY <1>7, <2>2, <2>3 DEF DestroyGo
<1>8. ASSUME NEW c \in Calls, ResetMark(h, c)
      PROVE  TypedInv'
  <2>1. Settle(h) /\ UNCHANGED clones /\ handler[h].snapshot \in Snapshots
    BY <1>1, <1>8 DEF ResetMark
  <2>2. CASE /\ InvokeReset(c, handler[h].wrapper, handler[h].snapshot)
             /\ Keep(WithStatus(i, "RESETTING"), session)
    <3>1. PICK s \in Snapshots : s = handler[h].snapshot
      BY <2>1
    <3>2. /\ pc[c] = "idle" /\ session[w] # None /\ Goto(c, "fsm")
          /\ call' = [call EXCEPT ![c] =
               [op |-> "reset", wrapper |-> w, snapshot |-> s, port |-> session[w].port,
                pool |-> session[w].pool, newPool |-> session[w].pool]]
      BY <1>1, <2>2, <3>1 DEF InvokeReset
    <3>3. Keep(WithStatus(i, "RESETTING"), session)
      BY <2>2
    <3> QED
      BY <1>2, <1>4, <1>5, <2>1, <3>2, <3>3
  <2>3. CASE UNCHANGED <<pc, call>> /\ Keep(wrapper, session)
    BY <1>3, <2>1, <2>3, SettleTyped, TypedFacts
  <2> QED
    BY <1>8, <2>2, <2>3 DEF ResetMark
<1> QED
  BY <1>6, <1>7, <1>8

\* Steps that drop nothing: requests that arrive, observations, the idle check.
LEMMA ArrivalTyped ==
  ASSUME TypedInv, UNCHANGED provisionVars, UNCHANGED clones,
         NEW h \in Goroutines, NEW k \in HandlerRecords,
         handler' = [handler EXCEPT ![h] = k], k = handler[h] \/ Locals(h)',
         k.wrapper \in {handler[h].wrapper, None} \/ \E i \in IDs : clones[i] = k.wrapper,
         wrapper' \in [Wrappers -> CloneRecords \cup {None}],
         \A w \in Wrappers : wrapper[w] # None =>
           wrapper'[w] # None /\ wrapper'[w].id = wrapper[w].id
  PROVE  TypedInv'
<1>1. /\ handler' \in [Goroutines -> HandlerRecords] /\ handler'[h] = k
      /\ \A g \in Goroutines \ {h} : handler'[g] = handler[g]
  BY TypedFacts
<1>2. UNCHANGED <<bind, container, dataset, session, pc, call>>
  BY DEF provisionVars
<1>3. CloningTypeOK'
  BY <1>1, <1>2, TypedFacts DEF CloningTypeOK, ProvisionTypeOK
<1>4. \A w \in Wrappers : Referenced(w)' => Referenced(w)
  BY <1>1, <1>2, ProvisionAssumption DEF Referenced
<1>5. \A w \in Wrappers : Referenced(w) => wrapper[w] # None
  BY DEF TypedInv
<1> QED
  BY <1>1, <1>2, <1>3, <1>4, <1>5, StepTyped

LEMMA FindTyped ==
  ASSUME TypedInv, NEW h \in Goroutines, NEW i \in IDs,
         \/ \E s \in Snapshots : CreateFind(h, i, s) \/ ResetFind(h, i, s)
         \/ DestroyFind(h, i) \/ (h = IdleChecker /\ IdleFound(i))
  PROVE  TypedInv'
<1>1. UNCHANGED <<provisionVars, clones, wrapper>>
  BY DEF CreateFind, ResetFind, DestroyFind, IdleFound
<1>2. clones[i] \in Wrappers \cup {None}
  BY TypedFacts
<1>3. ASSUME NEW step \in {"createSet", "resetMark", "destroyMark", "destroyFind"},
             NEW w \in {clones[i], None}, NEW s \in Snapshots \cup {None},
             step \in {"createSet", "resetMark"} => s \in Snapshots,
             step \in {"destroyMark", "resetMark"} => w # None,
             handler' = [handler EXCEPT ![h] =
               [pc |-> step, id |-> i, wrapper |-> w, snapshot |-> s]]
      PROVE  TypedInv'
  <2> DEFINE k == [pc |-> step, id |-> i, wrapper |-> w, snapshot |-> s]
  <2>1. /\ k \in HandlerRecords /\ k.pc = step /\ k.id = i /\ k.wrapper = w
        /\ k.snapshot = s /\ w \in Wrappers \cup {None}
    BY <1>2 DEF HandlerRecords
  <2>2. handler' = [handler EXCEPT ![h] = k]
    BY <1>3
  <2> HIDE DEF k
  <2>3. handler'[h] = k
    BY <2>2, TypedFacts
  <2>4. Locals(h)'
    BY <1>3, <2>1, <2>3 DEF Locals
  <2>5. k.wrapper = None \/ \E j \in IDs : clones[j] = k.wrapper
    BY <1>3, <2>1
  <2>6. /\ UNCHANGED provisionVars /\ UNCHANGED clones
        /\ wrapper' \in [Wrappers -> CloneRecords \cup {None}]
        /\ \A v \in Wrappers : wrapper[v] # None =>
             wrapper'[v] # None /\ wrapper'[v].id = wrapper[v].id
    BY <1>1, TypedFacts
  <2> QED
    BY <2>1, <2>2, <2>4, <2>5, <2>6, ArrivalTyped
<1>4. ASSUME NEW s \in Snapshots, CreateFind(h, i, s)
      PROVE  TypedInv'
  BY <1>3, <1>4 DEF CreateFind
<1>5. ASSUME NEW s \in Snapshots, ResetFind(h, i, s)
      PROVE  TypedInv'
  BY <1>3, <1>5 DEF ResetFind
<1>6. CASE DestroyFind(h, i)
  BY <1>3, <1>6 DEF DestroyFind
<1>7. CASE h = IdleChecker /\ IdleFound(i)
  BY <1>3, <1>7 DEF IdleFound
<1> QED
  BY <1>4, <1>5, <1>6, <1>7

LEMMA UpdateTyped ==
  ASSUME TypedInv,
         \/ \E h \in Goroutines, i \in IDs :
              ObserveStop(h, i) \/ \E protected \in BOOLEAN : UpdateClone(h, i, protected)
         \/ \E h \in Goroutines : ObserveReturn(h)
         \/ IdleRefused
  PROVE  TypedInv'
<1>1. ASSUME NEW h \in Goroutines, NEW i \in IDs, NEW protected \in BOOLEAN,
             UpdateClone(h, i, protected)
      PROVE  TypedInv'
  <2> DEFINE v == clones[i]
             r == [wrapper[v] EXCEPT !.protected = protected]
  <2>1. /\ v \in Wrappers /\ wrapper[v] \in CloneRecords
        /\ UNCHANGED <<provisionVars, clones, handler>>
    BY <1>1, TypedFacts DEF UpdateClone
  <2>2. r \in CloneRecords /\ r.id = wrapper[v].id
    BY <2>1 DEF CloneRecords
  <2>3. wrapper' = [wrapper EXCEPT ![v] = r]
    BY <1>1 DEF UpdateClone
  <2> HIDE DEF v, r
  <2>4. r # None
    BY <2>2, RecordsAssumption
  <2>5. /\ wrapper' \in [Wrappers -> CloneRecords \cup {None}]
        /\ \A w \in Wrappers : wrapper[w] # None =>
             wrapper'[w] # None /\ wrapper'[w].id = wrapper[w].id
    BY <2>1, <2>2, <2>3, <2>4, TypedFacts
  <2>6. handler[h] \in HandlerRecords /\ handler' = [handler EXCEPT ![h] = handler[h]]
    BY <2>1, TypedFacts
  <2> QED
    BY <2>1, <2>5, <2>6, ArrivalTyped
<1>2. ASSUME NEW h \in Goroutines, NEW i \in IDs, ObserveStop(h, i)
      PROVE  TypedInv'
  <2> DEFINE k == [pc |-> "observe", id |-> i, wrapper |-> None, snapshot |-> None]
  <2>1. k \in HandlerRecords
    BY DEF HandlerRecords
  <2>2. /\ wrapper' = WithStatus(i, "EXPORTING") /\ "EXPORTING" \in Statuses
        /\ handler' = [handler EXCEPT ![h] = k] /\ UNCHANGED <<provisionVars, clones>>
    BY <1>2 DEF ObserveStop, Statuses
  <2>3. Locals(h)'
    BY <2>2, TypedFacts DEF Locals
  <2> QED
    BY <2>1, <2>2, <2>3, StatusTyped, ArrivalTyped
<1>3. ASSUME NEW h \in Goroutines, ObserveReturn(h)
      PROVE  TypedInv'
  <2>1. /\ handler[h].id \in IDs /\ "OK" \in Statuses
        /\ wrapper' = WithStatus(handler[h].id, "OK")
        /\ handler' = [handler EXCEPT ![h] = Idle] /\ UNCHANGED <<provisionVars, clones>>
    BY <1>3 DEF ObserveReturn, Settle, TypedInv, Locals, Statuses
  <2>2. Idle \in HandlerRecords /\ Idle.wrapper = None /\ Locals(h)'
    BY <2>1, TypedFacts DEF Idle, HandlerRecords, Locals
  <2> QED
    BY <2>1, <2>2, StatusTyped, ArrivalTyped
<1>4. CASE IdleRefused
  <2>1. /\ handler' = [handler EXCEPT ![IdleChecker] = Idle] /\ IdleChecker \in Goroutines
        /\ UNCHANGED <<provisionVars, clones, wrapper>>
    BY <1>4 DEF IdleRefused, Settle, Goroutines
  <2>2. Idle \in HandlerRecords /\ Idle.wrapper = None /\ Locals(IdleChecker)'
    BY <2>1, TypedFacts DEF Idle, HandlerRecords, Locals
  <2> QED
    BY <2>1, <2>2, TypedFacts, ArrivalTyped
<1> QED
  BY <1>1, <1>2, <1>3, <1>4

LEMMA NextTyped == TypedInv /\ [Next]_vars => TypedInv'
<1> SUFFICES ASSUME TypedInv, [Next]_vars PROVE TypedInv'
  OBVIOUS
<1>1. CASE UNCHANGED vars
  BY <1>1 DEF vars, provisionVars, cloningVars, TypedInv, CloningTypeOK, ProvisionTypeOK,
     Referenced, Registers, Locals
<1>2. CASE Next
  BY <1>2, ProvisionTyped, ReturnTyped, CreateSetTyped, MarkTyped, FindTyped, UpdateTyped
     DEF Next, GoroutineStep, HandlerStep, Arrival, Goroutines
<1> QED
  BY <1>1, <1>2

LEMMA InitTyped == Init => TypedInv
<1> SUFFICES ASSUME Init PROVE TypedInv
  OBVIOUS
<1>1. CloningTypeOK
  BY InitWait DEF WaitInv
<1> QED
  BY <1>1, ProvisionAssumption
     DEF Init, ProvisionInit, TypedInv, Referenced, Registers, Locals, Idle

LEMMA TypedHolds == Spec => []TypedInv
BY InitTyped, NextTyped, PTL DEF Spec

-----------------------------------------------------------------------------
(* The theorems *)

\* The cloning service with waiting clients implements SerialSessions: each of
\* its steps runs one operation per clone at a time, or leaves the Provisioner
\* and the sessions alone.
THEOREM CloningIsSerial ==
  ASSUME WaitingClients
  PROVE  Spec => UsesProvisionSerially
<1>1. Init => Serial!Init
  BY InitWait, SameSerial
<1>2. WaitInv /\ SP!DisciplineInv /\ [Next]_vars => [Serial!Next]_Serial!serialVars
  BY StepIsSerial, SameSerial DEF SerialStep
<1> QED
  BY <1>1, <1>2, WaitHolds, PTL DEF Spec, UsesProvisionSerially, Serial!Spec

\* The registry, the clones and the handlers keep their types, whatever requests
\* overlap: no handler or call follows a pointer to a clone that is no more.
THEOREM CloningTypes == Spec => []CloningTypeOK
<1>1. TypedInv => CloningTypeOK
  BY DEF TypedInv
<1> QED
  BY <1>1, TypedHolds, PTL

\* However the requests of clients that do not wait overlap, and whatever they
\* do to each other's clones, no handler or goroutine follows a nil pointer.
THEOREM NoNilPointers == Spec => []NothingDangles
<1>1. TypedInv => NothingDangles
  <2> SUFFICES ASSUME TypedInv PROVE NothingDangles
    OBVIOUS
  <2>1. ASSUME NEW i \in IDs, clones[i] # None
        PROVE  wrapper[clones[i]] # None /\ wrapper[clones[i]].id = i
    BY <2>1, TypedFacts, RecordsAssumption
  <2>2. ASSUME NEW h \in Goroutines, handler[h].pc \in {"destroyMark", "destroyGo", "resetMark"}
        PROVE  handler[h].wrapper \in Wrappers /\ wrapper[handler[h].wrapper] # None
    BY <2>2 DEF TypedInv, Locals, Referenced
  <2>3. ASSUME NEW c \in Calls, call[c].op \in {"stop", "reset"}, pc[c] # "idle"
        PROVE  call[c].wrapper \in Wrappers /\ session[call[c].wrapper] # None
    BY <2>3 DEF TypedInv, Registers
  <2> QED
    BY <2>1, <2>2, <2>3 DEF NothingDangles
<1> QED
  BY <1>1, TypedHolds, PTL

\* A clone with status OK accepts connections: it has a session, and on the
\* port of the session its container is up on a dataset of the snapshot the API
\* shows.  Failed clean-up commands are excluded, every other failure is not.
THEOREM ReadyClonesWork ==
  ASSUME WaitingClients, SP!CleanUpWorks
  PROVE  Spec => []ReadyCloneWorks
<1>1. WaitInv /\ SP!FootprintInv => ReadyCloneWorks
  <2> SUFFICES ASSUME WaitInv, SP!FootprintInv, NEW i \in IDs, Ready(i)
               PROVE  Works(clones[i])
    BY DEF ReadyCloneWorks
  <2> DEFINE w == clones[i]
  <2>1. /\ w \in Wrappers /\ wrapper[w] # None /\ wrapper[w].status = "OK"
        /\ session[w] # None
    BY DEF Ready, WaitInv, CloningTypeOK, RegistryInv
  <2>2. PICK ok \in BOOLEAN : ok <=> wrapper[w].status = "OK"
    OBVIOUS
  <2>3. Recorded[w] = [snapshot |-> wrapper[w].snapshot, ok |-> ok]
    BY <2>1, <2>2, RecordedOf
  <2>4. wrapper[w] \in CloneRecords
    BY <2>1 DEF WaitInv, CloningTypeOK
  <2>5. [snapshot |-> wrapper[w].snapshot, ok |-> ok] \in Serial!CloneRecords
    BY <2>4 DEF CloneRecords, Serial!CloneRecords
  <2>6. Recorded[w].ok = ok /\ Recorded[w].snapshot = wrapper[w].snapshot
    BY <2>3
  <2>7. Recorded[w] # None /\ ok
    BY <2>1, <2>2, <2>3, <2>5, RecordsAssumption
  <2>8. SP!AtRest(w)
    BY <2>1 DEF SP!FootprintInv
  <2> QED
    BY <2>1, <2>6, <2>7, <2>8 DEF SP!AtRest, Works
<1> QED
  BY <1>1, WaitHolds, CleanHolds, PTL

\* Every container and dataset belongs to a registered clone or to a call in
\* progress, also after failures, unless the commands that clean up fail.
THEOREM NothingIsOrphaned ==
  ASSUME WaitingClients, SP!CleanUpWorks
  PROVE  Spec => []NoOrphan
BY KeptServed, WaitHolds, CleanHolds, PTL

=============================================================================
