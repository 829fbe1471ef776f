------------------------ MODULE SerialSessions_proofs ------------------------
(***************************************************************************)
(* Proofs about SerialSessions, for every port pool, every set of pools,   *)
(* snapshots, wrappers and calls, and every choice of Faults: that ports   *)
(* are exclusive and, from there, what failed operations leave behind.     *)
(***************************************************************************)
EXTENDS SerialSessions, TLAPS

\* The steps each operation goes through.
StartSteps == {"snapshot", "port", "fsm", "create", "run", "prepare",
               "revertStop", "revertDestroy", "revertFree", "ok", "err"}
StopSteps  == {"fsm", "stop", "destroy", "free", "ok", "err"}
ResetSteps == {"fsm", "snapshot", "switch", "stop", "destroy", "create", "run",
               "prepare", "revertStop", "revertDestroy", "ok", "err"}

\* A start has a port from AllocatePort on; a failed one may have none.
StartCall(c) ==
  LET k == call[c]
  IN /\ k.wrapper \in Wrappers /\ session[k.wrapper] = None
     /\ pc[c] \in StartSteps
     /\ k.snapshot \in Snapshots /\ k.newPool \in Pools
     /\ pc[c] \notin {"snapshot", "port", "err"} => k.port \in Ports

\* A stop or a reset works on the port of the session of its wrapper.
SessionCall(c) ==
  LET k == call[c]
  IN /\ k.wrapper \in Wrappers /\ session[k.wrapper] # None
     /\ k.port = session[k.wrapper].port
     /\ k.pool \in Pools /\ k.newPool \in Pools
     /\ k.op = "stop" => pc[c] \in StopSteps
     /\ k.op = "reset" => pc[c] \in ResetSteps /\ k.snapshot \in Snapshots

CallInv ==
  \A c \in Calls :
    \/ pc[c] = "idle" /\ call[c] = NoCall
    \/ pc[c] # "idle" /\ call[c].op = "start" /\ StartCall(c)
    \/ pc[c] # "idle" /\ call[c].op \in {"stop", "reset"} /\ SessionCall(c)

\* The caller runs one operation per clone at a time.
OneCall ==
  \A c, d \in Calls :
    pc[c] # "idle" /\ pc[d] # "idle" /\ call[c].wrapper = call[d].wrapper => c = d

CloneInv == \A w \in Wrappers : clone[w] = None <=> session[w] = None

\* allocatePort never hands out a port somebody still uses, because such a
\* port is marked as busy.
UsedPortsBusy ==
  \A p \in Ports :
    /\ \A w \in Wrappers : Holds(w, p) => bind[p]
    /\ \A c \in Calls : Occupies(c, p) => bind[p]

\* What the calls rely on, without what it says of the ports: it also holds of
\* a daemon whose clones were restored from a file.
DisciplineInv ==
  /\ SerialTypeOK
  /\ CallInv
  /\ OneCall
  /\ CloneInv

PortInv == UsedPortsBusy /\ PortExclusive

IInv == DisciplineInv /\ PortInv

InvKept == DisciplineInv' /\ (PortInv => PortInv')

-----------------------------------------------------------------------------

LEMMA InitInv == Init => IInv
<1> SUFFICES ASSUME Init PROVE IInv
  OBVIOUS
<1>1. SerialTypeOK
  BY DEF Init, ProvisionInit, SerialTypeOK, ProvisionTypeOK, NoCall, NoContainer,
         Containers, CallRecords, Steps
<1>2. CallInv /\ OneCall /\ CloneInv
  BY DEF Init, ProvisionInit, CallInv, OneCall, CloneInv
<1>3. UsedPortsBusy /\ PortExclusive
  BY DEF Init, ProvisionInit, UsedPortsBusy, PortExclusive, Holds, Occupies, Starting
<1> QED
  BY <1>1, <1>2, <1>3 DEF IInv, DisciplineInv, PortInv

\* A step that only takes a call from one step of its operation to another, and
\* does something to the containers or to the datasets.
LEMMA MoveInv ==
  ASSUME NEW c \in Calls, NEW step \in Steps \ {"idle"}, DisciplineInv,
         pc[c] \notin {"idle", "ok", "err"},
         Goto(c, step),
         UNCHANGED <<bind, session, call, clone>>,
         container' \in [Ports -> Containers],
         dataset' \in [Pools -> [Ports -> Snapshots \cup {None}]],
         call[c].op = "start" =>
           /\ step \in StartSteps
           /\ step \notin {"snapshot", "port", "err"} => call[c].port \in Ports,
         call[c].op = "stop" => step \in StopSteps \ {"ok"},
         call[c].op = "reset" => step \in ResetSteps
  PROVE  InvKept
<1> USE DEF Goto
<1>1. SerialTypeOK'
  BY DEF DisciplineInv, SerialTypeOK, ProvisionTypeOK
<1> pc \in [Calls -> Steps]
  BY DEF DisciplineInv, SerialTypeOK, ProvisionTypeOK
<1>2. CallInv'
  BY DEF DisciplineInv, CallInv, StartCall, SessionCall
<1>3. OneCall' /\ CloneInv'
  BY DEF DisciplineInv, OneCall, CloneInv
<1>4. \A w \in Wrappers, p \in Ports : Holds(w, p)' = Holds(w, p)
  BY DEF DisciplineInv, CallInv, SessionCall, Holds, Stopped
<1>5. \A d \in Calls, p \in Ports : Occupies(d, p)' => Occupies(d, p)
  BY DEF Occupies, Starting
<1>6. PortInv => PortInv'
  BY <1>4, <1>5 DEF PortInv, UsedPortsBusy, PortExclusive
<1> QED
  BY <1>1, <1>2, <1>3, <1>6 DEF InvKept, DisciplineInv

LEMMA LookupInv ==
  ASSUME NEW c \in Calls, DisciplineInv, UNCHANGED clone, GetSnapshot(c) \/ GetFSManager(c)
  PROVE  InvKept
<1>1. CASE GetSnapshot(c)
  <2>1. PICK step \in {"port", "switch", "err"} :
           /\ Goto(c, step)
           /\ step = "port" => call[c].op = "start"
           /\ step = "switch" => call[c].op # "start"
    BY <1>1 DEF GetSnapshot
  <2> QED
    BY <1>1, <2>1, MoveInv DEF GetSnapshot, DisciplineInv, CallInv, StartCall, SessionCall,
       StartSteps, StopSteps, ResetSteps, Steps, SerialTypeOK, ProvisionTypeOK
<1>2. CASE GetFSManager(c)
  <2>1. PICK step \in {"create", "stop", "snapshot", "err"} :
           /\ Goto(c, step)
           /\ call[c].op = "start" => step \in {"create", "err"}
           /\ call[c].op = "stop" => step \in {"stop", "err"}
           /\ call[c].op = "reset" => step \in {"snapshot", "err"}
    BY <1>2 DEF GetFSManager, DisciplineInv, CallInv
  <2> QED
    BY <1>2, <2>1, MoveInv DEF GetFSManager, DisciplineInv, CallInv, StartCall, SessionCall,
       StartSteps, StopSteps, ResetSteps, Steps, SerialTypeOK, ProvisionTypeOK
<1> QED
  BY <1>1, <1>2

\* What a command does to the container or to the dataset of a port.
LEMMA ContainerRemoved ==
  ASSUME ProvisionTypeOK, NEW p \in Ports
  PROVE  [container EXCEPT ![p] = NoContainer] \in [Ports -> Containers]
<1>1. NoContainer \in Containers
  BY DEF Containers, NoContainer
<1> QED
  BY <1>1 DEF ProvisionTypeOK

LEMMA ContainerAdded ==
  ASSUME ProvisionTypeOK, NEW p \in Ports, NEW q \in Pools, NEW up \in BOOLEAN
  PROVE  [container EXCEPT ![p] = [pool |-> q, up |-> up]] \in [Ports -> Containers]
<1>1. [pool |-> q, up |-> up] \in Containers
  BY DEF Containers
<1> QED
  BY <1>1 DEF ProvisionTypeOK

LEMMA DatasetUpdate ==
  ASSUME ProvisionTypeOK, NEW p \in Ports, NEW q \in Pools,
         NEW s \in Snapshots \cup {None}
  PROVE  [dataset EXCEPT ![q][p] = s] \in [Pools -> [Ports -> Snapshots \cup {None}]]
BY DEF ProvisionTypeOK

\* The commands: each leaves containers and datasets of the right type.
LEMMA BuildInv ==
  ASSUME NEW c \in Calls, DisciplineInv, UNCHANGED clone,
         CreateClone(c) \/ StartPostgres(c) \/ PrepareDB(c)
  PROVE  InvKept
<1> DEFINE p == call[c].port
           q == call[c].newPool
<1>2. CASE CreateClone(c)
  <2>1. /\ p \in Ports /\ q \in Pools /\ call[c].snapshot \in Snapshots
        /\ call[c].op \in {"start", "reset"}
    BY <1>2 DEF CreateClone, DisciplineInv, CallInv, StartCall, SessionCall, StopSteps,
       SerialTypeOK, ProvisionTypeOK, SessionRecords
  <2>2. dataset' \in [Pools -> [Ports -> Snapshots \cup {None}]]
    <3>1. \/ dataset' = dataset
          \/ dataset' = [dataset EXCEPT ![q][p] = call[c].snapshot]
      BY <1>2 DEF CreateClone
    <3>2. ProvisionTypeOK /\ dataset \in [Pools -> [Ports -> Snapshots \cup {None}]]
      BY DEF DisciplineInv, SerialTypeOK, ProvisionTypeOK
    <3>3. [dataset EXCEPT ![q][p] = call[c].snapshot]
            \in [Pools -> [Ports -> Snapshots \cup {None}]]
      <4> HIDE DEF p, q
      <4> QED
        BY <2>1, <3>2, DatasetUpdate
    <3> QED
      BY <3>1, <3>2, <3>3
  <2>3. PICK step \in {"run", "revertStop"} : Goto(c, step)
    BY <1>2 DEF CreateClone
  <2>4. container' \in [Ports -> Containers]
    BY <1>2 DEF CreateClone, DisciplineInv, SerialTypeOK, ProvisionTypeOK
  <2> QED
    BY <1>2, <2>1, <2>2, <2>3, <2>4, MoveInv
       DEF CreateClone, StartSteps, ResetSteps, Steps
<1>3. CASE StartPostgres(c)
  <2>1. /\ p \in Ports /\ q \in Pools
        /\ call[c].op \in {"start", "reset"}
    BY <1>3 DEF StartPostgres, DisciplineInv, CallInv, StartCall, SessionCall, StopSteps,
       SerialTypeOK, ProvisionTypeOK, SessionRecords
  <2>2. container' \in [Ports -> Containers]
    <3>1. \/ container' = container
          \/ \E up \in BOOLEAN :
               container' = [container EXCEPT ![p] = [pool |-> q, up |-> up]]
      BY <1>3 DEF StartPostgres
    <3>2. ProvisionTypeOK /\ container \in [Ports -> Containers]
      BY DEF DisciplineInv, SerialTypeOK, ProvisionTypeOK
    <3>3. \A up \in BOOLEAN :
             [container EXCEPT ![p] = [pool |-> q, up |-> up]] \in [Ports -> Containers]
      BY <2>1, <3>2, ContainerAdded
    <3> QED
      BY <3>1, <3>2, <3>3
  <2>3. PICK step \in {"prepare", "revertStop"} : Goto(c, step)
    BY <1>3 DEF StartPostgres
  <2>4. dataset' \in [Pools -> [Ports -> Snapshots \cup {None}]]
    BY <1>3 DEF StartPostgres, DisciplineInv, SerialTypeOK, ProvisionTypeOK
  <2> QED
    BY <1>3, <2>1, <2>2, <2>3, <2>4, MoveInv
       DEF StartPostgres, StartSteps, ResetSteps, Steps
<1>4. CASE PrepareDB(c)
  <2>1. PICK step \in {"ok", "revertStop"} : Goto(c, step)
    BY <1>4 DEF PrepareDB
  <2>2. /\ call[c].op \in {"start", "reset"}
        /\ call[c].op = "start" => p \in Ports
    BY <1>4 DEF PrepareDB, DisciplineInv, CallInv, StartCall, SessionCall, StopSteps
  <2> QED
    BY <1>4, <2>1, <2>2, MoveInv DEF PrepareDB, StartSteps, ResetSteps, Steps,
       DisciplineInv, SerialTypeOK, ProvisionTypeOK
<1> QED
  BY <1>2, <1>3, <1>4

LEMMA TakeDownInv ==
  ASSUME NEW c \in Calls, DisciplineInv, UNCHANGED clone,
         \/ StopPostgres(c) \/ DestroyClone(c)
         \/ RevertStop(c) \/ RevertDestroy(c)
  PROVE  InvKept
<1> DEFINE p == call[c].port
<1>1. CASE StopPostgres(c)
  <2>1. p \in Ports /\ call[c].op \in {"stop", "reset"}
    BY <1>1 DEF StopPostgres, DisciplineInv, CallInv, StartCall, SessionCall, StartSteps,
       SerialTypeOK, ProvisionTypeOK, SessionRecords
  <2>2. container' \in [Ports -> Containers]
    BY <1>1, <2>1, ContainerRemoved DEF StopPostgres, DisciplineInv, SerialTypeOK, ProvisionTypeOK
  <2>3. PICK step \in {"destroy", "revertStop", "err"} :
           Goto(c, step) /\ (step = "revertStop" => call[c].op = "reset")
    BY <1>1 DEF StopPostgres, AfterStop
  <2>4. dataset' \in [Pools -> [Ports -> Snapshots \cup {None}]]
    BY <1>1 DEF StopPostgres, DisciplineInv, SerialTypeOK, ProvisionTypeOK
  <2> QED
    BY <1>1, <2>1, <2>2, <2>3, <2>4, MoveInv
       DEF StopPostgres, StopSteps, ResetSteps, Steps
<1>2. CASE DestroyClone(c)
  <2>1. /\ p \in Ports /\ call[c].op \in {"stop", "reset"}
        /\ call[c].pool \in Pools
    BY <1>2 DEF DestroyClone, DisciplineInv, CallInv, StartCall, SessionCall, StartSteps,
       SerialTypeOK, ProvisionTypeOK, SessionRecords
  <2>2. dataset' \in [Pools -> [Ports -> Snapshots \cup {None}]]
    <3>1. \/ dataset' = dataset
          \/ dataset' = [dataset EXCEPT ![call[c].pool][p] = None]
      BY <1>2 DEF DestroyClone, Destroys, DestroyFails
    <3>2. ProvisionTypeOK /\ dataset \in [Pools -> [Ports -> Snapshots \cup {None}]]
      BY DEF DisciplineInv, SerialTypeOK, ProvisionTypeOK
    <3>3. [dataset EXCEPT ![call[c].pool][p] = None] \in [Pools -> [Ports -> Snapshots \cup {None}]]
      <4> HIDE DEF p
      <4> QED
        BY <2>1, <3>2, DatasetUpdate
    <3> QED
      BY <3>1, <3>2, <3>3
  <2>3. PICK step \in {"create", "free", "revertStop", "err"} :
           /\ Goto(c, step)
           /\ step \in {"revertStop", "create"} => call[c].op = "reset"
           /\ step = "free" => call[c].op # "reset"
    BY <1>2 DEF DestroyClone
  <2>4. container' \in [Ports -> Containers]
    BY <1>2 DEF DestroyClone, DisciplineInv, SerialTypeOK, ProvisionTypeOK
  <2> QED
    BY <1>2, <2>1, <2>2, <2>3, <2>4, MoveInv
       DEF DestroyClone, StopSteps, ResetSteps, Steps
<1>3. CASE RevertStop(c)
  <2>1. p \in Ports /\ call[c].op \in {"start", "reset"}
    BY <1>3 DEF RevertStop, DisciplineInv, CallInv, StartCall, SessionCall, StopSteps,
       SerialTypeOK, ProvisionTypeOK, SessionRecords
  <2>2. container' \in [Ports -> Containers]
    BY <1>3, <2>1, ContainerRemoved DEF RevertStop, DisciplineInv, SerialTypeOK,
       ProvisionTypeOK
  <2>3. dataset' \in [Pools -> [Ports -> Snapshots \cup {None}]]
    BY <1>3 DEF RevertStop, DisciplineInv, SerialTypeOK, ProvisionTypeOK
  <2> QED
    BY <1>3, <2>1, <2>2, <2>3, MoveInv DEF RevertStop, StartSteps, ResetSteps, Steps
<1>4. CASE RevertDestroy(c)
  <2>1. /\ p \in Ports /\ call[c].op \in {"start", "reset"}
        /\ call[c].newPool \in Pools
    BY <1>4 DEF RevertDestroy, DisciplineInv, CallInv, StartCall, SessionCall, StopSteps,
       SerialTypeOK, ProvisionTypeOK, SessionRecords
  <2>2. dataset' \in [Pools -> [Ports -> Snapshots \cup {None}]]
    <3>1. \/ dataset' = dataset
          \/ dataset' = [dataset EXCEPT ![call[c].newPool][p] = None]
      BY <1>4 DEF RevertDestroy, Destroys, DestroyFails
    <3>2. ProvisionTypeOK /\ dataset \in [Pools -> [Ports -> Snapshots \cup {None}]]
      BY DEF DisciplineInv, SerialTypeOK, ProvisionTypeOK
    <3>3. [dataset EXCEPT ![call[c].newPool][p] = None] \in [Pools -> [Ports -> Snapshots \cup {None}]]
      <4> HIDE DEF p
      <4> QED
        BY <2>1, <3>2, DatasetUpdate
    <3> QED
      BY <3>1, <3>2, <3>3
  <2>3. PICK step \in {"revertFree", "err"} :
           Goto(c, step) /\ (step = "revertFree" <=> call[c].op = "start")
    BY <1>4 DEF RevertDestroy, AfterRevert
  <2>4. container' \in [Ports -> Containers]
    BY <1>4 DEF RevertDestroy, DisciplineInv, SerialTypeOK, ProvisionTypeOK
  <2> QED
    BY <1>4, <2>1, <2>2, <2>3, <2>4, MoveInv
       DEF RevertDestroy, StartSteps, ResetSteps, Steps
<1> QED
  BY <1>1, <1>2, <1>3, <1>4

LEMMA SwitchPoolInv ==
  ASSUME NEW c \in Calls, DisciplineInv, UNCHANGED clone, SwitchPool(c)
  PROVE  InvKept
<1> DEFINE w == call[c].wrapper
           target == PoolOf[call[c].snapshot]
<1>1. /\ call[c].op = "reset" /\ SessionCall(c) /\ call[c] \in CallRecords
      /\ w \in Wrappers /\ session[w] \in SessionRecords
      /\ target \in Pools
  BY ProvisionAssumption DEF SwitchPool, DisciplineInv, CallInv, StartCall, SessionCall,
     StartSteps, StopSteps, SerialTypeOK, ProvisionTypeOK
<1>2. CASE Goto(c, "err") /\ UNCHANGED <<session, call>>
  BY <1>1, <1>2, MoveInv DEF SwitchPool, DisciplineInv, SerialTypeOK, ProvisionTypeOK,
     ResetSteps, Steps
<1>3. CASE /\ Goto(c, "stop")
           /\ call' = [call EXCEPT ![c].newPool = target]
           /\ session' = [session EXCEPT ![w].pool = target]
  <2> USE <1>1, <1>3
  <2>1. /\ call' \in [Calls -> CallRecords]
        /\ session' \in [Wrappers -> SessionRecords \cup {None}]
    BY DEF DisciplineInv, SerialTypeOK, ProvisionTypeOK, CallRecords, SessionRecords
  <2>2. SerialTypeOK'
    BY <2>1 DEF SwitchPool, Goto, DisciplineInv, SerialTypeOK, ProvisionTypeOK, Steps
  <2>3. /\ \A d \in Calls : /\ call'[d].wrapper = call[d].wrapper
                            /\ call'[d].op = call[d].op
                            /\ call'[d].port = call[d].port
                            /\ d # c => call'[d] = call[d] /\ pc'[d] = pc[d]
        /\ pc'[c] = "stop" /\ call'[c].newPool = target
        /\ call'[c].pool = call[c].pool /\ call'[c].snapshot = call[c].snapshot
    BY DEF Goto, DisciplineInv, SerialTypeOK, ProvisionTypeOK, CallRecords
  <2>4. \A v \in Wrappers : /\ session'[v] = None <=> session[v] = None
                            /\ session[v] # None => session'[v].port = session[v].port
                            /\ v # w => session'[v] = session[v]
    <3>1. /\ session'[w] = [session[w] EXCEPT !.pool = target]
          /\ \A v \in Wrappers : v # w => session'[v] = session[v]
      BY DEF DisciplineInv, SerialTypeOK, ProvisionTypeOK
    <3>2. session'[w] \in SessionRecords /\ session'[w].port = session[w].port
      BY <3>1 DEF SessionRecords
    <3> QED
      BY <3>1, <3>2, ProvisionAssumption DEF SessionRecords
  <2>5. CallInv'
    <3>1. SessionCall(c)'
      BY <2>3, <2>4 DEF SessionCall, ResetSteps, StopSteps, DisciplineInv, CallInv
    <3>2. ASSUME NEW d \in Calls, d # c
          PROVE  \/ pc'[d] = "idle" /\ call'[d] = NoCall
                 \/ pc'[d] # "idle" /\ call'[d].op = "start" /\ StartCall(d)'
                 \/ /\ pc'[d] # "idle" /\ call'[d].op \in {"stop", "reset"}
                    /\ SessionCall(d)'
      BY <2>3, <2>4, <3>2 DEF DisciplineInv, CallInv, StartCall, SessionCall
    <3> QED
      BY <2>3, <3>1, <3>2 DEF CallInv
  <2>6. OneCall' /\ CloneInv'
    BY <2>3, <2>4 DEF DisciplineInv, OneCall, CloneInv, SwitchPool
  <2>7. \A v \in Wrappers, p \in Ports : Holds(v, p)' = Holds(v, p)
    BY <2>3, <2>4 DEF Holds, Stopped, SwitchPool
  <2>8. \A d \in Calls, p \in Ports : Occupies(d, p)' = Occupies(d, p)
    BY <2>3 DEF Occupies, Starting, SwitchPool
  <2>9. PortInv => PortInv'
    BY <2>7, <2>8 DEF PortInv, UsedPortsBusy, PortExclusive, SwitchPool
  <2> QED
    BY <2>2, <2>5, <2>6, <2>9 DEF InvKept, DisciplineInv
<1> QED
  BY <1>2, <1>3 DEF SwitchPool, MoveSession

\* The port handed out was free, so nobody used it.
LEMMA AllocatePortInv ==
  ASSUME NEW c \in Calls, DisciplineInv, UNCHANGED clone, AllocatePort(c)
  PROVE  InvKept
<1>1. call[c].op = "start" /\ StartCall(c) /\ call[c] \in CallRecords
  BY DEF AllocatePort, DisciplineInv, CallInv, SessionCall, StopSteps, ResetSteps,
     SerialTypeOK, ProvisionTypeOK
<1>2. CASE Goto(c, "err") /\ UNCHANGED <<bind, call>>
  BY <1>1, <1>2, MoveInv DEF AllocatePort, DisciplineInv, SerialTypeOK, ProvisionTypeOK,
     StartSteps, Steps
<1>3. ASSUME NEW p \in Ports, ~bind[p],
             bind' = [bind EXCEPT ![p] = TRUE],
             call' = [call EXCEPT ![c].port = p],
             Goto(c, "fsm")
      PROVE  InvKept
  <2> USE <1>1, <1>3
  <2>1. call' \in [Calls -> CallRecords]
    BY DEF DisciplineInv, SerialTypeOK, ProvisionTypeOK, CallRecords
  <2>2. SerialTypeOK'
    BY <2>1 DEF AllocatePort, Goto, DisciplineInv, SerialTypeOK, ProvisionTypeOK, Steps
  <2>3. /\ \A d \in Calls : /\ call'[d].wrapper = call[d].wrapper
                            /\ call'[d].op = call[d].op
                            /\ d # c => call'[d] = call[d] /\ pc'[d] = pc[d]
        /\ pc'[c] = "fsm" /\ call'[c].port = p
        /\ call'[c].newPool = call[c].newPool /\ call'[c].snapshot = call[c].snapshot
    BY DEF Goto, DisciplineInv, SerialTypeOK, ProvisionTypeOK, CallRecords
  <2>4. CallInv'
    <3>1. StartCall(c)'
      BY <2>3 DEF StartCall, StartSteps, AllocatePort
    <3>2. ASSUME NEW d \in Calls, d # c
          PROVE  \/ pc'[d] = "idle" /\ call'[d] = NoCall
                 \/ pc'[d] # "idle" /\ call'[d].op = "start" /\ StartCall(d)'
                 \/ /\ pc'[d] # "idle" /\ call'[d].op \in {"stop", "reset"}
                    /\ SessionCall(d)'
      BY <2>3, <3>2 DEF DisciplineInv, CallInv, StartCall, SessionCall, AllocatePort
    <3> QED
      BY <2>3, <3>1, <3>2 DEF CallInv
  <2>5. OneCall' /\ CloneInv'
    BY <2>3 DEF DisciplineInv, OneCall, CloneInv, AllocatePort
  <2>6. \A v \in Wrappers, r \in Ports : Holds(v, r)' = Holds(v, r)
    BY <2>3 DEF Holds, Stopped, AllocatePort
  <2>7. \A d \in Calls, r \in Ports :
          Occupies(d, r)' => Occupies(d, r) \/ (d = c /\ r = p)
    BY <2>3 DEF Occupies, Starting, AllocatePort
  <2>8. \A r \in Ports : bind'[r] = (bind[r] \/ r = p)
    BY DEF DisciplineInv, SerialTypeOK, ProvisionTypeOK
  <2>9. PortInv => PortInv'
    <3>1. PortInv => UsedPortsBusy'
      BY <2>6, <2>7, <2>8 DEF PortInv, UsedPortsBusy
    <3>2. PortInv => PortExclusive'
      BY <2>6, <2>7 DEF PortInv, UsedPortsBusy, PortExclusive
    <3> QED
      BY <3>1, <3>2 DEF PortInv
  <2> QED
    BY <2>2, <2>4, <2>5, <2>9 DEF InvKept, DisciplineInv
<1> QED
  BY <1>2, <1>3 DEF AllocatePort, Reachable

\* The port that is freed is the one of the stopped session or of the reverted
\* start, and nobody else used it.
LEMMA FreePortInv ==
  ASSUME NEW c \in Calls, DisciplineInv, UNCHANGED clone, FreePort(c)
  PROVE  InvKept
<1> DEFINE p == call[c].port
           step == IF pc[c] = "free" THEN "ok" ELSE "err"
<1>1. /\ call[c].op = (IF pc[c] = "free" THEN "stop" ELSE "start")
      /\ p \in Ports
      /\ call[c].op = "stop" => Holds(call[c].wrapper, p)
      /\ call[c].op = "start" => Occupies(c, p)
  BY ProvisionAssumption DEF FreePort, DisciplineInv, CallInv, OneCall, StartCall, SessionCall,
     StartSteps, StopSteps, ResetSteps, Holds, Stopped, Occupies, Starting,
     SerialTypeOK, ProvisionTypeOK, SessionRecords
<1>2. /\ pc'[c] = step /\ \A d \in Calls : d # c => pc'[d] = pc[d]
      /\ UNCHANGED <<container, dataset, session, call, clone>>
      /\ bind' = [bind EXCEPT ![p] = FALSE]
  BY DEF FreePort, Goto, DisciplineInv, SerialTypeOK, ProvisionTypeOK
<1>3. SerialTypeOK'
  BY <1>1 DEF FreePort, Goto, DisciplineInv, SerialTypeOK, ProvisionTypeOK, Steps
<1>4. CallInv'
  BY <1>1, <1>2 DEF DisciplineInv, CallInv, StartCall, SessionCall, StartSteps, StopSteps, FreePort
<1>5. OneCall' /\ CloneInv'
  BY <1>2 DEF DisciplineInv, OneCall, CloneInv, FreePort
<1>6. \A v \in Wrappers, r \in Ports :
        Holds(v, r)' => Holds(v, r) /\ ~(call[c].op = "stop" /\ v = call[c].wrapper)
  BY <1>1, <1>2 DEF Holds, Stopped, FreePort
<1>7. \A d \in Calls, r \in Ports :
        Occupies(d, r)' => Occupies(d, r) /\ ~(call[c].op = "start" /\ d = c)
  BY <1>1, <1>2 DEF Occupies, Starting, FreePort
<1>8. \A r \in Ports : bind'[r] = (bind[r] /\ r # p)
  BY <1>1, <1>2 DEF DisciplineInv, SerialTypeOK, ProvisionTypeOK
<1>9. call[c].wrapper \in Wrappers
  BY <1>1 DEF DisciplineInv, CallInv, StartCall, SessionCall, FreePort
<1>10. ASSUME PortInv
       PROVE  UsedPortsBusy'
  <2>1. ASSUME NEW v \in Wrappers, NEW r \in Ports, Holds(v, r)'
        PROVE  bind'[r]
    <3>1. Holds(v, r) /\ bind[r] /\ ~(call[c].op = "stop" /\ v = call[c].wrapper)
      BY <1>6, <1>10, <2>1 DEF PortInv, UsedPortsBusy
    <3>2. r # p
      BY <1>1, <1>9, <1>10, <3>1 DEF PortInv, PortExclusive
    <3> QED
      BY <1>8, <3>1, <3>2
  <2>2. ASSUME NEW d \in Calls, NEW r \in Ports, Occupies(d, r)'
        PROVE  bind'[r]
    <3>1. Occupies(d, r) /\ bind[r] /\ ~(call[c].op = "start" /\ d = c)
      BY <1>7, <1>10, <2>2 DEF PortInv, UsedPortsBusy
    <3>2. r # p
      BY <1>1, <1>9, <1>10, <3>1 DEF PortInv, PortExclusive
    <3> QED
      BY <1>8, <3>1, <3>2
  <2> QED
    BY <2>1, <2>2 DEF UsedPortsBusy
<1>11. PortInv => PortExclusive'
  BY <1>6, <1>7 DEF PortInv, PortExclusive
<1> QED
  BY <1>3, <1>4, <1>5, <1>10, <1>11 DEF InvKept, DisciplineInv, PortInv

-----------------------------------------------------------------------------
(* The caller *)

\* A new call: no other call works for its wrapper, and it has no port yet
\* that is not in its session.
LEMMA InvokeInv ==
  ASSUME NEW c \in Calls, DisciplineInv, pc[c] = "idle",
         NEW k \in CallRecords, NEW step \in {"snapshot", "fsm"},
         Goto(c, step), call' = [call EXCEPT ![c] = k],
         ~Busy(k.wrapper), k.wrapper \in Wrappers,
         UNCHANGED <<bind, container, dataset, session>>,
         clone' \in [Wrappers -> CloneRecords \cup {None}], CloneInv',
         \/ /\ k.op = "start" /\ step = "snapshot" /\ k.port = None
            /\ session[k.wrapper] = None
            /\ k.snapshot \in Snapshots /\ k.newPool \in Pools
         \/ /\ k.op \in {"stop", "reset"} /\ step = "fsm"
            /\ session[k.wrapper] # None /\ k.port = session[k.wrapper].port
            /\ k.pool \in Pools /\ k.newPool \in Pools
            /\ k.op = "reset" => k.snapshot \in Snapshots
  PROVE  InvKept
<1>1. /\ pc'[c] = step /\ call'[c] = k
      /\ \A d \in Calls : d # c => pc'[d] = pc[d] /\ call'[d] = call[d]
  BY DEF Goto, DisciplineInv, SerialTypeOK, ProvisionTypeOK
<1>2. SerialTypeOK'
  BY DEF Goto, DisciplineInv, SerialTypeOK, ProvisionTypeOK, Steps
<1>3. CallInv'
  BY <1>1 DEF DisciplineInv, CallInv, StartCall, SessionCall, StartSteps, StopSteps, ResetSteps
<1>4. OneCall'
  BY <1>1 DEF DisciplineInv, OneCall, Busy
<1>5. \A v \in Wrappers, r \in Ports : Holds(v, r)' => Holds(v, r)
  <2>1. call[c] = NoCall
    BY DEF DisciplineInv, CallInv
  <2> QED
    BY <1>1, <2>1 DEF Holds, Stopped, NoCall
<1>6. \A d \in Calls, r \in Ports : Occupies(d, r)' => Occupies(d, r)
  BY <1>1, ProvisionAssumption DEF Occupies, Starting
<1>7. PortInv => PortInv'
  BY <1>5, <1>6 DEF PortInv, UsedPortsBusy, PortExclusive
<1> QED
  BY <1>2, <1>3, <1>4, <1>7 DEF InvKept, DisciplineInv

\* Marking a clone as not ready changes neither its session nor its calls.
LEMMA UnreadyClone ==
  ASSUME DisciplineInv, NEW w \in Wrappers, clone[w] # None,
         clone' = [clone EXCEPT ![w].ok = FALSE], UNCHANGED session
  PROVE  clone' \in [Wrappers -> CloneRecords \cup {None}] /\ CloneInv'
<1>1. /\ clone'[w] = [clone[w] EXCEPT !.ok = FALSE]
      /\ \A v \in Wrappers : v # w => clone'[v] = clone[v]
      /\ clone[w] \in CloneRecords
  BY DEF DisciplineInv, SerialTypeOK
<1>2. clone'[w] \in CloneRecords
  BY <1>1 DEF CloneRecords
<1>3. clone'[w] # None
  BY <1>2, SerialAssumption
<1> QED
  BY <1>1, <1>2, <1>3 DEF DisciplineInv, SerialTypeOK, CloneInv

LEMMA WithdrawInv ==
  ASSUME NEW w \in Wrappers, DisciplineInv, Withdraw(w)
  PROVE  InvKept
<1>1. clone' \in [Wrappers -> CloneRecords \cup {None}] /\ CloneInv'
  BY UnreadyClone DEF Withdraw, provisionVars
<1>2. SerialTypeOK'
  BY <1>1 DEF Withdraw, provisionVars, DisciplineInv, SerialTypeOK, ProvisionTypeOK
<1>3. CallInv' /\ OneCall'
  BY DEF Withdraw, provisionVars, DisciplineInv, CallInv, StartCall, SessionCall, OneCall
<1>4. PortInv => PortInv'
  BY DEF Withdraw, provisionVars, PortInv, UsedPortsBusy, PortExclusive, Holds, Stopped,
     Occupies, Starting
<1> QED
  BY <1>1, <1>2, <1>3, <1>4 DEF InvKept, DisciplineInv

LEMMA CallerInv ==
  ASSUME NEW c \in Calls, NEW w \in Wrappers, DisciplineInv,
         Stop(c, w) \/ \E s \in Snapshots : Start(c, w, s) \/ Reset(c, w, s)
  PROVE  InvKept
<1>1. ASSUME NEW s \in Snapshots, Start(c, w, s)
      PROVE  InvKept
  <2> DEFINE k == [op |-> "start", wrapper |-> w, snapshot |-> s, port |-> None,
                   pool |-> PoolOf[s], newPool |-> PoolOf[s]]
  <2>1. k \in CallRecords
    BY ProvisionAssumption DEF CallRecords
  <2>2. clone' \in [Wrappers -> CloneRecords \cup {None}] /\ CloneInv'
    BY <1>1 DEF Start, DisciplineInv, SerialTypeOK, CloneInv
  <2>3. /\ k.op = "start" /\ k.wrapper = w /\ k.port = None
        /\ k.snapshot = s /\ k.newPool \in Pools
    BY ProvisionAssumption
  <2> HIDE DEF k
  <2> QED
    BY <1>1, <2>1, <2>2, <2>3, InvokeInv DEF Start, InvokeStart, k
<1>2. CASE Stop(c, w)
  <2> DEFINE k == [op |-> "stop", wrapper |-> w, snapshot |-> None,
                   port |-> session[w].port, pool |-> session[w].pool,
                   newPool |-> session[w].pool]
  <2>1. /\ session[w] # None /\ clone[w] # None
        /\ session[w].port \in Ports /\ session[w].pool \in Pools
    BY <1>2 DEF Stop, InvokeStop, DisciplineInv, CloneInv, SerialTypeOK, ProvisionTypeOK,
       SessionRecords
  <2>2. k \in CallRecords
    BY <2>1 DEF CallRecords
  <2>3. clone' \in [Wrappers -> CloneRecords \cup {None}] /\ CloneInv'
    BY <1>2, <2>1, UnreadyClone DEF Stop
  <2>4. /\ k.op = "stop" /\ k.wrapper = w /\ k.port = session[w].port
        /\ k.pool \in Pools /\ k.newPool \in Pools
    BY <2>1
  <2> HIDE DEF k
  <2> QED
    BY <1>2, <2>1, <2>2, <2>3, <2>4, InvokeInv DEF Stop, InvokeStop, k
<1>3. ASSUME NEW s \in Snapshots, Reset(c, w, s)
      PROVE  InvKept
  <2> DEFINE k == [op |-> "reset", wrapper |-> w, snapshot |-> s,
                   port |-> session[w].port, pool |-> session[w].pool,
                   newPool |-> session[w].pool]
  <2>1. /\ session[w] # None /\ clone[w] # None
        /\ session[w].port \in Ports /\ session[w].pool \in Pools
    BY <1>3 DEF Reset, InvokeReset, DisciplineInv, CloneInv, SerialTypeOK, ProvisionTypeOK,
       SessionRecords
  <2>2. k \in CallRecords
    BY <2>1 DEF CallRecords
  <2>3. clone' \in [Wrappers -> CloneRecords \cup {None}] /\ CloneInv'
    BY <1>3, <2>1, UnreadyClone DEF Reset
  <2>4. /\ k.op = "reset" /\ k.wrapper = w /\ k.port = session[w].port
        /\ k.pool \in Pools /\ k.newPool \in Pools /\ k.snapshot = s
    BY <2>1
  <2> HIDE DEF k
  <2> QED
    BY <1>3, <2>1, <2>2, <2>3, <2>4, InvokeInv DEF Reset, InvokeReset, k
<1> QED
  BY <1>1, <1>2, <1>3

\* A started clone takes over the port of its call, a stopped one leaves a port
\* it no longer owned, and in every other case nothing changes hands.
LEMMA ReturnInv ==
  ASSUME NEW c \in Calls, DisciplineInv, Return(c)
  PROVE  InvKept
<1> DEFINE w == call[c].wrapper
           op == call[c].op
<1>1. /\ pc'[c] = "idle" /\ call'[c] = NoCall
      /\ \A d \in Calls : d # c => pc'[d] = pc[d] /\ call'[d] = call[d]
      /\ UNCHANGED <<bind, container, dataset>>
  BY DEF Return, Goto, DisciplineInv, SerialTypeOK, ProvisionTypeOK
<1>2. /\ pc[c] \in {"ok", "err"} /\ w \in Wrappers
      /\ \A d \in Calls : pc[d] # "idle" /\ call[d].wrapper = w => d = c
  BY DEF Return, DisciplineInv, CallInv, StartCall, SessionCall, OneCall
<1>3. NoCall \in CallRecords
  BY DEF NoCall, CallRecords
<1>4. /\ pc' \in [Calls -> Steps] /\ call' \in [Calls -> CallRecords]
  BY <1>3 DEF Return, Goto, DisciplineInv, SerialTypeOK, ProvisionTypeOK, Steps
<1>5. OneCall'
  BY <1>1 DEF OneCall, DisciplineInv
<1>6. CASE pc[c] = "ok" /\ op = "start"
  <2> DEFINE s == [port |-> call[c].port, pool |-> call[c].newPool]
             k == [snapshot |-> call[c].snapshot, ok |-> TRUE]
  <2>1. /\ session' = [session EXCEPT ![w] = s]
        /\ clone' = [clone EXCEPT ![w] = k]
    BY <1>6 DEF Return
  <2>2. /\ s \in SessionRecords /\ k \in CloneRecords
        /\ s.port = call[c].port /\ session[w] = None
    BY <1>6 DEF DisciplineInv, CallInv, StartCall, SessionRecords, CloneRecords
  <2>3. s # None /\ k # None
    BY <2>2, ProvisionAssumption, SerialAssumption DEF SessionRecords
  <2> HIDE DEF s, k
  <2>4. /\ session'[w] = s /\ clone'[w] = k
        /\ \A v \in Wrappers : v # w => session'[v] = session[v] /\ clone'[v] = clone[v]
    BY <1>2, <2>1 DEF DisciplineInv, SerialTypeOK, ProvisionTypeOK
  <2>5. SerialTypeOK' /\ CloneInv'
    BY <1>1, <1>4, <2>1, <2>2, <2>3, <2>4
       DEF DisciplineInv, SerialTypeOK, ProvisionTypeOK, CloneInv
  <2>6. CallInv'
    BY <1>1, <1>2, <2>4 DEF DisciplineInv, CallInv, StartCall, SessionCall
  <2>7. Occupies(c, call[c].port)
    BY <1>6, ProvisionAssumption DEF Occupies, Starting, DisciplineInv, CallInv, StartCall
  <2>8. \A v \in Wrappers, p \in Ports :
          Holds(v, p)' => \/ v # w /\ Holds(v, p)
                          \/ v = w /\ p = call[c].port
    <3>1. ASSUME NEW v \in Wrappers, v # w, Stopped(v)
          PROVE  Stopped(v)'
      BY <1>1, <1>6, <3>1 DEF Stopped
    <3> QED
      BY <2>2, <2>4, <3>1 DEF Holds
  <2>9. \A d \in Calls, p \in Ports : Occupies(d, p)' => Occupies(d, p) /\ d # c
    BY <1>1 DEF Occupies, Starting, NoCall
  <2>10. call[c].port \in Ports
    BY <2>2 DEF SessionRecords, s
  <2>11. PortInv => UsedPortsBusy'
    BY <1>1, <2>7, <2>8, <2>9, <2>10 DEF PortInv, UsedPortsBusy
  <2>12. ASSUME PortInv
         PROVE  PortExclusive'
    <3>1. ASSUME NEW p \in Ports, NEW u \in Wrappers, NEW v \in Wrappers,
                 Holds(u, p)', Holds(v, p)'
          PROVE  u = v
      BY <1>2, <2>7, <2>8, <2>10, <2>12, <3>1 DEF PortInv, PortExclusive
    <3>2. ASSUME NEW p \in Ports, NEW v \in Wrappers, NEW d \in Calls,
                 Holds(v, p)', Occupies(d, p)'
          PROVE  FALSE
      BY <2>7, <2>8, <2>9, <2>10, <2>12, <3>2 DEF PortInv, PortExclusive
    <3> QED
      BY <2>9, <2>12, <3>1, <3>2 DEF PortInv, PortExclusive
  <2> QED
    BY <1>5, <2>5, <2>6, <2>11, <2>12 DEF InvKept, DisciplineInv, PortInv
<1>7. CASE pc[c] = "ok" /\ op = "stop"
  <2>1. /\ session' = [session EXCEPT ![w] = None]
        /\ clone' = [clone EXCEPT ![w] = None]
    BY <1>7 DEF Return
  <2>2. /\ session'[w] = None /\ clone'[w] = None
        /\ \A v \in Wrappers : v # w => session'[v] = session[v] /\ clone'[v] = clone[v]
    BY <1>2, <2>1 DEF DisciplineInv, SerialTypeOK, ProvisionTypeOK
  <2>3. SerialTypeOK' /\ CloneInv'
    BY <1>1, <1>4, <2>1, <2>2 DEF DisciplineInv, SerialTypeOK, ProvisionTypeOK, CloneInv
  <2>4. CallInv'
    BY <1>1, <1>2, <2>2 DEF DisciplineInv, CallInv, StartCall, SessionCall
  <2>5. \A v \in Wrappers, p \in Ports : Holds(v, p)' => Holds(v, p)
    BY <1>1, <1>2, <2>2 DEF Holds, Stopped
  <2>6. \A d \in Calls, p \in Ports : Occupies(d, p)' => Occupies(d, p)
    BY <1>1 DEF Occupies, Starting, NoCall
  <2>7. PortInv => PortInv'
    BY <1>1, <2>5, <2>6 DEF PortInv, UsedPortsBusy, PortExclusive
  <2> QED
    BY <1>5, <2>3, <2>4, <2>7 DEF InvKept, DisciplineInv
<1>8. CASE pc[c] = "err" \/ op = "reset"
  <2>1. session' = session
    BY <1>8 DEF Return
  <2>2. /\ clone' \in [Wrappers -> CloneRecords \cup {None}]
        /\ \A v \in Wrappers : clone'[v] = None <=> clone[v] = None
    <3>1. CASE clone' = clone
      BY <3>1 DEF DisciplineInv, SerialTypeOK
    <3>2. CASE /\ op = "reset"
               /\ clone' = [clone EXCEPT ![w] =
                              [snapshot |-> call[c].snapshot, ok |-> TRUE]]
      <4> DEFINE k == [snapshot |-> call[c].snapshot, ok |-> TRUE]
      <4>1. k \in CloneRecords /\ clone[w] # None
        BY <1>2, <3>2 DEF DisciplineInv, CallInv, SessionCall, CloneInv, CloneRecords
      <4>2. k # None
        BY <4>1, SerialAssumption
      <4> HIDE DEF k
      <4>3. clone' = [clone EXCEPT ![w] = k]
        BY <3>2 DEF k
      <4> QED
        BY <1>2, <4>1, <4>2, <4>3 DEF DisciplineInv, SerialTypeOK
    <3> QED
      BY <1>8, <3>1, <3>2 DEF Return
  <2>3. SerialTypeOK' /\ CloneInv'
    BY <1>1, <1>4, <2>1, <2>2 DEF DisciplineInv, SerialTypeOK, ProvisionTypeOK, CloneInv
  <2>4. CallInv'
    BY <1>1, <2>1 DEF DisciplineInv, CallInv, StartCall, SessionCall
  <2>5. \A v \in Wrappers, p \in Ports : Holds(v, p)' => Holds(v, p)
    BY <1>1, <1>8, <2>1 DEF Holds, Stopped
  <2>6. \A d \in Calls, p \in Ports : Occupies(d, p)' => Occupies(d, p)
    BY <1>1 DEF Occupies, Starting, NoCall
  <2>7. PortInv => PortInv'
    BY <1>1, <2>5, <2>6 DEF PortInv, UsedPortsBusy, PortExclusive
  <2> QED
    BY <1>5, <2>3, <2>4, <2>7 DEF InvKept, DisciplineInv
<1> QED
  BY <1>6, <1>7, <1>8 DEF Return

-----------------------------------------------------------------------------

LEMMA NextKept == DisciplineInv /\ [Next]_serialVars => InvKept
<1> SUFFICES ASSUME DisciplineInv, [Next]_serialVars PROVE InvKept
  OBVIOUS
<1>1. CASE UNCHANGED serialVars
  <2>1. DisciplineInv'
    BY <1>1 DEF serialVars, provisionVars, DisciplineInv, SerialTypeOK, ProvisionTypeOK,
       CallInv, StartCall, SessionCall, OneCall, CloneInv
  <2>2. PortInv => PortInv'
    BY <1>1 DEF serialVars, provisionVars, PortInv, UsedPortsBusy, PortExclusive, Holds,
       Stopped, Occupies, Starting
  <2> QED
    BY <2>1, <2>2 DEF InvKept
<1>2. ASSUME NEW c \in Calls, ProvisionStep(c), UNCHANGED clone
      PROVE  InvKept
  BY <1>2, LookupInv, BuildInv, TakeDownInv, SwitchPoolInv, AllocatePortInv, FreePortInv
     DEF ProvisionStep
<1>3. ASSUME NEW c \in Calls, Return(c)
      PROVE  InvKept
  BY <1>3, ReturnInv
<1>4. ASSUME NEW c \in Calls, NEW w \in Wrappers,
             Stop(c, w) \/ \E s \in Snapshots : Start(c, w, s) \/ Reset(c, w, s)
      PROVE  InvKept
  BY <1>4, CallerInv
<1>5. ASSUME NEW w \in Wrappers, Withdraw(w)
      PROVE  InvKept
  BY <1>5, WithdrawInv
<1> QED
  BY <1>1, <1>2, <1>3, <1>4, <1>5 DEF Next

LEMMA IInvDisciplined == IInv => DisciplineInv
BY DEF IInv

LEMMA NextInv == IInv /\ [Next]_serialVars => IInv'
BY NextKept DEF IInv, InvKept

\* Every reachable state satisfies the inductive invariant.
THEOREM SerialInvariant == Spec => []IInv
<1> QED
  BY InitInv, NextInv, PTL DEF Spec

\* The records of the Provisioner and of its caller always have their types: no
\* operation ends with a session without a port, or a call without a clone.
THEOREM SerialTypes == Spec => []SerialTypeOK
<1>1. IInv => SerialTypeOK
  BY DEF IInv, DisciplineInv
<1> QED
  BY <1>1, SerialInvariant, PTL

\* No port is ever used by two clones, for any port pool, any number of clones
\* and goroutines, and whichever commands fail.
THEOREM PortsAreExclusive == Spec => []PortExclusive
<1>1. IInv => PortExclusive
  BY DEF IInv, PortInv
<1> QED
  BY <1>1, SerialInvariant, PTL

-----------------------------------------------------------------------------
(***************************************************************************)
(* What failed operations leave behind: nothing, as long as the commands   *)
(* that clean up after them do not fail themselves.                        *)
(*                                                                         *)
(* `docker rm` and `zfs destroy` are those commands; a lookup of the pool  *)
(* that fails between allocatePort and the deferred revertSession keeps    *)
(* the port.  Each theorem names the faults it excludes; every other fault *)
(* may happen at any time.                                                 *)
(***************************************************************************)

\* Clean-up commands succeed.
CleanUpWorks == {"rm", "destroy"} \cap Faults = {}

-----------------------------------------------------------------------------
(* The inductive invariants *)

\* The port p has no dataset outside the pool q.
Only(q, p) == \A r \in Pools \ {q} : dataset[r][p] = None

Clean(p) == container[p] = NoContainer /\ ~CloneExists(p)

\* A start without a port has not allocated one: a failed one that has a port
\* has freed it.
UnallocatedStart ==
  \A c \in Calls :
    call[c].op = "start" /\ pc[c] \in {"snapshot", "port"} => call[c].port = None

LeakInv == UnallocatedStart /\ NoLeakedPort

\* A clone or a start in progress has the port.
Owned(p) == (\E w \in Wrappers : Holds(w, p)) \/ (\E c \in Calls : Occupies(c, p))

\* What a call that takes a clone down has left of it.
TakenDown(c) ==
  LET p == call[c].port
  IN /\ pc[c] \in {"stop", "destroy"} => Only(call[c].pool, p)
     /\ pc[c] \in {"revertStop", "revertDestroy"} => Only(call[c].newPool, p)
     /\ pc[c] \in {"destroy", "revertDestroy"} => container[p] = NoContainer
     /\ pc[c] \in {"free", "revertFree", "create"} => Clean(p)

\* What a call that builds a clone has made of it.
BuiltUp(c) ==
  LET p == call[c].port
      q == call[c].newPool
  IN /\ pc[c] \in {"run", "prepare", "ok"} =>
          Only(q, p) /\ dataset[q][p] = call[c].snapshot
     /\ pc[c] = "run" => container[p] = NoContainer
     /\ pc[c] = "prepare" => container[p] \in {NoContainer, [pool |-> q, up |-> TRUE]}
     /\ pc[c] = "ok" => container[p] = [pool |-> q, up |-> TRUE]

\* The pool that the session of a stop or a reset names.
SessionPools(c) ==
  LET s == session[call[c].wrapper]
  IN /\ call[c].newPool = s.pool
     /\ pc[c] \in {"fsm", "snapshot", "switch"} => call[c].pool = s.pool
     /\ pc[c] \in {"fsm", "snapshot", "switch", "err"} => Only(s.pool, s.port)

Footprint(c) ==
  /\ TakenDown(c)
  /\ call[c].op \in {"start", "reset"} => BuiltUp(c)
  /\ call[c].op = "start" /\ pc[c] = "fsm" => Clean(call[c].port)
  /\ call[c].op \in {"stop", "reset"} => SessionPools(c)

\* A clone that no call works on.
AtRest(w) ==
  /\ session[w] # None /\ ~Busy(w) => Only(session[w].pool, session[w].port)
  /\ clone[w] # None /\ clone[w].ok =>
       /\ ~Busy(w)
       /\ container[session[w].port] = [pool |-> session[w].pool, up |-> TRUE]
       /\ dataset[session[w].pool][session[w].port] = clone[w].snapshot

FootprintInv ==
  /\ \A c \in Calls : Footprint(c)
  /\ \A w \in Wrappers : AtRest(w)
  /\ FreePortIsClean

-----------------------------------------------------------------------------
(* Ports that are leaked *)

LEMMA InitLeak == Init => LeakInv
BY DEF Init, ProvisionInit, LeakInv, UnallocatedStart, NoLeakedPort, NoCall

\* What a step of the Provisioner leaves alone: the other calls and sessions,
\* and all but one field of its own call.
LEMMA ProvisionFrame ==
  ASSUME NEW c \in Calls, DisciplineInv, ProvisionStep(c)
  PROVE  /\ pc[c] # "idle" /\ pc'[c] # "idle"
         /\ \A d \in Calls \ {c} : pc'[d] = pc[d] /\ call'[d] = call[d]
         /\ call'[c].wrapper = call[c].wrapper /\ call'[c].op = call[c].op
         /\ call'[c].snapshot = call[c].snapshot /\ call'[c].pool = call[c].pool
         /\ pc[c] # "port" => call'[c].port = call[c].port
         /\ pc[c] # "switch" => UNCHANGED session /\ call'[c].newPool = call[c].newPool
<1>1. /\ pc \in [Calls -> Steps] /\ call \in [Calls -> CallRecords]
  BY DEF DisciplineInv, SerialTypeOK, ProvisionTypeOK
<1>2. CASE SwitchPool(c)
  BY <1>1, <1>2 DEF SwitchPool, Goto, CallRecords
<1>3. CASE AllocatePort(c)
  BY <1>1, <1>3 DEF AllocatePort, Goto, CallRecords
<1>4. CASE GetSnapshot(c) \/ GetFSManager(c) \/ PrepareDB(c)
  BY <1>1, <1>4 DEF GetSnapshot, GetFSManager, PrepareDB, Goto, DisciplineInv,
     CallInv
<1>5. CASE CreateClone(c) \/ StartPostgres(c)
  BY <1>1, <1>5 DEF CreateClone, StartPostgres, Goto
<1>6. CASE StopPostgres(c) \/ DestroyClone(c) \/ FreePort(c)
  BY <1>1, <1>6 DEF AfterStop, StopPostgres, DestroyClone, FreePort, Goto
<1>7. CASE RevertStop(c) \/ RevertDestroy(c)
  BY <1>1, <1>7 DEF RevertStop, RevertDestroy, AfterRevert, Goto
<1> QED
  BY <1>2, <1>3, <1>4, <1>5, <1>6, <1>7 DEF ProvisionStep

\* A session keeps its port for as long as it lasts.
LEMMA SessionPortStays ==
  ASSUME NEW c \in Calls, DisciplineInv, DisciplineInv', ProvisionStep(c),
         NEW w \in Wrappers
  PROVE  /\ session'[w] = None <=> session[w] = None
         /\ session[w] # None => session'[w].port = session[w].port
         /\ w # call[c].wrapper => session'[w] = session[w]
<1>1. CASE pc[c] # "switch"
  BY <1>1, ProvisionFrame
<1>2. CASE pc[c] = "switch"
  <2>1. SwitchPool(c)
    BY <1>2 DEF ProvisionStep, GetSnapshot, GetFSManager, PrepareDB, AllocatePort,
       CreateClone, StartPostgres, StopPostgres, DestroyClone, FreePort, RevertStop,
       RevertDestroy
  <2>2. call[c].wrapper \in Wrappers /\ session[call[c].wrapper] \in SessionRecords
    BY <2>1 DEF SwitchPool, DisciplineInv, CallInv, StartCall, SessionCall,
       SerialTypeOK, ProvisionTypeOK, StartSteps
  <2>3. \/ session' = session
        \/ session' = [session EXCEPT ![call[c].wrapper].pool = PoolOf[call[c].snapshot]]
    BY <2>1 DEF SwitchPool, MoveSession
  <2>4. session'[w] \in SessionRecords \cup {None}
    BY DEF DisciplineInv, SerialTypeOK, ProvisionTypeOK
  <2>5. session \in [Wrappers -> SessionRecords \cup {None}]
    BY DEF DisciplineInv, SerialTypeOK, ProvisionTypeOK
  <2>6. PoolOf[call[c].snapshot] \in Pools
    BY <2>1, ProvisionAssumption DEF SwitchPool, DisciplineInv, CallInv,
       SessionCall, StartCall, StartSteps, StopSteps
  <2>7. \A s \in SessionRecords, q \in Pools : [s EXCEPT !.pool = q] # None
    BY ProvisionAssumption DEF SessionRecords
  <2> QED
    BY <2>2, <2>3, <2>5, <2>6, <2>7 DEF SessionRecords
<1> QED
  BY <1>1, <1>2

\* A port stays with its owner as long as no start fails with the port in its
\* hand and no stop is done.
LEMMA LeakFrame ==
  ASSUME NEW c \in Calls, IInv, IInv', LeakInv, ProvisionStep(c),
         bind' = bind, pc[c] # "port",
         call[c].op = "stop" => pc'[c] # "ok",
         call[c].op = "start" /\ call[c].port # None => pc'[c] # "err"
  PROVE  NoLeakedPort'
<1>1. /\ \A d \in Calls \ {c} : pc'[d] = pc[d] /\ call'[d] = call[d]
      /\ call'[c].wrapper = call[c].wrapper /\ call'[c].op = call[c].op
      /\ call'[c].port = call[c].port
  BY ProvisionFrame, IInvDisciplined
<1>2. pc'[c] # "idle"
  BY ProvisionFrame, IInvDisciplined
<1>3. ASSUME NEW w \in Wrappers, NEW p \in Ports, Holds(w, p)
      PROVE  Holds(w, p)'
  <2>1. ~ Stopped(w)'
    BY <1>1, <1>3 DEF Holds, Stopped
  <2> QED
    BY <1>3, <2>1, SessionPortStays DEF Holds, IInv
<1>4. ASSUME NEW d \in Calls, NEW p \in Ports, Occupies(d, p)
      PROVE  Occupies(d, p)'
  BY <1>1, <1>2, <1>4 DEF Occupies, Starting
<1> QED
  BY <1>3, <1>4 DEF LeakInv, NoLeakedPort

LEMMA StepUnallocated ==
  ASSUME NEW c \in Calls, IInv, UnallocatedStart, ProvisionStep(c)
  PROVE  UnallocatedStart'
<1>1. /\ pc[c] # "idle" /\ call'[c].op = call[c].op
      /\ \A d \in Calls \ {c} : pc'[d] = pc[d] /\ call'[d] = call[d]
      /\ pc[c] # "port" => call'[c].port = call[c].port
  BY ProvisionFrame, IInvDisciplined
<1>2. ASSUME call[c].op = "start", pc'[c] \in {"snapshot", "port"}
      PROVE  pc[c] \in {"snapshot", "port"} /\ call'[c].port = None
  <2>1. pc[c] = "snapshot"
    BY <1>2 DEF ProvisionStep, GetSnapshot, GetFSManager, PrepareDB, AllocatePort,
       CreateClone, StartPostgres, StopPostgres, DestroyClone, FreePort, RevertStop,
       RevertDestroy, SwitchPool, Goto, AfterStop, AfterRevert, IInv, DisciplineInv,
       SerialTypeOK, ProvisionTypeOK
  <2> QED
    BY <1>1, <1>2, <2>1 DEF UnallocatedStart
<1> QED
  BY <1>1, <1>2 DEF UnallocatedStart

LEMMA StepLeak ==
  ASSUME NEW c \in Calls, "pool" \notin Faults, IInv, IInv', LeakInv, ProvisionStep(c)
  PROVE  LeakInv'
<1>1. /\ pc[c] # "idle" /\ call'[c].op = call[c].op
      /\ \A d \in Calls \ {c} : pc'[d] = pc[d] /\ call'[d] = call[d]
      /\ pc[c] # "port" => call'[c].port = call[c].port
  BY ProvisionFrame, IInvDisciplined
<1>2. UnallocatedStart'
  BY StepUnallocated DEF LeakInv
<1>3. CASE FreePort(c)
  <2> DEFINE p == call[c].port
  <2>1. /\ pc'[c] = (IF pc[c] = "free" THEN "ok" ELSE "err")
        /\ UNCHANGED <<session, call>> /\ bind' = [bind EXCEPT ![p] = FALSE]
    BY <1>3 DEF FreePort, Goto, IInv, DisciplineInv, SerialTypeOK, ProvisionTypeOK
  <2>2. /\ pc[c] = "free" => call[c].op = "stop" /\ SessionCall(c)
        /\ pc[c] = "revertFree" => call[c].op = "start"
    BY <1>3 DEF FreePort, IInv, DisciplineInv, CallInv, StartCall, SessionCall,
       StartSteps, ResetSteps, StopSteps
  <2>3. ASSUME NEW r \in Ports, bind'[r]
        PROVE  bind[r] /\ r # p
    BY <2>1, <2>3 DEF IInv, DisciplineInv, SerialTypeOK, ProvisionTypeOK
  <2>4. ASSUME NEW w \in Wrappers, NEW r \in Ports, Holds(w, r), r # p
        PROVE  Holds(w, r)'
    BY <1>1, <1>3, <2>1, <2>2, <2>4 DEF FreePort, Holds, Stopped, SessionCall
  <2>5. ASSUME NEW d \in Calls, NEW r \in Ports, Occupies(d, r), r # p
        PROVE  Occupies(d, r)'
    BY <1>1, <2>1, <2>5 DEF Occupies, Starting
  <2>6. NoLeakedPort'
    BY <2>3, <2>4, <2>5 DEF LeakInv, NoLeakedPort
  <2> QED
    BY <1>2, <2>6 DEF LeakInv
<1>4. CASE AllocatePort(c)
  <2>1. call[c].op = "start" /\ call[c].port = None
    BY <1>4 DEF AllocatePort, LeakInv, UnallocatedStart, IInv, DisciplineInv, CallInv,
       SessionCall, StopSteps, ResetSteps
  <2>2. session' = session /\ pc' \in [Calls -> Steps] /\ call' \in [Calls -> CallRecords]
    BY <1>4 DEF AllocatePort, IInv, DisciplineInv, SerialTypeOK, ProvisionTypeOK
  <2>3. ASSUME NEW w \in Wrappers, NEW r \in Ports, Holds(w, r)
        PROVE  Holds(w, r)'
    BY <1>1, <2>1, <2>2, <2>3 DEF Holds, Stopped
  <2>4. ASSUME NEW d \in Calls, NEW r \in Ports, Occupies(d, r)
        PROVE  Occupies(d, r)'
    BY <1>1, <2>1, <2>4 DEF Occupies, Starting
  <2>5. ASSUME NEW r \in Ports, bind'[r], ~ bind[r]
        PROVE  Occupies(c, r)'
    <3>1. call'[c].port = r /\ pc'[c] = "fsm"
      BY <1>4, <2>5 DEF AllocatePort, Goto, IInv, DisciplineInv, SerialTypeOK,
         ProvisionTypeOK, CallRecords
    <3> QED
      BY <1>1, <2>1, <3>1, ProvisionAssumption DEF Occupies, Starting
  <2>6. NoLeakedPort'
    BY <2>3, <2>4, <2>5 DEF LeakInv, NoLeakedPort
  <2> QED
    BY <1>2, <2>6 DEF LeakInv
<1>5. CASE GetSnapshot(c) \/ GetFSManager(c) \/ SwitchPool(c)
  <2>1. /\ bind' = bind /\ pc[c] # "port" /\ pc'[c] # "ok"
        /\ pc'[c] = "err" => pc[c] \in {"snapshot", "switch"}
    BY <1>5 DEF GetSnapshot, GetFSManager, SwitchPool, Goto, MayFail, IInv,
       DisciplineInv, CallInv, SerialTypeOK, ProvisionTypeOK
  <2>2. call[c].op = "start" => pc[c] # "switch"
    BY <1>1 DEF IInv, DisciplineInv, CallInv, StartCall, StartSteps
  <2> QED
    BY <1>2, <2>1, <2>2, LeakFrame DEF LeakInv, UnallocatedStart
<1>6. CASE CreateClone(c) \/ StartPostgres(c) \/ PrepareDB(c)
  <2>1. /\ bind' = bind /\ pc[c] \in {"create", "run", "prepare"} /\ pc'[c] # "err"
    BY <1>6 DEF CreateClone, StartPostgres, PrepareDB, Goto, IInv, DisciplineInv,
       SerialTypeOK, ProvisionTypeOK
  <2>2. call[c].op # "stop"
    BY <2>1 DEF IInv, DisciplineInv, CallInv, SessionCall, StopSteps
  <2> QED
    BY <1>2, <2>1, <2>2, LeakFrame DEF LeakInv
<1>7. CASE StopPostgres(c) \/ DestroyClone(c)
  <2>1. /\ bind' = bind /\ pc[c] \in {"stop", "destroy"} /\ pc'[c] # "ok"
    BY <1>7 DEF StopPostgres, DestroyClone, AfterStop, Goto, IInv, DisciplineInv,
       SerialTypeOK, ProvisionTypeOK
  <2>2. call[c].op # "start"
    BY <2>1 DEF IInv, DisciplineInv, CallInv, StartCall, StartSteps
  <2> QED
    BY <1>2, <2>1, <2>2, LeakFrame DEF LeakInv
<1>8. CASE RevertStop(c) \/ RevertDestroy(c)
  <2>1. /\ bind' = bind /\ pc[c] \in {"revertStop", "revertDestroy"} /\ pc'[c] # "ok"
        /\ call[c].op = "start" => pc'[c] # "err"
    BY <1>8 DEF RevertStop, RevertDestroy, AfterRevert, Goto, IInv, DisciplineInv,
       SerialTypeOK, ProvisionTypeOK
  <2> QED
    BY <1>2, <2>1, LeakFrame DEF LeakInv
<1> QED
  BY <1>3, <1>4, <1>5, <1>6, <1>7, <1>8 DEF ProvisionStep

\* The caller hands the port of a start over to the session of its clone.
LEMMA ReturnOwned ==
  ASSUME NEW c \in Calls, IInv, IInv', Return(c)
  PROVE  /\ UnallocatedStart => UnallocatedStart'
         /\ \A p \in Ports : Owned(p) => Owned(p)'
<1>w. PICK w \in Wrappers : w = call[c].wrapper
  BY DEF Return, IInv, DisciplineInv, CallInv, StartCall, SessionCall
<1>1. /\ pc[c] \in {"ok", "err"} /\ pc'[c] = "idle" /\ call'[c] = NoCall
      /\ \A d \in Calls \ {c} : pc'[d] = pc[d] /\ call'[d] = call[d]
      /\ bind' = bind
  BY DEF Return, Goto, IInv, DisciplineInv, SerialTypeOK, ProvisionTypeOK
<1>2. \A d \in Calls : pc[d] # "idle" /\ call[d].wrapper = w => d = c
  BY <1>w, <1>1 DEF IInv, DisciplineInv, OneCall
<1>3. session \in [Wrappers -> SessionRecords \cup {None}]
  BY DEF IInv, DisciplineInv, SerialTypeOK, ProvisionTypeOK
<1>4. \A v \in Wrappers \ {w} : session'[v] = session[v]
  BY <1>w, <1>3 DEF Return
<1>5. UnallocatedStart => UnallocatedStart'
  BY <1>1 DEF UnallocatedStart, NoCall
<1>6. ASSUME NEW v \in Wrappers, NEW p \in Ports, Holds(v, p)
      PROVE  Holds(v, p)'
  <2>1. ~ Stopped(v)'
    BY <1>1, <1>6 DEF Holds, Stopped, NoCall
  <2>2. v = w => ~ (pc[c] = "ok" /\ call[c].op = "stop")
    BY <1>w, <1>6 DEF Holds, Stopped
  <2>3. v = w => ~ (pc[c] = "ok" /\ call[c].op = "start")
    BY <1>w, <1>6 DEF Holds, IInv, DisciplineInv, CallInv, StartCall
  <2>4. session'[v] = session[v]
    BY <1>4, <2>2, <2>3 DEF Return
  <2> QED
    BY <1>6, <2>1, <2>4 DEF Holds
<1>7. ASSUME NEW d \in Calls, NEW p \in Ports, Occupies(d, p)
      PROVE  Occupies(d, p)' \/ Holds(w, p)'
  <2>1. CASE d # c
    BY <1>1, <1>7, <2>1 DEF Occupies, Starting
  <2>2. CASE d = c
    <3> DEFINE s == [port |-> call[c].port, pool |-> call[c].newPool]
    <3>1. session' = [session EXCEPT ![w] = s] /\ call[c].newPool \in Pools
      BY <1>w, <1>1, <1>7, <2>2 DEF Occupies, Starting, Return, IInv, DisciplineInv,
         CallInv, StartCall
    <3>2. s \in SessionRecords /\ s.port = p
      BY <1>7, <2>2, <3>1 DEF Occupies, SessionRecords
    <3>3. s # None
      BY <3>2, ProvisionAssumption DEF SessionRecords
    <3> HIDE DEF s
    <3>4. session'[w] = s
      BY <1>3, <3>1
    <3>5. ~ Stopped(w)'
      BY <1>1, <1>2 DEF Stopped, NoCall
    <3> QED
      BY <3>2, <3>3, <3>4, <3>5 DEF Holds
  <2> QED
    BY <2>1, <2>2
<1> QED
  BY <1>w, <1>5, <1>6, <1>7 DEF Owned

LEMMA ReturnLeak ==
  ASSUME NEW c \in Calls, IInv, IInv', LeakInv, Return(c)
  PROVE  LeakInv'
<1>1. bind' = bind
  BY DEF Return
<1> QED
  BY <1>1, ReturnOwned DEF LeakInv, NoLeakedPort, Owned

LEMMA WithdrawLeak ==
  ASSUME NEW w \in Wrappers, LeakInv, Withdraw(w)
  PROVE  LeakInv'
BY DEF Withdraw, provisionVars, LeakInv, UnallocatedStart, NoLeakedPort, Holds,
   Stopped, Occupies, Starting

\* A new call neither takes nor gives a port.
LEMMA InvokeOwned ==
  ASSUME NEW c \in Calls, NEW w \in Wrappers, IInv,
         Stop(c, w) \/ \E s \in Snapshots : Start(c, w, s) \/ Reset(c, w, s)
  PROVE  /\ UnallocatedStart => UnallocatedStart'
         /\ \A p \in Ports : Owned(p) => Owned(p)'
<1> DEFINE Goal == /\ UnallocatedStart => UnallocatedStart'
                   /\ \A p \in Ports : Owned(p) => Owned(p)'
<1>1. ASSUME pc[c] = "idle", UNCHANGED session,
             NEW k, NEW step \in {"snapshot", "fsm"},
             pc' = [pc EXCEPT ![c] = step], call' = [call EXCEPT ![c] = k],
             k.op = "start" => k.port = None
      PROVE  Goal
  <2>1. /\ pc'[c] = step /\ call'[c] = k
        /\ \A d \in Calls \ {c} : pc'[d] = pc[d] /\ call'[d] = call[d]
    BY <1>1 DEF IInv, DisciplineInv, SerialTypeOK, ProvisionTypeOK
  <2>2. UnallocatedStart => UnallocatedStart'
    BY <1>1, <2>1 DEF UnallocatedStart
  <2>3. ASSUME NEW v \in Wrappers, NEW p \in Ports, Holds(v, p)
        PROVE  Holds(v, p)'
    BY <1>1, <2>1, <2>3 DEF Holds, Stopped
  <2>4. ASSUME NEW d \in Calls, NEW p \in Ports, Occupies(d, p)
        PROVE  Occupies(d, p)'
    BY <1>1, <2>1, <2>4 DEF Occupies, Starting
  <2> QED
    BY <2>2, <2>3, <2>4 DEF Owned
<1>2. ASSUME NEW s \in Snapshots, Start(c, w, s)
      PROVE  Goal
  <2> DEFINE k == [op |-> "start", wrapper |-> w, snapshot |-> s, port |-> None,
                   pool |-> PoolOf[s], newPool |-> PoolOf[s]]
  <2>1. k.op = "start" /\ k.port = None
    OBVIOUS
  <2> HIDE DEF k, Goal
  <2> QED
    BY <1>1, <1>2, <2>1 DEF Start, InvokeStart, Goto, k
<1>3. ASSUME Stop(c, w)
      PROVE  Goal
  <2> DEFINE k == [op |-> "stop", wrapper |-> w, snapshot |-> None,
                   port |-> session[w].port, pool |-> session[w].pool,
                   newPool |-> session[w].pool]
  <2>1. k.op = "stop"
    OBVIOUS
  <2> HIDE DEF k, Goal
  <2> QED
    BY <1>1, <1>3, <2>1 DEF Stop, InvokeStop, Goto, k
<1>4. ASSUME NEW s \in Snapshots, Reset(c, w, s)
      PROVE  Goal
  <2> DEFINE k == [op |-> "reset", wrapper |-> w, snapshot |-> s,
                   port |-> session[w].port, pool |-> session[w].pool,
                   newPool |-> session[w].pool]
  <2>1. k.op = "reset"
    OBVIOUS
  <2> HIDE DEF k, Goal
  <2> QED
    BY <1>1, <1>4, <2>1 DEF Reset, InvokeReset, Goto, k
<1> QED
  BY <1>2, <1>3, <1>4

LEMMA InvokeLeak ==
  ASSUME NEW c \in Calls, NEW w \in Wrappers, IInv, LeakInv,
         Stop(c, w) \/ \E s \in Snapshots : Start(c, w, s) \/ Reset(c, w, s)
  PROVE  LeakInv'
<1>1. bind' = bind
  BY DEF Stop, Start, Reset
<1> QED
  BY <1>1, InvokeOwned DEF LeakInv, NoLeakedPort, Owned

LEMMA NextLeak ==
  ASSUME "pool" \notin Faults
  PROVE  IInv /\ LeakInv /\ [Next]_serialVars => LeakInv'
<1> SUFFICES ASSUME IInv, LeakInv, [Next]_serialVars PROVE LeakInv'
  OBVIOUS
<1>1. IInv'
  BY NextInv
<1>2. CASE UNCHANGED serialVars
  BY <1>2 DEF serialVars, provisionVars, LeakInv, UnallocatedStart, NoLeakedPort, Holds,
     Stopped, Occupies, Starting
<1>3. ASSUME NEW c \in Calls, ProvisionStep(c) \/ Return(c)
      PROVE  LeakInv'
  BY <1>1, <1>3, StepLeak, ReturnLeak
<1>4. ASSUME NEW c \in Calls, NEW w \in Wrappers,
             Stop(c, w) \/ \E s \in Snapshots : Start(c, w, s) \/ Reset(c, w, s)
      PROVE  LeakInv'
  BY <1>4, InvokeLeak
<1>5. ASSUME NEW w \in Wrappers, Withdraw(w)
      PROVE  LeakInv'
  BY <1>5, WithdrawLeak
<1> QED
  BY <1>2, <1>3, <1>4, <1>5 DEF Next

\* As long as the pool of a snapshot is found, no failure of any command leaks
\* a port: every busy port belongs to a clone, to a start in progress or to a
\* program that is not a clone.
THEOREM NoPortLeaks ==
  ASSUME "pool" \notin Faults
  PROVE  Spec => []NoLeakedPort
<1>1. LeakInv => NoLeakedPort
  BY DEF LeakInv
<1> QED
  BY <1>1, InitLeak, NextLeak, SerialInvariant, PTL DEF Spec

-----------------------------------------------------------------------------
(* What a clone leaves on its port *)

LEMMA InitFootprint == Init => FootprintInv
BY DEF Init, ProvisionInit, FootprintInv, Footprint, TakenDown, AtRest,
   FreePortIsClean, NoCall, CloneExists

\* A call that works on the port it has.
Owns(c) ==
  /\ pc[c] # "idle"
  /\ call[c].op = "start" => pc[c] \notin {"snapshot", "port", "err"}
  /\ call[c].op = "stop" => pc[c] # "ok"

\* The port of a call at work is busy and nobody else's.
LEMMA OwnerAlone ==
  ASSUME NEW c \in Calls, IInv, Owns(c)
  PROVE  /\ call[c].port \in Ports /\ bind[call[c].port]
         /\ \A d \in Calls \ {c} : Owns(d) => call[d].port # call[c].port
         /\ \A w \in Wrappers :
              session[w] # None /\ ~Busy(w) => session[w].port # call[c].port
<1>1. ASSUME NEW d \in Calls, Owns(d)
      PROVE  /\ call[d].port \in Ports
             /\ \/ call[d].op = "start" /\ Occupies(d, call[d].port)
                \/ /\ call[d].op \in {"stop", "reset"} /\ call[d].wrapper \in Wrappers
                   /\ Holds(call[d].wrapper, call[d].port)
  <2>1. CASE call[d].op = "start"
    BY <1>1, <2>1, ProvisionAssumption DEF Owns, Occupies, Starting, IInv,
       DisciplineInv, CallInv, StartCall
  <2>2. CASE call[d].op \in {"stop", "reset"}
    <3>1. SessionCall(d)
      BY <1>1, <2>2 DEF Owns, IInv, DisciplineInv, CallInv
    <3>2. ~ Stopped(call[d].wrapper)
      BY <1>1 DEF Owns, Stopped, IInv, DisciplineInv, OneCall
    <3>3. session[call[d].wrapper] \in SessionRecords
      BY <3>1 DEF SessionCall, IInv, DisciplineInv, SerialTypeOK, ProvisionTypeOK
    <3> QED
      BY <2>2, <3>1, <3>2, <3>3 DEF SessionCall, Holds, SessionRecords
  <2> QED
    BY <1>1, <2>1, <2>2 DEF Owns, IInv, DisciplineInv, CallInv
<1>2. call[c].port \in Ports /\ bind[call[c].port]
  BY <1>1 DEF IInv, PortInv, UsedPortsBusy
<1>3. ASSUME NEW d \in Calls \ {c}, Owns(d), call[d].port = call[c].port
      PROVE  FALSE
  <2>1. call[d].wrapper # call[c].wrapper
    BY <1>3 DEF Owns, IInv, DisciplineInv, OneCall
  <2> QED
    BY <1>1, <1>3, <2>1 DEF IInv, PortInv, PortExclusive
<1>4. ASSUME NEW w \in Wrappers, session[w] # None, ~Busy(w),
             session[w].port = call[c].port
      PROVE  FALSE
  <2>1. Holds(w, call[c].port)
    BY <1>4 DEF Holds, Stopped, Busy
  <2>2. w # call[c].wrapper
    BY <1>4 DEF Owns, Busy
  <2> QED
    BY <1>1, <1>2, <2>1, <2>2 DEF IInv, PortInv, PortExclusive
<1> QED
  BY <1>2, <1>3, <1>4

\* A step of a call that touches nothing but its own port preserves what is
\* said of every other port.
LEMMA FootprintFrame ==
  ASSUME NEW c \in Calls, IInv, IInv', FootprintInv, ProvisionStep(c), clone' = clone,
         \A r \in Ports :
           \/ Owns(c) /\ r = call[c].port
           \/ /\ container'[r] = container[r]
              /\ \A q \in Pools : dataset'[q][r] = dataset[q][r],
         \A r \in Ports : ~bind'[r] => ~bind[r] \/ Clean(r)',
         Footprint(c)'
  PROVE  FootprintInv'
<1>1. /\ pc[c] # "idle" /\ pc'[c] # "idle"
      /\ \A d \in Calls \ {c} : pc'[d] = pc[d] /\ call'[d] = call[d]
      /\ call'[c].wrapper = call[c].wrapper
  BY ProvisionFrame, IInvDisciplined
<1>2. \A w \in Wrappers :
        /\ session'[w] = None <=> session[w] = None
        /\ session[w] # None => session'[w].port = session[w].port
        /\ w # call[c].wrapper => session'[w] = session[w]
  BY SessionPortStays DEF IInv
<1>3. ASSUME NEW r \in Ports, ~ (Owns(c) /\ r = call[c].port)
      PROVE  /\ container'[r] = container[r]
             /\ \A q \in Pools : dataset'[q][r] = dataset[q][r]
             /\ Clean(r) <=> Clean(r)'
             /\ \A q \in Pools : Only(q, r) <=> Only(q, r)'
  BY <1>3 DEF Clean, CloneExists, NoContainer, Only
<1>4. ASSUME NEW d \in Calls \ {c}
      PROVE  Footprint(d)'
  <2>1. pc'[d] = pc[d] /\ call'[d] = call[d] /\ Footprint(d)
    BY <1>1 DEF FootprintInv
  <2>2. CASE pc[d] = "idle"
    <3>1. call[d] = NoCall
      BY <2>2 DEF IInv, DisciplineInv, CallInv
    <3> QED
      BY <2>1, <2>2, <3>1 DEF Footprint, TakenDown, NoCall
  <2>3. CASE Owns(d)
    <3>1. call[d].port \in Ports /\ ~ (Owns(c) /\ call[d].port = call[c].port)
      BY <2>3, OwnerAlone
    <3>2. /\ call[d].op \in {"stop", "reset"} => SessionCall(d)
          /\ call[d].newPool \in Pools
          /\ call[d].op \in {"stop", "reset"} => call[d].pool \in Pools
      BY <2>3 DEF Owns, IInv, DisciplineInv, CallInv, StartCall, SessionCall
    <3>3. call[d].op \in {"stop", "reset"} =>
            /\ session'[call[d].wrapper] = session[call[d].wrapper]
            /\ session[call[d].wrapper].pool \in Pools
      BY <1>1, <1>2, <2>3, <3>2
         DEF Owns, SessionCall, IInv, DisciplineInv, OneCall, SerialTypeOK,
            ProvisionTypeOK, SessionRecords
    <3>4. TakenDown(d)'
      <4>1. pc[d] \in {"stop", "destroy"} => call[d].op \in {"stop", "reset"}
        BY <2>3 DEF Owns, IInv, DisciplineInv, CallInv, StartCall, StartSteps
      <4> QED
        BY <1>3, <2>1, <3>1, <3>2, <4>1 DEF Footprint, TakenDown
    <3>5. call[d].op \in {"start", "reset"} => BuiltUp(d)'
      <4>1. PICK p \in Ports, q \in Pools : p = call[d].port /\ q = call[d].newPool
        BY <3>1, <3>2
      <4>2. p = call'[d].port /\ q = call'[d].newPool
        BY <2>1, <4>1
      <4>3. /\ container'[p] = container[p] /\ dataset'[q][p] = dataset[q][p]
            /\ Only(q, p) <=> Only(q, p)'
        BY <1>3, <3>1, <4>1
      <4> QED
        BY <2>1, <4>1, <4>2, <4>3 DEF Footprint, BuiltUp, NoContainer, Only
    <3>6. call[d].op \in {"stop", "reset"} => SessionPools(d)'
      BY <1>3, <2>1, <3>1, <3>2, <3>3 DEF Footprint, SessionPools, SessionCall
    <3> QED
      BY <1>3, <2>1, <3>1, <3>4, <3>5, <3>6 DEF Footprint
  <2>4. CASE pc[d] # "idle" /\ ~ Owns(d)
    <3>1. \/ call[d].op = "start" /\ pc[d] \in {"snapshot", "port", "err"}
          \/ call[d].op = "stop" /\ pc[d] = "ok" /\ SessionCall(d)
      BY <2>4 DEF Owns, IInv, DisciplineInv, CallInv
    <3>2. call[d].op = "stop" =>
            session'[call[d].wrapper] = session[call[d].wrapper]
      BY <1>1, <1>2, <2>4, <3>1 DEF IInv, DisciplineInv, OneCall, SessionCall
    <3> QED
      BY <2>1, <3>1, <3>2 DEF Footprint, TakenDown, BuiltUp, SessionPools
  <2> QED
    BY <2>2, <2>3, <2>4
<1>5. ASSUME NEW w \in Wrappers
      PROVE  AtRest(w)'
  <2>1. Busy(w)' <=> Busy(w)
    BY <1>1 DEF Busy
  <2>2. CASE Busy(w)
    BY <2>1, <2>2 DEF FootprintInv, AtRest
  <2>3. CASE ~ Busy(w)
    <3>1. w # call[c].wrapper
      BY <1>1, <2>3 DEF Busy
    <3>2. CASE session[w] = None
      BY <1>2, <3>2 DEF AtRest, IInv, DisciplineInv, CloneInv
    <3>3. CASE session[w] # None
      <4>1. session'[w] = session[w] /\ session[w] \in SessionRecords
        BY <1>2, <3>1, <3>3 DEF IInv, DisciplineInv, SerialTypeOK, ProvisionTypeOK
      <4>2. /\ session[w].port \in Ports /\ session[w].pool \in Pools
            /\ ~ (Owns(c) /\ session[w].port = call[c].port)
        BY <2>3, <3>3, <4>1, OwnerAlone DEF SessionRecords
      <4> QED
        BY <1>3, <2>1, <2>3, <3>3, <4>1, <4>2 DEF FootprintInv, AtRest
    <3> QED
      BY <3>2, <3>3
  <2> QED
    BY <2>2, <2>3
<1>6. FreePortIsClean'
  <2>1. ASSUME NEW r \in Ports, ~ bind'[r]
        PROVE  Clean(r)'
    <3>1. CASE ~ bind[r]
      <4>1. ~ (Owns(c) /\ r = call[c].port) /\ Clean(r)
        BY <3>1, OwnerAlone DEF FootprintInv, FreePortIsClean, Clean
      <4> QED
        BY <1>3, <4>1
    <3> QED
      BY <2>1, <3>1
  <2> QED
    BY <2>1 DEF FreePortIsClean, Clean
<1> QED
  BY <1>4, <1>5, <1>6 DEF FootprintInv

LEMMA LookupFootprint ==
  ASSUME NEW c \in Calls, IInv, IInv', FootprintInv, clone' = clone,
         GetSnapshot(c) \/ GetFSManager(c)
  PROVE  FootprintInv'
<1>1. /\ UNCHANGED <<bind, container, dataset, session, call>>
      /\ pc[c] \in {"snapshot", "fsm"}
      /\ ProvisionStep(c)
  BY DEF GetSnapshot, GetFSManager, ProvisionStep
<1>2. CASE call[c].op = "start"
  <2>1. pc'[c] \in {"port", "create", "err"} /\ (pc'[c] = "create" => pc[c] = "fsm")
    BY <1>2 DEF GetSnapshot, GetFSManager, Goto, IInv, DisciplineInv, SerialTypeOK,
       ProvisionTypeOK
  <2> QED
    BY <1>1, <1>2, <2>1, FootprintFrame
       DEF FootprintInv, Footprint, TakenDown, BuiltUp, Clean, CloneExists
<1>3. CASE call[c].op \in {"stop", "reset"}
  <2>1. pc'[c] \in {"switch", "stop", "snapshot", "err"}
    BY <1>3 DEF GetSnapshot, GetFSManager, Goto, IInv, DisciplineInv, SerialTypeOK,
       ProvisionTypeOK
  <2>2. SessionCall(c)
    BY <1>1, <1>3 DEF IInv, DisciplineInv, CallInv
  <2>3. PICK p \in Ports, q \in Pools :
          /\ p = call[c].port /\ q = call[c].pool
          /\ p = session[call[c].wrapper].port /\ q = session[call[c].wrapper].pool
    BY <1>1, <1>3, <2>2 DEF SessionCall, FootprintInv, Footprint, SessionPools, IInv,
       DisciplineInv, SerialTypeOK, ProvisionTypeOK, SessionRecords
  <2>4. Only(q, p) /\ Only(q, p)' /\ call[c].newPool = q
    BY <1>1, <1>3, <2>3 DEF FootprintInv, Footprint, SessionPools, Only
  <2> QED
    BY <1>1, <1>3, <2>1, <2>3, <2>4, FootprintFrame
       DEF Footprint, TakenDown, BuiltUp, SessionPools, Clean, CloneExists, Only
<1> QED
  BY <1>1, <1>2, <1>3 DEF IInv, DisciplineInv, CallInv

LEMMA SwitchFootprint ==
  ASSUME NEW c \in Calls, IInv, IInv', FootprintInv, clone' = clone, SwitchPool(c)
  PROVE  FootprintInv'
<1>1. /\ UNCHANGED <<bind, container, dataset>>
      /\ pc[c] = "switch" /\ ProvisionStep(c) /\ pc'[c] \in {"stop", "err"}
  BY DEF SwitchPool, ProvisionStep, Goto, IInv, DisciplineInv, SerialTypeOK,
     ProvisionTypeOK
<1>2. call[c].op = "reset" /\ SessionCall(c)
  BY <1>1 DEF IInv, DisciplineInv, CallInv, StartCall, SessionCall, StartSteps,
     StopSteps
<1>3. PICK p \in Ports, q \in Pools :
        /\ p = call[c].port /\ q = call[c].pool
        /\ p = session[call[c].wrapper].port /\ q = session[call[c].wrapper].pool
  BY <1>1, <1>2 DEF SessionCall, FootprintInv, Footprint, SessionPools, IInv,
     DisciplineInv, SerialTypeOK, ProvisionTypeOK, SessionRecords
<1>4. Only(q, p) /\ Only(q, p)'
  BY <1>1, <1>2, <1>3 DEF FootprintInv, Footprint, SessionPools, Only
<1>5. CASE pc'[c] = "err"
  <2>1. UNCHANGED <<session, call>>
    BY <1>5 DEF SwitchPool, Goto, IInv, DisciplineInv, SerialTypeOK, ProvisionTypeOK
  <2> QED
    BY <1>1, <1>2, <1>3, <1>4, <1>5, <2>1, FootprintFrame
       DEF Footprint, TakenDown, BuiltUp, SessionPools, FootprintInv, Only
<1>6. CASE pc'[c] = "stop"
  <2>1. PICK w \in Wrappers : w = call[c].wrapper
    BY <1>2 DEF SessionCall
  <2>2. /\ session' = [session EXCEPT ![w].pool = PoolOf[call[c].snapshot]]
        /\ call' = [call EXCEPT ![c].newPool = PoolOf[call[c].snapshot]]
    BY <1>6, <2>1 DEF SwitchPool, MoveSession, Goto, IInv, DisciplineInv, SerialTypeOK,
       ProvisionTypeOK
  <2>3. session[w] \in SessionRecords /\ call[c] \in CallRecords
    BY <1>2, <2>1 DEF SessionCall, IInv, DisciplineInv, SerialTypeOK, ProvisionTypeOK
  <2>4. /\ session'[w].pool = PoolOf[call[c].snapshot] /\ session'[w].port = p
        /\ call'[c].newPool = PoolOf[call[c].snapshot] /\ call'[c].pool = q
        /\ call'[c].port = p /\ call'[c].op = "reset" /\ call'[c].wrapper = w
    BY <1>2, <1>3, <2>1, <2>2, <2>3
       DEF IInv, DisciplineInv, SerialTypeOK, ProvisionTypeOK, SessionRecords,
          CallRecords
  <2>5. Footprint(c)'
    BY <1>4, <1>6, <2>4 DEF Footprint, TakenDown, BuiltUp, SessionPools, Only
  <2> QED
    BY <1>1, <2>5, FootprintFrame
<1> QED
  BY <1>1, <1>5, <1>6

LEMMA AllocateFootprint ==
  ASSUME NEW c \in Calls, IInv, IInv', FootprintInv, clone' = clone, AllocatePort(c)
  PROVE  FootprintInv'
<1>1. /\ UNCHANGED <<container, dataset, session>>
      /\ pc[c] = "port" /\ ProvisionStep(c) /\ pc'[c] \in {"fsm", "err"}
  BY DEF AllocatePort, ProvisionStep, Goto, IInv, DisciplineInv, SerialTypeOK,
     ProvisionTypeOK
<1>2. call[c].op = "start" /\ call'[c].op = "start"
  BY <1>1, ProvisionFrame DEF IInv, DisciplineInv, CallInv, SessionCall, StopSteps,
     ResetSteps
<1>3. CASE pc'[c] = "err"
  <2>1. bind' = bind
    BY <1>3 DEF AllocatePort, Goto, IInv, DisciplineInv, SerialTypeOK, ProvisionTypeOK
  <2> QED
    BY <1>1, <1>2, <1>3, <2>1, FootprintFrame DEF Footprint, TakenDown, BuiltUp
<1>4. CASE pc'[c] = "fsm"
  <2>1. PICK p \in Ports : /\ ~ bind[p] /\ bind' = [bind EXCEPT ![p] = TRUE]
                           /\ call' = [call EXCEPT ![c].port = p]
    BY <1>4 DEF AllocatePort, Reachable, Goto, IInv, DisciplineInv, SerialTypeOK,
       ProvisionTypeOK
  <2>2. call'[c].port = p /\ \A r \in Ports : ~ bind'[r] => ~ bind[r]
    BY <2>1 DEF IInv, DisciplineInv, SerialTypeOK, ProvisionTypeOK, CallRecords
  <2>3. Clean(p)'
    BY <1>1, <2>1 DEF FootprintInv, FreePortIsClean, Clean, CloneExists, NoContainer
  <2>4. Footprint(c)'
    BY <1>2, <1>4, <2>2, <2>3
       DEF Footprint, TakenDown, BuiltUp, Clean, CloneExists, NoContainer
  <2> QED
    BY <1>1, <2>2, <2>4, FootprintFrame
<1> QED
  BY <1>1, <1>3, <1>4

LEMMA FreeFootprint ==
  ASSUME NEW c \in Calls, IInv, IInv', FootprintInv, clone' = clone, FreePort(c)
  PROVE  FootprintInv'
<1>1. /\ UNCHANGED <<container, dataset, session, call>>
      /\ pc[c] \in {"free", "revertFree"} /\ ProvisionStep(c)
      /\ pc'[c] = (IF pc[c] = "free" THEN "ok" ELSE "err")
      /\ bind' = [bind EXCEPT ![call[c].port] = FALSE]
  BY DEF FreePort, ProvisionStep, Goto, IInv, DisciplineInv, SerialTypeOK,
     ProvisionTypeOK
<1>2. /\ pc[c] = "free" => call[c].op = "stop"
      /\ pc[c] = "revertFree" => call[c].op = "start"
  BY <1>1 DEF IInv, DisciplineInv, CallInv, StartCall, SessionCall, StartSteps,
     StopSteps, ResetSteps
<1>3. Clean(call[c].port)
  BY <1>1 DEF FootprintInv, Footprint, TakenDown
<1>4. \A r \in Ports : ~ bind'[r] => ~ bind[r] \/ Clean(r)'
  BY <1>1, <1>3 DEF Clean, CloneExists, NoContainer, IInv, DisciplineInv, SerialTypeOK,
     ProvisionTypeOK
<1>5. Footprint(c)'
  BY <1>1, <1>2 DEF FootprintInv, Footprint, TakenDown, BuiltUp, SessionPools
<1> QED
  BY <1>1, <1>4, <1>5, FootprintFrame

\* A command of a call on its own port p, in the pool its clone will be in.
LEMMA BuildFootprint ==
  ASSUME NEW c \in Calls, IInv, IInv', FootprintInv, clone' = clone,
         CreateClone(c) \/ StartPostgres(c) \/ PrepareDB(c)
  PROVE  FootprintInv'
<1>1. /\ UNCHANGED <<bind, session, call>> /\ ProvisionStep(c)
      /\ pc[c] \in {"create", "run", "prepare"}
  BY DEF CreateClone, StartPostgres, PrepareDB, ProvisionStep
<1>2. Owns(c) /\ call[c].op \in {"start", "reset"}
  BY <1>1 DEF Owns, IInv, DisciplineInv, CallInv, StartCall, SessionCall, StopSteps
<1>3. PICK p \in Ports, q \in Pools, s \in Snapshots :
        p = call[c].port /\ q = call[c].newPool /\ s = call[c].snapshot
  BY <1>1, <1>2, OwnerAlone DEF IInv, DisciplineInv, CallInv, StartCall, SessionCall
<1>4. /\ call[c].op = "reset" => call[c].newPool = session[call[c].wrapper].pool
      /\ TakenDown(c) /\ BuiltUp(c)
  BY <1>2 DEF FootprintInv, Footprint, SessionPools
<1>5. /\ dataset \in [Pools -> [Ports -> Snapshots \cup {None}]]
      /\ container \in [Ports -> Containers] /\ pc \in [Calls -> Steps]
  BY DEF IInv, DisciplineInv, SerialTypeOK, ProvisionTypeOK
<1>6. CASE CreateClone(c)
  <2>1. Clean(p) /\ pc[c] = "create"
    BY <1>3, <1>4, <1>6 DEF CreateClone, TakenDown
  <2>2. /\ container' = container
        /\ dataset' = dataset \/ dataset' = [dataset EXCEPT ![q][p] = s]
        /\ pc'[c] = "run" => dataset' = [dataset EXCEPT ![q][p] = s]
        /\ pc'[c] \in {"run", "revertStop"}
    BY <1>3, <1>5, <1>6, <2>1 DEF CreateClone, Goto, Clean
  <2>3. /\ \A r \in Ports \ {p}, z \in Pools : dataset'[z][r] = dataset[z][r]
        /\ \A z \in Pools \ {q} : dataset'[z][p] = None
        /\ pc'[c] = "run" => dataset'[q][p] = s
    BY <1>5, <2>1, <2>2 DEF Clean, CloneExists
  <2>4. Footprint(c)'
    BY <1>1, <1>2, <1>3, <1>4, <2>1, <2>2, <2>3
       DEF Footprint, TakenDown, BuiltUp, SessionPools, Clean, Only
  <2> QED
    BY <1>1, <1>2, <1>3, <2>2, <2>3, <2>4, FootprintFrame
<1>7. CASE StartPostgres(c)
  <2>1. /\ container[p] = NoContainer /\ pc[c] = "run"
        /\ Only(q, p) /\ dataset[q][p] = s
    BY <1>3, <1>4, <1>7 DEF StartPostgres, BuiltUp
  <2>2. /\ dataset' = dataset /\ pc'[c] \in {"prepare", "revertStop"}
        /\ \/ container' = container
           \/ \E up \in BOOLEAN : container' = [container EXCEPT ![p] = [pool |-> q, up |-> up]]
        /\ pc'[c] = "prepare" =>
             \/ container' = container
             \/ container' = [container EXCEPT ![p] = [pool |-> q, up |-> TRUE]]
    BY <1>3, <1>5, <1>7, <2>1 DEF StartPostgres, Goto
  <2>3. /\ \A r \in Ports \ {p} : container'[r] = container[r]
        /\ pc'[c] = "prepare" =>
             container'[p] \in {NoContainer, [pool |-> q, up |-> TRUE]}
    BY <1>5, <2>1, <2>2
  <2>4. Only(q, p)'
    BY <2>1, <2>2 DEF Only
  <2>5. Footprint(c)'
    BY <1>1, <1>2, <1>3, <1>4, <2>1, <2>2, <2>3, <2>4
       DEF Footprint, TakenDown, BuiltUp, SessionPools, NoContainer, Only
  <2> QED
    BY <1>1, <1>2, <1>3, <2>2, <2>3, <2>5, FootprintFrame
<1>8. CASE PrepareDB(c)
  <2>1. /\ container[p] \in {NoContainer, [pool |-> q, up |-> TRUE]}
        /\ pc[c] = "prepare" /\ Only(q, p) /\ dataset[q][p] = s
    BY <1>3, <1>4, <1>8 DEF PrepareDB, BuiltUp
  <2>2. /\ UNCHANGED <<container, dataset>> /\ pc'[c] \in {"ok", "revertStop"}
        /\ pc'[c] = "ok" => container[p].up
    BY <1>3, <1>5, <1>8 DEF PrepareDB, Goto
  <2>3. Only(q, p)'
    BY <2>1, <2>2 DEF Only
  <2>4. pc'[c] = "ok" => container'[p] = [pool |-> q, up |-> TRUE]
    <3>1. ~ NoContainer.up
      BY DEF NoContainer
    <3> QED
      BY <2>1, <2>2, <3>1
  <2>5. Footprint(c)'
    BY <1>1, <1>2, <1>3, <1>4, <2>1, <2>2, <2>3, <2>4
       DEF Footprint, TakenDown, BuiltUp, SessionPools, Only
  <2> QED
    BY <1>1, <2>2, <2>5, FootprintFrame
<1> QED
  BY <1>6, <1>7, <1>8

LEMMA TakeDownFootprint ==
  ASSUME NEW c \in Calls, CleanUpWorks, IInv, IInv', FootprintInv, clone' = clone,
         StopPostgres(c) \/ RevertStop(c) \/ DestroyClone(c) \/ RevertDestroy(c)
  PROVE  FootprintInv'
<1>1. /\ UNCHANGED <<bind, session, call>> /\ ProvisionStep(c)
      /\ pc[c] \in {"stop", "destroy", "revertStop", "revertDestroy"}
  BY DEF StopPostgres, RevertStop, DestroyClone, RevertDestroy, ProvisionStep
<1>2. /\ Owns(c)
      /\ pc[c] \in {"stop", "destroy"} => call[c].op \in {"stop", "reset"}
      /\ pc[c] \in {"revertStop", "revertDestroy"} => call[c].op \in {"start", "reset"}
  BY <1>1 DEF Owns, IInv, DisciplineInv, CallInv, StartCall, SessionCall, StartSteps,
     StopSteps
<1>3. PICK p \in Ports, q \in Pools :
        /\ p = call[c].port
        /\ q = IF pc[c] \in {"stop", "destroy"} THEN call[c].pool ELSE call[c].newPool
  BY <1>1, <1>2, OwnerAlone DEF IInv, DisciplineInv, CallInv, StartCall, SessionCall
<1>4. /\ call[c].op \in {"stop", "reset"} =>
           call[c].newPool = session[call[c].wrapper].pool
      /\ pc[c] \in {"destroy", "revertDestroy"} => container[p] = NoContainer
      /\ Only(q, p)
  BY <1>1, <1>3 DEF FootprintInv, Footprint, SessionPools, TakenDown
<1>5. /\ dataset \in [Pools -> [Ports -> Snapshots \cup {None}]]
      /\ container \in [Ports -> Containers] /\ pc \in [Calls -> Steps]
  BY DEF IInv, DisciplineInv, SerialTypeOK, ProvisionTypeOK
<1>6. CASE StopPostgres(c) \/ RevertStop(c)
  <2>1. /\ dataset' = dataset /\ container' = [container EXCEPT ![p] = NoContainer]
        /\ pc[c] = "stop" => pc'[c] = "destroy"
        /\ pc[c] = "revertStop" => pc'[c] = "revertDestroy"
        /\ pc[c] \in {"stop", "revertStop"}
    BY <1>3, <1>5, <1>6
       DEF StopPostgres, RevertStop, AfterStop, Goto, MayFail, CleanUpWorks
  <2>2. /\ container'[p] = NoContainer
        /\ \A r \in Ports \ {p} : container'[r] = container[r]
    BY <1>5, <2>1
  <2>3. Only(q, p)'
    BY <1>4, <2>1 DEF Only
  <2>4. Footprint(c)'
    BY <1>1, <1>2, <1>3, <1>4, <2>1, <2>2, <2>3
       DEF Footprint, TakenDown, BuiltUp, SessionPools, NoContainer, Only
  <2> QED
    BY <1>1, <1>2, <1>3, <2>1, <2>2, <2>4, FootprintFrame
<1>7. CASE DestroyClone(c) \/ RevertDestroy(c)
  <2>1. /\ container' = container /\ container[p] = NoContainer
        /\ pc[c] \in {"destroy", "revertDestroy"}
        /\ Destroys(q, p) \/ DestroyFails(q, p)
    BY <1>3, <1>4, <1>7 DEF DestroyClone, RevertDestroy
  <2>2. ~ DestroyFails(q, p)
    BY <1>4, <2>1 DEF DestroyFails, MayFail, CleanUpWorks, CloneExists, Only, NoContainer
  <2>3. dataset' = [dataset EXCEPT ![q][p] = None]
    BY <2>1, <2>2 DEF Destroys
  <2>4. /\ \A z \in Pools : dataset'[z][p] = None
        /\ \A r \in Ports \ {p}, z \in Pools : dataset'[z][r] = dataset[z][r]
    BY <1>4, <1>5, <2>3 DEF Only
  <2>5. /\ pc[c] = "destroy" /\ call[c].op = "stop" => pc'[c] = "free"
        /\ pc[c] = "destroy" /\ call[c].op = "reset" => pc'[c] = "create"
        /\ pc[c] = "revertDestroy" /\ call[c].op = "start" => pc'[c] = "revertFree"
        /\ pc[c] = "revertDestroy" /\ call[c].op = "reset" => pc'[c] = "err"
    BY <1>3, <1>5, <1>7, <2>2 DEF DestroyClone, RevertDestroy, AfterRevert, Goto
  <2>6. Clean(p)'
    BY <2>1, <2>4 DEF Clean, CloneExists, NoContainer
  <2>7. CASE call[c].op = "start"
    <3>1. Footprint(c)'
      BY <1>1, <1>2, <1>3, <2>1, <2>5, <2>6, <2>7
         DEF Footprint, TakenDown, BuiltUp, Clean, CloneExists, NoContainer
    <3> QED
      BY <1>1, <1>2, <1>3, <2>1, <2>4, <3>1, FootprintFrame
  <2>8. CASE call[c].op \in {"stop", "reset"}
    <3>1. SessionCall(c)
      BY <1>1, <2>8 DEF IInv, DisciplineInv, CallInv
    <3>2. session[call[c].wrapper].port = p /\ session[call[c].wrapper].pool \in Pools
      BY <1>3, <3>1 DEF SessionCall, IInv, DisciplineInv, SerialTypeOK, ProvisionTypeOK,
         SessionRecords
    <3>3. SessionPools(c)'
      BY <1>1, <1>2, <1>4, <2>1, <2>4, <2>5, <2>8, <3>2 DEF SessionPools, Only
    <3>4. TakenDown(c)' /\ BuiltUp(c)'
      BY <1>1, <1>2, <1>3, <2>1, <2>5, <2>6, <2>8
         DEF TakenDown, BuiltUp, Clean, CloneExists, NoContainer
    <3>5. Footprint(c)'
      BY <1>1, <2>8, <3>3, <3>4 DEF Footprint
    <3> QED
      BY <1>1, <1>2, <1>3, <2>1, <2>4, <3>5, FootprintFrame
  <2> QED
    BY <1>1, <1>2, <2>7, <2>8
<1> QED
  BY <1>6, <1>7

-----------------------------------------------------------------------------
(* The caller *)

\* A call that does not move keeps its footprint while nothing touches it.
LEMMA FootprintStays ==
  ASSUME NEW d \in Calls, Footprint(d), UNCHANGED <<container, dataset>>,
         pc'[d] = pc[d], call'[d] = call[d],
         call[d].op \in {"stop", "reset"} =>
           session'[call[d].wrapper] = session[call[d].wrapper]
  PROVE  Footprint(d)'
<1>1. TakenDown(d)'
  BY DEF Footprint, TakenDown, Only, Clean, CloneExists, NoContainer
<1>2. call[d].op \in {"start", "reset"} => BuiltUp(d)'
  BY DEF Footprint, BuiltUp, Only, NoContainer
<1>3. call[d].op \in {"stop", "reset"} => SessionPools(d)'
  BY DEF Footprint, SessionPools, Only
<1> QED
  BY <1>1, <1>2, <1>3 DEF Footprint, Clean, CloneExists, NoContainer

\* A started or reset clone is shown as ready once its call has built it up.
LEMMA ReturnFootprint ==
  ASSUME NEW c \in Calls, IInv, IInv', FootprintInv, Return(c)
  PROVE  FootprintInv'
<1>1. PICK w \in Wrappers : w = call[c].wrapper
  BY DEF Return, IInv, DisciplineInv, CallInv, StartCall, SessionCall
<1>2. /\ pc[c] \in {"ok", "err"} /\ pc'[c] = "idle" /\ call'[c] = NoCall
      /\ \A d \in Calls \ {c} : pc'[d] = pc[d] /\ call'[d] = call[d]
      /\ UNCHANGED <<bind, container, dataset>>
  BY DEF Return, Goto, IInv, DisciplineInv, SerialTypeOK, ProvisionTypeOK
<1>3. /\ \A d \in Calls : pc[d] # "idle" /\ call[d].wrapper = w => d = c
      /\ Busy(w)
  BY <1>1, <1>2 DEF IInv, DisciplineInv, OneCall, Busy
<1>4. /\ session \in [Wrappers -> SessionRecords \cup {None}]
      /\ clone \in [Wrappers -> CloneRecords \cup {None}]
  BY DEF IInv, DisciplineInv, SerialTypeOK, ProvisionTypeOK
<1>5. \A v \in Wrappers \ {w} : session'[v] = session[v] /\ clone'[v] = clone[v]
  BY <1>1, <1>4 DEF Return
<1>6. \A q, p : Only(q, p) <=> Only(q, p)'
  BY <1>2 DEF Only
<1>7. ASSUME NEW d \in Calls
      PROVE  Footprint(d)'
  <2>1. CASE d = c
    BY <1>2, <2>1 DEF Footprint, TakenDown, NoCall
  <2>2. CASE d # c /\ pc[d] = "idle"
    BY <1>2, <2>2 DEF Footprint, TakenDown, NoCall, IInv, DisciplineInv, CallInv
  <2>3. CASE d # c /\ pc[d] # "idle"
    <3>1. /\ call[d].wrapper \in Wrappers
          /\ session'[call[d].wrapper] = session[call[d].wrapper]
      BY <1>3, <1>5, <2>3 DEF IInv, DisciplineInv, CallInv, StartCall, SessionCall
    <3> QED
      BY <1>2, <2>3, <3>1, FootprintStays DEF FootprintInv
  <2> QED
    BY <2>1, <2>2, <2>3
<1>8. ASSUME NEW v \in Wrappers \ {w}
      PROVE  AtRest(v)'
  <2>1. Busy(v)' <=> Busy(v)
    BY <1>1, <1>2 DEF Busy, NoCall
  <2> QED
    BY <1>2, <1>5, <1>6, <2>1 DEF FootprintInv, AtRest, Only
<1>9. AtRest(w)'
  <2>1. ~ Busy(w)'
    BY <1>2, <1>3 DEF Busy, NoCall
  <2>2. CASE pc[c] = "ok" /\ call[c].op \in {"start", "reset"}
    <3> DEFINE k == [snapshot |-> call[c].snapshot, ok |-> TRUE]
    <3>1. PICK p \in Ports, q \in Pools : p = call[c].port /\ q = call[c].newPool
      BY <1>2, <2>2, OwnerAlone DEF Owns, IInv, DisciplineInv, CallInv, StartCall,
         SessionCall
    <3>2. /\ Only(q, p) /\ dataset[q][p] = call[c].snapshot
          /\ container[p] = [pool |-> q, up |-> TRUE]
      BY <2>2, <3>1 DEF FootprintInv, Footprint, BuiltUp
    <3>3. session'[w].port = p /\ session'[w].pool = q
      <4>1. CASE call[c].op = "start"
        BY <1>1, <1>4, <2>2, <3>1, <4>1 DEF Return
      <4>2. CASE call[c].op = "reset"
        BY <1>1, <2>2, <3>1, <4>2 DEF Return, FootprintInv, Footprint, SessionPools,
           IInv, DisciplineInv, CallInv, SessionCall
      <4> QED
        BY <2>2, <4>1, <4>2
    <3>4. clone'[w] = k
      BY <1>1, <1>4, <2>2 DEF Return
    <3> QED
      BY <1>2, <1>6, <2>1, <3>2, <3>3, <3>4 DEF AtRest, Only
  <2>3. CASE pc[c] = "ok" /\ call[c].op = "stop"
    BY <1>1, <1>4, <2>3 DEF Return, AtRest
  <2>4. CASE pc[c] = "err"
    <3>1. UNCHANGED <<session, clone>>
      BY <2>4 DEF Return
    <3>2. ~ (clone[w] # None /\ clone[w].ok)
      BY <1>3 DEF FootprintInv, AtRest
    <3>3. session[w] # None => Only(session[w].pool, session[w].port)
      <4>1. CASE call[c].op = "start"
        BY <1>1, <2>4, <4>1 DEF IInv, DisciplineInv, CallInv, StartCall
      <4>2. CASE call[c].op \in {"stop", "reset"}
        BY <1>1, <2>4, <4>2 DEF FootprintInv, Footprint, SessionPools
      <4> QED
        BY <1>2, <4>1, <4>2 DEF IInv, DisciplineInv, CallInv
    <3> QED
      BY <1>2, <3>1, <3>2, <3>3 DEF AtRest, Only
  <2> QED
    BY <1>2, <2>2, <2>3, <2>4 DEF Return
<1>10. FreePortIsClean'
  BY <1>2 DEF FootprintInv, FreePortIsClean, CloneExists, NoContainer
<1> QED
  BY <1>7, <1>8, <1>9, <1>10 DEF FootprintInv

\* A call begins with the clone as the last one has left it.
LEMMA InvokeFootprint ==
  ASSUME NEW c \in Calls, NEW w \in Wrappers, IInv, IInv', FootprintInv,
         Stop(c, w) \/ \E s \in Snapshots : Start(c, w, s) \/ Reset(c, w, s)
  PROVE  FootprintInv'
<1>1. /\ UNCHANGED <<bind, container, dataset, session>> /\ ~ Busy(w)
      /\ pc[c] = "idle" /\ pc'[c] \in {"snapshot", "fsm"}
      /\ \A d \in Calls \ {c} : pc'[d] = pc[d] /\ call'[d] = call[d]
  BY DEF Stop, Start, Reset, InvokeStop, InvokeStart, InvokeReset, Goto, IInv,
     DisciplineInv, SerialTypeOK, ProvisionTypeOK
<1>2. \/ /\ call'[c].op = "start" /\ pc'[c] = "snapshot" /\ call'[c].wrapper = w
         /\ session[w] = None /\ clone' = clone
      \/ /\ call'[c].op \in {"stop", "reset"} /\ pc'[c] = "fsm" /\ call'[c].wrapper = w
         /\ session[w] # None /\ call'[c].port = session[w].port
         /\ call'[c].pool = session[w].pool /\ call'[c].newPool = session[w].pool
         /\ clone' = [clone EXCEPT ![w].ok = FALSE]
  <2>1. CASE Stop(c, w)
    BY <2>1 DEF Stop, InvokeStop, Goto, IInv, DisciplineInv, SerialTypeOK,
       ProvisionTypeOK
  <2>2. ASSUME NEW s \in Snapshots, Start(c, w, s)
        PROVE  /\ call'[c].op = "start" /\ pc'[c] = "snapshot" /\ call'[c].wrapper = w
               /\ session[w] = None /\ clone' = clone
    BY <2>2 DEF Start, InvokeStart, Goto, IInv, DisciplineInv, SerialTypeOK,
       ProvisionTypeOK
  <2>3. ASSUME NEW s \in Snapshots, Reset(c, w, s)
        PROVE  /\ call'[c].op = "reset" /\ pc'[c] = "fsm" /\ call'[c].wrapper = w
               /\ session[w] # None /\ call'[c].port = session[w].port
               /\ call'[c].pool = session[w].pool /\ call'[c].newPool = session[w].pool
               /\ clone' = [clone EXCEPT ![w].ok = FALSE]
    BY <2>3 DEF Reset, InvokeReset, Goto, IInv, DisciplineInv, SerialTypeOK,
       ProvisionTypeOK
  <2> QED
    BY <2>1, <2>2, <2>3
<1>3. \A q, p : Only(q, p) <=> Only(q, p)'
  BY <1>1 DEF Only
<1>4. Footprint(c)'
  <2>1. call'[c].op = "start" => pc'[c] = "snapshot"
    BY <1>2
  <2>2. call'[c].op \in {"stop", "reset"} =>
          Only(session[w].pool, session[w].port) /\ Only(session[w].pool, session[w].port)'
    BY <1>1, <1>2, <1>3 DEF FootprintInv, AtRest
  <2> QED
    BY <1>1, <1>2, <2>1, <2>2 DEF Footprint, TakenDown, BuiltUp, SessionPools, Only
<1>5. ASSUME NEW d \in Calls \ {c}
      PROVE  Footprint(d)'
  BY <1>1, FootprintStays DEF FootprintInv
<1>6. ASSUME NEW v \in Wrappers
      PROVE  AtRest(v)'
  <2>1. Busy(w)'
    BY <1>1, <1>2 DEF Busy
  <2>2. v # w => clone'[v] = clone[v] /\ (Busy(v)' <=> Busy(v))
    <3>1. call[c] = NoCall
      BY <1>1 DEF IInv, DisciplineInv, CallInv
    <3> QED
      BY <1>1, <1>2 DEF Busy, IInv, DisciplineInv, SerialTypeOK
  <2>3. CASE v # w
    BY <1>1, <1>3, <2>2, <2>3 DEF FootprintInv, AtRest, Only
  <2>4. CASE v = w
    <3>1. ~ (clone'[w] # None /\ clone'[w].ok)
      BY <1>2 DEF IInv, DisciplineInv, CloneInv, SerialTypeOK, CloneRecords
    <3> QED
      BY <2>1, <2>4, <3>1 DEF AtRest
  <2> QED
    BY <2>3, <2>4
<1>7. FreePortIsClean'
  BY <1>1 DEF FootprintInv, FreePortIsClean, CloneExists, NoContainer
<1> QED
  BY <1>4, <1>5, <1>6, <1>7 DEF FootprintInv

LEMMA WithdrawFootprint ==
  ASSUME NEW w \in Wrappers, IInv, FootprintInv, Withdraw(w)
  PROVE  FootprintInv'
<1>1. /\ UNCHANGED <<bind, container, dataset, session, pc, call>>
      /\ \A v \in Wrappers \ {w} : clone'[v] = clone[v]
      /\ ~ clone'[w].ok
  BY DEF Withdraw, provisionVars, IInv, DisciplineInv, SerialTypeOK, CloneRecords
<1>2. ASSUME NEW d \in Calls
      PROVE  Footprint(d)'
  BY <1>1, FootprintStays DEF FootprintInv
<1>3. ASSUME NEW v \in Wrappers
      PROVE  AtRest(v)'
  BY <1>1 DEF FootprintInv, AtRest, Only, Busy
<1>4. FreePortIsClean'
  BY <1>1 DEF FootprintInv, FreePortIsClean, CloneExists, NoContainer
<1> QED
  BY <1>2, <1>3, <1>4 DEF FootprintInv

LEMMA NextFootprint ==
  ASSUME CleanUpWorks
  PROVE  IInv /\ FootprintInv /\ [Next]_serialVars => FootprintInv'
<1> SUFFICES ASSUME IInv, FootprintInv, [Next]_serialVars PROVE FootprintInv'
  OBVIOUS
<1>1. IInv'
  BY NextInv
<1>2. CASE UNCHANGED serialVars
  <2>1. UNCHANGED <<bind, container, dataset, session, pc, call, clone>>
    BY <1>2 DEF serialVars, provisionVars
  <2>2. ASSUME NEW c \in Calls
        PROVE  Footprint(c)'
    BY <2>1, FootprintStays DEF FootprintInv
  <2>3. ASSUME NEW w \in Wrappers
        PROVE  AtRest(w)'
    BY <2>1 DEF FootprintInv, AtRest, Only, Busy
  <2>4. FreePortIsClean'
    BY <2>1 DEF FootprintInv, FreePortIsClean, CloneExists, NoContainer
  <2> QED
    BY <2>2, <2>3, <2>4 DEF FootprintInv
<1>3. ASSUME NEW c \in Calls, ProvisionStep(c), UNCHANGED clone
      PROVE  FootprintInv'
  BY <1>1, <1>3, LookupFootprint, SwitchFootprint, AllocateFootprint, FreeFootprint,
     BuildFootprint, TakeDownFootprint DEF ProvisionStep
<1>4. ASSUME NEW c \in Calls, Return(c)
      PROVE  FootprintInv'
  BY <1>1, <1>4, ReturnFootprint
<1>5. ASSUME NEW c \in Calls, NEW w \in Wrappers,
             Stop(c, w) \/ \E s \in Snapshots : Start(c, w, s) \/ Reset(c, w, s)
      PROVE  FootprintInv'
  BY <1>1, <1>5, InvokeFootprint
<1>6. ASSUME NEW w \in Wrappers, Withdraw(w)
      PROVE  FootprintInv'
  BY <1>6, WithdrawFootprint
<1> QED
  BY <1>2, <1>3, <1>4, <1>5, <1>6 DEF Next

LEMMA FootprintHolds ==
  ASSUME CleanUpWorks
  PROVE  Spec => []FootprintInv
BY InitFootprint, NextFootprint, SerialInvariant, PTL DEF Spec

\* A clone that is shown as ready has its container on its own dataset of the
\* snapshot it was asked for, for every interleaving with the operations on
\* other clones and every failure outside the clean-up commands.
THEOREM ClonesAreIsolated ==
  ASSUME CleanUpWorks
  PROVE  Spec => []IsolatedClones
<1>1. FootprintInv => IsolatedClones
  BY DEF FootprintInv, AtRest, IsolatedClones
<1> QED
  BY <1>1, FootprintHolds, PTL

\* The next clone on a port meets neither a container nor a dataset.
THEOREM FreePortsAreClean ==
  ASSUME CleanUpWorks
  PROVE  Spec => []FreePortIsClean
<1>1. FootprintInv => FreePortIsClean
  BY DEF FootprintInv
<1> QED
  BY <1>1, FootprintHolds, PTL

\* A clone at rest has no dataset outside the pool of its session, although a
\* reset may move it to another pool and fail after that.
THEOREM NoDatasetStrays ==
  ASSUME CleanUpWorks
  PROVE  Spec => []NoStrayDataset
<1>1. FootprintInv => NoStrayDataset
  BY DEF FootprintInv, AtRest, NoStrayDataset, Only
<1> QED
  BY <1>1, FootprintHolds, PTL

-----------------------------------------------------------------------------
(* Containers and datasets that nobody would remove.                       *)
(*                                                                         *)
(* Each has a session or a start in progress that is going to remove it.   *)
(* No port has to be exclusive for that, so it also holds of restored      *)
(* clones that share one.                                                  *)

\* No StopSession of the clone, whose session has the port, has come to one of
\* the steps.
Keeps(w, p, steps) ==
  /\ session[w] # None /\ session[w].port = p
  /\ \A c \in Calls : call[c].wrapper = w /\ call[c].op = "stop" => pc[c] \notin steps

\* A start at one of the steps that builds its clone on the port in the pool.
Builds(c, q, p, steps) ==
  call[c].op = "start" /\ call[c].port = p /\ call[c].newPool = q /\ pc[c] \in steps

DatasetsKept ==
  \A q \in Pools, p \in Ports : dataset[q][p] # None =>
    \/ \E w \in Wrappers : Keeps(w, p, {"free", "ok"})
    \/ \E c \in Calls : Builds(c, q, p, {"run", "prepare", "revertStop", "revertDestroy", "ok"})

ContainersKept ==
  \A p \in Ports : container[p] # NoContainer =>
    \/ \E w \in Wrappers : Keeps(w, p, {"destroy", "free", "ok"})
    \/ \E c \in Calls : Builds(c, container[p].pool, p, {"prepare", "revertStop", "ok"})

\* Commands look for a dataset by its name in all pools: only one pool has it.
MachineInv ==
  /\ \A p \in Ports, q, r \in Pools : dataset[q][p] # None /\ dataset[r][p] # None => q = r
  /\ \A p \in Ports : container[p] # NoContainer => container[p].pool \in Pools

KeptInv == MachineInv /\ DatasetsKept /\ ContainersKept

LEMMA InitKept == Init => KeptInv
BY DEF Init, ProvisionInit, KeptInv, MachineInv, DatasetsKept, ContainersKept

\* What a call works on.
LEMMA CallFacts ==
  ASSUME NEW c \in Calls, DisciplineInv, pc[c] # "idle"
  PROVE  /\ call[c].op = "start" => pc[c] \in StartSteps /\ session[call[c].wrapper] = None
         /\ call[c].op = "stop" => pc[c] \in StopSteps
         /\ call[c].op = "reset" => pc[c] \in ResetSteps
         /\ call[c].op \in {"stop", "reset"} =>
              /\ session[call[c].wrapper] # None
              /\ call[c].port = session[call[c].wrapper].port /\ call[c].pool \in Pools
         /\ call[c].op \in {"start", "stop", "reset"}
         /\ call[c].wrapper \in Wrappers /\ call[c].newPool \in Pools
BY DEF DisciplineInv, CallInv, StartCall, SessionCall

\* A clone that is not being stopped goes on to keep its port,
LEMMA KeeperStays ==
  ASSUME NEW c \in Calls, DisciplineInv, DisciplineInv', ProvisionStep(c),
         NEW w \in Wrappers, NEW p, NEW steps, Keeps(w, p, steps),
         call[c].wrapper = w /\ call[c].op = "stop" => pc'[c] \notin steps
  PROVE  Keeps(w, p, steps)'
<1>1. session'[w] # None /\ session'[w].port = p
  BY SessionPortStays DEF Keeps
<1>2. /\ \A d \in Calls \ {c} : pc'[d] = pc[d] /\ call'[d] = call[d]
      /\ call'[c].wrapper = call[c].wrapper /\ call'[c].op = call[c].op
  BY ProvisionFrame
<1> QED
  BY <1>1, <1>2 DEF Keeps

\* and so does one that is being reset.
LEMMA ResetKeeps ==
  ASSUME NEW c \in Calls, DisciplineInv, DisciplineInv', ProvisionStep(c),
         call[c].op = "reset", NEW steps, "idle" \notin steps
  PROVE  \E w \in Wrappers : \A p : p = call[c].port => Keeps(w, p, steps)'
<1>w. PICK w \in Wrappers : w = call[c].wrapper
  BY ProvisionFrame, CallFacts
<1>1. /\ pc[c] # "idle" /\ pc'[c] # "idle" /\ pc[c] # "port"
      /\ session[w] # None /\ session[w].port = call[c].port
  BY <1>w, ProvisionFrame, CallFacts DEF ResetSteps
<1>2. /\ \A d \in Calls \ {c} : pc'[d] = pc[d] /\ call'[d] = call[d]
      /\ call'[c].wrapper = w /\ call'[c].op = "reset"
  BY <1>w, ProvisionFrame
<1>3. session'[w] # None /\ session'[w].port = call[c].port
  BY <1>1, SessionPortStays
<1>4. \A d \in Calls : call'[d].wrapper = w /\ call'[d].op = "stop" => pc'[d] = "idle"
  BY <1>1, <1>2 DEF DisciplineInv, OneCall
<1> QED
  BY <1>3, <1>4 DEF Keeps

LEMMA BuilderStays ==
  ASSUME NEW c \in Calls, DisciplineInv, ProvisionStep(c),
         NEW d \in Calls, NEW q, NEW p, NEW steps, Builds(d, q, p, steps),
         d = c => pc'[c] \in steps /\ pc[c] \notin {"port", "switch"}
  PROVE  Builds(d, q, p, steps)'
BY ProvisionFrame DEF Builds

\* Which commands touch a dataset or a container.
LEMMA StepMachine ==
  ASSUME NEW c \in Calls, DisciplineInv, ProvisionStep(c)
  PROVE  /\ \/ dataset' = dataset
            \/ CreateClone(c) /\ ~CloneExists(call[c].port)
                 /\ dataset' = [dataset EXCEPT ![call[c].newPool][call[c].port] = call[c].snapshot]
            \/ DestroyClone(c) /\ Destroys(call[c].pool, call[c].port)
            \/ RevertDestroy(c) /\ Destroys(call[c].newPool, call[c].port)
         /\ \/ container' = container
            \/ StartPostgres(c) /\ \E up \in BOOLEAN :
                 container' = [container EXCEPT ![call[c].port] =
                                 [pool |-> call[c].newPool, up |-> up]]
            \/ StopPostgres(c) \/ RevertStop(c)
<1>1. CASE GetSnapshot(c) \/ GetFSManager(c) \/ SwitchPool(c) \/ AllocatePort(c) \/ PrepareDB(c)
             \/ FreePort(c)
  BY <1>1 DEF GetSnapshot, GetFSManager, SwitchPool, AllocatePort, PrepareDB, FreePort
<1>2. CASE CreateClone(c)
  BY <1>2 DEF CreateClone
<1>3. CASE StartPostgres(c)
  BY <1>3 DEF StartPostgres
<1>4. CASE StopPostgres(c) \/ RevertStop(c)
  BY <1>4 DEF StopPostgres, RevertStop
<1>5. CASE DestroyClone(c) \/ RevertDestroy(c)
  BY <1>5 DEF DestroyClone, RevertDestroy, DestroyFails
<1> QED
  BY <1>1, <1>2, <1>3, <1>4, <1>5 DEF ProvisionStep

LEMMA DestroysOnly ==
  ASSUME DisciplineInv, NEW q, NEW p, Destroys(q, p)
  PROVE  /\ \A r \in Pools, t \in Ports : dataset'[r][t] # None => dataset'[r][t] = dataset[r][t]
         /\ q \in Pools /\ p \in Ports => dataset'[q][p] = None
BY DEF Destroys, DisciplineInv, SerialTypeOK, ProvisionTypeOK

LEMMA MachineKept ==
  ASSUME NEW c \in Calls, DisciplineInv, MachineInv, ProvisionStep(c)
  PROVE  MachineInv'
<1> DEFINE p == call[c].port
<1>0. /\ dataset \in [Pools -> [Ports -> Snapshots \cup {None}]]
      /\ container \in [Ports -> Containers]
  BY DEF DisciplineInv, SerialTypeOK, ProvisionTypeOK
<1>1. pc[c] # "idle" /\ call[c].newPool \in Pools
  BY ProvisionFrame, CallFacts
<1>2. \A r \in Ports, q, t \in Pools : dataset'[q][r] # None /\ dataset'[t][r] # None => q = t
  <2>1. CASE dataset' = dataset
    BY <2>1 DEF MachineInv
  <2>2. CASE ~CloneExists(p) /\ dataset' = [dataset EXCEPT ![call[c].newPool][p] = call[c].snapshot]
    BY <1>0, <1>1, <2>2 DEF MachineInv, CloneExists
  <2>3. ASSUME NEW q, Destroys(q, p)
        PROVE  \A r \in Pools, t \in Ports : dataset'[r][t] # None => dataset[r][t] # None
    BY <2>3, DestroysOnly
  <2> QED
    BY <2>1, <2>2, <2>3, StepMachine DEF MachineInv
<1>3. \A r \in Ports : container'[r] # NoContainer => container'[r].pool \in Pools
  <2>1. CASE container' = container
    BY <2>1 DEF MachineInv
  <2>2. ASSUME NEW up, container' = [container EXCEPT ![p] = [pool |-> call[c].newPool, up |-> up]]
        PROVE  \A r \in Ports : container'[r] # NoContainer => container'[r].pool \in Pools
    BY <1>0, <1>1, <2>2 DEF MachineInv
  <2>3. CASE StopPostgres(c) \/ RevertStop(c)
    BY <1>0, <2>3 DEF StopPostgres, RevertStop, MachineInv
  <2> QED
    BY <2>1, <2>2, <2>3, StepMachine
<1> QED
  BY <1>2, <1>3 DEF MachineInv

LEMMA StepDatasets ==
  ASSUME NEW c \in Calls, CleanUpWorks, DisciplineInv, DisciplineInv', KeptInv, ProvisionStep(c)
  PROVE  DatasetsKept'
<1> DEFINE p == call[c].port
           steps == {"run", "prepare", "revertStop", "revertDestroy", "ok"}
<1>0. /\ dataset \in [Pools -> [Ports -> Snapshots \cup {None}]] /\ pc[c] # "idle"
      /\ pc \in [Calls -> Steps]
  BY ProvisionFrame DEF DisciplineInv, SerialTypeOK, ProvisionTypeOK
<1> SUFFICES ASSUME NEW q \in Pools, NEW r \in Ports, dataset'[q][r] # None
             PROVE  \/ \E w \in Wrappers : Keeps(w, r, {"free", "ok"})'
                    \/ \E d \in Calls : Builds(d, q, r, steps)'
  BY DEF DatasetsKept
<1>1. CASE dataset[q][r] = None
  <2>1. /\ CreateClone(c) /\ r = p /\ q = call[c].newPool
    <3>1. ~Destroys(call[c].pool, p) /\ ~Destroys(call[c].newPool, p)
      BY <1>1, DestroysOnly
    <3>2. /\ CreateClone(c)
          /\ dataset' = [dataset EXCEPT ![call[c].newPool][p] = call[c].snapshot]
      BY <1>1, <3>1, StepMachine
    <3>3. call[c].newPool \in Pools
      BY <1>0, CallFacts
    <3> QED
      BY <1>0, <1>1, <3>2, <3>3
  <2>2. CASE call[c].op = "start"
    <3>1. pc'[c] \in steps /\ pc[c] = "create"
      BY <1>0, <2>1 DEF CreateClone, Goto
    <3> QED
      BY <2>1, <2>2, <3>1, ProvisionFrame DEF Builds
  <2>3. CASE call[c].op = "reset"
    BY <2>1, <2>3, ResetKeeps
  <2>4. call[c].op # "stop"
    BY <1>0, <2>1, CallFacts DEF CreateClone, StopSteps
  <2> QED
    BY <1>0, <2>2, <2>3, <2>4, CallFacts
<1>2. ASSUME NEW w \in Wrappers, Keeps(w, r, {"free", "ok"})
      PROVE  Keeps(w, r, {"free", "ok"})'
  <2>1. CASE call[c].wrapper = w /\ call[c].op = "stop" /\ pc'[c] \in {"free", "ok"}
    <3>1. r = p /\ pc[c] \notin {"free", "ok"} /\ pc[c] \in StopSteps
      BY <1>0, <1>2, <2>1, CallFacts DEF Keeps
    <3>2. DestroyClone(c)
      BY <1>0, <2>1, <3>1 DEF ProvisionStep, GetSnapshot, GetFSManager, PrepareDB, AllocatePort,
         CreateClone, StartPostgres, StopPostgres, FreePort, RevertStop, RevertDestroy,
         SwitchPool, Goto, AfterStop, StopSteps
    <3>3. Destroys(call[c].pool, p)
      BY <1>0, <2>1, <3>2 DEF DestroyClone, Goto
    <3> QED
      <4>1. CASE dataset[q][r] = None
        BY <1>2, <3>3, <4>1, DestroysOnly
      <4>2. CASE dataset[q][r] # None
        <5>1. dataset[call[c].pool][r] # None /\ call[c].pool \in Pools
          BY <1>0, <2>1, <3>1, <3>3, <4>2, CallFacts DEF Destroys, CloneExists
        <5>2. call[c].pool = q
          BY <4>2, <5>1 DEF KeptInv, MachineInv
        <5> QED
          BY <3>1, <3>3, <5>1, <5>2, DestroysOnly
      <4> QED
        BY <4>1, <4>2
  <2> QED
    BY <1>2, <2>1, KeeperStays
<1>3. ASSUME NEW d \in Calls, Builds(d, q, r, steps), dataset[q][r] # None
      PROVE  \/ \E w \in Wrappers : Keeps(w, r, {"free", "ok"})'
             \/ \E e \in Calls : Builds(e, q, r, steps)'
  <2>1. CASE d # c \/ pc'[c] \in steps
    <3>1. d = c => pc[c] \notin {"port", "switch"}
      BY <1>3 DEF Builds
    <3> QED
      BY <1>3, <2>1, <3>1, BuilderStays
  <2>2. CASE d = c /\ pc'[c] \notin steps
    <3>1. /\ call[c].op = "start" /\ r = p /\ q = call[c].newPool /\ pc[c] \in steps
      BY <1>3, <2>2 DEF Builds
    <3>2. RevertDestroy(c)
      BY <1>0, <2>2, <3>1 DEF ProvisionStep, GetSnapshot, GetFSManager, PrepareDB, AllocatePort,
         CreateClone, StartPostgres, StopPostgres, FreePort, RevertStop, DestroyClone,
         SwitchPool, Goto, AfterStop
    <3>3. CASE Destroys(q, r)
      BY <3>3, DestroysOnly
    <3>4. CASE DestroyFails(q, r)
      <4>1. container[r] = [pool |-> q, up |-> TRUE]
        BY <1>3, <3>4 DEF DestroyFails, CleanUpWorks, MayFail
      <4>2. container[r] # NoContainer /\ container[r].pool = q
        BY <4>1 DEF NoContainer
      <4>3. CASE \E w \in Wrappers : Keeps(w, r, {"destroy", "free", "ok"})
        <5>1. PICK w \in Wrappers : Keeps(w, r, {"destroy", "free", "ok"})
          BY <4>3
        <5>2. Keeps(w, r, {"free", "ok"})
          BY <5>1 DEF Keeps
        <5> QED
          BY <1>2, <5>2
      <4>4. CASE \E e \in Calls : Builds(e, q, r, {"prepare", "revertStop", "ok"})
        <5>1. PICK e \in Calls : Builds(e, q, r, {"prepare", "revertStop", "ok"})
          BY <4>4
        <5>2. e # c /\ Builds(e, q, r, steps)
          BY <3>2, <5>1 DEF Builds, RevertDestroy
        <5> QED
          BY <5>2, BuilderStays
      <4> QED
        BY <4>2, <4>3, <4>4 DEF KeptInv, ContainersKept
    <3> QED
      BY <3>1, <3>2, <3>3, <3>4 DEF RevertDestroy
  <2> QED
    BY <2>1, <2>2
<1>4. CASE dataset[q][r] # None
  <2> HIDE DEF steps
  <2> QED
    BY <1>2, <1>3, <1>4 DEF KeptInv, DatasetsKept, steps
<1> QED
  BY <1>1, <1>4

LEMMA StepContainers ==
  ASSUME NEW c \in Calls, CleanUpWorks, DisciplineInv, DisciplineInv', KeptInv, ProvisionStep(c)
  PROVE  ContainersKept'
<1> DEFINE p == call[c].port
           after == {"destroy", "free", "ok"}
           steps == {"prepare", "revertStop", "ok"}
<1>0. /\ container \in [Ports -> Containers] /\ pc[c] # "idle"
      /\ pc \in [Calls -> Steps]
  BY ProvisionFrame DEF DisciplineInv, SerialTypeOK, ProvisionTypeOK
<1> SUFFICES ASSUME NEW r \in Ports, container'[r] # NoContainer
             PROVE  \/ \E w \in Wrappers : Keeps(w, r, after)'
                    \/ \E d \in Calls : Builds(d, container[r].pool, r, steps)'
  BY DEF ContainersKept
<1>1. CASE container'[r] # container[r]
  <2>1. PICK up \in BOOLEAN :
          /\ StartPostgres(c)
          /\ container' = [container EXCEPT ![p] = [pool |-> call[c].newPool, up |-> up]]
    BY <1>0, <1>1, StepMachine DEF StopPostgres, RevertStop
  <2>2. /\ r = p /\ container'[r].pool = call[c].newPool
    BY <1>0, <1>1, <2>1
  <2>3. CASE call[c].op = "start"
    <3>1. pc'[c] \in steps /\ pc[c] = "run"
      BY <1>0, <2>1 DEF StartPostgres, Goto
    <3>2. Builds(c, call[c].newPool, r, steps)'
      BY <2>2, <2>3, <3>1, ProvisionFrame DEF Builds
    <3> QED
      BY <2>2, <3>1, <3>2, ProvisionFrame
  <2>4. CASE call[c].op = "reset"
    <3>1. "idle" \notin after
      OBVIOUS
    <3> HIDE DEF after
    <3> QED
      BY <2>2, <2>4, <3>1, ResetKeeps
  <2>5. call[c].op # "stop"
    BY <1>0, <2>1, CallFacts DEF StartPostgres, StopSteps
  <2> QED
    BY <1>0, <2>3, <2>4, <2>5, CallFacts
<1>2. ASSUME NEW w \in Wrappers, Keeps(w, r, after), container'[r] = container[r]
      PROVE  Keeps(w, r, after)'
  <2>1. CASE call[c].wrapper = w /\ call[c].op = "stop" /\ pc'[c] \in after
    <3>1. r = p /\ pc[c] \notin after /\ pc[c] \in StopSteps
      BY <1>0, <1>2, <2>1, CallFacts DEF Keeps
    <3>2. StopPostgres(c)
      BY <1>0, <2>1, <3>1 DEF ProvisionStep, GetSnapshot, GetFSManager, PrepareDB, AllocatePort,
         CreateClone, StartPostgres, DestroyClone, FreePort, RevertStop, RevertDestroy,
         SwitchPool, Goto, StopSteps
    <3> QED
      BY <1>0, <3>1, <3>2 DEF StopPostgres, CleanUpWorks, MayFail
  <2> QED
    BY <1>2, <2>1, KeeperStays
<1>3. ASSUME NEW d \in Calls, NEW q, Builds(d, q, r, steps), container'[r] = container[r]
      PROVE  Builds(d, q, r, steps)'
  <2>1. d = c => pc[c] \notin {"port", "switch"}
    BY <1>3 DEF Builds
  <2>2. CASE d = c /\ pc'[c] \notin steps
    <3>1. /\ r = p /\ pc[c] \in steps
      BY <1>3, <2>2 DEF Builds
    <3>2. RevertStop(c)
      BY <1>0, <2>2, <3>1 DEF ProvisionStep, GetSnapshot, GetFSManager, PrepareDB, AllocatePort,
         CreateClone, StartPostgres, StopPostgres, FreePort, RevertDestroy, DestroyClone,
         SwitchPool, Goto
    <3> QED
      BY <1>0, <3>1, <3>2 DEF RevertStop, CleanUpWorks, MayFail
  <2> QED
    BY <1>3, <2>1, <2>2, BuilderStays
<1>4. CASE container'[r] = container[r]
  <2> HIDE DEF steps, after
  <2> QED
    BY <1>2, <1>3, <1>4 DEF KeptInv, ContainersKept, steps, after
<1> QED
  BY <1>1, <1>4

\* The steps at which a StopSession has removed the dataset, and the container.
After == {{"free", "ok"}, {"destroy", "free", "ok"}}

\* The steps at which a start has made the dataset, and the container.
During == {{"run", "prepare", "revertStop", "revertDestroy", "ok"}, {"prepare", "revertStop", "ok"}}

LEMMA ReturnKept ==
  ASSUME NEW c \in Calls, DisciplineInv, DisciplineInv', KeptInv, Return(c)
  PROVE  KeptInv'
<1>w. PICK w \in Wrappers : w = call[c].wrapper
  BY DEF Return, DisciplineInv, CallInv, StartCall, SessionCall
<1>1. /\ pc[c] \in {"ok", "err"} /\ pc'[c] = "idle" /\ call'[c] = NoCall
      /\ \A d \in Calls \ {c} : pc'[d] = pc[d] /\ call'[d] = call[d]
      /\ UNCHANGED <<container, dataset>>
  BY DEF Return, Goto, DisciplineInv, SerialTypeOK, ProvisionTypeOK
<1>2. \A d \in Calls : pc[d] # "idle" /\ call[d].wrapper = w => d = c
  BY <1>w, <1>1 DEF DisciplineInv, OneCall
<1>3. session \in [Wrappers -> SessionRecords \cup {None}]
  BY DEF DisciplineInv, SerialTypeOK, ProvisionTypeOK
<1>4. \A v \in Wrappers \ {w} : session'[v] = session[v]
  BY <1>w, <1>3 DEF Return
<1>5. ASSUME NEW v \in Wrappers, NEW p \in Ports, NEW steps \in After, Keeps(v, p, steps)
      PROVE  Keeps(v, p, steps)'
  <2>1. "ok" \in steps
    BY DEF After
  <2>2. v = w => ~ (pc[c] = "ok" /\ call[c].op \in {"start", "stop"})
    BY <1>w, <1>5, <2>1 DEF Keeps, DisciplineInv, CallInv, StartCall
  <2>3. session'[v] = session[v]
    BY <1>4, <2>2 DEF Return
  <2> QED
    BY <1>1, <1>5, <2>3 DEF Keeps, NoCall
<1>6. ASSUME NEW d \in Calls, NEW q, NEW p \in Ports, NEW steps \in During,
             Builds(d, q, p, steps)
      PROVE  Builds(d, q, p, steps)' \/ \A after \in After : Keeps(w, p, after)'
  <2>1. CASE d # c
    BY <1>1, <1>6, <2>1 DEF Builds
  <2>2. CASE d = c
    <3> DEFINE s == [port |-> call[c].port, pool |-> call[c].newPool]
    <3>1. "err" \notin steps
      BY DEF During
    <3>2. session' = [session EXCEPT ![w] = s] /\ call[c].newPool \in Pools
      BY <1>w, <1>1, <1>6, <2>2, <3>1 DEF Builds, Return, DisciplineInv, CallInv, StartCall
    <3>3. s \in SessionRecords /\ s.port = p
      BY <1>6, <2>2, <3>2 DEF Builds, SessionRecords
    <3>4. s # None
      BY <3>3, ProvisionAssumption DEF SessionRecords
    <3> HIDE DEF s
    <3>5. session'[w] = s
      BY <1>3, <3>2
    <3>6. \A e \in Calls : call'[e].wrapper = w /\ call'[e].op = "stop" => pc'[e] = "idle"
      BY <1>1, <1>2
    <3> QED
      BY <3>3, <3>4, <3>5, <3>6 DEF Keeps, After
  <2> QED
    BY <2>1, <2>2
<1>7. DatasetsKept'
  BY <1>1, <1>5, <1>6 DEF KeptInv, DatasetsKept, After, During
<1>8. ContainersKept'
  BY <1>1, <1>5, <1>6 DEF KeptInv, ContainersKept, After, During
<1> QED
  BY <1>1, <1>7, <1>8 DEF KeptInv, MachineInv

LEMMA InvokeKept ==
  ASSUME NEW c \in Calls, NEW w \in Wrappers, DisciplineInv, KeptInv,
         Stop(c, w) \/ \E s \in Snapshots : Start(c, w, s) \/ Reset(c, w, s)
  PROVE  KeptInv'
<1>1. /\ UNCHANGED <<container, dataset, session>> /\ pc[c] = "idle"
      /\ pc'[c] \in {"snapshot", "fsm"}
      /\ \A d \in Calls \ {c} : pc'[d] = pc[d] /\ call'[d] = call[d]
  BY DEF Stop, Start, Reset, InvokeStop, InvokeStart, InvokeReset, Goto, DisciplineInv,
     SerialTypeOK, ProvisionTypeOK
<1>2. ASSUME NEW v \in Wrappers, NEW p \in Ports, NEW steps \in After, Keeps(v, p, steps)
      PROVE  Keeps(v, p, steps)'
  BY <1>1, <1>2 DEF Keeps, After
<1>3. ASSUME NEW d \in Calls, NEW q, NEW p \in Ports, NEW steps \in During,
             Builds(d, q, p, steps)
      PROVE  Builds(d, q, p, steps)'
  BY <1>1, <1>3 DEF Builds, During
<1>4. DatasetsKept'
  BY <1>1, <1>2, <1>3 DEF KeptInv, DatasetsKept, After, During
<1>5. ContainersKept'
  BY <1>1, <1>2, <1>3 DEF KeptInv, ContainersKept, After, During
<1> QED
  BY <1>1, <1>4, <1>5 DEF KeptInv, MachineInv

\* Without failures of the commands that clean up, whatever there is stays
\* somebody's.
LEMMA NextKeeps ==
  ASSUME CleanUpWorks
  PROVE  DisciplineInv /\ KeptInv /\ [Next]_serialVars => KeptInv'
<1> SUFFICES ASSUME DisciplineInv, KeptInv, [Next]_serialVars PROVE KeptInv'
  OBVIOUS
<1>1. DisciplineInv'
  BY NextKept DEF InvKept
<1>2. ASSUME UNCHANGED provisionVars
      PROVE  KeptInv'
  BY <1>2 DEF provisionVars, KeptInv, MachineInv, DatasetsKept, ContainersKept, Keeps, Builds
<1>3. CASE UNCHANGED serialVars
  BY <1>2, <1>3 DEF serialVars
<1>4. ASSUME NEW c \in Calls, ProvisionStep(c)
      PROVE  KeptInv'
  <2>1. MachineInv'
    BY <1>4, MachineKept DEF KeptInv
  <2>2. DatasetsKept'
    BY <1>1, <1>4, StepDatasets
  <2>3. ContainersKept'
    BY <1>1, <1>4, StepContainers
  <2> QED
    BY <2>1, <2>2, <2>3 DEF KeptInv
<1>5. ASSUME NEW c \in Calls, Return(c)
      PROVE  KeptInv'
  BY <1>1, <1>5, ReturnKept
<1>6. ASSUME NEW c \in Calls, NEW w \in Wrappers,
             Stop(c, w) \/ \E s \in Snapshots : Start(c, w, s) \/ Reset(c, w, s)
      PROVE  KeptInv'
  BY <1>6, InvokeKept
<1>7. ASSUME NEW w \in Wrappers, Withdraw(w)
      PROVE  KeptInv'
  BY <1>2, <1>7 DEF Withdraw
<1> QED
  BY <1>3, <1>4, <1>5, <1>6, <1>7 DEF Next
=============================================================================
