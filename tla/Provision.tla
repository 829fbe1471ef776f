------------------------------ MODULE Provision ------------------------------
(***************************************************************************)
(* The local Provisioner (internal/provision/mode_local.go): its port pool *)
(* and the three operations that build, remove and rebuild a thin clone,   *)
(* together with the Docker and ZFS commands they run.                     *)
(*                                                                         *)
(* A clone on port p is the container and the dataset named after p        *)
(* (util.GetCloneName), so a port is also the identity of a container and  *)
(* of a dataset.  Every operation runs in a goroutine of its caller, and   *)
(* each shell command is one step: operations interleave between commands. *)
(*                                                                         *)
(* The module describes the operations only.  Who calls them, and when, is *)
(* the business of a module that extends it: SerialSessions, Cloning.      *)
(***************************************************************************)
EXTENDS Integers, FiniteSets

CONSTANTS
  From, To,      \* config.PortPool: ports From .. To - 1
  Pools,         \* storage pools (filesystem managers)
  Snapshots,     \* snapshots of all the active pools
  PoolOf,        \* the pool that keeps a snapshot
  Wrappers,      \* clone wrappers: each may hold one *resources.Session
  Calls,         \* goroutines that run an operation of the Provisioner
  Occupied,      \* ports on which a program that is not a clone listens
  MaxNumberOfPortsToCheck,
  Faults,        \* the commands and lookups that may fail
  None           \* nil

Ports == From .. (To - 1)

Commands == {"pool", "snapshot", "port", "clone", "run", "prepare", "start", "rm",
             "destroy"}

ASSUME ProvisionAssumption ==
  /\ From \in Nat /\ To \in Nat
  /\ PoolOf \in [Snapshots -> Pools]
  /\ Occupied \subseteq Ports
  /\ MaxNumberOfPortsToCheck \in Nat
  /\ Faults \subseteq Commands
  /\ None \notin Ports \cup Pools \cup Snapshots \cup Wrappers
  /\ None \notin [port : Ports, pool : Pools]

VARIABLES
  bind,        \* Provisioner.ports: is the port marked as busy?
  container,   \* what `docker ps --all` knows under the name of a port
  dataset,     \* the origin of the ZFS clone of a port in a pool, or None
  session,     \* wrapper.Session: the port and the pool of a session, or None
  pc,          \* the next step of a call
  call         \* the arguments and the locals of a call

provisionVars == <<bind, container, dataset, session, pc, call>>

-----------------------------------------------------------------------------
(* States *)

NoContainer == [pool |-> None, up |-> FALSE]

Containers == [pool : Pools \cup {None}, up : BOOLEAN]

SessionRecords == [port : Ports, pool : Pools]

\* "start" carries the port once it is allocated; "reset" and "stop" read it
\* from the session when they begin.
CallRecords ==
  [op : {"none", "start", "stop", "reset"}, wrapper : Wrappers \cup {None},
   snapshot : Snapshots \cup {None}, port : Ports \cup {None},
   pool : Pools \cup {None},        \* fsm: where the clone is (StopSession, ResetSession)
   newPool : Pools \cup {None}]     \* newFSManager: where the clone will be

Steps == {"idle",
          "snapshot", "port", "fsm", "switch",     \* lookups and allocation
          "stop", "destroy", "free",               \* taking a clone down
          "create", "run", "prepare",              \* building a clone
          "revertStop", "revertDestroy", "revertFree",
          "ok", "err"}

NoCall == [op |-> "none", wrapper |-> None, snapshot |-> None, port |-> None,
           pool |-> None, newPool |-> None]

ProvisionTypeOK ==
  /\ bind \in [Ports -> BOOLEAN]
  /\ container \in [Ports -> Containers]
  /\ dataset \in [Pools -> [Ports -> Snapshots \cup {None}]]
  /\ session \in [Wrappers -> SessionRecords \cup {None}]
  /\ pc \in [Calls -> Steps]
  /\ call \in [Calls -> CallRecords]

\* The state after Run: RevisePortPool has marked the ports in use as busy.
ProvisionInit ==
  /\ bind = [p \in Ports |-> p \in Occupied]
  /\ container = [p \in Ports |-> NoContainer]
  /\ dataset = [q \in Pools |-> [p \in Ports |-> None]]
  /\ session = [w \in Wrappers |-> None]
  /\ pc = [c \in Calls |-> "idle"]
  /\ call = [c \in Calls |-> NoCall]

-----------------------------------------------------------------------------
(* Helpers *)

Goto(c, step) == pc' = [pc EXCEPT ![c] = step]

MayFail(command) == command \in Faults

\* checkPortAvailability: something accepts connections on the port.
Listening(p) == container[p].up \/ p \in Occupied

\* cloneExists greps the names of the datasets of all the pools.
CloneExists(p) == \E q \in Pools : dataset[q][p] # None

\* A port allocatePort reaches before it has met too many ports that are
\* marked free and do not answer as free.
Reachable(p) ==
  /\ ~bind[p] /\ ~Listening(p)
  /\ \A q \in Ports : q < p => bind[q] \/ Listening(q)
  /\ Cardinality({q \in Ports : q < p /\ ~bind[q]}) < MaxNumberOfPortsToCheck

-----------------------------------------------------------------------------
(* Calls.  The caller of an operation decides when it is invoked. *)

InvokeStart(c, w, s) ==
  /\ pc[c] = "idle"
  /\ Goto(c, "snapshot")
  /\ call' = [call EXCEPT ![c] =
       [op |-> "start", wrapper |-> w, snapshot |-> s, port |-> None,
        pool |-> PoolOf[s], newPool |-> PoolOf[s]]]

InvokeStop(c, w) ==
  /\ pc[c] = "idle"
  /\ session[w] # None
  /\ Goto(c, "fsm")
  /\ call' = [call EXCEPT ![c] =
       [op |-> "stop", wrapper |-> w, snapshot |-> None,
        port |-> session[w].port, pool |-> session[w].pool,
        newPool |-> session[w].pool]]

InvokeReset(c, w, s) ==
  /\ pc[c] = "idle"
  /\ session[w] # None
  /\ Goto(c, "fsm")
  /\ call' = [call EXCEPT ![c] =
       [op |-> "reset", wrapper |-> w, snapshot |-> s,
        port |-> session[w].port, pool |-> session[w].pool,
        newPool |-> session[w].pool]]

-----------------------------------------------------------------------------
(* Lookups *)

\* getSnapshot: the snapshot may have left the active pools meanwhile.
GetSnapshot(c) ==
  /\ pc[c] = "snapshot"
  /\ \/ Goto(c, IF call[c].op = "start" THEN "port" ELSE "switch")
     \/ MayFail("snapshot") /\ Goto(c, "err")
  /\ UNCHANGED <<bind, container, dataset, session, call>>

\* GetFSManager.  StartSession has allocated its port at this point and has
\* not yet deferred the function that would free it.
GetFSManager(c) ==
  /\ pc[c] = "fsm"
  /\ \/ Goto(c, CASE call[c].op = "start" -> "create"
                  [] call[c].op = "stop"  -> "stop"
                  [] call[c].op = "reset" -> "snapshot")
     \/ MayFail("pool") /\ Goto(c, "err")
  /\ UNCHANGED <<bind, container, dataset, session, call>>

\* Mutants of the next definition: the session is left in its pool, or in none.
SessionStays(w, target) == UNCHANGED session
SessionNowhere(w, target) == session' = [session EXCEPT ![w].pool = None]

MoveSession(w, target) == session' = [session EXCEPT ![w].pool = target]

\* ResetSession moves the session to the pool of the new snapshot before it
\* touches the clone.
SwitchPool(c) ==
  LET target == PoolOf[call[c].snapshot]
      w == call[c].wrapper
  IN /\ pc[c] = "switch"
     /\ \/ /\ Goto(c, "stop")
           /\ call' = [call EXCEPT ![c].newPool = target]
           /\ MoveSession(w, target)
        \/ /\ target # session[w].pool /\ MayFail("pool")
           /\ Goto(c, "err")
           /\ UNCHANGED <<session, call>>
     /\ UNCHANGED <<bind, container, dataset>>

\* allocatePort, under the mutex of the port pool.
AllocatePort(c) ==
  /\ pc[c] = "port"
  /\ \/ \E p \in Ports :
          /\ Reachable(p)
          /\ bind' = [bind EXCEPT ![p] = TRUE]
          /\ call' = [call EXCEPT ![c].port = p]
          /\ Goto(c, "fsm")
     \/ /\ \/ \A p \in Ports : ~Reachable(p)  \* NoRoomError
           \/ MayFail("port")                  \* the host has no external IP
        /\ Goto(c, "err")
        /\ UNCHANGED <<bind, call>>
  /\ UNCHANGED <<container, dataset, session>>

-----------------------------------------------------------------------------
(* Commands *)

\* fsm.CreateClone: a dataset of that name, in whichever pool, is kept as it
\* is and counts as success.
CreateClone(c) ==
  LET p == call[c].port
      q == call[c].newPool
  IN /\ pc[c] = "create"
     /\ \/ /\ CloneExists(p)
           /\ Goto(c, "run")
           /\ UNCHANGED dataset
        \/ /\ ~CloneExists(p)
           /\ dataset' = [dataset EXCEPT ![q][p] = call[c].snapshot]
           /\ Goto(c, "run")
        \/ /\ MayFail("clone")               \* `zfs clone`, or the chown after it
           /\ \/ UNCHANGED dataset
              \/ /\ ~CloneExists(p)
                 /\ dataset' = [dataset EXCEPT ![q][p] = call[c].snapshot]
           /\ Goto(c, "revertStop")
     /\ UNCHANGED <<bind, container, session, call>>

\* postgres.Start.  `docker run` refuses a name or a port in use.  A failed
\* start may leave the container created or running; one that times out in
\* recovery removes the container and still returns nil.
StartPostgres(c) ==
  LET p == call[c].port
      q == call[c].newPool
      Have(up) == container' = [container EXCEPT ![p] = [pool |-> q, up |-> up]]
  IN /\ pc[c] = "run"
     /\ \/ /\ container[p] = NoContainer /\ p \notin Occupied
           /\ dataset[q][p] # None
           /\ Have(TRUE)
           /\ Goto(c, "prepare")
        \/ /\ container[p] = NoContainer /\ p \notin Occupied
           /\ MayFail("run")
           /\ UNCHANGED container
           /\ Goto(c, "prepare")
        \/ /\ container[p] = NoContainer
           /\ p \in Occupied \/ dataset[q][p] = None \/ MayFail("run")
           /\ \/ \E up \in BOOLEAN : (up => p \notin Occupied) /\ Have(up)
              \/ UNCHANGED container
           /\ Goto(c, "revertStop")
        \/ /\ container[p] # NoContainer
           /\ UNCHANGED container
           /\ Goto(c, "revertStop")
     /\ UNCHANGED <<bind, dataset, session, call>>

\* Mutant: an error of prepareDB is dropped.
PrepareDBUnchecked(c) ==
  /\ pc[c] = "prepare"
  /\ Goto(c, "ok")
  /\ UNCHANGED <<bind, container, dataset, session, call>>

\* prepareDB connects to the clone, so it fails without a running container.
PrepareDB(c) ==
  /\ pc[c] = "prepare"
  /\ \/ container[call[c].port].up /\ Goto(c, "ok")
     \/ /\ MayFail("prepare") \/ ~container[call[c].port].up
        /\ Goto(c, "revertStop")
  /\ UNCHANGED <<bind, container, dataset, session, call>>

\* Mutants: a reset keeps the dataset, a stop frees the port before it.
ResetKeepsDataset(c) == IF call[c].op = "reset" THEN "create" ELSE "destroy"
StopSkipsDataset(c) == IF call[c].op = "reset" THEN "destroy" ELSE "free"

AfterStop(c) == "destroy"

\* postgres.Stop removes the container, and ignores that there is none.
StopPostgres(c) ==
  LET p == call[c].port
  IN /\ pc[c] = "stop"
     /\ \/ /\ container' = [container EXCEPT ![p] = NoContainer]
           /\ Goto(c, AfterStop(c))
        \/ /\ MayFail("rm")
           /\ UNCHANGED container
           /\ Goto(c, IF call[c].op = "reset" THEN "revertStop" ELSE "err")
     /\ UNCHANGED <<bind, dataset, session, call>>

\* What fsm.DestroyClone does to the datasets when it succeeds: nothing if no
\* pool has a dataset of that name, and it removes the one of its own pool.
Destroys(q, p) ==
  /\ CloneExists(p) => dataset[q][p] # None
  /\ dataset' = [dataset EXCEPT ![q][p] = None]

\* The command fails when the only dataset of that name is in another pool,
\* and it may fail while the container still uses the dataset.
DestroyFails(q, p) ==
  /\ CloneExists(p)
  /\ \/ MayFail("destroy")
     \/ dataset[q][p] = None
     \/ container[p] = [pool |-> q, up |-> TRUE]
  /\ UNCHANGED dataset

DestroyClone(c) ==
  LET p == call[c].port
      q == call[c].pool
  IN /\ pc[c] = "destroy"
     /\ \/ /\ Destroys(q, p)
           /\ Goto(c, IF call[c].op = "reset" THEN "create" ELSE "free")
        \/ /\ DestroyFails(q, p)
           /\ Goto(c, IF call[c].op = "reset" THEN "revertStop" ELSE "err")
     /\ UNCHANGED <<bind, container, session, call>>

FreePort(c) ==
  /\ pc[c] \in {"free", "revertFree"}
  /\ bind' = [bind EXCEPT ![call[c].port] = FALSE]
  /\ Goto(c, IF pc[c] = "free" THEN "ok" ELSE "err")
  /\ UNCHANGED <<container, dataset, session, call>>

-----------------------------------------------------------------------------
(* revertSession, deferred: its errors are logged and nothing else. *)

RevertStop(c) ==
  /\ pc[c] = "revertStop"
  /\ \/ container' = [container EXCEPT ![call[c].port] = NoContainer]
     \/ MayFail("rm") /\ UNCHANGED container
  /\ Goto(c, "revertDestroy")
  /\ UNCHANGED <<bind, dataset, session, call>>

\* Mutants: a reverted reset frees the port too, a reverted start keeps it, the
\* dataset is left behind.
RevertFrees(c) == "revertFree"
RevertKeepsPort(c) == "err"

\* Only StartSession has allocated a port to give back.
AfterRevert(c) == IF call[c].op = "start" THEN "revertFree" ELSE "err"

RevertLeavesDataset(c) ==
  /\ pc[c] = "revertDestroy"
  /\ Goto(c, AfterRevert(c))
  /\ UNCHANGED <<bind, container, dataset, session, call>>

RevertDestroy(c) ==
  /\ pc[c] = "revertDestroy"
  /\ \/ Destroys(call[c].newPool, call[c].port)
     \/ DestroyFails(call[c].newPool, call[c].port)
  /\ Goto(c, AfterRevert(c))
  /\ UNCHANGED <<bind, container, session, call>>

-----------------------------------------------------------------------------

ProvisionStep(c) ==
  \/ GetSnapshot(c) \/ GetFSManager(c) \/ SwitchPool(c) \/ AllocatePort(c)
  \/ CreateClone(c) \/ StartPostgres(c) \/ PrepareDB(c)
  \/ StopPostgres(c) \/ DestroyClone(c) \/ FreePort(c)
  \/ RevertStop(c) \/ RevertDestroy(c)

=============================================================================
