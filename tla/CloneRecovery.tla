---------------------------- MODULE CloneRecovery ----------------------------
(***************************************************************************)
(* The cloning service with the file that keeps its clones over a restart  *)
(* (internal/cloning/storage.go) and the steps of Base.Run that read it.   *)
(*                                                                         *)
(* A crash forgets the registry, the sessions, the port pool and every     *)
(* goroutine.  The containers and the datasets stay as they are; a reboot  *)
(* also stops the containers.  The API is served again when Run has ended, *)
(* so nothing runs beside the steps of Run.                                *)
(***************************************************************************)
EXTENDS Cloning

CONSTANTS
  Torn,         \* the content of a file whose writing was interrupted
  TornWrites,   \* may a crash interrupt os.WriteFile?
  MaxSaves      \* bound on the calls of SaveClonesState that wait for the lock

VARIABLES
  file,        \* sessions.json: a saved wrapper for each ID, or Torn
  saves,       \* calls of SaveClonesState in progress
  phase,       \* where the daemon is: serving ("up") or in a step of Run
  unclean,     \* pools that StopAllSessions has not come to yet
  settled      \* history: the snapshots of the clones that were at rest, and
               \* saved as they were, when the daemon went down

recoveryVars == <<vars, file, saves, phase, unclean, settled>>

Entries == [clone : CloneRecords, session : SessionRecords \cup {None}]

\* nil is no saved wrapper, and what cannot be decoded is no saved state.
ASSUME RecoveryAssumption ==
  /\ TornWrites \in BOOLEAN /\ MaxSaves \in Nat
  /\ None \notin Entries /\ Torn \notin [IDs -> Entries \cup {None}]

RecoveryTypeOK ==
  /\ CloningTypeOK
  /\ file \in [IDs -> Entries \cup {None}] \cup {Torn}
  /\ saves \in 0 .. MaxSaves
  /\ phase \in {"up", "restore", "restart", "filter", "cleanup"}
  /\ unclean \subseteq Pools
  /\ settled \in [IDs -> Snapshots \cup {None}]

\* The first start, with no file: RestoreClonesState reads it as no clones.
RecoveryInit ==
  /\ Init
  /\ file = [i \in IDs |-> None]
  /\ saves = 0
  /\ phase = "up"
  /\ unclean = {}
  /\ settled = [i \in IDs |-> None]

-----------------------------------------------------------------------------
(* Serving *)

\* Successful operations end with SaveClonesState, failed ones do not.
Saves ==
  \/ \E c \in Calls : pc[c] = "ok" /\ pc'[c] = "idle"
  \/ \E w \in Wrappers :
       /\ wrapper[w] # None /\ wrapper'[w] # None
       /\ wrapper[w].protected # wrapper'[w].protected

Serve ==
  /\ phase = "up"
  /\ Next
  /\ saves' = IF Saves THEN saves + 1 ELSE saves
  /\ saves' <= MaxSaves
  /\ UNCHANGED <<file, phase, unclean, settled>>

Entry(i) ==
  IF clones[i] = None THEN None
  ELSE [clone |-> wrapper[clones[i]], session |-> session[clones[i]]]

\* saveClonesState, under the lock of the registry; runIdleCheck calls it too,
\* on each of its rounds.
Save ==
  /\ phase = "up"
  /\ \/ saves > 0 /\ saves' = saves - 1
     \/ UNCHANGED saves
  /\ file' = [i \in IDs |-> Entry(i)]
  /\ UNCHANGED <<vars, phase, unclean, settled>>

-----------------------------------------------------------------------------
(* Crashes *)

\* A clone at rest that works as shown.
AtRest(i) == Ready(i) /\ ~Pending(i) /\ Works(clones[i])

ForgetMemory ==
  /\ bind' = [p \in Ports |-> FALSE]
  /\ session' = [w \in Wrappers |-> None]
  /\ pc' = [c \in Calls |-> "idle"]
  /\ call' = [c \in Calls |-> NoCall]
  /\ clones' = [i \in IDs |-> None]
  /\ wrapper' = [w \in Wrappers |-> None]
  /\ handler' = [h \in Goroutines |-> Idle]

\* Any save may be cut off, that of the idle check (which `saves` does not count)
\* as well.
Crash(reboot) ==
  /\ ForgetMemory
  /\ container' = IF reboot THEN [p \in Ports |-> [container[p] EXCEPT !.up = FALSE]]
                  ELSE container
  /\ file' \in IF TornWrites /\ phase = "up" THEN {file, Torn} ELSE {file}
  /\ saves' = 0
  /\ phase' = "restore"
  /\ unclean' = {}
  /\ settled' = IF phase # "up" THEN settled
                ELSE [i \in IDs |-> IF AtRest(i) /\ file' # Torn /\ file[i] = Entry(i)
                                    THEN wrapper[clones[i]].snapshot ELSE None]
  /\ UNCHANGED dataset

\* SIGTERM: the server is shut down, the clones are saved, and the goroutines
\* end with the process.
Shutdown ==
  /\ phase = "up"
  /\ ForgetMemory
  /\ file' = [i \in IDs |-> Entry(i)]
  /\ saves' = 0
  /\ phase' = "restore"
  /\ settled' = [i \in IDs |-> IF AtRest(i) THEN wrapper[clones[i]].snapshot ELSE None]
  /\ UNCHANGED <<container, dataset, unclean>>

-----------------------------------------------------------------------------
(* The steps of Run *)

\* A file that cannot be decoded leaves the registry empty.
RestoreClonesState ==
  LET saved == IF file = Torn THEN [i \in IDs |-> None] ELSE file
      Known == {i \in IDs : saved[i] # None}
  IN /\ phase = "restore"
     /\ phase' = "restart"
     /\ \E w \in [Known -> Wrappers] :
          LET IdIn(v) == CHOOSE i \in Known : w[i] = v
              Used == {w[i] : i \in Known}
          IN /\ \A i, j \in Known : w[i] = w[j] => i = j
             /\ clones' = [i \in IDs |-> IF i \in Known THEN w[i] ELSE None]
             /\ wrapper' = [v \in Wrappers |->
                  IF v \in Used THEN saved[IdIn(v)].clone ELSE None]
             /\ session' = [v \in Wrappers |->
                  IF v \in Used THEN saved[IdIn(v)].session ELSE None]
     /\ UNCHANGED <<bind, container, dataset, pc, call, handler,
                    file, saves, unclean, settled>>

RegisteredPorts ==
  {session[w].port : w \in {v \in Wrappers : session[v] # None}}

\* Mutant: containers that are down stay down.
NeverStarts(p) == FALSE

\* `docker start` on a container that is not running.
CanStart(p) ==
  /\ container[p] # NoContainer /\ p \notin Occupied
  /\ dataset[container[p].pool][p] # None

RestartCloneContainers ==
  /\ phase = "restart"
  /\ phase' = "filter"
  /\ \E failed \in SUBSET RegisteredPorts :
       /\ failed # {} => MayFail("start") /\ \A p \in failed : ~container[p].up
       /\ container' = [p \in Ports |->
            IF p \in RegisteredPorts \ failed /\ CanStart(p)
            THEN [container[p] EXCEPT !.up = TRUE] ELSE container[p]]
       /\ settled' = [i \in IDs |->
            IF clones[i] # None /\ session[clones[i]] # None
                 /\ session[clones[i]].port \in failed
            THEN None ELSE settled[i]]
  /\ UNCHANGED <<bind, dataset, session, pc, call, cloningVars,
                 file, saves, unclean>>

\* Clones that failed, that have no session or whose container is not running
\* are dropped; so are all of them when the snapshots cannot be listed.
FilterRunningClones ==
  LET Runs(w) == session[w] # None /\ wrapper[w].status # "FATAL"
                   /\ container[session[w].port].up
  IN /\ phase = "filter"
     /\ phase' = "cleanup"
     /\ unclean' = Pools
     /\ \E listed \in BOOLEAN :
          /\ listed \/ MayFail("snapshot")
          /\ clones' = [i \in IDs |-> IF clones[i] # None /\ Runs(clones[i]) /\ listed
                                      THEN clones[i] ELSE None]
     /\ UNCHANGED <<bind, container, dataset, pc, call, handler,
                    file, saves, settled>>
     /\ Keep(wrapper, session)

\* Mutant: datasets are not cleaned up.
KeepsDatasets(q) == dataset[q]

\* The datasets of a pool that bear the name of a registered clone.
KeptDatasets(q) ==
  [p \in Ports |-> IF p \in RegisteredPorts THEN dataset[q][p] ELSE None]

\* stopPoolSessions.  An error ends Run, and the daemon: that is a crash before
\* the next step.
StopPoolSessions(q) ==
  /\ phase = "cleanup" /\ q \in unclean
  /\ unclean' = unclean \ {q}
  /\ container' = [p \in Ports |->
       IF container[p].pool = q /\ p \notin RegisteredPorts THEN NoContainer
       ELSE container[p]]
  /\ dataset' = [dataset EXCEPT ![q] = KeptDatasets(q)]
  /\ UNCHANGED <<bind, session, pc, call, cloningVars, file, saves, phase, settled>>

\* Mutant: every port of the pool starts as free.
RevisedFree(p) == FALSE

Revised(p) == Listening(p)

RevisePortPool ==
  /\ phase = "cleanup" /\ unclean = {}
  /\ phase' = "up"
  /\ bind' = [p \in Ports |-> Revised(p)]
  /\ settled' = [i \in IDs |-> None]
  /\ UNCHANGED <<container, dataset, session, pc, call, cloningVars,
                 file, saves, unclean>>

-----------------------------------------------------------------------------

RecoveryNext ==
  \/ Serve \/ Save \/ Shutdown
  \/ \E reboot \in BOOLEAN : Crash(reboot)
  \/ RestoreClonesState \/ RestartCloneContainers \/ FilterRunningClones
  \/ \E q \in Pools : StopPoolSessions(q)
  \/ RevisePortPool

RecoverySpec == RecoveryInit /\ [][RecoveryNext]_recoveryVars

-----------------------------------------------------------------------------
(* Properties *)

\* "Clones survive DLE restarts (including full VM reboots)" (README): a clone
\* that was at rest and saved when the daemon went down is served again, on its
\* own data, when the daemon is up, through any number of crashes of Run, unless
\* Docker could not start its container or the crash has cut off a save.
SettledClonesSurvive ==
  [][phase # "up" /\ phase' = "up" =>
       \A i \in IDs, s \in Snapshots : settled[i] = s =>
         (Ready(i) /\ wrapper[clones[i]].snapshot = s /\ Works(clones[i]))']_recoveryVars

\* Whatever a crash has left half done, when the daemon is up again every
\* container and dataset belongs to a registered clone or to a new call.
NothingLeftBehind == phase = "up" => NoOrphan

\* The port pool is rebuilt from what answers: when the daemon is up again the
\* port of every registered clone is busy, so no new clone is given it.
RestoredPortsHeld ==
  [][phase # "up" /\ phase' = "up" =>
       (\A i \in IDs : clones[i] # None => bind[session[clones[i]].port])']_recoveryVars

=============================================================================
