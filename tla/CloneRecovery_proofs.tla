------------------------ MODULE CloneRecovery_proofs ------------------------
(***************************************************************************)
(* Proofs about CloneRecovery, for any number of IDs, wrappers, calls and  *)
(* crashes: its types, that the ports of restored clones are busy, that    *)
(* clones at rest survive a restart, and that nothing is left behind.      *)
(*                                                                         *)
(* All but the last are proved for clients that do what they like.  That   *)
(* nothing is left behind needs clients that wait: a restored registry     *)
(* then satisfies the invariant of the cloning service, but not all that   *)
(* SerialSessions says of ports, since two saved clones may have the same  *)
(* port.  The proof uses DisciplineInv only, which does without.           *)
(***************************************************************************)
EXTENDS CloneRecovery, Cloning_proofs

-----------------------------------------------------------------------------
(* The inductive invariant *)

\* No goroutine is at work: the state in which Run works on the registry.
Quiet ==
  /\ \A c \in Calls : pc[c] = "idle" /\ call[c] = NoCall
  /\ \A h \in Goroutines : handler[h] = Idle

SavedWrapper(i, e) == e.clone.id = i

FileInv ==
  file # Torn => \A i \in IDs : file[i] # None => SavedWrapper(i, file[i])

\* A wrapper exists as long as it is registered, under its ID.
KnownInv ==
  /\ \A i \in IDs : clones[i] # None =>
       wrapper[clones[i]] # None /\ wrapper[clones[i]].id = i
  /\ \A w \in Wrappers : ~Registered(w) => wrapper[w] = None /\ session[w] = None

\* The daemon does nothing else while it comes up, and begins with nothing.
DownInv == KnownInv /\ Quiet /\ saves = 0

RecoveryInv ==
  /\ RecoveryTypeOK
  /\ FileInv
  /\ phase = "up" => TypedInv
  /\ phase # "up" => DownInv

\* A registry that nobody works on satisfies the invariant of the cloning
\* service, whatever statuses its clones have.
LEMMA QuietTyped == CloningTypeOK /\ KnownInv /\ Quiet => TypedInv
<1> SUFFICES ASSUME CloningTypeOK, KnownInv, Quiet
             PROVE  TypedInv
  OBVIOUS
<1>1. \A c \in Calls : Registers(c)
  BY DEF Quiet, Registers
<1>2. \A h \in Goroutines : Locals(h)
  BY DEF Quiet, Locals, Idle
<1>3. ASSUME NEW w \in Wrappers, Referenced(w)
      PROVE  wrapper[w] # None
  <2>1. \E i \in IDs : clones[i] = w
    BY <1>3, ProvisionAssumption DEF Referenced, Quiet, Idle
  <2> QED
    BY <2>1, ProvisionAssumption DEF KnownInv
<1> QED
  BY <1>1, <1>2, <1>3 DEF TypedInv, KnownInv

LEMMA QuietNext ==
  ASSUME CloningTypeOK', KnownInv', Quiet'
  PROVE  TypedInv'
BY QuietTyped, PTL

-----------------------------------------------------------------------------
(* Serving, saving and crashes *)

LEMMA InitRecovery == RecoveryInit => RecoveryInv
<1> SUFFICES ASSUME RecoveryInit PROVE RecoveryInv
  OBVIOUS
<1>1. TypedInv
  BY InitTyped DEF RecoveryInit
<1>2. RecoveryTypeOK
  BY <1>1, RecoveryAssumption DEF RecoveryInit, RecoveryTypeOK, TypedInv
<1>3. FileInv
  BY DEF RecoveryInit, FileInv
<1> QED
  BY <1>1, <1>2, <1>3 DEF RecoveryInit, RecoveryInv

LEMMA ServeRecovery ==
  ASSUME RecoveryInv, Serve
  PROVE  RecoveryInv'
<1>1. phase = "up" /\ Next /\ UNCHANGED <<file, phase, unclean, settled>>
  BY DEF Serve
<1>2. TypedInv'
  BY <1>1, NextTyped DEF RecoveryInv
<1>3. saves' \in 0 .. MaxSaves
  BY RecoveryAssumption DEF Serve, RecoveryInv, RecoveryTypeOK
<1>4. RecoveryTypeOK'
  BY <1>1, <1>2, <1>3 DEF RecoveryInv, RecoveryTypeOK, TypedInv
<1>5. FileInv'
  BY <1>1 DEF RecoveryInv, FileInv, SavedWrapper
<1> QED
  BY <1>1, <1>2, <1>4, <1>5 DEF RecoveryInv

\* What saveClonesState writes.
LEMMA EntryOf ==
  ASSUME RecoveryInv, phase = "up", NEW i \in IDs
  PROVE  /\ Entry(i) \in Entries \cup {None}
         /\ Entry(i) # None =>
              /\ clones[i] # None
              /\ Entry(i) = [clone |-> wrapper[clones[i]], session |-> session[clones[i]]]
              /\ SavedWrapper(i, Entry(i))
<1>1. CASE clones[i] = None
  BY <1>1 DEF Entry
<1>2. CASE clones[i] # None
  <2> DEFINE w == clones[i]
  <2>1. /\ w \in Wrappers /\ wrapper[w] \in CloneRecords /\ wrapper[w].id = i
        /\ session[w] \in SessionRecords \cup {None}
    BY <1>2, TypedFacts DEF RecoveryInv
  <2>2. Entry(i) = [clone |-> wrapper[w], session |-> session[w]]
    BY <1>2 DEF Entry
  <2> HIDE DEF w
  <2>3. Entry(i) \in Entries /\ Entry(i).clone = wrapper[w] /\ Entry(i).session = session[w]
    BY <2>1, <2>2 DEF Entries
  <2> QED
    BY <1>2, <2>1, <2>2, <2>3 DEF SavedWrapper, w
<1> QED
  BY <1>1, <1>2

LEMMA SavedFile ==
  ASSUME RecoveryInv, phase = "up", file' = [i \in IDs |-> Entry(i)]
  PROVE  file' \in [IDs -> Entries \cup {None}] /\ FileInv'
<1>1. \A i \in IDs : file'[i] = Entry(i)
  OBVIOUS
<1>2. file' \in [IDs -> Entries \cup {None}]
  BY EntryOf
<1>3. FileInv'
  BY <1>1, EntryOf DEF FileInv, SavedWrapper
<1> QED
  BY <1>2, <1>3

LEMMA SaveRecovery ==
  ASSUME RecoveryInv, Save
  PROVE  RecoveryInv'
<1>1. phase = "up" /\ UNCHANGED <<vars, phase, unclean, settled>>
  BY DEF Save
<1>2. TypedInv'
  BY <1>1, NextTyped DEF RecoveryInv
<1>3. saves' \in 0 .. MaxSaves
  BY RecoveryAssumption DEF Save, RecoveryInv, RecoveryTypeOK
<1>4. file' \in [IDs -> Entries \cup {None}] /\ FileInv'
  BY <1>1, SavedFile DEF Save
<1>5. RecoveryTypeOK'
  BY <1>1, <1>2, <1>3, <1>4 DEF RecoveryInv, RecoveryTypeOK, TypedInv
<1> QED
  BY <1>1, <1>2, <1>4, <1>5 DEF RecoveryInv

LEMMA Forgotten ==
  ASSUME RecoveryInv, ForgetMemory, container' \in [Ports -> Containers], UNCHANGED dataset
  PROVE  CloningTypeOK' /\ KnownInv' /\ Quiet'
<1>1. CloningTypeOK'
  BY DEF RecoveryInv, RecoveryTypeOK, CloningTypeOK, ProvisionTypeOK, ForgetMemory,
     NoCall, CallRecords, Steps, Idle, HandlerRecords
<1>2. KnownInv'
  BY ProvisionAssumption DEF ForgetMemory, KnownInv
<1>3. Quiet'
  BY DEF ForgetMemory, Quiet
<1> QED
  BY <1>1, <1>2, <1>3

\* A reboot stops the containers, and takes nothing away.
Rebooted == [p \in Ports |-> [container[p] EXCEPT !.up = FALSE]]

LEMMA RebootedContainers ==
  ASSUME container \in [Ports -> Containers]
  PROVE  /\ Rebooted \in [Ports -> Containers]
         /\ \A p \in Ports : Rebooted[p].pool = container[p].pool /\ ~Rebooted[p].up
<1>1. ASSUME NEW p \in Ports
      PROVE  /\ Rebooted[p] \in Containers
             /\ Rebooted[p].pool = container[p].pool /\ ~Rebooted[p].up
  <2>1. container[p] \in Containers
    OBVIOUS
  <2>2. Rebooted[p] = [container[p] EXCEPT !.up = FALSE]
    BY DEF Rebooted
  <2> QED
    BY <2>1, <2>2 DEF Containers
<1> QED
  BY <1>1 DEF Rebooted

LEMMA CrashRecovery ==
  ASSUME RecoveryInv, Shutdown \/ \E reboot \in BOOLEAN : Crash(reboot)
  PROVE  RecoveryInv'
<1>1. container \in [Ports -> Containers]
  BY DEF RecoveryInv, RecoveryTypeOK, CloningTypeOK, ProvisionTypeOK
<1>2. ASSUME NEW i \in IDs, phase = "up", AtRest(i)
      PROVE  wrapper[clones[i]].snapshot \in Snapshots
  BY <1>2, TypedFacts DEF AtRest, Ready, RecoveryInv, CloneRecords
<1>3. CASE Shutdown
  <2>1. CloningTypeOK' /\ KnownInv' /\ Quiet'
    BY <1>1, <1>3, Forgotten DEF Shutdown
  <2>2. file' \in [IDs -> Entries \cup {None}] /\ FileInv'
    BY <1>3, SavedFile DEF Shutdown
  <2>3. settled' \in [IDs -> Snapshots \cup {None}]
    BY <1>2, <1>3 DEF Shutdown
  <2>4. RecoveryTypeOK'
    BY <1>3, <2>1, <2>2, <2>3, RecoveryAssumption DEF Shutdown, RecoveryInv, RecoveryTypeOK
  <2> QED
    BY <1>3, <2>1, <2>2, <2>4 DEF Shutdown, RecoveryInv, DownInv
<1>4. ASSUME NEW reboot \in BOOLEAN, Crash(reboot)
      PROVE  RecoveryInv'
  <2>1. CloningTypeOK' /\ KnownInv' /\ Quiet'
    <3>1. container' \in [Ports -> Containers]
      BY <1>1, <1>4, RebootedContainers DEF Crash, Rebooted
    <3> QED
      BY <1>4, <3>1, Forgotten DEF Crash
  <2>2. file' \in [IDs -> Entries \cup {None}] \cup {Torn} /\ FileInv'
    BY <1>4 DEF Crash, RecoveryInv, RecoveryTypeOK, FileInv, SavedWrapper
  <2>3. settled' \in [IDs -> Snapshots \cup {None}]
    <3>1. CASE phase # "up"
      BY <1>4, <3>1 DEF Crash, RecoveryInv, RecoveryTypeOK
    <3>2. CASE phase = "up"
      BY <1>2, <1>4, <3>2 DEF Crash
    <3> QED
      BY <3>1, <3>2
  <2>4. RecoveryTypeOK'
    BY <1>4, <2>1, <2>2, <2>3, RecoveryAssumption DEF Crash, RecoveryTypeOK
  <2> QED
    BY <1>4, <2>1, <2>2, <2>4 DEF Crash, RecoveryInv, DownInv
<1> QED
  BY <1>3, <1>4
-----------------------------------------------------------------------------
(* The steps of Run *)

\* A step of Run that leaves the file alone leads to a good state if the
\* registry it makes is one.
LEMMA RunStep ==
  ASSUME RecoveryInv, phase # "up", CloningTypeOK', KnownInv',
         UNCHANGED <<pc, call, handler, file, saves>>,
         phase' \in {"up", "restore", "restart", "filter", "cleanup"},
         unclean' \subseteq Pools, settled' \in [IDs -> Snapshots \cup {None}]
  PROVE  RecoveryInv'
<1>1. Quiet' /\ saves' = 0
  BY DEF RecoveryInv, DownInv, Quiet
<1>2. TypedInv'
  BY <1>1, QuietNext
<1>3. RecoveryTypeOK' /\ FileInv'
  BY DEF RecoveryInv, RecoveryTypeOK, FileInv, SavedWrapper
<1> QED
  BY <1>1, <1>2, <1>3 DEF RecoveryInv, DownInv

\* What RestoreClonesState makes of the file: every saved wrapper is registered
\* again, under its ID.
LEMMA RestoredRegistry ==
  ASSUME RecoveryInv, RestoreClonesState
  PROVE  /\ phase = "restore" /\ phase' = "restart"
         /\ CloningTypeOK' /\ KnownInv'
         /\ \A i \in IDs : clones'[i] # None => file # Torn /\ file[i] # None
         /\ file # Torn => \A i \in IDs : file[i] # None =>
              /\ clones'[i] # None
              /\ wrapper'[clones'[i]] = file[i].clone
              /\ session'[clones'[i]] = file[i].session
<1> DEFINE saved == IF file = Torn THEN [i \in IDs |-> None] ELSE file
           Known == {i \in IDs : saved[i] # None}
<1>1. /\ saved \in [IDs -> Entries \cup {None}]
      /\ \A i \in Known : saved[i] \in Entries /\ SavedWrapper(i, saved[i])
  <2>1. saved \in [IDs -> Entries \cup {None}]
    BY DEF RecoveryInv, RecoveryTypeOK
  <2>2. ASSUME NEW i \in Known
        PROVE  saved[i] \in Entries /\ SavedWrapper(i, saved[i])
    <3>1. file # Torn /\ saved = file /\ file[i] # None
      BY <2>2
    <3>2. SavedWrapper(i, file[i])
      BY <2>2, <3>1 DEF RecoveryInv, FileInv
    <3> QED
      BY <2>1, <2>2, <3>1, <3>2
  <2> QED
    BY <2>1, <2>2
<1>2. PICK w \in [Known -> Wrappers] :
        LET IdIn(v) == CHOOSE i \in Known : w[i] = v
            Used == {w[i] : i \in Known}
        IN /\ \A i, j \in Known : w[i] = w[j] => i = j
           /\ clones' = [i \in IDs |-> IF i \in Known THEN w[i] ELSE None]
           /\ wrapper' = [v \in Wrappers |->
                IF v \in Used THEN saved[IdIn(v)].clone ELSE None]
           /\ session' = [v \in Wrappers |->
                IF v \in Used THEN saved[IdIn(v)].session ELSE None]
  BY DEF RestoreClonesState
<1> DEFINE IdIn(v) == CHOOSE i \in Known : w[i] = v
           Used == {w[i] : i \in Known}
<1>3. ASSUME NEW i \in Known
      PROVE  w[i] \in Wrappers /\ w[i] \in Used /\ IdIn(w[i]) = i
  BY <1>2, <1>3
<1>4. /\ Known \subseteq IDs
      /\ \A i \in IDs : clones'[i] = IF i \in Known THEN w[i] ELSE None
      /\ \A v \in Wrappers \ Used : wrapper'[v] = None /\ session'[v] = None
      /\ clones' \in [IDs -> Wrappers \cup {None}]
  BY <1>2
<1>5. \A i \in Known : /\ wrapper'[w[i]] = saved[i].clone
                       /\ session'[w[i]] = saved[i].session
  BY <1>2, <1>3
<1>6. /\ wrapper' = [v \in Wrappers |-> wrapper'[v]]
      /\ session' = [v \in Wrappers |-> session'[v]]
  BY <1>2
<1>7. \A v \in Used : \E i \in Known : v = w[i]
  OBVIOUS
<1>8. file # Torn => saved = file
  OBVIOUS
<1>9. /\ \A i \in IDs : i \in Known <=> saved[i] # None
      /\ file = Torn => Known = {}
  OBVIOUS
<1> HIDE DEF saved, Known, IdIn, Used
<1>10. \A i \in Known :
         /\ saved[i].clone \in CloneRecords
         /\ saved[i].session \in SessionRecords \cup {None}
         /\ saved[i].clone.id = i
  BY <1>1 DEF Entries, SavedWrapper
<1>11. \A v \in Wrappers : /\ wrapper'[v] \in CloneRecords \cup {None}
                           /\ session'[v] \in SessionRecords \cup {None}
  BY <1>4, <1>5, <1>7, <1>10
<1>12. CloningTypeOK'
  <2>1. /\ wrapper' \in [Wrappers -> CloneRecords \cup {None}]
        /\ session' \in [Wrappers -> SessionRecords \cup {None}]
    BY <1>6, <1>11
  <2> QED
    BY <1>4, <2>1 DEF RestoreClonesState, RecoveryInv, RecoveryTypeOK, CloningTypeOK,
       ProvisionTypeOK
<1>13. KnownInv'
  <2>1. ASSUME NEW i \in IDs, clones'[i] # None
        PROVE  wrapper'[clones'[i]] # None /\ wrapper'[clones'[i]].id = i
    <3>1. i \in Known /\ clones'[i] = w[i]
      BY <1>4, <2>1
    <3> QED
      BY <1>5, <1>10, <3>1, RecordsAssumption
  <2>2. ASSUME NEW v \in Wrappers, ~(\E i \in IDs : clones'[i] = v)
        PROVE  wrapper'[v] = None /\ session'[v] = None
    <3>1. v \notin Used
      BY <1>4, <1>7, <2>2
    <3> QED
      BY <1>4, <3>1
  <2> QED
    BY <2>1, <2>2 DEF KnownInv, Registered
<1>14. ASSUME file # Torn, NEW i \in IDs, file[i] # None
       PROVE  /\ clones'[i] # None
              /\ wrapper'[clones'[i]] = file[i].clone
              /\ session'[clones'[i]] = file[i].session
  <2>1. i \in Known /\ clones'[i] = w[i] /\ w[i] \in Wrappers
    BY <1>3, <1>4, <1>8, <1>9, <1>14
  <2> QED
    BY <1>5, <1>8, <1>14, <2>1, ProvisionAssumption
<1>15. \A i \in IDs : clones'[i] # None => file # Torn /\ file[i] # None
  BY <1>4, <1>8, <1>9
<1> QED
  BY <1>12, <1>13, <1>14, <1>15 DEF RestoreClonesState

LEMMA RestoreRecovery ==
  ASSUME RecoveryInv, RestoreClonesState
  PROVE  RecoveryInv'
<1>1. CloningTypeOK' /\ KnownInv'
  BY RestoredRegistry
<1> QED
  BY <1>1, RunStep DEF RestoreClonesState, RecoveryInv, RecoveryTypeOK

\* What `docker start` does to the containers.
LEMMA RestartedContainers ==
  ASSUME RecoveryInv, RestartCloneContainers
  PROVE  /\ container' \in [Ports -> Containers]
         /\ \A p \in Ports : container'[p].pool = container[p].pool
         /\ \A p \in Ports : container[p].up => container'[p].up
         /\ \A p \in Ports : container'[p].up => container[p].up \/ p \notin Occupied
<1>1. container \in [Ports -> Containers]
  BY DEF RecoveryInv, RecoveryTypeOK, CloningTypeOK, ProvisionTypeOK
<1>2. PICK S \in SUBSET Ports :
        container' = [p \in Ports |->
          IF p \in S THEN [container[p] EXCEPT !.up = TRUE] ELSE container[p]]
          /\ \A p \in S : p \notin Occupied
  <2>1. PICK failed \in SUBSET RegisteredPorts :
          container' = [p \in Ports |->
            IF p \in RegisteredPorts \ failed /\ CanStart(p)
            THEN [container[p] EXCEPT !.up = TRUE] ELSE container[p]]
    BY DEF RestartCloneContainers
  <2> DEFINE S == {p \in Ports : p \in RegisteredPorts \ failed /\ CanStart(p)}
  <2>2. S \in SUBSET Ports /\ \A p \in S : p \notin Occupied
    BY DEF CanStart
  <2>3. container' = [p \in Ports |->
          IF p \in S THEN [container[p] EXCEPT !.up = TRUE] ELSE container[p]]
    BY <2>1
  <2> QED
    BY <2>2, <2>3
<1>3. ASSUME NEW p \in Ports
      PROVE  /\ container'[p] \in Containers
             /\ container'[p].pool = container[p].pool
             /\ container[p].up => container'[p].up
             /\ container'[p].up => container[p].up \/ p \notin Occupied
  <2>1. container[p] \in Containers
    BY <1>1
  <2>2. CASE p \notin S
    BY <1>2, <2>1, <2>2
  <2>3. CASE p \in S
    <3>1. container'[p] = [container[p] EXCEPT !.up = TRUE] /\ p \notin Occupied
      BY <1>2, <2>3
    <3> QED
      BY <2>1, <3>1 DEF Containers
  <2> QED
    BY <2>2, <2>3
<1>4. container' = [p \in Ports |-> container'[p]]
  BY <1>2
<1> QED
  BY <1>3, <1>4

LEMMA RestartRecovery ==
  ASSUME RecoveryInv, RestartCloneContainers
  PROVE  RecoveryInv'
<1>1. /\ phase = "restart" /\ phase' = "filter"
      /\ UNCHANGED <<bind, dataset, session, pc, call, cloningVars, file, saves, unclean>>
  BY DEF RestartCloneContainers
<1>2. CloningTypeOK'
  BY <1>1, RestartedContainers DEF RecoveryInv, RecoveryTypeOK, CloningTypeOK,
     ProvisionTypeOK, cloningVars
<1>3. KnownInv'
  BY <1>1 DEF RecoveryInv, DownInv, KnownInv, Registered, cloningVars
<1>4. settled' \in [IDs -> Snapshots \cup {None}]
  BY DEF RestartCloneContainers, RecoveryInv, RecoveryTypeOK
<1> QED
  BY <1>1, <1>2, <1>3, <1>4, RunStep DEF RecoveryInv, RecoveryTypeOK, cloningVars
Runs(w) == /\ session[w] # None /\ wrapper[w].status # "FATAL"
           /\ container[session[w].port].up

\* FilterRunningClones drops clones and leaves the others as they are.
LEMMA FilteredRegistry ==
  ASSUME RecoveryInv, FilterRunningClones
  PROVE  /\ phase = "filter" /\ phase' = "cleanup"
         /\ \A i \in IDs : clones'[i] = clones[i] \/ clones'[i] = None
         /\ \A i \in IDs : clones'[i] # None => Runs(clones[i])
         /\ \A i \in IDs : clones[i] # None /\ Runs(clones[i]) /\ "snapshot" \notin Faults
              => clones'[i] = clones[i]
         /\ \A w \in Wrappers : Registered(w)' =>
              wrapper'[w] = wrapper[w] /\ session'[w] = session[w]
         /\ CloningTypeOK' /\ KnownInv'
<1>1. PICK listed \in BOOLEAN :
        /\ listed \/ MayFail("snapshot")
        /\ clones' = [i \in IDs |-> IF clones[i] # None /\ Runs(clones[i]) /\ listed
                                    THEN clones[i] ELSE None]
  BY DEF FilterRunningClones, Runs
<1>2. /\ \A i \in IDs : clones'[i] = clones[i] \/ clones'[i] = None
      /\ \A i \in IDs : clones'[i] # None => Runs(clones[i])
      /\ \A i \in IDs : clones[i] # None /\ Runs(clones[i]) /\ "snapshot" \notin Faults
           => clones'[i] = clones[i]
      /\ clones' \in [IDs -> Wrappers \cup {None}]
  BY <1>1 DEF MayFail, RecoveryInv, RecoveryTypeOK, CloningTypeOK
<1>3. ASSUME NEW w \in Wrappers
      PROVE  Referenced(w)' <=> Registered(w)'
  <2>1. /\ \A c \in Calls : pc'[c] = "idle"
        /\ \A h \in Goroutines : handler'[h].wrapper = None
    BY DEF FilterRunningClones, RecoveryInv, DownInv, Quiet, Idle
  <2> QED
    BY <2>1, ProvisionAssumption DEF Referenced, Registered
<1>4. /\ wrapper' = [w \in Wrappers |-> wrapper'[w]]
      /\ session' = [w \in Wrappers |-> session'[w]]
      /\ \A w \in Wrappers : Registered(w)' =>
           wrapper'[w] = wrapper[w] /\ session'[w] = session[w]
      /\ \A w \in Wrappers : ~Registered(w)' => wrapper'[w] = None /\ session'[w] = None
  BY <1>3 DEF FilterRunningClones, Keep
<1>5. CloningTypeOK'
  <2>1. /\ \A w \in Wrappers : wrapper'[w] \in CloneRecords \cup {None}
        /\ \A w \in Wrappers : session'[w] \in SessionRecords \cup {None}
    BY <1>4 DEF RecoveryInv, RecoveryTypeOK, CloningTypeOK, ProvisionTypeOK
  <2>2. /\ wrapper' \in [Wrappers -> CloneRecords \cup {None}]
        /\ session' \in [Wrappers -> SessionRecords \cup {None}]
    BY <1>4, <2>1
  <2> QED
    BY <1>2, <2>2 DEF FilterRunningClones, RecoveryInv, RecoveryTypeOK, CloningTypeOK,
       ProvisionTypeOK
<1>6. KnownInv'
  <2>1. KnownInv /\ clones \in [IDs -> Wrappers \cup {None}]
    BY DEF FilterRunningClones, RecoveryInv, DownInv, RecoveryTypeOK, CloningTypeOK
  <2>2. ASSUME NEW i \in IDs, clones'[i] # None
        PROVE  wrapper'[clones'[i]] # None /\ wrapper'[clones'[i]].id = i
    <3>1. clones'[i] = clones[i] /\ clones[i] \in Wrappers /\ Registered(clones[i])'
      BY <1>2, <2>1, <2>2 DEF Registered
    <3> QED
      BY <1>4, <2>1, <2>2, <3>1 DEF KnownInv
  <2> QED
    BY <1>4, <2>2 DEF KnownInv
<1> QED
  BY <1>2, <1>4, <1>5, <1>6 DEF FilterRunningClones

LEMMA FilterRecovery ==
  ASSUME RecoveryInv, FilterRunningClones
  PROVE  RecoveryInv'
<1>1. CloningTypeOK' /\ KnownInv'
  BY FilteredRegistry
<1> QED
  BY <1>1, RunStep DEF FilterRunningClones, RecoveryInv, RecoveryTypeOK

\* StopAllSessions takes only away what no registered clone has.
LEMMA CleanedPool ==
  ASSUME RecoveryInv, NEW q \in Pools, StopPoolSessions(q)
  PROVE  /\ container' \in [Ports -> Containers]
         /\ dataset' \in [Pools -> [Ports -> Snapshots \cup {None}]]
         /\ \A p \in RegisteredPorts \cap Ports :
              /\ container'[p] = container[p]
              /\ \A r \in Pools : dataset'[r][p] = dataset[r][p]
<1>1. /\ container \in [Ports -> Containers]
      /\ dataset \in [Pools -> [Ports -> Snapshots \cup {None}]]
  BY DEF RecoveryInv, RecoveryTypeOK, CloningTypeOK, ProvisionTypeOK
<1>2. NoContainer \in Containers
  BY DEF NoContainer, Containers
<1>3. /\ container' = [p \in Ports |->
           IF container[p].pool = q /\ p \notin RegisteredPorts THEN NoContainer
           ELSE container[p]]
      /\ dataset' = [dataset EXCEPT ![q] = KeptDatasets(q)]
  BY DEF StopPoolSessions
<1>4. /\ KeptDatasets(q) \in [Ports -> Snapshots \cup {None}]
      /\ \A p \in RegisteredPorts \cap Ports : KeptDatasets(q)[p] = dataset[q][p]
  BY <1>1 DEF KeptDatasets
<1> QED
  BY <1>1, <1>2, <1>3, <1>4

LEMMA CleanRecovery ==
  ASSUME RecoveryInv, NEW q \in Pools, StopPoolSessions(q)
  PROVE  RecoveryInv'
<1>1. /\ phase = "cleanup"
      /\ UNCHANGED <<bind, session, pc, call, cloningVars, file, saves, phase, settled>>
      /\ unclean' = unclean \ {q}
  BY DEF StopPoolSessions
<1>2. CloningTypeOK'
  BY <1>1, CleanedPool DEF RecoveryInv, RecoveryTypeOK, CloningTypeOK, ProvisionTypeOK,
     cloningVars
<1>3. KnownInv'
  BY <1>1 DEF RecoveryInv, DownInv, KnownInv, Registered, cloningVars
<1> QED
  BY <1>1, <1>2, <1>3, RunStep DEF RecoveryInv, RecoveryTypeOK, cloningVars

LEMMA ReviseRecovery ==
  ASSUME RecoveryInv, RevisePortPool
  PROVE  RecoveryInv'
<1>1. /\ phase = "cleanup" /\ phase' = "up"
      /\ UNCHANGED <<container, dataset, session, pc, call, cloningVars, file, saves,
                     unclean>>
      /\ settled' = [i \in IDs |-> None]
  BY DEF RevisePortPool
<1>2. bind' \in [Ports -> BOOLEAN]
  <2>1. \A p \in Ports : Revised(p) \in BOOLEAN
    BY DEF Revised, Listening, RecoveryInv, RecoveryTypeOK, CloningTypeOK,
       ProvisionTypeOK, Containers
  <2> QED
    BY <2>1 DEF RevisePortPool
<1>3. CloningTypeOK'
  BY <1>1, <1>2 DEF RecoveryInv, RecoveryTypeOK, CloningTypeOK, ProvisionTypeOK,
     cloningVars
<1>4. KnownInv'
  BY <1>1 DEF RecoveryInv, DownInv, KnownInv, Registered, cloningVars
<1> QED
  BY <1>1, <1>3, <1>4, RunStep DEF RecoveryInv, RecoveryTypeOK, cloningVars

-----------------------------------------------------------------------------

LEMMA NextRecovery ==
  RecoveryInv /\ [RecoveryNext]_recoveryVars => RecoveryInv'
<1> SUFFICES ASSUME RecoveryInv, [RecoveryNext]_recoveryVars PROVE RecoveryInv'
  OBVIOUS
<1>1. CASE UNCHANGED recoveryVars
  <2>1. UNCHANGED <<vars, file, saves, phase, unclean, settled>>
    BY <1>1 DEF recoveryVars
  <2>2. CASE phase = "up"
    <3>1. TypedInv'
      BY <2>1, <2>2, NextTyped DEF RecoveryInv
    <3> QED
      BY <2>1, <2>2, <3>1 DEF RecoveryInv, RecoveryTypeOK, TypedInv, FileInv, SavedWrapper
  <2>3. CASE phase # "up"
    <3>1. CloningTypeOK'
      BY <2>1 DEF vars, provisionVars, cloningVars, RecoveryInv, RecoveryTypeOK,
         CloningTypeOK, ProvisionTypeOK
    <3>2. KnownInv'
      BY <2>1, <2>3 DEF vars, provisionVars, cloningVars, RecoveryInv, DownInv,
         KnownInv, Registered
    <3> QED
      BY <2>1, <2>3, <3>1, <3>2, RunStep
         DEF vars, provisionVars, cloningVars, RecoveryInv, RecoveryTypeOK
  <2> QED
    BY <2>2, <2>3
<1>2. CASE Serve \/ Save
  BY <1>2, ServeRecovery, SaveRecovery
<1>3. CASE Shutdown \/ \E reboot \in BOOLEAN : Crash(reboot)
  BY <1>3, CrashRecovery
<1>4. CASE RestoreClonesState \/ RestartCloneContainers \/ FilterRunningClones
  BY <1>4, RestoreRecovery, RestartRecovery, FilterRecovery
<1>5. CASE RevisePortPool \/ \E q \in Pools : StopPoolSessions(q)
  BY <1>5, CleanRecovery, ReviseRecovery
<1> QED
  BY <1>1, <1>2, <1>3, <1>4, <1>5 DEF RecoveryNext

LEMMA RecoveryHolds == RecoverySpec => []RecoveryInv
BY InitRecovery, NextRecovery, PTL DEF RecoverySpec

\* The registry, the file and what Run makes of it keep their types, over any
\* number of crashes, wherever they happen, and whatever the clients do.
THEOREM RecoveryTypes == RecoverySpec => []RecoveryTypeOK
<1>1. RecoveryInv => RecoveryTypeOK
  BY DEF RecoveryInv
<1> QED
  BY <1>1, RecoveryHolds, PTL
-----------------------------------------------------------------------------
(* The ports of restored clones *)

\* The clones that are left when Run cleans up do run.
RunningInv ==
  phase = "cleanup" => \A i \in IDs : clones[i] # None => Runs(clones[i])

\* The session of a registered clone, and what StopAllSessions spares.
LEMMA RegisteredSession ==
  ASSUME RecoveryInv, NEW i \in IDs, clones[i] # None, session[clones[i]] # None
  PROVE  /\ clones[i] \in Wrappers /\ wrapper[clones[i]] \in CloneRecords \cup {None}
         /\ session[clones[i]] \in SessionRecords
         /\ session[clones[i]].port \in RegisteredPorts \cap Ports
         /\ session[clones[i]].pool \in Pools
BY DEF RecoveryInv, RecoveryTypeOK, CloningTypeOK, ProvisionTypeOK, SessionRecords,
   RegisteredPorts

LEMMA InitRunning == RecoveryInit => RunningInv
BY DEF RecoveryInit, RunningInv

LEMMA NextRunning ==
  RecoveryInv /\ RunningInv /\ [RecoveryNext]_recoveryVars => RunningInv'
<1> SUFFICES ASSUME RecoveryInv, RunningInv, [RecoveryNext]_recoveryVars, phase' = "cleanup",
                    NEW i \in IDs, clones'[i] # None
             PROVE  Runs(clones[i])'
  BY DEF RunningInv
<1>1. CASE UNCHANGED recoveryVars
  BY <1>1 DEF recoveryVars, vars, provisionVars, cloningVars, RunningInv, Runs
<1>2. CASE FilterRunningClones
  <2>1. clones'[i] = clones[i] /\ Runs(clones[i]) /\ UNCHANGED container
    BY <1>2, FilteredRegistry DEF FilterRunningClones
  <2>2. PICK w \in Wrappers : w = clones[i]
    BY <1>2, FilteredRegistry DEF RecoveryInv, RecoveryTypeOK, CloningTypeOK
  <2>3. wrapper'[w] = wrapper[w] /\ session'[w] = session[w]
    <3>1. Registered(w)'
      BY <2>1, <2>2 DEF Registered
    <3> QED
      BY <1>2, <3>1, FilteredRegistry
  <2> QED
    BY <2>1, <2>2, <2>3 DEF Runs
<1>3. ASSUME NEW q \in Pools, StopPoolSessions(q)
      PROVE  Runs(clones[i])'
  <2>1. phase = "cleanup" /\ UNCHANGED <<clones, wrapper, session>>
    BY <1>3 DEF StopPoolSessions, cloningVars
  <2>2. Runs(clones[i]) /\ session[clones[i]].port \in RegisteredPorts \cap Ports
    BY <2>1, RegisteredSession DEF RunningInv, Runs
  <2>3. container'[session[clones[i]].port] = container[session[clones[i]].port]
    BY <1>3, <2>2, CleanedPool
  <2> QED
    BY <2>1, <2>2, <2>3 DEF Runs
<1>4. CASE Serve \/ Save \/ Shutdown \/ \E reboot \in BOOLEAN : Crash(reboot)
  BY <1>4 DEF Serve, Save, Shutdown, Crash
<1>5. CASE RestoreClonesState \/ RestartCloneContainers \/ RevisePortPool
  BY <1>5 DEF RestoreClonesState, RestartCloneContainers, RevisePortPool
<1> QED
  BY <1>1, <1>2, <1>3, <1>4, <1>5 DEF RecoveryNext

\* The daemon comes up with RevisePortPool.
LEMMA ComesUp ==
  ASSUME [RecoveryNext]_recoveryVars, phase # "up", phase' = "up"
  PROVE  /\ phase = "cleanup" /\ unclean = {}
         /\ bind' = [p \in Ports |-> Listening(p)]
         /\ UNCHANGED <<container, dataset, session, clones, wrapper>>
<1>1. RevisePortPool
  BY DEF RecoveryNext, recoveryVars, Serve, Save, Shutdown, Crash, RestoreClonesState,
     RestartCloneContainers, FilterRunningClones, StopPoolSessions
<1> QED
  BY <1>1 DEF RevisePortPool, Revised, cloningVars

\* When the daemon is up again, the port of every clone that it serves is busy,
\* whatever its clients and its own goroutines were doing when it went down.
THEOREM PortsAreHeldAgain == RecoverySpec => RestoredPortsHeld
<1> DEFINE Held == \A i \in IDs : clones[i] # None => bind[session[clones[i]].port]
<1>1. RecoveryInv /\ RunningInv /\ [RecoveryNext]_recoveryVars
        => (phase # "up" /\ phase' = "up" => Held')
  <2> SUFFICES ASSUME RecoveryInv, RunningInv, [RecoveryNext]_recoveryVars,
                      phase # "up", phase' = "up", NEW i \in IDs, clones'[i] # None
               PROVE  bind'[session'[clones'[i]].port]
    OBVIOUS
  <2>1. clones'[i] = clones[i] /\ session' = session /\ Runs(clones[i])
    BY ComesUp DEF RunningInv
  <2>2. session[clones[i]].port \in Ports
    BY <2>1, RegisteredSession DEF Runs
  <2>3. Listening(session[clones[i]].port)
    BY <2>1 DEF Runs, Listening
  <2> QED
    BY <2>1, <2>2, <2>3, ComesUp
<1> QED
  BY <1>1, RecoveryHolds, InitRunning, NextRunning, PTL
     DEF RecoverySpec, RestoredPortsHeld
-----------------------------------------------------------------------------
(* Clones at rest survive *)

\* A container is up only on a port that no other program has.
UpFree == \A p \in Ports : container[p].up => p \notin Occupied

LEMMA ProvisionUpFree ==
  ASSUME ProvisionTypeOK, UpFree, NEW c \in Calls, ProvisionStep(c)
  PROVE  UpFree'
<1> USE DEF ProvisionTypeOK, UpFree
<1>1. CASE StartPostgres(c)
  <2>1. PICK up \in BOOLEAN :
          /\ up => call[c].port \notin Occupied
          /\ \/ UNCHANGED container
             \/ container' = [container EXCEPT ![call[c].port] =
                                [pool |-> call[c].newPool, up |-> up]]
    BY <1>1 DEF StartPostgres
  <2> QED
    BY <2>1
<1>2. CASE StopPostgres(c) \/ RevertStop(c)
  BY <1>2 DEF StopPostgres, RevertStop, NoContainer
<1>3. CASE GetSnapshot(c) \/ GetFSManager(c) \/ SwitchPool(c) \/ AllocatePort(c)
  BY <1>3 DEF GetSnapshot, GetFSManager, SwitchPool, AllocatePort
<1>4. CASE CreateClone(c) \/ PrepareDB(c) \/ DestroyClone(c) \/ FreePort(c) \/ RevertDestroy(c)
  BY <1>4 DEF CreateClone, PrepareDB, DestroyClone, FreePort, RevertDestroy
<1> QED
  BY <1>1, <1>2, <1>3, <1>4 DEF ProvisionStep

\* Only the Provisioner touches the containers while the daemon serves.
LEMMA ServedContainers ==
  ASSUME Next
  PROVE  UNCHANGED container \/ \E c \in Calls : ProvisionStep(c)
<1>1. ASSUME NEW h \in Goroutines, HandlerStep(h) \/ ObserveReturn(h)
      PROVE  UNCHANGED container
  BY <1>1 DEF HandlerStep, ObserveReturn, CreateSet, DestroyMark, DestroyGo, ResetMark,
     provisionVars
<1>2. ASSUME NEW c \in Calls, CallDone(c)
      PROVE  UNCHANGED container
  BY <1>2 DEF CallDone, StartDone, StopDone, ResetDone
<1>3. CASE Arrival \/ IdleRefused \/ \E i \in IDs : IdleFound(i)
  BY <1>3 DEF Arrival, CreateFind, ResetFind, DestroyFind, UpdateClone, ObserveStop,
     IdleRefused, IdleFound, provisionVars
<1> QED
  BY <1>1, <1>2, <1>3 DEF Next, GoroutineStep

LEMMA InitUpFree == RecoveryInit => UpFree
BY DEF RecoveryInit, Init, ProvisionInit, UpFree, NoContainer

LEMMA NextUpFree ==
  RecoveryInv /\ UpFree /\ [RecoveryNext]_recoveryVars => UpFree'
<1> SUFFICES ASSUME RecoveryInv, UpFree, [RecoveryNext]_recoveryVars PROVE UpFree'
  OBVIOUS
<1>1. CASE UNCHANGED container
  BY <1>1 DEF UpFree
<1>2. CASE Serve
  BY <1>1, <1>2, ServedContainers, ProvisionUpFree
     DEF Serve, RecoveryInv, RecoveryTypeOK, CloningTypeOK
<1>3. ASSUME NEW reboot \in BOOLEAN, Crash(reboot)
      PROVE  UpFree'
  <2>1. container \in [Ports -> Containers]
    BY DEF RecoveryInv, RecoveryTypeOK, CloningTypeOK, ProvisionTypeOK
  <2>2. container' = Rebooted \/ container' = container
    BY <1>3 DEF Crash, Rebooted
  <2> QED
    BY <1>1, <2>1, <2>2, RebootedContainers DEF UpFree
<1>4. CASE RestartCloneContainers
  BY <1>4, RestartedContainers DEF UpFree
<1>5. ASSUME NEW q \in Pools, StopPoolSessions(q)
      PROVE  UpFree'
  <2>1. \A p \in Ports : container'[p] = container[p] \/ container'[p] = NoContainer
    BY <1>5 DEF StopPoolSessions
  <2> QED
    BY <2>1 DEF UpFree, NoContainer
<1>6. CASE UNCHANGED recoveryVars \/ Save
  BY <1>1, <1>6 DEF recoveryVars, Save, vars, provisionVars
<1>7. CASE Shutdown \/ RestoreClonesState \/ FilterRunningClones \/ RevisePortPool
  BY <1>1, <1>7 DEF Shutdown, RestoreClonesState, FilterRunningClones, RevisePortPool
<1> QED
  BY <1>2, <1>3, <1>4, <1>5, <1>6, <1>7 DEF RecoveryNext

\* A saved clone that was at rest: its dataset, and a container that can be
\* started.
SavedAtRest(e, s) ==
  LET t == e.session
  IN /\ e.clone.status = "OK" /\ e.clone.snapshot = s /\ t # None
     /\ t.port \notin Occupied
     /\ container[t.port].pool = t.pool
     /\ dataset[t.pool][t.port] = s

\* What each step of Run has done for a settled clone.
Surviving(i) ==
  /\ file # Torn /\ file[i] # None /\ SavedAtRest(file[i], settled[i])
  /\ phase # "restore" =>
       /\ clones[i] # None
       /\ wrapper[clones[i]] = file[i].clone
       /\ session[clones[i]] = file[i].session
  /\ phase \in {"filter", "cleanup"} => container[file[i].session.port].up

SettledInv ==
  phase # "up" => \A i \in IDs : settled[i] # None => Surviving(i)
\* The types of a saved clone.
LEMMA SavedTypes ==
  ASSUME RecoveryInv, NEW i \in IDs, file # Torn, file[i] # None, file[i].session # None
  PROVE  /\ file[i] \in Entries
         /\ file[i].session \in SessionRecords
         /\ file[i].session.port \in Ports /\ file[i].session.pool \in Pools
BY DEF RecoveryInv, RecoveryTypeOK, Entries, SessionRecords

\* A clone that is at rest and saved as it is when the daemon goes down.
LEMMA SavedWhenAtRest ==
  ASSUME RecoveryInv, UpFree, phase = "up", NEW i \in IDs, AtRest(i)
  PROVE  /\ Entry(i) # None
         /\ SavedAtRest(Entry(i), wrapper[clones[i]].snapshot)
<1> DEFINE w == clones[i]
           t == session[w]
<1>1. /\ w # None /\ wrapper[w].status = "OK" /\ t # None
      /\ container[t.port] = [pool |-> t.pool, up |-> TRUE]
      /\ dataset[t.pool][t.port] = wrapper[w].snapshot
  BY DEF AtRest, Ready, Works
<1>2. t.port \in Ports
  BY <1>1, RegisteredSession
<1>3. t.port \notin Occupied /\ container[t.port].pool = t.pool
  BY <1>1, <1>2 DEF UpFree
<1>4. Entry(i) = [clone |-> wrapper[w], session |-> t]
  BY <1>1 DEF Entry
<1>5. Entry(i) # None
  <2>1. wrapper[w] \in CloneRecords /\ t \in SessionRecords
    BY <1>1, RegisteredSession, TypedFacts DEF RecoveryInv
  <2> QED
    BY <1>4, <2>1, RecoveryAssumption DEF Entries
<1> QED
  BY <1>1, <1>3, <1>4, <1>5 DEF SavedAtRest

\* A crash keeps what was saved of the clones at rest; a crash of Run, too.
LEMMA CrashSettled ==
  ASSUME RecoveryInv, UpFree, SettledInv, Shutdown \/ \E reboot \in BOOLEAN : Crash(reboot)
  PROVE  SettledInv'
<1> SUFFICES ASSUME NEW i \in IDs, settled'[i] # None
             PROVE  Surviving(i)'
  BY DEF SettledInv
<1>1. phase' = "restore" /\ UNCHANGED dataset
  BY DEF Shutdown, Crash
<1>2. \A p \in Ports : container'[p].pool = container[p].pool
  <2>1. container \in [Ports -> Containers]
    BY DEF RecoveryInv, RecoveryTypeOK, CloningTypeOK, ProvisionTypeOK
  <2>2. container' = Rebooted \/ container' = container
    BY DEF Shutdown, Crash, Rebooted
  <2> QED
    BY <2>1, <2>2, RebootedContainers
<1>3. ASSUME file' # Torn, file'[i] # None, file'[i] \in Entries,
             SavedAtRest(file'[i], settled'[i])
      PROVE  Surviving(i)'
  <2>1. file'[i].session.port \in Ports
    BY <1>3 DEF SavedAtRest, Entries, SessionRecords
  <2> QED
    BY <1>1, <1>2, <1>3, <2>1 DEF Surviving, SavedAtRest
<1>4. CASE phase = "up"
  <2>1. /\ file' # Torn /\ file'[i] = Entry(i) /\ AtRest(i)
        /\ settled'[i] = wrapper[clones[i]].snapshot
    <3>1. CASE Shutdown
      <4>1. file' = [j \in IDs |-> Entry(j)]
        BY <3>1 DEF Shutdown
      <4>2. file' # Torn
        BY <1>4, <4>1, SavedFile, RecoveryAssumption
      <4> QED
        BY <3>1, <4>1, <4>2 DEF Shutdown
    <3>2. CASE \E reboot \in BOOLEAN : Crash(reboot)
      <4>1. AtRest(i) /\ file' # Torn /\ file[i] = Entry(i)
              /\ settled'[i] = wrapper[clones[i]].snapshot
        BY <1>4, <3>2 DEF Crash
      <4>2. file' = file
        BY <3>2, <4>1 DEF Crash
      <4> QED
        BY <4>1, <4>2
    <3> QED
      BY <3>1, <3>2
  <2>2. Entry(i) # None /\ SavedAtRest(Entry(i), settled'[i])
    BY <1>4, <2>1, SavedWhenAtRest
  <2>3. Entry(i) \in Entries
    BY <1>4, <2>2, EntryOf
  <2> QED
    BY <1>3, <2>1, <2>2, <2>3
<1>5. CASE phase # "up"
  <2>1. \E reboot \in BOOLEAN : Crash(reboot)
    BY <1>5 DEF Shutdown
  <2>2. saves = 0
    BY <1>5 DEF RecoveryInv, DownInv
  <2>3. file' = file /\ settled' = settled
    BY <1>5, <2>1, <2>2 DEF Crash
  <2>4. Surviving(i)
    BY <1>5, <2>3 DEF SettledInv
  <2> QED
    BY <1>3, <2>3, <2>4, SavedTypes DEF Surviving, SavedAtRest
<1> QED
  BY <1>4, <1>5

\* The steps of Run, for a clone that was settled.
LEMMA RunSettled ==
  ASSUME RecoveryInv, SettledInv, "snapshot" \notin Faults,
         RestoreClonesState \/ RestartCloneContainers \/ FilterRunningClones
  PROVE  SettledInv'
<1> SUFFICES ASSUME NEW i \in IDs, settled'[i] # None
             PROVE  Surviving(i)'
  BY DEF SettledInv
<1>1. phase # "up" /\ UNCHANGED <<dataset, file>>
  BY DEF RestoreClonesState, RestartCloneContainers, FilterRunningClones
<1>2. settled'[i] = settled[i]
  BY DEF RestoreClonesState, RestartCloneContainers, FilterRunningClones, RecoveryInv,
     RecoveryTypeOK
<1>3. Surviving(i)
  BY <1>1, <1>2 DEF SettledInv
<1> DEFINE t == file[i].session
<1>4. t.port \in Ports /\ t.pool \in Pools /\ t \in SessionRecords /\ t # None
  BY <1>3, SavedTypes DEF Surviving, SavedAtRest
<1>5. CASE RestoreClonesState
  <2>1. /\ clones'[i] # None
        /\ wrapper'[clones'[i]] = file[i].clone /\ session'[clones'[i]] = t
    BY <1>3, <1>5, RestoredRegistry DEF Surviving
  <2>2. UNCHANGED container /\ phase' = "restart"
    BY <1>5 DEF RestoreClonesState
  <2> QED
    BY <1>1, <1>2, <1>3, <2>1, <2>2 DEF Surviving, SavedAtRest
<1>6. CASE RestartCloneContainers
  <2>1. phase = "restart" /\ UNCHANGED <<clones, wrapper, session>>
    BY <1>6 DEF RestartCloneContainers, cloningVars
  <2>2. /\ clones[i] # None /\ session[clones[i]] = t
        /\ t.port \in RegisteredPorts
    <3>1. clones[i] # None /\ session[clones[i]] = t
      BY <1>3, <2>1 DEF Surviving
    <3> QED
      BY <1>4, <3>1, RegisteredSession
  <2>3. container'[t.port].up
    <3>1. PICK failed \in SUBSET RegisteredPorts :
            /\ container' = [p \in Ports |->
                 IF p \in RegisteredPorts \ failed /\ CanStart(p)
                 THEN [container[p] EXCEPT !.up = TRUE] ELSE container[p]]
            /\ settled' = [j \in IDs |->
                 IF clones[j] # None /\ session[clones[j]] # None
                      /\ session[clones[j]].port \in failed
                 THEN None ELSE settled[j]]
      BY <1>6 DEF RestartCloneContainers
    <3>2. t.port \notin failed
      BY <1>4, <2>2, <3>1
    <3>3. container[t.port].pool = t.pool /\ dataset[t.pool][t.port] = settled[i]
            /\ t.port \notin Occupied
      BY <1>3 DEF Surviving, SavedAtRest
    <3>4. CanStart(t.port)
      BY <1>2, <1>4, <3>3, ProvisionAssumption DEF CanStart, NoContainer
    <3>5. container[t.port] \in Containers
      BY <1>4 DEF RecoveryInv, RecoveryTypeOK, CloningTypeOK, ProvisionTypeOK
    <3>6. container'[t.port] = [container[t.port] EXCEPT !.up = TRUE]
      BY <1>4, <2>2, <3>1, <3>2, <3>4
    <3> QED
      BY <3>5, <3>6 DEF Containers
  <2>4. container'[t.port].pool = container[t.port].pool
    BY <1>4, <1>6, RestartedContainers
  <2> QED
    BY <1>1, <1>2, <1>3, <2>1, <2>3, <2>4 DEF Surviving, SavedAtRest
<1>7. CASE FilterRunningClones
  <2>1. phase = "filter" /\ phase' = "cleanup" /\ UNCHANGED container
    BY <1>7 DEF FilterRunningClones
  <2>2. /\ clones[i] # None /\ wrapper[clones[i]] = file[i].clone
        /\ session[clones[i]] = t /\ container[t.port].up
    BY <1>3, <2>1 DEF Surviving
  <2>3. Runs(clones[i])
    BY <1>3, <1>4, <2>2 DEF Runs, Surviving, SavedAtRest
  <2>4. clones'[i] = clones[i]
    BY <1>7, <2>2, <2>3, FilteredRegistry
  <2>5. PICK w \in Wrappers : w = clones[i]
    BY <2>2 DEF RecoveryInv, RecoveryTypeOK, CloningTypeOK
  <2>6. wrapper'[w] = wrapper[w] /\ session'[w] = session[w]
    <3>1. Registered(w)'
      BY <2>4, <2>5 DEF Registered
    <3> QED
      BY <1>7, <3>1, FilteredRegistry
  <2> QED
    BY <1>1, <1>2, <1>3, <2>1, <2>2, <2>4, <2>5, <2>6 DEF Surviving, SavedAtRest
<1> QED
  BY <1>5, <1>6, <1>7

LEMMA CleanSettled ==
  ASSUME RecoveryInv, SettledInv, NEW q \in Pools, StopPoolSessions(q)
  PROVE  SettledInv'
<1> SUFFICES ASSUME NEW i \in IDs, settled'[i] # None
             PROVE  Surviving(i)'
  BY DEF SettledInv
<1>1. /\ phase = "cleanup"
      /\ UNCHANGED <<session, clones, wrapper, file, phase, settled>>
  BY DEF StopPoolSessions, cloningVars
<1>2. Surviving(i)
  BY <1>1 DEF SettledInv
<1> DEFINE t == file[i].session
<1>3. t.port \in Ports /\ t.pool \in Pools /\ t \in SessionRecords /\ t # None
  BY <1>2, SavedTypes DEF Surviving, SavedAtRest
<1>4. t.port \in RegisteredPorts
  <2>1. clones[i] # None /\ session[clones[i]] = t
    BY <1>1, <1>2 DEF Surviving
  <2> QED
    BY <1>3, <2>1, RegisteredSession
<1>5. /\ container'[t.port] = container[t.port]
      /\ dataset'[t.pool][t.port] = dataset[t.pool][t.port]
  BY <1>3, <1>4, CleanedPool
<1> QED
  BY <1>1, <1>2, <1>5 DEF Surviving, SavedAtRest

LEMMA InitSettled == RecoveryInit => SettledInv
BY DEF RecoveryInit, SettledInv

LEMMA NextSettled ==
  ASSUME "snapshot" \notin Faults
  PROVE  RecoveryInv /\ UpFree /\ SettledInv /\ [RecoveryNext]_recoveryVars => SettledInv'
<1> SUFFICES ASSUME RecoveryInv, UpFree, SettledInv, [RecoveryNext]_recoveryVars
             PROVE  SettledInv'
  OBVIOUS
<1>1. CASE UNCHANGED recoveryVars
  BY <1>1 DEF recoveryVars, vars, provisionVars, cloningVars, SettledInv, Surviving,
     SavedAtRest
<1>2. CASE Serve \/ Save \/ RevisePortPool
  BY <1>2 DEF Serve, Save, RevisePortPool, SettledInv
<1>3. CASE Shutdown \/ \E reboot \in BOOLEAN : Crash(reboot)
  BY <1>3, CrashSettled
<1>4. CASE RestoreClonesState \/ RestartCloneContainers \/ FilterRunningClones
  BY <1>4, RunSettled
<1>5. CASE \E q \in Pools : StopPoolSessions(q)
  BY <1>5, CleanSettled
<1> QED
  BY <1>1, <1>2, <1>3, <1>4, <1>5 DEF RecoveryNext

\* A clone that was at rest, and saved as it was, when the daemon went down is
\* served again on its own data, however often the daemon crashes on the way,
\* and whatever else was half done.  Excluded are containers that Docker cannot
\* start, torn files, and a list of snapshots that cannot be read, upon which
\* Run drops all the clones.
THEOREM ClonesSurvive ==
  ASSUME "snapshot" \notin Faults
  PROVE  RecoverySpec => SettledClonesSurvive
<1> DEFINE Served(i, s) ==
             Ready(i) /\ wrapper[clones[i]].snapshot = s /\ Works(clones[i])
           Survive == \A i \in IDs, s \in Snapshots : settled[i] = s => Served(i, s)'
<1>1. RecoveryInv /\ RunningInv /\ SettledInv /\ [RecoveryNext]_recoveryVars
        => (phase # "up" /\ phase' = "up" => Survive)
  <2> SUFFICES ASSUME RecoveryInv, SettledInv, [RecoveryNext]_recoveryVars,
                      phase # "up", phase' = "up",
                      NEW i \in IDs, NEW s \in Snapshots, settled[i] = s
               PROVE  Served(i, s)'
    OBVIOUS
  <2>1. phase = "cleanup" /\ UNCHANGED <<container, dataset, session, clones, wrapper>>
    BY ComesUp
  <2>2. Surviving(i) /\ file[i].session # None
    BY ProvisionAssumption DEF SettledInv, Surviving, SavedAtRest
  <2> DEFINE w == clones[i]
             t == file[i].session
  <2>3. /\ w # None /\ wrapper[w] = file[i].clone /\ session[w] = t
        /\ container[t.port].up /\ container[t.port].pool = t.pool
        /\ dataset[t.pool][t.port] = s
        /\ wrapper[w].status = "OK" /\ wrapper[w].snapshot = s
    BY <2>1, <2>2 DEF Surviving, SavedAtRest
  <2>4. t.port \in Ports
    BY <2>2, SavedTypes DEF Surviving
  <2>5. container[t.port] = [pool |-> t.pool, up |-> TRUE]
    <3>1. container[t.port] \in Containers
      BY <2>4 DEF RecoveryInv, RecoveryTypeOK, CloningTypeOK, ProvisionTypeOK
    <3> QED
      BY <2>3, <3>1 DEF Containers
  <2>6. Served(i, s)
    BY <2>2, <2>3, <2>5 DEF Ready, Works
  <2> QED
    BY <2>1, <2>6 DEF Ready, Works
<1>2. RecoveryInv /\ RunningInv /\ SettledInv /\ [RecoveryNext]_recoveryVars
        => (phase # "up" /\ phase' = "up" =>
              \A i \in IDs, s \in Snapshots : settled[i] = s =>
                (Ready(i) /\ wrapper[clones[i]].snapshot = s /\ Works(clones[i]))')
  BY <1>1
<1> QED
  BY <1>2, RecoveryHolds, InitRunning, NextRunning, InitUpFree, NextUpFree, InitSettled,
     NextSettled, PTL DEF RecoverySpec, SettledClonesSurvive

-----------------------------------------------------------------------------
(* A restart cleans up *)

\* StopAllSessions has left in the pool q only what has the name of a
\* registered clone.
Swept(q) ==
  \A p \in Ports :
    container[p].pool = q \/ dataset[q][p] # None => p \in RegisteredPorts

SweptInv ==
  /\ \A p \in Ports : container[p] # NoContainer => container[p].pool \in Pools
  /\ phase = "cleanup" => \A q \in Pools \ unclean : Swept(q)

LEMMA InitSwept == RecoveryInit => SweptInv
BY DEF RecoveryInit, Init, ProvisionInit, SweptInv

LEMMA ProvisionSwept ==
  ASSUME TypedInv, NEW c \in Calls, ProvisionStep(c),
         \A p \in Ports : container[p] # NoContainer => container[p].pool \in Pools
  PROVE  \A p \in Ports : container'[p] # NoContainer => container'[p].pool \in Pools
<1>1. container \in [Ports -> Containers]
  BY TypedFacts
<1>2. CASE StartPostgres(c)
  <2>1. PICK up \in BOOLEAN :
          \/ UNCHANGED container
          \/ container' = [container EXCEPT ![call[c].port] =
                             [pool |-> call[c].newPool, up |-> up]]
    BY <1>2 DEF StartPostgres
  <2>2. call[c].newPool \in Pools
    BY <1>2 DEF StartPostgres, TypedInv, Registers, SP!StopSteps
  <2> QED
    BY <1>1, <2>1, <2>2
<1>3. CASE StopPostgres(c) \/ RevertStop(c)
  BY <1>1, <1>3 DEF StopPostgres, RevertStop
<1>4. CASE GetSnapshot(c) \/ GetFSManager(c) \/ SwitchPool(c) \/ AllocatePort(c)
  BY <1>4 DEF GetSnapshot, GetFSManager, SwitchPool, AllocatePort
<1>5. CASE CreateClone(c) \/ PrepareDB(c) \/ DestroyClone(c) \/ FreePort(c) \/ RevertDestroy(c)
  BY <1>5 DEF CreateClone, PrepareDB, DestroyClone, FreePort, RevertDestroy
<1> QED
  BY <1>2, <1>3, <1>4, <1>5 DEF ProvisionStep

\* Until it cleans up, the daemon that goes down and comes up again leaves
\* containers and datasets in their pools.
LEMMA PoolsStay ==
  ASSUME RecoveryInv,
         \/ Shutdown \/ (\E reboot \in BOOLEAN : Crash(reboot))
         \/ RestoreClonesState \/ RestartCloneContainers \/ FilterRunningClones
  PROVE  /\ UNCHANGED dataset
         /\ \A p \in Ports :
              /\ container'[p].pool = container[p].pool
              /\ container[p] = NoContainer => container'[p] = NoContainer
<1>1. container \in [Ports -> Containers]
  BY DEF RecoveryInv, RecoveryTypeOK, CloningTypeOK, ProvisionTypeOK
<1>2. CASE Shutdown \/ \E reboot \in BOOLEAN : Crash(reboot)
  <2>1. UNCHANGED dataset /\ (container' = container \/ container' = Rebooted)
    BY <1>2 DEF Shutdown, Crash, Rebooted
  <2>2. ASSUME NEW p \in Ports, container[p] = NoContainer
        PROVE  Rebooted[p] = NoContainer
    <3>1. PICK q \in Pools \cup {None}, up \in BOOLEAN :
            Rebooted[p] = [pool |-> q, up |-> up]
      BY <1>1, RebootedContainers DEF Containers
    <3>2. Rebooted[p].pool = None /\ ~Rebooted[p].up
      BY <1>1, <2>2, RebootedContainers DEF NoContainer
    <3>3. q = None /\ up = FALSE
      BY <3>1, <3>2
    <3> QED
      BY <3>1, <3>3 DEF NoContainer
  <2> QED
    BY <1>1, <2>1, <2>2, RebootedContainers
<1>3. CASE RestoreClonesState \/ FilterRunningClones
  BY <1>3 DEF RestoreClonesState, FilterRunningClones
<1>4. CASE RestartCloneContainers
  <2>1. PICK failed \in SUBSET RegisteredPorts :
          container' = [p \in Ports |->
            IF p \in RegisteredPorts \ failed /\ CanStart(p)
            THEN [container[p] EXCEPT !.up = TRUE] ELSE container[p]]
    BY <1>4 DEF RestartCloneContainers
  <2>2. UNCHANGED dataset
    BY <1>4 DEF RestartCloneContainers
  <2> QED
    BY <1>1, <1>4, <2>1, <2>2, RestartedContainers DEF CanStart
<1> QED
  BY <1>2, <1>3, <1>4

\* What StopAllSessions does in one pool.
LEMMA SweepSwept ==
  ASSUME RecoveryInv, SweptInv, NEW q \in Pools, StopPoolSessions(q)
  PROVE  SweptInv'
<1>1. /\ phase = "cleanup" /\ phase' = "cleanup" /\ unclean' = unclean \ {q}
      /\ RegisteredPorts' = RegisteredPorts
  BY DEF StopPoolSessions, RegisteredPorts
<1>2. /\ container \in [Ports -> Containers]
      /\ dataset \in [Pools -> [Ports -> Snapshots \cup {None}]]
  BY DEF RecoveryInv, RecoveryTypeOK, CloningTypeOK, ProvisionTypeOK
<1>3. /\ container' = [p \in Ports |->
           IF container[p].pool = q /\ p \notin RegisteredPorts THEN NoContainer
           ELSE container[p]]
      /\ dataset' = [dataset EXCEPT ![q] =
           [p \in Ports |-> IF p \in RegisteredPorts THEN dataset[q][p] ELSE None]]
  BY DEF StopPoolSessions, KeptDatasets
<1>4. None \notin Pools /\ NoContainer.pool = None
  BY ProvisionAssumption DEF NoContainer
<1>5. \A p \in Ports : container'[p] # NoContainer => container'[p].pool \in Pools
  BY <1>3 DEF SweptInv
<1>6. ASSUME NEW r \in Pools \ unclean'
      PROVE  Swept(r)'
  <2>1. CASE r = q
    BY <1>1, <1>2, <1>3, <1>4, <2>1 DEF Swept
  <2>2. CASE r # q
    <3>1. Swept(r)
      BY <1>1, <1>6, <2>2 DEF SweptInv
    <3> QED
      BY <1>1, <1>2, <1>3, <1>4, <2>2, <3>1 DEF Swept
  <2> QED
    BY <2>1, <2>2
<1> QED
  BY <1>1, <1>5, <1>6 DEF SweptInv

LEMMA NextSwept ==
  RecoveryInv /\ SweptInv /\ [RecoveryNext]_recoveryVars => SweptInv'
<1> SUFFICES ASSUME RecoveryInv, SweptInv, [RecoveryNext]_recoveryVars PROVE SweptInv'
  OBVIOUS
<1>1. CASE UNCHANGED recoveryVars
  <2>1. UNCHANGED <<container, dataset, session, phase, unclean>>
    BY <1>1 DEF recoveryVars, vars, provisionVars
  <2> QED
    BY <2>1 DEF SweptInv, Swept, RegisteredPorts
<1>2. CASE Serve
  <2>1. phase = "up" /\ phase' = "up" /\ Next
    BY <1>2 DEF Serve
  <2>2. UNCHANGED container \/ \E c \in Calls : ProvisionStep(c)
    BY <2>1, ServedContainers
  <2> QED
    BY <2>1, <2>2, ProvisionSwept DEF SweptInv, RecoveryInv
<1>3. CASE Save \/ RevisePortPool
  BY <1>3 DEF Save, RevisePortPool, SweptInv, vars, provisionVars
<1>4. CASE Shutdown \/ \E reboot \in BOOLEAN : Crash(reboot)
  <2>1. phase' = "restore"
    BY <1>4 DEF Shutdown, Crash
  <2> QED
    BY <1>4, <2>1, PoolsStay DEF SweptInv
<1>5. CASE RestoreClonesState \/ RestartCloneContainers \/ FilterRunningClones
  <2>1. phase' = "cleanup" => unclean' = Pools
    BY <1>5 DEF RestoreClonesState, RestartCloneContainers, FilterRunningClones
  <2> QED
    BY <1>5, <2>1, PoolsStay DEF SweptInv
<1>6. CASE \E q \in Pools : StopPoolSessions(q)
  BY <1>6, SweepSwept
<1> QED
  BY <1>1, <1>2, <1>3, <1>4, <1>5, <1>6 DEF RecoveryNext

\* When Run has ended, every container and dataset belongs to a clone of the registry.
RestartCleansUp ==
  [][phase # "up" /\ phase' = "up" =>
       (\A p \in Ports : container[p] # NoContainer \/ CloneExists(p) =>
          \E i \in IDs : clones[i] # None /\ Serves(clones[i], p))']_recoveryVars

\* A restart removes whatever requests that overlapped, failed commands and
\* crashes have left behind: it needs none of the conditions under which the
\* daemon at work leaves nothing behind.  A command of the clean-up that fails
\* ends Run, and the daemon starts again.
THEOREM RestartsCleanUp == RecoverySpec => RestartCleansUp
<1> DEFINE Clean == \A p \in Ports : container[p] # NoContainer \/ CloneExists(p) =>
                      \E i \in IDs : clones[i] # None /\ Serves(clones[i], p)
<1>1. RecoveryInv /\ SweptInv /\ [RecoveryNext]_recoveryVars
        => (phase # "up" /\ phase' = "up" => Clean')
  <2> SUFFICES ASSUME RecoveryInv, SweptInv, [RecoveryNext]_recoveryVars,
                      phase # "up", phase' = "up"
               PROVE  Clean'
    OBVIOUS
  <2>1. /\ phase = "cleanup" /\ unclean = {}
        /\ UNCHANGED <<container, dataset, session, clones, wrapper>>
    BY ComesUp
  <2>2. ASSUME NEW p \in Ports, container[p] # NoContainer \/ CloneExists(p)
        PROVE  \E i \in IDs : clones[i] # None /\ Serves(clones[i], p)
    <3>1. PICK q \in Pools : container[p].pool = q \/ dataset[q][p] # None
      BY <2>2 DEF SweptInv, CloneExists
    <3>2. p \in RegisteredPorts
      BY <2>1, <3>1 DEF SweptInv, Swept
    <3>3. PICK w \in Wrappers : session[w] # None /\ session[w].port = p
      BY <3>2 DEF RegisteredPorts
    <3>4. PICK i \in IDs : clones[i] = w
      BY <2>1, <3>3 DEF RecoveryInv, DownInv, KnownInv, Registered
    <3> QED
      BY <3>3, <3>4, ProvisionAssumption DEF Serves
  <2> QED
    BY <2>1, <2>2 DEF CloneExists, Serves
<1> QED
  BY <1>1, RecoveryHolds, InitSwept, NextSwept, PTL DEF RecoverySpec, RestartCleansUp

-----------------------------------------------------------------------------
(* When clients wait *)

\* A clone shown as OK has a session.
ReadySessions ==
  \A w \in Wrappers : wrapper[w] # None /\ wrapper[w].status = "OK" => session[w] # None

ReadySaved ==
  file # Torn => \A i \in IDs :
    file[i] # None /\ file[i].clone.status = "OK" => file[i].session # None

PatientInv ==
  /\ ReadySaved
  /\ phase = "up" => WaitInv /\ SP!DisciplineInv
  /\ phase # "up" => ReadySessions

\* A registry that nobody works on satisfies the invariant of the cloning
\* service, whatever statuses its clones have.
LEMMA QuietInv == CloningTypeOK /\ KnownInv /\ ReadySessions /\ Quiet => WaitInv /\ SP!DisciplineInv
<1> SUFFICES ASSUME CloningTypeOK, KnownInv, ReadySessions, Quiet
             PROVE  WaitInv /\ SP!DisciplineInv
  OBVIOUS
<1>1. RegistryInv
  BY DEF KnownInv, ReadySessions, RegistryInv
<1>2. CallsInv /\ HandlersInv
  BY DEF Quiet, CallsInv, HandlersInv, HandlerOf
<1>3. OneAgent
  BY DEF Quiet, OneAgent, Idle
<1>4. ASSUME NEW w \in Wrappers
      PROVE  /\ Recorded[w] \in SP!CloneRecords \cup {None}
             /\ Recorded[w] = None <=> session[w] = None
  <2>1. CASE session[w] = None
    BY <2>1, RecordedOf
  <2>2. CASE session[w] # None
    <3>1. wrapper[w] # None
      <4>1. PICK i \in IDs : clones[i] = w
        BY <1>1, <2>2 DEF RegistryInv, Registered
      <4> QED
        BY <1>1, <4>1, ProvisionAssumption DEF RegistryInv
    <3>2. wrapper[w].snapshot \in Snapshots
      BY <3>1 DEF CloningTypeOK, CloneRecords
    <3>3. PICK ok \in BOOLEAN : ok <=> wrapper[w].status = "OK"
      OBVIOUS
    <3>4. Recorded[w] = [snapshot |-> wrapper[w].snapshot, ok |-> ok]
      BY <2>2, <3>3, RecordedOf
    <3>5. Recorded[w] \in SP!CloneRecords
      BY <3>2, <3>4 DEF SP!CloneRecords
    <3> QED
      BY <2>2, <3>5, SerialAssumptions DEF SP!SerialAssumption
  <2> QED
    BY <2>1, <2>2
<1>5. SP!SerialTypeOK
  <2>1. Recorded \in [Wrappers -> SP!CloneRecords \cup {None}]
    BY <1>4, RecordedOf
  <2>2. SP!ProvisionTypeOK
    BY SamePorts DEF CloningTypeOK, SP!ProvisionTypeOK, ProvisionTypeOK,
       SP!Containers, Containers, SP!SessionRecords, SessionRecords,
       SP!CallRecords, CallRecords, SP!Steps, Steps
  <2> QED
    BY <2>1, <2>2 DEF SP!SerialTypeOK
<1>6. SP!CallInv /\ SP!OneCall /\ SP!CloneInv
  <2>1. SP!CallInv
    BY DEF SP!CallInv, Quiet, SP!NoCall, NoCall
  <2>2. SP!OneCall
    BY DEF SP!OneCall, Quiet
  <2> QED
    BY <1>4, <2>1, <2>2 DEF SP!CloneInv
<1> QED
  BY <1>1, <1>2, <1>3, <1>5, <1>6 DEF WaitInv, SP!DisciplineInv

LEMMA PatientNext ==
  ASSUME CloningTypeOK', KnownInv', ReadySessions', Quiet'
  PROVE  WaitInv' /\ SP!DisciplineInv'
BY QuietInv, PTL

LEMMA InitPatient == RecoveryInit => PatientInv
BY InitWait DEF RecoveryInit, PatientInv, ReadySaved

\* What is saved of a clone shown as OK.
LEMMA PatientFile ==
  ASSUME RecoveryInv, PatientInv, phase = "up", file' = [i \in IDs |-> Entry(i)]
  PROVE  ReadySaved'
<1> SUFFICES ASSUME NEW i \in IDs, file'[i] # None, file'[i].clone.status = "OK"
             PROVE  file'[i].session # None
  BY DEF ReadySaved
<1>1. /\ clones[i] # None
      /\ file'[i].clone = wrapper[clones[i]] /\ file'[i].session = session[clones[i]]
  BY EntryOf
<1>2. clones[i] \in Wrappers /\ wrapper[clones[i]] \in CloneRecords
  BY <1>1, TypedFacts DEF RecoveryInv
<1> QED
  BY <1>1, <1>2, RecordsAssumption DEF PatientInv, WaitInv, RegistryInv

\* The steps of Run restore, keep or drop clones that way.
LEMMA RunPatient ==
  ASSUME RecoveryInv, PatientInv,
         \/ RestoreClonesState \/ RestartCloneContainers \/ FilterRunningClones
         \/ \E q \in Pools : StopPoolSessions(q)
  PROVE  PatientInv'
<1>1. /\ phase # "up" /\ phase' # "up" /\ UNCHANGED file
      /\ ReadySaved /\ ReadySessions
  BY DEF PatientInv, RestoreClonesState, RestartCloneContainers, FilterRunningClones,
     StopPoolSessions
<1> SUFFICES ASSUME NEW w \in Wrappers, wrapper'[w] # None, wrapper'[w].status = "OK"
             PROVE  session'[w] # None
  BY <1>1 DEF PatientInv, ReadySaved, ReadySessions
<1>2. CASE RestoreClonesState
  <2>1. PICK i \in IDs : clones'[i] = w
    BY <1>2, RestoredRegistry DEF KnownInv, Registered
  <2>2. file # Torn /\ file[i] # None
    BY <1>2, <2>1, RestoredRegistry, ProvisionAssumption
  <2>3. wrapper'[w] = file[i].clone /\ session'[w] = file[i].session
    BY <1>2, <2>1, <2>2, RestoredRegistry
  <2> QED
    BY <1>1, <2>2, <2>3 DEF ReadySaved
<1>3. CASE FilterRunningClones
  <2>1. Registered(w)'
    BY <1>3, FilteredRegistry DEF KnownInv
  <2>2. wrapper'[w] = wrapper[w] /\ session'[w] = session[w]
    BY <1>3, <2>1, FilteredRegistry
  <2> QED
    BY <1>1, <2>2 DEF ReadySessions
<1>4. CASE RestartCloneContainers \/ \E q \in Pools : StopPoolSessions(q)
  BY <1>1, <1>4 DEF ReadySessions, RestartCloneContainers, StopPoolSessions, cloningVars
<1> QED
  BY <1>2, <1>3, <1>4

LEMMA NextPatient ==
  ASSUME WaitingClients
  PROVE  RecoveryInv /\ PatientInv /\ [RecoveryNext]_recoveryVars => PatientInv'
<1> SUFFICES ASSUME RecoveryInv, PatientInv, [RecoveryNext]_recoveryVars
             PROVE  PatientInv'
  OBVIOUS
<1>1. ASSUME [Next]_vars, phase = "up", UNCHANGED phase
      PROVE  WaitInv' /\ SP!DisciplineInv'
  BY <1>1, NextWait DEF PatientInv
<1>2. CASE UNCHANGED recoveryVars
  <2>1. UNCHANGED <<vars, file, phase, wrapper, session>>
    BY <1>2 DEF recoveryVars, vars, provisionVars, cloningVars
  <2> QED
    BY <1>1, <2>1 DEF PatientInv, ReadySaved, ReadySessions
<1>3. CASE Serve
  BY <1>1, <1>3 DEF Serve, PatientInv, ReadySaved
<1>4. CASE Save
  BY <1>1, <1>4, PatientFile DEF Save, PatientInv
<1>5. CASE Shutdown
  <2>1. phase = "up" /\ file' = [i \in IDs |-> Entry(i)] /\ phase' = "restore"
        /\ wrapper' = [w \in Wrappers |-> None]
    BY <1>5 DEF Shutdown, ForgetMemory
  <2> QED
    BY <2>1, PatientFile DEF PatientInv, ReadySessions
<1>6. ASSUME NEW reboot \in BOOLEAN, Crash(reboot)
      PROVE  PatientInv'
  <2>1. file' \in {file, Torn} /\ phase' = "restore"
        /\ wrapper' = [w \in Wrappers |-> None]
    BY <1>6 DEF Crash, ForgetMemory
  <2> QED
    BY <2>1 DEF PatientInv, ReadySaved, ReadySessions
<1>7. CASE RevisePortPool
  <2>1. /\ phase # "up" /\ phase' = "up"
        /\ UNCHANGED <<session, pc, call, cloningVars, file>>
    BY <1>7 DEF RevisePortPool
  <2>2. CloningTypeOK'
    BY <1>7, ReviseRecovery DEF RecoveryInv, RecoveryTypeOK
  <2>3. KnownInv' /\ Quiet' /\ ReadySessions' /\ ReadySaved'
    BY <2>1 DEF RecoveryInv, DownInv, KnownInv, Registered, Quiet, ReadySessions,
       ReadySaved, PatientInv, cloningVars
  <2> QED
    BY <2>1, <2>2, <2>3, PatientNext DEF PatientInv
<1> QED
  BY <1>2, <1>3, <1>4, <1>5, <1>6, <1>7, RunPatient DEF RecoveryNext

-----------------------------------------------------------------------------
(* Nothing is left behind *)

LeftInv ==
  /\ SP!MachineInv
  /\ phase = "up" => SP!KeptInv

LEMMA InitLeft == RecoveryInit => LeftInv
BY SerialAssumptions, InitWait, SP!InitKept DEF RecoveryInit, LeftInv, SP!KeptInv

\* While the daemon serves, each container and dataset stays somebody's.
LEMMA ServedLeft ==
  ASSUME SP!CleanUpWorks, WaitingClients, PatientInv, LeftInv, [Next]_vars,
         phase = "up", phase' = "up"
  PROVE  LeftInv'
<1>1. [SP!Next]_SP!serialVars
  BY StepIsSerial, SerialAssumptions DEF SerialStep, PatientInv
<1>2. SP!KeptInv'
  BY <1>1, SerialAssumptions, SP!NextKeeps DEF PatientInv, LeftInv
<1> QED
  BY <1>2 DEF LeftInv, SP!KeptInv

\* What a crash or a step of Run leaves of containers is where it was.
LEMMA MachineStays ==
  ASSUME RecoveryInv, SP!MachineInv,
         \A p \in Ports, q \in Pools : dataset'[q][p] # None => dataset[q][p] # None,
         \A p \in Ports : container'[p] = NoContainer \/ container'[p].pool = container[p].pool,
         \A p \in Ports : container[p] = NoContainer => container'[p] = NoContainer
  PROVE  SP!MachineInv'
BY SamePorts DEF SP!MachineInv, SP!NoContainer, NoContainer

LEMMA DownLeft ==
  ASSUME RecoveryInv, LeftInv,
         \/ Shutdown \/ (\E reboot \in BOOLEAN : Crash(reboot))
         \/ RestoreClonesState \/ RestartCloneContainers \/ FilterRunningClones
         \/ \E q \in Pools : StopPoolSessions(q)
  PROVE  LeftInv'
<1>1. phase' # "up"
  BY DEF Shutdown, Crash, RestoreClonesState, RestartCloneContainers, FilterRunningClones,
     StopPoolSessions
<1>2. CASE \/ Shutdown \/ (\E reboot \in BOOLEAN : Crash(reboot))
           \/ RestoreClonesState \/ RestartCloneContainers \/ FilterRunningClones
  BY <1>1, <1>2, PoolsStay, MachineStays DEF LeftInv
<1>3. ASSUME NEW q \in Pools, StopPoolSessions(q)
      PROVE  LeftInv'
  <2>1. /\ container' = [p \in Ports |->
             IF container[p].pool = q /\ p \notin RegisteredPorts THEN NoContainer
             ELSE container[p]]
        /\ dataset' = [dataset EXCEPT ![q] =
             [p \in Ports |-> IF p \in RegisteredPorts THEN dataset[q][p] ELSE None]]
    BY <1>3 DEF StopPoolSessions, KeptDatasets
  <2>2. /\ container \in [Ports -> Containers]
        /\ dataset \in [Pools -> [Ports -> Snapshots \cup {None}]]
    BY DEF RecoveryInv, RecoveryTypeOK, CloningTypeOK, ProvisionTypeOK
  <2>3. SP!MachineInv'
    BY <2>1, <2>2, MachineStays DEF LeftInv
  <2> QED
    BY <1>1, <2>3 DEF LeftInv
<1> QED
  BY <1>2, <1>3

\* When all pools are swept, the sessions of the registered clones have what
\* there is; several may have the same port.
LEMMA UpLeft ==
  ASSUME RecoveryInv, SweptInv, LeftInv, RevisePortPool
  PROVE  LeftInv'
<1>1. /\ phase = "cleanup" /\ unclean = {} /\ phase' = "up"
      /\ UNCHANGED <<container, dataset, session, pc, call>>
  BY DEF RevisePortPool
<1>2. ASSUME NEW p \in Ports, p \in RegisteredPorts, NEW steps
      PROVE  \E w \in Wrappers : SP!Keeps(w, p, steps)
  <2>1. \A c \in Calls : call[c] = NoCall
    BY <1>1 DEF RecoveryInv, DownInv, Quiet
  <2> QED
    BY <1>2, <2>1 DEF RegisteredPorts, SP!Keeps, NoCall
<1>3. SP!ContainersKept
  BY <1>1, <1>2, SamePorts DEF SP!ContainersKept, SweptInv, LeftInv, SP!MachineInv, Swept
<1>4. SP!DatasetsKept
  BY <1>1, <1>2, SamePorts DEF SP!DatasetsKept, SweptInv, Swept
<1>5. SP!KeptInv
  BY <1>3, <1>4 DEF LeftInv, SP!KeptInv
<1>6. SP!KeptInv'
  BY <1>1, <1>5 DEF SP!KeptInv, SP!MachineInv, SP!DatasetsKept, SP!ContainersKept,
     SP!Keeps, SP!Builds
<1> QED
  BY <1>1, <1>6 DEF LeftInv, SP!KeptInv

LEMMA NextLeft ==
  ASSUME WaitingClients, SP!CleanUpWorks
  PROVE  RecoveryInv /\ SweptInv /\ PatientInv /\ LeftInv /\ [RecoveryNext]_recoveryVars
           => LeftInv'
<1> SUFFICES ASSUME RecoveryInv, SweptInv, PatientInv, LeftInv, [RecoveryNext]_recoveryVars
             PROVE  LeftInv'
  OBVIOUS
<1>1. CASE UNCHANGED recoveryVars
  <2>1. UNCHANGED <<container, dataset, session, pc, call, phase, unclean>>
    BY <1>1 DEF recoveryVars, vars, provisionVars
  <2> QED
    BY <2>1 DEF LeftInv, SP!KeptInv, SP!MachineInv, SP!DatasetsKept, SP!ContainersKept,
       SP!Keeps, SP!Builds
<1>2. CASE Serve \/ Save
  BY <1>2, ServedLeft DEF Serve, Save
<1>3. CASE \/ Shutdown \/ (\E reboot \in BOOLEAN : Crash(reboot))
           \/ RestoreClonesState \/ RestartCloneContainers \/ FilterRunningClones
           \/ \E q \in Pools : StopPoolSessions(q)
  BY <1>3, DownLeft
<1>4. CASE RevisePortPool
  BY <1>4, UpLeft
<1> QED
  BY <1>1, <1>2, <1>3, <1>4 DEF RecoveryNext

\* Whatever a crash has left half done, when the daemon is up every container
\* and dataset belongs to a registered clone or to a call in progress, unless
\* the commands that clean up fail.
THEOREM NothingStaysBehind ==
  ASSUME WaitingClients, SP!CleanUpWorks
  PROVE  RecoverySpec => []NothingLeftBehind
<1>1. PatientInv /\ LeftInv => NothingLeftBehind
  BY KeptServed DEF PatientInv, LeftInv, NothingLeftBehind
<1> QED
  BY <1>1, RecoveryHolds, InitSwept, NextSwept, InitPatient, NextPatient,
     InitLeft, NextLeft, PTL DEF RecoverySpec

=============================================================================
