---------------------------- MODULE SerialSessions ----------------------------
(***************************************************************************)
(* What the Provisioner promises to a caller that runs at most one         *)
(* operation per clone at a time: every clone has a port, a container and  *)
(* a dataset of its own, whatever the operations on other clones do.       *)
(*                                                                         *)
(* The Provisioner itself does not enforce that discipline.  Cloning is    *)
(* shown to follow it when its clients wait for a clone to settle before   *)
(* they touch it again, and not to follow it otherwise.                    *)
(***************************************************************************)
EXTENDS Provision

VARIABLE clone   \* what the caller records of the clone of a wrapper, or None

serialVars == <<provisionVars, clone>>

\* The snapshot the clone is said to come from, and whether the caller shows
\* the clone as ready (status OK).
CloneRecords == [snapshot : Snapshots, ok : BOOLEAN]

ASSUME SerialAssumption == None \notin CloneRecords

SerialTypeOK ==
  /\ ProvisionTypeOK
  /\ clone \in [Wrappers -> CloneRecords \cup {None}]

Init ==
  /\ ProvisionInit
  /\ clone = [w \in Wrappers |-> None]

-----------------------------------------------------------------------------
(* The caller *)

Busy(w) == \E c \in Calls : pc[c] # "idle" /\ call[c].wrapper = w

Start(c, w, s) ==
  /\ ~Busy(w) /\ session[w] = None
  /\ InvokeStart(c, w, s)
  /\ UNCHANGED <<bind, container, dataset, session, clone>>

\* Before it stops or resets a clone the caller changes the status from OK.
Withdraw(w) ==
  /\ clone[w] # None
  /\ clone' = [clone EXCEPT ![w].ok = FALSE]
  /\ UNCHANGED provisionVars

Stop(c, w) ==
  /\ ~Busy(w)
  /\ InvokeStop(c, w)
  /\ clone' = [clone EXCEPT ![w].ok = FALSE]
  /\ UNCHANGED <<bind, container, dataset, session>>

Reset(c, w, s) ==
  /\ ~Busy(w)
  /\ InvokeReset(c, w, s)
  /\ clone' = [clone EXCEPT ![w].ok = FALSE]
  /\ UNCHANGED <<bind, container, dataset, session>>

\* The caller takes the result of a call: a started clone gets its session, a
\* stopped one is forgotten, a failed stop or reset leaves the clone FATAL.
Return(c) ==
  LET w == call[c].wrapper
      op == call[c].op
  IN /\ pc[c] \in {"ok", "err"}
     /\ Goto(c, "idle")
     /\ call' = [call EXCEPT ![c] = NoCall]
     /\ \/ /\ pc[c] = "ok" /\ op = "start"
           /\ session' = [session EXCEPT ![w] =
                [port |-> call[c].port, pool |-> call[c].newPool]]
           /\ clone' = [clone EXCEPT ![w] =
                [snapshot |-> call[c].snapshot, ok |-> TRUE]]
        \/ /\ pc[c] = "ok" /\ op = "stop"
           /\ session' = [session EXCEPT ![w] = None]
           /\ clone' = [clone EXCEPT ![w] = None]
        \/ /\ pc[c] = "ok" /\ op = "reset"
           /\ clone' = [clone EXCEPT ![w] =
                [snapshot |-> call[c].snapshot, ok |-> TRUE]]
           /\ UNCHANGED session
        \/ /\ pc[c] = "err"
           /\ UNCHANGED <<session, clone>>
     /\ UNCHANGED <<bind, container, dataset>>

Next ==
  \/ \E c \in Calls :
       \/ ProvisionStep(c) /\ UNCHANGED clone
       \/ Return(c)
       \/ \E w \in Wrappers : Stop(c, w)
       \/ \E w \in Wrappers, s \in Snapshots : Start(c, w, s) \/ Reset(c, w, s)
  \/ \E w \in Wrappers : Withdraw(w)

Spec == Init /\ [][Next]_serialVars

-----------------------------------------------------------------------------
(* Properties *)

\* A call that has allocated a port and not yet given it to a session.
Starting(c) == pc[c] # "idle" /\ call[c].op = "start" /\ call[c].port # None

Occupies(c, p) == Starting(c) /\ call[c].port = p /\ pc[c] # "err"

\* A session owns its port until the StopSession of its clone frees it.
Stopped(w) == \E c \in Calls :
  call[c].wrapper = w /\ call[c].op = "stop" /\ pc[c] = "ok"

Holds(w, p) == session[w] # None /\ session[w].port = p /\ ~Stopped(w)

\* Two clones, running or being started, never share a port, hence neither a
\* container nor a dataset: allocatePort and FreePort keep the port pool
\* consistent over every interleaving of StartSession, StopSession and
\* ResetSession and every failure of a command.
PortExclusive ==
  \A p \in Ports :
    /\ \A v, w \in Wrappers : Holds(v, p) /\ Holds(w, p) => v = w
    /\ \A c, d \in Calls : Occupies(c, p) /\ Occupies(d, p) => c = d
    /\ \A w \in Wrappers, c \in Calls : ~(Holds(w, p) /\ Occupies(c, p))

\* A clone that is shown as ready has its container up, on its own dataset,
\* which comes from the snapshot the clone was asked for: whatever
\* StartSession, StopSession and ResetSession do for the other clones.
IsolatedClones ==
  \A w \in Wrappers :
    (clone[w] # None /\ clone[w].ok) =>
      /\ container[session[w].port] = [pool |-> session[w].pool, up |-> TRUE]
      /\ dataset[session[w].pool][session[w].port] = clone[w].snapshot

\* A busy port is somebody's: no failed operation keeps a port of the pool.
NoLeakedPort ==
  \A p \in Ports : bind[p] =>
    \/ p \in Occupied
    \/ \E w \in Wrappers : Holds(w, p)
    \/ \E c \in Calls : Occupies(c, p)

\* A free port leaves nothing behind that the next clone on it would meet:
\* StopSession and the reverted starts clean up before they free the port.
FreePortIsClean ==
  \A p \in Ports : ~bind[p] => container[p] = NoContainer /\ ~CloneExists(p)

\* A clone at rest has no dataset outside the pool of its session, where
\* StopSession would look for it in vain: holds through resets that move the
\* clone to another pool and fail half way.
NoStrayDataset ==
  \A w \in Wrappers : session[w] # None /\ ~Busy(w) =>
    \A q \in Pools \ {session[w].pool} : dataset[q][session[w].port] = None

=============================================================================
