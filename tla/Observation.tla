----------------------------- MODULE Observation -----------------------------
(***************************************************************************)
(* Observation of a clone: the handlers that start and stop it             *)
(* (internal/srv/routes.go), the goroutine that observes                   *)
(* (internal/observer/observing_clone.go, RunSession), the storage of      *)
(* observing clones (observer.go), and around them the migration checker   *)
(* (internal/runci/handlers.go), which is a client of that API, other      *)
(* clients, and the deletion of the clone by a client or the idle check.   *)
(*                                                                         *)
(* One clone is enough: the storage is keyed by its ID and nothing but     *)
(* that map is shared between clones.  The handlers leave a goroutine and  *)
(* a channel behind them; what is checked is who waits for whom.           *)
(***************************************************************************)
EXTENDS Integers, FiniteSets

CONSTANTS
  Checker,         \* the migration checker
  Users,           \* other clients of the API
  Faults,          \* what may fail: see FaultKinds
  MaxObservations  \* bound: observing clones ever made

FaultKinds == {"connect", "platform", "init", "query", "report", "command"}

ASSUME ObservationAssumption ==
  /\ IsFiniteSet(Users) /\ Checker \notin Users
  /\ Faults \subseteq FaultKinds
  /\ MaxObservations \in Nat

VARIABLES
  clone,     \* the status of the clone, "gone" when it is not registered
  database,  \* is its Postgres up?
  deletion,  \* the goroutine of DestroyClone
  notice,    \* its message in observingCh, for removeObservingClones
  stored,    \* Observer.storage: the observing clone of the clone, or 0
  next,      \* the next observing clone
  obs,       \* the observing clones
  req,       \* the request of a client that is being served
  checker    \* where runCommands is

cloneVars == <<clone, database, deletion, notice>>
observationVars == <<cloneVars, stored, next, obs, req, checker>>

-----------------------------------------------------------------------------
(* States *)

Clients == Users \cup {Checker}
Observations == 1 .. MaxObservations

\* session: c.session is set; runner: RunSession; signal: the one place of the
\* buffer of c.done; finished: FinishedAt is set and the artifacts are listed.
NewObservation ==
  [session |-> FALSE, runner |-> "none", cancelled |-> FALSE,
   signal |-> FALSE, finished |-> FALSE]

ObservationRecords ==
  [session : BOOLEAN,
   runner : {"none", "begin", "wait", "check", "store", "ended", "failed"},
   cancelled : BOOLEAN, signal : BOOLEAN, finished : BOOLEAN]

Served == [at |-> "idle", obs |-> 0, reply |-> "none"]

Requests ==
  [at : {"idle", "add", "platform", "init",
         "mark", "wait", "summarize", "report", "restore"},
   obs : Observations \cup {0}, reply : {"none", "ok", "error"}]

\* The phases of runCommands in which the checker is inside a request.
StopPhases == {"stop", "stop again", "give up"}

ObservationTypeOK ==
  /\ clone \in {"OK", "EXPORTING", "DELETING", "gone"}
  /\ database \in BOOLEAN /\ notice \in BOOLEAN
  /\ deletion \in {"none", "stopping", "deleting"}
  /\ next \in 1 .. MaxObservations + 1
  /\ stored \in 0 .. next - 1
  /\ obs \in [Observations -> ObservationRecords]
  /\ req \in [Clients -> Requests]
  /\ checker \in StopPhases \cup {"start", "commands", "destroy", "over"}

MayFail(what) == what \in Faults

GoTo(c, step) == req' = [req EXCEPT ![c].at = step]
Reply(c, r) == req' = [req EXCEPT ![c] = [Served EXCEPT !.reply = r]]

\* A user sends the next request when it likes, the checker in its phases.
MayRequest(c, phases) ==
  /\ req[c].at = "idle"
  /\ c = Checker => checker \in phases /\ req[c].reply = "none"

-----------------------------------------------------------------------------
(* startObservation *)

\* GetClone, InitConnection and NewObservingClone.
StartConnect(c) ==
  /\ MayRequest(c, {"start"})
  /\ IF clone # "gone" /\ database /\ next <= MaxObservations
       THEN GoTo(c, "add") \/ (MayFail("connect") /\ Reply(c, "error"))
       ELSE Reply(c, "error")
  /\ UNCHANGED <<cloneVars, stored, next, obs, checker>>

\* Mutant of the next definition: an observing clone is used again.
StartAddAgain(c) ==
  /\ req[c].at = "add"
  /\ stored' = next
  /\ req' = [req EXCEPT ![c].at = "platform", ![c].obs = next]
  /\ UNCHANGED <<cloneVars, next, obs, checker>>

\* AddObservingClone: what was stored for the clone is forgotten.
StartAdd(c) ==
  /\ req[c].at = "add"
  /\ IF next <= MaxObservations
       THEN /\ stored' = next
            /\ next' = next + 1
            /\ req' = [req EXCEPT ![c].at = "platform", ![c].obs = next]
       ELSE Reply(c, "error") /\ UNCHANGED <<stored, next>>
  /\ UNCHANGED <<cloneVars, obs, checker>>

\* StartObservationSession, then the first statement of Init.
StartPlatform(c) ==
  /\ req[c].at = "platform"
  /\ \/ obs' = [obs EXCEPT ![req[c].obs].session = TRUE] /\ GoTo(c, "init")
     \/ MayFail("platform") /\ Reply(c, "error") /\ UNCHANGED obs
  /\ UNCHANGED <<cloneVars, stored, next, checker>>

\* The rest of Init, and `go RunSession`.
StartInit(c) ==
  /\ req[c].at = "init"
  /\ \/ /\ database
        /\ obs' = [obs EXCEPT ![req[c].obs].runner = "begin"]
        /\ Reply(c, "ok")
     \/ /\ ~ database \/ MayFail("init")
        /\ Reply(c, "error")
        /\ UNCHANGED obs
  /\ UNCHANGED <<cloneVars, stored, next, checker>>

-----------------------------------------------------------------------------
(* RunSession *)

RunnerGoesTo(o, step) == obs' = [obs EXCEPT ![o].runner = step]

\* Up to the loop; the connection may be closed already.
RunBegin(o) ==
  /\ obs[o].runner = "begin"
  /\ RunnerGoesTo(o, "wait") \/ (~ database /\ RunnerGoesTo(o, "failed"))

\* Mutant of the next definition: an interval without metrics is skipped.
RunQueryUnchecked(o) ==
  /\ obs[o].runner = "wait"
  /\ RunnerGoesTo(o, IF database THEN "check" ELSE "wait")

\* The timer or the cancellation, and the query.
RunQuery(o) ==
  /\ obs[o].runner = "wait"
  /\ \/ database /\ RunnerGoesTo(o, "check")
     \/ (~ database \/ MayFail("query")) /\ RunnerGoesTo(o, "failed")

\* The interval is recorded and the cancellation looked at.
RunCheck(o) ==
  /\ obs[o].runner = "check"
  /\ RunnerGoesTo(o, IF obs[o].cancelled THEN "store" ELSE "wait")

\* Mutant of the next definition: the loop is left without the signal.
RunStoreSilently(o) ==
  /\ obs[o].runner = "store"
  /\ RunnerGoesTo(o, "ended")

\* storeArtifacts, an error of which is logged, and the signal.
RunStore(o) ==
  /\ obs[o].runner = "store"
  /\ obs' = [obs EXCEPT ![o].runner = "ended", ![o].signal = TRUE]

Runner(o) ==
  /\ RunBegin(o) \/ RunQuery(o) \/ RunCheck(o) \/ RunStore(o)
  /\ UNCHANGED <<cloneVars, stored, next, req, checker>>

-----------------------------------------------------------------------------
(* stopObservation *)

\* GetObservingClone and GetClone.
StopFind(c) ==
  /\ MayRequest(c, StopPhases)
  /\ IF stored # 0 /\ clone # "gone"
       THEN req' = [req EXCEPT ![c].at = "mark", ![c].obs = stored]
       ELSE Reply(c, "error")
  /\ UNCHANGED <<cloneVars, stored, next, obs, checker>>

\* The status, and Stop up to the channel.  Without a session Stop panics; the
\* server recovers, and the deferred update of the status is run.
StopMark(c) ==
  /\ req[c].at = "mark"
  /\ IF clone = "gone"
       THEN Reply(c, "error") /\ UNCHANGED <<clone, obs>>
       ELSE /\ clone' = "EXPORTING"
            /\ IF obs[req[c].obs].session
                 THEN /\ obs' = [obs EXCEPT ![req[c].obs].cancelled = TRUE]
                      /\ GoTo(c, "wait")
                 ELSE /\ req' = [req EXCEPT ![c].at = "restore", ![c].reply = "error"]
                      /\ UNCHANGED obs
  /\ UNCHANGED <<database, deletion, notice, stored, next, checker>>

\* Mutant of the next definition: Stop does not wait for a runner that has not begun.
StopReceiveEarly(c) ==
  /\ req[c].at = "wait"
  /\ obs[req[c].obs].signal \/ obs[req[c].obs].runner = "begin"
  /\ obs' = [obs EXCEPT ![req[c].obs].signal = FALSE]
  /\ GoTo(c, "summarize")
  /\ UNCHANGED <<cloneVars, stored, next, checker>>

\* Mutant of the next definition: nothing is summarised for a clone that is gone.
StopReceiveDrops(c) ==
  /\ req[c].at = "wait"
  /\ obs[req[c].obs].signal
  /\ obs' = [obs EXCEPT ![req[c].obs].signal = FALSE]
  /\ GoTo(c, IF clone = "gone" THEN "restore" ELSE "summarize")
  /\ UNCHANGED <<cloneVars, stored, next, checker>>

\* <-c.done
StopReceive(c) ==
  /\ req[c].at = "wait"
  /\ obs[req[c].obs].signal
  /\ obs' = [obs EXCEPT ![req[c].obs].signal = FALSE]
  /\ GoTo(c, "summarize")
  /\ UNCHANGED <<cloneVars, stored, next, checker>>

\* summarize, storeSummary and AddArtifact
StopSummarize(c) ==
  /\ req[c].at = "summarize"
  /\ obs' = [obs EXCEPT ![req[c].obs].finished = TRUE]
  /\ GoTo(c, "report")
  /\ UNCHANGED <<cloneVars, stored, next, checker>>

\* Mutant of the next definition: a return without the deferred function.
StopReportReturns(c) ==
  /\ req[c].at = "report"
  /\ \/ req' = [req EXCEPT ![c].at = "restore", ![c].reply = "ok"]
     \/ MayFail("report") /\ Reply(c, "error")
  /\ UNCHANGED <<cloneVars, stored, next, obs, checker>>

\* StopObservationSession on the Platform; errors of the uploads are logged.
StopReport(c) ==
  /\ req[c].at = "report"
  /\ \/ req' = [req EXCEPT ![c].at = "restore", ![c].reply = "ok"]
     \/ MayFail("report") /\ req' = [req EXCEPT ![c].at = "restore", ![c].reply = "error"]
  /\ UNCHANGED <<cloneVars, stored, next, obs, checker>>

\* Mutant of the next definition: the status is restored on success only.
StopRestoreOnSuccess(c) ==
  /\ req[c].at = "restore"
  /\ clone' = IF clone = "gone" \/ req[c].reply = "error" THEN clone ELSE "OK"
  /\ Reply(c, req[c].reply)
  /\ UNCHANGED <<database, deletion, notice, stored, next, obs, checker>>

\* Deferred: the status is OK again, if the clone is still there.
StopRestore(c) ==
  /\ req[c].at = "restore"
  /\ clone' = IF clone = "gone" THEN clone ELSE "OK"
  /\ Reply(c, req[c].reply)
  /\ UNCHANGED <<database, deletion, notice, stored, next, obs, checker>>

Handler(c) ==
  \/ StartAdd(c) \/ StartPlatform(c) \/ StartInit(c)
  \/ StopMark(c) \/ StopReceive(c) \/ StopSummarize(c) \/ StopReport(c) \/ StopRestore(c)

-----------------------------------------------------------------------------
(* The migration checker: runCommands and the end of runMigration *)

CheckerGoesTo(phase) ==
  /\ checker' = phase
  /\ req' = [req EXCEPT ![Checker] = Served]
  /\ UNCHANGED <<cloneVars, stored, next, obs>>

\* A second stop, with OverallError, follows a failed one: the session it has
\* returned is not finished.
CheckReply ==
  /\ req[Checker].at = "idle" /\ req[Checker].reply # "none"
  /\ \/ /\ checker = "start"
        /\ CheckerGoesTo(IF req[Checker].reply = "ok" THEN "commands" ELSE "over")
     \/ /\ checker = "stop"
        /\ CheckerGoesTo(IF req[Checker].reply = "ok" THEN "destroy" ELSE "stop again")
     \/ checker = "stop again" /\ CheckerGoesTo("destroy")
     \/ checker = "give up" /\ CheckerGoesTo("over")

\* The commands of the migration; a failed one stops the observation as well.
CheckCommands ==
  /\ checker = "commands"
  /\ CheckerGoesTo("stop") \/ (MayFail("command") /\ CheckerGoesTo("give up"))

\* KeepClone
CheckKeep ==
  /\ checker = "destroy"
  /\ CheckerGoesTo("over")

-----------------------------------------------------------------------------
(* Deletion of the clone *)

\* Base.DestroyClone; the overlap of two is the matter of module Cloning.
DestroyClone ==
  /\ clone # "gone" /\ deletion = "none"
  /\ clone' = "DELETING"
  /\ deletion' = "stopping"
  /\ UNCHANGED <<database, notice, stored, next, obs, req>>

UserDestroys == DestroyClone /\ UNCHANGED checker

CheckDestroy ==
  /\ checker = "destroy"
  /\ DestroyClone
  /\ checker' = "over"

\* What isIdleClone finds long after the commands: nobody queries the database.
Unused ==
  /\ checker \notin {"start", "commands"}
  /\ \A o \in Observations : obs[o].runner \in {"none", "ended", "failed"}
  /\ \A c \in Clients : req[c].at \in {"idle", "wait"}

IdleDestroys == Unused /\ clone # "EXPORTING" /\ DestroyClone /\ UNCHANGED checker

\* StopSession takes the container down.
StopSession ==
  /\ deletion = "stopping"
  /\ database' = FALSE
  /\ deletion' = "deleting"
  /\ UNCHANGED <<clone, notice, stored, next, obs, req, checker>>

\* deleteClone and the message.
DeleteClone ==
  /\ deletion = "deleting"
  /\ clone' = "gone"
  /\ notice' = TRUE
  /\ deletion' = "none"
  /\ UNCHANGED <<database, stored, next, obs, req, checker>>

RemoveObservingClone ==
  /\ notice
  /\ notice' = FALSE
  /\ stored' = 0
  /\ UNCHANGED <<clone, database, deletion, next, obs, req, checker>>

-----------------------------------------------------------------------------
(* Specification *)

Init ==
  /\ clone = "OK" /\ database = TRUE /\ deletion = "none" /\ notice = FALSE
  /\ stored = 0 /\ next = 1
  /\ obs = [o \in Observations |-> NewObservation]
  /\ req = [c \in Clients |-> Served]
  /\ checker = "start"

CheckerRequests ==
  \/ StartConnect(Checker) \/ StopFind(Checker)
  \/ CheckReply \/ CheckCommands \/ CheckKeep \/ CheckDestroy

Deletion == StopSession \/ DeleteClone \/ RemoveObservingClone

Next ==
  \/ \E u \in Users : StartConnect(u) \/ StopFind(u)
  \/ \E c \in Clients : Handler(c)
  \/ \E o \in Observations : Runner(o)
  \/ CheckerRequests
  \/ UserDestroys
  \/ IdleDestroys
  \/ Deletion

ObservationSpec == Init /\ [][Next]_observationVars

\* Goroutines that can go on do; the idle check comes round again.  Users and
\* commands of a migration owe nothing but an end of the commands.
FairObservationSpec ==
  /\ ObservationSpec
  /\ \A c \in Clients : WF_observationVars(Handler(c))
  /\ \A o \in Observations : WF_observationVars(Runner(o))
  /\ WF_observationVars(CheckerRequests)
  /\ WF_observationVars(IdleDestroys)
  /\ WF_observationVars(Deletion)

-----------------------------------------------------------------------------
(* Properties *)

\* A session is summarised by one handler, and not before its runner has
\* recorded the last interval and stored the artifacts: summarize reads and
\* writes the Result without a lock.
SummaryOfWholeRun ==
  \A o \in Observations :
    LET summarizing == {c \in Clients : req[c].at = "summarize" /\ req[c].obs = o}
    IN /\ obs[o].finished \/ summarizing # {} => obs[o].runner = "ended" /\ ~ obs[o].signal
       /\ obs[o].finished => summarizing = {}
       /\ \A c, d \in summarizing : c = d

\* The signal of a runner that has ended is not lost: it is in the channel, or
\* a handler has taken it and the session is, or is being, summarised.
SignalKept ==
  \A o \in Observations :
    obs[o].runner = "ended" =>
      \/ obs[o].signal \/ obs[o].finished
      \/ \E c \in Clients : req[c].at = "summarize" /\ req[c].obs = o

\* A clone shown as EXPORTING has a handler that is going to restore the
\* status, whichever way that handler ends.
ExportingIsServed ==
  clone = "EXPORTING" =>
    \E c \in Clients : req[c].at \in {"wait", "summarize", "report", "restore"}

\* The three reasons for which a stop never returns: Init failed after it had
\* set the session, the runner met an error of the database, or another stop
\* has taken the signal.
NeverSignals(o) ==
  \/ obs[o].runner = "failed"
  \/ obs[o].runner = "none" /\ \A c \in Clients : ~ (req[c].at = "init" /\ req[c].obs = o)
  \/ obs[o].finished \/ \E c \in Clients : req[c].at = "summarize" /\ req[c].obs = o

StuckStop(c) == req[c].at = "wait" /\ NeverSignals(req[c].obs)

\* There is no other reason: each stop returns or is stuck for one of them.
StopEnds == \A c \in Clients : req[c].at = "wait" ~> req[c].at # "wait" \/ StuckStop(c)

\* A migration check ends, or waits for a stop that is stuck, whatever fails
\* and whatever other clients do to its clone.
CheckEnds == <>(checker = "over" \/ StuckStop(Checker))

\* Nobody observes a clone that is gone: the runner fails at its next query.
RunnersEnd ==
  \A o \in Observations :
    clone = "gone" ~> obs[o].runner \in {"none", "ended", "failed"}

\* README.md: "Unused clones are automatically deleted."
UnusedCloneIsDeleted == []<>(~ Unused \/ clone = "gone")

\* So they are, unless a stop that is stuck has left the clone EXPORTING.
UnusedCloneIsDeletedUnlessStuck ==
  []<>(~ Unused \/ clone = "gone" \/ (clone = "EXPORTING" /\ \E c \in Clients : StuckStop(c)))

=============================================================================
