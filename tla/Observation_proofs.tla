-------------------------- MODULE Observation_proofs --------------------------
(***************************************************************************)
(* Proofs about module Observation: types, who summarises a session and    *)
(* when, that the signal of a runner is not lost, and that a clone shown   *)
(* as EXPORTING has a handler that will restore it; for any number of      *)
(* clients and observations and for every set of faults.                   *)
(***************************************************************************)
EXTENDS Observation, TLAPS

-----------------------------------------------------------------------------
(* The inductive invariant *)

Starting == {"platform", "init"}

\* The steps at which a handler uses the observing clone it has made or found.
Using == {"platform", "init", "mark", "wait", "summarize", "report"}

\* It is one that has been made.
UsesMade == \A c \in Clients : req[c].at \in Using => req[c].obs \in 1 .. next - 1

\* Those that have not been made are blank.
Blank == \A o \in Observations : o >= next => obs[o] = NewObservation

\* A handler that starts an observation has it for itself, and runs it once.
StartsAlone ==
  /\ \A c \in Clients : req[c].at \in Starting => obs[req[c].obs].runner = "none"
  /\ \A c, d \in Clients :
       req[c].at \in Starting /\ req[d].at \in Starting /\ req[c].obs = req[d].obs => c = d

\* A signal comes from a runner that has ended.
SignalAtEnd == \A o \in Observations : obs[o].signal => obs[o].runner = "ended"

\* SummaryOfWholeRun without sets: who summarises does so alone, after the
\* runner, once.
Summarizes(c, o) == req[c].at = "summarize" /\ req[c].obs = o

SummarizesAlone ==
  \A c \in Clients, o \in Observations :
    Summarizes(c, o) =>
      /\ obs[o].runner = "ended" /\ ~ obs[o].signal /\ ~ obs[o].finished
      /\ \A d \in Clients : Summarizes(d, o) => c = d

FinishedAtEnd ==
  \A o \in Observations : obs[o].finished => obs[o].runner = "ended" /\ ~ obs[o].signal

\* The checker is inside a request in the phases of requests only.
CheckerWaits == checker \in {"commands", "destroy", "over"} => req[Checker].at = "idle"

SummaryInv ==
  /\ ObservationTypeOK
  /\ UsesMade /\ Blank /\ StartsAlone
  /\ SignalAtEnd /\ SummarizesAlone /\ FinishedAtEnd
  /\ CheckerWaits
  /\ SignalKept /\ ExportingIsServed

-----------------------------------------------------------------------------

LEMMA InvInit == Init => SummaryInv
<1> SUFFICES ASSUME Init PROVE SummaryInv
  OBVIOUS
<1> USE ObservationAssumption DEF ObservationAssumption, Init
<1>1. ObservationTypeOK
  <2>1. NewObservation \in ObservationRecords
    BY DEF NewObservation, ObservationRecords
  <2>2. Served \in Requests
    BY DEF Served, Requests
  <2>3. next \in 1 .. MaxObservations + 1 /\ stored \in 0 .. next - 1
    OBVIOUS
  <2>4. QED
    BY <2>1, <2>2, <2>3 DEF ObservationTypeOK
<1>2. QED
  BY <1>1 DEF SummaryInv, UsesMade, Using, Blank, StartsAlone, Starting, SignalAtEnd,
              SummarizesAlone, Summarizes, FinishedAtEnd, CheckerWaits, SignalKept,
              ExportingIsServed, Served, NewObservation, Observations, Clients

LEMMA CheckerIsClient == Checker \in Clients
BY DEF Clients

\* The requests of clients.
\* What the steps write into an observing clone is of its type.
LEMMA FieldsKeepType ==
  ASSUME NEW x \in ObservationRecords
  PROVE  /\ [x EXCEPT !.session = TRUE] \in ObservationRecords
         /\ [x EXCEPT !.cancelled = TRUE] \in ObservationRecords
         /\ [x EXCEPT !.signal = FALSE] \in ObservationRecords
         /\ [x EXCEPT !.finished = TRUE] \in ObservationRecords
         /\ [x EXCEPT !.runner = "begin"] \in ObservationRecords
BY DEF ObservationRecords

LEMMA StartConnectStep ==
  ASSUME SummaryInv, NEW c \in Clients, StartConnect(c)
  PROVE  SummaryInv'
<1> USE ObservationAssumption, CheckerIsClient DEF ObservationAssumption
<1>1. req[c].at = "idle" /\ req'[c].at \in {"idle", "add"}
      /\ (c = Checker => checker = "start")
  BY DEF StartConnect, MayRequest, GoTo, Reply, SummaryInv, ObservationTypeOK, Requests, Served
<1>2. \A d \in Clients : d # c => req'[d] = req[d]
  BY DEF StartConnect, GoTo, Reply, SummaryInv, ObservationTypeOK
<1>3. req' \in [Clients -> Requests]
  BY DEF StartConnect, GoTo, Reply, SummaryInv, ObservationTypeOK, Requests, Served
<1>4. UNCHANGED <<cloneVars, stored, next, obs, checker>>
  BY DEF StartConnect
<1>5. ObservationTypeOK'
  BY <1>3, <1>4 DEF SummaryInv, ObservationTypeOK, cloneVars
<1>6. QED
  BY <1>1, <1>2, <1>4, <1>5
  DEF SummaryInv, UsesMade, Using, Blank, StartsAlone, Starting, SignalAtEnd, SummarizesAlone,
      Summarizes, FinishedAtEnd, CheckerWaits, SignalKept, ExportingIsServed, cloneVars

LEMMA StartAddStep ==
  ASSUME SummaryInv, NEW c \in Clients, StartAdd(c)
  PROVE  SummaryInv'
<1> USE ObservationAssumption, CheckerIsClient DEF ObservationAssumption
<1>1. req[c].at = "add" /\ UNCHANGED <<cloneVars, obs, checker>>
  BY DEF StartAdd
<1>2. \A d \in Clients : d # c => req'[d] = req[d]
  BY DEF StartAdd, Reply, SummaryInv, ObservationTypeOK
<1>3. CASE next <= MaxObservations
  <2>1. stored' = next /\ next' = next + 1 /\ next \in Observations
    BY <1>3 DEF StartAdd, SummaryInv, ObservationTypeOK, Observations
  <2>2. req'[c].at = "platform" /\ req'[c].obs = next /\ req' \in [Clients -> Requests]
    BY <1>3, <2>1 DEF StartAdd, SummaryInv, ObservationTypeOK, Requests
  <2>3. obs[next] = NewObservation
    BY <2>1 DEF SummaryInv, Blank, ObservationTypeOK
  <2>4. ObservationTypeOK'
    BY <1>1, <2>1, <2>2 DEF SummaryInv, ObservationTypeOK, Observations, cloneVars
  <2>5. \A d \in Clients : req[d].at \in Using => req[d].obs # next
    BY DEF SummaryInv, UsesMade, ObservationTypeOK
  <2>6. QED
    BY <1>1, <1>2, <2>1, <2>2, <2>3, <2>4, <2>5
    DEF NewObservation, ObservationTypeOK,
      SummaryInv, UsesMade, Using, Blank, StartsAlone, Starting, SignalAtEnd, SummarizesAlone,
      Summarizes, FinishedAtEnd, CheckerWaits, SignalKept, ExportingIsServed, cloneVars
<1>4. CASE ~ next <= MaxObservations
  <2>1. req'[c].at = "idle" /\ req' \in [Clients -> Requests] /\ UNCHANGED <<stored, next>>
    BY <1>4 DEF StartAdd, Reply, SummaryInv, ObservationTypeOK, Requests, Served
  <2>2. ObservationTypeOK'
    BY <1>1, <2>1 DEF SummaryInv, ObservationTypeOK, cloneVars
  <2>3. QED
    BY <1>1, <1>2, <2>1, <2>2
    DEF SummaryInv, UsesMade, Using, Blank, StartsAlone, Starting, SignalAtEnd, SummarizesAlone,
      Summarizes, FinishedAtEnd, CheckerWaits, SignalKept, ExportingIsServed, cloneVars
<1>5. QED
  BY <1>3, <1>4

LEMMA StartPlatformStep ==
  ASSUME SummaryInv, NEW c \in Clients, StartPlatform(c)
  PROVE  SummaryInv'
<1> USE ObservationAssumption, CheckerIsClient DEF ObservationAssumption
<1> DEFINE o == req[c].obs
<1>1. req[c].at = "platform" /\ o \in Observations /\ UNCHANGED <<cloneVars, stored, next, checker>>
  BY DEF StartPlatform, SummaryInv, UsesMade, Using, ObservationTypeOK, Observations
<1>2. \A d \in Clients : d # c => req'[d] = req[d]
  BY DEF StartPlatform, GoTo, Reply, SummaryInv, ObservationTypeOK
<1>3. /\ req' \in [Clients -> Requests]
      /\ (req'[c].at = "init" /\ req'[c].obs = o) \/ req'[c].at = "idle"
  BY DEF StartPlatform, GoTo, Reply, SummaryInv, ObservationTypeOK, Requests, Served
<1>4. obs' \in [Observations -> ObservationRecords]
  <2>1. obs' = [obs EXCEPT ![req[c].obs].session = TRUE] \/ UNCHANGED obs
    BY DEF StartPlatform
  <2>2. CASE obs' = [obs EXCEPT ![req[c].obs].session = TRUE]
    BY <1>1, <2>2, FieldsKeepType DEF SummaryInv, ObservationTypeOK
  <2>3. CASE UNCHANGED obs
    BY <2>3 DEF SummaryInv, ObservationTypeOK
  <2>4. QED
    BY <2>1, <2>2, <2>3
<1>5. \A p \in Observations :
        /\ p # o => obs'[p] = obs[p]
        /\ obs'[p].runner = obs[p].runner /\ obs'[p].signal = obs[p].signal
        /\ obs'[p].finished = obs[p].finished
  BY <1>1 DEF StartPlatform, SummaryInv, ObservationTypeOK, ObservationRecords
<1>6. ObservationTypeOK'
  BY <1>1, <1>3, <1>4 DEF SummaryInv, ObservationTypeOK, cloneVars
<1>7. o < next
  BY <1>1 DEF SummaryInv, UsesMade, Using, ObservationTypeOK
<1>8. UsesMade' /\ StartsAlone' /\ CheckerWaits' /\ ExportingIsServed'
  <2>1. UsesMade'
    BY <1>1, <1>2, <1>3 DEF SummaryInv, UsesMade, Using
  <2>2. StartsAlone'
    BY <1>1, <1>2, <1>3, <1>5
    DEF SummaryInv, StartsAlone, Starting, UsesMade, Using, ObservationTypeOK, Observations
  <2>3. CheckerWaits'
    BY <1>1, <1>2, <1>3 DEF SummaryInv, CheckerWaits
  <2>4. ExportingIsServed'
    BY <1>1, <1>2, <1>3 DEF SummaryInv, ExportingIsServed, cloneVars
  <2>5. QED
    BY <2>1, <2>2, <2>3, <2>4
<1>9. Blank' /\ SignalAtEnd' /\ SummarizesAlone' /\ FinishedAtEnd' /\ SignalKept'
  <2>1. Blank'
    BY <1>1, <1>5 DEF SummaryInv, ObservationTypeOK, UsesMade, Using, Blank, Observations
  <2>2. SignalAtEnd' /\ FinishedAtEnd'
    BY <1>1, <1>5, <1>7 DEF SummaryInv, SignalAtEnd, FinishedAtEnd
  <2>3. SummarizesAlone'
    BY <1>1, <1>2, <1>3, <1>5, <1>7 DEF SummaryInv, SummarizesAlone, Summarizes
  <2>4. SignalKept'
    BY <1>1, <1>2, <1>3, <1>5, <1>7 DEF SummaryInv, SignalKept
  <2>5. QED
    BY <2>1, <2>2, <2>3, <2>4
<1>10. QED
  BY <1>6, <1>8, <1>9 DEF SummaryInv

LEMMA StartInitStep ==
  ASSUME SummaryInv, NEW c \in Clients, StartInit(c)
  PROVE  SummaryInv'
<1> USE ObservationAssumption, CheckerIsClient DEF ObservationAssumption
<1> DEFINE o == req[c].obs
<1>1. req[c].at = "init" /\ o \in Observations /\ UNCHANGED <<cloneVars, stored, next, checker>>
  BY DEF StartInit, SummaryInv, UsesMade, Using, ObservationTypeOK, Observations
<1>2. \A d \in Clients : d # c => req'[d] = req[d]
  BY DEF StartInit, Reply, SummaryInv, ObservationTypeOK
<1>3. req' \in [Clients -> Requests] /\ req'[c].at = "idle"
  BY DEF StartInit, Reply, SummaryInv, ObservationTypeOK, Requests, Served
<1>4. obs' \in [Observations -> ObservationRecords]
  <2>1. obs' = [obs EXCEPT ![req[c].obs].runner = "begin"] \/ UNCHANGED obs
    BY DEF StartInit
  <2>2. CASE obs' = [obs EXCEPT ![req[c].obs].runner = "begin"]
    BY <1>1, <2>2, FieldsKeepType DEF SummaryInv, ObservationTypeOK
  <2>3. CASE UNCHANGED obs
    BY <2>3 DEF SummaryInv, ObservationTypeOK
  <2>4. QED
    BY <2>1, <2>2, <2>3
<1>5. \A p \in Observations :
        /\ p # o => obs'[p] = obs[p]
        /\ obs'[p].signal = obs[p].signal /\ obs'[p].finished = obs[p].finished
  BY <1>1 DEF StartInit, SummaryInv, ObservationTypeOK, ObservationRecords
<1>6. obs[o].runner = "none" /\ obs'[o].runner \in {"none", "begin"} /\ o < next
  BY <1>1 DEF StartInit, SummaryInv, StartsAlone, Starting, UsesMade, Using,
              ObservationTypeOK, ObservationRecords
<1>7. ObservationTypeOK'
  BY <1>1, <1>3, <1>4 DEF SummaryInv, ObservationTypeOK, cloneVars
<1>8. \A d \in Clients : d # c /\ req[d].at \in Starting => req[d].obs # o
  BY <1>1 DEF SummaryInv, StartsAlone, Starting
<1>9. UsesMade' /\ StartsAlone' /\ CheckerWaits' /\ ExportingIsServed'
  <2>1. UsesMade'
    BY <1>1, <1>2, <1>3 DEF SummaryInv, UsesMade, Using
  <2>2. StartsAlone'
    BY <1>1, <1>2, <1>3, <1>5, <1>6, <1>8
    DEF SummaryInv, StartsAlone, Starting, UsesMade, Using, ObservationTypeOK, Observations
  <2>3. CheckerWaits'
    BY <1>1, <1>2, <1>3 DEF SummaryInv, CheckerWaits
  <2>4. ExportingIsServed'
    BY <1>1, <1>2, <1>3 DEF SummaryInv, ExportingIsServed, cloneVars
  <2>5. QED
    BY <2>1, <2>2, <2>3, <2>4
<1>10. Blank' /\ SignalAtEnd' /\ SummarizesAlone' /\ FinishedAtEnd' /\ SignalKept'
  <2>1. Blank'
    BY <1>1, <1>5 DEF SummaryInv, ObservationTypeOK, UsesMade, Using, Blank, Observations
  <2>2. SignalAtEnd' /\ FinishedAtEnd'
    BY <1>1, <1>5, <1>6 DEF SummaryInv, SignalAtEnd, FinishedAtEnd
  <2>3. SummarizesAlone'
    BY <1>1, <1>2, <1>3, <1>5, <1>6 DEF SummaryInv, SummarizesAlone, Summarizes
  <2>4. SignalKept'
    BY <1>1, <1>2, <1>3, <1>5, <1>6 DEF SummaryInv, SignalKept
  <2>5. QED
    BY <2>1, <2>2, <2>3, <2>4
<1>11. QED
  BY <1>7, <1>9, <1>10 DEF SummaryInv

LEMMA StopFindStep ==
  ASSUME SummaryInv, NEW c \in Clients, StopFind(c)
  PROVE  SummaryInv'
<1> USE ObservationAssumption, CheckerIsClient DEF ObservationAssumption
<1>1. req[c].at = "idle" /\ UNCHANGED <<cloneVars, stored, next, obs, checker>>
      /\ (c = Checker => checker \in StopPhases)
  BY DEF StopFind, MayRequest
<1>2. \A d \in Clients : d # c => req'[d] = req[d]
  BY DEF StopFind, Reply, SummaryInv, ObservationTypeOK
<1>3. stored # 0 => stored \in Observations
  BY DEF SummaryInv, ObservationTypeOK, Observations
<1>4. /\ req' \in [Clients -> Requests]
      /\ \/ req'[c].at = "mark" /\ req'[c].obs = stored /\ stored # 0
         \/ req'[c].at = "idle"
  BY <1>3 DEF StopFind, Reply, SummaryInv, ObservationTypeOK, Requests, Served
<1>5. ObservationTypeOK'
  BY <1>1, <1>4 DEF SummaryInv, ObservationTypeOK, cloneVars
<1>6. stored # 0 => stored \in 1 .. next - 1
  BY DEF SummaryInv, ObservationTypeOK
<1>7. UsesMade'
  BY <1>1, <1>2, <1>4, <1>6 DEF SummaryInv, UsesMade, Using
<1>8. CheckerWaits' /\ StartsAlone'
  BY <1>1, <1>2, <1>4 DEF SummaryInv, CheckerWaits, StopPhases, StartsAlone, Starting
<1>9. SummarizesAlone' /\ SignalKept' /\ ExportingIsServed'
  BY <1>1, <1>2, <1>4
  DEF SummaryInv, SummarizesAlone, Summarizes, SignalKept, ExportingIsServed, cloneVars
<1>10. QED
  BY <1>1, <1>5, <1>7, <1>8, <1>9
  DEF SummaryInv, Blank, SignalAtEnd, FinishedAtEnd

\* Stop sets the status and cancels.

LEMMA StopMarkStep ==
  ASSUME SummaryInv, NEW c \in Clients, StopMark(c)
  PROVE  SummaryInv'
<1> USE ObservationAssumption, CheckerIsClient DEF ObservationAssumption
<1> DEFINE o == req[c].obs
<1>1. /\ req[c].at = "mark" /\ o \in Observations /\ o < next
      /\ UNCHANGED <<database, deletion, notice, stored, next, checker>>
  BY DEF StopMark, SummaryInv, UsesMade, Using, ObservationTypeOK, Observations
<1>2. \A d \in Clients : d # c => req'[d] = req[d]
  BY DEF StopMark, GoTo, Reply, SummaryInv, ObservationTypeOK
<1>3. /\ req' \in [Clients -> Requests]
      /\ \/ req'[c].at = "wait" /\ req'[c].obs = o
         \/ req'[c].at = "restore"
         \/ req'[c].at = "idle" /\ clone' = "gone"
  BY DEF StopMark, GoTo, Reply, SummaryInv, ObservationTypeOK, Requests, Served
<1>4. obs' \in [Observations -> ObservationRecords]
  <2>1. obs' = [obs EXCEPT ![req[c].obs].cancelled = TRUE] \/ UNCHANGED obs
    BY DEF StopMark
  <2>2. CASE obs' = [obs EXCEPT ![req[c].obs].cancelled = TRUE]
    BY <1>1, <2>2, FieldsKeepType DEF SummaryInv, ObservationTypeOK
  <2>3. CASE UNCHANGED obs
    BY <2>3 DEF SummaryInv, ObservationTypeOK
  <2>4. QED
    BY <2>1, <2>2, <2>3
<1>5. \A p \in Observations :
        /\ p # o => obs'[p] = obs[p]
        /\ obs'[p].runner = obs[p].runner /\ obs'[p].signal = obs[p].signal
        /\ obs'[p].finished = obs[p].finished
  BY <1>1 DEF StopMark, SummaryInv, ObservationTypeOK, ObservationRecords
<1>6. clone' = "EXPORTING" \/ UNCHANGED clone
  BY DEF StopMark
<1>7. ObservationTypeOK'
  BY <1>1, <1>3, <1>4, <1>6 DEF SummaryInv, ObservationTypeOK
<1>8. UsesMade' /\ CheckerWaits'
  BY <1>1, <1>2, <1>3 DEF SummaryInv, UsesMade, Using, CheckerWaits
<1>9. StartsAlone'
  BY <1>1, <1>2, <1>3, <1>5
  DEF SummaryInv, StartsAlone, Starting, UsesMade, Using, ObservationTypeOK, Observations
<1>10. Blank' /\ SignalAtEnd' /\ FinishedAtEnd'
  BY <1>1, <1>5 DEF SummaryInv, Blank, SignalAtEnd, FinishedAtEnd, ObservationTypeOK, Observations
<1>11. SummarizesAlone' /\ SignalKept'
  <2>1. \A d \in Clients, p \in Observations :
          req'[d].at = "summarize" /\ req'[d].obs = p <=> req[d].at = "summarize" /\ req[d].obs = p
    BY <1>1, <1>2, <1>3
  <2>2. SummarizesAlone'
    BY <1>5, <2>1 DEF SummaryInv, SummarizesAlone, Summarizes
  <2>3. SignalKept'
    BY <1>5, <2>1 DEF SummaryInv, SignalKept
  <2>4. QED
    BY <2>2, <2>3
<1>12. ExportingIsServed'
  BY <1>1, <1>2, <1>3, <1>6 DEF SummaryInv, ExportingIsServed
<1>13. QED
  BY <1>7, <1>8, <1>9, <1>10, <1>11, <1>12 DEF SummaryInv

\* The signal is taken by one handler, the only one to summarise.

LEMMA StopReceiveStep ==
  ASSUME SummaryInv, NEW c \in Clients, StopReceive(c)
  PROVE  SummaryInv'
<1> USE ObservationAssumption, CheckerIsClient DEF ObservationAssumption
<1> DEFINE o == req[c].obs
<1>1. /\ req[c].at = "wait" /\ o \in Observations /\ o < next
      /\ UNCHANGED <<cloneVars, stored, next, checker>>
  BY DEF StopReceive, SummaryInv, UsesMade, Using, ObservationTypeOK, Observations
<1>2. \A d \in Clients : d # c => req'[d] = req[d]
  BY DEF StopReceive, GoTo, SummaryInv, ObservationTypeOK
<1>3. req' \in [Clients -> Requests] /\ req'[c].at = "summarize" /\ req'[c].obs = o
  BY DEF StopReceive, GoTo, SummaryInv, ObservationTypeOK, Requests
<1>4. obs' \in [Observations -> ObservationRecords]
  BY <1>1, FieldsKeepType DEF StopReceive, SummaryInv, ObservationTypeOK
<1>5. \A p \in Observations :
        /\ p # o => obs'[p] = obs[p]
        /\ obs'[p].runner = obs[p].runner /\ obs'[p].finished = obs[p].finished
  BY <1>1 DEF StopReceive, SummaryInv, ObservationTypeOK, ObservationRecords
<1>6. obs[o].signal /\ ~ obs'[o].signal
  BY <1>1 DEF StopReceive, SummaryInv, ObservationTypeOK, ObservationRecords
<1>7. /\ obs[o].runner = "ended" /\ ~ obs[o].finished
      /\ \A d \in Clients : ~ Summarizes(d, o)
  BY <1>1, <1>6 DEF SummaryInv, SignalAtEnd, FinishedAtEnd, SummarizesAlone
<1>8. ObservationTypeOK'
  BY <1>1, <1>3, <1>4 DEF SummaryInv, ObservationTypeOK, cloneVars
<1>9. UsesMade' /\ CheckerWaits'
  BY <1>1, <1>2, <1>3 DEF SummaryInv, UsesMade, Using, CheckerWaits
<1>10. StartsAlone'
  BY <1>1, <1>2, <1>3, <1>5
  DEF SummaryInv, StartsAlone, Starting, UsesMade, Using, ObservationTypeOK, Observations
<1>11. Blank' /\ SignalAtEnd' /\ FinishedAtEnd'
  BY <1>1, <1>5, <1>6, <1>7
  DEF SummaryInv, Blank, SignalAtEnd, FinishedAtEnd, ObservationTypeOK, Observations
<1>12. SummarizesAlone'
  BY <1>1, <1>2, <1>3, <1>5, <1>6, <1>7 DEF SummaryInv, SummarizesAlone, Summarizes
<1>13. SignalKept'
  BY <1>1, <1>2, <1>3, <1>5 DEF SummaryInv, SignalKept
<1>14. ExportingIsServed'
  BY <1>1, <1>2, <1>3 DEF SummaryInv, ExportingIsServed, cloneVars
<1>15. QED
  BY <1>8, <1>9, <1>10, <1>11, <1>12, <1>13, <1>14 DEF SummaryInv

LEMMA StopSummarizeStep ==
  ASSUME SummaryInv, NEW c \in Clients, StopSummarize(c)
  PROVE  SummaryInv'
<1> USE ObservationAssumption, CheckerIsClient DEF ObservationAssumption
<1> DEFINE o == req[c].obs
<1>1. /\ req[c].at = "summarize" /\ o \in Observations /\ o < next
      /\ UNCHANGED <<cloneVars, stored, next, checker>>
  BY DEF StopSummarize, SummaryInv, UsesMade, Using, ObservationTypeOK, Observations
<1>2. \A d \in Clients : d # c => req'[d] = req[d]
  BY DEF StopSummarize, GoTo, SummaryInv, ObservationTypeOK
<1>3. req' \in [Clients -> Requests] /\ req'[c].at = "report" /\ req'[c].obs = o
  BY DEF StopSummarize, GoTo, SummaryInv, ObservationTypeOK, Requests
<1>4. obs' \in [Observations -> ObservationRecords]
  BY <1>1, FieldsKeepType DEF StopSummarize, SummaryInv, ObservationTypeOK
<1>5. \A p \in Observations :
        /\ p # o => obs'[p] = obs[p]
        /\ obs'[p].runner = obs[p].runner /\ obs'[p].signal = obs[p].signal
  BY <1>1 DEF StopSummarize, SummaryInv, ObservationTypeOK, ObservationRecords
<1>6. obs'[o].finished
  BY <1>1 DEF StopSummarize, SummaryInv, ObservationTypeOK, ObservationRecords
<1>7. /\ obs[o].runner = "ended" /\ ~ obs[o].signal
      /\ \A d \in Clients : Summarizes(d, o) => d = c
  BY <1>1 DEF SummaryInv, SummarizesAlone, Summarizes
<1>8. ObservationTypeOK'
  BY <1>1, <1>3, <1>4 DEF SummaryInv, ObservationTypeOK, cloneVars
<1>9. UsesMade' /\ CheckerWaits'
  BY <1>1, <1>2, <1>3 DEF SummaryInv, UsesMade, Using, CheckerWaits
<1>10. StartsAlone'
  BY <1>1, <1>2, <1>3, <1>5
  DEF SummaryInv, StartsAlone, Starting, UsesMade, Using, ObservationTypeOK, Observations
<1>11. Blank' /\ SignalAtEnd' /\ FinishedAtEnd'
  BY <1>1, <1>5, <1>7
  DEF SummaryInv, Blank, SignalAtEnd, FinishedAtEnd, ObservationTypeOK, Observations
<1>12. SummarizesAlone'
  BY <1>1, <1>2, <1>3, <1>5, <1>7 DEF SummaryInv, SummarizesAlone, Summarizes
<1>13. SignalKept'
  BY <1>1, <1>2, <1>3, <1>5, <1>6 DEF SummaryInv, SignalKept
<1>14. ExportingIsServed'
  BY <1>1, <1>2, <1>3 DEF SummaryInv, ExportingIsServed, cloneVars
<1>15. QED
  BY <1>8, <1>9, <1>10, <1>11, <1>12, <1>13, <1>14 DEF SummaryInv

LEMMA StopReportStep ==
  ASSUME SummaryInv, NEW c \in Clients, StopReport(c)
  PROVE  SummaryInv'
<1> USE ObservationAssumption, CheckerIsClient DEF ObservationAssumption
<1>1. req[c].at = "report" /\ UNCHANGED <<cloneVars, stored, next, obs, checker>>
  BY DEF StopReport
<1>2. \A d \in Clients : d # c => req'[d] = req[d]
  BY DEF StopReport, SummaryInv, ObservationTypeOK
<1>3. req' \in [Clients -> Requests] /\ req'[c].at = "restore"
  BY DEF StopReport, SummaryInv, ObservationTypeOK, Requests
<1>4. ObservationTypeOK'
  BY <1>1, <1>3 DEF SummaryInv, ObservationTypeOK, cloneVars
<1>5. UsesMade' /\ StartsAlone' /\ CheckerWaits'
  BY <1>1, <1>2, <1>3 DEF SummaryInv, UsesMade, Using, StartsAlone, Starting, CheckerWaits
<1>6. SummarizesAlone' /\ SignalKept' /\ ExportingIsServed'
  BY <1>1, <1>2, <1>3
  DEF SummaryInv, SummarizesAlone, Summarizes, SignalKept, ExportingIsServed, cloneVars
<1>7. QED
  BY <1>1, <1>4, <1>5, <1>6 DEF SummaryInv, Blank, SignalAtEnd, FinishedAtEnd

LEMMA StopRestoreStep ==
  ASSUME SummaryInv, NEW c \in Clients, StopRestore(c)
  PROVE  SummaryInv'
<1> USE ObservationAssumption, CheckerIsClient DEF ObservationAssumption
<1>1. /\ req[c].at = "restore"
      /\ UNCHANGED <<database, deletion, notice, stored, next, obs, checker>>
      /\ clone' \in {"gone", "OK"}
  BY DEF StopRestore
<1>2. \A d \in Clients : d # c => req'[d] = req[d]
  BY DEF StopRestore, Reply, SummaryInv, ObservationTypeOK
<1>3. req' \in [Clients -> Requests] /\ req'[c].at = "idle"
  BY DEF StopRestore, Reply, SummaryInv, ObservationTypeOK, Requests, Served
<1>4. ObservationTypeOK'
  BY <1>1, <1>3 DEF SummaryInv, ObservationTypeOK
<1>5. UsesMade' /\ StartsAlone' /\ CheckerWaits'
  BY <1>1, <1>2, <1>3 DEF SummaryInv, UsesMade, Using, StartsAlone, Starting, CheckerWaits
<1>6. SummarizesAlone' /\ SignalKept' /\ ExportingIsServed'
  BY <1>1, <1>2, <1>3
  DEF SummaryInv, SummarizesAlone, Summarizes, SignalKept, ExportingIsServed
<1>7. QED
  BY <1>1, <1>4, <1>5, <1>6 DEF SummaryInv, Blank, SignalAtEnd, FinishedAtEnd

-----------------------------------------------------------------------------
(* The other steps *)

LEMMA RunnerStep ==
  ASSUME SummaryInv, NEW o \in Observations, Runner(o)
  PROVE  SummaryInv'
<1> USE ObservationAssumption, CheckerIsClient DEF ObservationAssumption
<1>1. UNCHANGED <<cloneVars, stored, next, req, checker>> /\ obs[o].runner # "none"
  BY DEF Runner, RunBegin, RunQuery, RunCheck, RunStore
<1>2. obs' \in [Observations -> ObservationRecords]
  BY DEF Runner, RunBegin, RunQuery, RunCheck, RunStore, RunnerGoesTo,
         SummaryInv, ObservationTypeOK, ObservationRecords
<1>3. \A p \in Observations :
        /\ p # o => obs'[p] = obs[p]
        /\ obs'[p].finished = obs[p].finished
  BY DEF Runner, RunBegin, RunQuery, RunCheck, RunStore, RunnerGoesTo,
         SummaryInv, ObservationTypeOK, ObservationRecords
<1>4. /\ obs[o].runner # "ended"
      /\ obs'[o].runner = "ended" => obs'[o].signal
      /\ obs'[o].signal => obs'[o].runner = "ended" \/ obs[o].signal
  BY DEF Runner, RunBegin, RunQuery, RunCheck, RunStore, RunnerGoesTo,
         SummaryInv, ObservationTypeOK, ObservationRecords
<1>5. ~ obs[o].signal /\ ~ obs[o].finished /\ \A d \in Clients : ~ Summarizes(d, o)
  BY <1>4 DEF SummaryInv, SignalAtEnd, FinishedAtEnd, SummarizesAlone
<1>6. o < next
  BY <1>1 DEF SummaryInv, Blank, NewObservation, ObservationTypeOK, Observations
<1>7. ObservationTypeOK'
  BY <1>1, <1>2 DEF SummaryInv, ObservationTypeOK, cloneVars
<1>8. UsesMade' /\ CheckerWaits' /\ ExportingIsServed'
  BY <1>1 DEF SummaryInv, UsesMade, CheckerWaits, ExportingIsServed, cloneVars
<1>9. StartsAlone'
  <2>1. \A c \in Clients : req[c].at \in Starting => req[c].obs # o
    BY <1>1 DEF SummaryInv, StartsAlone
  <2>2. \A c \in Clients : req[c].at \in Starting => req[c].obs \in Observations
    BY DEF SummaryInv, UsesMade, Using, Starting, ObservationTypeOK, Observations
  <2>3. QED
    BY <1>1, <1>3, <2>1, <2>2 DEF SummaryInv, StartsAlone
<1>10. Blank' /\ SignalAtEnd' /\ FinishedAtEnd'
  BY <1>1, <1>3, <1>4, <1>5, <1>6
  DEF SummaryInv, Blank, SignalAtEnd, FinishedAtEnd, ObservationTypeOK, Observations
<1>11. SummarizesAlone'
  BY <1>1, <1>3, <1>5 DEF SummaryInv, SummarizesAlone, Summarizes
<1>12. SignalKept'
  BY <1>1, <1>3, <1>4 DEF SummaryInv, SignalKept
<1>13. QED
  BY <1>7, <1>8, <1>9, <1>10, <1>11, <1>12 DEF SummaryInv

\* A step of the checker between its requests.

LEMMA CheckerStep ==
  ASSUME SummaryInv, CheckReply \/ CheckCommands \/ CheckKeep
  PROVE  SummaryInv'
<1> USE ObservationAssumption, CheckerIsClient DEF ObservationAssumption
<1>1. req[Checker].at = "idle"
  BY DEF CheckReply, CheckCommands, CheckKeep, SummaryInv, CheckerWaits
<1>2. /\ req' = [req EXCEPT ![Checker] = Served]
      /\ UNCHANGED <<cloneVars, stored, next, obs>>
      /\ checker' \in StopPhases \cup {"commands", "destroy", "over"}
  BY DEF CheckReply, CheckCommands, CheckKeep, CheckerGoesTo, StopPhases
<1>3. req' \in [Clients -> Requests] /\ req'[Checker].at = "idle"
  BY <1>2 DEF SummaryInv, ObservationTypeOK, Requests, Served
<1>4. \A d \in Clients : d # Checker => req'[d] = req[d]
  BY <1>2 DEF SummaryInv, ObservationTypeOK
<1>5. ObservationTypeOK'
  BY <1>2, <1>3 DEF SummaryInv, ObservationTypeOK, cloneVars
<1>6. UsesMade' /\ StartsAlone' /\ CheckerWaits'
  BY <1>1, <1>2, <1>3, <1>4 DEF SummaryInv, UsesMade, Using, StartsAlone, Starting, CheckerWaits
<1>7. SummarizesAlone' /\ SignalKept' /\ ExportingIsServed'
  BY <1>1, <1>2, <1>3, <1>4
  DEF SummaryInv, SummarizesAlone, Summarizes, SignalKept, ExportingIsServed, cloneVars
<1>8. QED
  BY <1>2, <1>5, <1>6, <1>7 DEF SummaryInv, Blank, SignalAtEnd, FinishedAtEnd

\* A step that touches nothing but the clone, the storage and, when the checker
\* is not in a request, its phase.
LEMMA CloneStep ==
  ASSUME SummaryInv, UNCHANGED <<next, obs, req>>,
         clone' \in {"OK", "DELETING", "gone"} \/ UNCHANGED clone,
         database' \in BOOLEAN, notice' \in BOOLEAN,
         deletion' \in {"none", "stopping", "deleting"},
         stored' \in 0 .. next - 1,
         UNCHANGED checker \/ (checker = "destroy" /\ checker' = "over")
  PROVE  SummaryInv'
<1>1. ObservationTypeOK'
  BY DEF SummaryInv, ObservationTypeOK
<1>2. UsesMade' /\ StartsAlone' /\ CheckerWaits' /\ ExportingIsServed'
  BY DEF SummaryInv, UsesMade, StartsAlone, CheckerWaits, ExportingIsServed
<1>3. Blank' /\ SignalAtEnd' /\ FinishedAtEnd' /\ SummarizesAlone' /\ SignalKept'
  BY DEF SummaryInv, Blank, SignalAtEnd, FinishedAtEnd, SummarizesAlone, Summarizes, SignalKept
<1>4. QED
  BY <1>1, <1>2, <1>3 DEF SummaryInv

LEMMA DeletionStep ==
  ASSUME SummaryInv, UserDestroys \/ CheckDestroy \/ IdleDestroys \/ Deletion
  PROVE  SummaryInv'
<1> USE ObservationAssumption, CheckerIsClient DEF ObservationAssumption
<1>1. /\ UNCHANGED <<next, obs, req>>
      /\ clone' \in {"DELETING", "gone"} \/ UNCHANGED clone
      /\ UNCHANGED checker \/ (checker = "destroy" /\ checker' = "over")
  BY DEF UserDestroys, CheckDestroy, IdleDestroys, DestroyClone, Deletion, StopSession,
         DeleteClone, RemoveObservingClone
<1>2. database' \in BOOLEAN /\ notice' \in BOOLEAN
  <2>1. UNCHANGED database \/ database' = FALSE
    BY DEF UserDestroys, CheckDestroy, IdleDestroys, DestroyClone, Deletion, StopSession,
         DeleteClone, RemoveObservingClone
  <2>2. UNCHANGED notice \/ notice' = TRUE \/ notice' = FALSE
    BY DEF UserDestroys, CheckDestroy, IdleDestroys, DestroyClone, Deletion, StopSession,
         DeleteClone, RemoveObservingClone
  <2>3. QED
    BY <2>1, <2>2 DEF SummaryInv, ObservationTypeOK
<1>3. deletion' \in {"none", "stopping", "deleting"}
  BY DEF UserDestroys, CheckDestroy, IdleDestroys, DestroyClone, Deletion, StopSession,
         DeleteClone, RemoveObservingClone, SummaryInv, ObservationTypeOK
<1>4. stored' \in 0 .. next - 1
  <2>1. UNCHANGED stored \/ stored' = 0
    BY DEF UserDestroys, CheckDestroy, IdleDestroys, DestroyClone, Deletion, StopSession,
         DeleteClone, RemoveObservingClone
  <2>2. QED
    BY <2>1 DEF SummaryInv, ObservationTypeOK
<1>5. QED
  BY <1>1, <1>2, <1>3, <1>4, CloneStep DEF cloneVars

LEMMA SummaryInvStep == SummaryInv /\ [Next]_observationVars => SummaryInv'
<1> SUFFICES ASSUME SummaryInv, [Next]_observationVars PROVE SummaryInv'
  OBVIOUS
<1>1. ASSUME NEW c \in Clients, Handler(c) PROVE SummaryInv'
  BY <1>1, StartAddStep, StartPlatformStep, StartInitStep, StopMarkStep, StopReceiveStep,
     StopSummarizeStep, StopReportStep, StopRestoreStep
  DEF Handler
<1>2. ASSUME NEW c \in Clients, StartConnect(c) \/ StopFind(c) PROVE SummaryInv'
  BY <1>2, StartConnectStep, StopFindStep
<1>3. CASE CheckerRequests
  BY <1>2, <1>3, CheckerIsClient, CheckerStep, DeletionStep DEF CheckerRequests
<1>4. CASE UserDestroys \/ IdleDestroys \/ Deletion
  BY <1>4, DeletionStep
<1>5. ASSUME NEW o \in Observations, Runner(o) PROVE SummaryInv'
  BY <1>5, RunnerStep
<1>6. CASE UNCHANGED observationVars
  BY <1>6, CloneStep DEF observationVars, cloneVars, SummaryInv, ObservationTypeOK
<1>7. Users \subseteq Clients
  BY DEF Clients
<1>8. QED
  BY <1>1, <1>2, <1>3, <1>4, <1>5, <1>6, <1>7 DEF Next

-----------------------------------------------------------------------------
(* Theorems *)

LEMMA SummaryInvHolds == ObservationSpec => []SummaryInv
<1>1. Init => SummaryInv
  BY InvInit
<1>2. SummaryInv /\ [Next]_observationVars => SummaryInv'
  BY SummaryInvStep
<1>3. QED
  BY <1>1, <1>2, PTL DEF ObservationSpec

\* The variables of the observer, the handlers and the checker keep their types.
THEOREM ObservationTypes == ObservationSpec => []ObservationTypeOK
<1>1. SummaryInv => ObservationTypeOK
  BY DEF SummaryInv
<1>2. QED
  BY <1>1, SummaryInvHolds, PTL

\* summarize (observing_clone.go) works on the Result of a runner that has ended,
\* for one handler and once.
THEOREM SummariesFollowRuns == ObservationSpec => []SummaryOfWholeRun
<1>1. SummaryInv => SummaryOfWholeRun
  BY DEF SummaryInv, SummarizesAlone, Summarizes, FinishedAtEnd, SummaryOfWholeRun
<1>2. QED
  BY <1>1, SummaryInvHolds, PTL

\* The signal that RunSession sends before it ends is not lost.
THEOREM SignalsAreKept == ObservationSpec => []SignalKept
<1>1. SummaryInv => SignalKept
  BY DEF SummaryInv
<1>2. QED
  BY <1>1, SummaryInvHolds, PTL

\* A clone that is EXPORTING has a handler of stopObservation that has still to
\* restore its status.
THEOREM ExportingClonesAreServed == ObservationSpec => []ExportingIsServed
<1>1. SummaryInv => ExportingIsServed
  BY DEF SummaryInv
<1>2. QED
  BY <1>1, SummaryInvHolds, PTL

=============================================================================
