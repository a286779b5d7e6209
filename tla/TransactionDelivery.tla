------------------------- MODULE TransactionDelivery -------------------------
(***************************************************************************)
(* Transaction delivery of the OCPP 1.6 runtime: how StartTransaction,      *)
(* MeterValues and StopTransaction reach the CSMS, online or through the    *)
(* offline outbox and its replay.                                           *)
(*                                                                          *)
(* Every async function of the runtime is a coroutine that runs to its next *)
(* `await session.request(...)`.  An action is such a stretch of code; the  *)
(* point where a coroutine waits is its pc, and the request it waits for is *)
(* in the session's serial queue.  The request at the head is on the wire.  *)
(* When the connection is lost every queued request is rejected and the     *)
(* coroutines resume from microtasks, before any timer, message or user     *)
(* call (`aborted` and Quiet).                                              *)
(*                                                                          *)
(* What the CSMS receives is `log`.  A request is received, if at all, when *)
(* it is settled: the wire is FIFO and an answer that comes after the       *)
(* request was settled is dropped, so an earlier or later receipt cannot be *)
(* told apart by the point.                                                 *)
(*                                                                          *)
(* Abstracted: the plug, availability and authorization conditions of a     *)
(* start (a refused start changes nothing here), the requests of other      *)
(* parts of the runtime, meter readings and dates.                          *)
(***************************************************************************)
EXTENDS OfflineTransactionOutbox, FiniteSets

CONSTANTS
    Starts,                      \* calls of startTransaction
    Connectors,                  \* each is alone on its EVSE (state.ts)
    LocalIds,                    \* what idGenerator returns
    OcppIds,                     \* what the CSMS assigns; String(id) names an
                                 \*   online transaction
    LocalAuthorizeOffline,       \* the configuration key of that name
    StopTransactionOnInvalidId,  \* what that key may be when a refused start
                                 \*   reads it: TRUE by default, and the CSMS
                                 \*   may change it at any time
    BootMayBeRefused,            \* whether a BootNotification triggered later
                                 \*   may be answered Pending or Rejected
    MaxSamples,                  \* bound: readings of one transaction
    MaxFaults,                   \* bound: disconnections, timeouts, CALLERRORs
    MaxRestarts                  \* bound: changes of MeterValueSampleInterval

Transactions == LocalIds \cup OcppIds

ASSUME IdsAssumption ==
    /\ LocalIds \cap OcppIds = {}
    /\ None \notin Transactions
    /\ None \notin Connectors
    /\ None \notin Starts

ASSUME ConfigurationAssumption ==
    /\ LocalAuthorizeOffline \in BOOLEAN
    /\ StopTransactionOnInvalidId \in (SUBSET BOOLEAN) \ {{}}
    /\ BootMayBeRefused \in BOOLEAN

ASSUME BoundsAssumption ==
    /\ MaxSamples \in Nat
    /\ MaxFaults \in Nat
    /\ MaxRestarts \in Nat

VARIABLES
    connected,   \* session.isConnected()
    registered,  \* registrationStatus = "Accepted"
    tx,          \* context.transactions
    evseTx,      \* EVSE.activeTransactionId, by connector
    bound,       \* context.ocppTransactionIds
    outbox,      \* context.offlineTransactionOutbox
    start,       \* the coroutines of startTransaction
    stop,        \* the coroutine of stopTransaction for each transaction
    loop,        \* context.meterValueLoops
    lost,        \* readings whose MeterValues failed for good (history)
    deauthorized, \* transactions whose refused start the replay ended (history)
    replay,      \* the coroutine of replayOfflineTransactions
    queue,       \* outbound requests of the session, the head in flight
    aborted,     \* coroutines whose request was rejected by a disconnection
    log,         \* transaction messages the CSMS received, in order
    starts,      \* starts begun so far: the clock that stamps startedAt
    faults,      \* faults so far
    restarts     \* restarts of the meter loops so far

pointVars == <<tx, evseTx, bound, outbox, start, stop, loop, lost, deauthorized, replay>>
sessionVars == <<queue, aborted>>
envVars == <<connected, registered, log, starts, faults, restarts>>
vars == <<pointVars, sessionVars, envVars>>

-----------------------------------------------------------------------------
(* Coroutines and the requests they await. *)

StartTask(s) == [of |-> "start", id |-> s, sample |-> 0]
StopTask(t) == [of |-> "stop", id |-> t, sample |-> 0]
ReportTask(t, n) == [of |-> "report", id |-> t, sample |-> n]
ReplayTask == [of |-> "replay", id |-> None, sample |-> 0]

Message(type, t, ocppId, n) ==
    [type |-> type, tx |-> t, id |-> ocppId, sample |-> n]
StartMessage(t) == Message("StartTransaction", t, None, 0)
MeterMessage(t, ocppId, n) == Message("MeterValues", t, ocppId, n)
StopMessage(t, ocppId) == Message("StopTransaction", t, ocppId, 0)
StatusMessage == Message("StatusNotification", None, None, 0)

\* How a request ends for the coroutine: the CSMS's answer; a CALLERROR, an
\* invalid answer, a timeout or a send failure; or the loss of the connection
\* (isOfflineDeliveryError).
Response(ocppId, accepted) ==
    [kind |-> "response", id |-> ocppId, accepted |-> accepted]
Failed == [kind |-> "failed", id |-> None, accepted |-> FALSE]
Offline == [kind |-> "offline", id |-> None, accepted |-> FALSE]

\* session.request with the serial policy, on a queue q and aborted set a.
Request(task, message, q, a) ==
    IF connected
    THEN /\ queue' = Append(q, [task |-> task, msg |-> message])
         /\ aborted' = a
    ELSE /\ queue' = q
         /\ aborted' = a \cup {task}

\* A coroutine that ends without another request.
Finish(q, a) == queue' = q /\ aborted' = a

\* Microtasks run before the next timer, socket event or user call.
Quiet == aborted = {}
-----------------------------------------------------------------------------
(* Lookups. *)

NoTransaction == [state |-> "absent", connector |-> None, at |-> 0, samples |-> 0]

Active(t) == tx[t].state = "active"

\* hasActiveTransactionOnConnector
HasActiveTransaction(c) ==
    \E t \in Transactions : Active(t) /\ tx[t].connector = c

\* resolveOcppTransactionId; None when the id is not numeric (a local id).
OcppIdOf(t) == IF bound[t] # None THEN bound[t]
               ELSE IF t \in OcppIds THEN t ELSE None

IsBound(t) == OcppIdOf(t) # None

\* Mutant: a reading does not wait behind those the outbox still holds.
ShouldQueue_IgnoresPending(t) == ~connected \/ replay.pc # "idle"

\* shouldQueueTransactionDelivery
ShouldQueue(t) == ~connected \/ replay.pc # "idle" \/ IsPending(outbox[t])

\* createActiveTransaction: the transaction is active and its EVSE bound to it.
CreateActive(t, c, at) ==
    /\ tx' = [tx EXCEPT ![t] =
                [state |-> "active", connector |-> c, at |-> at, samples |-> 0]]
    /\ evseTx' = [evseTx EXCEPT ![c] = t]

\* Mutant: the EVSE is not released.
End_KeepsEvse(t) ==
    /\ tx' = [tx EXCEPT ![t].state = "ended"]
    /\ UNCHANGED evseTx

\* endTransactionDelivery: ended, and whatever the EVSE is bound to released.
End(t) ==
    /\ tx' = [tx EXCEPT ![t].state = "ended"]
    /\ evseTx' = [evseTx EXCEPT ![tx[t].connector] = None]

\* startMeterValueLoop (the sample interval is not 0) and stopMeterValueLoop.
LoopOff == [on |-> FALSE, reporting |-> 0]
LoopStarted(t) == IF loop[t].on THEN loop
                  ELSE [loop EXCEPT ![t] = [on |-> TRUE, reporting |-> 0]]
LoopStopped(t) == [loop EXCEPT ![t] = LoopOff]
-----------------------------------------------------------------------------
(* startTransaction *)

\* A start that is neither connected nor registered, with local authorization:
\* recorded at once, with no await.
BeginOfflineStart(s, c) ==
    /\ Quiet
    /\ start[s].pc = "idle"
    /\ ~(connected /\ registered)
    /\ LocalAuthorizeOffline
    /\ evseTx[c] = None /\ ~HasActiveTransaction(c)
    /\ \E t \in LocalIds :
         /\ tx[t].state = "absent"
         /\ CreateActive(t, c, starts)
         /\ outbox' = [outbox EXCEPT ![t] = RecordStarted]
         /\ loop' = LoopStarted(t)
    /\ start' = [start EXCEPT ![s].pc = "done"]
    /\ starts' = starts + 1
    /\ UNCHANGED <<bound, stop, lost, deauthorized, replay, sessionVars,
                   connected, registered, log, faults, restarts>>

\* Every other start: the connector is checked, then StartTransaction awaited.
\* A remote start needs no authorization and takes this path even when the
\* connection has just been lost.
BeginOnlineStart(s, c) ==
    /\ Quiet
    /\ start[s].pc = "idle"
    /\ registered
    /\ evseTx[c] = None /\ ~HasActiveTransaction(c)
    /\ start' = [start EXCEPT ![s] =
                   [pc |-> "sending", connector |-> c, at |-> starts, tx |-> None]]
    /\ Request(StartTask(s), StartMessage(None), queue, aborted)
    /\ starts' = starts + 1
    /\ UNCHANGED <<tx, evseTx, bound, outbox, stop, loop, lost, deauthorized, replay,
                   connected, registered, log, faults, restarts>>

\* StartTransaction accepted: the transaction exists under the CSMS's id.
StartAccepted(s, answer, q, a) ==
    /\ start[s].pc = "sending"
    /\ answer.kind = "response" /\ answer.accepted
    /\ CreateActive(answer.id, start[s].connector, start[s].at)
    /\ start' = [start EXCEPT ![s].pc = "notifying", ![s].tx = answer.id]
    /\ Request(StartTask(s), StatusMessage, q, a)
    /\ UNCHANGED <<bound, outbox, stop, loop, lost, deauthorized, replay>>

\* StartTransaction rejected or failed: the connector's EVSE is released.
StartRefused(s, answer, q, a) ==
    /\ start[s].pc = "sending"
    /\ ~(answer.kind = "response" /\ answer.accepted)
    /\ evseTx' = [evseTx EXCEPT ![start[s].connector] = None]
    /\ start' = [start EXCEPT ![s].pc = "done"]
    /\ Finish(q, a)
    /\ UNCHANGED <<tx, bound, outbox, stop, loop, lost, deauthorized, replay>>

\* After StatusNotification(Charging), whatever became of it.
StartNotified(s, q, a) ==
    /\ start[s].pc = "notifying"
    /\ loop' = LoopStarted(start[s].tx)
    /\ start' = [start EXCEPT ![s].pc = "done"]
    /\ Finish(q, a)
    /\ UNCHANGED <<tx, evseTx, bound, outbox, stop, lost, deauthorized, replay>>
-----------------------------------------------------------------------------
(* stopTransaction *)

\* A transaction the CSMS knows: ended locally, then StatusNotification
\* (Finishing), StopTransaction and a final StatusNotification are awaited.
BeginOnlineStop(t) ==
    /\ Quiet
    /\ Active(t) /\ IsBound(t)
    /\ End(t)
    /\ loop' = LoopStopped(t)
    /\ stop' = [stop EXCEPT ![t] = "finishing"]
    /\ Request(StopTask(t), StatusMessage, queue, aborted)
    /\ UNCHANGED <<bound, outbox, start, lost, deauthorized, replay, envVars>>

\* stopOfflineTransaction: the CSMS does not know it yet; no await.
BeginOfflineStop(t) ==
    /\ Quiet
    /\ Active(t) /\ ~IsBound(t) /\ outbox[t].kept
    /\ End(t)
    /\ loop' = LoopStopped(t)
    /\ outbox' = [outbox EXCEPT ![t] = RecordStopped(@)]
    /\ UNCHANGED <<bound, start, stop, lost, deauthorized, replay, sessionVars, envVars>>

\* A meterStopWh below the latest reading: the loop is stopped before
\* endTransactionDelivery throws, and the transaction stays active.
StopThrows(t) ==
    /\ Quiet
    /\ Active(t) /\ (IsBound(t) \/ outbox[t].kept)
    /\ loop' = LoopStopped(t)
    /\ UNCHANGED <<tx, evseTx, bound, outbox, start, stop, lost, deauthorized,
                   replay, sessionVars, envVars>>

StopAnswered(t, q, a) ==
    /\ \/ /\ stop[t] = "finishing"
          /\ stop' = [stop EXCEPT ![t] = "stopping"]
          /\ Request(StopTask(t), StopMessage(t, OcppIdOf(t)), q, a)
       \/ /\ stop[t] = "stopping"
          /\ stop' = [stop EXCEPT ![t] = "notifying"]
          /\ Request(StopTask(t), StatusMessage, q, a)
       \/ /\ stop[t] = "notifying"
          /\ stop' = [stop EXCEPT ![t] = "done"]
          /\ Finish(q, a)
    /\ UNCHANGED <<tx, evseTx, bound, outbox, start, loop, lost, deauthorized, replay>>

-----------------------------------------------------------------------------
(* Meter values: reportPeriodicMeterValue and the loops that call it. *)

\* Mutant: an online transaction is given no record.
RecordReading_NotEnsured(t, n) ==
    outbox' = [outbox EXCEPT ![t] = RecordMeterValue(@, n)]

\* ensureBoundTransactionOutboxRecord, then outbox.recordMeterValue.
RecordReading(t, n) ==
    LET record == IF outbox[t].kept \/ ~IsBound(t) THEN outbox[t]
                  ELSE RecordBoundStarted(OcppIdOf(t))
    IN  outbox' = [outbox EXCEPT ![t] = RecordMeterValue(record, n)]

\* A tick of the loop: the reading is recorded in the transaction and goes to
\* the outbox when it must queue, otherwise to the CSMS.
BeginReport(t) ==
    LET n == tx[t].samples + 1 IN
    /\ Quiet
    /\ loop[t].on /\ loop[t].reporting = 0
    /\ Active(t)
    /\ n <= MaxSamples
    /\ tx' = [tx EXCEPT ![t].samples = n]
    /\ \/ /\ ~IsBound(t) \/ ShouldQueue(t)
          /\ RecordReading(t, n)
          /\ UNCHANGED <<loop, sessionVars>>
       \/ /\ IsBound(t) /\ ~ShouldQueue(t)
          /\ loop' = [loop EXCEPT ![t].reporting = n]
          /\ Request(ReportTask(t, n), MeterMessage(t, OcppIdOf(t), n),
                     queue, aborted)
          /\ UNCHANGED outbox
    /\ UNCHANGED <<evseTx, bound, start, stop, lost, deauthorized, replay, envVars>>

\* A tick that finds its transaction ended stops the loop.
LoopExpires(t) ==
    /\ Quiet
    /\ loop[t].on /\ loop[t].reporting = 0
    /\ ~Active(t)
    /\ loop' = LoopStopped(t)
    /\ UNCHANGED <<tx, evseTx, bound, outbox, start, stop, lost, deauthorized,
                   replay, sessionVars, envVars>>

\* MeterValues answered.  Only a loss of the connection sends the reading to
\* the outbox; a CALLERROR or a timeout gives it up.
ReportAnswered(t, n, answer, q, a) ==
    /\ loop' = IF loop[t].reporting = n THEN [loop EXCEPT ![t].reporting = 0]
               ELSE loop
    /\ \/ /\ answer.kind = "response"
          /\ UNCHANGED <<outbox, lost>>
       \/ /\ answer.kind = "offline"
          /\ RecordReading(t, n)
          /\ UNCHANGED lost
       \/ /\ answer.kind = "failed"
          /\ lost' = lost \cup {<<t, n>>}
          /\ UNCHANGED outbox
    /\ Finish(q, a)
    /\ UNCHANGED <<tx, evseTx, bound, start, stop, deauthorized, replay>>

\* restartActiveMeterValueLoops, when MeterValueSampleInterval changes.
RestartMeterLoops ==
    /\ Quiet
    /\ restarts < MaxRestarts
    /\ restarts' = restarts + 1
    /\ loop' = [t \in Transactions |->
                  IF Active(t) THEN [on |-> TRUE, reporting |-> 0] ELSE LoopOff]
    /\ UNCHANGED <<tx, evseTx, bound, outbox, start, stop, lost, deauthorized, replay,
                   sessionVars, connected, registered, log, starts, faults>>
-----------------------------------------------------------------------------
(* replayOfflineTransactions.  `replay` holds the loop's locals: the records  *)
(* listPending copied (snap), the transactions still to take, the one in      *)
(* hand, its id at the CSMS and the position of the reading in flight.        *)

ReplayIdle == [pc |-> "idle", todo |-> {}, tx |-> None, id |-> None,
               index |-> 0, snap |-> [t \in Transactions |-> NoRecord]]

Pending == {t \in Transactions : IsPending(outbox[t])}

\* Mutant: the latest first.
Earliest_Reversed(todo) == CHOOSE t \in todo : \A u \in todo : tx[t].at >= tx[u].at

\* The first of listPending's order.
Earliest(todo) == CHOOSE t \in todo : \A u \in todo : tx[t].at <= tx[u].at

\* The body of the loop after the start of the record in hand: its readings in
\* order, then its stop, or StatusNotification(Charging) when it has none.
ReplayReadings(r, q, a) ==
    LET record == r.snap[r.tx]
        unsent == {i \in UnsentMeterValues(record) : i > r.index}
    IN  \/ \E i \in unsent :
             /\ \A j \in unsent : i <= j
             /\ replay' = [r EXCEPT !.pc = "meter", !.index = i]
             /\ Request(ReplayTask,
                        MeterMessage(r.tx, r.id, record.meterValues[i].sample),
                        q, a)
        \/ /\ unsent = {} /\ record.stop = "pending"
           /\ replay' = [r EXCEPT !.pc = "stop"]
           /\ Request(ReplayTask, StopMessage(r.tx, r.id), q, a)
        \/ /\ unsent = {} /\ record.stop # "pending"
           /\ replay' = [r EXCEPT !.pc = "charging"]
           /\ Request(ReplayTask, StatusMessage, q, a)

\* The next turn of the loop, or its end.  ids is context.ocppTransactionIds.
ReplayNext(r, ids, q, a) ==
    LET t == Earliest(r.todo)
        taken == [r EXCEPT !.todo = r.todo \ {t}, !.tx = t, !.index = 0,
                           !.id = r.snap[t].ocppId]
    IN  \/ /\ r.todo = {}
           /\ replay' = ReplayIdle
           /\ bound' = ids
           /\ Finish(q, a)
        \/ /\ r.todo # {} /\ ~r.snap[t].startReplayed
           /\ replay' = [taken EXCEPT !.pc = "start"]
           /\ bound' = ids
           /\ Request(ReplayTask, StartMessage(t), q, a)
        \/ /\ r.todo # {} /\ r.snap[t].startReplayed
           /\ bound' = [ids EXCEPT ![t] = r.snap[t].ocppId]
           /\ ReplayReadings(taken, q, a)

ReplayBegun ==
    ReplayNext([ReplayIdle EXCEPT !.todo = Pending,
                  !.snap = [t \in Transactions |->
                              IF t \in Pending THEN outbox[t] ELSE NoRecord]],
               bound, queue, aborted)

\* Mutant: offlineTransactionReplayInProgress is not reset.
ReplayAbandoned_StaysInProgress(answer, q, a) ==
    /\ replay.pc \in {"start", "meter", "stop"}
    /\ answer.kind # "response"
    /\ Finish(q, a)
    /\ UNCHANGED <<tx, evseTx, bound, outbox, loop, replay>>

\* A request of the replay that fails, but for a StatusNotification, ends it.
ReplayAbandoned(answer, q, a) ==
    /\ replay.pc \in {"start", "meter", "stop"}
    /\ answer.kind # "response"
    /\ replay' = ReplayIdle
    /\ Finish(q, a)
    /\ UNCHANGED <<tx, evseTx, bound, outbox, loop>>

\* Mutant: the stop of an accepted start, too, is sent before the readings.
ReplayStartAnswered_SkipsReadings(answer, q, a) ==
    LET t == replay.tx
        stopped == outbox[t].stop = "pending"
    IN  /\ replay.pc = "start"
        /\ answer.kind = "response"
        /\ bound' = [bound EXCEPT ![t] = answer.id]
        /\ outbox' = [outbox EXCEPT ![t] = BindStart(@, answer.id)]
        /\ replay' = [replay EXCEPT !.id = answer.id,
                                    !.pc = IF stopped THEN "stop" ELSE "charging"]
        /\ Request(ReplayTask, IF stopped THEN StopMessage(t, answer.id) ELSE StatusMessage, q, a)
        /\ UNCHANGED <<tx, evseTx, loop, deauthorized>>

\* StartTransaction answered: the local transaction is bound to the CSMS's id.
\* A rejected one is deauthorized if StopTransactionOnInvalidId is set: it is
\* ended here unless it has ended, so that its stop is pending, and its stop is
\* sent next, before any reading.  If it is not set, it charges on.
ReplayStartAnswered(answer, q, a) ==
    LET t == replay.tx
        record == BindStart(outbox[t], answer.id)
        r == [replay EXCEPT !.id = answer.id]
    IN  /\ replay.pc = "start"
        /\ answer.kind = "response"
        /\ bound' = [bound EXCEPT ![t] = answer.id]
        /\ \/ /\ answer.accepted
              /\ outbox' = [outbox EXCEPT ![t] = record]
              /\ ReplayReadings(r, q, a)
              /\ UNCHANGED <<tx, evseTx, deauthorized>>
           \/ /\ ~answer.accepted /\ TRUE \in StopTransactionOnInvalidId
              /\ outbox' = [outbox EXCEPT ![t] =
                              IF Active(t) THEN RecordStopped(record) ELSE record]
              /\ replay' = [r EXCEPT !.pc = "stop"]
              /\ Request(ReplayTask, StopMessage(t, answer.id), q, a)
              /\ IF Active(t) THEN End(t) ELSE UNCHANGED <<tx, evseTx>>
              /\ deauthorized' = deauthorized \cup {t}
           \/ /\ ~answer.accepted /\ FALSE \in StopTransactionOnInvalidId
              /\ outbox' = [outbox EXCEPT ![t] = record]
              /\ replay' = [r EXCEPT !.pc = "charging"]
              /\ Request(ReplayTask, StatusMessage, q, a)
              /\ UNCHANGED <<tx, evseTx, deauthorized>>
        /\ UNCHANGED loop

\* The reading is marked in the outbox at its position in the copy.
ReplayReadingAnswered(answer, q, a) ==
    /\ replay.pc = "meter"
    /\ answer.kind = "response"
    /\ outbox' = [outbox EXCEPT ![replay.tx] =
                    MarkMeterValueReplayed(@, replay.index)]
    /\ ReplayReadings(replay, q, a)
    /\ UNCHANGED <<tx, evseTx, bound, loop>>

ReplayStopAnswered(answer, q, a) ==
    /\ replay.pc = "stop"
    /\ answer.kind = "response"
    /\ outbox' = [outbox EXCEPT ![replay.tx] = MarkStopReplayed(@)]
    /\ replay' = [replay EXCEPT !.pc = "stopped"]
    /\ Request(ReplayTask, StatusMessage, q, a)
    /\ UNCHANGED <<tx, evseTx, bound, loop>>

\* After the last StatusNotification of a record, whatever became of it.
ReplayNotified(q, a) ==
    /\ replay.pc \in {"charging", "stopped"}
    /\ loop' = IF replay.pc = "charging" THEN LoopStarted(replay.tx) ELSE loop
    /\ ReplayNext(replay, bound, q, a)
    /\ UNCHANGED <<tx, evseTx, outbox>>

ReplayAnswered(answer, q, a) ==
    /\ \/ ReplayStartAnswered(answer, q, a)
       \/ /\ \/ ReplayAbandoned(answer, q, a)
             \/ ReplayReadingAnswered(answer, q, a)
             \/ ReplayStopAnswered(answer, q, a)
             \/ ReplayNotified(q, a)
          /\ UNCHANGED deauthorized
    /\ UNCHANGED <<start, stop, lost>>
-----------------------------------------------------------------------------
(* The session and the CSMS. *)

\* The coroutine that awaited the request goes on with its outcome.
Settled(task, answer, q, a) ==
    \/ /\ task.of = "start"
       /\ \/ StartAccepted(task.id, answer, q, a)
          \/ StartRefused(task.id, answer, q, a)
          \/ StartNotified(task.id, q, a)
    \/ task.of = "stop" /\ StopAnswered(task.id, q, a)
    \/ task.of = "report" /\ ReportAnswered(task.id, task.sample, answer, q, a)
    \/ task.of = "replay" /\ ReplayAnswered(answer, q, a)

FreshOcppIds == {id \in OcppIds : \A i \in DOMAIN log : log[i].id # id}

\* The forms in which the CSMS may receive a message: it gives each
\* StartTransaction an id of its own.
Receipts(message) ==
    IF message.type = "StartTransaction"
    THEN {[message EXCEPT !.id = id] : id \in FreshOcppIds}
    ELSE {message}

Received(receipt) ==
    log' = IF receipt.type = "StatusNotification" THEN log ELSE Append(log, receipt)

\* The CSMS answers the request in flight; it may refuse the idTag of a start.
Reply ==
    /\ Quiet
    /\ connected /\ queue # <<>>
    /\ \E receipt \in Receipts(Head(queue).msg), accepted \in BOOLEAN :
         /\ receipt.type # "StartTransaction" => accepted
         /\ Received(receipt)
         /\ Settled(Head(queue).task, Response(receipt.id, accepted),
                    Tail(queue), aborted)
    /\ UNCHANGED <<connected, registered, starts, faults, restarts>>

\* The request in flight times out or is answered by a CALLERROR, received by
\* the CSMS or not.
RequestFails ==
    /\ Quiet
    /\ connected /\ queue # <<>>
    /\ faults < MaxFaults
    /\ faults' = faults + 1
    /\ \/ UNCHANGED log
       \/ \E receipt \in Receipts(Head(queue).msg) : Received(receipt)
    /\ Settled(Head(queue).task, Failed, Tail(queue), aborted)
    /\ UNCHANGED <<connected, registered, starts, restarts>>

\* The connection is lost: every request is rejected, received or not.
Disconnect ==
    /\ Quiet
    /\ connected
    /\ faults < MaxFaults
    /\ faults' = faults + 1
    /\ connected' = FALSE
    /\ \/ UNCHANGED log
       \/ /\ queue # <<>>
          /\ \E receipt \in Receipts(Head(queue).msg) : Received(receipt)
    /\ queue' = <<>>
    /\ aborted' = {queue[i].task : i \in DOMAIN queue}
    /\ UNCHANGED <<pointVars, registered, starts, restarts>>

\* A coroutine takes the rejection of its request.
Resume ==
    \E task \in aborted :
        /\ Settled(task, Offline, queue, aborted \ {task})
        /\ UNCHANGED envVars

Connect ==
    /\ Quiet
    /\ ~connected
    /\ connected' = TRUE
    /\ UNCHANGED <<pointVars, sessionVars, registered, log, starts, faults, restarts>>

\* bootCore: BootNotification accepted, and the replay that follows.
BootAccepted ==
    /\ Quiet
    /\ connected
    /\ ~registered
    /\ registered' = TRUE
    /\ IF replay.pc = "idle" THEN ReplayBegun
       ELSE UNCHANGED <<replay, bound, sessionVars>>
    /\ UNCHANGED <<tx, evseTx, outbox, start, stop, loop, lost, deauthorized,
                   connected, log, starts, faults, restarts>>

\* A later BootNotification, triggered by the CSMS and answered Pending or
\* Rejected: nothing but another trigger boots again.
BootRefused ==
    /\ Quiet
    /\ BootMayBeRefused
    /\ connected
    /\ registered
    /\ faults < MaxFaults
    /\ faults' = faults + 1
    /\ registered' = FALSE
    /\ UNCHANGED <<pointVars, sessionVars, connected, log, starts, restarts>>

\* Mutant: a replay begins while another runs.
HeartbeatAnswered_Reenters ==
    /\ Quiet
    /\ connected /\ registered
    /\ Pending # {}
    /\ ReplayBegun
    /\ UNCHANGED <<tx, evseTx, outbox, start, stop, loop, lost, deauthorized, envVars>>

\* sendHeartbeatCore (or a repeated BootNotification) answered: the replay
\* begins unless one runs.
HeartbeatAnswered ==
    /\ Quiet
    /\ connected /\ registered
    /\ replay.pc = "idle" /\ Pending # {}
    /\ ReplayBegun
    /\ UNCHANGED <<tx, evseTx, outbox, start, stop, loop, lost, deauthorized, envVars>>
-----------------------------------------------------------------------------
Init ==
    /\ connected = FALSE
    /\ registered = FALSE
    /\ tx = [t \in Transactions |-> NoTransaction]
    /\ evseTx = [c \in Connectors |-> None]
    /\ bound = [t \in Transactions |-> None]
    /\ outbox = [t \in Transactions |-> NoRecord]
    /\ start = [s \in Starts |->
                  [pc |-> "idle", connector |-> None, at |-> 0, tx |-> None]]
    /\ stop = [t \in Transactions |-> "none"]
    /\ loop = [t \in Transactions |-> LoopOff]
    /\ lost = {}
    /\ deauthorized = {}
    /\ replay = ReplayIdle
    /\ queue = <<>>
    /\ aborted = {}
    /\ log = <<>>
    /\ starts = 0
    /\ faults = 0
    /\ restarts = 0

Next ==
    \/ \E s \in Starts, c \in Connectors :
         BeginOfflineStart(s, c) \/ BeginOnlineStart(s, c)
    \/ \E t \in Transactions :
         \/ BeginOnlineStop(t)
         \/ BeginOfflineStop(t)
         \/ StopThrows(t)
         \/ BeginReport(t)
         \/ LoopExpires(t)
    \/ RestartMeterLoops
    \/ Reply
    \/ RequestFails
    \/ Disconnect
    \/ Resume
    \/ Connect
    \/ BootAccepted
    \/ BootRefused
    \/ HeartbeatAnswered

Spec == Init /\ [][Next]_vars

\* The fairness of the runtime: the session reconnects without limit; the
\* startup lifecycle boots until it is accepted (else the actor stops, which is
\* not modelled here); the heartbeat loop ticks, as long as fewer heartbeats
\* fail in a row than its reconnect threshold, so MaxFaults stays below that;
\* microtasks run; and the request in flight is answered once the faults are
\* used up.
Fairness ==
    /\ WF_vars(Connect)
    /\ WF_vars(BootAccepted)
    /\ WF_vars(HeartbeatAnswered)
    /\ WF_vars(Reply)
    /\ WF_vars(Resume)

FairSpec == Spec /\ Fairness
-----------------------------------------------------------------------------
(* Properties *)

Records == [kept : BOOLEAN, startReplayed : BOOLEAN, ocppId : OcppIds \cup {None},
            meterValues : Seq([sample : Nat, replayed : BOOLEAN]),
            stop : StopStates]

Tasks == [of : {"start"}, id : Starts, sample : {0}]
         \cup [of : {"stop"}, id : Transactions, sample : {0}]
         \cup [of : {"report"}, id : Transactions, sample : Nat]
         \cup {ReplayTask}

Messages == [type : {"StartTransaction", "MeterValues", "StopTransaction",
                     "StatusNotification"},
             tx : Transactions \cup {None}, id : OcppIds \cup {None},
             sample : Nat]

TxValues == [state : {"absent", "active", "ended"}, connector : Connectors \cup {None},
             at : Nat, samples : Nat]

StartValues == [pc : {"idle", "sending", "notifying", "done"},
                connector : Connectors \cup {None}, at : Nat, tx : OcppIds \cup {None}]

LoopValues == [on : BOOLEAN, reporting : Nat]

Replays == [pc : {"idle", "start", "meter", "stop", "charging", "stopped"},
            todo : SUBSET Transactions, tx : Transactions \cup {None},
            id : OcppIds \cup {None}, index : Nat, snap : [Transactions -> Records]]

\* The values of the point's state and of the session's requests.
PointTypeOK ==
    /\ tx \in [Transactions -> TxValues]
    /\ evseTx \in [Connectors -> Transactions \cup {None}]
    /\ bound \in [Transactions -> OcppIds \cup {None}]
    /\ outbox \in [Transactions -> Records]
    /\ start \in [Starts -> StartValues]
    /\ stop \in [Transactions ->
                  {"none", "finishing", "stopping", "notifying", "done"}]
    /\ loop \in [Transactions -> LoopValues]
    /\ lost \subseteq Transactions \X Nat
    /\ deauthorized \subseteq Transactions
    /\ replay \in Replays
    /\ replay.pc # "idle" => replay.tx \in Transactions
    /\ queue \in Seq([task : Tasks, msg : Messages])
    /\ aborted \subseteq Tasks

\* The values each variable may take.
TypeOK ==
    /\ PointTypeOK
    /\ connected \in BOOLEAN /\ registered \in BOOLEAN
    /\ log \in Seq(Messages)
    /\ starts \in Nat /\ faults \in Nat /\ restarts \in Nat

ReceivedReading(t, n) ==
    \E i \in DOMAIN log :
        log[i].type = "MeterValues" /\ log[i].tx = t /\ log[i].sample = n

ReceivedStop(t) ==
    \E i \in DOMAIN log : log[i].type = "StopTransaction" /\ log[i].tx = t

\* What the outbox holds as delivered, the CSMS has received: the replay marks
\* by position, against a copy made before its awaits, while readings and the
\* stop are still being added to the record.
ReplayedMeansReceived ==
    \A t \in Transactions :
        /\ \A i \in DOMAIN outbox[t].meterValues :
             outbox[t].meterValues[i].replayed
                => ReceivedReading(t, outbox[t].meterValues[i].sample)
        /\ outbox[t].stop = "replayed" => ReceivedStop(t)

Waiting(task) == task \in aborted \/ \E i \in DOMAIN queue : queue[i].task = task

\* No reading of a transaction disappears: the CSMS received it, or the outbox
\* still owes it, or its MeterValues is under way, or failed for good.
ReadingsAccounted ==
    \A t \in Transactions : \A n \in 1..tx[t].samples :
        \/ ReceivedReading(t, n)
        \/ \E i \in UnsentMeterValues(outbox[t]) :
             outbox[t].meterValues[i].sample = n
        \/ Waiting(ReportTask(t, n))
        \/ <<t, n>> \in lost

\* No stop disappears while it is owed to the outbox or under way: an ended
\* transaction has its StopTransaction in the outbox or a coroutine that sends
\* it, never both and never neither.
StopsAccounted ==
    \A t \in Transactions :
        tx[t].state = "ended" => (outbox[t].stop = "none") # (stop[t] = "none")

\* The EVSE names a transaction only while it is active there: no step of a
\* start, a stop or a deauthorization leaves a finished transaction bound.
EvseNamesActive ==
    \A c \in Connectors, t \in Transactions :
        evseTx[c] = t => Active(t) /\ tx[t].connector = c

\* The replay is one coroutine: it waits for exactly one request while it runs,
\* whatever heartbeats and boots are answered meanwhile.
ReplayIsOne ==
    /\ (replay.pc # "idle") = Waiting(ReplayTask)
    /\ \A i, j \in DOMAIN queue :
         queue[i].task = ReplayTask /\ queue[j].task = ReplayTask => i = j
    /\ ReplayTask \in aborted
         => \A i \in DOMAIN queue : queue[i].task # ReplayTask

\* The CSMS first receives the readings of a transaction in the order they were
\* taken, through the online path, the outbox and the replay.
ReadingsInOrder ==
    \A i, j \in DOMAIN log :
        /\ i < j
        /\ log[i].type = "MeterValues" /\ log[j].type = "MeterValues"
        /\ log[i].tx = log[j].tx
        => log[i].sample <= log[j].sample

\* Transactions begun offline become known to the CSMS in the order they began.
OfflineStartsInOrder ==
    \A i \in DOMAIN log : \A u \in LocalIds :
        /\ log[i].type = "StartTransaction" /\ log[i].tx \in LocalIds
        /\ tx[u].state # "absent" /\ tx[u].at < tx[log[i].tx].at
        => \E j \in 1..i : log[j].type = "StartTransaction" /\ log[j].tx = u

\* A stop kept in the outbox is received after the readings, whatever is
\* recorded, reported and marked while a replay waits and however often one is
\* cut short: the test "caches an offline StopTransaction and replays it after
\* MeterValues" says so.  Except where the CSMS refuses the replayed start and
\* StopTransactionOnInvalidId is set: that stop is sent at once, and a later
\* replay sends the readings that were still due after it.
OfflineStopAfterReadings ==
    \A i, j \in DOMAIN log :
        /\ i < j
        /\ log[i].type = "StopTransaction" /\ outbox[log[i].tx].stop # "none"
        /\ log[i].tx \notin deauthorized
        => ~(log[j].type = "MeterValues" /\ log[j].tx = log[i].tx)

\* Once the outbox knows the CSMS's id for a transaction, no step sends its
\* StartTransaction again: neither a retry after a failure later in the replay
\* nor a replay working from an older copy.
NoSecondStart ==
    [][\A t \in Transactions :
         outbox[t].startReplayed =>
            ~ \E i \in DOMAIN log' \ DOMAIN log :
                log'[i].type = "StartTransaction" /\ log'[i].tx = t]_vars

\* Everything the outbox owes the CSMS is delivered in the end.
OutboxDrains ==
    \A t \in Transactions : IsPending(outbox[t]) ~> ~IsPending(outbox[t])
=============================================================================
