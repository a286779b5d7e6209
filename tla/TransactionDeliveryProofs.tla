---------------------- MODULE TransactionDeliveryProofs ----------------------
(***************************************************************************)
(* Proofs about TransactionDelivery, for every set of starts, connectors   *)
(* and ids and every bound: its types; that the outbox is right about what *)
(* the CSMS received and that no reading disappears, with the inductive    *)
(* invariant they need (what each request in the queue is about, and how   *)
(* the copies of the replay relate to the outbox they were made from);     *)
(* whose each stop is, which transaction an EVSE names, and that the       *)
(* replay starts nothing twice; that starts are replayed in the order in   *)
(* which transactions began, a stop after the readings, and the readings   *)
(* of a transaction in the order in which they were taken.                 *)
(***************************************************************************)
EXTENDS TransactionDelivery, SequenceTheorems, WellFoundedInduction,
        TLAPS

Entries == [task : Tasks, msg : Messages]
Answers == [kind : {"response", "failed", "offline"}, id : OcppIds \cup {None},
            accepted : BOOLEAN]

-----------------------------------------------------------------------------
(* The methods of the outbox return records. *)

\* Whatever the outbox does to a record, to its readings, its stop or the id
\* the CSMS gave, leaves a record.
LEMMA RecordTypes ==
    ASSUME NEW record \in Records, NEW id \in OcppIds \cup {None}, NEW n \in Nat
    PROVE  /\ NoRecord \in Records
           /\ RecordStarted \in Records
           /\ RecordBoundStarted(id) \in Records
           /\ RecordMeterValue(record, n) \in Records
           /\ RecordStopped(record) \in Records
           /\ BindStart(record, id) \in Records
           /\ MarkMeterValueReplayed(record, n) \in Records
           /\ MarkStopReplayed(record) \in Records
<1> DEFINE Reading == [sample : Nat, replayed : BOOLEAN]
<1>1. NoRecord \in Records
    BY DEF NoRecord, Records, StopStates
<1>2. RecordStarted \in Records
    BY <1>1 DEF RecordStarted, NoRecord, Records, StopStates
<1>3. RecordBoundStarted(id) \in Records
    BY <1>1 DEF RecordBoundStarted, NoRecord, Records, StopStates
<1>4. RecordMeterValue(record, n) \in Records
  <2>1. [sample |-> n, replayed |-> FALSE] \in Reading
    OBVIOUS
  <2>2. Append(record.meterValues, [sample |-> n, replayed |-> FALSE]) \in Seq(Reading)
    BY <2>1 DEF Records
  <2> QED
    BY <2>2 DEF RecordMeterValue, Records
<1>5. RecordStopped(record) \in Records
    BY DEF RecordStopped, Records, StopStates
<1>6. BindStart(record, id) \in Records
    BY DEF BindStart, Records
<1>7. MarkMeterValueReplayed(record, n) \in Records
  <2> DEFINE s == record.meterValues
             marked == [s EXCEPT ![n].replayed = TRUE]
  <2>1. CASE n \in DOMAIN s
    <3>1. s \in Seq(Reading) /\ n \in 1..Len(s)
        BY <2>1 DEF Records
    <3>2. [s[n] EXCEPT !.replayed = TRUE] \in Reading
      <4>1. s[n] \in Reading
        BY <3>1, ElementOfSeq
      <4> QED
        BY <4>1
    <3>3. [s EXCEPT ![n] = [s[n] EXCEPT !.replayed = TRUE]] \in Seq(Reading)
        BY <3>1, <3>2, ExceptSeq
    <3>4. marked \in Seq(Reading)
        BY <3>3
    <3> QED
        BY <2>1, <3>4 DEF MarkMeterValueReplayed, Records
  <2>2. CASE n \notin DOMAIN s
    BY <2>2 DEF MarkMeterValueReplayed
  <2> QED
    BY <2>1, <2>2
<1>8. MarkStopReplayed(record) \in Records
    BY DEF MarkStopReplayed, Records, StopStates
<1> QED
    BY <1>1, <1>2, <1>3, <1>4, <1>5, <1>6, <1>7, <1>8

-----------------------------------------------------------------------------
(* A coroutine's last step of a stretch: another request, or none. *)

\* Asking the session appends one entry to its queue, or aborts the coroutine.
LEMMA RequestType ==
    ASSUME NEW task \in Tasks, NEW message \in Messages,
           NEW q \in Seq(Entries), NEW a \in SUBSET Tasks,
           Request(task, message, q, a)
    PROVE  queue' \in Seq(Entries) /\ aborted' \subseteq Tasks
<1>1. [task |-> task, msg |-> message] \in Entries
    BY DEF Entries
<1>2. Append(q, [task |-> task, msg |-> message]) \in Seq(Entries)
    BY <1>1
<1> QED
    BY <1>2 DEF Request

\* A coroutine that ends leaves a queue and a set of coroutines.
LEMMA FinishType ==
    ASSUME NEW q \in Seq(Entries), NEW a \in SUBSET Tasks, Finish(q, a)
    PROVE  queue' \in Seq(Entries) /\ aborted' \subseteq Tasks
    BY DEF Finish

\* The coroutines of a transaction are coroutines of the model.
LEMMA TaskTypes ==
    /\ \A s \in Starts : StartTask(s) \in Tasks
    /\ \A t \in Transactions : StopTask(t) \in Tasks
    /\ \A t \in Transactions, n \in Nat : ReportTask(t, n) \in Tasks
    /\ ReplayTask \in Tasks
    BY DEF StartTask, StopTask, ReportTask, ReplayTask, Tasks

\* Every request the point builds is a message of the model.
LEMMA MessageTypes ==
    /\ \A t \in Transactions \cup {None} : StartMessage(t) \in Messages
    /\ \A t \in Transactions, id \in OcppIds \cup {None}, n \in Nat :
         MeterMessage(t, id, n) \in Messages
    /\ \A t \in Transactions, id \in OcppIds \cup {None} :
         StopMessage(t, id) \in Messages
    /\ StatusMessage \in Messages
    BY DEF StartMessage, MeterMessage, StopMessage, StatusMessage, Message, Messages

\* The id a transaction is reported under is one the CSMS chose, or none.
LEMMA OcppIdOfType ==
    ASSUME PointTypeOK, NEW t \in Transactions
    PROVE  OcppIdOf(t) \in OcppIds \cup {None}
    BY DEF PointTypeOK, OcppIdOf

\* Ending a transaction and freeing its EVSE keep the types of the point.
LEMMA EndType ==
    ASSUME PointTypeOK, NEW t \in Transactions, End(t)
    PROVE  /\ tx' \in [Transactions -> TxValues]
           /\ evseTx' \in [Connectors -> Transactions \cup {None}]
<1>1. [tx[t] EXCEPT !.state = "ended"] \in TxValues
  <2>1. tx[t] \in TxValues
    BY DEF PointTypeOK
  <2> QED
    BY <2>1 DEF TxValues
<1>2. tx' = [tx EXCEPT ![t] = [tx[t] EXCEPT !.state = "ended"]]
    BY DEF End
<1>3. evseTx' = [evseTx EXCEPT ![tx[t].connector] = None]
    BY DEF End
<1> QED
    BY <1>1, <1>2, <1>3 DEF PointTypeOK

\* Starting or stopping a meter loop leaves a loop.
LEMMA LoopTypes ==
    ASSUME PointTypeOK, NEW t
    PROVE  /\ LoopStarted(t) \in [Transactions -> LoopValues]
           /\ LoopStopped(t) \in [Transactions -> LoopValues]
    BY DEF PointTypeOK, LoopValues, LoopStarted, LoopStopped, LoopOff

\* A reading added to the outbox, to a record ensured first or not, leaves
\* records in it.
LEMMA RecordReadingType ==
    ASSUME PointTypeOK, NEW t \in Transactions, NEW n \in Nat, RecordReading(t, n)
    PROVE  outbox' \in [Transactions -> Records]
<1> DEFINE record == IF outbox[t].kept \/ ~IsBound(t) THEN outbox[t]
                     ELSE RecordBoundStarted(OcppIdOf(t))
<1>1. outbox[t] \in Records /\ outbox \in [Transactions -> Records]
    BY DEF PointTypeOK
<1>2. RecordBoundStarted(OcppIdOf(t)) \in Records
    BY <1>1, OcppIdOfType, RecordTypes
<1>3. record \in Records
    BY <1>1, <1>2
<1>4. RecordMeterValue(record, n) \in Records
    BY <1>3, RecordTypes
<1>5. outbox' = [outbox EXCEPT ![t] = RecordMeterValue(record, n)]
    BY DEF RecordReading
<1> QED
    BY <1>1, <1>4, <1>5

-----------------------------------------------------------------------------
(* Each stretch of a coroutine preserves the types.  It is taken on a queue q *)
(* and a set a of coroutines still to resume.                                 *)

\* A transaction created active, with its EVSE bound, keeps the types.
LEMMA CreateActiveType ==
    ASSUME PointTypeOK, NEW t, NEW c \in Connectors \cup {None}, NEW at \in Nat,
           t \in Transactions \cup {None}, CreateActive(t, c, at)
    PROVE  /\ tx' \in [Transactions -> TxValues]
           /\ evseTx' \in [Connectors -> Transactions \cup {None}]
<1> DEFINE value == [state |-> "active", connector |-> c, at |-> at, samples |-> 0]
<1>1. value \in TxValues
    BY DEF TxValues
<1>2. tx' = [tx EXCEPT ![t] = value] /\ evseTx' = [evseTx EXCEPT ![c] = t]
    BY DEF CreateActive
<1> QED
    BY <1>1, <1>2 DEF PointTypeOK

\* A start that goes on, from either of its awaits, keeps the types.
LEMMA StartStepType ==
    ASSUME PointTypeOK, NEW s \in Starts, NEW answer \in Answers,
           NEW q \in Seq(Entries), NEW a \in SUBSET Tasks,
           \/ StartAccepted(s, answer, q, a)
           \/ StartRefused(s, answer, q, a)
           \/ StartNotified(s, q, a)
    PROVE  PointTypeOK'
<1>0. start[s] \in StartValues /\ start \in [Starts -> StartValues]
    BY DEF PointTypeOK
<1>1. StatusMessage \in Messages /\ StartTask(s) \in Tasks
    BY MessageTypes, TaskTypes
<1>2. CASE StartAccepted(s, answer, q, a)
  <2>1. answer.id \in OcppIds \cup {None} /\ answer.id \in Transactions \cup {None}
    BY DEF Answers, Transactions
  <2>2. tx' \in [Transactions -> TxValues]
        /\ evseTx' \in [Connectors -> Transactions \cup {None}]
    BY <1>0, <1>2, <2>1, CreateActiveType DEF StartAccepted, StartValues
  <2>3. start' \in [Starts -> StartValues]
    <3>1. [start[s] EXCEPT !.pc = "notifying", !.tx = answer.id] \in StartValues
        BY <1>0, <2>1 DEF StartValues
    <3>2. start' = [start EXCEPT ![s] =
                      [start[s] EXCEPT !.pc = "notifying", !.tx = answer.id]]
        BY <1>0, <1>2 DEF StartAccepted
    <3> QED
        BY <1>0, <3>1, <3>2
  <2>4. queue' \in Seq(Entries) /\ aborted' \subseteq Tasks
    BY <1>1, <1>2, RequestType DEF StartAccepted
  <2> QED
    BY <1>2, <2>2, <2>3, <2>4 DEF PointTypeOK, StartAccepted, Entries
<1>3. CASE StartRefused(s, answer, q, a) \/ StartNotified(s, q, a)
  <2>1. start' \in [Starts -> StartValues]
    <3>1. [start[s] EXCEPT !.pc = "done"] \in StartValues
        BY <1>0 DEF StartValues
    <3>2. start' = [start EXCEPT ![s] = [start[s] EXCEPT !.pc = "done"]]
        BY <1>0, <1>3 DEF StartRefused, StartNotified
    <3> QED
        BY <1>0, <3>1, <3>2
  <2>2. queue' \in Seq(Entries) /\ aborted' \subseteq Tasks
    BY <1>3, FinishType DEF StartRefused, StartNotified
  <2>3. CASE StartRefused(s, answer, q, a)
    BY <2>1, <2>2, <2>3 DEF PointTypeOK, StartRefused, Entries
  <2>4. CASE StartNotified(s, q, a)
    BY <2>1, <2>2, <2>4, LoopTypes DEF PointTypeOK, StartNotified, Entries
  <2> QED
    BY <1>3, <2>3, <2>4
<1> QED
    BY <1>2, <1>3

\* A stop whose StopTransaction was answered or failed keeps the types.
LEMMA StopStepType ==
    ASSUME PointTypeOK, NEW t \in Transactions,
           NEW q \in Seq(Entries), NEW a \in SUBSET Tasks,
           StopAnswered(t, q, a)
    PROVE  PointTypeOK'
<1>1. StatusMessage \in Messages /\ StopTask(t) \in Tasks
      /\ StopMessage(t, OcppIdOf(t)) \in Messages
    BY MessageTypes, TaskTypes, OcppIdOfType
<1>2. queue' \in Seq(Entries) /\ aborted' \subseteq Tasks
    BY <1>1, RequestType, FinishType DEF StopAnswered
<1>3. stop' \in [Transactions -> {"none", "finishing", "stopping", "notifying", "done"}]
    BY DEF PointTypeOK, StopAnswered
<1> QED
    BY <1>2, <1>3 DEF PointTypeOK, StopAnswered, Entries

\* A report whose MeterValues was answered or failed keeps the types.
LEMMA ReportStepType ==
    ASSUME PointTypeOK, NEW t \in Transactions, NEW n \in Nat, NEW answer \in Answers,
           NEW q \in Seq(Entries), NEW a \in SUBSET Tasks,
           ReportAnswered(t, n, answer, q, a)
    PROVE  PointTypeOK'
<1>1. queue' \in Seq(Entries) /\ aborted' \subseteq Tasks
    BY FinishType DEF ReportAnswered
<1>2. loop' \in [Transactions -> LoopValues]
    BY DEF PointTypeOK, ReportAnswered, LoopValues
<1>3. outbox' \in [Transactions -> Records]
    BY RecordReadingType DEF ReportAnswered, PointTypeOK
<1>4. lost' \subseteq Transactions \X Nat
    BY DEF ReportAnswered, PointTypeOK
<1> QED
    BY <1>1, <1>2, <1>3, <1>4 DEF PointTypeOK, ReportAnswered, Entries

(* The replay. *)

\* Among records waiting to be replayed one began first.
LEMMA EarliestExists ==
    ASSUME PointTypeOK, NEW todo \in SUBSET Transactions, todo # {}
    PROVE  Earliest(todo) \in todo /\ \A u \in todo : tx[Earliest(todo)].at <= tx[u].at
<1> DEFINE times == {tx[t].at : t \in todo}
           before == OpToRel(<, Nat)
<1>1. times \subseteq Nat /\ times # {}
    BY DEF PointTypeOK, TxValues
<1>2. PICK n \in times : \A m \in times : ~(<<m, n>> \in before)
    BY <1>1, NatLessThanWellFounded, WFMin
<1>3. \A m \in times : n <= m
  <2>1. SUFFICES ASSUME NEW m \in times PROVE n <= m
    OBVIOUS
  <2>2. m \in Nat /\ n \in Nat
    BY <1>1
  <2>3. <<m, n>> \notin before
    BY <1>2
  <2>4. m < n => <<m, n>> \in before
    BY <2>2 DEF OpToRel
  <2> HIDE DEF before
  <2> QED
    BY <2>2, <2>3, <2>4
<1>4. PICK t \in todo : n = tx[t].at
    OBVIOUS
<1>5. \A u \in todo : tx[t].at <= tx[u].at
    BY <1>3, <1>4
<1> QED
    BY <1>4, <1>5 DEF Earliest

\* Between replays, and at the start, the replay is a coroutine that is idle.
LEMMA IdleType == ReplayIdle \in Replays
<1>1. NoRecord \in Records
    BY DEF NoRecord, Records, StopStates
<1>2. [t \in Transactions |-> NoRecord] \in [Transactions -> Records]
    BY <1>1
<1> QED
    BY <1>2 DEF ReplayIdle, Replays

\* The replay's walk over the readings and the stop of a record keeps the types.
LEMMA ReplayReadingsType ==
    ASSUME NEW r \in Replays, r.tx \in Transactions,
           NEW q \in Seq(Entries), NEW a \in SUBSET Tasks,
           ReplayReadings(r, q, a)
    PROVE  /\ replay' \in Replays /\ replay'.tx \in Transactions
           /\ queue' \in Seq(Entries) /\ aborted' \subseteq Tasks
<1> DEFINE record == r.snap[r.tx]
           unsent == {i \in UnsentMeterValues(record) : i > r.index}
<1>1. record \in Records /\ r.id \in OcppIds \cup {None}
    BY DEF Replays
<1>2. ReplayTask \in Tasks /\ StatusMessage \in Messages
      /\ StopMessage(r.tx, r.id) \in Messages
    BY <1>1, TaskTypes, MessageTypes
<1>3. CASE \E i \in unsent :
             /\ replay' = [r EXCEPT !.pc = "meter", !.index = i]
             /\ Request(ReplayTask,
                        MeterMessage(r.tx, r.id, record.meterValues[i].sample), q, a)
  <2>1. PICK i \in unsent :
             /\ replay' = [r EXCEPT !.pc = "meter", !.index = i]
             /\ Request(ReplayTask,
                        MeterMessage(r.tx, r.id, record.meterValues[i].sample), q, a)
    BY <1>3
  <2>2. record.meterValues \in Seq([sample : Nat, replayed : BOOLEAN])
        /\ i \in 1..Len(record.meterValues) /\ i \in Nat
    BY <1>1 DEF Records, UnsentMeterValues
  <2>3. record.meterValues[i] \in [sample : Nat, replayed : BOOLEAN]
    BY <2>2, ElementOfSeq
  <2>4. MeterMessage(r.tx, r.id, record.meterValues[i].sample) \in Messages
    BY <1>1, <2>3, MessageTypes
  <2>5. queue' \in Seq(Entries) /\ aborted' \subseteq Tasks
    BY <1>2, <2>1, <2>4, RequestType
  <2> QED
    BY <2>1, <2>2, <2>5 DEF Replays
<1>4. CASE \/ replay' = [r EXCEPT !.pc = "stop"]
              /\ Request(ReplayTask, StopMessage(r.tx, r.id), q, a)
           \/ replay' = [r EXCEPT !.pc = "charging"]
              /\ Request(ReplayTask, StatusMessage, q, a)
  <2>1. queue' \in Seq(Entries) /\ aborted' \subseteq Tasks
    BY <1>2, <1>4, RequestType
  <2> QED
    BY <1>4, <2>1 DEF Replays
<1> QED
    BY <1>3, <1>4 DEF ReplayReadings

\* The replay going to its next record, or ending, keeps the types.
LEMMA ReplayNextType ==
    ASSUME PointTypeOK, NEW r \in Replays,
           NEW ids \in [Transactions -> OcppIds \cup {None}],
           NEW q \in Seq(Entries), NEW a \in SUBSET Tasks,
           ReplayNext(r, ids, q, a)
    PROVE  /\ replay' \in Replays
           /\ replay'.pc # "idle" => replay'.tx \in Transactions
           /\ bound' \in [Transactions -> OcppIds \cup {None}]
           /\ queue' \in Seq(Entries) /\ aborted' \subseteq Tasks
<1> DEFINE t == Earliest(r.todo)
           taken == [r EXCEPT !.todo = r.todo \ {t}, !.tx = t, !.index = 0,
                              !.id = r.snap[t].ocppId]
<1>1. CASE r.todo = {}
  <2>1. replay' = ReplayIdle /\ bound' = ids /\ Finish(q, a)
    BY <1>1 DEF ReplayNext
  <2> QED
    BY <2>1, IdleType, FinishType DEF ReplayIdle
<1>2. CASE r.todo # {}
  <2>1. t \in Transactions
    <3>1. r.todo \in SUBSET Transactions
        BY DEF Replays
    <3>2. t \in r.todo
        BY <1>2, <3>1, EarliestExists
    <3> QED
        BY <3>1, <3>2
  <2>2. r.snap[t] \in Records /\ r.snap[t].ocppId \in OcppIds \cup {None}
    BY <2>1 DEF Replays, Records
  <2>3. taken \in Replays /\ taken.tx \in Transactions
    BY <2>1, <2>2 DEF Replays
  <2>4. CASE ~r.snap[t].startReplayed
    <3>1. replay' = [taken EXCEPT !.pc = "start"] /\ bound' = ids
          /\ Request(ReplayTask, StartMessage(t), q, a)
        BY <1>2, <2>4 DEF ReplayNext
    <3> QED
        BY <2>1, <2>3, <3>1, TaskTypes, MessageTypes, RequestType DEF Replays
  <2>5. CASE r.snap[t].startReplayed
    <3>1. ReplayReadings(taken, q, a) /\ bound' = [ids EXCEPT ![t] = r.snap[t].ocppId]
        BY <1>2, <2>5 DEF ReplayNext
    <3> QED
        BY <2>1, <2>2, <2>3, <3>1, ReplayReadingsType
  <2> QED
    BY <2>4, <2>5
<1> QED
    BY <1>1, <1>2

\* The five ways on for the replay, whatever the answer.
LEMMA ReplayStepType ==
    ASSUME PointTypeOK, NEW answer \in Answers,
           NEW q \in Seq(Entries), NEW a \in SUBSET Tasks,
           ReplayAnswered(answer, q, a)
    PROVE  PointTypeOK'
<1> DEFINE t == replay.tx
<1>0. replay \in Replays /\ outbox \in [Transactions -> Records]
      /\ bound \in [Transactions -> OcppIds \cup {None}]
    BY DEF PointTypeOK
<1>1. answer.id \in OcppIds \cup {None} /\ ReplayTask \in Tasks /\ StatusMessage \in Messages
    BY TaskTypes, MessageTypes DEF Answers
<1>2. UNCHANGED <<start, stop, lost>> /\ deauthorized' \subseteq Transactions
  <2>1. CASE ReplayStartAnswered(answer, q, a)
    <3>1. replay.tx \in Transactions
        BY <2>1 DEF PointTypeOK, ReplayStartAnswered
    <3>2. deauthorized' = deauthorized \/ deauthorized' = deauthorized \cup {replay.tx}
        BY <2>1 DEF ReplayStartAnswered
    <3> QED
        BY <3>1, <3>2 DEF PointTypeOK, ReplayAnswered
  <2>2. CASE UNCHANGED deauthorized
    BY <2>2 DEF PointTypeOK, ReplayAnswered
  <2> QED
    BY <2>1, <2>2 DEF ReplayAnswered
<1>3. SUFFICES /\ tx' \in [Transactions -> TxValues]
               /\ evseTx' \in [Connectors -> Transactions \cup {None}]
               /\ bound' \in [Transactions -> OcppIds \cup {None}]
               /\ outbox' \in [Transactions -> Records]
               /\ loop' \in [Transactions -> LoopValues]
               /\ replay' \in Replays
               /\ replay'.pc # "idle" => replay'.tx \in Transactions
               /\ queue' \in Seq(Entries)
               /\ aborted' \subseteq Tasks
    BY <1>2 DEF PointTypeOK, Entries
<1>4. CASE ReplayAbandoned(answer, q, a)
  <2>1. replay' \in Replays /\ replay'.pc = "idle"
    BY <1>4, IdleType DEF ReplayAbandoned, ReplayIdle
  <2>2. queue' \in Seq(Entries) /\ aborted' \subseteq Tasks
    BY <1>4, FinishType DEF ReplayAbandoned
  <2> QED
    BY <1>4, <2>1, <2>2 DEF ReplayAbandoned, PointTypeOK
<1>5. CASE ReplayStartAnswered(answer, q, a)
  <2> DEFINE record == BindStart(outbox[t], answer.id)
             r == [replay EXCEPT !.id = answer.id]
  <2>1. t \in Transactions
    BY <1>5 DEF ReplayStartAnswered, PointTypeOK
  <2>2. record \in Records
    BY <1>0, <1>1, <2>1, RecordTypes
  <2>3. r \in Replays /\ r.tx \in Transactions
    BY <1>0, <1>1, <2>1 DEF Replays
  <2>4. bound' \in [Transactions -> OcppIds \cup {None}]
    BY <1>0, <1>1, <1>5 DEF ReplayStartAnswered
  <2>5. tx' \in [Transactions -> TxValues]
        /\ evseTx' \in [Connectors -> Transactions \cup {None}]
    BY <1>5, <2>1, EndType DEF ReplayStartAnswered, PointTypeOK
  <2>6. loop' \in [Transactions -> LoopValues]
    BY <1>5 DEF ReplayStartAnswered, PointTypeOK
  <2>7. RecordStopped(record) \in Records
    BY <1>1, <2>2, RecordTypes
  <2>8. outbox' \in [Transactions -> Records]
    <3>1. \/ outbox' = [outbox EXCEPT ![t] = record]
          \/ outbox' = [outbox EXCEPT ![t] = RecordStopped(record)]
        BY <1>5 DEF ReplayStartAnswered
    <3> QED
        BY <1>0, <2>2, <2>7, <3>1
  <2>9. StopMessage(t, answer.id) \in Messages
    BY <1>1, <2>1, MessageTypes
  <2>10. /\ replay' \in Replays /\ replay'.tx \in Transactions
         /\ queue' \in Seq(Entries) /\ aborted' \subseteq Tasks
    <3>1. CASE ReplayReadings(r, q, a)
        BY <2>3, <3>1, ReplayReadingsType
    <3>2. CASE /\ replay' = [r EXCEPT !.pc = "stop"]
               /\ Request(ReplayTask, StopMessage(t, answer.id), q, a)
      <4>1. queue' \in Seq(Entries) /\ aborted' \subseteq Tasks
        BY <1>1, <2>9, <3>2, RequestType
      <4> QED
        BY <2>3, <3>2, <4>1 DEF Replays
    <3>3. CASE /\ replay' = [r EXCEPT !.pc = "charging"]
               /\ Request(ReplayTask, StatusMessage, q, a)
      <4>1. queue' \in Seq(Entries) /\ aborted' \subseteq Tasks
        BY <1>1, <3>3, RequestType
      <4> QED
        BY <2>3, <3>3, <4>1 DEF Replays
    <3> QED
        BY <1>5, <3>1, <3>2, <3>3 DEF ReplayStartAnswered
  <2> QED
    BY <2>4, <2>5, <2>6, <2>8, <2>10
<1>6. CASE ReplayReadingAnswered(answer, q, a)
  <2>1. t \in Transactions /\ replay.index \in Nat
    BY <1>0, <1>6 DEF ReplayReadingAnswered, PointTypeOK, Replays
  <2>2. MarkMeterValueReplayed(outbox[t], replay.index) \in Records
    BY <1>0, <1>1, <2>1, RecordTypes
  <2>3. outbox' \in [Transactions -> Records]
    BY <1>0, <1>6, <2>2 DEF ReplayReadingAnswered
  <2>4. /\ replay' \in Replays /\ replay'.tx \in Transactions
        /\ queue' \in Seq(Entries) /\ aborted' \subseteq Tasks
    BY <1>0, <1>6, <2>1, ReplayReadingsType DEF ReplayReadingAnswered
  <2> QED
    BY <1>6, <2>3, <2>4 DEF ReplayReadingAnswered, PointTypeOK
<1>7. CASE ReplayStopAnswered(answer, q, a)
  <2>1. t \in Transactions
    BY <1>7 DEF ReplayStopAnswered, PointTypeOK
  <2>2. MarkStopReplayed(outbox[t]) \in Records
    <3>1. 0 \in Nat /\ outbox[t] \in Records
        BY <1>0, <2>1
    <3> QED
        BY <1>1, <3>1, RecordTypes
  <2>3. outbox' \in [Transactions -> Records]
    BY <1>0, <1>7, <2>2 DEF ReplayStopAnswered
  <2>4. queue' \in Seq(Entries) /\ aborted' \subseteq Tasks
    BY <1>1, <1>7, RequestType DEF ReplayStopAnswered
  <2>5. replay' \in Replays /\ replay'.tx \in Transactions
    BY <1>0, <1>7, <2>1 DEF ReplayStopAnswered, Replays
  <2> QED
    BY <1>7, <2>3, <2>4, <2>5 DEF ReplayStopAnswered, PointTypeOK
<1>8. CASE ReplayNotified(q, a)
  <2>1. /\ replay' \in Replays
        /\ replay'.pc # "idle" => replay'.tx \in Transactions
        /\ bound' \in [Transactions -> OcppIds \cup {None}]
        /\ queue' \in Seq(Entries) /\ aborted' \subseteq Tasks
    BY <1>0, <1>8, ReplayNextType DEF ReplayNotified
  <2>2. loop' \in [Transactions -> LoopValues]
    BY <1>8, LoopTypes DEF ReplayNotified, PointTypeOK
  <2> QED
    BY <1>8, <2>1, <2>2 DEF ReplayNotified, PointTypeOK
<1> QED
    BY <1>4, <1>5, <1>6, <1>7, <1>8 DEF ReplayAnswered

\* A coroutine that goes on leaves the point's state well typed.
LEMMA SettledType ==
    ASSUME PointTypeOK, NEW task \in Tasks, NEW answer \in Answers,
           NEW q \in Seq(Entries), NEW a \in SUBSET Tasks,
           Settled(task, answer, q, a)
    PROVE  PointTypeOK'
<1>1. CASE task.of = "start"
  <2>1. task.id \in Starts
    BY <1>1 DEF Tasks, ReplayTask
  <2> QED
    BY <1>1, <2>1, StartStepType DEF Settled
<1>2. CASE task.of = "stop"
  <2>1. task.id \in Transactions
    BY <1>2 DEF Tasks, ReplayTask
  <2> QED
    BY <1>2, <2>1, StopStepType DEF Settled
<1>3. CASE task.of = "report"
  <2>1. task.id \in Transactions /\ task.sample \in Nat
    BY <1>3 DEF Tasks, ReplayTask
  <2> QED
    BY <1>3, <2>1, ReportStepType DEF Settled
<1>4. CASE task.of = "replay"
    BY <1>4, ReplayStepType DEF Settled, Answers
<1> QED
    BY <1>1, <1>2, <1>3, <1>4 DEF Tasks, ReplayTask

-----------------------------------------------------------------------------
(* The actions, and the type invariant. *)

\* The replay begins from an idle one.
LEMMA ReplayBegunType ==
    ASSUME PointTypeOK, ReplayBegun
    PROVE  /\ replay' \in Replays
           /\ replay'.pc # "idle" => replay'.tx \in Transactions
           /\ bound' \in [Transactions -> OcppIds \cup {None}]
           /\ queue' \in Seq(Entries) /\ aborted' \subseteq Tasks
<1> DEFINE snap == [t \in Transactions |-> IF t \in Pending THEN outbox[t] ELSE NoRecord]
           r == [ReplayIdle EXCEPT !.todo = Pending, !.snap = snap]
<1>1. NoRecord \in Records
    BY DEF NoRecord, Records, StopStates
<1>2. snap \in [Transactions -> Records]
    BY <1>1 DEF PointTypeOK
<1>3. Pending \in SUBSET Transactions
    BY DEF Pending
<1>4. r \in Replays
    BY <1>2, <1>3, IdleType DEF Replays
<1>5. ReplayNext(r, bound, queue, aborted)
    BY DEF ReplayBegun
<1>6. queue \in Seq(Entries) /\ aborted \in SUBSET Tasks
      /\ bound \in [Transactions -> OcppIds \cup {None}]
    BY DEF PointTypeOK, Entries
<1> HIDE DEF r
<1> QED
    BY <1>4, <1>5, <1>6, ReplayNextType

\* What is left of the queue, and the request that was in flight.
LEMMA HeadTail ==
    ASSUME NEW q \in Seq(Entries), q # <<>>
    PROVE  /\ Head(q) \in Entries /\ Tail(q) \in Seq(Entries)
           /\ Head(q).task \in Tasks /\ Head(q).msg \in Messages
<1>1. Head(q) \in Entries /\ Tail(q) \in Seq(Entries)
    BY HeadTailProperties
<1> QED
    BY <1>1 DEF Entries

\* A receipt is the message, under an id the CSMS chose when it is a start.
LEMMA ReceiptType ==
    ASSUME NEW message \in Messages, NEW receipt \in Receipts(message)
    PROVE  receipt \in Messages /\ receipt.id \in OcppIds \cup {None}
<1>1. CASE receipt = message
    BY <1>1 DEF Messages
<1>2. CASE \E id \in FreshOcppIds : receipt = [message EXCEPT !.id = id]
    BY <1>2 DEF Messages, FreshOcppIds
<1> QED
    BY <1>1, <1>2 DEF Receipts

\* What the CSMS has received is a sequence of messages.
LEMMA ReceivedType ==
    ASSUME log \in Seq(Messages), NEW receipt \in Messages, Received(receipt)
    PROVE  log' \in Seq(Messages)
    BY DEF Received

\* Beginning a start, offline or online, keeps the types.
LEMMA StartActionsType ==
    ASSUME TypeOK, NEW s \in Starts, NEW c \in Connectors,
           BeginOfflineStart(s, c) \/ BeginOnlineStart(s, c)
    PROVE  TypeOK'
<1>0. start[s] \in StartValues /\ start \in [Starts -> StartValues] /\ starts \in Nat
      /\ queue \in Seq(Entries) /\ aborted \in SUBSET Tasks
    BY DEF TypeOK, PointTypeOK, Entries
<1>1. CASE BeginOfflineStart(s, c)
  <2>1. PICK t \in LocalIds :
             /\ CreateActive(t, c, starts)
             /\ outbox' = [outbox EXCEPT ![t] = RecordStarted]
             /\ loop' = LoopStarted(t)
    BY <1>1 DEF BeginOfflineStart
  <2>2. t \in Transactions
    BY DEF Transactions
  <2>3. tx' \in [Transactions -> TxValues]
        /\ evseTx' \in [Connectors -> Transactions \cup {None}]
    BY <1>0, <2>1, <2>2, CreateActiveType DEF TypeOK
  <2>4. outbox' \in [Transactions -> Records]
    <3>1. NoRecord \in Records
        BY DEF NoRecord, Records, StopStates
    <3>2. RecordStarted \in Records
        BY <3>1 DEF RecordStarted, Records
    <3> QED
        BY <2>1, <3>2 DEF TypeOK, PointTypeOK
  <2>5. loop' \in [Transactions -> LoopValues]
    BY <2>1, LoopTypes DEF TypeOK
  <2>6. start' \in [Starts -> StartValues]
    <3>1. [start[s] EXCEPT !.pc = "done"] \in StartValues
        BY <1>0 DEF StartValues
    <3>2. start' = [start EXCEPT ![s] = [start[s] EXCEPT !.pc = "done"]]
        BY <1>0, <1>1 DEF BeginOfflineStart
    <3> QED
        BY <1>0, <3>1, <3>2
  <2>7. UNCHANGED <<bound, stop, lost, deauthorized, replay, sessionVars, connected,
                    registered, log, faults, restarts>> /\ starts' = starts + 1
    BY <1>1 DEF BeginOfflineStart
  <2> QED
    BY <2>3, <2>4, <2>5, <2>6, <2>7 DEF TypeOK, PointTypeOK, sessionVars
<1>2. CASE BeginOnlineStart(s, c)
  <2> DEFINE value == [pc |-> "sending", connector |-> c, at |-> starts, tx |-> None]
  <2>1. value \in StartValues
    BY <1>0 DEF StartValues
  <2>2. start' = [start EXCEPT ![s] = value]
    BY <1>2 DEF BeginOnlineStart
  <2>3. start' \in [Starts -> StartValues]
    BY <1>0, <2>1, <2>2
  <2>4. StartTask(s) \in Tasks /\ StartMessage(None) \in Messages
    BY TaskTypes, MessageTypes
  <2>5. queue' \in Seq(Entries) /\ aborted' \subseteq Tasks
    BY <1>0, <1>2, <2>4, RequestType DEF BeginOnlineStart
  <2> QED
    BY <1>2, <2>3, <2>5 DEF BeginOnlineStart, TypeOK, PointTypeOK, Entries
<1> QED
    BY <1>1, <1>2

\* Beginning a stop or a report, a stop that throws and a loop that expires or
\* is restarted keep the types.
LEMMA TransactionActionsType ==
    ASSUME TypeOK, NEW t \in Transactions,
           \/ BeginOnlineStop(t) \/ BeginOfflineStop(t) \/ StopThrows(t)
           \/ BeginReport(t) \/ LoopExpires(t)
    PROVE  TypeOK'
<1>0. queue \in Seq(Entries) /\ aborted \in SUBSET Tasks /\ PointTypeOK
      /\ outbox \in [Transactions -> Records] /\ outbox[t] \in Records
    BY DEF TypeOK, PointTypeOK, Entries
<1>1. LoopStopped(t) \in [Transactions -> LoopValues]
    BY <1>0, LoopTypes
<1>2. CASE BeginOnlineStop(t)
  <2>1. tx' \in [Transactions -> TxValues]
        /\ evseTx' \in [Connectors -> Transactions \cup {None}]
    BY <1>0, <1>2, EndType DEF BeginOnlineStop
  <2>2. queue' \in Seq(Entries) /\ aborted' \subseteq Tasks
    BY <1>0, <1>2, TaskTypes, MessageTypes, RequestType DEF BeginOnlineStop
  <2>3. stop' \in [Transactions -> {"none", "finishing", "stopping", "notifying", "done"}]
    BY <1>2 DEF BeginOnlineStop, TypeOK, PointTypeOK
  <2> QED
    BY <1>1, <1>2, <2>1, <2>2, <2>3
        DEF BeginOnlineStop, TypeOK, PointTypeOK, Entries, envVars
<1>3. CASE BeginOfflineStop(t)
  <2>1. tx' \in [Transactions -> TxValues]
        /\ evseTx' \in [Connectors -> Transactions \cup {None}]
    BY <1>0, <1>3, EndType DEF BeginOfflineStop
  <2>2. RecordStopped(outbox[t]) \in Records
    BY <1>0 DEF RecordStopped, Records, StopStates
  <2>3. outbox' \in [Transactions -> Records]
    BY <1>0, <1>3, <2>2 DEF BeginOfflineStop
  <2> QED
    BY <1>1, <1>3, <2>1, <2>3
        DEF BeginOfflineStop, TypeOK, PointTypeOK, envVars, sessionVars
<1>4. CASE StopThrows(t) \/ LoopExpires(t)
    BY <1>1, <1>4 DEF StopThrows, LoopExpires, TypeOK, PointTypeOK, envVars, sessionVars
<1>5. CASE BeginReport(t)
  <2> DEFINE n == tx[t].samples + 1
  <2>1. n \in Nat /\ tx[t] \in TxValues /\ tx \in [Transactions -> TxValues]
    BY <1>0 DEF PointTypeOK, TxValues
  <2>2. tx' \in [Transactions -> TxValues]
    <3>1. [tx[t] EXCEPT !.samples = n] \in TxValues
        BY <2>1 DEF TxValues
    <3>2. tx' = [tx EXCEPT ![t] = [tx[t] EXCEPT !.samples = n]]
        BY <1>5, <2>1 DEF BeginReport
    <3> QED
        BY <2>1, <3>1, <3>2
  <2>3. UNCHANGED <<evseTx, bound, start, stop, lost, deauthorized, replay, envVars>>
    BY <1>5 DEF BeginReport
  <2>4. /\ outbox' \in [Transactions -> Records]
        /\ loop' \in [Transactions -> LoopValues]
        /\ queue' \in Seq(Entries) /\ aborted' \subseteq Tasks
    <3>1. CASE RecordReading(t, n) /\ UNCHANGED <<loop, sessionVars>>
      <4>1. outbox' \in [Transactions -> Records]
        BY <1>0, <2>1, <3>1, RecordReadingType
      <4> QED
        BY <1>0, <3>1, <4>1 DEF sessionVars, PointTypeOK
    <3>2. CASE /\ loop' = [loop EXCEPT ![t].reporting = n]
               /\ Request(ReportTask(t, n), MeterMessage(t, OcppIdOf(t), n), queue, aborted)
               /\ UNCHANGED outbox
      <4>1. ReportTask(t, n) \in Tasks /\ MeterMessage(t, OcppIdOf(t), n) \in Messages
        BY <1>0, <2>1, TaskTypes, MessageTypes, OcppIdOfType
      <4>2. queue' \in Seq(Entries) /\ aborted' \subseteq Tasks
        BY <1>0, <3>2, <4>1, RequestType
      <4>3. loop' \in [Transactions -> LoopValues]
        BY <1>0, <2>1, <3>2 DEF PointTypeOK, LoopValues
      <4> QED
        BY <1>0, <3>2, <4>2, <4>3
    <3> QED
        BY <1>5, <3>1, <3>2 DEF BeginReport
  <2> QED
    BY <2>2, <2>3, <2>4 DEF TypeOK, PointTypeOK, Entries, envVars
<1> QED
    BY <1>2, <1>3, <1>4, <1>5

\* A step that leaves the point alone keeps the types of the point.
LEMMA PointUnchangedType ==
    ASSUME PointTypeOK, UNCHANGED <<pointVars, sessionVars>>
    PROVE  PointTypeOK'
<1>1. /\ tx' = tx /\ evseTx' = evseTx /\ bound' = bound /\ outbox' = outbox
      /\ start' = start /\ stop' = stop /\ loop' = loop /\ lost' = lost
      /\ deauthorized' = deauthorized
      /\ replay' = replay /\ queue' = queue /\ aborted' = aborted
    BY DEF pointVars, sessionVars
<1> QED
    BY <1>1 DEF PointTypeOK

\* The session's steps, a reply, a failure, a loss of the connection and the
\* resumption of a coroutine, keep the types.
LEMMA SessionActionsType ==
    ASSUME TypeOK,
           Reply \/ RequestFails \/ Disconnect \/ Resume \/ Connect
    PROVE  TypeOK'
<1>0. queue \in Seq(Entries) /\ aborted \in SUBSET Tasks /\ PointTypeOK
      /\ log \in Seq(Messages)
    BY DEF TypeOK, PointTypeOK, Entries
<1>1. CASE Reply
  <2>1. PICK receipt \in Receipts(Head(queue).msg), accepted \in BOOLEAN :
             /\ Received(receipt)
             /\ Settled(Head(queue).task, Response(receipt.id, accepted),
                        Tail(queue), aborted)
    BY <1>1 DEF Reply
  <2>2. /\ Tail(queue) \in Seq(Entries) /\ Head(queue).task \in Tasks
        /\ Head(queue).msg \in Messages
    BY <1>0, <1>1, HeadTail DEF Reply
  <2>3. receipt \in Messages /\ receipt.id \in OcppIds \cup {None}
    BY <2>2, ReceiptType
  <2>4. log' \in Seq(Messages)
    BY <1>0, <2>1, <2>3, ReceivedType
  <2>5. Response(receipt.id, accepted) \in Answers
    BY <2>3 DEF Response, Answers
  <2>6. PointTypeOK'
    BY <1>0, <2>1, <2>2, <2>5, SettledType
  <2> QED
    BY <1>1, <2>4, <2>6 DEF Reply, TypeOK
<1>2. CASE RequestFails
  <2>1. /\ Tail(queue) \in Seq(Entries) /\ Head(queue).task \in Tasks
        /\ Head(queue).msg \in Messages
    BY <1>0, <1>2, HeadTail DEF RequestFails
  <2>2. log' \in Seq(Messages)
    BY <1>0, <1>2, <2>1, ReceiptType, ReceivedType DEF RequestFails
  <2>3. Failed \in Answers
    BY DEF Failed, Answers
  <2>4. PointTypeOK'
    BY <1>0, <1>2, <2>1, <2>3, SettledType DEF RequestFails
  <2> QED
    BY <1>2, <2>2, <2>4 DEF RequestFails, TypeOK
<1>3. CASE Disconnect
  <2>1. log' \in Seq(Messages)
    BY <1>0, <1>3, HeadTail, ReceiptType, ReceivedType DEF Disconnect
  <2>2. queue' \in Seq(Entries)
    BY <1>3 DEF Disconnect
  <2>3. aborted' \subseteq Tasks
    <3>1. SUFFICES ASSUME NEW i \in DOMAIN queue PROVE queue[i].task \in Tasks
        BY <1>3 DEF Disconnect
    <3>2. i \in 1..Len(queue)
        BY <1>0
    <3>3. queue[i] \in Entries
        BY <1>0, <3>2, ElementOfSeq
    <3> QED
        BY <3>3 DEF Entries
  <2>4. /\ UNCHANGED <<pointVars, registered, starts, restarts>>
        /\ connected' = FALSE /\ faults' = faults + 1
    BY <1>3 DEF Disconnect
  <2>5. PointTypeOK'
    BY <2>2, <2>3, <2>4 DEF TypeOK, PointTypeOK, Entries, pointVars
  <2>6. faults' \in Nat
    BY <2>4 DEF TypeOK
  <2>7. connected' \in BOOLEAN /\ registered' \in BOOLEAN
    BY <2>4 DEF TypeOK
  <2> QED
    BY <2>1, <2>4, <2>5, <2>6, <2>7, Zenon DEF TypeOK
<1>4. CASE Resume
  <2>1. PICK task \in aborted : Settled(task, Offline, queue, aborted \ {task})
    BY <1>4 DEF Resume
  <2>2. Offline \in Answers
    BY DEF Offline, Answers
  <2>3. PointTypeOK'
    BY <1>0, <2>1, <2>2, SettledType
  <2>4. UNCHANGED envVars
    BY <1>4 DEF Resume
  <2> QED
    BY <2>3, <2>4 DEF TypeOK, envVars
<1>5. CASE Connect
  <2>1. PointTypeOK'
    BY <1>0, <1>5, PointUnchangedType DEF Connect
  <2> QED
    BY <1>5, <2>1 DEF Connect, TypeOK
<1> QED
    BY <1>1, <1>2, <1>3, <1>4, <1>5

\* A reconnection, a boot and a heartbeat, with the replay they begin, keep
\* the types.
LEMMA BootActionsType ==
    ASSUME TypeOK,
           RestartMeterLoops \/ BootAccepted \/ BootRefused \/ HeartbeatAnswered
    PROVE  TypeOK'
<1>1. CASE RestartMeterLoops
    BY <1>1 DEF RestartMeterLoops, TypeOK, PointTypeOK, sessionVars, LoopOff, LoopValues
<1>2. CASE BootAccepted
  <2>1. CASE ReplayBegun
    BY <1>2, <2>1, ReplayBegunType DEF BootAccepted, TypeOK, PointTypeOK, Entries
  <2>2. CASE UNCHANGED <<replay, bound, sessionVars>>
    BY <1>2, <2>2 DEF BootAccepted, TypeOK, PointTypeOK, sessionVars
  <2> QED
    BY <1>2, <2>1, <2>2 DEF BootAccepted
<1>3. CASE BootRefused
  <2>1. UNCHANGED <<pointVars, sessionVars>>
    BY <1>3 DEF BootRefused
  <2>2. PointTypeOK'
    BY <2>1, PointUnchangedType DEF TypeOK
  <2>3. /\ connected' = connected /\ registered' = FALSE /\ log' = log
        /\ faults' = faults + 1 /\ starts' = starts /\ restarts' = restarts
    BY <1>3 DEF BootRefused
  <2>4. faults' \in Nat
    BY <2>3 DEF TypeOK
  <2>5. connected' \in BOOLEAN /\ registered' \in BOOLEAN
    BY <2>3 DEF TypeOK
  <2> QED
    BY <2>2, <2>3, <2>4, <2>5, Zenon DEF TypeOK
<1>4. CASE HeartbeatAnswered
    BY <1>4, ReplayBegunType
        DEF HeartbeatAnswered, TypeOK, PointTypeOK, Entries, envVars
<1> QED
    BY <1>1, <1>2, <1>3, <1>4

\* Every step keeps the types.
LEMMA TypeStep ==
    ASSUME TypeOK, [Next]_vars
    PROVE  TypeOK'
<1>1. CASE UNCHANGED vars
    BY <1>1 DEF vars, pointVars, sessionVars, envVars, TypeOK, PointTypeOK
<1>2. CASE \E s \in Starts, c \in Connectors :
              BeginOfflineStart(s, c) \/ BeginOnlineStart(s, c)
    BY <1>2, StartActionsType
<1>3. CASE \E t \in Transactions :
              \/ BeginOnlineStop(t) \/ BeginOfflineStop(t) \/ StopThrows(t)
              \/ BeginReport(t) \/ LoopExpires(t)
    BY <1>3, TransactionActionsType
<1>4. CASE Reply \/ RequestFails \/ Disconnect \/ Resume \/ Connect
    BY <1>4, SessionActionsType
<1>5. CASE RestartMeterLoops \/ BootAccepted \/ BootRefused \/ HeartbeatAnswered
    BY <1>5, BootActionsType
<1> QED
    BY <1>1, <1>2, <1>3, <1>4, <1>5 DEF Next

\* The types hold in the first state.
LEMMA InitType ==
    ASSUME Init
    PROVE  TypeOK
<1>1. NoRecord \in Records
    BY DEF NoRecord, Records, StopStates
<1>2. outbox \in [Transactions -> Records]
    BY <1>1 DEF Init
<1>3. replay \in Replays /\ replay.pc = "idle"
    BY IdleType DEF Init, ReplayIdle
<1>4. start \in [Starts -> StartValues]
    BY DEF Init, StartValues
<1>5. tx \in [Transactions -> TxValues]
    BY DEF Init, NoTransaction, TxValues
<1>6. loop \in [Transactions -> LoopValues]
    BY DEF Init, LoopOff, LoopValues
<1>7. /\ stop \in [Transactions ->
                    {"none", "finishing", "stopping", "notifying", "done"}]
      /\ evseTx \in [Connectors -> Transactions \cup {None}]
      /\ bound \in [Transactions -> OcppIds \cup {None}]
    BY DEF Init
<1>8. queue \in Seq([task : Tasks, msg : Messages]) /\ log \in Seq(Messages)
    BY DEF Init
<1>9. lost = {} /\ deauthorized = {} /\ aborted = {}
    BY DEF Init
<1>10. PointTypeOK
    BY <1>2, <1>3, <1>4, <1>5, <1>6, <1>7, <1>8, <1>9 DEF PointTypeOK
<1> QED
    BY <1>8, <1>10 DEF Init, TypeOK

\* The values of every variable, whatever the starts, the connectors, the ids
\* and the bounds.
THEOREM TypeCorrect == Spec => []TypeOK
<1>1. Init => TypeOK
    BY InitType
<1>2. TypeOK /\ [Next]_vars => TypeOK'
    BY TypeStep
<1> QED
    BY <1>1, <1>2, PTL DEF Spec

-----------------------------------------------------------------------------
(* What the outbox says and what is under way *)

\* Whether a coroutine waits for an answer in q or to resume in a.
WaitsIn(task, q, a) == task \in a \/ \E i \in DOMAIN q : q[i].task = task

\* The request of a report carries the reading the report is about.
ReportMatches(entry) ==
    entry.task.of = "report" =>
        /\ entry.msg.type = "MeterValues"
        /\ entry.msg.tx = entry.task.id
        /\ entry.msg.sample = entry.task.sample

\* A request of the replay carries the reading, or the stop, it is at.
ReplayMatches(message, r) ==
    /\ r.pc = "meter" =>
        /\ message.type = "MeterValues" /\ message.tx = r.tx
        /\ r.index \in DOMAIN r.snap[r.tx].meterValues
        /\ message.sample = r.snap[r.tx].meterValues[r.index].sample
    /\ r.pc = "stop" => message.type = "StopTransaction" /\ message.tx = r.tx

\* The replay itself is running: it waits for nothing.
WithoutReplay(q, a) ==
    /\ ~WaitsIn(ReplayTask, q, a)
    /\ \A i \in DOMAIN q : ReportMatches(q[i])

\* What the queue q and the coroutines a hold when the replay is at r.
Matched(q, a, r) ==
    /\ r.pc # "idle" <=> WaitsIn(ReplayTask, q, a)
    /\ \A i \in DOMAIN q :
         /\ ReportMatches(q[i])
         /\ q[i].task = ReplayTask => ReplayMatches(q[i].msg, r)
    /\ \A i, j \in DOMAIN q :
         q[i].task = ReplayTask /\ q[j].task = ReplayTask => i = j
    /\ ReplayTask \in a => \A i \in DOMAIN q : q[i].task # ReplayTask

\* Every request that waits is the one its coroutine awaits.
RequestsMatched == Matched(queue, aborted, replay)

\* A transaction has a record only once it exists, and always when it began
\* offline; only a record holds readings.
RecordsKept ==
    \A t \in Transactions :
        /\ outbox[t].kept \/ outbox[t].meterValues = <<>>
        /\ outbox[t].kept => tx[t].state # "absent"
        /\ t \in LocalIds /\ tx[t].state # "absent" => outbox[t].kept

\* Only a transaction that exists is reported on.
ReportsKnown ==
    \A t \in Transactions, n \in Nat :
        Waiting(ReportTask(t, n)) => tx[t].state # "absent"

\* s has the readings of r at their positions.
Grown(r, s) ==
    /\ DOMAIN r.meterValues \subseteq DOMAIN s.meterValues
    /\ \A i \in DOMAIN r.meterValues :
         s.meterValues[i].sample = r.meterValues[i].sample

\* The outbox has only grown since the replay copied it.
CopyIsOlder == \A t \in Transactions : Grown(replay.snap[t], outbox[t])

\* The inductive invariant beside the types: the last two conjuncts are the
\* properties, the others what keeps them.
Safe ==
    /\ RequestsMatched
    /\ RecordsKept
    /\ ReportsKnown
    /\ CopyIsOlder
    /\ ReplayedMeansReceived
    /\ ReadingsAccounted

IInv == TypeOK /\ Safe

\* s is r with more readings, unmarked, and at most another state of the stop.
Extended(r, s) ==
    /\ DOMAIN r.meterValues \subseteq DOMAIN s.meterValues
    /\ \A i \in DOMAIN r.meterValues : s.meterValues[i] = r.meterValues[i]
    /\ \A i \in DOMAIN s.meterValues \ DOMAIN r.meterValues :
         ~s.meterValues[i].replayed
    /\ s.stop = "replayed" => r.stop = "replayed"

\* What the CSMS has received is not forgotten.
LogGrows ==
    /\ DOMAIN log \subseteq DOMAIN log'
    /\ \A i \in DOMAIN log : log'[i] = log[i]

\* Where reading n of t may be: ReadingsAccounted is this of every reading.
Accounted(t, n) ==
    \/ ReceivedReading(t, n)
    \/ \E i \in UnsentMeterValues(outbox[t]) : outbox[t].meterValues[i].sample = n
    \/ Waiting(ReportTask(t, n))
    \/ <<t, n>> \in lost

\* The coroutine task is taken from the queue or from the aborted ones.
Taken(task, q, a) ==
    \/ queue # <<>> /\ task = Head(queue).task /\ q = Tail(queue) /\ a = aborted
    \/ task \in aborted /\ q = queue /\ a = aborted \ {task}

-----------------------------------------------------------------------------
(* Tasks. *)

\* The four kinds of coroutine are told apart, and a report by its reading.
LEMMA TaskKinds ==
    /\ \A s : StartTask(s) # ReplayTask /\ StartTask(s).of # "report"
    /\ \A t : StopTask(t) # ReplayTask /\ StopTask(t).of # "report"
    /\ \A t, n : ReportTask(t, n) # ReplayTask /\ ReportTask(t, n).of = "report"
    /\ ReplayTask.of = "replay"
    /\ \A t, n, u, m : ReportTask(t, n) = ReportTask(u, m) => t = u /\ n = m
    /\ \A t, n : ReportTask(t, n).id = t /\ ReportTask(t, n).sample = n
    BY DEF StartTask, StopTask, ReportTask, ReplayTask

\* A coroutine is a start, a stop, a report or the replay.
LEMMA TaskCases ==
    ASSUME NEW task \in Tasks
    PROVE  /\ task.of = "start" => task.id \in Starts /\ task = StartTask(task.id)
           /\ task.of = "stop" => task.id \in Transactions /\ task = StopTask(task.id)
           /\ task.of = "report" =>
                /\ task.id \in Transactions /\ task.sample \in Nat
                /\ task = ReportTask(task.id, task.sample)
           /\ task.of = "replay" => task = ReplayTask
           /\ task.of \in {"start", "stop", "report", "replay"}
    BY DEF Tasks, StartTask, StopTask, ReportTask, ReplayTask

-----------------------------------------------------------------------------
(* The queue and the coroutines to resume. *)

\* Positions of what is left of a queue.
LEMMA TailPositions ==
    ASSUME NEW q \in Seq(Entries), q # <<>>
    PROVE  /\ 1 \in DOMAIN q /\ Head(q) = q[1]
           /\ \A i \in DOMAIN Tail(q) : i + 1 \in DOMAIN q /\ Tail(q)[i] = q[i + 1]
           /\ \A i \in DOMAIN q : i # 1 => i - 1 \in DOMAIN Tail(q) /\ Tail(q)[i - 1] = q[i]
           /\ DOMAIN q \subseteq Nat /\ DOMAIN Tail(q) \subseteq Nat
<1>1. Len(q) \in Nat /\ Len(q) # 0 /\ DOMAIN q = 1..Len(q)
    BY EmptySeq
<1>2. Len(Tail(q)) = Len(q) - 1 /\ Tail(q) \in Seq(Entries)
      /\ \A i \in 1..Len(Tail(q)) : Tail(q)[i] = q[i + 1]
    BY HeadTailProperties
<1>3. Head(q) = q[1]
    BY HeadTailProperties
<1> QED
    BY <1>1, <1>2, <1>3

\* Every other coroutine goes on waiting.
LEMMA TakenWaits ==
    ASSUME queue \in Seq(Entries), NEW task, NEW q, NEW a, Taken(task, q, a),
           NEW other, other # task, Waiting(other)
    PROVE  WaitsIn(other, q, a)
<1>1. CASE queue # <<>> /\ task = Head(queue).task /\ q = Tail(queue) /\ a = aborted
  <2>1. CASE other \in aborted
    BY <1>1, <2>1 DEF WaitsIn
  <2>2. CASE \E i \in DOMAIN queue : queue[i].task = other
    <3>1. PICK i \in DOMAIN queue : queue[i].task = other
        BY <2>2
    <3>2. i # 1
        BY <1>1, <3>1, TailPositions
    <3>3. i - 1 \in DOMAIN Tail(queue) /\ Tail(queue)[i - 1] = queue[i]
        BY <1>1, <3>1, <3>2, TailPositions
    <3> QED
        BY <1>1, <3>1, <3>3 DEF WaitsIn
  <2> QED
    BY <2>1, <2>2 DEF Waiting
<1>2. CASE task \in aborted /\ q = queue /\ a = aborted \ {task}
    BY <1>2 DEF Waiting, WaitsIn
<1> QED
    BY <1>1, <1>2 DEF Taken

\* And nothing is left that was not there.
LEMMA TakenOnly ==
    ASSUME queue \in Seq(Entries), NEW task, NEW q, NEW a, Taken(task, q, a),
           NEW other, WaitsIn(other, q, a)
    PROVE  Waiting(other)
<1>1. CASE queue # <<>> /\ task = Head(queue).task /\ q = Tail(queue) /\ a = aborted
    BY <1>1, TailPositions DEF Waiting, WaitsIn
<1>2. CASE task \in aborted /\ q = queue /\ a = aborted \ {task}
    BY <1>2 DEF Waiting, WaitsIn
<1> QED
    BY <1>1, <1>2 DEF Taken

\* After it asks, a coroutine waits for an answer or to resume, and no other
\* coroutine has stopped waiting.
LEMMA RequestWaits ==
    ASSUME NEW task, NEW message, NEW q \in Seq(Entries), NEW a,
           Request(task, message, q, a)
    PROVE  /\ Waiting(task)'
           /\ \A other : WaitsIn(other, q, a) => Waiting(other)'
           /\ \A other : Waiting(other)' => other = task \/ WaitsIn(other, q, a)
<1> DEFINE entry == [task |-> task, msg |-> message]
<1>1. CASE queue' = q /\ aborted' = a \cup {task}
    BY <1>1 DEF Waiting, WaitsIn
<1>2. CASE queue' = Append(q, entry) /\ aborted' = a
  <2>1. DOMAIN queue' = DOMAIN q \cup {Len(q) + 1} /\ queue'[Len(q) + 1] = entry
        /\ \A i \in DOMAIN q : queue'[i] = q[i]
    BY <1>2
  <2> QED
    BY <1>2, <2>1 DEF Waiting, WaitsIn
<1> QED
    BY <1>1, <1>2 DEF Request

\* When a coroutine ends the others wait as they did.
LEMMA FinishWaits ==
    ASSUME NEW q, NEW a, Finish(q, a)
    PROVE  \A other : WaitsIn(other, q, a) <=> Waiting(other)'
    BY DEF Finish, Waiting, WaitsIn

\* Taking a coroutine leaves the others' requests as they were.
LEMMA TakenMatched ==
    ASSUME TypeOK, RequestsMatched, NEW task, NEW q, NEW a, Taken(task, q, a)
    PROVE  /\ task # ReplayTask => Matched(q, a, replay)
           /\ task = ReplayTask => WithoutReplay(q, a) /\ replay.pc # "idle"
<1>1. queue \in Seq(Entries)
    BY DEF TypeOK, PointTypeOK, Entries
<1>2. /\ \A i, j \in DOMAIN queue :
             queue[i].task = ReplayTask /\ queue[j].task = ReplayTask => i = j
      /\ \A i \in DOMAIN queue : ReportMatches(queue[i])
      /\ \A i \in DOMAIN queue :
           queue[i].task = ReplayTask => ReplayMatches(queue[i].msg, replay)
      /\ replay.pc # "idle" <=> Waiting(ReplayTask)
      /\ ReplayTask \in aborted => \A i \in DOMAIN queue : queue[i].task # ReplayTask
    BY DEF RequestsMatched, Matched, Waiting, WaitsIn
<1>3. ASSUME task # ReplayTask PROVE Matched(q, a, replay)
  <2>1. replay.pc # "idle" <=> WaitsIn(ReplayTask, q, a)
    <3>1. WaitsIn(ReplayTask, q, a) => Waiting(ReplayTask)
        BY <1>1, TakenOnly
    <3>2. Waiting(ReplayTask) => WaitsIn(ReplayTask, q, a)
        BY <1>1, <1>3, TakenWaits
    <3> QED
        BY <1>2, <3>1, <3>2
  <2>2. CASE queue # <<>> /\ task = Head(queue).task /\ q = Tail(queue) /\ a = aborted
    <3>1. \A i \in DOMAIN q : i + 1 \in DOMAIN queue /\ q[i] = queue[i + 1] /\ i \in Nat
        BY <1>1, <2>2, TailPositions
    <3>2. \A i, j \in DOMAIN q :
             q[i].task = ReplayTask /\ q[j].task = ReplayTask => i = j
      <4>1. SUFFICES ASSUME NEW i \in DOMAIN q, NEW j \in DOMAIN q,
                            q[i].task = ReplayTask, q[j].task = ReplayTask
                     PROVE  i = j
        OBVIOUS
      <4>2. i + 1 = j + 1
        BY <1>2, <3>1, <4>1
      <4> QED
        BY <3>1, <4>2
    <3> QED
        BY <1>2, <2>1, <2>2, <3>1, <3>2 DEF Matched
  <2>3. CASE task \in aborted /\ q = queue /\ a = aborted \ {task}
    BY <1>2, <2>1, <2>3 DEF Matched
  <2> QED
    BY <2>2, <2>3 DEF Taken
<1>4. ASSUME task = ReplayTask PROVE WithoutReplay(q, a) /\ replay.pc # "idle"
  <2>1. CASE queue # <<>> /\ task = Head(queue).task /\ q = Tail(queue) /\ a = aborted
    <3>1. \A i \in DOMAIN q : i + 1 \in DOMAIN queue /\ q[i] = queue[i + 1] /\ i \in Nat
        BY <1>1, <2>1, TailPositions
    <3>2. 1 \in DOMAIN queue /\ queue[1].task = ReplayTask
        BY <1>1, <1>4, <2>1, TailPositions
    <3>3. \A i \in DOMAIN q : q[i].task # ReplayTask
      <4>1. SUFFICES ASSUME NEW i \in DOMAIN q, q[i].task = ReplayTask PROVE FALSE
        OBVIOUS
      <4>2. i + 1 = 1
        BY <1>2, <3>1, <3>2, <4>1
      <4>3. 0 \notin DOMAIN q
        BY <1>1, <2>1, HeadTailProperties
      <4> QED
        BY <3>1, <4>2, <4>3
    <3>4. ReplayTask \notin a
        BY <1>2, <2>1, <3>2
    <3>5. Waiting(ReplayTask)
        BY <3>2 DEF Waiting
    <3> QED
        BY <1>2, <3>1, <3>3, <3>4, <3>5 DEF WithoutReplay, WaitsIn
  <2>2. CASE task \in aborted /\ q = queue /\ a = aborted \ {task}
    BY <1>2, <1>4, <2>2 DEF WithoutReplay, WaitsIn, Waiting
  <2> QED
    BY <2>1, <2>2 DEF Taken
<1> QED
    BY <1>3, <1>4

\* A request of another coroutine leaves the replay's alone.
LEMMA RequestMatched ==
    ASSUME NEW q \in Seq(Entries), NEW a, NEW r, Matched(q, a, r),
           NEW task, NEW message, task # ReplayTask,
           ReportMatches([task |-> task, msg |-> message]),
           Request(task, message, q, a)
    PROVE  Matched(queue', aborted', r)
<1> DEFINE entry == [task |-> task, msg |-> message]
<1>1. WaitsIn(ReplayTask, q, a) <=> WaitsIn(ReplayTask, queue', aborted')
    BY RequestWaits DEF Waiting, WaitsIn
<1>2. CASE queue' = q /\ aborted' = a \cup {task}
    BY <1>1, <1>2 DEF Matched
<1>3. CASE queue' = Append(q, entry) /\ aborted' = a
  <2>1. DOMAIN queue' = DOMAIN q \cup {Len(q) + 1} /\ queue'[Len(q) + 1] = entry
        /\ \A i \in DOMAIN q : queue'[i] = q[i]
    BY <1>3
  <2>2. entry.task # ReplayTask
    OBVIOUS
  <2>3. \A i \in DOMAIN queue' :
          queue'[i].task = ReplayTask => i \in DOMAIN q /\ queue'[i] = q[i]
    BY <2>1, <2>2
  <2>4. \A i \in DOMAIN queue' : ReportMatches(queue'[i])
    BY <2>1 DEF Matched
  <2> HIDE DEF entry
  <2> QED
    BY <1>1, <1>3, <2>3, <2>4 DEF Matched
<1> QED
    BY <1>2, <1>3 DEF Request

\* The replay waits for its next request.
LEMMA ReplayRequestMatched ==
    ASSUME NEW q \in Seq(Entries), NEW a, NEW r, WithoutReplay(q, a),
           NEW message, r.pc # "idle", ReplayMatches(message, r),
           Request(ReplayTask, message, q, a)
    PROVE  Matched(queue', aborted', r)
<1> DEFINE entry == [task |-> ReplayTask, msg |-> message]
<1>1. \A i \in DOMAIN q : q[i].task # ReplayTask /\ ReportMatches(q[i])
    BY DEF WithoutReplay, WaitsIn
<1>2. WaitsIn(ReplayTask, queue', aborted')
    BY RequestWaits DEF Waiting, WaitsIn
<1>3. CASE queue' = q /\ aborted' = a \cup {ReplayTask}
    BY <1>1, <1>2, <1>3 DEF Matched
<1>4. CASE queue' = Append(q, entry) /\ aborted' = a
  <2>1. DOMAIN queue' = DOMAIN q \cup {Len(q) + 1} /\ queue'[Len(q) + 1] = entry
        /\ \A i \in DOMAIN q : queue'[i] = q[i]
    BY <1>4
  <2>2. entry.task = ReplayTask /\ entry.msg = message
    OBVIOUS
  <2>3. ReportMatches(entry)
    BY <2>2, TaskKinds DEF ReportMatches
  <2>4. ReplayTask \notin a
    BY DEF WithoutReplay, WaitsIn
  <2> HIDE DEF entry
  <2> QED
    BY <1>1, <1>2, <1>4, <2>1, <2>2, <2>3, <2>4 DEF Matched
<1> QED
    BY <1>3, <1>4 DEF Request

\* A coroutine ends: the replay, or another.
LEMMA FinishMatched ==
    ASSUME NEW q, NEW a, NEW r, Finish(q, a),
           Matched(q, a, r) \/ (WithoutReplay(q, a) /\ r.pc = "idle")
    PROVE  Matched(queue', aborted', r)
    BY DEF Finish, Matched, WithoutReplay, WaitsIn

-----------------------------------------------------------------------------
(* What the methods of the outbox do to the readings of a record. *)

\* The readings of a record are a sequence of readings.
LEMMA MeterValuesType ==
    ASSUME NEW record \in Records
    PROVE  /\ record.meterValues \in Seq([sample : Nat, replayed : BOOLEAN])
           /\ DOMAIN record.meterValues = 1..Len(record.meterValues)
           /\ Len(record.meterValues) \in Nat
    BY DEF Records

\* A new reading is the last one and still to send.
LEMMA RecordMeterValueExtends ==
    ASSUME NEW record \in Records, NEW n \in Nat
    PROVE  /\ Extended(record, RecordMeterValue(record, n))
           /\ RecordMeterValue(record, n).kept = record.kept
           /\ ~record.kept => RecordMeterValue(record, n) = record
           /\ record.kept =>
                \E i \in UnsentMeterValues(RecordMeterValue(record, n)) :
                    RecordMeterValue(record, n).meterValues[i].sample = n
<1> DEFINE s == record.meterValues
           reading == [sample |-> n, replayed |-> FALSE]
           grown == RecordMeterValue(record, n)
<1>1. CASE ~record.kept
    BY <1>1 DEF RecordMeterValue, Extended
<1>2. CASE record.kept
  <2>1. grown = [record EXCEPT !.meterValues = Append(s, reading)]
    BY <1>2 DEF RecordMeterValue
  <2>2. grown.meterValues = Append(s, reading) /\ grown.kept = record.kept
        /\ grown.stop = record.stop
    BY <2>1 DEF Records
  <2>3. s \in Seq([sample : Nat, replayed : BOOLEAN]) /\ Len(s) \in Nat
        /\ DOMAIN s = 1..Len(s)
    BY MeterValuesType
  <2>4. DOMAIN Append(s, reading) = 1..(Len(s) + 1)
        /\ \A i \in DOMAIN s : Append(s, reading)[i] = s[i]
        /\ Append(s, reading)[Len(s) + 1] = reading
    BY <2>3
  <2>5. reading.sample = n /\ reading.replayed = FALSE
    OBVIOUS
  <2>6. Extended(record, grown)
    <3> HIDE DEF grown, reading
    <3> QED
        BY <2>2, <2>3, <2>4, <2>5 DEF Extended
  <2>7. Len(s) + 1 \in UnsentMeterValues(grown)
        /\ grown.meterValues[Len(s) + 1].sample = n
    <3> HIDE DEF grown, reading
    <3> QED
        BY <2>2, <2>3, <2>4, <2>5 DEF UnsentMeterValues
  <2> QED
    BY <1>2, <2>2, <2>6, <2>7
<1> QED
    BY <1>1, <1>2

\* The stop and the CSMS's id are recorded beside the readings.
LEMMA StopAndBindExtend ==
    ASSUME NEW record \in Records, NEW id
    PROVE  /\ Extended(record, record)
           /\ Extended(record, RecordStopped(record))
           /\ RecordStopped(record).kept = record.kept
           /\ Extended(record, BindStart(record, id))
           /\ BindStart(record, id).kept = record.kept
           /\ Extended(record, RecordStopped(BindStart(record, id)))
           /\ RecordStopped(BindStart(record, id)).kept = record.kept
           /\ BindStart(record, id).meterValues = record.meterValues
           /\ RecordStopped(BindStart(record, id)).meterValues = record.meterValues
    BY DEF Extended, RecordStopped, BindStart, Records

\* Records that are extended twice are extended.
LEMMA ExtendedTransitive ==
    ASSUME NEW r, NEW s, NEW u, Extended(r, s), Extended(s, u)
    PROVE  Extended(r, u)
    BY DEF Extended

\* A record that is extended has grown.
LEMMA ExtendedGrown ==
    ASSUME NEW r, NEW s, Extended(r, s)
    PROVE  Grown(r, s)
    BY DEF Extended, Grown

\* Records that grow twice have grown.
LEMMA GrownTransitive ==
    ASSUME NEW r, NEW s, NEW u, Grown(r, s), Grown(s, u)
    PROVE  Grown(r, u)
<1>1. SUFFICES ASSUME NEW i \in DOMAIN r.meterValues
               PROVE  i \in DOMAIN u.meterValues
                      /\ u.meterValues[i].sample = r.meterValues[i].sample
    BY DEF Grown
<1> QED
    BY DEF Grown

\* Marking changes no reading and marks one position.
LEMMA MarkReading ==
    ASSUME NEW record \in Records, NEW index \in Nat
    PROVE  LET marked == MarkMeterValueReplayed(record, index)
           IN  /\ Grown(record, marked)
               /\ DOMAIN marked.meterValues = DOMAIN record.meterValues
               /\ \A i \in DOMAIN record.meterValues :
                    i # index => marked.meterValues[i] = record.meterValues[i]
               /\ marked.kept = record.kept /\ marked.stop = record.stop
               /\ record.meterValues = <<>> => marked.meterValues = <<>>
<1> DEFINE s == record.meterValues
           marked == MarkMeterValueReplayed(record, index)
<1>1. s \in Seq([sample : Nat, replayed : BOOLEAN])
    BY MeterValuesType
<1>2. CASE index \notin DOMAIN s
  <2>1. marked = record
    BY <1>2 DEF MarkMeterValueReplayed
  <2> QED
    BY <2>1 DEF Grown
<1>3. CASE index \in DOMAIN s
  <2>1. marked = [record EXCEPT !.meterValues[index].replayed = TRUE]
    BY <1>3 DEF MarkMeterValueReplayed
  <2>2. marked.meterValues = [s EXCEPT ![index] = [s[index] EXCEPT !.replayed = TRUE]]
        /\ marked.kept = record.kept /\ marked.stop = record.stop
    BY <2>1 DEF Records
  <2>3. DOMAIN marked.meterValues = DOMAIN s
        /\ \A i \in DOMAIN s : i # index => marked.meterValues[i] = s[i]
    BY <2>2
  <2>4. [s[index] EXCEPT !.replayed = TRUE].sample = s[index].sample
    <3>1. s[index] \in [sample : Nat, replayed : BOOLEAN]
        BY <1>1, <1>3, MeterValuesType, ElementOfSeq
    <3> QED
        BY <3>1
  <2>5. marked.meterValues[index].sample = s[index].sample
    BY <1>3, <2>2, <2>4
  <2>6. s # <<>>
    BY <1>1, <1>3
  <2>7. Grown(record, marked)
    <3> HIDE DEF marked
    <3> QED
        BY <2>3, <2>5 DEF Grown
  <2> QED
    BY <2>2, <2>3, <2>6, <2>7
<1> QED
    BY <1>2, <1>3

\* Marking the stop of a record leaves its readings alone.
LEMMA MarkStop ==
    ASSUME NEW record \in Records
    PROVE  /\ MarkStopReplayed(record).meterValues = record.meterValues
           /\ MarkStopReplayed(record).kept = record.kept
    BY DEF MarkStopReplayed, Records

-----------------------------------------------------------------------------
(* A step that only extends records keeps the two properties. *)

\* What the CSMS has received stays received.
LEMMA ReceivedPersists ==
    ASSUME LogGrows
    PROVE  /\ \A t, n : ReceivedReading(t, n) => ReceivedReading(t, n)'
           /\ \A t : ReceivedStop(t) => ReceivedStop(t)'
<1>1. ASSUME NEW t, NEW n, ReceivedReading(t, n) PROVE ReceivedReading(t, n)'
    BY <1>1 DEF LogGrows, ReceivedReading
<1>2. ASSUME NEW t, ReceivedStop(t) PROVE ReceivedStop(t)'
    BY <1>2 DEF LogGrows, ReceivedStop
<1> QED
    BY <1>1, <1>2

\* Records that are only extended, while no report stops waiting and no
\* reading is taken, keep both properties.
LEMMA ExtensionSafe ==
    ASSUME TypeOK, ReplayedMeansReceived, ReadingsAccounted, LogGrows,
           \A t \in Transactions : Extended(outbox[t], outbox'[t]),
           lost \subseteq lost',
           \A t \in Transactions : \A n \in 1..tx[t].samples :
               Waiting(ReportTask(t, n)) => Accounted(t, n)',
           \A t \in Transactions : \A n \in 1..tx'[t].samples :
               n \in 1..tx[t].samples \/ Accounted(t, n)'
    PROVE  ReplayedMeansReceived' /\ ReadingsAccounted'
<1>1. ReplayedMeansReceived'
  <2>1. SUFFICES ASSUME NEW t \in Transactions
                 PROVE  /\ \A i \in DOMAIN outbox'[t].meterValues :
                             outbox'[t].meterValues[i].replayed
                               => ReceivedReading(t, outbox[t].meterValues[i].sample)'
                        /\ outbox'[t].stop = "replayed" => ReceivedStop(t)'
    BY DEF ReplayedMeansReceived
  <2>2. Extended(outbox[t], outbox'[t])
    BY <2>1
  <2>3. /\ \A i \in DOMAIN outbox[t].meterValues :
             outbox[t].meterValues[i].replayed
               => ReceivedReading(t, outbox[t].meterValues[i].sample)
        /\ outbox[t].stop = "replayed" => ReceivedStop(t)
    BY DEF ReplayedMeansReceived
  <2>4. ASSUME NEW i \in DOMAIN outbox'[t].meterValues,
               outbox'[t].meterValues[i].replayed
        PROVE  ReceivedReading(t, outbox[t].meterValues[i].sample)'
    <3>1. i \in DOMAIN outbox[t].meterValues
          /\ outbox'[t].meterValues[i] = outbox[t].meterValues[i]
        BY <2>2, <2>4 DEF Extended
    <3>2. ReceivedReading(t, outbox[t].meterValues[i].sample)
        BY <2>3, <2>4, <3>1
    <3> QED
        BY <3>1, <3>2 DEF LogGrows, ReceivedReading
  <2>5. outbox'[t].stop = "replayed" => ReceivedStop(t)'
    BY <2>2, <2>3, ReceivedPersists DEF Extended
  <2> QED
    BY <2>4, <2>5
<1>2. ReadingsAccounted'
  <2>1. SUFFICES ASSUME NEW t \in Transactions, NEW n \in 1..tx'[t].samples
                 PROVE  Accounted(t, n)'
    BY DEF ReadingsAccounted, Accounted
  <2>2. CASE n \in 1..tx[t].samples
    <3>1. Accounted(t, n)
        BY <2>2 DEF ReadingsAccounted, Accounted
    <3>2. CASE ReceivedReading(t, n)
        BY <3>2, ReceivedPersists DEF Accounted
    <3>3. CASE \E i \in UnsentMeterValues(outbox[t]) :
                  outbox[t].meterValues[i].sample = n
      <4>1. PICK i \in UnsentMeterValues(outbox[t]) :
                  outbox[t].meterValues[i].sample = n
        BY <3>3
      <4>2. Extended(outbox[t], outbox'[t])
        BY <2>1
      <4>3. i \in UnsentMeterValues(outbox'[t])
            /\ outbox'[t].meterValues[i].sample = n
        BY <4>1, <4>2 DEF Extended, UnsentMeterValues
      <4> QED
        BY <4>3 DEF Accounted
    <3>4. CASE Waiting(ReportTask(t, n))
        BY <2>2, <3>4
    <3>5. CASE <<t, n>> \in lost
        BY <3>5 DEF Accounted
    <3> QED
        BY <3>1, <3>2, <3>3, <3>4, <3>5 DEF Accounted
  <2>3. CASE n \notin 1..tx[t].samples
    BY <2>1, <2>3
  <2> QED
    BY <2>2, <2>3
<1> QED
    BY <1>1, <1>2

\* The copies stay older than an outbox that grows.
LEMMA CopyStaysOlder ==
    ASSUME CopyIsOlder, replay'.snap = replay.snap,
           \A t \in Transactions : Grown(outbox[t], outbox'[t])
    PROVE  CopyIsOlder'
<1>1. SUFFICES ASSUME NEW t \in Transactions
               PROVE  Grown(replay'.snap[t], outbox'[t])
    BY DEF CopyIsOlder
<1>2. Grown(replay.snap[t], outbox[t]) /\ Grown(outbox[t], outbox'[t])
    BY DEF CopyIsOlder
<1> QED
    BY <1>2, GrownTransitive

\* A step that marks one reading the CSMS has received.
LEMMA MarkSafe ==
    ASSUME TypeOK, ReplayedMeansReceived, ReadingsAccounted, LogGrows,
           NEW t \in Transactions, NEW index \in DOMAIN outbox[t].meterValues,
           outbox' = [outbox EXCEPT ![t] = MarkMeterValueReplayed(outbox[t], index)],
           ReceivedReading(t, outbox[t].meterValues[index].sample)',
           tx' = tx, lost' = lost,
           \A u \in Transactions, n \in Nat :
               Waiting(ReportTask(u, n)) => Waiting(ReportTask(u, n))'
    PROVE  ReplayedMeansReceived' /\ ReadingsAccounted'
<1> DEFINE record == outbox[t]
           marked == MarkMeterValueReplayed(record, index)
<1>1. record \in Records /\ index \in Nat
    BY MeterValuesType DEF TypeOK, PointTypeOK
<1>2. /\ Grown(record, marked)
      /\ DOMAIN marked.meterValues = DOMAIN record.meterValues
      /\ \A i \in DOMAIN record.meterValues :
           i # index => marked.meterValues[i] = record.meterValues[i]
      /\ marked.stop = record.stop
    BY <1>1, MarkReading
<1>3. outbox'[t] = marked /\ \A u \in Transactions : u # t => outbox'[u] = outbox[u]
    BY DEF TypeOK, PointTypeOK
<1>4. ReceivedReading(t, record.meterValues[index].sample)'
      /\ record.meterValues[index].sample = marked.meterValues[index].sample
    BY <1>2 DEF Grown
<1> HIDE DEF marked
<1>5. ReplayedMeansReceived'
  <2>1. SUFFICES ASSUME NEW u \in Transactions
                 PROVE  /\ \A i \in DOMAIN outbox'[u].meterValues :
                             outbox'[u].meterValues[i].replayed
                               => ReceivedReading(u, outbox[u].meterValues[i].sample)'
                        /\ outbox'[u].stop = "replayed" => ReceivedStop(u)'
    BY DEF ReplayedMeansReceived
  <2>2. /\ \A i \in DOMAIN outbox[u].meterValues :
             outbox[u].meterValues[i].replayed
               => ReceivedReading(u, outbox[u].meterValues[i].sample)
        /\ outbox[u].stop = "replayed" => ReceivedStop(u)
    BY DEF ReplayedMeansReceived
  <2>3. outbox'[u].stop = "replayed" => ReceivedStop(u)'
    BY <1>2, <1>3, <2>2, ReceivedPersists
  <2>4. ASSUME NEW i \in DOMAIN outbox'[u].meterValues,
               outbox'[u].meterValues[i].replayed
        PROVE  ReceivedReading(u, outbox[u].meterValues[i].sample)'
    <3>1. CASE u = t /\ i = index
        BY <1>3, <1>4, <3>1 DEF ReceivedReading
    <3>2. CASE u # t \/ i # index
      <4>1. i \in DOMAIN outbox[u].meterValues
            /\ outbox'[u].meterValues[i] = outbox[u].meterValues[i]
        BY <1>2, <1>3, <2>4, <3>2
      <4>2. ReceivedReading(u, outbox[u].meterValues[i].sample)
        BY <2>2, <2>4, <4>1
      <4> QED
        BY <4>1, <4>2 DEF LogGrows, ReceivedReading
    <3> QED
        BY <3>1, <3>2
  <2> QED
    BY <2>3, <2>4
<1>6. ReadingsAccounted'
  <2>1. SUFFICES ASSUME NEW u \in Transactions, NEW n \in 1..tx'[u].samples
                 PROVE  Accounted(u, n)'
    BY DEF ReadingsAccounted, Accounted
  <2>2. tx[u].samples \in Nat /\ n \in Nat /\ n \in 1..tx[u].samples
    BY <2>1 DEF TypeOK, PointTypeOK, TxValues
  <2>3. Accounted(u, n)
    BY <2>2 DEF ReadingsAccounted, Accounted
  <2>4. CASE ReceivedReading(u, n)
    BY <2>4, ReceivedPersists DEF Accounted
  <2>5. CASE \E i \in UnsentMeterValues(outbox[u]) : outbox[u].meterValues[i].sample = n
    <3>1. PICK i \in UnsentMeterValues(outbox[u]) : outbox[u].meterValues[i].sample = n
        BY <2>5
    <3>2. CASE u = t /\ i = index
      <4>1. outbox'[t].meterValues[index].sample = n
        BY <1>3, <1>4, <3>1, <3>2
      <4>2. ReceivedReading(u, n)'
        BY <3>2, <4>1 DEF ReceivedReading
      <4> QED
        BY <4>2 DEF Accounted
    <3>3. CASE u # t \/ i # index
      <4>1. i \in UnsentMeterValues(outbox'[u]) /\ outbox'[u].meterValues[i].sample = n
        BY <1>2, <1>3, <3>1, <3>3 DEF UnsentMeterValues
      <4> QED
        BY <4>1 DEF Accounted
    <3> QED
        BY <3>2, <3>3
  <2>6. CASE Waiting(ReportTask(u, n))
    BY <2>2, <2>6 DEF Accounted
  <2>7. CASE <<u, n>> \in lost
    BY <2>7 DEF Accounted
  <2> QED
    BY <2>3, <2>4, <2>5, <2>6, <2>7 DEF Accounted
<1> QED
    BY <1>5, <1>6

-----------------------------------------------------------------------------
(* What the steps do to the transactions. *)

\* Creating a transaction gives no other one a reading.
LEMMA CreateActiveSamples ==
    ASSUME TypeOK, NEW t, NEW c, NEW at, CreateActive(t, c, at), NEW u \in Transactions
    PROVE  IF u = t THEN tx'[u].state = "active" /\ tx'[u].samples = 0
           ELSE tx'[u] = tx[u]
    BY DEF CreateActive, TypeOK, PointTypeOK

\* Ending a transaction leaves its readings and those of the others.
LEMMA EndSamples ==
    ASSUME TypeOK, NEW t \in Transactions, End(t), NEW u \in Transactions
    PROVE  /\ tx'[u].samples = tx[u].samples
           /\ u = t => tx'[u].state = "ended"
           /\ u # t => tx'[u] = tx[u]
<1>1. tx[t] \in TxValues /\ tx \in [Transactions -> TxValues]
    BY DEF TypeOK, PointTypeOK
<1>2. tx' = [tx EXCEPT ![t] = [tx[t] EXCEPT !.state = "ended"]]
    BY DEF End
<1>3. [tx[t] EXCEPT !.state = "ended"].samples = tx[t].samples
      /\ [tx[t] EXCEPT !.state = "ended"].state = "ended"
    BY <1>1 DEF TxValues
<1> QED
    BY <1>1, <1>2, <1>3

\* A report stays one of a transaction that has its reading.
LEMMA ReportsStayKnown ==
    ASSUME ReportsKnown,
           \A t \in Transactions : tx[t].state # "absent" => tx'[t].state # "absent",
           \A t \in Transactions, n \in Nat :
               Waiting(ReportTask(t, n))' =>
                   Waiting(ReportTask(t, n)) \/ tx'[t].state # "absent"
    PROVE  ReportsKnown'
    BY DEF ReportsKnown

\* A coroutine other than the replay goes on: the others wait as they did.
LEMMA OtherStep ==
    ASSUME TypeOK, RequestsMatched, NEW task, task # ReplayTask,
           NEW q \in Seq(Entries), NEW a, Taken(task, q, a),
           NEW message, ReportMatches([task |-> task, msg |-> message]),
           Request(task, message, q, a) \/ Finish(q, a)
    PROVE  /\ Matched(queue', aborted', replay)
           /\ \A other : other # task /\ Waiting(other) => Waiting(other)'
           /\ \A other : Waiting(other)' => Waiting(other)
<1>1. queue \in Seq(Entries)
    BY DEF TypeOK, PointTypeOK, Entries
<1>2. Matched(q, a, replay)
    BY TakenMatched
<1>3. Matched(queue', aborted', replay)
    BY <1>2, RequestMatched, FinishMatched
<1>4. ASSUME NEW other, other # task, Waiting(other) PROVE Waiting(other)'
  <2>1. WaitsIn(other, q, a)
    BY <1>1, <1>4, TakenWaits
  <2> QED
    BY <2>1, RequestWaits, FinishWaits
<1>5. Waiting(task)
  <2>1. queue # <<>> => 1 \in DOMAIN queue /\ Head(queue) = queue[1]
    BY <1>1, TailPositions
  <2> QED
    BY <2>1 DEF Taken, Waiting
<1>6. ASSUME NEW other, Waiting(other)' PROVE Waiting(other)
  <2>1. other = task \/ WaitsIn(other, q, a)
    BY <1>6, RequestWaits, FinishWaits
  <2> QED
    BY <1>1, <1>5, <2>1, TakenOnly
<1> QED
    BY <1>3, <1>4, <1>6

-----------------------------------------------------------------------------
(* Each coroutine's stretch. *)

\* A start that goes on keeps the invariant: it adds no reading and marks none.
LEMMA StartStepSafe ==
    ASSUME IInv, PointTypeOK', LogGrows, NEW s \in Starts, NEW answer \in Answers,
           NEW q \in Seq(Entries), NEW a, Taken(StartTask(s), q, a),
           \/ StartAccepted(s, answer, q, a)
           \/ StartRefused(s, answer, q, a)
           \/ StartNotified(s, q, a)
    PROVE  Safe'
<1>0. TypeOK /\ Safe
    BY DEF IInv
<1>1. outbox' = outbox /\ lost' = lost /\ replay' = replay
    BY DEF StartAccepted, StartRefused, StartNotified
<1>2. /\ Matched(queue', aborted', replay)
      /\ \A other : other # StartTask(s) /\ Waiting(other) => Waiting(other)'
      /\ \A other : Waiting(other)' => Waiting(other)
  <2>1. Request(StartTask(s), StatusMessage, q, a) \/ Finish(q, a)
    BY DEF StartAccepted, StartRefused, StartNotified
  <2>2. StartTask(s) # ReplayTask
        /\ ReportMatches([task |-> StartTask(s), msg |-> StatusMessage])
    BY TaskKinds DEF ReportMatches
  <2> QED
    BY <1>0, <2>1, <2>2, OtherStep DEF Safe
<1>3. \A t \in Transactions, n \in Nat :
         /\ Waiting(ReportTask(t, n)) => Waiting(ReportTask(t, n))'
         /\ Waiting(ReportTask(t, n))' => Waiting(ReportTask(t, n))
    BY <1>2, TaskKinds
<1>4. \A t \in Transactions :
         \/ tx'[t] = tx[t]
         \/ t \in OcppIds /\ tx'[t].state = "active" /\ tx'[t].samples = 0
  <2>1. CASE StartAccepted(s, answer, q, a)
    <3>1. answer.id \in OcppIds \cup {None}
        BY DEF Answers
    <3>2. None \notin Transactions
        BY IdsAssumption
    <3> QED
        BY <1>0, <2>1, <3>1, <3>2, CreateActiveSamples DEF StartAccepted
  <2>2. CASE StartRefused(s, answer, q, a) \/ StartNotified(s, q, a)
    BY <2>2 DEF StartRefused, StartNotified
  <2> QED
    BY <2>1, <2>2
<1>5. RequestsMatched'
    BY <1>1, <1>2 DEF RequestsMatched
<1>6. RecordsKept'
    BY <1>0, <1>1, <1>4, IdsAssumption DEF Safe, RecordsKept
<1>7. ReportsKnown'
    BY <1>0, <1>3, <1>4, ReportsStayKnown DEF Safe
<1>8. \A t \in Transactions : Extended(outbox[t], outbox'[t])
    BY <1>0, <1>1, StopAndBindExtend DEF TypeOK, PointTypeOK
<1>9. CopyIsOlder'
    BY <1>0, <1>1, <1>8, ExtendedGrown, CopyStaysOlder DEF Safe
<1>10. ReplayedMeansReceived' /\ ReadingsAccounted'
  <2>1. \A t \in Transactions : \A n \in 1..tx[t].samples :
             Waiting(ReportTask(t, n)) => Accounted(t, n)'
    BY <1>0, <1>3 DEF TypeOK, PointTypeOK, TxValues, Accounted
  <2>2. \A t \in Transactions : \A n \in 1..tx'[t].samples : n \in 1..tx[t].samples
    BY <1>4
  <2> QED
    BY <1>0, <1>1, <1>8, <2>1, <2>2, ExtensionSafe DEF Safe
<1> QED
    BY <1>5, <1>6, <1>7, <1>9, <1>10 DEF Safe

\* A stop that goes on keeps the invariant: its record was made before.
LEMMA StopStepSafe ==
    ASSUME IInv, PointTypeOK', LogGrows, NEW u \in Transactions,
           NEW q \in Seq(Entries), NEW a, Taken(StopTask(u), q, a),
           StopAnswered(u, q, a)
    PROVE  Safe'
<1>0. TypeOK /\ Safe
    BY DEF IInv
<1>1. outbox' = outbox /\ lost' = lost /\ replay' = replay /\ tx' = tx
    BY DEF StopAnswered
<1>2. /\ Matched(queue', aborted', replay)
      /\ \A other : other # StopTask(u) /\ Waiting(other) => Waiting(other)'
      /\ \A other : Waiting(other)' => Waiting(other)
  <2>1. \/ Request(StopTask(u), StatusMessage, q, a)
        \/ Request(StopTask(u), StopMessage(u, OcppIdOf(u)), q, a)
        \/ Finish(q, a)
    BY DEF StopAnswered
  <2>2. /\ StopTask(u) # ReplayTask
        /\ ReportMatches([task |-> StopTask(u), msg |-> StatusMessage])
        /\ ReportMatches([task |-> StopTask(u), msg |-> StopMessage(u, OcppIdOf(u))])
    BY TaskKinds DEF ReportMatches
  <2> QED
    BY <1>0, <2>1, <2>2, OtherStep DEF Safe
<1>3. \A t \in Transactions, n \in Nat :
         /\ Waiting(ReportTask(t, n)) => Waiting(ReportTask(t, n))'
         /\ Waiting(ReportTask(t, n))' => Waiting(ReportTask(t, n))
    BY <1>2, TaskKinds
<1>5. RequestsMatched'
    BY <1>1, <1>2 DEF RequestsMatched
<1>6. RecordsKept'
    BY <1>0, <1>1 DEF Safe, RecordsKept
<1>7. ReportsKnown'
    BY <1>0, <1>1, <1>3, ReportsStayKnown DEF Safe
<1>8. \A t \in Transactions : Extended(outbox[t], outbox'[t])
    BY <1>0, <1>1, StopAndBindExtend DEF TypeOK, PointTypeOK
<1>9. CopyIsOlder'
    BY <1>0, <1>1, <1>8, ExtendedGrown, CopyStaysOlder DEF Safe
<1>10. ReplayedMeansReceived' /\ ReadingsAccounted'
  <2>1. \A t \in Transactions : \A n \in 1..tx[t].samples :
             Waiting(ReportTask(t, n)) => Accounted(t, n)'
    BY <1>0, <1>3 DEF TypeOK, PointTypeOK, TxValues, Accounted
  <2> QED
    BY <1>0, <1>1, <1>8, <2>1, ExtensionSafe DEF Safe
<1> QED
    BY <1>5, <1>6, <1>7, <1>9, <1>10 DEF Safe

\* A reading goes to the record of a transaction that has one or is bound.
LEMMA RecordReadingSafe ==
    ASSUME TypeOK, RecordsKept, NEW t \in Transactions, NEW n \in Nat,
           tx[t].state # "absent", RecordReading(t, n)
    PROVE  /\ \A u \in Transactions : Extended(outbox[u], outbox'[u])
           /\ \A u \in Transactions : u # t => outbox'[u] = outbox[u]
           /\ outbox'[t].kept
           /\ \E i \in UnsentMeterValues(outbox'[t]) :
                  outbox'[t].meterValues[i].sample = n
<1> DEFINE record == IF outbox[t].kept \/ ~IsBound(t) THEN outbox[t]
                     ELSE RecordBoundStarted(OcppIdOf(t))
<1>1. PointTypeOK /\ outbox \in [Transactions -> Records] /\ outbox[t] \in Records
    BY DEF TypeOK, PointTypeOK
<1>2. record \in Records
    BY <1>1, OcppIdOfType, RecordTypes
<1>3. outbox' = [outbox EXCEPT ![t] = RecordMeterValue(record, n)]
    BY DEF RecordReading
<1>4. record.kept
  <2>1. CASE outbox[t].kept
    BY <2>1
  <2>2. CASE ~outbox[t].kept
    <3>1. t \in OcppIds
        BY <2>2 DEF RecordsKept, Transactions
    <3>2. IsBound(t)
        BY <3>1, IdsAssumption DEF IsBound, OcppIdOf, Transactions
    <3> QED
        BY <2>2, <3>2 DEF RecordBoundStarted, NoRecord
  <2> QED
    BY <2>1, <2>2
<1>5. Extended(outbox[t], record)
  <2>1. CASE outbox[t].kept \/ ~IsBound(t)
    BY <1>1, <2>1, StopAndBindExtend
  <2>2. CASE ~(outbox[t].kept \/ ~IsBound(t))
    <3>1. outbox[t].meterValues = <<>>
        BY <2>2 DEF RecordsKept
    <3>2. record.meterValues = <<>> /\ record.stop = "none"
        BY <2>2 DEF RecordBoundStarted, NoRecord
    <3> HIDE DEF record
    <3> QED
        BY <3>1, <3>2 DEF Extended
  <2> QED
    BY <2>1, <2>2
<1> HIDE DEF record
<1>6. /\ Extended(record, RecordMeterValue(record, n))
      /\ RecordMeterValue(record, n).kept
      /\ \E i \in UnsentMeterValues(RecordMeterValue(record, n)) :
             RecordMeterValue(record, n).meterValues[i].sample = n
    BY <1>2, <1>4, RecordMeterValueExtends
<1>7. Extended(outbox[t], RecordMeterValue(record, n))
    BY <1>5, <1>6, ExtendedTransitive
<1>8. outbox'[t] = RecordMeterValue(record, n)
      /\ \A u \in Transactions : u # t => outbox'[u] = outbox[u]
    BY <1>1, <1>3
<1>9. \A u \in Transactions : u # t => Extended(outbox[u], outbox'[u])
    BY <1>1, <1>8, StopAndBindExtend
<1> QED
    BY <1>6, <1>7, <1>8, <1>9

\* The answer a coroutine gets when the CSMS has answered: it has received what
\* the coroutine asked it to take.
Heard(task, answer) ==
    answer.kind = "response" =>
        /\ task.of = "report" => ReceivedReading(task.id, task.sample)'
        /\ task = ReplayTask /\ replay.pc = "meter" =>
             \E n \in Nat :
                /\ replay.index \in DOMAIN replay.snap[replay.tx].meterValues
                /\ n = replay.snap[replay.tx].meterValues[replay.index].sample
                /\ \E i \in DOMAIN log' :
                      /\ log'[i].type = "MeterValues" /\ log'[i].tx = replay.tx
                      /\ log'[i].sample = n
        /\ task = ReplayTask /\ replay.pc = "stop" =>
             \E i \in DOMAIN log' :
                log'[i].type = "StopTransaction" /\ log'[i].tx = replay.tx

\* A report that goes on has its reading received, in the outbox, or among
\* those that failed.
LEMMA ReportStepSafe ==
    ASSUME IInv, PointTypeOK', LogGrows, NEW u \in Transactions, NEW m \in Nat,
           NEW answer \in Answers, NEW q \in Seq(Entries), NEW a,
           Taken(ReportTask(u, m), q, a), ReportAnswered(u, m, answer, q, a),
           answer.kind = "response" => ReceivedReading(u, m)'
    PROVE  Safe'
<1>0. TypeOK /\ Safe
    BY DEF IInv
<1>1. replay' = replay /\ tx' = tx /\ lost \subseteq lost'
    BY DEF ReportAnswered
<1>2. /\ Matched(queue', aborted', replay)
      /\ \A other : other # ReportTask(u, m) /\ Waiting(other) => Waiting(other)'
      /\ \A other : Waiting(other)' => Waiting(other)
  <2>1. Finish(q, a)
    BY DEF ReportAnswered
  <2> DEFINE message == MeterMessage(u, None, m)
  <2>2. /\ ReportTask(u, m) # ReplayTask
        /\ ReportMatches([task |-> ReportTask(u, m), msg |-> message])
    BY TaskKinds DEF ReportMatches, MeterMessage, Message
  <2> QED
    BY <1>0, <2>1, <2>2, OtherStep DEF Safe
<1>3. \A t \in Transactions, n \in Nat :
         /\ Waiting(ReportTask(t, n)) => Waiting(ReportTask(t, n))' \/ (t = u /\ n = m)
         /\ Waiting(ReportTask(t, n))' => Waiting(ReportTask(t, n))
    BY <1>2, TaskKinds
<1>4. tx[u].state # "absent"
  <2>1. queue \in Seq(Entries)
    BY <1>0 DEF TypeOK, PointTypeOK, Entries
  <2>2. Waiting(ReportTask(u, m))
    <3>1. queue # <<>> => 1 \in DOMAIN queue /\ Head(queue) = queue[1]
        BY <2>1, TailPositions
    <3> QED
        BY <3>1 DEF Taken, Waiting
  <2> QED
    BY <1>0, <2>2 DEF Safe, ReportsKnown
<1>5. /\ \A t \in Transactions : Extended(outbox[t], outbox'[t])
      /\ RecordsKept'
      /\ Accounted(u, m)'
  <2>1. CASE answer.kind = "offline"
    <3>1. RecordReading(u, m)
        BY <2>1 DEF ReportAnswered
    <3>2. /\ \A t \in Transactions : Extended(outbox[t], outbox'[t])
          /\ \A t \in Transactions : t # u => outbox'[t] = outbox[t]
          /\ outbox'[u].kept
          /\ \E i \in UnsentMeterValues(outbox'[u]) :
                  outbox'[u].meterValues[i].sample = m
        BY <1>0, <1>4, <3>1, RecordReadingSafe DEF Safe
    <3>3. RecordsKept'
        BY <1>0, <1>1, <1>4, <3>2 DEF Safe, RecordsKept
    <3>4. Accounted(u, m)'
        BY <3>2 DEF Accounted
    <3> QED
        BY <3>2, <3>3, <3>4
  <2>2. CASE answer.kind # "offline"
    <3>1. outbox' = outbox
        BY <2>2 DEF ReportAnswered
    <3>2. Accounted(u, m)'
        BY <2>2 DEF ReportAnswered, Accounted
    <3>3. RecordsKept'
        BY <1>0, <1>1, <3>1 DEF Safe, RecordsKept
    <3> QED
        BY <1>0, <3>1, <3>2, <3>3, StopAndBindExtend DEF TypeOK, PointTypeOK
  <2> QED
    BY <2>1, <2>2
<1>6. RequestsMatched'
    BY <1>1, <1>2 DEF RequestsMatched
<1>7. ReportsKnown'
    BY <1>0, <1>1, <1>3, ReportsStayKnown DEF Safe
<1>8. CopyIsOlder'
    BY <1>0, <1>1, <1>5, ExtendedGrown, CopyStaysOlder DEF Safe
<1>9. ReplayedMeansReceived' /\ ReadingsAccounted'
  <2>1. \A t \in Transactions : \A n \in 1..tx[t].samples :
             Waiting(ReportTask(t, n)) => Accounted(t, n)'
    <3>1. SUFFICES ASSUME NEW t \in Transactions, NEW n \in 1..tx[t].samples,
                          Waiting(ReportTask(t, n))
                   PROVE  Accounted(t, n)'
        OBVIOUS
    <3>2. n \in Nat
        BY <1>0 DEF TypeOK, PointTypeOK, TxValues
    <3>3. CASE t = u /\ n = m
        BY <1>5, <3>3
    <3>4. CASE ~(t = u /\ n = m)
        BY <1>3, <3>1, <3>2, <3>4 DEF Accounted
    <3> QED
        BY <3>3, <3>4
  <2> QED
    BY <1>0, <1>1, <1>5, <2>1, ExtensionSafe DEF Safe
<1> QED
    BY <1>5, <1>6, <1>7, <1>8, <1>9 DEF Safe

-----------------------------------------------------------------------------
(* The replay's stretches. *)

\* In its walk over the readings the replay waits for the reading, or the
\* stop, that it is at.
LEMMA ReadingsMatched ==
    ASSUME NEW r \in Replays, r.tx \in Transactions, NEW q \in Seq(Entries), NEW a,
           WithoutReplay(q, a), ReplayReadings(r, q, a)
    PROVE  /\ Matched(queue', aborted', replay')
           /\ replay'.snap = r.snap
           /\ \E message : Request(ReplayTask, message, q, a)
<1> DEFINE record == r.snap[r.tx]
           unsent == {i \in UnsentMeterValues(record) : i > r.index}
           meter(i) == MeterMessage(r.tx, r.id, record.meterValues[i].sample)
<1>1. CASE \E i \in unsent :
             /\ replay' = [r EXCEPT !.pc = "meter", !.index = i]
             /\ Request(ReplayTask, meter(i), q, a)
  <2>1. PICK i \in unsent :
             /\ replay' = [r EXCEPT !.pc = "meter", !.index = i]
             /\ Request(ReplayTask, meter(i), q, a)
    BY <1>1
  <2>2. /\ replay'.pc = "meter" /\ replay'.index = i /\ replay'.tx = r.tx
        /\ replay'.snap = r.snap
    BY <2>1 DEF Replays
  <2>3. i \in DOMAIN record.meterValues
    BY DEF UnsentMeterValues
  <2>4. ReplayMatches(meter(i), replay')
    BY <2>2, <2>3 DEF ReplayMatches, MeterMessage, Message
  <2> HIDE DEF meter
  <2> QED
    BY <2>1, <2>2, <2>4, ReplayRequestMatched
<1>2. CASE /\ replay' = [r EXCEPT !.pc = "stop"]
           /\ Request(ReplayTask, StopMessage(r.tx, r.id), q, a)
  <2>1. replay'.pc = "stop" /\ replay'.tx = r.tx /\ replay'.snap = r.snap
    BY <1>2 DEF Replays
  <2>2. ReplayMatches(StopMessage(r.tx, r.id), replay')
    BY <2>1 DEF ReplayMatches, StopMessage, Message
  <2> QED
    BY <1>2, <2>1, <2>2, ReplayRequestMatched
<1>3. CASE /\ replay' = [r EXCEPT !.pc = "charging"]
           /\ Request(ReplayTask, StatusMessage, q, a)
  <2>1. replay'.pc = "charging" /\ replay'.snap = r.snap
    BY <1>3 DEF Replays
  <2>2. ReplayMatches(StatusMessage, replay')
    BY <2>1 DEF ReplayMatches
  <2> QED
    BY <1>3, <2>1, <2>2, ReplayRequestMatched
<1> QED
    BY <1>1, <1>2, <1>3 DEF ReplayReadings

\* At its next record the replay waits for the start, a reading or the stop.
LEMMA NextMatched ==
    ASSUME PointTypeOK, NEW r \in Replays, NEW ids, NEW q \in Seq(Entries), NEW a,
           WithoutReplay(q, a), ReplayNext(r, ids, q, a)
    PROVE  /\ Matched(queue', aborted', replay')
           /\ replay'.snap = r.snap \/ replay' = ReplayIdle
           /\ Finish(q, a) \/ \E message : Request(ReplayTask, message, q, a)
<1> DEFINE t == Earliest(r.todo)
           taken == [r EXCEPT !.todo = r.todo \ {t}, !.tx = t, !.index = 0,
                              !.id = r.snap[t].ocppId]
<1>1. CASE r.todo = {}
  <2>1. replay' = ReplayIdle /\ Finish(q, a)
    BY <1>1 DEF ReplayNext
  <2> QED
    BY <2>1, FinishMatched DEF ReplayIdle
<1>2. CASE r.todo # {}
  <2>1. t \in Transactions
    <3>1. r.todo \in SUBSET Transactions
        BY DEF Replays
    <3> QED
        BY <1>2, <3>1, EarliestExists
  <2>2. r.snap[t].ocppId \in OcppIds \cup {None}
    BY <2>1 DEF Replays, Records
  <2>3. taken \in Replays /\ taken.tx \in Transactions /\ taken.snap = r.snap
    BY <2>1, <2>2 DEF Replays
  <2>4. CASE ~r.snap[t].startReplayed
    <3>1. replay' = [taken EXCEPT !.pc = "start"]
          /\ Request(ReplayTask, StartMessage(t), q, a)
        BY <1>2, <2>4 DEF ReplayNext
    <3>2. replay'.pc = "start" /\ replay'.snap = r.snap
        BY <2>3, <3>1 DEF Replays
    <3>3. ReplayMatches(StartMessage(t), replay')
        BY <3>2 DEF ReplayMatches
    <3> QED
        BY <3>1, <3>2, <3>3, ReplayRequestMatched
  <2>5. CASE r.snap[t].startReplayed
    <3>1. ReplayReadings(taken, q, a)
        BY <1>2, <2>5 DEF ReplayNext
    <3> HIDE DEF taken
    <3> QED
        BY <2>3, <3>1, ReadingsMatched
  <2> QED
    BY <2>4, <2>5
<1> QED
    BY <1>1, <1>2

\* The records of an idle replay are empty.
LEMMA IdleCopy == \A s : ReplayIdle.pc = "idle" /\ \A t \in Transactions : Grown(ReplayIdle.snap[t], s)
<1>1. \A t \in Transactions : ReplayIdle.snap[t] = NoRecord
    BY DEF ReplayIdle
<1>2. NoRecord.meterValues = <<>>
    BY DEF NoRecord
<1>3. \A s : Grown(NoRecord, s)
    BY <1>2 DEF Grown
<1> QED
    BY <1>1, <1>3 DEF ReplayIdle

\* In each stretch the replay waits for its next request or ends, on its copies.
LEMMA ReplayStepMatched ==
    ASSUME TypeOK, RequestsMatched, NEW answer, NEW q \in Seq(Entries), NEW a,
           Taken(ReplayTask, q, a), ReplayAnswered(answer, q, a), answer \in Answers
    PROVE  /\ Matched(queue', aborted', replay')
           /\ replay'.snap = replay.snap \/ replay' = ReplayIdle
           /\ Finish(q, a) \/ \E message : Request(ReplayTask, message, q, a)
<1>0. WithoutReplay(q, a) /\ replay.pc # "idle" /\ PointTypeOK /\ replay \in Replays
      /\ replay.tx \in Transactions
    BY TakenMatched DEF TypeOK, PointTypeOK
<1>1. CASE ReplayAbandoned(answer, q, a)
  <2>1. replay' = ReplayIdle /\ Finish(q, a)
    BY <1>1 DEF ReplayAbandoned
  <2> QED
    BY <1>0, <2>1, IdleCopy, FinishMatched
<1>2. CASE ReplayStartAnswered(answer, q, a)
  <2> DEFINE r == [replay EXCEPT !.id = answer.id]
  <2>1. r \in Replays /\ r.tx = replay.tx /\ r.snap = replay.snap
    BY <1>0 DEF Replays, Answers
  <2>2. CASE ReplayReadings(r, q, a)
    <3> HIDE DEF r
    <3> QED
        BY <1>0, <2>1, <2>2, ReadingsMatched
  <2>3. CASE /\ replay' = [r EXCEPT !.pc = "stop"]
             /\ Request(ReplayTask, StopMessage(replay.tx, answer.id), q, a)
    <3>1. replay'.pc = "stop" /\ replay'.tx = replay.tx /\ replay'.snap = replay.snap
        BY <2>1, <2>3 DEF Replays
    <3>2. ReplayMatches(StopMessage(replay.tx, answer.id), replay')
        BY <3>1 DEF ReplayMatches, StopMessage, Message
    <3> QED
        BY <1>0, <2>3, <3>1, <3>2, ReplayRequestMatched
  <2>4. CASE /\ replay' = [r EXCEPT !.pc = "charging"]
             /\ Request(ReplayTask, StatusMessage, q, a)
    <3>1. replay'.pc = "charging" /\ replay'.snap = replay.snap
        BY <2>1, <2>4 DEF Replays
    <3>2. ReplayMatches(StatusMessage, replay')
        BY <3>1 DEF ReplayMatches
    <3> QED
        BY <1>0, <2>4, <3>1, <3>2, ReplayRequestMatched
  <2> QED
    BY <1>2, <2>2, <2>3, <2>4 DEF ReplayStartAnswered
<1>3. CASE ReplayReadingAnswered(answer, q, a)
    BY <1>0, <1>3, ReadingsMatched DEF ReplayReadingAnswered
<1>4. CASE ReplayStopAnswered(answer, q, a)
  <2>1. /\ replay' = [replay EXCEPT !.pc = "stopped"]
        /\ Request(ReplayTask, StatusMessage, q, a)
    BY <1>4 DEF ReplayStopAnswered
  <2>2. replay'.pc = "stopped" /\ replay'.snap = replay.snap
    BY <1>0, <2>1 DEF Replays
  <2>3. ReplayMatches(StatusMessage, replay')
    BY <2>2 DEF ReplayMatches
  <2> QED
    BY <1>0, <2>1, <2>2, <2>3, ReplayRequestMatched
<1>5. CASE ReplayNotified(q, a)
    BY <1>0, <1>5, NextMatched DEF ReplayNotified
<1> QED
    BY <1>1, <1>2, <1>3, <1>4, <1>5 DEF ReplayAnswered

\* A replay that goes on marks only what was received, by a position that
\* still holds it.
LEMMA ReplayStepSafe ==
    ASSUME IInv, PointTypeOK', LogGrows, NEW answer \in Answers,
           NEW q \in Seq(Entries), NEW a, Taken(ReplayTask, q, a),
           ReplayAnswered(answer, q, a), Heard(ReplayTask, answer)
    PROVE  Safe'
<1>0. TypeOK /\ Safe /\ queue \in Seq(Entries) /\ outbox \in [Transactions -> Records]
    BY DEF IInv, TypeOK, PointTypeOK, Entries
<1>1. PICK t \in Transactions, index \in Nat :
          t = replay.tx /\ index = replay.index /\ outbox[t] \in Records
    BY <1>0, TakenMatched DEF Safe, TypeOK, PointTypeOK, Replays
<1>2. /\ Matched(queue', aborted', replay')
      /\ replay'.snap = replay.snap \/ replay' = ReplayIdle
      /\ Finish(q, a) \/ \E message : Request(ReplayTask, message, q, a)
    BY <1>0, ReplayStepMatched DEF Safe
<1>3. \A u \in Transactions, n \in Nat :
        /\ Waiting(ReportTask(u, n)) => Waiting(ReportTask(u, n))'
        /\ Waiting(ReportTask(u, n))' => Waiting(ReportTask(u, n))
  <2>1. SUFFICES ASSUME NEW u \in Transactions, NEW n \in Nat
                 PROVE  Waiting(ReportTask(u, n)) <=> Waiting(ReportTask(u, n))'
    OBVIOUS
  <2>2. ReportTask(u, n) # ReplayTask
    BY TaskKinds
  <2>3. Waiting(ReportTask(u, n)) <=> WaitsIn(ReportTask(u, n), q, a)
    BY <1>0, <2>2, TakenWaits, TakenOnly
  <2>4. WaitsIn(ReportTask(u, n), q, a) <=> Waiting(ReportTask(u, n))'
    BY <1>2, <2>2, RequestWaits, FinishWaits
  <2> QED
    BY <2>3, <2>4
<1>4. lost' = lost
    BY DEF ReplayAnswered
<1>5. \A u \in Transactions : tx'[u].samples = tx[u].samples
        /\ (tx[u].state # "absent" <=> tx'[u].state # "absent")
  <2>1. CASE tx' = tx
    BY <2>1
  <2>2. CASE End(t) /\ Active(t)
    BY <1>0, <1>1, <2>2, EndSamples DEF Active
  <2> QED
    BY <1>1, <2>1, <2>2 DEF ReplayAnswered, ReplayAbandoned, ReplayStartAnswered,
        ReplayReadingAnswered, ReplayStopAnswered, ReplayNotified
<1>6. \A u \in Transactions : \A n \in 1..tx'[u].samples : n \in 1..tx[u].samples /\ n \in Nat
    BY <1>0, <1>5 DEF TypeOK, PointTypeOK, TxValues
<1>7. ASSUME \A u \in Transactions : Extended(outbox[u], outbox'[u]),
             \A u \in Transactions :
                /\ outbox'[u].kept = outbox[u].kept
                /\ outbox'[u].meterValues = outbox[u].meterValues
      PROVE  /\ \A u \in Transactions : Grown(outbox[u], outbox'[u])
             /\ \A u \in Transactions :
                  /\ outbox'[u].kept = outbox[u].kept
                  /\ outbox[u].meterValues = <<>> => outbox'[u].meterValues = <<>>
             /\ ReplayedMeansReceived' /\ ReadingsAccounted'
  <2>1. \A u \in Transactions : \A n \in 1..tx[u].samples :
             Waiting(ReportTask(u, n)) => Accounted(u, n)'
    BY <1>0, <1>3 DEF TypeOK, PointTypeOK, TxValues, Accounted
  <2> QED
    BY <1>0, <1>4, <1>6, <1>7, <2>1, ExtendedGrown, ExtensionSafe DEF Safe
<1>8. /\ \A u \in Transactions : Grown(outbox[u], outbox'[u])
      /\ \A u \in Transactions :
           /\ outbox'[u].kept = outbox[u].kept
           /\ outbox[u].meterValues = <<>> => outbox'[u].meterValues = <<>>
      /\ ReplayedMeansReceived' /\ ReadingsAccounted'
  <2>1. CASE ReplayAbandoned(answer, q, a) \/ ReplayNotified(q, a)
    <3>1. outbox' = outbox
        BY <2>1 DEF ReplayAbandoned, ReplayNotified
    <3> QED
        BY <1>0, <1>7, <3>1, StopAndBindExtend
  <2>2. CASE ReplayStartAnswered(answer, q, a)
    <3> DEFINE record == BindStart(outbox[t], answer.id)
    <3>1. \/ outbox' = [outbox EXCEPT ![t] = record]
          \/ outbox' = [outbox EXCEPT ![t] = RecordStopped(record)]
        BY <1>1, <2>2 DEF ReplayStartAnswered
    <3>2. /\ Extended(outbox[t], record) /\ record.kept = outbox[t].kept
          /\ Extended(outbox[t], RecordStopped(record))
          /\ RecordStopped(record).kept = outbox[t].kept
          /\ record.meterValues = outbox[t].meterValues
          /\ RecordStopped(record).meterValues = outbox[t].meterValues
        BY <1>1, StopAndBindExtend
    <3> HIDE DEF record
    <3>3. \A u \in Transactions :
            /\ Extended(outbox[u], outbox'[u])
            /\ outbox'[u].kept = outbox[u].kept
            /\ outbox'[u].meterValues = outbox[u].meterValues
        BY <1>0, <1>1, <3>1, <3>2, StopAndBindExtend
    <3> QED
        BY <1>7, <3>3
  <2>3. CASE ReplayReadingAnswered(answer, q, a)
    <3> DEFINE sample == outbox[t].meterValues[index].sample
    <3>1. /\ outbox' = [outbox EXCEPT ![t] = MarkMeterValueReplayed(outbox[t], index)]
          /\ tx' = tx /\ replay.pc = "meter" /\ answer.kind = "response"
        BY <1>1, <2>3 DEF ReplayReadingAnswered
    <3>2. /\ index \in DOMAIN replay.snap[t].meterValues
          /\ \E i \in DOMAIN log' :
                /\ log'[i].type = "MeterValues" /\ log'[i].tx = t
                /\ log'[i].sample = replay.snap[t].meterValues[index].sample
        BY <1>1, <3>1 DEF Heard
    <3>3. index \in DOMAIN outbox[t].meterValues
          /\ sample = replay.snap[t].meterValues[index].sample
        BY <1>0, <1>1, <3>2 DEF Safe, CopyIsOlder, Grown
    <3>4. LET marked == MarkMeterValueReplayed(outbox[t], index)
          IN  /\ Grown(outbox[t], marked) /\ marked.kept = outbox[t].kept
              /\ outbox[t].meterValues = <<>> => marked.meterValues = <<>>
        BY <1>1, MarkReading
    <3>5. \A u \in Transactions :
            /\ Grown(outbox[u], outbox'[u])
            /\ outbox'[u].kept = outbox[u].kept
            /\ outbox[u].meterValues = <<>> => outbox'[u].meterValues = <<>>
        BY <1>0, <1>1, <3>1, <3>4, StopAndBindExtend, ExtendedGrown
    <3>6. outbox'[t].meterValues[index].sample = sample
        BY <1>1, <3>3, <3>5 DEF Grown
    <3>7. ReceivedReading(t, outbox[t].meterValues[index].sample)'
        BY <3>2, <3>3, <3>6 DEF ReceivedReading
    <3> QED
        BY <1>0, <1>1, <1>3, <1>4, <3>1, <3>3, <3>5, <3>7, MarkSafe DEF Safe
  <2>4. CASE ReplayStopAnswered(answer, q, a)
    <3>1. /\ outbox' = [outbox EXCEPT ![t] = MarkStopReplayed(outbox[t])]
          /\ tx' = tx /\ replay.pc = "stop" /\ answer.kind = "response"
        BY <1>1, <2>4 DEF ReplayStopAnswered
    <3>2. \E i \in DOMAIN log' : log'[i].type = "StopTransaction" /\ log'[i].tx = t
        BY <1>1, <3>1 DEF Heard
    <3>3. /\ outbox'[t].meterValues = outbox[t].meterValues
          /\ outbox'[t].kept = outbox[t].kept
          /\ \A u \in Transactions : u # t => outbox'[u] = outbox[u]
        BY <1>0, <1>1, <3>1, MarkStop
    <3>4. \A u \in Transactions : outbox'[u].meterValues = outbox[u].meterValues
        BY <3>3
    <3>5. ReplayedMeansReceived'
      <4>1. SUFFICES ASSUME NEW u \in Transactions
                     PROVE  /\ \A i \in DOMAIN outbox'[u].meterValues :
                                 outbox'[u].meterValues[i].replayed
                                   => ReceivedReading(u, outbox[u].meterValues[i].sample)'
                            /\ outbox'[u].stop = "replayed" => ReceivedStop(u)'
        BY DEF ReplayedMeansReceived
      <4>2. outbox'[u].stop = "replayed" => ReceivedStop(u)'
        <5>1. CASE u = t
            BY <3>2, <5>1 DEF ReceivedStop
        <5>2. CASE u # t
            BY <1>0, <3>3, <5>2, ReceivedPersists DEF Safe, ReplayedMeansReceived
        <5> QED
            BY <5>1, <5>2
      <4>3. \A i \in DOMAIN outbox[u].meterValues :
                outbox[u].meterValues[i].replayed
                  => ReceivedReading(u, outbox[u].meterValues[i].sample)
        BY <1>0 DEF Safe, ReplayedMeansReceived
      <4>4. \A i \in DOMAIN outbox[u].meterValues :
                ReceivedReading(u, outbox[u].meterValues[i].sample)
                  => ReceivedReading(u, outbox[u].meterValues[i].sample)'
        BY <3>4 DEF LogGrows, ReceivedReading
      <4> QED
        BY <3>4, <4>2, <4>3, <4>4
    <3>6. ReadingsAccounted'
      <4>1. SUFFICES ASSUME NEW u \in Transactions, NEW n \in 1..tx'[u].samples
                     PROVE  Accounted(u, n)'
        BY DEF ReadingsAccounted, Accounted
      <4>2. n \in Nat /\ Accounted(u, n)
        BY <1>0, <1>6 DEF Safe, ReadingsAccounted, Accounted
      <4>3. UnsentMeterValues(outbox'[u]) = UnsentMeterValues(outbox[u])
        BY <3>4 DEF UnsentMeterValues
      <4>4. ReceivedReading(u, n) => ReceivedReading(u, n)'
        BY ReceivedPersists
      <4> QED
        BY <1>3, <1>4, <3>4, <4>2, <4>3, <4>4 DEF Accounted
    <3>7. \A u \in Transactions :
            Grown(outbox[u], outbox'[u]) /\ outbox'[u].kept = outbox[u].kept
        BY <3>3, <3>4 DEF Grown
    <3> QED
        BY <3>4, <3>5, <3>6, <3>7
  <2> QED
    BY <2>1, <2>2, <2>3, <2>4 DEF ReplayAnswered
<1>9. RequestsMatched'
    BY <1>2 DEF RequestsMatched
<1>10. RecordsKept'
  <2>1. \A u \in Transactions : outbox'[u].kept \/ outbox'[u].meterValues = <<>>
    BY <1>0, <1>8 DEF Safe, RecordsKept
  <2> QED
    BY <1>0, <1>5, <1>8, <2>1 DEF Safe, RecordsKept
<1>11. ReportsKnown'
    BY <1>0, <1>3, <1>5, ReportsStayKnown DEF Safe
<1>12. CopyIsOlder'
  <2>1. CASE replay'.snap = replay.snap
    BY <1>0, <1>8, <2>1, CopyStaysOlder DEF Safe
  <2>2. CASE replay' = ReplayIdle
    BY <2>2, IdleCopy DEF CopyIsOlder
  <2> QED
    BY <1>2, <2>1, <2>2
<1> QED
    BY <1>8, <1>9, <1>10, <1>11, <1>12 DEF Safe

-----------------------------------------------------------------------------
(* The session's steps. *)

\* Any coroutine that goes on keeps the invariant.
LEMMA SettledSafe ==
    ASSUME IInv, PointTypeOK', LogGrows, NEW task \in Tasks, NEW answer \in Answers,
           NEW q \in Seq(Entries), NEW a, Taken(task, q, a),
           Settled(task, answer, q, a), Heard(task, answer)
    PROVE  Safe'
<1>1. CASE task.of = "start"
    BY <1>1, TaskCases, StartStepSafe DEF Settled
<1>2. CASE task.of = "stop"
    BY <1>2, TaskCases, StopStepSafe DEF Settled
<1>3. CASE task.of = "report"
    BY <1>3, TaskCases, ReportStepSafe DEF Settled, Heard
<1>4. CASE task.of = "replay"
    BY <1>4, TaskCases, ReplayStepSafe DEF Settled
<1> QED
    BY <1>1, <1>2, <1>3, <1>4, TaskCases

\* A receipt is added at the end of what the CSMS has received.
LEMMA ReceivedGrows ==
    ASSUME log \in Seq(Messages), NEW receipt, Received(receipt)
    PROVE  LogGrows
<1>1. CASE log' = log
    BY <1>1 DEF LogGrows
<1>2. CASE log' = Append(log, receipt)
    BY <1>2 DEF LogGrows
<1> QED
    BY <1>1, <1>2 DEF Received

\* A reading or a stop is received as it was sent.
LEMMA ReceivedAsSent ==
    ASSUME log \in Seq(Messages), NEW message,
           message.type \in {"MeterValues", "StopTransaction"},
           NEW receipt \in Receipts(message), Received(receipt)
    PROVE  \E i \in DOMAIN log' : log'[i] = message
<1>1. receipt = message
    BY DEF Receipts
<1>2. log' = Append(log, message)
    BY <1>1 DEF Received
<1>3. Len(log) + 1 \in DOMAIN log' /\ log'[Len(log) + 1] = message
    BY <1>2
<1> QED
    BY <1>3

\* A reply, positive or CALLERROR, keeps the invariant.
LEMMA ReplySafe ==
    ASSUME IInv, PointTypeOK', Reply
    PROVE  Safe'
<1>0. TypeOK /\ Safe /\ queue \in Seq(Entries) /\ log \in Seq(Messages) /\ queue # <<>>
    BY DEF IInv, TypeOK, PointTypeOK, Entries, Reply
<1>1. PICK receipt \in Receipts(Head(queue).msg), accepted \in BOOLEAN :
           /\ Received(receipt)
           /\ Settled(Head(queue).task, Response(receipt.id, accepted),
                      Tail(queue), aborted)
    BY DEF Reply
<1> DEFINE answer == Response(receipt.id, accepted)
<1>2. PICK task \in Tasks, message \in Messages :
           /\ task = Head(queue).task /\ message = Head(queue).msg
           /\ Tail(queue) \in Seq(Entries)
           /\ 1 \in DOMAIN queue /\ Head(queue) = queue[1]
    BY <1>0, HeadTail, TailPositions
<1>3. receipt.id \in OcppIds \cup {None} /\ receipt \in Receipts(message)
    BY <1>2, ReceiptType
<1>4. answer \in Answers
    BY <1>3 DEF Response, Answers
<1>5. LogGrows
    BY <1>0, <1>1, ReceivedGrows
<1>6. Taken(task, Tail(queue), aborted)
    BY <1>0, <1>2 DEF Taken
<1>7. /\ ReportMatches(Head(queue))
      /\ task = ReplayTask => ReplayMatches(message, replay)
    BY <1>0, <1>2 DEF Safe, RequestsMatched, Matched
<1>8. Heard(task, answer)
  <2>1. ASSUME message.type \in {"MeterValues", "StopTransaction"}
        PROVE  \E i \in DOMAIN log' : log'[i] = message
    BY <1>0, <1>1, <1>3, <2>1, ReceivedAsSent
  <2>2. task.of = "report" => ReceivedReading(task.id, task.sample)'
    BY <1>2, <1>7, <2>1 DEF ReportMatches, ReceivedReading
  <2>3. ASSUME task = ReplayTask, replay.pc = "meter"
        PROVE  \E n \in Nat :
                 /\ replay.index \in DOMAIN replay.snap[replay.tx].meterValues
                 /\ n = replay.snap[replay.tx].meterValues[replay.index].sample
                 /\ \E i \in DOMAIN log' :
                       /\ log'[i].type = "MeterValues" /\ log'[i].tx = replay.tx
                       /\ log'[i].sample = n
    <3>1. message.sample \in Nat
        BY DEF Messages
    <3> QED
        BY <1>2, <1>7, <2>1, <2>3, <3>1 DEF ReplayMatches
  <2>4. ASSUME task = ReplayTask, replay.pc = "stop"
        PROVE  \E i \in DOMAIN log' :
                 log'[i].type = "StopTransaction" /\ log'[i].tx = replay.tx
    BY <1>2, <1>7, <2>1, <2>4 DEF ReplayMatches
  <2> HIDE DEF answer
  <2> QED
    BY <2>2, <2>3, <2>4 DEF Heard
<1> QED
    BY <1>1, <1>2, <1>4, <1>5, <1>6, <1>8, SettledSafe

\* A step that leaves outbox and replay alone keeps the invariant when every
\* report goes on waiting.
LEMMA FrameSafe ==
    ASSUME IInv, LogGrows, lost \subseteq lost', outbox' = outbox, replay' = replay,
           Matched(queue', aborted', replay),
           \A t \in Transactions :
               /\ tx'[t].samples = tx[t].samples
               /\ tx[t].state # "absent" <=> tx'[t].state # "absent",
           \A t \in Transactions, n \in Nat :
               /\ Waiting(ReportTask(t, n)) => Waiting(ReportTask(t, n))'
               /\ Waiting(ReportTask(t, n))' => Waiting(ReportTask(t, n))
    PROVE  Safe'
<1>0. TypeOK /\ Safe
    BY DEF IInv
<1>1. RequestsMatched'
    BY DEF RequestsMatched
<1>2. RecordsKept'
    BY <1>0 DEF Safe, RecordsKept
<1>3. ReportsKnown'
    BY <1>0, ReportsStayKnown DEF Safe
<1>4. \A t \in Transactions : Extended(outbox[t], outbox'[t])
    BY <1>0, StopAndBindExtend DEF TypeOK, PointTypeOK
<1>5. CopyIsOlder'
    BY <1>0, <1>4, ExtendedGrown, CopyStaysOlder DEF Safe
<1>6. ReplayedMeansReceived' /\ ReadingsAccounted'
  <2>1. \A t \in Transactions : \A n \in 1..tx[t].samples :
             Waiting(ReportTask(t, n)) => Accounted(t, n)'
    BY <1>0 DEF TypeOK, PointTypeOK, TxValues, Accounted
  <2> QED
    BY <1>0, <1>4, <2>1, ExtensionSafe DEF Safe
<1> QED
    BY <1>1, <1>2, <1>3, <1>5, <1>6 DEF Safe

\* The session's other steps keep the invariant.
LEMMA SessionStepSafe ==
    ASSUME IInv, PointTypeOK', RequestFails \/ Disconnect \/ Resume
    PROVE  Safe'
<1>0. TypeOK /\ Safe /\ queue \in Seq(Entries) /\ log \in Seq(Messages)
      /\ aborted \subseteq Tasks
    BY DEF IInv, TypeOK, PointTypeOK, Entries
<1>1. CASE RequestFails
  <2>1. PICK task \in Tasks :
           /\ task = Head(queue).task /\ queue # <<>>
           /\ Tail(queue) \in Seq(Entries)
    BY <1>0, <1>1, HeadTail DEF RequestFails
  <2>2. LogGrows
    <3>1. CASE log' = log
        BY <3>1 DEF LogGrows
    <3> QED
        BY <1>0, <1>1, <3>1, ReceivedGrows DEF RequestFails
  <2>3. Failed \in Answers /\ Heard(task, Failed)
    BY DEF Failed, Answers, Heard
  <2>4. Taken(task, Tail(queue), aborted) /\ Settled(task, Failed, Tail(queue), aborted)
    BY <1>1, <2>1 DEF Taken, RequestFails
  <2> QED
    BY <2>1, <2>2, <2>3, <2>4, SettledSafe
<1>2. CASE Resume
  <2>1. PICK task \in aborted : Settled(task, Offline, queue, aborted \ {task})
    BY <1>2 DEF Resume
  <2>2. task \in Tasks /\ Taken(task, queue, aborted \ {task})
    BY <1>0 DEF Taken
  <2>3. LogGrows
    BY <1>2 DEF Resume, envVars, LogGrows
  <2>4. Offline \in Answers /\ Heard(task, Offline)
    BY DEF Offline, Answers, Heard
  <2> QED
    BY <1>0, <2>1, <2>2, <2>3, <2>4, SettledSafe
<1>3. CASE Disconnect
  <2>1. LogGrows
    <3>1. CASE log' = log
        BY <3>1 DEF LogGrows
    <3> QED
        BY <1>0, <1>3, <3>1, ReceivedGrows DEF Disconnect
  <2>2. queue' = <<>> /\ aborted' = {queue[i].task : i \in DOMAIN queue} /\ aborted = {}
        /\ UNCHANGED pointVars
    BY <1>3 DEF Disconnect, Quiet
  <2>3. \A other : Waiting(other) <=> Waiting(other)'
    BY <2>2 DEF Waiting
  <2>4. Matched(queue', aborted', replay)
    <3>1. replay.pc # "idle" <=> Waiting(ReplayTask)
        BY <1>0 DEF Safe, RequestsMatched, Matched, Waiting, WaitsIn
    <3>2. Waiting(ReplayTask)' <=> WaitsIn(ReplayTask, queue', aborted')
        BY DEF Waiting, WaitsIn
    <3> QED
        BY <2>2, <2>3, <3>1, <3>2 DEF Matched
  <2> QED
    BY <2>1, <2>2, <2>3, <2>4, FrameSafe DEF pointVars
<1> QED
    BY <1>1, <1>2, <1>3

-----------------------------------------------------------------------------
(* The steps of the user, the timers and the boot. *)

\* A coroutine other than the replay makes its first request.
LEMMA FirstRequest ==
    ASSUME TypeOK, RequestsMatched, NEW task, task # ReplayTask, NEW message,
           ReportMatches([task |-> task, msg |-> message]),
           Request(task, message, queue, aborted)
    PROVE  /\ Matched(queue', aborted', replay)
           /\ Waiting(task)'
           /\ \A other : Waiting(other) => Waiting(other)'
           /\ \A other : Waiting(other)' => Waiting(other) \/ other = task
<1>1. queue \in Seq(Entries) /\ Matched(queue, aborted, replay)
    BY DEF TypeOK, PointTypeOK, Entries, RequestsMatched
<1>2. Matched(queue', aborted', replay)
    BY <1>1, RequestMatched
<1>3. /\ Waiting(task)'
      /\ \A other : WaitsIn(other, queue, aborted) => Waiting(other)'
      /\ \A other : Waiting(other)' => other = task \/ WaitsIn(other, queue, aborted)
    BY <1>1, RequestWaits
<1> QED
    BY <1>2, <1>3 DEF Waiting, WaitsIn

\* When queue and coroutines stay as they are everyone goes on waiting.
LEMMA UnchangedWaits ==
    ASSUME RequestsMatched, UNCHANGED sessionVars
    PROVE  /\ Matched(queue', aborted', replay)
           /\ \A task : Waiting(task) <=> Waiting(task)'
    BY DEF RequestsMatched, sessionVars, Waiting

\* Steps that leave the transactions, the outbox, the replay, the queue and the
\* log alone.
LEMMA IdleStepSafe ==
    ASSUME IInv, UNCHANGED <<tx, outbox, replay, lost, sessionVars, log>>
    PROVE  Safe'
<1>1. RequestsMatched
    BY DEF IInv, Safe
<1>2. LogGrows
    BY DEF LogGrows
<1> QED
    BY <1>1, <1>2, UnchangedWaits, FrameSafe

\* A start made without the CSMS adds an empty record, which owes no reading.
LEMMA BeginOfflineStartSafe ==
    ASSUME IInv, NEW s \in Starts, NEW c \in Connectors, BeginOfflineStart(s, c)
    PROVE  Safe'
<1>0. TypeOK /\ Safe
    BY DEF IInv
<1>1. PICK t \in LocalIds :
         /\ tx[t].state = "absent"
         /\ CreateActive(t, c, starts)
         /\ outbox' = [outbox EXCEPT ![t] = RecordStarted]
    BY DEF BeginOfflineStart
<1>2. UNCHANGED <<replay, lost, sessionVars, log>>
    BY DEF BeginOfflineStart
<1>3. t \in Transactions
    BY DEF Transactions
<1>4. \A u \in Transactions :
        IF u = t THEN tx'[u].state = "active" /\ tx'[u].samples = 0
        ELSE tx'[u] = tx[u]
    BY <1>0, <1>1, CreateActiveSamples
<1>5. outbox[t].meterValues = <<>>
    BY <1>0, <1>1, <1>3 DEF Safe, RecordsKept
<1>6. RecordStarted.meterValues = <<>> /\ RecordStarted.stop = "none" /\ RecordStarted.kept
    BY DEF RecordStarted, NoRecord
<1>7. \A u \in Transactions :
        IF u = t THEN outbox'[u] = RecordStarted ELSE outbox'[u] = outbox[u]
    BY <1>0, <1>1 DEF TypeOK, PointTypeOK
<1>8. \A u \in Transactions : Extended(outbox[u], outbox'[u])
  <2>1. Extended(outbox[t], RecordStarted)
    BY <1>5, <1>6 DEF Extended
  <2> QED
    BY <1>0, <1>7, <2>1, StopAndBindExtend DEF TypeOK, PointTypeOK
<1>9. /\ Matched(queue', aborted', replay)
      /\ \A task : Waiting(task) <=> Waiting(task)'
    BY <1>0, <1>2, UnchangedWaits DEF Safe
<1>10. LogGrows
    BY <1>2 DEF LogGrows
<1>11. RequestsMatched'
    BY <1>2, <1>9 DEF RequestsMatched
<1>12. RecordsKept'
    BY <1>0, <1>3, <1>4, <1>6, <1>7 DEF Safe, RecordsKept
<1>13. ReportsKnown'
    BY <1>0, <1>4, <1>9, ReportsStayKnown DEF Safe
<1>14. CopyIsOlder'
    BY <1>0, <1>2, <1>8, ExtendedGrown, CopyStaysOlder DEF Safe
<1>15. ReplayedMeansReceived' /\ ReadingsAccounted'
  <2>1. \A u \in Transactions : \A n \in 1..tx[u].samples :
             Waiting(ReportTask(u, n)) => Accounted(u, n)'
    BY <1>9 DEF Accounted
  <2>2. \A u \in Transactions : \A n \in 1..tx'[u].samples : n \in 1..tx[u].samples
    BY <1>4
  <2> QED
    BY <1>0, <1>2, <1>8, <1>10, <2>1, <2>2, ExtensionSafe DEF Safe
<1> QED
    BY <1>11, <1>12, <1>13, <1>14, <1>15 DEF Safe

\* A start made with the CSMS changes no record.
LEMMA BeginOnlineStartSafe ==
    ASSUME IInv, NEW s \in Starts, NEW c \in Connectors, BeginOnlineStart(s, c)
    PROVE  Safe'
<1>1. StartTask(s) # ReplayTask
      /\ ReportMatches([task |-> StartTask(s), msg |-> StartMessage(None)])
    BY TaskKinds DEF ReportMatches
<1>2. /\ Request(StartTask(s), StartMessage(None), queue, aborted)
      /\ UNCHANGED <<tx, outbox, replay, lost, log>>
    BY DEF BeginOnlineStart
<1>3. /\ Matched(queue', aborted', replay)
      /\ \A other : Waiting(other) => Waiting(other)'
      /\ \A other : Waiting(other)' => Waiting(other) \/ other = StartTask(s)
    BY <1>1, <1>2, FirstRequest DEF IInv, Safe
<1>4. LogGrows
    BY <1>2 DEF LogGrows
<1> QED
    BY <1>2, <1>3, <1>4, TaskKinds, FrameSafe

\* A stop is recorded beside the readings, or sent, and takes no reading away.
LEMMA BeginStopSafe ==
    ASSUME IInv, NEW u \in Transactions, BeginOnlineStop(u) \/ BeginOfflineStop(u)
    PROVE  Safe'
<1>0. TypeOK /\ Safe
    BY DEF IInv
<1>1. End(u) /\ Active(u) /\ UNCHANGED <<replay, lost, log>>
    BY DEF BeginOnlineStop, BeginOfflineStop, envVars
<1>2. \A t \in Transactions :
        /\ tx'[t].samples = tx[t].samples
        /\ tx[t].state # "absent" <=> tx'[t].state # "absent"
    BY <1>0, <1>1, EndSamples DEF Active
<1>3. LogGrows
    BY <1>1 DEF LogGrows
<1>4. CASE BeginOnlineStop(u)
  <2>1. StopTask(u) # ReplayTask
        /\ ReportMatches([task |-> StopTask(u), msg |-> StatusMessage])
    BY TaskKinds DEF ReportMatches
  <2>2. outbox' = outbox /\ Request(StopTask(u), StatusMessage, queue, aborted)
    BY <1>4 DEF BeginOnlineStop
  <2>3. /\ Matched(queue', aborted', replay)
        /\ \A other : Waiting(other) => Waiting(other)'
        /\ \A other : Waiting(other)' => Waiting(other) \/ other = StopTask(u)
    BY <1>0, <2>1, <2>2, FirstRequest DEF Safe
  <2> QED
    BY <1>1, <1>2, <1>3, <2>2, <2>3, TaskKinds, FrameSafe
<1>5. CASE BeginOfflineStop(u)
  <2>1. /\ outbox' = [outbox EXCEPT ![u] = RecordStopped(outbox[u])]
        /\ UNCHANGED sessionVars
    BY <1>5 DEF BeginOfflineStop
  <2>2. outbox[u] \in Records /\ outbox \in [Transactions -> Records]
    BY <1>0 DEF TypeOK, PointTypeOK
  <2>3. \A t \in Transactions :
          /\ Extended(outbox[t], outbox'[t])
          /\ outbox'[t].kept = outbox[t].kept
          /\ outbox[t].meterValues = <<>> => outbox'[t].meterValues = <<>>
    <3>1. RecordStopped(outbox[u]).meterValues = outbox[u].meterValues
        BY <2>2 DEF RecordStopped, Records
    <3> QED
        BY <2>1, <2>2, <3>1, StopAndBindExtend
  <2>4. /\ Matched(queue', aborted', replay)
        /\ \A task : Waiting(task) <=> Waiting(task)'
    BY <1>0, <2>1, UnchangedWaits DEF Safe
  <2>5. RequestsMatched'
    BY <1>1, <2>4 DEF RequestsMatched
  <2>6. RecordsKept'
    BY <1>0, <1>2, <2>3 DEF Safe, RecordsKept
  <2>7. ReportsKnown'
    BY <1>0, <1>2, <2>4, ReportsStayKnown DEF Safe
  <2>8. CopyIsOlder'
    BY <1>0, <1>1, <2>3, ExtendedGrown, CopyStaysOlder DEF Safe
  <2>9. ReplayedMeansReceived' /\ ReadingsAccounted'
    <3>1. \A t \in Transactions : \A n \in 1..tx[t].samples :
             Waiting(ReportTask(t, n)) => Accounted(t, n)'
        BY <2>4 DEF Accounted
    <3> QED
        BY <1>0, <1>1, <1>2, <1>3, <2>3, <3>1, ExtensionSafe DEF Safe
  <2> QED
    BY <2>5, <2>6, <2>7, <2>8, <2>9 DEF Safe
<1> QED
    BY <1>4, <1>5

\* A reading just taken is in the outbox or under way.
LEMMA BeginReportSafe ==
    ASSUME IInv, NEW u \in Transactions, BeginReport(u)
    PROVE  Safe'
<1>0. TypeOK /\ Safe /\ tx[u] \in TxValues /\ tx \in [Transactions -> TxValues]
    BY DEF IInv, TypeOK, PointTypeOK
<1>1. PICK m \in Nat : m = tx[u].samples + 1
    BY <1>0 DEF TxValues
<1>2. UNCHANGED <<replay, lost, log>> /\ tx[u].state = "active"
    BY DEF BeginReport, envVars, Active
<1>3. \A t \in Transactions :
        /\ tx'[t].samples = IF t = u THEN m ELSE tx[t].samples
        /\ tx'[t].state = tx[t].state
  <2>1. tx' = [tx EXCEPT ![u] = [tx[u] EXCEPT !.samples = m]]
    BY <1>0, <1>1 DEF BeginReport
  <2>2. [tx[u] EXCEPT !.samples = m].samples = m
        /\ [tx[u] EXCEPT !.samples = m].state = tx[u].state
    BY <1>0 DEF TxValues
  <2> QED
    BY <1>0, <2>1, <2>2
<1>4. LogGrows
    BY <1>2 DEF LogGrows
<1>5. /\ \A t \in Transactions : Extended(outbox[t], outbox'[t])
      /\ RecordsKept'
      /\ Accounted(u, m)'
      /\ Matched(queue', aborted', replay)
      /\ \A other : Waiting(other) => Waiting(other)'
      /\ \A t \in Transactions, n \in Nat :
            Waiting(ReportTask(t, n))' => Waiting(ReportTask(t, n)) \/ t = u
  <2>1. CASE RecordReading(u, m) /\ UNCHANGED sessionVars
    <3>1. /\ \A t \in Transactions : Extended(outbox[t], outbox'[t])
          /\ \A t \in Transactions : t # u => outbox'[t] = outbox[t]
          /\ outbox'[u].kept
          /\ \E i \in UnsentMeterValues(outbox'[u]) :
                  outbox'[u].meterValues[i].sample = m
        BY <1>0, <1>2, <2>1, RecordReadingSafe DEF Safe
    <3>2. RecordsKept'
        BY <1>0, <1>2, <1>3, <3>1 DEF Safe, RecordsKept
    <3>3. Accounted(u, m)'
        BY <3>1 DEF Accounted
    <3> QED
        BY <1>0, <2>1, <3>1, <3>2, <3>3, UnchangedWaits DEF Safe
  <2>2. CASE /\ Request(ReportTask(u, m), MeterMessage(u, OcppIdOf(u), m), queue, aborted)
             /\ outbox' = outbox
    <3>1. /\ ReportTask(u, m) # ReplayTask
          /\ ReportMatches([task |-> ReportTask(u, m),
                            msg |-> MeterMessage(u, OcppIdOf(u), m)])
        BY TaskKinds DEF ReportMatches, MeterMessage, Message
    <3>2. /\ Matched(queue', aborted', replay)
          /\ Waiting(ReportTask(u, m))'
          /\ \A other : Waiting(other) => Waiting(other)'
          /\ \A other : Waiting(other)' => Waiting(other) \/ other = ReportTask(u, m)
        BY <1>0, <2>2, <3>1, FirstRequest DEF Safe
    <3>3. RecordsKept'
        BY <1>0, <1>3, <2>2 DEF Safe, RecordsKept
    <3>4. \A t \in Transactions : Extended(outbox[t], outbox'[t])
        BY <1>0, <2>2, StopAndBindExtend DEF TypeOK, PointTypeOK
    <3>5. Accounted(u, m)'
        BY <3>2 DEF Accounted
    <3> QED
        BY <3>2, <3>3, <3>4, <3>5, TaskKinds
  <2> QED
    BY <1>1, <2>1, <2>2 DEF BeginReport
<1>6. RequestsMatched'
    BY <1>2, <1>5 DEF RequestsMatched
<1>7. ReportsKnown'
    BY <1>0, <1>2, <1>3, <1>5, ReportsStayKnown DEF Safe
<1>8. CopyIsOlder'
    BY <1>0, <1>2, <1>5, ExtendedGrown, CopyStaysOlder DEF Safe
<1>9. ReplayedMeansReceived' /\ ReadingsAccounted'
  <2>1. \A t \in Transactions : \A n \in 1..tx[t].samples :
             Waiting(ReportTask(t, n)) => Accounted(t, n)'
    BY <1>5 DEF Accounted
  <2>2. \A t \in Transactions : \A n \in 1..tx'[t].samples :
             n \in 1..tx[t].samples \/ Accounted(t, n)'
    <3>1. SUFFICES ASSUME NEW t \in Transactions, NEW n \in 1..tx'[t].samples,
                          n \notin 1..tx[t].samples
                   PROVE  Accounted(t, n)'
        OBVIOUS
    <3>2. tx[u].samples \in Nat
        BY <1>0 DEF TxValues
    <3>3. t = u /\ n \in 1..m /\ n \notin 1..tx[u].samples
        BY <1>3, <3>1
    <3>4. n = m
        BY <1>1, <3>2, <3>3
    <3> QED
        BY <1>5, <3>3, <3>4
  <2> QED
    BY <1>0, <1>2, <1>4, <1>5, <2>1, <2>2, ExtensionSafe DEF Safe
<1> QED
    BY <1>5, <1>6, <1>7, <1>8, <1>9 DEF Safe

\* A replay begins from records as the outbox holds them.
LEMMA ReplayBegunSafe ==
    ASSUME IInv, replay.pc = "idle", ReplayBegun,
           UNCHANGED <<tx, outbox, lost, log>>
    PROVE  Safe'
<1> DEFINE snap == [t \in Transactions |-> IF t \in Pending THEN outbox[t] ELSE NoRecord]
           r == [ReplayIdle EXCEPT !.todo = Pending, !.snap = snap]
<1>0. TypeOK /\ Safe /\ PointTypeOK /\ queue \in Seq(Entries)
      /\ outbox \in [Transactions -> Records]
    BY DEF IInv, TypeOK, PointTypeOK, Entries
<1>1. NoRecord \in Records
    BY DEF NoRecord, Records, StopStates
<1>2. snap \in [Transactions -> Records]
    BY <1>0, <1>1
<1>3. r \in Replays /\ r.snap = snap
  <2>1. Pending \in SUBSET Transactions
    BY DEF Pending
  <2> QED
    BY <1>2, <2>1, IdleType DEF Replays
<1>4. WithoutReplay(queue, aborted)
    BY <1>0 DEF Safe, RequestsMatched, Matched, WithoutReplay
<1>5. ReplayNext(r, bound, queue, aborted)
    BY DEF ReplayBegun
<1>6. /\ Matched(queue', aborted', replay')
      /\ replay'.snap = snap \/ replay' = ReplayIdle
      /\ \/ Finish(queue, aborted)
         \/ \E message : Request(ReplayTask, message, queue, aborted)
  <2> HIDE DEF r, snap
  <2> QED
    BY <1>0, <1>3, <1>4, <1>5, NextMatched
<1>7. \A t \in Transactions, n \in Nat :
        Waiting(ReportTask(t, n)) <=> Waiting(ReportTask(t, n))'
  <2>1. SUFFICES ASSUME NEW t \in Transactions, NEW n \in Nat
                 PROVE  Waiting(ReportTask(t, n)) <=> Waiting(ReportTask(t, n))'
    OBVIOUS
  <2>2. ReportTask(t, n) # ReplayTask
    BY TaskKinds
  <2>3. Waiting(ReportTask(t, n)) <=> WaitsIn(ReportTask(t, n), queue, aborted)
    BY DEF Waiting, WaitsIn
  <2>4. WaitsIn(ReportTask(t, n), queue, aborted) <=> Waiting(ReportTask(t, n))'
    BY <1>0, <1>6, <2>2, RequestWaits, FinishWaits
  <2> QED
    BY <2>3, <2>4
<1>8. RequestsMatched'
    BY <1>6 DEF RequestsMatched
<1>9. RecordsKept'
    BY <1>0 DEF Safe, RecordsKept
<1>10. ReportsKnown'
    BY <1>0, <1>7, ReportsStayKnown DEF Safe
<1>11. \A t \in Transactions : Extended(outbox[t], outbox'[t])
    BY <1>0, StopAndBindExtend
<1>12. CopyIsOlder'
  <2>1. CASE replay' = ReplayIdle
    BY <2>1, IdleCopy DEF CopyIsOlder
  <2>2. CASE replay'.snap = snap
    <3>1. \A t \in Transactions : snap[t] = outbox[t] \/ snap[t] = NoRecord
        OBVIOUS
    <3>2. \A t \in Transactions : Grown(NoRecord, outbox[t])
        BY DEF NoRecord, Grown
    <3>3. \A t \in Transactions : Grown(outbox[t], outbox[t])
        BY DEF Grown
    <3> HIDE DEF snap
    <3> QED
        BY <2>2, <3>1, <3>2, <3>3 DEF CopyIsOlder
  <2> QED
    BY <1>6, <2>1, <2>2
<1>13. LogGrows
    BY DEF LogGrows
<1>14. ReplayedMeansReceived' /\ ReadingsAccounted'
  <2>1. \A t \in Transactions : \A n \in 1..tx[t].samples :
             Waiting(ReportTask(t, n)) => Accounted(t, n)'
    BY <1>0, <1>7 DEF TypeOK, PointTypeOK, TxValues, Accounted
  <2> QED
    BY <1>0, <1>11, <1>13, <2>1, ExtensionSafe DEF Safe
<1> QED
    BY <1>8, <1>9, <1>10, <1>12, <1>14 DEF Safe

-----------------------------------------------------------------------------
(* The inductive invariant and its theorems. *)

\* The invariant holds before there is a transaction.
LEMMA InitSafe ==
    ASSUME Init
    PROVE  Safe
<1>1. NoRecord.meterValues = <<>> /\ NoRecord.kept = FALSE /\ NoRecord.stop = "none"
    BY DEF NoRecord
<1>2. \A t \in Transactions : outbox[t] = NoRecord /\ tx[t] = NoTransaction
    BY DEF Init
<1>3. NoTransaction.state = "absent" /\ NoTransaction.samples = 0
    BY DEF NoTransaction
<1>4. queue = <<>> /\ aborted = {} /\ replay = ReplayIdle
    BY DEF Init
<1>5. \A task : ~Waiting(task) /\ ~WaitsIn(task, queue, aborted)
    BY <1>4 DEF Waiting, WaitsIn
<1>6. RequestsMatched
    BY <1>4, <1>5, IdleCopy DEF RequestsMatched, Matched
<1>7. RecordsKept
    BY <1>1, <1>2, <1>3 DEF RecordsKept
<1>8. ReportsKnown
    BY <1>5 DEF ReportsKnown
<1>9. CopyIsOlder
    BY <1>4, IdleCopy DEF CopyIsOlder
<1>10. ReplayedMeansReceived
    BY <1>1, <1>2 DEF ReplayedMeansReceived
<1>11. ReadingsAccounted
    BY <1>2, <1>3 DEF ReadingsAccounted
<1> QED
    BY <1>6, <1>7, <1>8, <1>9, <1>10, <1>11 DEF Safe

\* Every step keeps the inductive invariant.
LEMMA SafeStep ==
    ASSUME IInv, [Next]_vars
    PROVE  IInv'
<1>1. TypeOK' /\ PointTypeOK'
    BY TypeStep DEF IInv, TypeOK
<1>2. SUFFICES Safe'
    BY <1>1 DEF IInv
<1>3. CASE UNCHANGED vars
    BY <1>3, IdleStepSafe DEF vars, pointVars, envVars
<1>4. CASE \E s \in Starts, c \in Connectors :
              BeginOfflineStart(s, c) \/ BeginOnlineStart(s, c)
    BY <1>4, BeginOfflineStartSafe, BeginOnlineStartSafe
<1>5. CASE \E t \in Transactions : BeginOnlineStop(t) \/ BeginOfflineStop(t)
    BY <1>5, BeginStopSafe
<1>6. CASE \E t \in Transactions : BeginReport(t)
    BY <1>6, BeginReportSafe
<1>7. CASE \/ \E t \in Transactions : StopThrows(t) \/ LoopExpires(t)
           \/ RestartMeterLoops
    BY <1>7, IdleStepSafe DEF StopThrows, LoopExpires, RestartMeterLoops, envVars
<1>8. CASE Connect \/ BootRefused
    BY <1>8, IdleStepSafe DEF Connect, BootRefused, pointVars
<1>9. CASE Reply
    BY <1>1, <1>9, ReplySafe
<1>10. CASE RequestFails \/ Disconnect \/ Resume
    BY <1>1, <1>10, SessionStepSafe
<1>11. CASE BootAccepted \/ HeartbeatAnswered
  <2>1. CASE ReplayBegun /\ replay.pc = "idle"
    BY <1>11, <2>1, ReplayBegunSafe DEF BootAccepted, HeartbeatAnswered, envVars
  <2>2. CASE UNCHANGED <<replay, bound, sessionVars>> /\ BootAccepted
    BY <2>2, IdleStepSafe DEF BootAccepted
  <2> QED
    BY <1>11, <2>1, <2>2 DEF BootAccepted, HeartbeatAnswered
<1> QED
    BY <1>3, <1>4, <1>5, <1>6, <1>7, <1>8, <1>9, <1>10, <1>11 DEF Next

\* The inductive invariant holds in every reachable state.
THEOREM Invariance == Spec => []IInv
<1>1. Init => IInv
    BY InitType, InitSafe DEF IInv
<1>2. IInv /\ [Next]_vars => IInv'
    BY SafeStep
<1> QED
    BY <1>1, <1>2, PTL DEF Spec

\* What the outbox holds as replayed, the CSMS has received.
THEOREM OutboxTellsTheTruth == Spec => []ReplayedMeansReceived
<1>1. IInv => ReplayedMeansReceived
    BY DEF IInv, Safe
<1> QED
    BY <1>1, Invariance, PTL

\* No reading disappears: received, owed by the outbox, under way, or failed.
THEOREM NoReadingDisappears == Spec => []ReadingsAccounted
<1>1. IInv => ReadingsAccounted
    BY DEF IInv, Safe
<1> QED
    BY <1>1, Invariance, PTL

\* The replay is one coroutine with one request.
THEOREM OneReplay == Spec => []ReplayIsOne
<1>1. IInv => ReplayIsOne
  <2>1. SUFFICES ASSUME IInv PROVE ReplayIsOne
    OBVIOUS
  <2>2. Matched(queue, aborted, replay)
    BY <2>1 DEF IInv, Safe, RequestsMatched
  <2>3. replay.pc # "idle" <=> Waiting(ReplayTask)
    BY <2>2 DEF Matched, Waiting, WaitsIn
  <2>4. (replay.pc # "idle") = Waiting(ReplayTask)
    BY <2>3 DEF Waiting
  <2> QED
    BY <2>2, <2>4 DEF Matched, ReplayIsOne
<1> QED
    BY <1>1, Invariance, PTL

-----------------------------------------------------------------------------
(* Starts, stops and EVSEs.  Owed is inductive given IInv: it says of each     *)
(* start what it asks and which id it was given, of each transaction who owes *)
(* its stop, and of the replay that it starts only what is not known.         *)

EntriesOf(q) == {q[i] : i \in DOMAIN q}

\* A start that has not begun waits for nothing, and one that is sending waits
\* for StartTransaction; the ids in use are ids the CSMS gave.
StartsMatched ==
    /\ \A s \in Starts :
         /\ start[s].pc = "idle" => ~Waiting(StartTask(s))
         /\ start[s].pc = "sending" =>
              \A e \in EntriesOf(queue) :
                  e.task = StartTask(s) => e.msg.type = "StartTransaction"
    /\ \A id \in OcppIds :
         tx[id].state # "absent" => \E i \in DOMAIN log : log[i].id = id

\* StopsAccounted, with what holds before a transaction ends.
StopsOwned ==
    /\ \A t \in Transactions :
         /\ ~outbox[t].kept => outbox[t].stop = "none"
         /\ tx[t].state # "ended" => outbox[t].stop = "none" /\ stop[t] = "none"
    /\ StopsAccounted

\* The replay at r takes records that are kept in ob, and starts those that are
\* not started there; what it will take is as it was copied.
TakesKept(r, ob) ==
    /\ r.pc # "idle" => r.tx \notin r.todo /\ ob[r.tx].kept
    /\ r.pc = "start" => ~ob[r.tx].startReplayed
    /\ \A u \in r.todo : ob[u].kept /\ r.snap[u].startReplayed = ob[u].startReplayed

\* e is a StartTransaction of a transaction the point already has.
OwnStart(e) == e.msg.type = "StartTransaction" /\ e.msg.tx \in Transactions

\* Only the replay sends such a start, and of the record it is at.
OwnStarts ==
    \A e \in EntriesOf(queue) :
        OwnStart(e) => e.task = ReplayTask /\ replay.pc = "start" /\ replay.tx = e.msg.tx

ReplaySound == TakesKept(replay, outbox) /\ OwnStarts

Owed == StartsMatched /\ StopsOwned /\ EvseNamesActive /\ ReplaySound

\* What the steps of others leave of a record.
SameRecord(r, s) ==
    /\ (s.stop = "none") = (r.stop = "none")
    /\ r.kept => s.kept /\ s.startReplayed = r.startReplayed

\* The queue gained at most the request e.
Gained(e) == EntriesOf(queue') \subseteq EntriesOf(queue) \cup {e}

\* The CSMS's answer to a start gives an id that names no transaction yet.
Assigned(id) ==
    /\ id \in OcppIds /\ tx[id].state = "absent"
    /\ \E i \in DOMAIN log' : log'[i].id = id

\* What is left of a queue was in it.
LEMMA TakenEntries ==
    ASSUME queue \in Seq(Entries), NEW task, NEW q, NEW a, Taken(task, q, a)
    PROVE  EntriesOf(q) \subseteq EntriesOf(queue) /\ Waiting(task)
<1>1. CASE queue # <<>> /\ task = Head(queue).task /\ q = Tail(queue)
    BY <1>1, TailPositions DEF EntriesOf, Waiting
<1>2. CASE task \in aborted /\ q = queue
    BY <1>2 DEF Waiting
<1> QED
    BY <1>1, <1>2 DEF Taken

\* A request is the one entry that is new.
LEMMA RequestEntries ==
    ASSUME NEW task, NEW message, NEW q \in Seq(Entries), NEW a,
           Request(task, message, q, a)
    PROVE  EntriesOf(queue') \subseteq EntriesOf(q) \cup {[task |-> task, msg |-> message]}
<1> DEFINE entry == [task |-> task, msg |-> message]
<1>1. CASE queue' = q
    BY <1>1 DEF EntriesOf
<1>2. CASE queue' = Append(q, entry)
  <2>1. DOMAIN queue' = DOMAIN q \cup {Len(q) + 1} /\ queue'[Len(q) + 1] = entry
        /\ \A i \in DOMAIN q : queue'[i] = q[i]
    BY <1>2
  <2>2. ASSUME NEW i \in DOMAIN queue'
        PROVE  queue'[i] \in EntriesOf(q) \cup {entry}
    <3> HIDE DEF entry
    <3> QED
        BY <2>1 DEF EntriesOf
  <2> QED
    BY <2>2 DEF EntriesOf
<1> QED
    BY <1>1, <1>2 DEF Request

\* A start is told from the other coroutines, and by its number.
LEMMA StartTaskKinds ==
    /\ \A s, u : StartTask(s) = StartTask(u) => s = u
    /\ \A s, t : StartTask(s) # StopTask(t)
    /\ \A s, t, n : StartTask(s) # ReportTask(t, n)
    /\ \A s : StartTask(s) # ReplayTask
    BY DEF StartTask, StopTask, ReportTask, ReplayTask

\* Which messages are starts.
LEMMA StartMessages ==
    /\ StatusMessage.type # "StartTransaction"
    /\ \A t, id : StopMessage(t, id).type # "StartTransaction"
    /\ \A t, id, n : MeterMessage(t, id, n).type # "StartTransaction"
    /\ \A t : StartMessage(t).type = "StartTransaction" /\ StartMessage(t).tx = t
    BY DEF StatusMessage, StopMessage, MeterMessage, StartMessage, Message

\* Steps of others leave what starts ask and were given.
LEMMA StartsStay ==
    ASSUME StartsMatched, start' = start, LogGrows, NEW e, Gained(e),
           \A s \in Starts : e.task # StartTask(s),
           \A s \in Starts : Waiting(StartTask(s))' => Waiting(StartTask(s)),
           \A id \in OcppIds : tx'[id].state # "absent" => tx[id].state # "absent"
    PROVE  StartsMatched'
<1>1. ASSUME NEW s \in Starts, start[s].pc = "sending", NEW f \in EntriesOf(queue'),
             f.task = StartTask(s)
      PROVE  f.msg.type = "StartTransaction"
    BY <1>1 DEF StartsMatched, Gained
<1>2. \A s \in Starts : start[s].pc = "idle" => ~Waiting(StartTask(s))'
    BY DEF StartsMatched
<1>3. \A id \in OcppIds : tx'[id].state # "absent" => \E i \in DOMAIN log' : log'[i].id = id
    BY DEF StartsMatched, LogGrows
<1> QED
    BY <1>1, <1>2, <1>3 DEF StartsMatched

\* Steps of others leave the replay's claims.
LEMMA ReplayStays ==
    ASSUME PointTypeOK, ReplaySound, replay' = replay, NEW e, Gained(e), ~OwnStart(e),
           \A t \in Transactions :
               outbox[t].kept => /\ outbox'[t].kept
                                 /\ outbox'[t].startReplayed = outbox[t].startReplayed
    PROVE  ReplaySound'
<1>1. replay.todo \subseteq Transactions /\ (replay.pc # "idle" => replay.tx \in Transactions)
    BY DEF PointTypeOK, Replays
<1>2. replay.pc = "start" => replay.pc # "idle"
    OBVIOUS
<1>3. TakesKept(replay, outbox')
    BY <1>1, <1>2 DEF ReplaySound, TakesKept
<1>4. OwnStarts'
    BY DEF ReplaySound, OwnStarts, Gained
<1> QED
    BY <1>3, <1>4 DEF ReplaySound

\* Steps that begin and end no transaction.
LEMMA StopsStay ==
    ASSUME StopsOwned, EvseNamesActive,
           \A c \in Connectors : evseTx'[c] \in {evseTx[c], None},
           \A t \in Transactions :
               /\ tx'[t].state = tx[t].state /\ tx'[t].connector = tx[t].connector
               /\ (stop'[t] = "none") = (stop[t] = "none")
               /\ (outbox'[t].stop = "none") = (outbox[t].stop = "none")
               /\ outbox[t].kept => outbox'[t].kept
    PROVE  StopsOwned' /\ EvseNamesActive'
<1>1. StopsOwned'
    BY DEF StopsOwned, StopsAccounted
<1>2. EvseNamesActive'
    BY IdsAssumption DEF EvseNamesActive, Active
<1> QED
    BY <1>1, <1>2

\* A transaction begins under an id that no transaction has.
LEMMA StopsBegin ==
    ASSUME PointTypeOK, StopsOwned, EvseNamesActive, NEW t \in Transactions,
           tx[t].state = "absent", NEW c, NEW at, CreateActive(t, c, at), stop' = stop,
           \A u \in Transactions :
               /\ (outbox'[u].stop = "none") = (outbox[u].stop = "none")
               /\ outbox[u].kept => outbox'[u].kept
    PROVE  StopsOwned' /\ EvseNamesActive'
<1> DEFINE value == [state |-> "active", connector |-> c, at |-> at, samples |-> 0]
<1>1. tx' = [tx EXCEPT ![t] = value] /\ tx \in [Transactions -> TxValues]
    BY DEF CreateActive, PointTypeOK
<1>2. tx'[t].state = "active" /\ tx'[t].connector = c
      /\ \A u \in Transactions : u # t => tx'[u] = tx[u]
    BY <1>1
<1>3. StopsOwned'
    BY <1>2 DEF StopsOwned, StopsAccounted
<1>4. evseTx' = [evseTx EXCEPT ![c] = t] /\ evseTx \in [Connectors -> Transactions \cup {None}]
    BY DEF CreateActive, PointTypeOK
<1>5. EvseNamesActive'
    BY <1>2, <1>4 DEF EvseNamesActive, Active
<1> QED
    BY <1>3, <1>5

\* A transaction ends, and its stop becomes the outbox's or its coroutine's.
LEMMA StopsEnd ==
    ASSUME PointTypeOK, StopsOwned, EvseNamesActive, NEW t \in Transactions, Active(t), End(t),
           (outbox'[t].stop = "none") # (stop'[t] = "none"),
           ~outbox'[t].kept => outbox'[t].stop = "none",
           \A u \in Transactions : u # t => outbox'[u] = outbox[u] /\ stop'[u] = stop[u]
    PROVE  StopsOwned' /\ EvseNamesActive'
<1>1. tx' = [tx EXCEPT ![t] = [tx[t] EXCEPT !.state = "ended"]] /\ tx \in [Transactions -> TxValues]
    BY DEF End, PointTypeOK
<1>2. tx'[t].state = "ended" /\ tx'[t].connector = tx[t].connector
      /\ \A u \in Transactions : u # t => tx'[u] = tx[u]
    BY <1>1 DEF TxValues
<1>3. StopsOwned'
    BY <1>2 DEF StopsOwned, StopsAccounted
<1>4. /\ evseTx' = [evseTx EXCEPT ![tx[t].connector] = None]
      /\ evseTx \in [Connectors -> Transactions \cup {None}]
    BY DEF End, PointTypeOK
<1>5. \A c \in Connectors : evseTx'[c] = IF c = tx[t].connector THEN None ELSE evseTx[c]
    BY <1>4
<1>6. EvseNamesActive'
    BY <1>2, <1>5, IdsAssumption DEF EvseNamesActive, Active
<1> QED
    BY <1>3, <1>6

\* A reading is added to a record that is kept, or to one made for it.
LEMMA RecordReadingStays ==
    ASSUME PointTypeOK, StopsOwned, NEW t \in Transactions, NEW n, RecordReading(t, n)
    PROVE  \A u \in Transactions : SameRecord(outbox[u], outbox'[u])
<1> DEFINE record == IF outbox[t].kept \/ ~IsBound(t) THEN outbox[t]
                     ELSE RecordBoundStarted(OcppIdOf(t))
<1>1. outbox \in [Transactions -> Records] /\ outbox[t] \in Records
    BY DEF PointTypeOK
<1>2. outbox' = [outbox EXCEPT ![t] = RecordMeterValue(record, n)]
    BY DEF RecordReading
<1>3. SameRecord(outbox[t], record)
  <2>1. RecordBoundStarted(OcppIdOf(t)).stop = "none" /\ NoRecord.stop = "none"
    BY DEF RecordBoundStarted, NoRecord
  <2>2. ~outbox[t].kept => outbox[t].stop = "none"
    BY DEF StopsOwned
  <2> QED
    BY <2>1, <2>2 DEF SameRecord
<1>4. record = outbox[t] \/ record = RecordBoundStarted(OcppIdOf(t))
    OBVIOUS
<1>5. SameRecord(record, RecordMeterValue(record, n))
  <2>1. CASE record = outbox[t]
    BY <1>1, <2>1 DEF RecordMeterValue, SameRecord, Records
  <2>2. CASE record = RecordBoundStarted(OcppIdOf(t))
    BY <2>2 DEF RecordMeterValue, SameRecord, RecordBoundStarted, NoRecord
  <2> QED
    BY <1>4, <2>1, <2>2
<1>6. SameRecord(outbox[t], outbox'[t])
  <2>1. outbox'[t] = RecordMeterValue(record, n)
    BY <1>1, <1>2
  <2> HIDE DEF record
  <2> QED
    BY <1>3, <1>5, <2>1 DEF SameRecord
<1>7. \A u \in Transactions : u # t => outbox'[u] = outbox[u]
    BY <1>1, <1>2
<1> QED
    BY <1>6, <1>7 DEF SameRecord

-----------------------------------------------------------------------------
(* Each coroutine's stretch. *)

\* What the queue gains when a coroutine that was taken asks, or ends.
LEMMA TakenGains ==
    ASSUME PointTypeOK, NEW task, NEW q \in Seq(Entries), NEW a, Taken(task, q, a),
           NEW message, Request(task, message, q, a) \/ Finish(q, a)
    PROVE  /\ Gained([task |-> task, msg |-> message])
           /\ \A other : Waiting(other)' => Waiting(other)
           /\ EntriesOf(queue') \subseteq EntriesOf(q) \cup {[task |-> task, msg |-> message]}
<1>1. queue \in Seq(Entries)
    BY DEF PointTypeOK, Entries
<1>2. EntriesOf(q) \subseteq EntriesOf(queue) /\ Waiting(task)
    BY <1>1, TakenEntries
<1>3. EntriesOf(queue') \subseteq EntriesOf(q) \cup {[task |-> task, msg |-> message]}
  <2>1. CASE Finish(q, a)
    BY <2>1 DEF Finish, EntriesOf
  <2> QED
    BY <2>1, RequestEntries
<1>4. ASSUME NEW other, Waiting(other)' PROVE Waiting(other)
  <2>1. other = task \/ WaitsIn(other, q, a)
    BY <1>4, RequestWaits, FinishWaits
  <2> QED
    BY <1>1, <1>2, <2>1, TakenOnly
<1> QED
    BY <1>2, <1>3, <1>4 DEF Gained

\* A start goes on.
LEMMA StartStepOwed ==
    ASSUME IInv, Owed, PointTypeOK', LogGrows, NEW s \in Starts, NEW answer \in Answers,
           NEW q \in Seq(Entries), NEW a, Taken(StartTask(s), q, a),
           \/ StartAccepted(s, answer, q, a)
           \/ StartRefused(s, answer, q, a)
           \/ StartNotified(s, q, a),
           start[s].pc = "sending" /\ answer.kind = "response" => Assigned(answer.id)
    PROVE  Owed'
<1> DEFINE entry == [task |-> StartTask(s), msg |-> StatusMessage]
<1>0. /\ PointTypeOK /\ StartsMatched /\ StopsOwned /\ EvseNamesActive /\ ReplaySound
      /\ start \in [Starts -> StartValues]
    BY DEF IInv, TypeOK, PointTypeOK, Owed
<1>1. Request(StartTask(s), StatusMessage, q, a) \/ Finish(q, a)
    BY DEF StartAccepted, StartRefused, StartNotified
<1>2. Gained(entry) /\ \A other : Waiting(other)' => Waiting(other)
    BY <1>0, <1>1, TakenGains
<1>3. ~OwnStart(entry)
    BY StartMessages DEF OwnStart
<1>4. outbox' = outbox /\ replay' = replay /\ stop' = stop
    BY DEF StartAccepted, StartRefused, StartNotified
<1>5. ReplaySound'
  <2> HIDE DEF entry
  <2> QED
    BY <1>0, <1>2, <1>3, <1>4, ReplayStays
<1>6. StopsOwned' /\ EvseNamesActive'
  <2>1. CASE StartAccepted(s, answer, q, a)
    <3>1. CreateActive(answer.id, start[s].connector, start[s].at)
          /\ answer.id \in Transactions /\ tx[answer.id].state = "absent"
        BY <2>1 DEF StartAccepted, Assigned, Transactions
    <3> QED
        BY <1>0, <1>4, <3>1, StopsBegin
  <2>2. CASE StartRefused(s, answer, q, a) \/ StartNotified(s, q, a)
    <3>1. tx' = tx /\ \A c \in Connectors : evseTx'[c] \in {evseTx[c], None}
        BY <1>0, <2>2 DEF StartRefused, StartNotified, PointTypeOK
    <3> QED
        BY <1>0, <1>4, <3>1, StopsStay
  <2> QED
    BY <2>1, <2>2
<1>7. StartsMatched'
  <2>1. /\ start'[s].pc \in {"notifying", "done"}
        /\ \A u \in Starts : u # s => start'[u] = start[u]
    BY <1>0 DEF StartAccepted, StartRefused, StartNotified, StartValues
  <2>2. ASSUME NEW u \in Starts, start'[u].pc = "sending", NEW f \in EntriesOf(queue'),
               f.task = StartTask(u)
        PROVE  f.msg.type = "StartTransaction"
    <3>1. u # s /\ start[u].pc = "sending" /\ f # entry
        BY <2>1, <2>2, StartTaskKinds
    <3> HIDE DEF entry
    <3> QED
        BY <1>0, <1>2, <2>2, <3>1 DEF StartsMatched, Gained
  <2>3. \A u \in Starts : start'[u].pc = "idle" => ~Waiting(StartTask(u))'
    BY <1>0, <1>2, <2>1 DEF StartsMatched
  <2>4. ASSUME NEW id \in OcppIds, tx'[id].state # "absent"
        PROVE  \E i \in DOMAIN log' : log'[i].id = id
    <3>1. CASE tx[id].state # "absent"
        BY <1>0, <3>1 DEF StartsMatched, LogGrows
    <3>2. CASE tx[id].state = "absent"
      <4>1. StartAccepted(s, answer, q, a)
        BY <2>4, <3>2 DEF StartRefused, StartNotified
      <4>2. id = answer.id
        BY <1>0, <2>4, <3>2, <4>1 DEF StartAccepted, CreateActive, PointTypeOK, Transactions
      <4> QED
        BY <4>1, <4>2 DEF StartAccepted, Assigned
    <3> QED
        BY <3>1, <3>2
  <2> QED
    BY <2>2, <2>3, <2>4 DEF StartsMatched
<1> QED
    BY <1>5, <1>6, <1>7 DEF Owed

\* A coroutine of another kind that leaves the transactions and the replay alone
\* and asks for no start.
LEMMA OtherOwed ==
    ASSUME IInv, Owed, LogGrows, NEW e, Gained(e), ~OwnStart(e),
           \A s \in Starts : e.task # StartTask(s),
           \A s \in Starts : Waiting(StartTask(s))' => Waiting(StartTask(s)),
           start' = start, replay' = replay, evseTx' = evseTx,
           \A t \in Transactions :
               /\ tx'[t].state = tx[t].state /\ tx'[t].connector = tx[t].connector
               /\ (stop'[t] = "none") = (stop[t] = "none")
               /\ SameRecord(outbox[t], outbox'[t])
    PROVE  Owed'
<1>0. PointTypeOK /\ StartsMatched /\ StopsOwned /\ EvseNamesActive /\ ReplaySound
    BY DEF IInv, TypeOK, Owed
<1>1. StartsMatched'
    BY <1>0, StartsStay DEF Transactions
<1>2. StopsOwned' /\ EvseNamesActive'
    BY <1>0, StopsStay DEF SameRecord
<1>3. ReplaySound'
    BY <1>0, ReplayStays DEF SameRecord
<1> QED
    BY <1>1, <1>2, <1>3 DEF Owed

\* A stop goes on.
LEMMA StopStepOwed ==
    ASSUME IInv, Owed, LogGrows, NEW t \in Transactions, NEW q \in Seq(Entries), NEW a,
           Taken(StopTask(t), q, a), StopAnswered(t, q, a)
    PROVE  Owed'
<1>0. PointTypeOK /\ stop \in [Transactions -> {"none", "finishing", "stopping", "notifying", "done"}]
    BY DEF IInv, TypeOK, PointTypeOK
<1>1. PICK message : /\ message.type # "StartTransaction"
                     /\ Request(StopTask(t), message, q, a) \/ Finish(q, a)
    BY StartMessages DEF StopAnswered
<1> DEFINE entry == [task |-> StopTask(t), msg |-> message]
<1>2. Gained(entry) /\ \A other : Waiting(other)' => Waiting(other)
    BY <1>0, <1>1, TakenGains
<1>3. ~OwnStart(entry) /\ \A s \in Starts : entry.task # StartTask(s)
    BY <1>1, StartTaskKinds DEF OwnStart
<1>4. /\ start' = start /\ replay' = replay /\ evseTx' = evseTx /\ tx' = tx /\ outbox' = outbox
      /\ \A u \in Transactions : (stop'[u] = "none") = (stop[u] = "none")
    BY <1>0 DEF StopAnswered
<1>5. \A u \in Transactions : SameRecord(outbox[u], outbox'[u])
    BY <1>4 DEF SameRecord
<1> HIDE DEF entry
<1> QED
    BY <1>2, <1>3, <1>4, <1>5, OtherOwed

\* A report goes on, and may leave its reading in the outbox.
LEMMA ReportStepOwed ==
    ASSUME IInv, Owed, LogGrows, NEW t \in Transactions, NEW n \in Nat, NEW answer,
           NEW q \in Seq(Entries), NEW a,
           Taken(ReportTask(t, n), q, a), ReportAnswered(t, n, answer, q, a)
    PROVE  Owed'
<1>0. PointTypeOK /\ StopsOwned
    BY DEF IInv, TypeOK, Owed
<1> DEFINE entry == [task |-> ReportTask(t, n), msg |-> StatusMessage]
<1>1. Gained(entry) /\ \A other : Waiting(other)' => Waiting(other)
    BY <1>0, TakenGains DEF ReportAnswered
<1>2. ~OwnStart(entry) /\ \A s \in Starts : entry.task # StartTask(s)
    BY StartMessages, StartTaskKinds DEF OwnStart
<1>3. start' = start /\ replay' = replay /\ evseTx' = evseTx /\ tx' = tx /\ stop' = stop
    BY DEF ReportAnswered
<1>4. \A u \in Transactions : SameRecord(outbox[u], outbox'[u])
  <2>1. outbox' = outbox \/ RecordReading(t, n)
    BY DEF ReportAnswered
  <2> QED
    BY <1>0, <2>1, RecordReadingStays DEF SameRecord
<1> HIDE DEF entry
<1> QED
    BY <1>1, <1>2, <1>3, <1>4, OtherOwed

\* A queue that holds no StartTransaction of a transaction the point has.
Unstarted(q) == \A e \in EntriesOf(q) : ~OwnStart(e)

\* The replay asks, or ends; for a start only of the record it is at.
Asks(q, a) ==
    \E message :
        /\ Request(ReplayTask, message, q, a) \/ Finish(q, a)
        /\ message.type = "StartTransaction" =>
             replay'.pc = "start" /\ replay'.tx = message.tx

\* While the replay runs nothing else asks for such a start.
LEMMA RunningUnstarted ==
    ASSUME OwnStarts, NEW q, NEW a, WithoutReplay(q, a), EntriesOf(q) \subseteq EntriesOf(queue)
    PROVE  Unstarted(q)
<1>1. \A e \in EntriesOf(q) : e.task # ReplayTask
    BY DEF EntriesOf, WithoutReplay, WaitsIn
<1> QED
    BY <1>1 DEF Unstarted, OwnStarts

\* What the replay asks for is its own.
LEMMA AskedIsOwn ==
    ASSUME NEW q \in Seq(Entries), NEW a, Unstarted(q), Asks(q, a)
    PROVE  OwnStarts'
<1>1. PICK message :
        /\ Request(ReplayTask, message, q, a) \/ Finish(q, a)
        /\ message.type = "StartTransaction" =>
             replay'.pc = "start" /\ replay'.tx = message.tx
    BY DEF Asks
<1> DEFINE entry == [task |-> ReplayTask, msg |-> message]
<1>2. EntriesOf(queue') \subseteq EntriesOf(q) \cup {entry}
  <2>1. CASE Finish(q, a)
    BY <2>1 DEF Finish, EntriesOf
  <2> QED
    BY <1>1, <2>1, RequestEntries
<1>3. entry.task = ReplayTask /\ entry.msg = message
    OBVIOUS
<1> HIDE DEF entry
<1> QED
    BY <1>1, <1>2, <1>3 DEF OwnStarts, Unstarted, OwnStart

\* After the start of a record the replay asks for no other.
LEMMA ReadingsAsk ==
    ASSUME NEW r \in Replays, NEW q, NEW a, ReplayReadings(r, q, a)
    PROVE  /\ replay'.pc \in {"meter", "stop", "charging"}
           /\ replay'.tx = r.tx /\ replay'.todo = r.todo /\ replay'.snap = r.snap
           /\ Asks(q, a)
<1> DEFINE record == r.snap[r.tx]
           unsent == {i \in UnsentMeterValues(record) : i > r.index}
<1>1. CASE \E i \in unsent :
             /\ replay' = [r EXCEPT !.pc = "meter", !.index = i]
             /\ Request(ReplayTask, MeterMessage(r.tx, r.id, record.meterValues[i].sample), q, a)
  <2> HIDE DEF unsent
  <2>1. PICK i \in unsent :
             /\ replay' = [r EXCEPT !.pc = "meter", !.index = i]
             /\ Request(ReplayTask, MeterMessage(r.tx, r.id, record.meterValues[i].sample), q, a)
    BY <1>1
  <2> HIDE DEF record
  <2>2. Asks(q, a)
    BY <2>1, StartMessages DEF Asks
  <2> QED
    BY <2>1, <2>2 DEF Replays
<1>2. CASE /\ replay' = [r EXCEPT !.pc = "stop"]
           /\ Request(ReplayTask, StopMessage(r.tx, r.id), q, a)
  <2>1. Asks(q, a)
    BY <1>2, StartMessages DEF Asks
  <2> QED
    BY <1>2, <2>1 DEF Replays
<1>3. CASE /\ replay' = [r EXCEPT !.pc = "charging"]
           /\ Request(ReplayTask, StatusMessage, q, a)
  <2>1. Asks(q, a)
    BY <1>3, StartMessages DEF Asks
  <2> QED
    BY <1>3, <2>1 DEF Replays
<1> QED
    BY <1>1, <1>2, <1>3 DEF ReplayReadings

\* The next record is one of those copied, and started unless the copy, which
\* says what the outbox says, has it started.
LEMMA NextAsks ==
    ASSUME PointTypeOK, NEW r \in Replays, NEW ids, NEW q, NEW a, ReplayNext(r, ids, q, a),
           NEW ob,
           \A u \in r.todo : ob[u].kept /\ r.snap[u].startReplayed = ob[u].startReplayed
    PROVE  TakesKept(replay', ob) /\ Asks(q, a)
<1> DEFINE t == Earliest(r.todo)
           taken == [r EXCEPT !.todo = r.todo \ {t}, !.tx = t, !.index = 0,
                              !.id = r.snap[t].ocppId]
<1>1. CASE r.todo = {}
  <2>1. replay' = ReplayIdle /\ Finish(q, a)
    BY <1>1 DEF ReplayNext
  <2>2. Asks(q, a)
    BY <2>1, StartMessages DEF Asks
  <2> QED
    BY <2>1, <2>2 DEF TakesKept, ReplayIdle
<1>2. CASE r.todo # {}
  <2>1. t \in r.todo /\ t \in Transactions
    <3>1. r.todo \in SUBSET Transactions
        BY DEF Replays
    <3> QED
        BY <1>2, <3>1, EarliestExists
  <2>2. r.snap[t].ocppId \in OcppIds \cup {None}
    BY <2>1 DEF Replays, Records
  <2>3. taken \in Replays /\ taken.tx = t /\ taken.todo = r.todo \ {t} /\ taken.snap = r.snap
    BY <2>1, <2>2 DEF Replays
  <2>4. CASE ~r.snap[t].startReplayed
    <3>1. replay' = [taken EXCEPT !.pc = "start"]
          /\ Request(ReplayTask, StartMessage(t), q, a)
        BY <1>2, <2>4 DEF ReplayNext
    <3>2. replay'.pc = "start" /\ replay'.tx = t /\ replay'.todo = r.todo \ {t}
          /\ replay'.snap = r.snap
        BY <2>3, <3>1 DEF Replays
    <3>3. Asks(q, a)
        BY <3>1, <3>2, StartMessages DEF Asks
    <3> HIDE DEF taken, t
    <3> QED
        BY <2>1, <2>4, <3>2, <3>3 DEF TakesKept
  <2>5. CASE r.snap[t].startReplayed
    <3>1. ReplayReadings(taken, q, a)
        BY <1>2, <2>5 DEF ReplayNext
    <3> HIDE DEF taken, t
    <3>2. /\ replay'.pc \in {"meter", "stop", "charging"}
          /\ replay'.tx = t /\ replay'.todo = r.todo \ {t} /\ replay'.snap = r.snap
          /\ Asks(q, a)
        BY <2>3, <3>1, ReadingsAsk
    <3> QED
        BY <2>1, <3>2 DEF TakesKept
  <2> QED
    BY <2>4, <2>5
<1> QED
    BY <1>1, <1>2

\* What the replay writes into the record it is at.
LEMMA ReplayWrites ==
    ASSUME NEW record \in Records, NEW id \in OcppIds \cup {None}, NEW i
    PROVE  /\ MarkMeterValueReplayed(record, i).kept = record.kept
           /\ MarkMeterValueReplayed(record, i).stop = record.stop
           /\ MarkStopReplayed(record).kept = record.kept
           /\ (MarkStopReplayed(record).stop = "none") = (record.stop = "none")
           /\ BindStart(record, id).kept = record.kept
           /\ BindStart(record, id).stop = record.stop
           /\ RecordStopped(BindStart(record, id)).kept = record.kept
           /\ record.kept => RecordStopped(BindStart(record, id)).stop = "pending"
<1>1. /\ MarkMeterValueReplayed(record, i).kept = record.kept
      /\ MarkMeterValueReplayed(record, i).stop = record.stop
    BY DEF MarkMeterValueReplayed, Records
<1>2. /\ MarkStopReplayed(record).kept = record.kept
      /\ (MarkStopReplayed(record).stop = "none") = (record.stop = "none")
    BY DEF MarkStopReplayed, Records
<1>3. /\ BindStart(record, id).kept = record.kept
      /\ BindStart(record, id).stop = record.stop
      /\ BindStart(record, id) \in Records
    BY DEF BindStart, Records
<1>4. \A s \in Records : /\ RecordStopped(s).kept = s.kept
                         /\ s.kept => RecordStopped(s).stop = "pending"
    BY DEF RecordStopped, Records
<1> QED
    BY <1>1, <1>2, <1>3, <1>4

\* The replay goes on.
LEMMA ReplayStepOwed ==
    ASSUME IInv, Owed, PointTypeOK', LogGrows, NEW answer \in Answers,
           NEW q \in Seq(Entries), NEW a, Taken(ReplayTask, q, a), ReplayAnswered(answer, q, a)
    PROVE  Owed'
<1> DEFINE t == replay.tx
<1>0. /\ TypeOK /\ PointTypeOK /\ queue \in Seq(Entries) /\ RequestsMatched
      /\ StartsMatched /\ StopsOwned /\ EvseNamesActive /\ OwnStarts /\ TakesKept(replay, outbox)
      /\ outbox \in [Transactions -> Records] /\ replay \in Replays
    BY DEF IInv, Safe, TypeOK, PointTypeOK, Owed, ReplaySound, Entries
<1>1. WithoutReplay(q, a) /\ replay.pc # "idle"
    BY <1>0, TakenMatched
<1>2. t \in Transactions /\ t \notin replay.todo /\ outbox[t].kept /\ outbox[t] \in Records
      /\ replay.todo \subseteq Transactions
    BY <1>0, <1>1 DEF PointTypeOK, TakesKept, Replays
<1>3. start' = start /\ stop' = stop
    BY DEF ReplayAnswered
<1> DEFINE Kept == outbox'[t].kept /\ \A u \in Transactions : u # t => outbox'[u] = outbox[u]
           Same == tx' = tx /\ evseTx' = evseTx /\ (outbox'[t].stop = "none") = (outbox[t].stop = "none")
           Ends == /\ Active(t) /\ End(t) /\ outbox'[t].stop = "pending"
           Sound == TakesKept(replay', outbox') /\ Asks(q, a)
           GoesOn == /\ replay'.pc \notin {"idle", "start"} /\ replay'.tx = t
                     /\ replay'.todo = replay.todo /\ replay'.snap = replay.snap /\ Asks(q, a)
<1>4. Kept /\ GoesOn => Sound
    BY <1>0, <1>2 DEF TakesKept
<1>5. Kept /\ Sound /\ (Same \/ Ends)
  <2>1. CASE ReplayAbandoned(answer, q, a)
    <3>1. replay' = ReplayIdle /\ Finish(q, a) /\ outbox' = outbox /\ tx' = tx /\ evseTx' = evseTx
        BY <2>1 DEF ReplayAbandoned
    <3>2. Asks(q, a)
        BY <3>1, StartMessages DEF Asks
    <3>3. TakesKept(replay', outbox')
        BY <3>1 DEF TakesKept, ReplayIdle
    <3> QED
        BY <1>2, <3>1, <3>2, <3>3
  <2>2. CASE ReplayStartAnswered(answer, q, a)
    <3> DEFINE record == BindStart(outbox[t], answer.id)
               r == [replay EXCEPT !.id = answer.id]
    <3>1. answer.id \in OcppIds \cup {None}
        BY DEF Answers
    <3>2. /\ record.kept /\ record.stop = outbox[t].stop
          /\ RecordStopped(record).kept /\ RecordStopped(record).stop = "pending"
        BY <1>2, <3>1, ReplayWrites
    <3>3. r \in Replays /\ r.tx = t /\ r.todo = replay.todo /\ r.snap = replay.snap
        BY <1>0, <3>1 DEF Replays
    <3>4. GoesOn
      <4>1. CASE ReplayReadings(r, q, a)
        <5> HIDE DEF r
        <5> QED
            BY <3>3, <4>1, ReadingsAsk
      <4>2. CASE /\ replay' = [r EXCEPT !.pc = "stop"]
                 /\ Request(ReplayTask, StopMessage(t, answer.id), q, a)
        <5>1. Asks(q, a)
            BY <4>2, StartMessages DEF Asks
        <5> HIDE DEF r
        <5> QED
            BY <3>3, <4>2, <5>1 DEF Replays
      <4>3. CASE /\ replay' = [r EXCEPT !.pc = "charging"]
                 /\ Request(ReplayTask, StatusMessage, q, a)
        <5>1. Asks(q, a)
            BY <4>3, StartMessages DEF Asks
        <5> HIDE DEF r
        <5> QED
            BY <3>3, <4>3, <5>1 DEF Replays
      <4> QED
        BY <2>2, <4>1, <4>2, <4>3 DEF ReplayStartAnswered
    <3>5. Kept /\ (Same \/ Ends)
      <4>1. CASE outbox' = [outbox EXCEPT ![t] = record] /\ tx' = tx /\ evseTx' = evseTx
        BY <1>0, <1>2, <3>2, <4>1
      <4>2. CASE outbox' = [outbox EXCEPT ![t] = RecordStopped(record)] /\ Active(t) /\ End(t)
        BY <1>0, <1>2, <3>2, <4>2
      <4> QED
        BY <2>2, <4>1, <4>2 DEF ReplayStartAnswered
    <3> QED
        BY <1>4, <3>4, <3>5
  <2>3. CASE ReplayReadingAnswered(answer, q, a)
    <3>1. /\ outbox' = [outbox EXCEPT ![t] = MarkMeterValueReplayed(outbox[t], replay.index)]
          /\ ReplayReadings(replay, q, a) /\ tx' = tx /\ evseTx' = evseTx
        BY <2>3 DEF ReplayReadingAnswered
    <3>2. GoesOn
        BY <1>0, <3>1, ReadingsAsk
    <3>3. Kept /\ Same
      <4>1. /\ MarkMeterValueReplayed(outbox[t], replay.index).kept
            /\ MarkMeterValueReplayed(outbox[t], replay.index).stop = outbox[t].stop
        BY <1>2, None \in OcppIds \cup {None}, ReplayWrites
      <4> QED
        BY <1>0, <1>2, <3>1, <4>1
    <3> QED
        BY <1>4, <3>2, <3>3
  <2>4. CASE ReplayStopAnswered(answer, q, a)
    <3>1. /\ outbox' = [outbox EXCEPT ![t] = MarkStopReplayed(outbox[t])]
          /\ replay' = [replay EXCEPT !.pc = "stopped"]
          /\ Request(ReplayTask, StatusMessage, q, a) /\ tx' = tx /\ evseTx' = evseTx
        BY <2>4 DEF ReplayStopAnswered
    <3>2. GoesOn
      <4>1. Asks(q, a)
        BY <3>1, StartMessages DEF Asks
      <4> QED
        BY <1>0, <3>1, <4>1 DEF Replays
    <3>3. Kept /\ Same
        BY <1>0, <1>2, <3>1, ReplayWrites
    <3> QED
        BY <1>4, <3>2, <3>3
  <2>5. CASE ReplayNotified(q, a)
    <3>1. ReplayNext(replay, bound, q, a) /\ outbox' = outbox /\ tx' = tx /\ evseTx' = evseTx
        BY <2>5 DEF ReplayNotified
    <3>2. \A u \in replay.todo :
             outbox'[u].kept /\ replay.snap[u].startReplayed = outbox'[u].startReplayed
        BY <1>0, <3>1 DEF TakesKept
    <3>3. Sound
        BY <1>0, <3>1, <3>2, NextAsks
    <3> QED
        BY <1>2, <3>1, <3>3
  <2> QED
    BY <2>1, <2>2, <2>3, <2>4, <2>5 DEF ReplayAnswered
<1>6. ReplaySound'
  <2>1. EntriesOf(q) \subseteq EntriesOf(queue)
    BY <1>0, TakenEntries
  <2>2. OwnStarts'
    BY <1>0, <1>1, <1>5, <2>1, RunningUnstarted, AskedIsOwn
  <2> QED
    BY <1>5, <2>2 DEF ReplaySound
<1>7. StartsMatched'
  <2>1. PICK message : Request(ReplayTask, message, q, a) \/ Finish(q, a)
    BY <1>5 DEF Asks
  <2> DEFINE entry == [task |-> ReplayTask, msg |-> message]
  <2>2. Gained(entry) /\ \A other : Waiting(other)' => Waiting(other)
    BY <1>0, <2>1, TakenGains
  <2>3. \A s \in Starts : entry.task # StartTask(s)
    BY StartTaskKinds
  <2>4. \A u \in Transactions : tx'[u].state # "absent" => tx[u].state # "absent"
    BY <1>0, <1>2, <1>5 DEF End, Active, PointTypeOK
  <2> HIDE DEF entry
  <2> QED
    BY <1>0, <1>3, <2>2, <2>3, <2>4, StartsStay DEF Transactions
<1>8. StopsOwned' /\ EvseNamesActive'
  <2>1. CASE Same
    <3>1. \A u \in Transactions : /\ (outbox'[u].stop = "none") = (outbox[u].stop = "none")
                                  /\ outbox[u].kept => outbox'[u].kept
        BY <1>5, <2>1
    <3> QED
        BY <1>0, <1>3, <2>1, <3>1, StopsStay
  <2>2. CASE Ends
    <3>1. stop'[t] = "none" /\ outbox'[t].stop # "none"
        BY <1>0, <1>2, <1>3, <2>2 DEF StopsOwned, Active
    <3>2. \A u \in Transactions : u # t => outbox'[u] = outbox[u] /\ stop'[u] = stop[u]
        BY <1>3, <1>5
    <3>3. (outbox'[t].stop = "none") # (stop'[t] = "none") /\ outbox'[t].kept
        BY <1>5, <3>1
    <3> HIDE DEF t
    <3> QED
        BY <1>0, <1>2, <2>2, <3>2, <3>3, StopsEnd DEF t
  <2> QED
    BY <1>5, <2>1, <2>2
<1> QED
    BY <1>6, <1>7, <1>8 DEF Owed

\* Any coroutine that goes on.
LEMMA SettledOwed ==
    ASSUME IInv, Owed, PointTypeOK', LogGrows, NEW task \in Tasks, NEW answer \in Answers,
           NEW q \in Seq(Entries), NEW a, Taken(task, q, a), Settled(task, answer, q, a),
           \A s \in Starts : task = StartTask(s) /\ start[s].pc = "sending"
                            /\ answer.kind = "response" => Assigned(answer.id)
    PROVE  Owed'
<1>1. CASE task.of = "start"
    BY <1>1, TaskCases, StartStepOwed DEF Settled
<1>2. CASE task.of = "stop"
    BY <1>2, TaskCases, StopStepOwed DEF Settled
<1>3. CASE task.of = "report"
    BY <1>3, TaskCases, ReportStepOwed DEF Settled
<1>4. CASE task.of = "replay"
    BY <1>4, TaskCases, ReplayStepOwed DEF Settled
<1> QED
    BY <1>1, <1>2, <1>3, <1>4, TaskCases

-----------------------------------------------------------------------------
(* The other steps. *)

\* A reply to a start gives it an id of its own.
LEMMA ReplyAssigns ==
    ASSUME IInv, Owed, queue # <<>>, NEW s \in Starts, Head(queue).task = StartTask(s),
           start[s].pc = "sending", NEW receipt \in Receipts(Head(queue).msg), Received(receipt)
    PROVE  Assigned(receipt.id)
<1>0. queue \in Seq(Entries) /\ log \in Seq(Messages) /\ StartsMatched
    BY DEF IInv, TypeOK, PointTypeOK, Entries, Owed
<1>1. 1 \in DOMAIN queue /\ Head(queue) = queue[1] /\ Head(queue).msg \in Messages
    BY <1>0, HeadTail, TailPositions
<1>2. Head(queue).msg.type = "StartTransaction"
    BY <1>0, <1>1 DEF StartsMatched, EntriesOf
<1>3. PICK id \in FreshOcppIds : receipt = [Head(queue).msg EXCEPT !.id = id]
    BY <1>2 DEF Receipts
<1>4. receipt.id = id /\ receipt.type = "StartTransaction"
    BY <1>1, <1>2, <1>3 DEF Messages
<1>5. log' = Append(log, receipt)
    BY <1>4 DEF Received
<1>6. Len(log) + 1 \in DOMAIN log' /\ log'[Len(log) + 1] = receipt
    BY <1>0, <1>5
<1> QED
    BY <1>0, <1>3, <1>4, <1>6 DEF Assigned, FreshOcppIds, StartsMatched

\* A reply goes to the coroutine that asked.
LEMMA ReplyOwed ==
    ASSUME IInv, Owed, PointTypeOK', Reply
    PROVE  Owed'
<1>0. /\ queue \in Seq(Entries) /\ log \in Seq(Messages) /\ queue # <<>> /\ StartsMatched
    BY DEF IInv, TypeOK, PointTypeOK, Entries, Reply, Owed
<1>1. PICK receipt \in Receipts(Head(queue).msg), accepted \in BOOLEAN :
           /\ Received(receipt)
           /\ Settled(Head(queue).task, Response(receipt.id, accepted), Tail(queue), aborted)
    BY DEF Reply
<1>2. PICK task \in Tasks, message \in Messages :
           /\ task = Head(queue).task /\ message = Head(queue).msg
           /\ Tail(queue) \in Seq(Entries)
           /\ 1 \in DOMAIN queue /\ Head(queue) = queue[1]
    BY <1>0, HeadTail, TailPositions
<1> DEFINE answer == Response(receipt.id, accepted)
<1>3. answer \in Answers /\ answer.id = receipt.id
    BY <1>2, ReceiptType DEF Response, Answers
<1>4. LogGrows
    BY <1>0, <1>1, ReceivedGrows
<1>5. Taken(task, Tail(queue), aborted)
    BY <1>0, <1>2 DEF Taken
<1>6. \A s \in Starts : task = StartTask(s) /\ start[s].pc = "sending" => Assigned(receipt.id)
    BY <1>0, <1>1, <1>2, ReplyAssigns
<1> HIDE DEF answer
<1> QED
    BY <1>1, <1>2, <1>3, <1>4, <1>5, <1>6, SettledOwed DEF answer

\* A step that leaves the point alone, with less or the same in the queue.
LEMMA IdleStepOwed ==
    ASSUME IInv, Owed, LogGrows, EntriesOf(queue') \subseteq EntriesOf(queue),
           \A task : Waiting(task)' => Waiting(task),
           UNCHANGED <<tx, evseTx, outbox, start, stop, replay>>
    PROVE  Owed'
<1> DEFINE entry == [task |-> ReplayTask, msg |-> StatusMessage]
<1>1. Gained(entry)
    BY DEF Gained
<1>2. ~OwnStart(entry) /\ \A s \in Starts : entry.task # StartTask(s)
    BY StartMessages, StartTaskKinds DEF OwnStart
<1>3. \A t \in Transactions : SameRecord(outbox[t], outbox'[t])
    BY DEF SameRecord
<1> HIDE DEF entry
<1> QED
    BY <1>1, <1>2, <1>3, OtherOwed

\* Failures, disconnections and the coroutines they resume.
LEMMA FaultOwed ==
    ASSUME IInv, Owed, PointTypeOK', RequestFails \/ Disconnect \/ Resume
    PROVE  Owed'
<1>0. /\ queue \in Seq(Entries) /\ log \in Seq(Messages) /\ aborted \subseteq Tasks
    BY DEF IInv, TypeOK, PointTypeOK, Entries
<1>1. LogGrows
  <2>1. CASE log' = log
    BY <2>1 DEF LogGrows
  <2> QED
    BY <1>0, <2>1, ReceivedGrows DEF RequestFails, Disconnect, Resume, envVars
<1>2. CASE RequestFails
  <2>1. Head(queue).task \in Tasks /\ queue # <<>> /\ Tail(queue) \in Seq(Entries)
    BY <1>0, <1>2, HeadTail DEF RequestFails
  <2>2. Failed \in Answers /\ Failed.kind # "response"
    BY DEF Failed, Answers
  <2>3. /\ Taken(Head(queue).task, Tail(queue), aborted)
        /\ Settled(Head(queue).task, Failed, Tail(queue), aborted)
    BY <1>2, <2>1 DEF Taken, RequestFails
  <2> QED
    BY <1>1, <2>1, <2>2, <2>3, SettledOwed
<1>3. CASE Resume
  <2>1. PICK task \in aborted : Settled(task, Offline, queue, aborted \ {task})
    BY <1>3 DEF Resume
  <2>2. task \in Tasks /\ Taken(task, queue, aborted \ {task})
    BY <1>0 DEF Taken
  <2>3. Offline \in Answers /\ Offline.kind # "response"
    BY DEF Offline, Answers
  <2> QED
    BY <1>0, <1>1, <2>1, <2>2, <2>3, SettledOwed
<1>4. CASE Disconnect
  <2>1. queue' = <<>> /\ aborted' = {queue[i].task : i \in DOMAIN queue} /\ UNCHANGED pointVars
    BY <1>4 DEF Disconnect
  <2>2. EntriesOf(queue') \subseteq EntriesOf(queue) /\ \A task : Waiting(task)' => Waiting(task)
    BY <2>1 DEF EntriesOf, Waiting
  <2> QED
    BY <1>1, <2>1, <2>2, IdleStepOwed DEF pointVars
<1> QED
    BY <1>2, <1>3, <1>4

\* A start begins, at once or by asking the CSMS.
LEMMA BeginStartOwed ==
    ASSUME IInv, Owed, NEW s \in Starts, NEW c \in Connectors,
           BeginOfflineStart(s, c) \/ BeginOnlineStart(s, c)
    PROVE  Owed'
<1>0. /\ PointTypeOK /\ StartsMatched /\ StopsOwned /\ EvseNamesActive /\ ReplaySound
      /\ start \in [Starts -> StartValues] /\ queue \in Seq(Entries)
      /\ outbox \in [Transactions -> Records] /\ RecordsKept
    BY DEF IInv, Safe, TypeOK, PointTypeOK, Owed, Entries
<1>1. \A u \in Starts : u # s => start'[u] = start[u]
    BY <1>0 DEF BeginOfflineStart, BeginOnlineStart
<1>2. CASE BeginOfflineStart(s, c)
  <2>1. PICK t \in LocalIds :
           /\ tx[t].state = "absent"
           /\ CreateActive(t, c, starts)
           /\ outbox' = [outbox EXCEPT ![t] = RecordStarted]
    BY <1>2 DEF BeginOfflineStart
  <2>2. t \in Transactions /\ t \notin OcppIds /\ ~outbox[t].kept /\ outbox[t].stop = "none"
    BY <1>0, <2>1, IdsAssumption DEF Transactions, RecordsKept, StopsOwned
  <2>3. outbox'[t].stop = "none" /\ outbox'[t].kept
        /\ \A u \in Transactions : u # t => outbox'[u] = outbox[u]
    BY <1>0, <2>1, <2>2 DEF RecordStarted, NoRecord
  <2>4. StopsOwned' /\ EvseNamesActive'
    BY <1>0, <1>2, <2>1, <2>2, <2>3, StopsBegin DEF BeginOfflineStart
  <2> DEFINE entry == [task |-> ReplayTask, msg |-> StatusMessage]
  <2>5. UNCHANGED <<queue, aborted, log, replay>> /\ Gained(entry) /\ ~OwnStart(entry)
    BY <1>2, StartMessages DEF BeginOfflineStart, sessionVars, Gained, OwnStart
  <2>6. ReplaySound'
    <3> HIDE DEF entry
    <3> QED
        BY <1>0, <2>2, <2>3, <2>5, ReplayStays
  <2>7. StartsMatched'
    <3>1. start'[s].pc = "done"
        BY <1>0, <1>2 DEF BeginOfflineStart, StartValues
    <3>2. \A id \in OcppIds : tx'[id] = tx[id]
        BY <1>0, <2>1, <2>2 DEF CreateActive, PointTypeOK, Transactions
    <3>3. \A task : Waiting(task)' <=> Waiting(task)
        BY <2>5 DEF Waiting
    <3> QED
        BY <1>0, <1>1, <2>5, <3>1, <3>2, <3>3 DEF StartsMatched
  <2> QED
    BY <2>4, <2>6, <2>7 DEF Owed
<1>3. CASE BeginOnlineStart(s, c)
  <2> DEFINE entry == [task |-> StartTask(s), msg |-> StartMessage(None)]
  <2>1. /\ Request(StartTask(s), StartMessage(None), queue, aborted)
        /\ UNCHANGED <<tx, evseTx, outbox, stop, replay, log>> /\ start[s].pc = "idle"
    BY <1>3 DEF BeginOnlineStart
  <2>2. Gained(entry) /\ \A other : Waiting(other)' => other = StartTask(s) \/ Waiting(other)
    BY <1>0, <2>1, RequestEntries, RequestWaits DEF Gained, Waiting, WaitsIn
  <2>3. ~OwnStart(entry)
    BY StartMessages, IdsAssumption DEF OwnStart
  <2>4. ReplaySound'
    <3> HIDE DEF entry
    <3> QED
        BY <1>0, <2>1, <2>2, <2>3, ReplayStays
  <2>5. StopsOwned' /\ EvseNamesActive'
    BY <1>0, <2>1, StopsStay
  <2>6. StartsMatched'
    <3>1. start'[s].pc = "sending"
        BY <1>0, <1>3 DEF BeginOnlineStart
    <3>2. \A u \in Starts : start'[u].pc = "idle" => u # s /\ start[u].pc = "idle"
        BY <1>1, <3>1
    <3>3. ASSUME NEW u \in Starts, start'[u].pc = "sending", NEW f \in EntriesOf(queue'),
                 f.task = StartTask(u)
          PROVE  f.msg.type = "StartTransaction"
      <4>1. CASE f = entry
        BY <4>1, StartMessages
      <4>2. CASE f \in EntriesOf(queue)
        <5>1. CASE u # s
            BY <1>0, <1>1, <3>3, <4>2, <5>1 DEF StartsMatched
        <5>2. CASE u = s
            BY <1>0, <2>1, <3>3, <4>2, <5>2 DEF StartsMatched, EntriesOf, Waiting
        <5> QED
            BY <5>1, <5>2
      <4> HIDE DEF entry
      <4> QED
        BY <2>2, <3>3, <4>1, <4>2 DEF Gained
    <3>4. \A u \in Starts : start'[u].pc = "idle" => ~Waiting(StartTask(u))'
        BY <1>0, <1>1, <2>2, <3>2, StartTaskKinds DEF StartsMatched
    <3> QED
        BY <1>0, <2>1, <3>3, <3>4 DEF StartsMatched
  <2> QED
    BY <2>4, <2>5, <2>6 DEF Owed
<1> QED
    BY <1>2, <1>3

\* A stop begins: its coroutine owes it, or the outbox does.
LEMMA BeginStopOwed ==
    ASSUME IInv, Owed, NEW t \in Transactions, BeginOnlineStop(t) \/ BeginOfflineStop(t)
    PROVE  Owed'
<1>0. /\ PointTypeOK /\ StartsMatched /\ StopsOwned /\ EvseNamesActive /\ ReplaySound
      /\ queue \in Seq(Entries) /\ outbox \in [Transactions -> Records]
      /\ stop \in [Transactions -> {"none", "finishing", "stopping", "notifying", "done"}]
    BY DEF IInv, TypeOK, PointTypeOK, Owed, Entries
<1>1. /\ Active(t) /\ End(t) /\ start' = start /\ replay' = replay /\ log' = log
      /\ outbox[t].stop = "none" /\ stop[t] = "none"
    BY <1>0 DEF BeginOnlineStop, BeginOfflineStop, envVars, StopsOwned, Active
<1>2. LogGrows
    BY <1>1 DEF LogGrows
<1>3. \A u \in Transactions : tx'[u].state # "absent" => tx[u].state # "absent"
    BY <1>0, <1>1 DEF End, Active, PointTypeOK
<1> DEFINE entry == [task |-> StopTask(t), msg |-> StatusMessage]
<1>4. Gained(entry) /\ \A s \in Starts : Waiting(StartTask(s))' => Waiting(StartTask(s))
  <2>1. CASE BeginOnlineStop(t)
    <3>1. Request(StopTask(t), StatusMessage, queue, aborted)
        BY <2>1 DEF BeginOnlineStop
    <3> QED
        BY <1>0, <3>1, RequestEntries, RequestWaits, StartTaskKinds DEF Gained, Waiting, WaitsIn
  <2>2. CASE BeginOfflineStop(t)
    BY <2>2 DEF BeginOfflineStop, sessionVars, Gained, Waiting
  <2> QED
    BY <2>1, <2>2
<1>5. ~OwnStart(entry) /\ \A s \in Starts : entry.task # StartTask(s)
    BY StartMessages, StartTaskKinds DEF OwnStart
<1>6. /\ (outbox'[t].stop = "none") # (stop'[t] = "none")
      /\ ~outbox'[t].kept => outbox'[t].stop = "none"
      /\ outbox[t].kept => outbox'[t].kept /\ outbox'[t].startReplayed = outbox[t].startReplayed
      /\ \A u \in Transactions : u # t => outbox'[u] = outbox[u] /\ stop'[u] = stop[u]
  <2>1. CASE BeginOnlineStop(t)
    BY <1>0, <1>1, <2>1 DEF BeginOnlineStop, StopsOwned
  <2>2. CASE BeginOfflineStop(t)
    <3>1. outbox' = [outbox EXCEPT ![t] = RecordStopped(outbox[t])] /\ outbox[t].kept /\ stop' = stop
        BY <2>2 DEF BeginOfflineStop
    <3>2. /\ RecordStopped(outbox[t]).stop = "pending" /\ RecordStopped(outbox[t]).kept
          /\ RecordStopped(outbox[t]).startReplayed = outbox[t].startReplayed
        BY <1>0, <3>1 DEF RecordStopped, Records
    <3> QED
        BY <1>0, <1>1, <3>1, <3>2
  <2> QED
    BY <2>1, <2>2
<1>7. StopsOwned' /\ EvseNamesActive'
    BY <1>0, <1>1, <1>6, StopsEnd
<1> HIDE DEF entry
<1>8. ReplaySound'
    BY <1>0, <1>1, <1>4, <1>5, <1>6, ReplayStays
<1>9. StartsMatched'
    BY <1>0, <1>1, <1>2, <1>3, <1>4, <1>5, StartsStay DEF Transactions
<1> QED
    BY <1>7, <1>8, <1>9 DEF Owed

\* A tick of a loop records its reading or asks.
LEMMA BeginReportOwed ==
    ASSUME IInv, Owed, NEW t \in Transactions, BeginReport(t)
    PROVE  Owed'
<1> DEFINE n == tx[t].samples + 1
           message == MeterMessage(t, OcppIdOf(t), n)
           entry == [task |-> ReportTask(t, n), msg |-> message]
<1>0. PointTypeOK /\ StopsOwned /\ queue \in Seq(Entries)
    BY DEF IInv, TypeOK, PointTypeOK, Owed, Entries
<1>1. /\ start' = start /\ replay' = replay /\ evseTx' = evseTx /\ stop' = stop /\ log' = log
      /\ tx' = [tx EXCEPT ![t].samples = n]
    BY DEF BeginReport, envVars
<1>2. \A u \in Transactions : tx'[u].state = tx[u].state /\ tx'[u].connector = tx[u].connector
  <2> HIDE DEF n
  <2> QED
    BY <1>0, <1>1 DEF PointTypeOK, TxValues
<1>3. ~OwnStart(entry) /\ \A s \in Starts : entry.task # StartTask(s)
    BY StartMessages, StartTaskKinds DEF OwnStart
<1>4. LogGrows
    BY <1>1 DEF LogGrows
<1>5. Gained(entry) /\ \A s \in Starts : Waiting(StartTask(s))' => Waiting(StartTask(s))
  <2>1. CASE UNCHANGED sessionVars
    BY <2>1 DEF sessionVars, Gained, Waiting
  <2>2. CASE Request(ReportTask(t, n), message, queue, aborted)
    <3> HIDE DEF n, message
    <3>1. Gained(entry)
        BY <1>0, <2>2, RequestEntries DEF Gained
    <3>2. \A other : Waiting(other)' => other = ReportTask(t, n) \/ WaitsIn(other, queue, aborted)
        BY <1>0, <2>2, RequestWaits
    <3> QED
        BY <3>1, <3>2, StartTaskKinds DEF Waiting, WaitsIn
  <2> QED
    BY <2>1, <2>2 DEF BeginReport
<1>6. \A u \in Transactions : SameRecord(outbox[u], outbox'[u])
  <2>1. outbox' = outbox \/ RecordReading(t, n)
    BY DEF BeginReport
  <2> HIDE DEF n
  <2> QED
    BY <1>0, <2>1, RecordReadingStays DEF SameRecord
<1> HIDE DEF n, message, entry
<1> QED
    BY <1>1, <1>2, <1>3, <1>4, <1>5, <1>6, OtherOwed

\* A replay begins with the records as they are.
LEMMA ReplayBegunOwed ==
    ASSUME IInv, Owed, replay.pc = "idle", ReplayBegun,
           UNCHANGED <<tx, evseTx, outbox, start, stop, log>>
    PROVE  Owed'
<1> DEFINE snap == [t \in Transactions |-> IF t \in Pending THEN outbox[t] ELSE NoRecord]
           r == [ReplayIdle EXCEPT !.todo = Pending, !.snap = snap]
<1>0. /\ PointTypeOK /\ queue \in Seq(Entries) /\ RequestsMatched /\ StartsMatched
      /\ StopsOwned /\ EvseNamesActive /\ OwnStarts /\ outbox \in [Transactions -> Records]
    BY DEF IInv, Safe, TypeOK, PointTypeOK, Owed, ReplaySound, Entries
<1>1. snap \in [Transactions -> Records]
    BY <1>0 DEF NoRecord, Records, StopStates
<1>2. r \in Replays /\ r.todo = Pending /\ r.snap = snap
  <2>1. Pending \in SUBSET Transactions
    BY DEF Pending
  <2> HIDE DEF snap
  <2> QED
    BY <1>1, <2>1, IdleType DEF Replays
<1>3. \A u \in r.todo : outbox'[u].kept /\ r.snap[u].startReplayed = outbox'[u].startReplayed
    BY <1>2 DEF Pending, IsPending
<1>4. ReplayNext(r, bound, queue, aborted)
    BY DEF ReplayBegun
<1> HIDE DEF r, snap
<1>5. TakesKept(replay', outbox') /\ Asks(queue, aborted)
    BY <1>0, <1>2, <1>3, <1>4, NextAsks
<1>6. WithoutReplay(queue, aborted)
    BY <1>0 DEF RequestsMatched, Matched, WithoutReplay
<1>7. ReplaySound'
    BY <1>0, <1>5, <1>6, RunningUnstarted, AskedIsOwn DEF ReplaySound
<1>8. StopsOwned' /\ EvseNamesActive'
    BY <1>0, StopsStay
<1>9. StartsMatched'
  <2>1. PICK message : Request(ReplayTask, message, queue, aborted) \/ Finish(queue, aborted)
    BY <1>5 DEF Asks
  <2> DEFINE entry == [task |-> ReplayTask, msg |-> message]
  <2>2. Gained(entry)
    BY <1>0, <2>1, RequestEntries DEF Gained, Finish
  <2>3. \A s \in Starts : Waiting(StartTask(s))' => Waiting(StartTask(s))
    <3>1. \A other : Waiting(other)' => other = ReplayTask \/ WaitsIn(other, queue, aborted)
        BY <1>0, <2>1, RequestWaits, FinishWaits
    <3> QED
        BY <3>1, StartTaskKinds DEF Waiting, WaitsIn
  <2>4. LogGrows /\ \A s \in Starts : entry.task # StartTask(s)
    BY StartTaskKinds DEF LogGrows
  <2> HIDE DEF entry
  <2> QED
    BY <1>0, <2>2, <2>3, <2>4, StartsStay
<1> QED
    BY <1>7, <1>8, <1>9 DEF Owed

\* Nothing is owed at first.
LEMMA InitOwed ==
    ASSUME Init
    PROVE  Owed
<1>1. \A task : ~Waiting(task)
    BY DEF Init, Waiting
<1>2. /\ queue = <<>> /\ EntriesOf(queue) = {}
      /\ \A s \in Starts : start[s].pc = "idle"
      /\ \A t \in Transactions : /\ tx[t].state = "absent" /\ outbox[t].stop = "none"
                                 /\ stop[t] = "none"
    BY DEF Init, EntriesOf, NoTransaction, NoRecord
<1>3. StartsMatched
    BY <1>1, <1>2 DEF StartsMatched, Transactions
<1>4. StopsOwned
    BY <1>2 DEF StopsOwned, StopsAccounted
<1>5. EvseNamesActive
    BY IdsAssumption DEF EvseNamesActive, Init
<1>6. ReplaySound
    BY <1>2 DEF ReplaySound, TakesKept, OwnStarts, Init, ReplayIdle
<1> QED
    BY <1>3, <1>4, <1>5, <1>6 DEF Owed

\* Every step keeps Owed.
LEMMA OwedStep ==
    ASSUME IInv, Owed, [Next]_vars
    PROVE  Owed'
<1>0. PointTypeOK'
    BY TypeStep DEF IInv, TypeOK
<1>1. CASE UNCHANGED <<tx, evseTx, outbox, start, stop, replay, sessionVars, log>>
  <2>1. EntriesOf(queue') \subseteq EntriesOf(queue) /\ \A task : Waiting(task)' => Waiting(task)
    BY <1>1 DEF sessionVars, Waiting
  <2>2. LogGrows
    BY <1>1 DEF LogGrows
  <2> QED
    BY <1>1, <2>1, <2>2, IdleStepOwed
<1>2. CASE \/ UNCHANGED vars \/ RestartMeterLoops \/ Connect \/ BootRefused
           \/ \E t \in Transactions : StopThrows(t) \/ LoopExpires(t)
    BY <1>1, <1>2
       DEF vars, pointVars, envVars, RestartMeterLoops, Connect, BootRefused, StopThrows, LoopExpires
<1>3. CASE \E s \in Starts, c \in Connectors :
              BeginOfflineStart(s, c) \/ BeginOnlineStart(s, c)
    BY <1>3, BeginStartOwed
<1>4. CASE \E t \in Transactions : BeginOnlineStop(t) \/ BeginOfflineStop(t)
    BY <1>4, BeginStopOwed
<1>5. CASE \E t \in Transactions : BeginReport(t)
    BY <1>5, BeginReportOwed
<1>6. CASE Reply
    BY <1>0, <1>6, ReplyOwed
<1>7. CASE RequestFails \/ Disconnect \/ Resume
    BY <1>0, <1>7, FaultOwed
<1>8. CASE BootAccepted \/ HeartbeatAnswered
  <2>1. CASE ReplayBegun /\ replay.pc = "idle"
    BY <1>8, <2>1, ReplayBegunOwed DEF BootAccepted, HeartbeatAnswered, envVars
  <2>2. CASE UNCHANGED <<replay, bound, sessionVars>> /\ BootAccepted
    BY <1>1, <2>2 DEF BootAccepted
  <2> QED
    BY <1>8, <2>1, <2>2 DEF BootAccepted, HeartbeatAnswered
<1> QED
    BY <1>2, <1>3, <1>4, <1>5, <1>6, <1>7, <1>8 DEF Next

\* A StartTransaction of a transaction that the outbox holds as started is in no
\* queue, so that no step delivers one.
LEMMA NoneStartedAgain ==
    ASSUME IInv, Owed, [Next]_vars, NEW t \in Transactions, outbox[t].startReplayed,
           NEW i \in DOMAIN log' \ DOMAIN log,
           log'[i].type = "StartTransaction", log'[i].tx = t
    PROVE  FALSE
<1>0. /\ queue \in Seq(Entries) /\ log \in Seq(Messages) /\ OwnStarts /\ TakesKept(replay, outbox)
    BY DEF IInv, TypeOK, PointTypeOK, Entries, Owed, ReplaySound
<1>1. log' # log
    OBVIOUS
<1>2. Reply \/ RequestFails \/ Disconnect
    BY <1>1 DEF Next, vars, pointVars, envVars, BeginOfflineStart, BeginOnlineStart, BeginOnlineStop,
        BeginOfflineStop, StopThrows, BeginReport, LoopExpires, RestartMeterLoops, Resume, Connect,
        BootAccepted, BootRefused, HeartbeatAnswered
<1>3. /\ queue # <<>>
      /\ \E receipt \in Receipts(Head(queue).msg) : Received(receipt)
    BY <1>1, <1>2 DEF Reply, RequestFails, Disconnect
<1>4. PICK receipt \in Receipts(Head(queue).msg) : log' = Append(log, receipt)
    BY <1>1, <1>3 DEF Received
<1>5. log'[i] = receipt
    BY <1>0, <1>4
<1>6. 1 \in DOMAIN queue /\ Head(queue) = queue[1] /\ Head(queue).msg \in Messages
    BY <1>0, <1>3, TailPositions, HeadTail
<1>7. Head(queue).msg.type = "StartTransaction" /\ Head(queue).msg.tx = t
    BY <1>5, <1>6 DEF Receipts, Messages
<1>8. replay.pc = "start" /\ replay.tx = t
    BY <1>0, <1>6, <1>7 DEF OwnStarts, OwnStart, EntriesOf
<1> QED
    BY <1>0, <1>8 DEF TakesKept

\* Each start, stop and replay asks for what is owed, and for nothing else.
THEOREM NothingElseIsOwed == Spec => [](IInv /\ Owed)
<1>1. Init => IInv /\ Owed
    BY InitType, InitSafe, InitOwed DEF IInv
<1>2. IInv /\ Owed /\ [Next]_vars => (IInv /\ Owed)'
    BY SafeStep, OwedStep
<1> QED
    BY <1>1, <1>2, PTL DEF Spec

\* Every transaction that ended has its stop in the outbox or in the coroutine
\* that sends it, never in both (stopTransaction, stopOfflineTransaction and the
\* deauthorization of the replay).
THEOREM EveryStopIsOwned == Spec => []StopsAccounted
<1>1. IInv /\ Owed => StopsAccounted
    BY DEF Owed, StopsOwned
<1> QED
    BY <1>1, NothingElseIsOwed, PTL

\* No EVSE names a transaction that is not active there.
THEOREM EvsesAreReleased == Spec => []EvseNamesActive
<1>1. IInv /\ Owed => EvseNamesActive
    BY DEF Owed
<1> QED
    BY <1>1, NothingElseIsOwed, PTL

\* A transaction whose id at the CSMS the outbox knows is not started again
\* (bindStart against the copies of replayOfflineTransactions).
THEOREM StartedOnce == Spec => NoSecondStart
<1>1. IInv /\ Owed /\ [Next]_vars =>
        [\A t \in Transactions :
            outbox[t].startReplayed =>
               ~ \E i \in DOMAIN log' \ DOMAIN log :
                   log'[i].type = "StartTransaction" /\ log'[i].tx = t]_vars
    BY NoneStartedAgain
<1> QED
    BY <1>1, NothingElseIsOwed, PTL DEF Spec, NoSecondStart

-----------------------------------------------------------------------------
(* The order of the starts.  Turns says that the replay takes the records in   *)
(* the order their transactions began: what began before the one it starts is *)
(* started, and what began before one it will take is started, or taken first.*)

ReceivedStart(t) ==
    \E i \in DOMAIN log : log[i].type = "StartTransaction" /\ log[i].tx = t

\* No transaction and no start is stamped later than the clock.
ClockAhead ==
    /\ \A t \in Transactions : tx[t].at <= starts
    /\ \A s \in Starts : start[s].at <= starts

\* The replay asks for the start of the record it is at.
StartAsked ==
    \A e \in EntriesOf(queue) :
        e.task = ReplayTask /\ replay.pc = "start" =>
            e.msg.type = "StartTransaction" /\ e.msg.tx = replay.tx

\* Only a transaction that exists is started, and the outbox holds as started
\* only what the CSMS was told of.
OnlyKnown == \A t \in LocalIds : ReceivedStart(t) => tx[t].state # "absent"
StartedIsReceived == \A t \in LocalIds : outbox[t].startReplayed => ReceivedStart(t)

\* u began offline, and before t.
Before(u, t) == tx[u].state # "absent" /\ tx[u].at < tx[t].at

\* The replay at r, with the records in ob, leaves nothing out that began earlier.
InTurn(r, ob) ==
    /\ r.pc = "start" => \A u \in LocalIds : Before(u, r.tx) => ob[u].startReplayed
    /\ \A t \in r.todo : \A u \in LocalIds :
         Before(u, t) => \/ u \in r.todo
                         \/ ob[u].startReplayed
                         \/ r.pc = "start" /\ u = r.tx

Turns ==
    /\ ClockAhead
    /\ StartAsked
    /\ OnlyKnown
    /\ StartedIsReceived
    /\ InTurn(replay, outbox)
    /\ OfflineStartsInOrder

\* A transaction stays, with the time it began; one that begins offline does so
\* now.
TransactionsStay ==
    /\ \A t \in Transactions :
         tx[t].state # "absent" => tx'[t].state # "absent" /\ tx'[t].at = tx[t].at
    /\ \A t \in LocalIds :
         tx[t].state = "absent" /\ tx'[t].state # "absent" => tx'[t].at = starts

\* The CSMS receives at most one message more, a request of the queue.
Delivers ==
    \/ log' = log
    \/ \E receipt : \E e \in EntriesOf(queue) :
         /\ log' = Append(log, receipt)
         /\ receipt.type = e.msg.type /\ receipt.tx = e.msg.tx /\ receipt.sample = e.msg.sample

\* Which records are started stays as it is.
StartsUnchanged ==
    \A u \in LocalIds :
        /\ outbox[u].kept => outbox'[u].startReplayed = outbox[u].startReplayed
        /\ outbox'[u].startReplayed => outbox[u].startReplayed

\* What began before a transaction that exists began before it already.
LEMMA BeforeStays ==
    ASSUME PointTypeOK, ClockAhead, starts \in Nat, TransactionsStay,
           NEW t \in Transactions, tx[t].state # "absent", NEW u \in LocalIds, Before(u, t)'
    PROVE  Before(u, t)
<1>1. tx'[t].at = tx[t].at /\ tx[t].at <= starts /\ tx[t].at \in Nat
    BY DEF TransactionsStay, ClockAhead, PointTypeOK, TxValues
<1>2. u \in Transactions
    BY DEF Transactions
<1>3. CASE tx[u].state = "absent"
    BY <1>1, <1>3 DEF TransactionsStay, Before
<1>4. CASE tx[u].state # "absent"
    BY <1>1, <1>2, <1>4 DEF TransactionsStay, Before
<1> QED
    BY <1>3, <1>4

\* What the replay is at, or will take, exists.
LEMMA TakenExist ==
    ASSUME IInv, Owed
    PROVE  /\ \A t \in replay.todo : t \in Transactions /\ tx[t].state # "absent"
           /\ replay.pc # "idle" => replay.tx \in Transactions /\ tx[replay.tx].state # "absent"
<1>1. PointTypeOK /\ RecordsKept /\ TakesKept(replay, outbox)
    BY DEF IInv, TypeOK, Safe, Owed, ReplaySound
<1>2. replay.todo \subseteq Transactions /\ (replay.pc # "idle" => replay.tx \in Transactions)
    BY <1>1 DEF PointTypeOK, Replays
<1> QED
    BY <1>1, <1>2 DEF RecordsKept, TakesKept

\* A start is received in turn.
LEMMA DeliveredInTurn ==
    ASSUME IInv, Owed, Turns, TransactionsStay, Delivers
    PROVE  OfflineStartsInOrder' /\ OnlyKnown'
<1>0. /\ PointTypeOK /\ log \in Seq(Messages) /\ starts \in Nat
      /\ ClockAhead /\ OnlyKnown /\ StartedIsReceived /\ InTurn(replay, outbox) /\ OfflineStartsInOrder
      /\ OwnStarts
    BY DEF IInv, TypeOK, Turns, Owed, ReplaySound
<1>1. /\ LogGrows /\ DOMAIN log' \subseteq Nat
      /\ \A i \in DOMAIN log' \ DOMAIN log :
           /\ \A j \in DOMAIN log : j \in 1..i
           /\ log'[i].type = "StartTransaction" /\ log'[i].tx \in Transactions =>
                replay.pc = "start" /\ replay.tx = log'[i].tx
  <2>1. CASE log' = log
    BY <1>0, <2>1 DEF LogGrows
  <2>2. CASE log' # log
    <3>1. PICK receipt : \E e \in EntriesOf(queue) :
             /\ log' = Append(log, receipt)
             /\ receipt.type = e.msg.type /\ receipt.tx = e.msg.tx
        BY <2>2 DEF Delivers
    <3>0. receipt.type = "StartTransaction" /\ receipt.tx \in Transactions =>
              replay.pc = "start" /\ replay.tx = receipt.tx
        BY <1>0, <3>1 DEF OwnStarts, OwnStart
    <3>2. /\ Len(log) \in Nat /\ DOMAIN log = 1..Len(log) /\ DOMAIN log' = 1..(Len(log) + 1)
          /\ log'[Len(log) + 1] = receipt /\ \A i \in DOMAIN log : log'[i] = log[i]
        BY <1>0, <3>1
    <3> QED
        BY <3>0, <3>2 DEF LogGrows
  <2> QED
    BY <2>1, <2>2
<1>2. ASSUME NEW i \in DOMAIN log', log'[i].type = "StartTransaction", log'[i].tx \in LocalIds
      PROVE  tx[log'[i].tx].state # "absent" /\ log'[i].tx \in Transactions
  <2>1. CASE i \in DOMAIN log
    BY <1>0, <1>1, <1>2, <2>1 DEF LogGrows, OnlyKnown, ReceivedStart, Transactions
  <2>2. CASE i \notin DOMAIN log
    BY <1>1, <1>2, <2>2, TakenExist DEF Transactions
  <2> QED
    BY <2>1, <2>2
<1>3. OnlyKnown'
    BY <1>2 DEF OnlyKnown, ReceivedStart, TransactionsStay
<1>4. ASSUME NEW i \in DOMAIN log', NEW u \in LocalIds, NEW t \in LocalIds,
             log'[i].type = "StartTransaction", log'[i].tx = t, Before(u, t)'
      PROVE  \E j \in 1..i : log'[j].type = "StartTransaction" /\ log'[j].tx = u
  <2>1. Before(u, t)
    <3>1. tx[t].state # "absent" /\ t \in Transactions
        BY <1>2, <1>4
    <3> QED
        BY <1>0, <1>4, <3>1, BeforeStays
  <2>2. CASE i \in DOMAIN log
    <3>1. log'[i] = log[i] /\ \A j \in 1..i : j \in DOMAIN log /\ log'[j] = log[j]
        BY <1>0, <1>1, <2>2 DEF LogGrows
    <3>2. \E j \in 1..i : log[j].type = "StartTransaction" /\ log[j].tx = u
        BY <1>0, <1>4, <2>1, <2>2, <3>1 DEF OfflineStartsInOrder, Before
    <3> QED
        BY <3>1, <3>2
  <2>3. CASE i \notin DOMAIN log
    <3>1. replay.pc = "start" /\ replay.tx = log'[i].tx
        BY <1>1, <1>2, <1>4, <2>3
    <3>2. ReceivedStart(u)
        BY <1>0, <1>4, <2>1, <3>1 DEF InTurn, StartedIsReceived
    <3> QED
        BY <1>1, <2>3, <3>2 DEF ReceivedStart, LogGrows
  <2> QED
    BY <2>2, <2>3
<1>5. OfflineStartsInOrder'
  <2>1. SUFFICES ASSUME NEW i \in DOMAIN log', NEW u \in LocalIds,
                        log'[i].type = "StartTransaction", log'[i].tx \in LocalIds,
                        tx'[u].state # "absent", tx'[u].at < tx'[log'[i].tx].at
                 PROVE  \E j \in 1..i : log'[j].type = "StartTransaction" /\ log'[j].tx = u
    BY DEF OfflineStartsInOrder
  <2>2. PICK t \in LocalIds : t = log'[i].tx
    BY <2>1
  <2>3. Before(u, t)'
    BY <2>1, <2>2 DEF Before
  <2> QED
    BY <1>4, <2>1, <2>2, <2>3
<1> QED
    BY <1>3, <1>5

\* Every step delivers what is in the queue.
LEMMA StepDelivers ==
    ASSUME IInv, [Next]_vars
    PROVE  Delivers
<1>0. queue \in Seq(Entries)
    BY DEF IInv, TypeOK, PointTypeOK, Entries
<1>1. CASE log' = log
    BY <1>1 DEF Delivers
<1>2. CASE log' # log
  <2>1. Reply \/ RequestFails \/ Disconnect
    BY <1>2 DEF Next, vars, pointVars, envVars, BeginOfflineStart, BeginOnlineStart, BeginOnlineStop,
        BeginOfflineStop, StopThrows, BeginReport, LoopExpires, RestartMeterLoops, Resume, Connect,
        BootAccepted, BootRefused, HeartbeatAnswered
  <2>2. /\ queue # <<>>
        /\ \E receipt \in Receipts(Head(queue).msg) : Received(receipt)
    BY <1>2, <2>1 DEF Reply, RequestFails, Disconnect
  <2>3. PICK receipt \in Receipts(Head(queue).msg) : log' = Append(log, receipt)
    BY <1>2, <2>2 DEF Received
  <2>4. 1 \in DOMAIN queue /\ Head(queue) = queue[1] /\ Head(queue).msg \in Messages
    BY <1>0, <2>2, TailPositions, HeadTail
  <2>5. /\ receipt.type = queue[1].msg.type /\ receipt.tx = queue[1].msg.tx
        /\ receipt.sample = queue[1].msg.sample
    BY <2>4 DEF Receipts, Messages
  <2>6. queue[1] \in EntriesOf(queue)
    BY <2>4 DEF EntriesOf
  <2> QED
    BY <2>3, <2>5, <2>6 DEF Delivers
<1> QED
    BY <1>1, <1>2

\* A step of another coroutine, the user or a timer.
LEMMA OtherTurns ==
    ASSUME IInv, Owed, Turns, Delivers, TransactionsStay, ClockAhead', LogGrows,
           replay' = replay, NEW e, Gained(e), e.task # ReplayTask,
           StartsUnchanged
    PROVE  Turns'
<1>0. /\ PointTypeOK /\ RecordsKept /\ starts \in Nat /\ ClockAhead /\ StartAsked
      /\ StartedIsReceived /\ InTurn(replay, outbox)
    BY DEF IInv, Safe, TypeOK, Turns
<1>1. OfflineStartsInOrder' /\ OnlyKnown'
    BY DeliveredInTurn
<1>2. StartedIsReceived'
    BY <1>0 DEF StartedIsReceived, ReceivedStart, LogGrows, StartsUnchanged
<1>3. StartAsked'
    BY <1>0 DEF StartAsked, Gained
<1>4. ASSUME NEW t \in Transactions, tx[t].state # "absent", NEW u \in LocalIds, Before(u, t)'
      PROVE  Before(u, t) /\ (outbox[u].startReplayed => outbox'[u].startReplayed)
  <2>1. Before(u, t)
    BY <1>0, <1>4, BeforeStays
  <2> QED
    BY <1>0, <2>1 DEF Before, RecordsKept, StartsUnchanged, Transactions
<1>5. InTurn(replay, outbox)'
  <2>1. ASSUME replay'.pc = "start", NEW u \in LocalIds, Before(u, replay.tx)'
        PROVE  outbox'[u].startReplayed
    <3>1. replay.tx \in Transactions /\ tx[replay.tx].state # "absent" /\ replay.pc = "start"
        BY <2>1, TakenExist
    <3> QED
        BY <1>0, <1>4, <2>1, <3>1 DEF InTurn
  <2>2. ASSUME NEW t \in replay.todo, NEW u \in LocalIds, Before(u, t)'
        PROVE  u \in replay.todo \/ outbox'[u].startReplayed \/ (replay.pc = "start" /\ u = replay.tx)
    <3>1. t \in Transactions /\ tx[t].state # "absent"
        BY TakenExist
    <3> QED
        BY <1>0, <1>4, <2>2, <3>1 DEF InTurn
  <2> QED
    BY <2>1, <2>2 DEF InTurn
<1> QED
    BY <1>1, <1>2, <1>3, <1>5 DEF Turns

\* What a replay does to the turns: nothing, or what is next.
LEMMA NextInTurn ==
    ASSUME PointTypeOK, NEW r \in Replays, NEW ids, NEW q \in Seq(Entries), NEW a,
           ReplayNext(r, ids, q, a), WithoutReplay(q, a), NEW ob,
           r.pc # "start", InTurn(r, ob),
           \A u \in r.todo : r.snap[u].startReplayed = ob[u].startReplayed
    PROVE  InTurn(replay', ob) /\ StartAsked'
<1> DEFINE t == Earliest(r.todo)
           taken == [r EXCEPT !.todo = r.todo \ {t}, !.tx = t, !.index = 0,
                              !.id = r.snap[t].ocppId]
<1>1. CASE r.todo = {}
  <2>1. replay' = ReplayIdle
    BY <1>1 DEF ReplayNext
  <2> QED
    BY <2>1 DEF InTurn, StartAsked, ReplayIdle
<1>2. CASE r.todo # {}
  <2>1. t \in r.todo /\ \A u \in r.todo : tx[t].at <= tx[u].at
    <3>1. r.todo \in SUBSET Transactions
        BY DEF Replays
    <3> QED
        BY <1>2, <3>1, EarliestExists
  <2>2. r.snap[t].ocppId \in OcppIds \cup {None} /\ t \in Transactions
        /\ r.todo \subseteq Transactions
    BY <2>1 DEF Replays, Records
  <2>3. taken \in Replays /\ taken.tx = t /\ taken.todo = r.todo \ {t} /\ taken.snap = r.snap
    BY <2>1, <2>2 DEF Replays
  <2>4. ASSUME NEW u \in r.todo, NEW v \in LocalIds, Before(v, u)
        PROVE  v \in r.todo \/ ob[v].startReplayed
    BY <2>4 DEF InTurn
  <2>5. ASSUME NEW v \in LocalIds, Before(v, t)
        PROVE  ob[v].startReplayed
    <3>1. v \notin r.todo
      <4>1. v \in Transactions /\ tx[v].at \in Nat /\ tx[t].at \in Nat
        BY <2>2 DEF Transactions, PointTypeOK, TxValues
      <4> HIDE DEF t
      <4> QED
        BY <2>1, <2>5, <4>1 DEF Before
    <3> QED
        BY <2>1, <2>4, <2>5, <3>1
  <2>6. CASE ~r.snap[t].startReplayed
    <3>1. replay' = [taken EXCEPT !.pc = "start"]
          /\ Request(ReplayTask, StartMessage(t), q, a)
        BY <1>2, <2>6 DEF ReplayNext
    <3>2. replay'.pc = "start" /\ replay'.tx = t /\ replay'.todo = r.todo \ {t}
        BY <2>3, <3>1 DEF Replays
    <3> HIDE DEF taken, t
    <3>3. InTurn(replay', ob)
        BY <2>4, <2>5, <3>2 DEF InTurn
    <3>4. StartAsked'
      <4> DEFINE entry == [task |-> ReplayTask, msg |-> StartMessage(t)]
      <4>1. EntriesOf(queue') \subseteq EntriesOf(q) \cup {entry}
        BY <3>1, RequestEntries
      <4>2. \A e \in EntriesOf(q) : e.task # ReplayTask
        BY DEF EntriesOf, WithoutReplay, WaitsIn
      <4>3. entry.msg.type = "StartTransaction" /\ entry.msg.tx = t
        BY StartMessages
      <4> HIDE DEF entry
      <4> QED
        BY <3>2, <4>1, <4>2, <4>3 DEF StartAsked
    <3> QED
        BY <3>3, <3>4
  <2>7. CASE r.snap[t].startReplayed
    <3>1. ReplayReadings(taken, q, a)
        BY <1>2, <2>7 DEF ReplayNext
    <3> HIDE DEF taken, t
    <3>2. /\ replay'.pc \in {"meter", "stop", "charging"}
          /\ replay'.tx = t /\ replay'.todo = r.todo \ {t}
        BY <2>3, <3>1, ReadingsAsk
    <3>3. ob[t].startReplayed
        BY <2>1, <2>7
    <3> QED
        BY <2>4, <3>2, <3>3 DEF InTurn, StartAsked
  <2> QED
    BY <2>6, <2>7
<1> QED
    BY <1>1, <1>2

\* Transactions that begin and end nowhere in between.
LEMMA SameBefore ==
    ASSUME PointTypeOK, PointTypeOK', InTurn(replay', outbox'),
           \A t \in Transactions : /\ (tx'[t].state = "absent") = (tx[t].state = "absent")
                                   /\ tx'[t].at = tx[t].at
    PROVE  InTurn(replay, outbox)'
<1>1. \A u \in LocalIds, t \in Transactions : Before(u, t)' => Before(u, t)
    BY DEF Before, Transactions
<1>2. replay'.todo \subseteq Transactions /\ (replay'.pc # "idle" => replay'.tx \in Transactions)
    BY DEF PointTypeOK, Replays
<1>3. replay'.pc = "start" => replay'.tx \in Transactions
    BY <1>2
<1> QED
    BY <1>1, <1>2, <1>3 DEF InTurn

\* The replay goes on.
LEMMA ReplayTurns ==
    ASSUME IInv, Owed, Turns, Delivers, LogGrows, PointTypeOK', NEW answer \in Answers,
           NEW q \in Seq(Entries), NEW a, Taken(ReplayTask, q, a), ReplayAnswered(answer, q, a),
           starts' = starts,
           replay.pc = "start" /\ answer.kind = "response" =>
             \E i \in DOMAIN log' :
                log'[i].type = "StartTransaction" /\ log'[i].tx = replay.tx
    PROVE  Turns'
<1> DEFINE t == replay.tx
           Started(u) == outbox'[u].startReplayed => outbox[u].startReplayed
           GoesOn == /\ replay'.pc \notin {"idle", "start"}
                     /\ replay'.todo = replay.todo
                     /\ \A u \in Transactions : outbox[u].startReplayed => outbox'[u].startReplayed
                     /\ replay.pc = "start" => outbox'[t].startReplayed
           Told == /\ \A u \in Transactions : u # t => outbox'[u] = outbox[u]
                   /\ Started(t) \/ (replay.pc = "start" /\ answer.kind = "response")
           Same == /\ \A u \in Transactions : /\ (tx'[u].state = "absent") = (tx[u].state = "absent")
                                              /\ tx'[u].at = tx[u].at
<1>0. /\ TypeOK /\ PointTypeOK /\ RequestsMatched /\ RecordsKept /\ TakesKept(replay, outbox)
      /\ outbox \in [Transactions -> Records] /\ replay \in Replays /\ tx \in [Transactions -> TxValues]
      /\ ClockAhead /\ StartedIsReceived /\ InTurn(replay, outbox)
    BY DEF IInv, Safe, TypeOK, PointTypeOK, Owed, ReplaySound, Turns
<1>1. WithoutReplay(q, a) /\ replay.pc # "idle"
    BY <1>0, TakenMatched
<1>2. t \in Transactions /\ outbox[t] \in Records /\ outbox[t].kept
    BY <1>0, <1>1 DEF PointTypeOK, TakesKept
<1>3. GoesOn => InTurn(replay', outbox') /\ StartAsked'
  <2>1. ASSUME GoesOn, NEW u \in replay'.todo, NEW v \in LocalIds, Before(v, u)
        PROVE  v \in replay'.todo \/ outbox'[v].startReplayed
    <3>1. v \in replay.todo \/ outbox[v].startReplayed \/ (replay.pc = "start" /\ v = t)
        BY <1>0, <2>1 DEF InTurn
    <3> QED
        BY <2>1, <3>1 DEF Transactions
  <2> QED
    BY <2>1 DEF InTurn, StartAsked
<1>4. InTurn(replay', outbox') /\ StartAsked' /\ Told /\ Same
  <2>1. CASE ReplayAbandoned(answer, q, a)
    <3>1. replay' = ReplayIdle /\ outbox' = outbox /\ tx' = tx
        BY <2>1 DEF ReplayAbandoned
    <3>2. ReplayIdle.pc = "idle" /\ ReplayIdle.todo = {}
        BY DEF ReplayIdle
    <3> QED
        BY <3>1, <3>2 DEF InTurn, StartAsked
  <2>2. CASE ReplayStartAnswered(answer, q, a)
    <3> DEFINE record == BindStart(outbox[t], answer.id)
               r == [replay EXCEPT !.id = answer.id]
    <3>1. answer.id \in OcppIds \cup {None}
        BY DEF Answers
    <3>2. record.startReplayed /\ RecordStopped(record).startReplayed
        BY <1>2, <3>1 DEF BindStart, RecordStopped, Records
    <3>3. r \in Replays /\ r.todo = replay.todo
        BY <1>0, <3>1 DEF Replays
    <3>4. replay'.pc \notin {"idle", "start"} /\ replay'.todo = replay.todo
      <4>1. CASE ReplayReadings(r, q, a)
        <5> HIDE DEF r
        <5> QED
            BY <3>3, <4>1, ReadingsAsk
      <4>2. CASE \/ replay' = [r EXCEPT !.pc = "stop"]
                 \/ replay' = [r EXCEPT !.pc = "charging"]
        <5> HIDE DEF r
        <5> QED
            BY <3>3, <4>2 DEF Replays
      <4> QED
        BY <2>2, <4>1, <4>2 DEF ReplayStartAnswered
    <3>5. /\ outbox'[t].startReplayed /\ \A u \in Transactions : u # t => outbox'[u] = outbox[u]
          /\ Same
      <4>1. CASE outbox' = [outbox EXCEPT ![t] = record] /\ tx' = tx
        BY <1>0, <1>2, <3>2, <4>1
      <4>2. CASE outbox' = [outbox EXCEPT ![t] = RecordStopped(record)] /\ Active(t) /\ End(t)
        <5>1. tx' = [tx EXCEPT ![t].state = "ended"]
            BY <4>2 DEF End
        <5>2. \A u \in Transactions : tx[u] \in TxValues
            BY <1>0
        <5>3. Same
            BY <1>0, <1>2, <4>2, <5>1, <5>2 DEF Active, TxValues
        <5> QED
            BY <1>0, <1>2, <3>2, <4>2, <5>3
      <4> QED
        BY <2>2, <4>1, <4>2 DEF ReplayStartAnswered
    <3>6. replay.pc = "start" /\ answer.kind = "response"
        BY <2>2 DEF ReplayStartAnswered
    <3>7. GoesOn
        BY <3>4, <3>5
    <3> QED
        BY <1>3, <3>5, <3>6, <3>7
  <2>3. CASE ReplayReadingAnswered(answer, q, a)
    <3>1. /\ outbox' = [outbox EXCEPT ![t] = MarkMeterValueReplayed(outbox[t], replay.index)]
          /\ ReplayReadings(replay, q, a) /\ tx' = tx /\ replay.pc = "meter"
        BY <2>3 DEF ReplayReadingAnswered
    <3>2. MarkMeterValueReplayed(outbox[t], replay.index).startReplayed = outbox[t].startReplayed
        BY <1>2 DEF MarkMeterValueReplayed, Records
    <3>3. /\ outbox'[t].startReplayed = outbox[t].startReplayed
          /\ \A u \in Transactions : u # t => outbox'[u] = outbox[u]
        BY <1>0, <1>2, <3>1, <3>2
    <3>4. GoesOn
        BY <1>0, <3>1, <3>3, ReadingsAsk
    <3> QED
        BY <1>3, <3>1, <3>3, <3>4
  <2>4. CASE ReplayStopAnswered(answer, q, a)
    <3>1. /\ outbox' = [outbox EXCEPT ![t] = MarkStopReplayed(outbox[t])]
          /\ replay' = [replay EXCEPT !.pc = "stopped"] /\ tx' = tx /\ replay.pc = "stop"
        BY <2>4 DEF ReplayStopAnswered
    <3>2. MarkStopReplayed(outbox[t]).startReplayed = outbox[t].startReplayed
        BY <1>2 DEF MarkStopReplayed, Records
    <3>3. /\ outbox'[t].startReplayed = outbox[t].startReplayed
          /\ \A u \in Transactions : u # t => outbox'[u] = outbox[u]
        BY <1>0, <1>2, <3>1, <3>2
    <3>4. GoesOn
        BY <1>0, <3>1, <3>3 DEF Replays
    <3> QED
        BY <1>3, <3>1, <3>3, <3>4
  <2>5. CASE ReplayNotified(q, a)
    <3>1. ReplayNext(replay, bound, q, a) /\ outbox' = outbox /\ tx' = tx /\ replay.pc # "start"
        BY <2>5 DEF ReplayNotified
    <3>2. \A u \in replay.todo : replay.snap[u].startReplayed = outbox[u].startReplayed
        BY <1>0 DEF TakesKept
    <3>3. InTurn(replay', outbox) /\ StartAsked'
        BY <1>0, <1>1, <3>1, <3>2, NextInTurn
    <3> QED
        BY <3>1, <3>3
  <2> QED
    BY <2>1, <2>2, <2>3, <2>4, <2>5 DEF ReplayAnswered
<1>5. TransactionsStay /\ ClockAhead'
  <2>1. start' = start
    BY DEF ReplayAnswered
  <2> QED
    BY <1>0, <1>4, <2>1 DEF TransactionsStay, ClockAhead, Transactions
<1>6. OfflineStartsInOrder' /\ OnlyKnown'
    BY <1>5, DeliveredInTurn
<1>7. StartedIsReceived'
    BY <1>0, <1>4 DEF StartedIsReceived, ReceivedStart, LogGrows, Transactions
<1>8. InTurn(replay, outbox)'
    BY <1>0, <1>4, SameBefore
<1> QED
    BY <1>4, <1>5, <1>6, <1>7, <1>8 DEF Turns

\* A reading starts no record of a transaction that began offline.
LEMMA ReadingStartsNone ==
    ASSUME PointTypeOK, RecordsKept, NEW t \in Transactions, tx[t].state # "absent", NEW n,
           RecordReading(t, n), NEW u \in LocalIds, outbox'[u].startReplayed
    PROVE  outbox[u].startReplayed
<1> DEFINE record == IF outbox[t].kept \/ ~IsBound(t) THEN outbox[t]
                     ELSE RecordBoundStarted(OcppIdOf(t))
<1>1. outbox \in [Transactions -> Records] /\ outbox[t] \in Records /\ u \in Transactions
    BY DEF PointTypeOK, Transactions
<1>2. outbox' = [outbox EXCEPT ![t] = RecordMeterValue(record, n)]
    BY DEF RecordReading
<1>3. CASE u # t
    BY <1>1, <1>2, <1>3
<1>4. CASE u = t
  <2>1. record = outbox[u]
    BY <1>4 DEF RecordsKept
  <2>2. RecordMeterValue(outbox[u], n).startReplayed = outbox[u].startReplayed
    BY <1>1, <1>4 DEF RecordMeterValue, Records
  <2> QED
    BY <1>1, <1>2, <1>4, <2>1, <2>2
<1> QED
    BY <1>3, <1>4

\* Steps that leave the transactions and the clock.
LEMMA QuietTurns ==
    ASSUME IInv, Owed, Turns, Delivers, LogGrows, UNCHANGED <<outbox, replay, starts>>,
           \A s \in Starts : start'[s].at = start[s].at,
           \A u \in Transactions : (tx'[u].state = "absent") = (tx[u].state = "absent")
                                   /\ tx'[u].at = tx[u].at,
           NEW e, Gained(e), e.task # ReplayTask
    PROVE  Turns'
<1>1. TransactionsStay /\ ClockAhead'
    BY DEF TransactionsStay, ClockAhead, Transactions, Turns
<1>2. StartsUnchanged
    BY DEF StartsUnchanged
<1> QED
    BY <1>1, <1>2, OtherTurns

\* A start goes on.
LEMMA StartTurns ==
    ASSUME IInv, Owed, Turns, Delivers, LogGrows, starts' = starts, NEW s \in Starts,
           NEW answer \in Answers, NEW q \in Seq(Entries), NEW a, Taken(StartTask(s), q, a),
           \/ StartAccepted(s, answer, q, a)
           \/ StartRefused(s, answer, q, a)
           \/ StartNotified(s, q, a),
           start[s].pc = "sending" /\ answer.kind = "response" => Assigned(answer.id)
    PROVE  Turns'
<1> DEFINE entry == [task |-> StartTask(s), msg |-> StatusMessage]
<1>0. /\ PointTypeOK /\ start \in [Starts -> StartValues] /\ tx \in [Transactions -> TxValues]
      /\ ClockAhead
    BY DEF IInv, TypeOK, PointTypeOK, Turns
<1>1. Request(StartTask(s), StatusMessage, q, a) \/ Finish(q, a)
    BY DEF StartAccepted, StartRefused, StartNotified
<1>2. Gained(entry) /\ entry.task # ReplayTask
    BY <1>0, <1>1, TakenGains, StartTaskKinds
<1>3. outbox' = outbox /\ replay' = replay
    BY DEF StartAccepted, StartRefused, StartNotified
<1>4. \A u \in Starts : start'[u].at = start[u].at
  <2>1. start' = [start EXCEPT ![s].pc = "done"]
        \/ start' = [start EXCEPT ![s] = [start[s] EXCEPT !.pc = "notifying", !.tx = answer.id]]
    BY DEF StartAccepted, StartRefused, StartNotified
  <2>2. /\ [start[s] EXCEPT !.pc = "notifying", !.tx = answer.id].at = start[s].at
        /\ [start[s] EXCEPT !.pc = "done"].at = start[s].at
    BY <1>0 DEF StartValues
  <2> QED
    BY <1>0, <2>1, <2>2
<1>5. CASE tx' = tx
  <2> HIDE DEF entry
  <2> QED
    BY <1>2, <1>3, <1>4, <1>5, QuietTurns
<1>6. CASE StartAccepted(s, answer, q, a)
  <2>1. CreateActive(answer.id, start[s].connector, start[s].at)
        /\ answer.id \in OcppIds /\ tx[answer.id].state = "absent"
    BY <1>6 DEF StartAccepted, Assigned
  <2> DEFINE value == [state |-> "active", connector |-> start[s].connector,
                       at |-> start[s].at, samples |-> 0]
  <2>2. tx' = [tx EXCEPT ![answer.id] = value] /\ answer.id \in Transactions
    BY <2>1 DEF CreateActive, Transactions
  <2>3. tx'[answer.id].at = start[s].at /\ tx'[answer.id].state = "active"
        /\ \A u \in Transactions : u # answer.id => tx'[u] = tx[u]
    BY <1>0, <2>2
  <2>4. TransactionsStay
    BY <2>1, <2>3, IdsAssumption DEF TransactionsStay, Transactions
  <2>5. ClockAhead'
    BY <1>0, <1>4, <2>3 DEF ClockAhead
  <2>6. StartsUnchanged
    BY <1>3 DEF StartsUnchanged
  <2> HIDE DEF entry
  <2> QED
    BY <1>2, <1>3, <2>4, <2>5, <2>6, OtherTurns
<1> QED
    BY <1>5, <1>6 DEF StartRefused, StartNotified

\* A stop goes on.
LEMMA StopTurns ==
    ASSUME IInv, Owed, Turns, Delivers, LogGrows, starts' = starts, NEW t \in Transactions,
           NEW q \in Seq(Entries), NEW a, Taken(StopTask(t), q, a), StopAnswered(t, q, a)
    PROVE  Turns'
<1>1. PICK message : Request(StopTask(t), message, q, a) \/ Finish(q, a)
    BY DEF StopAnswered
<1> DEFINE entry == [task |-> StopTask(t), msg |-> message]
<1>2. Gained(entry) /\ entry.task # ReplayTask
    BY <1>1, TakenGains, TaskKinds DEF IInv, TypeOK
<1>3. UNCHANGED <<tx, outbox, start, replay>>
    BY DEF StopAnswered
<1> HIDE DEF entry
<1> QED
    BY <1>2, <1>3, QuietTurns

\* A reading goes to the outbox or elsewhere.
LEMMA ReadingTurns ==
    ASSUME IInv, Owed, Turns, Delivers, LogGrows, UNCHANGED <<replay, starts, start>>,
           NEW t \in Transactions, tx[t].state # "absent", NEW n \in Nat,
           outbox' = outbox \/ RecordReading(t, n),
           \A u \in Transactions : (tx'[u].state = "absent") = (tx[u].state = "absent")
                                   /\ tx'[u].at = tx[u].at,
           NEW e, Gained(e), e.task # ReplayTask
    PROVE  Turns'
<1>0. PointTypeOK /\ StopsOwned /\ RecordsKept
    BY DEF IInv, TypeOK, Safe, Owed
<1>1. TransactionsStay /\ ClockAhead'
    BY DEF TransactionsStay, ClockAhead, Transactions, Turns
<1>2. StartsUnchanged
  <2>1. CASE outbox' = outbox
    BY <2>1 DEF StartsUnchanged
  <2>2. CASE RecordReading(t, n)
    BY <1>0, <2>2, RecordReadingStays, ReadingStartsNone
       DEF StartsUnchanged, SameRecord, Transactions
  <2> QED
    BY <2>1, <2>2
<1> QED
    BY <1>1, <1>2, OtherTurns

\* A report goes on.
LEMMA ReportTurns ==
    ASSUME IInv, Owed, Turns, Delivers, LogGrows, starts' = starts, NEW t \in Transactions,
           NEW n \in Nat, NEW answer, NEW q \in Seq(Entries), NEW a,
           Taken(ReportTask(t, n), q, a), ReportAnswered(t, n, answer, q, a)
    PROVE  Turns'
<1> DEFINE entry == [task |-> ReportTask(t, n), msg |-> StatusMessage]
<1>0. PointTypeOK /\ ReportsKnown /\ queue \in Seq(Entries)
    BY DEF IInv, TypeOK, Safe, PointTypeOK, Entries
<1>1. Gained(entry) /\ entry.task # ReplayTask
    BY <1>0, TakenGains, TaskKinds DEF ReportAnswered
<1>2. tx[t].state # "absent"
    BY <1>0, TakenEntries DEF ReportsKnown
<1>3. UNCHANGED <<tx, start, replay>> /\ (outbox' = outbox \/ RecordReading(t, n))
    BY DEF ReportAnswered
<1> HIDE DEF entry
<1> QED
    BY <1>1, <1>2, <1>3, ReadingTurns

\* A coroutine that waits goes on.  When the CSMS has answered it, what the
\* coroutine asks for was received.
Continues ==
    \E task \in Tasks, answer \in Answers, q \in Seq(Entries) : \E a :
        /\ Taken(task, q, a) /\ Settled(task, answer, q, a)
        /\ answer.kind = "response" =>
             /\ \A s \in Starts :
                  task = StartTask(s) /\ start[s].pc = "sending" => Assigned(answer.id)
             /\ task = ReplayTask /\ replay.pc = "start" =>
                  /\ answer.id \in OcppIds
                  /\ \E i \in DOMAIN log' :
                       log'[i].type = "StartTransaction" /\ log'[i].tx = replay.tx

\* The CSMS's answer, a failure and a loss make a coroutine go on.
LEMMA AnswersContinue ==
    ASSUME IInv, Owed, StartAsked, Reply \/ RequestFails \/ Resume
    PROVE  Continues /\ LogGrows
<1>0. queue \in Seq(Entries) /\ log \in Seq(Messages) /\ aborted \subseteq Tasks
    BY DEF IInv, TypeOK, PointTypeOK, Entries
<1>1. LogGrows
  <2>1. CASE log' = log
    BY <2>1 DEF LogGrows
  <2> QED
    BY <1>0, <2>1, ReceivedGrows DEF Reply, RequestFails, Resume, envVars
<1>2. CASE Reply
  <2>0. queue # <<>>
    BY <1>2 DEF Reply
  <2>1. PICK receipt \in Receipts(Head(queue).msg), accepted \in BOOLEAN :
           /\ Received(receipt)
           /\ Settled(Head(queue).task, Response(receipt.id, accepted), Tail(queue), aborted)
    BY <1>2 DEF Reply
  <2>2. PICK task \in Tasks, message \in Messages :
           /\ task = Head(queue).task /\ message = Head(queue).msg
           /\ Tail(queue) \in Seq(Entries)
           /\ 1 \in DOMAIN queue /\ Head(queue) = queue[1]
    BY <1>0, <2>0, HeadTail, TailPositions
  <2> DEFINE answer == Response(receipt.id, accepted)
  <2>3. answer \in Answers /\ answer.id = receipt.id
    BY <2>2, ReceiptType DEF Response, Answers
  <2>4. Taken(task, Tail(queue), aborted)
    BY <2>0, <2>2 DEF Taken
  <2>5. \A s \in Starts : task = StartTask(s) /\ start[s].pc = "sending" => Assigned(receipt.id)
    BY <2>0, <2>1, <2>2, ReplyAssigns
  <2>6. ASSUME task = ReplayTask, replay.pc = "start"
        PROVE  /\ receipt.id \in OcppIds
               /\ \E i \in DOMAIN log' :
                    log'[i].type = "StartTransaction" /\ log'[i].tx = replay.tx
    <3>1. message.type = "StartTransaction" /\ message.tx = replay.tx
        BY <2>2, <2>6 DEF StartAsked, EntriesOf
    <3>2. PICK id \in FreshOcppIds : receipt = [message EXCEPT !.id = id]
        BY <2>1, <2>2, <3>1 DEF Receipts
    <3>3. receipt.type = "StartTransaction" /\ receipt.tx = replay.tx /\ receipt.id = id
        BY <2>2, <3>1, <3>2 DEF Messages
    <3>4. log' = Append(log, receipt)
        BY <2>1, <3>3 DEF Received
    <3>5. Len(log) + 1 \in DOMAIN log' /\ log'[Len(log) + 1] = receipt
        BY <1>0, <3>4
    <3> QED
        BY <3>3, <3>5 DEF FreshOcppIds
  <2> HIDE DEF answer
  <2> QED
    BY <1>1, <2>1, <2>2, <2>3, <2>4, <2>5, <2>6 DEF Continues, answer
<1>3. CASE RequestFails
  <2>1. Head(queue).task \in Tasks /\ queue # <<>> /\ Tail(queue) \in Seq(Entries)
    BY <1>0, <1>3, HeadTail DEF RequestFails
  <2>2. Failed \in Answers /\ Failed.kind # "response"
    BY DEF Failed, Answers
  <2>3. /\ Taken(Head(queue).task, Tail(queue), aborted)
        /\ Settled(Head(queue).task, Failed, Tail(queue), aborted)
    BY <1>3, <2>1 DEF Taken, RequestFails
  <2> QED
    BY <1>1, <2>1, <2>2, <2>3 DEF Continues
<1>4. CASE Resume
  <2>1. PICK task \in aborted : Settled(task, Offline, queue, aborted \ {task})
    BY <1>4 DEF Resume
  <2>2. task \in Tasks /\ Taken(task, queue, aborted \ {task})
    BY <1>0 DEF Taken
  <2>3. Offline \in Answers /\ Offline.kind # "response"
    BY DEF Offline, Answers
  <2> QED
    BY <1>0, <1>1, <2>1, <2>2, <2>3 DEF Continues
<1> QED
    BY <1>2, <1>3, <1>4

\* Any coroutine that goes on.
LEMMA ContinuesTurns ==
    ASSUME IInv, Owed, Turns, Delivers, LogGrows, PointTypeOK', starts' = starts, Continues
    PROVE  Turns'
<1>1. PICK task \in Tasks, answer \in Answers, q \in Seq(Entries) : \E a :
        /\ Taken(task, q, a) /\ Settled(task, answer, q, a)
        /\ answer.kind = "response" =>
             /\ \A s \in Starts :
                  task = StartTask(s) /\ start[s].pc = "sending" => Assigned(answer.id)
             /\ task = ReplayTask /\ replay.pc = "start" =>
                  \E i \in DOMAIN log' :
                       log'[i].type = "StartTransaction" /\ log'[i].tx = replay.tx
    BY DEF Continues
<1>2. PICK a :
        /\ Taken(task, q, a) /\ Settled(task, answer, q, a)
        /\ answer.kind = "response" =>
             /\ \A s \in Starts :
                  task = StartTask(s) /\ start[s].pc = "sending" => Assigned(answer.id)
             /\ task = ReplayTask /\ replay.pc = "start" =>
                  \E i \in DOMAIN log' :
                       log'[i].type = "StartTransaction" /\ log'[i].tx = replay.tx
    BY <1>1
<1>3. CASE task.of = "start"
    BY <1>2, <1>3, TaskCases, StartTurns DEF Settled
<1>4. CASE task.of = "stop"
    BY <1>2, <1>4, TaskCases, StopTurns DEF Settled
<1>5. CASE task.of = "report"
    BY <1>2, <1>5, TaskCases, ReportTurns DEF Settled
<1>6. CASE task.of = "replay"
    BY <1>2, <1>6, TaskCases, ReplayTurns DEF Settled
<1> QED
    BY <1>3, <1>4, <1>5, <1>6, TaskCases

\* A step that leaves the point alone, with less or the same in the queue.
LEMMA IdleTurns ==
    ASSUME IInv, Owed, Turns, Delivers, LogGrows, EntriesOf(queue') \subseteq EntriesOf(queue),
           UNCHANGED <<tx, outbox, start, replay, starts>>
    PROVE  Turns'
<1> DEFINE entry == [task |-> StopTask(None), msg |-> StatusMessage]
<1>1. Gained(entry) /\ entry.task # ReplayTask
    BY TaskKinds DEF Gained
<1> HIDE DEF entry
<1> QED
    BY <1>1, QuietTurns

\* A start begins, now.
LEMMA BeginStartTurns ==
    ASSUME IInv, Owed, Turns, Delivers, NEW s \in Starts, NEW c \in Connectors,
           BeginOfflineStart(s, c) \/ BeginOnlineStart(s, c)
    PROVE  Turns'
<1>0. /\ PointTypeOK /\ start \in [Starts -> StartValues] /\ queue \in Seq(Entries)
      /\ tx \in [Transactions -> TxValues] /\ outbox \in [Transactions -> Records]
      /\ RecordsKept /\ ClockAhead /\ starts \in Nat
    BY DEF IInv, Safe, TypeOK, PointTypeOK, Entries, Turns
<1>1. starts' = starts + 1 /\ replay' = replay /\ log' = log
    BY DEF BeginOfflineStart, BeginOnlineStart
<1>2. LogGrows
    BY <1>1 DEF LogGrows
<1>3. \A t \in Transactions : tx[t].at \in Nat /\ tx[t].at <= starts
    BY <1>0 DEF ClockAhead, TxValues
<1>4. \A u \in Starts : start[u].at \in Nat /\ start[u].at <= starts
    BY <1>0 DEF ClockAhead, StartValues
<1>5. \A u \in Starts : start'[u].at \in {start[u].at, starts}
  <2>1. CASE BeginOfflineStart(s, c)
    <3>1. start' = [start EXCEPT ![s].pc = "done"]
        BY <2>1 DEF BeginOfflineStart
    <3> QED
        BY <1>0, <3>1 DEF StartValues
  <2>2. CASE BeginOnlineStart(s, c)
    BY <1>0, <2>2 DEF BeginOnlineStart
  <2> QED
    BY <2>1, <2>2
<1>6. CASE BeginOfflineStart(s, c)
  <2>1. PICK t \in LocalIds :
           /\ tx[t].state = "absent"
           /\ CreateActive(t, c, starts)
           /\ outbox' = [outbox EXCEPT ![t] = RecordStarted]
    BY <1>6 DEF BeginOfflineStart
  <2> DEFINE value == [state |-> "active", connector |-> c, at |-> starts, samples |-> 0]
  <2>2. tx' = [tx EXCEPT ![t] = value] /\ t \in Transactions
    BY <2>1 DEF CreateActive, Transactions
  <2>3. tx'[t].at = starts /\ tx'[t].state = "active"
        /\ \A u \in Transactions : u # t => tx'[u] = tx[u]
    BY <1>0, <2>2
  <2>4. TransactionsStay
    BY <2>1, <2>3 DEF TransactionsStay, Transactions
  <2>5. ClockAhead'
    <3>1. ASSUME NEW u \in Transactions PROVE tx'[u].at <= starts'
        BY <1>0, <1>1, <1>3, <2>3
    <3>2. ASSUME NEW u \in Starts PROVE start'[u].at <= starts'
        BY <1>0, <1>1, <1>4, <1>5
    <3> QED
        BY <3>1, <3>2 DEF ClockAhead
  <2>6. ~outbox[t].kept
    BY <1>0, <2>1, <2>2 DEF RecordsKept
  <2>7. /\ ~outbox'[t].startReplayed
        /\ \A u \in Transactions : u # t => outbox'[u] = outbox[u]
    BY <1>0, <2>1, <2>2 DEF RecordStarted, NoRecord
  <2>9. StartsUnchanged
    BY <2>6, <2>7 DEF StartsUnchanged, Transactions
  <2> DEFINE entry == [task |-> StartTask(s), msg |-> StatusMessage]
  <2>10. Gained(entry) /\ entry.task # ReplayTask
    BY <1>6, StartTaskKinds DEF BeginOfflineStart, sessionVars, Gained
  <2> HIDE DEF entry
  <2> QED
    BY <1>1, <1>2, <2>4, <2>5, <2>9, <2>10, OtherTurns
<1>7. CASE BeginOnlineStart(s, c)
  <2> DEFINE entry == [task |-> StartTask(s), msg |-> StartMessage(None)]
  <2>1. /\ Request(StartTask(s), StartMessage(None), queue, aborted)
        /\ UNCHANGED <<tx, outbox>>
    BY <1>7 DEF BeginOnlineStart
  <2>2. Gained(entry) /\ entry.task # ReplayTask
    BY <1>0, <2>1, RequestEntries, StartTaskKinds DEF Gained
  <2>3. TransactionsStay
    BY <2>1 DEF TransactionsStay, Transactions
  <2>4. ClockAhead'
    <3>1. \A t \in Transactions : tx'[t].at <= starts'
        BY <1>0, <1>1, <1>3, <2>1
    <3>2. \A u \in Starts : start'[u].at <= starts'
        BY <1>0, <1>1, <1>4, <1>5
    <3> QED
        BY <3>1, <3>2 DEF ClockAhead
  <2>5. StartsUnchanged
    BY <2>1 DEF StartsUnchanged
  <2> HIDE DEF entry
  <2> QED
    BY <1>1, <1>2, <2>2, <2>3, <2>4, <2>5, OtherTurns
<1> QED
    BY <1>6, <1>7

\* A stop begins.
LEMMA BeginStopTurns ==
    ASSUME IInv, Owed, Turns, Delivers, NEW t \in Transactions,
           BeginOnlineStop(t) \/ BeginOfflineStop(t)
    PROVE  Turns'
<1>0. /\ PointTypeOK /\ tx \in [Transactions -> TxValues] /\ outbox \in [Transactions -> Records]
      /\ queue \in Seq(Entries) /\ ClockAhead
    BY DEF IInv, TypeOK, PointTypeOK, Entries, Turns
<1>1. /\ Active(t) /\ End(t) /\ UNCHANGED <<start, replay, log, starts>>
    BY DEF BeginOnlineStop, BeginOfflineStop, envVars
<1>2. tx' = [tx EXCEPT ![t].state = "ended"] /\ tx[t] \in TxValues
    BY <1>0, <1>1 DEF End
<1>3. \A u \in Transactions : (tx'[u].state = "absent") = (tx[u].state = "absent")
                              /\ tx'[u].at = tx[u].at
    BY <1>0, <1>1, <1>2 DEF Active, TxValues
<1>4. TransactionsStay /\ ClockAhead' /\ LogGrows
    BY <1>0, <1>1, <1>3 DEF TransactionsStay, ClockAhead, LogGrows, Transactions
<1> DEFINE entry == [task |-> StopTask(t), msg |-> StatusMessage]
<1>5. Gained(entry) /\ entry.task # ReplayTask
  <2>1. CASE BeginOnlineStop(t)
    <3>1. Request(StopTask(t), StatusMessage, queue, aborted)
        BY <2>1 DEF BeginOnlineStop
    <3> QED
        BY <1>0, <3>1, RequestEntries, TaskKinds DEF Gained
  <2>2. CASE BeginOfflineStop(t)
    BY <2>2, TaskKinds DEF BeginOfflineStop, sessionVars, Gained
  <2> QED
    BY <2>1, <2>2
<1>6. StartsUnchanged
  <2>1. CASE outbox' = outbox
    BY <2>1 DEF StartsUnchanged
  <2>2. CASE outbox' = [outbox EXCEPT ![t] = RecordStopped(outbox[t])]
    <3>1. /\ RecordStopped(outbox[t]).kept = outbox[t].kept
          /\ RecordStopped(outbox[t]).startReplayed = outbox[t].startReplayed
        BY <1>0 DEF RecordStopped, Records
    <3> QED
        BY <1>0, <2>2, <3>1 DEF StartsUnchanged, Transactions
  <2> QED
    BY <2>1, <2>2 DEF BeginOnlineStop, BeginOfflineStop
<1> HIDE DEF entry
<1> QED
    BY <1>1, <1>4, <1>5, <1>6, OtherTurns

\* A tick of a loop records its reading or asks.
LEMMA BeginReportTurns ==
    ASSUME IInv, Owed, Turns, Delivers, NEW t \in Transactions, BeginReport(t)
    PROVE  Turns'
<1> DEFINE n == tx[t].samples + 1
           message == MeterMessage(t, OcppIdOf(t), n)
           entry == [task |-> ReportTask(t, n), msg |-> message]
<1>0. PointTypeOK /\ queue \in Seq(Entries) /\ tx \in [Transactions -> TxValues]
    BY DEF IInv, TypeOK, PointTypeOK, Entries
<1>1. /\ UNCHANGED <<start, replay, starts, log>> /\ tx[t].state # "absent" /\ n \in Nat
      /\ tx' = [tx EXCEPT ![t].samples = n]
    BY <1>0 DEF BeginReport, envVars, Active, TxValues
<1>2. \A u \in Transactions : tx'[u].state = tx[u].state /\ tx'[u].at = tx[u].at
  <2> HIDE DEF n
  <2> QED
    BY <1>0, <1>1 DEF TxValues
<1>3. LogGrows
    BY <1>1 DEF LogGrows
<1>4. Gained(entry) /\ entry.task # ReplayTask
  <2>1. CASE UNCHANGED sessionVars
    BY <2>1, TaskKinds DEF sessionVars, Gained
  <2>2. CASE Request(ReportTask(t, n), message, queue, aborted)
    <3> HIDE DEF n, message
    <3> QED
        BY <1>0, <2>2, RequestEntries, TaskKinds DEF Gained
  <2> QED
    BY <2>1, <2>2 DEF BeginReport
<1>5. outbox' = outbox \/ RecordReading(t, n)
    BY DEF BeginReport
<1> HIDE DEF n, message, entry
<1> QED
    BY <1>1, <1>2, <1>3, <1>4, <1>5, ReadingTurns

\* A replay begins with every record that is pending: what began offline and is
\* not started is among them.
LEMMA ReplayBegunTurns ==
    ASSUME IInv, Owed, Turns, Delivers, PointTypeOK', replay.pc = "idle", ReplayBegun,
           UNCHANGED <<tx, outbox, start, starts, log>>
    PROVE  Turns'
<1> DEFINE snap == [t \in Transactions |-> IF t \in Pending THEN outbox[t] ELSE NoRecord]
           r == [ReplayIdle EXCEPT !.todo = Pending, !.snap = snap]
<1>0. /\ PointTypeOK /\ queue \in Seq(Entries) /\ RequestsMatched /\ RecordsKept
      /\ ClockAhead /\ StartedIsReceived /\ outbox \in [Transactions -> Records]
    BY DEF IInv, Safe, TypeOK, PointTypeOK, Turns, Entries
<1>1. snap \in [Transactions -> Records]
    BY <1>0 DEF NoRecord, Records, StopStates
<1>2. r \in Replays /\ r.todo = Pending /\ r.snap = snap /\ r.pc = "idle"
  <2>1. Pending \in SUBSET Transactions
    BY DEF Pending
  <2>2. ReplayIdle.pc = "idle"
    BY DEF ReplayIdle
  <2> HIDE DEF snap
  <2> QED
    BY <1>1, <2>1, <2>2, IdleType DEF Replays
<1>3. \A u \in r.todo : r.snap[u].startReplayed = outbox[u].startReplayed
    BY <1>2 DEF Pending, IsPending
<1>4. ReplayNext(r, bound, queue, aborted)
    BY DEF ReplayBegun
<1> HIDE DEF r, snap
<1>5. InTurn(r, outbox)
  <2>1. ASSUME NEW t \in r.todo, NEW u \in LocalIds, Before(u, t)
        PROVE  u \in r.todo \/ outbox[u].startReplayed
    <3>1. u \in Transactions /\ outbox[u].kept
        BY <1>0, <2>1 DEF RecordsKept, Before, Transactions
    <3> QED
        BY <1>2, <3>1 DEF Pending, IsPending
  <2> QED
    BY <1>2, <2>1 DEF InTurn
<1>6. WithoutReplay(queue, aborted)
    BY <1>0 DEF RequestsMatched, Matched, WithoutReplay
<1>7. InTurn(replay', outbox) /\ StartAsked'
    BY <1>0, <1>2, <1>3, <1>4, <1>5, <1>6, NextInTurn
<1>8. InTurn(replay, outbox)'
    BY <1>0, <1>7, SameBefore
<1>9. TransactionsStay /\ ClockAhead' /\ StartedIsReceived'
    BY <1>0 DEF TransactionsStay, ClockAhead, StartedIsReceived, ReceivedStart, Transactions
<1>10. OfflineStartsInOrder' /\ OnlyKnown'
    BY <1>9, DeliveredInTurn
<1> QED
    BY <1>7, <1>8, <1>9, <1>10 DEF Turns

\* Nothing has begun at first.
LEMMA InitTurns ==
    ASSUME Init
    PROVE  Turns
<1>1. queue = <<>> /\ EntriesOf(queue) = {} /\ log = <<>> /\ starts = 0
      /\ replay.todo = {} /\ replay.pc = "idle"
    BY DEF Init, EntriesOf, ReplayIdle
<1>2. ClockAhead
    BY DEF Init, ClockAhead, NoTransaction
<1>3. \A t \in Transactions : ~outbox[t].startReplayed
    BY DEF Init, NoRecord
<1>4. OnlyKnown /\ StartedIsReceived /\ OfflineStartsInOrder
    BY <1>1, <1>3 DEF OnlyKnown, StartedIsReceived, OfflineStartsInOrder, ReceivedStart, Transactions
<1> QED
    BY <1>1, <1>2, <1>4 DEF Turns, StartAsked, InTurn

\* Every step keeps the turns.
LEMMA TurnsStep ==
    ASSUME IInv, Owed, Turns, [Next]_vars
    PROVE  Turns'
<1>0. PointTypeOK' /\ Delivers
    BY TypeStep, StepDelivers DEF IInv, TypeOK
<1>1. CASE UNCHANGED <<tx, outbox, start, replay, starts, sessionVars, log>>
  <2>1. EntriesOf(queue') \subseteq EntriesOf(queue) /\ LogGrows
    BY <1>1 DEF sessionVars, LogGrows
  <2> QED
    BY <1>0, <1>1, <2>1, IdleTurns
<1>2. CASE \/ UNCHANGED vars \/ RestartMeterLoops \/ Connect \/ BootRefused
           \/ \E t \in Transactions : StopThrows(t) \/ LoopExpires(t)
    BY <1>1, <1>2
       DEF vars, pointVars, envVars, RestartMeterLoops, Connect, BootRefused, StopThrows, LoopExpires
<1>3. CASE \E s \in Starts, c \in Connectors :
              BeginOfflineStart(s, c) \/ BeginOnlineStart(s, c)
    BY <1>0, <1>3, BeginStartTurns
<1>4. CASE \E t \in Transactions : BeginOnlineStop(t) \/ BeginOfflineStop(t)
    BY <1>0, <1>4, BeginStopTurns
<1>5. CASE \E t \in Transactions : BeginReport(t)
    BY <1>0, <1>5, BeginReportTurns
<1>6. CASE Reply \/ RequestFails \/ Resume
  <2>1. StartAsked /\ starts' = starts
    BY <1>6 DEF Turns, Reply, RequestFails, Resume, envVars
  <2> QED
    BY <1>0, <1>6, <2>1, AnswersContinue, ContinuesTurns
<1>7. CASE Disconnect
  <2>1. queue' = <<>> /\ UNCHANGED pointVars /\ starts' = starts
    BY <1>7 DEF Disconnect
  <2>2. EntriesOf(queue') \subseteq EntriesOf(queue)
    BY <2>1 DEF EntriesOf
  <2>3. LogGrows
    <3>1. log \in Seq(Messages)
        BY DEF IInv, TypeOK
    <3>2. CASE log' = log
        BY <3>2 DEF LogGrows
    <3> QED
        BY <1>7, <3>1, <3>2, ReceivedGrows DEF Disconnect
  <2> QED
    BY <1>0, <2>1, <2>2, <2>3, IdleTurns DEF pointVars
<1>8. CASE BootAccepted \/ HeartbeatAnswered
  <2>1. CASE ReplayBegun /\ replay.pc = "idle"
    BY <1>0, <1>8, <2>1, ReplayBegunTurns DEF BootAccepted, HeartbeatAnswered, envVars
  <2>2. CASE UNCHANGED <<replay, bound, sessionVars>> /\ BootAccepted
    BY <1>1, <2>2 DEF BootAccepted
  <2> QED
    BY <1>8, <2>1, <2>2 DEF BootAccepted, HeartbeatAnswered
<1> QED
    BY <1>2, <1>3, <1>4, <1>5, <1>6, <1>7, <1>8 DEF Next

\* The starts are taken in turn.
THEOREM StartsTaken == Spec => []Turns
<1>1. Init => Turns
    BY InitTurns
<1>2. IInv /\ Owed /\ Turns /\ [Next]_vars => Turns'
    BY TurnsStep
<1> QED
    BY <1>1, <1>2, NothingElseIsOwed, PTL DEF Spec

\* The CSMS learns of the transactions that began offline in the order they
\* began (listPending's order in replayOfflineTransactions), whatever begins
\* while the replay waits.
THEOREM StartedInOrder == Spec => []OfflineStartsInOrder
<1>1. Turns => OfflineStartsInOrder
    BY DEF Turns
<1> QED
    BY <1>1, StartsTaken, PTL

-----------------------------------------------------------------------------
(* What the replay reads.  Copied says whose each reading and stop in the      *)
(* queue is, and that the marks in the outbox are those of the copy but for   *)
(* the readings the replay has been through.                                  *)

\* A reading or a stop in the queue is asked for by a report or a stop of that
\* transaction, or by the replay that is at it.
OwnedBy(e, r, st) ==
    /\ e.msg.type = "MeterValues" =>
         \/ /\ e.msg.tx \in Transactions /\ e.msg.sample \in Nat
            /\ e.task = ReportTask(e.msg.tx, e.msg.sample)
         \/ e.task = ReplayTask /\ r.pc = "meter" /\ r.tx = e.msg.tx
    /\ e.msg.type = "StopTransaction" =>
         \/ e.msg.tx \in Transactions /\ st[e.msg.tx] # "none"
         \/ e.task = ReplayTask /\ r.pc = "stop" /\ r.tx = e.msg.tx

RequestsOwned == \A e \in EntriesOf(queue) : OwnedBy(e, replay, stop)

\* Only a transaction whose id at the CSMS is known is reported on.
ReportsBound ==
    \A t \in Transactions, n \in Nat : Waiting(ReportTask(t, n)) => IsBound(t)

\* A record that is started has the id the CSMS gave.
IdsKnown == \A t \in Transactions : outbox[t].startReplayed => outbox[t].ocppId # None

\* Of the readings in the copy s, the record r has those before i replayed, and
\* the others as the copy has them.
Exact(r, s, i) ==
    \A j \in DOMAIN s.meterValues :
        IF j < i THEN r.meterValues[j].replayed
        ELSE r.meterValues[j].replayed = s.meterValues[j].replayed

\* The replay at r knows what the records in ob have left to send.
CopyExact(r, ob) ==
    /\ \A u \in r.todo : /\ Exact(ob[u], r.snap[u], 0)
                         /\ r.snap[u].startReplayed => r.snap[u].ocppId # None
    /\ r.pc = "start" => r.index = 0
    /\ r.pc \in {"start", "meter"} => Exact(ob[r.tx], r.snap[r.tx], r.index)
    /\ r.pc = "meter" => /\ r.index \in DOMAIN r.snap[r.tx].meterValues
                         /\ ~r.snap[r.tx].meterValues[r.index].replayed

Copied == RequestsOwned /\ ReportsBound /\ IdsKnown /\ CopyExact(replay, outbox)

\* The steps after which the point is as it was, and nothing new is asked.
Idles ==
    /\ UNCHANGED <<tx, bound, outbox, start, stop, loop, replay>>
    /\ EntriesOf(queue') \subseteq EntriesOf(queue)
    /\ \A task : Waiting(task)' => Waiting(task)
    /\ queue' = <<>> \/ (queue' = queue /\ aborted' = aborted)

\* The steps that stop loops or, when the interval changes, restart them.
LoopsChange ==
    /\ UNCHANGED <<tx, bound, outbox, start, stop, replay, queue, aborted>>
    /\ RestartMeterLoops \/ \E t \in Transactions : StopThrows(t) \/ LoopExpires(t)

ReplayBegins ==
    /\ replay.pc = "idle" /\ ReplayBegun
    /\ UNCHANGED <<tx, outbox, start, stop, loop, log>>

\* Every step is one of these, and the CSMS receives at most what was asked.
LEMMA StepCases ==
    ASSUME IInv, Owed, Turns, [Next]_vars
    PROVE  /\ LogGrows /\ Delivers /\ PointTypeOK'
           /\ \/ Idles
              \/ LoopsChange
              \/ ReplayBegins
              \/ Continues
              \/ \E s \in Starts, c \in Connectors :
                    BeginOfflineStart(s, c) \/ BeginOnlineStart(s, c)
              \/ \E t \in Transactions : BeginOnlineStop(t) \/ BeginOfflineStop(t)
              \/ \E t \in Transactions : BeginReport(t)
<1>0. PointTypeOK' /\ Delivers
    BY TypeStep, StepDelivers DEF IInv, TypeOK
<1>1. LogGrows
  <2>1. CASE log' = log
    BY <2>1 DEF LogGrows
  <2>2. CASE log' # log
    <3>1. log \in Seq(Messages)
        BY DEF IInv, TypeOK
    <3>2. \E receipt : log' = Append(log, receipt)
        BY <1>0, <2>2 DEF Delivers
    <3> QED
        BY <3>1, <3>2 DEF LogGrows
  <2> QED
    BY <2>1, <2>2
<1>2. CASE UNCHANGED vars \/ Connect \/ BootRefused
  <2>1. UNCHANGED <<pointVars, queue, aborted>>
    BY <1>2 DEF vars, sessionVars, Connect, BootRefused
  <2> QED
    BY <1>0, <1>1, <2>1 DEF Idles, pointVars, Waiting
<1>3. CASE Disconnect
  <2>1. queue' = <<>> /\ UNCHANGED pointVars /\ aborted' = {queue[i].task : i \in DOMAIN queue}
    BY <1>3 DEF Disconnect
  <2>2. EntriesOf(queue') \subseteq EntriesOf(queue) /\ \A task : Waiting(task)' => Waiting(task)
    BY <2>1 DEF EntriesOf, Waiting
  <2> QED
    BY <1>0, <1>1, <2>1, <2>2 DEF Idles, pointVars
<1>4. CASE RestartMeterLoops \/ \E t \in Transactions : StopThrows(t) \/ LoopExpires(t)
    BY <1>0, <1>1, <1>4 DEF LoopsChange, RestartMeterLoops, StopThrows, LoopExpires, sessionVars
<1>5. CASE BootAccepted \/ HeartbeatAnswered
  <2>1. CASE ReplayBegun /\ replay.pc = "idle"
    BY <1>0, <1>1, <1>5, <2>1 DEF BootAccepted, HeartbeatAnswered, ReplayBegins, envVars
  <2>2. CASE UNCHANGED <<replay, bound, sessionVars>> /\ BootAccepted
    BY <1>0, <1>1, <2>2 DEF BootAccepted, sessionVars, Idles, Waiting
  <2> QED
    BY <1>5, <2>1, <2>2 DEF BootAccepted, HeartbeatAnswered
<1>6. CASE Reply \/ RequestFails \/ Resume
    BY <1>0, <1>1, <1>6, AnswersContinue DEF Turns
<1> QED
    BY <1>0, <1>1, <1>2, <1>3, <1>4, <1>5, <1>6 DEF Next

\* A coroutine that continues is one of these.
LEMMA ContinueCases ==
    ASSUME Continues
    PROVE  \/ \E s \in Starts, answer \in Answers, q \in Seq(Entries) : \E a :
                /\ Taken(StartTask(s), q, a)
                /\ \/ StartAccepted(s, answer, q, a) /\ Assigned(answer.id)
                   \/ StartRefused(s, answer, q, a)
                   \/ StartNotified(s, q, a)
           \/ \E t \in Transactions, q \in Seq(Entries) : \E a :
                Taken(StopTask(t), q, a) /\ StopAnswered(t, q, a)
           \/ \E t \in Transactions, n \in Nat, answer \in Answers, q \in Seq(Entries) : \E a :
                Taken(ReportTask(t, n), q, a) /\ ReportAnswered(t, n, answer, q, a)
           \/ \E answer \in Answers, q \in Seq(Entries) : \E a :
                /\ Taken(ReplayTask, q, a) /\ ReplayAnswered(answer, q, a)
                /\ replay.pc = "start" /\ answer.kind = "response" => answer.id \in OcppIds
<1>1. PICK task \in Tasks, answer \in Answers, q \in Seq(Entries) : \E a :
        /\ Taken(task, q, a) /\ Settled(task, answer, q, a)
        /\ answer.kind = "response" =>
             /\ \A s \in Starts :
                  task = StartTask(s) /\ start[s].pc = "sending" => Assigned(answer.id)
             /\ task = ReplayTask /\ replay.pc = "start" => answer.id \in OcppIds
    BY DEF Continues
<1>2. PICK a :
        /\ Taken(task, q, a) /\ Settled(task, answer, q, a)
        /\ answer.kind = "response" =>
             /\ \A s \in Starts :
                  task = StartTask(s) /\ start[s].pc = "sending" => Assigned(answer.id)
             /\ task = ReplayTask /\ replay.pc = "start" => answer.id \in OcppIds
    BY <1>1
<1>3. CASE task.of = "start"
  <2>1. task.id \in Starts /\ task = StartTask(task.id)
    BY <1>3, TaskCases
  <2>2. \/ StartAccepted(task.id, answer, q, a)
        \/ StartRefused(task.id, answer, q, a)
        \/ StartNotified(task.id, q, a)
    BY <1>2, <1>3 DEF Settled
  <2>3. StartAccepted(task.id, answer, q, a) => Assigned(answer.id)
    BY <1>2, <2>1 DEF StartAccepted
  <2>4. Taken(StartTask(task.id), q, a)
    BY <1>2, <2>1
  <2> QED
    BY <2>1, <2>2, <2>3, <2>4
<1>4. CASE task.of = "stop"
  <2>1. task.id \in Transactions /\ task = StopTask(task.id) /\ StopAnswered(task.id, q, a)
    BY <1>2, <1>4, TaskCases DEF Settled
  <2>2. Taken(StopTask(task.id), q, a)
    BY <1>2, <2>1
  <2> QED
    BY <2>1, <2>2
<1>5. CASE task.of = "report"
  <2>1. /\ task.id \in Transactions /\ task.sample \in Nat
        /\ task = ReportTask(task.id, task.sample)
        /\ ReportAnswered(task.id, task.sample, answer, q, a)
    BY <1>2, <1>5, TaskCases DEF Settled
  <2>2. Taken(ReportTask(task.id, task.sample), q, a)
    BY <1>2, <2>1
  <2> QED
    BY <2>1, <2>2
<1>6. CASE task.of = "replay"
  <2>1. task = ReplayTask /\ ReplayAnswered(answer, q, a)
    BY <1>2, <1>6, TaskCases DEF Settled
  <2> QED
    BY <1>2, <2>1
<1> QED
    BY <1>3, <1>4, <1>5, <1>6, TaskCases

\* Only the replay changes where the replay is.
LEMMA ContinueReplay ==
    ASSUME Continues
    PROVE  \/ replay' = replay
           \/ \E answer \in Answers, q \in Seq(Entries) : \E a :
                /\ Taken(ReplayTask, q, a) /\ ReplayAnswered(answer, q, a)
                /\ replay.pc = "start" /\ answer.kind = "response" => answer.id \in OcppIds
<1>1. ASSUME NEW s, NEW answer, NEW q, NEW a,
             StartAccepted(s, answer, q, a) \/ StartRefused(s, answer, q, a) \/ StartNotified(s, q, a)
      PROVE  replay' = replay
    BY <1>1 DEF StartAccepted, StartRefused, StartNotified
<1>2. ASSUME NEW t, NEW q, NEW a, StopAnswered(t, q, a) PROVE replay' = replay
    BY <1>2 DEF StopAnswered
<1>3. ASSUME NEW t, NEW n, NEW answer, NEW q, NEW a, ReportAnswered(t, n, answer, q, a)
      PROVE  replay' = replay
    BY <1>3 DEF ReportAnswered
<1> QED
    BY <1>1, <1>2, <1>3, ContinueCases

\* A request makes no other coroutine wait.
LEMMA OthersWait ==
    ASSUME NEW task, NEW message, queue \in Seq(Entries), Request(task, message, queue, aborted),
           NEW other, other # task, Waiting(other)'
    PROVE  Waiting(other)
<1>1. \A third : Waiting(third)' => third = task \/ WaitsIn(third, queue, aborted)
    BY RequestWaits
<1> QED
    BY <1>1 DEF Waiting, WaitsIn

\* The positions of a record's readings begin at 1.
LEMMA ExactFrom ==
    ASSUME NEW r, NEW s \in Records, Exact(r, s, 0)
    PROVE  Exact(r, s, 1)
<1>1. DOMAIN s.meterValues = 1..Len(s.meterValues) /\ Len(s.meterValues) \in Nat
    BY MeterValuesType
<1> QED
    BY <1>1 DEF Exact

\* A record that is extended has the same left to send of the copy.
LEMMA ExtendedExact ==
    ASSUME NEW r, NEW ob, NEW s, NEW i, Grown(s, r), Exact(r, s, i), Extended(r, ob)
    PROVE  Exact(ob, s, i)
<1>1. ASSUME NEW j \in DOMAIN s.meterValues
      PROVE  ob.meterValues[j] = r.meterValues[j]
    BY DEF Grown, Extended
<1> QED
    BY <1>1 DEF Exact

\* Marking the reading that was sent leaves the rest to send.
LEMMA MarkExact ==
    ASSUME NEW r \in Records, NEW s \in Records, NEW i \in DOMAIN s.meterValues,
           Grown(s, r), Exact(r, s, i)
    PROVE  Exact(MarkMeterValueReplayed(r, i), s, i + 1)
<1> DEFINE marked == MarkMeterValueReplayed(r, i)
<1>1. i \in DOMAIN r.meterValues /\ i \in Nat /\ DOMAIN s.meterValues \subseteq Nat
      /\ DOMAIN s.meterValues \subseteq DOMAIN r.meterValues
    BY MeterValuesType DEF Grown
<1>2. \A j \in DOMAIN r.meterValues : j # i => marked.meterValues[j] = r.meterValues[j]
    BY <1>1, MarkReading
<1>3. marked.meterValues[i].replayed
  <2>1. r.meterValues[i] \in [sample : Nat, replayed : BOOLEAN]
        /\ r.meterValues \in Seq([sample : Nat, replayed : BOOLEAN])
    BY <1>1, MeterValuesType, ElementOfSeq
  <2>2. marked = [r EXCEPT !.meterValues[i].replayed = TRUE]
    BY <1>1 DEF MarkMeterValueReplayed
  <2>3. marked.meterValues = [r.meterValues EXCEPT ![i] = [r.meterValues[i] EXCEPT !.replayed = TRUE]]
    BY <2>2 DEF Records
  <2>4. marked.meterValues[i] = [r.meterValues[i] EXCEPT !.replayed = TRUE]
    BY <1>1, <2>1, <2>3
  <2> QED
    BY <2>1, <2>4
<1> HIDE DEF marked
<1>4. ASSUME NEW j \in DOMAIN s.meterValues
      PROVE  IF j < i + 1 THEN marked.meterValues[j].replayed
             ELSE marked.meterValues[j].replayed = s.meterValues[j].replayed
  <2>1. CASE j = i
    BY <1>1, <1>3, <2>1
  <2>2. CASE j # i
    <3>1. j \in Nat /\ marked.meterValues[j] = r.meterValues[j]
        BY <1>1, <1>2, <2>2
    <3>2. IF j < i THEN r.meterValues[j].replayed
          ELSE r.meterValues[j].replayed = s.meterValues[j].replayed
        BY DEF Exact
    <3> QED
        BY <1>1, <2>2, <3>1, <3>2
  <2> QED
    BY <2>1, <2>2
<1> QED
    BY <1>4 DEF Exact, marked

\* The replay asks only for readings and the stop of the record it is at.
AsksOwn(q, a) ==
    \E message :
        /\ Request(ReplayTask, message, q, a) \/ Finish(q, a)
        /\ OwnedBy([task |-> ReplayTask, msg |-> message], replay', stop')

\* Which requests need no owner.
LEMMA OwnMessages ==
    /\ \A task, r, st : OwnedBy([task |-> task, msg |-> StatusMessage], r, st)
    /\ \A task, r, st, t : OwnedBy([task |-> task, msg |-> StartMessage(t)], r, st)
    /\ \A r, st, t, id, n : r.pc = "meter" /\ r.tx = t =>
         OwnedBy([task |-> ReplayTask, msg |-> MeterMessage(t, id, n)], r, st)
    /\ \A r, st, t, id : r.pc = "stop" /\ r.tx = t =>
         OwnedBy([task |-> ReplayTask, msg |-> StopMessage(t, id)], r, st)
<1>1. /\ StatusMessage.type = "StatusNotification"
      /\ \A t : StartMessage(t).type = "StartTransaction"
      /\ \A t, id, n : MeterMessage(t, id, n).type = "MeterValues" /\ MeterMessage(t, id, n).tx = t
      /\ \A t, id : StopMessage(t, id).type = "StopTransaction" /\ StopMessage(t, id).tx = t
    BY DEF StatusMessage, StartMessage, MeterMessage, StopMessage, Message
<1>2. \A task, message : /\ [task |-> task, msg |-> message].task = task
                        /\ [task |-> task, msg |-> message].msg = message
    OBVIOUS
<1>3. ASSUME NEW task, NEW message, NEW r, NEW st,
             \/ message.type \notin {"MeterValues", "StopTransaction"}
             \/ message.type = "MeterValues" /\ task = ReplayTask /\ r.pc = "meter" /\ r.tx = message.tx
             \/ message.type = "StopTransaction" /\ task = ReplayTask /\ r.pc = "stop" /\ r.tx = message.tx
      PROVE  OwnedBy([task |-> task, msg |-> message], r, st)
    BY <1>3 DEF OwnedBy
<1> QED
    BY <1>1, <1>3

\* The replay's requests are its own.
LEMMA AskedIsOwned ==
    ASSUME RequestsOwned, NEW q \in Seq(Entries), NEW a, WithoutReplay(q, a),
           EntriesOf(q) \subseteq EntriesOf(queue), stop' = stop, AsksOwn(q, a)
    PROVE  RequestsOwned'
<1>1. PICK message :
        /\ Request(ReplayTask, message, q, a) \/ Finish(q, a)
        /\ OwnedBy([task |-> ReplayTask, msg |-> message], replay', stop')
    BY DEF AsksOwn
<1> DEFINE entry == [task |-> ReplayTask, msg |-> message]
<1>2. EntriesOf(queue') \subseteq EntriesOf(q) \cup {entry}
  <2>1. CASE Finish(q, a)
    BY <2>1 DEF Finish, EntriesOf
  <2> QED
    BY <1>1, <2>1, RequestEntries
<1>3. OwnedBy(entry, replay', stop')
    BY <1>1
<1>4. \A e \in EntriesOf(q) : e.task # ReplayTask
    BY DEF EntriesOf, WithoutReplay, WaitsIn
<1> HIDE DEF entry
<1>5. \A e \in EntriesOf(q) : OwnedBy(e, replay', stop')
    BY <1>4 DEF RequestsOwned, OwnedBy
<1> QED
    BY <1>2, <1>3, <1>5 DEF RequestsOwned

\* The readings of a record the replay goes on with.
LEMMA ReadingsExact ==
    ASSUME NEW r \in Replays, r.tx \in Transactions, NEW q, NEW a, ReplayReadings(r, q, a),
           NEW ob, Exact(ob[r.tx], r.snap[r.tx], r.index + 1),
           \A u \in r.todo : /\ Exact(ob[u], r.snap[u], 0)
                             /\ r.snap[u].startReplayed => r.snap[u].ocppId # None
    PROVE  CopyExact(replay', ob) /\ AsksOwn(q, a)
<1> DEFINE record == r.snap[r.tx]
           unsent == {i \in UnsentMeterValues(record) : i > r.index}
<1>0. record \in Records /\ r.index \in Nat
    BY DEF Replays
<1>1. CASE \E i \in unsent :
             /\ \A j \in unsent : i <= j
             /\ replay' = [r EXCEPT !.pc = "meter", !.index = i]
             /\ Request(ReplayTask, MeterMessage(r.tx, r.id, record.meterValues[i].sample), q, a)
  <2> HIDE DEF unsent
  <2>1. PICK i \in unsent :
             /\ \A j \in unsent : i <= j
             /\ replay' = [r EXCEPT !.pc = "meter", !.index = i]
             /\ Request(ReplayTask, MeterMessage(r.tx, r.id, record.meterValues[i].sample), q, a)
    BY <1>1
  <2>2. /\ replay'.pc = "meter" /\ replay'.index = i /\ replay'.tx = r.tx /\ replay'.todo = r.todo
        /\ replay'.snap = r.snap
    BY <2>1 DEF Replays
  <2>3. i \in DOMAIN record.meterValues /\ ~record.meterValues[i].replayed /\ i > r.index
    BY DEF unsent, UnsentMeterValues
  <2>4. DOMAIN record.meterValues \subseteq Nat
    BY <1>0, MeterValuesType
  <2> HIDE DEF record
  <2>5. AsksOwn(q, a)
    BY <2>1, <2>2, OwnMessages DEF AsksOwn
  <2>6. ASSUME NEW j \in DOMAIN record.meterValues
        PROVE  IF j < i THEN ob[r.tx].meterValues[j].replayed
               ELSE ob[r.tx].meterValues[j].replayed = record.meterValues[j].replayed
    <3>1. IF j < r.index + 1 THEN ob[r.tx].meterValues[j].replayed
          ELSE ob[r.tx].meterValues[j].replayed = record.meterValues[j].replayed
        BY DEF Exact, record
    <3>2. j \in Nat /\ i \in Nat
        BY <2>3, <2>4
    <3>3. CASE j < r.index + 1
        BY <1>0, <2>3, <3>1, <3>2, <3>3
    <3>4. CASE ~(j < r.index + 1) /\ j < i
      <4>1. j \notin unsent
        BY <2>1, <3>2, <3>4
      <4>2. record.meterValues[j].replayed
        BY <1>0, <3>2, <3>4, <4>1 DEF unsent, UnsentMeterValues
      <4> QED
        BY <3>1, <3>4, <4>2
    <3>5. CASE ~(j < i)
        BY <1>0, <2>3, <3>1, <3>2, <3>5
    <3> QED
        BY <3>3, <3>4, <3>5
  <2>7. Exact(ob[r.tx], record, i)
    BY <2>6 DEF Exact
  <2> QED
    BY <2>2, <2>3, <2>5, <2>7 DEF CopyExact, record
<1>2. CASE /\ replay' = [r EXCEPT !.pc = "stop"]
           /\ Request(ReplayTask, StopMessage(r.tx, r.id), q, a)
  <2>1. /\ replay'.pc = "stop" /\ replay'.tx = r.tx /\ replay'.todo = r.todo
        /\ replay'.snap = r.snap
    BY <1>2 DEF Replays
  <2>2. AsksOwn(q, a)
    BY <1>2, <2>1, OwnMessages DEF AsksOwn
  <2> QED
    BY <2>1, <2>2 DEF CopyExact
<1>3. CASE /\ replay' = [r EXCEPT !.pc = "charging"]
           /\ Request(ReplayTask, StatusMessage, q, a)
  <2>1. /\ replay'.pc = "charging" /\ replay'.todo = r.todo /\ replay'.snap = r.snap
    BY <1>3 DEF Replays
  <2>2. AsksOwn(q, a)
    BY <1>3, OwnMessages DEF AsksOwn
  <2> QED
    BY <2>1, <2>2 DEF CopyExact
<1> QED
    BY <1>1, <1>2, <1>3 DEF ReplayReadings

\* The next record is as it was copied.
LEMMA NextExact ==
    ASSUME PointTypeOK, NEW r \in Replays, NEW ids \in [Transactions -> OcppIds \cup {None}],
           NEW q, NEW a, ReplayNext(r, ids, q, a), NEW ob,
           \A u \in r.todo : /\ Exact(ob[u], r.snap[u], 0)
                             /\ r.snap[u].startReplayed => r.snap[u].ocppId # None
    PROVE  /\ CopyExact(replay', ob) /\ AsksOwn(q, a)
           /\ \A u \in Transactions : ids[u] # None => bound'[u] # None
<1> DEFINE t == Earliest(r.todo)
           taken == [r EXCEPT !.todo = r.todo \ {t}, !.tx = t, !.index = 0,
                              !.id = r.snap[t].ocppId]
<1>1. CASE r.todo = {}
  <2>1. replay' = ReplayIdle /\ Finish(q, a) /\ bound' = ids
    BY <1>1 DEF ReplayNext
  <2>2. AsksOwn(q, a)
    BY <2>1, OwnMessages DEF AsksOwn
  <2> QED
    BY <2>1, <2>2 DEF CopyExact, ReplayIdle
<1>2. CASE r.todo # {}
  <2>1. t \in r.todo
    <3>1. r.todo \in SUBSET Transactions
        BY DEF Replays
    <3> QED
        BY <1>2, <3>1, EarliestExists
  <2>2. r.snap[t].ocppId \in OcppIds \cup {None} /\ t \in Transactions /\ r.snap[t] \in Records
    BY <2>1 DEF Replays, Records
  <2>3. taken \in Replays /\ taken.tx = t /\ taken.todo = r.todo \ {t} /\ taken.snap = r.snap
        /\ taken.index = 0
    BY <2>1, <2>2 DEF Replays
  <2>4. Exact(ob[t], r.snap[t], 0) /\ Exact(ob[t], r.snap[t], 1)
    BY <2>1, <2>2, ExactFrom
  <2>5. CASE ~r.snap[t].startReplayed
    <3>1. replay' = [taken EXCEPT !.pc = "start"] /\ bound' = ids
          /\ Request(ReplayTask, StartMessage(t), q, a)
        BY <1>2, <2>5 DEF ReplayNext
    <3>2. replay'.pc = "start" /\ replay'.tx = t /\ replay'.todo = r.todo \ {t}
          /\ replay'.snap = r.snap /\ replay'.index = 0
        BY <2>3, <3>1 DEF Replays
    <3>3. AsksOwn(q, a)
        BY <3>1, OwnMessages DEF AsksOwn
    <3> HIDE DEF taken, t
    <3> QED
        BY <2>4, <3>1, <3>2, <3>3 DEF CopyExact
  <2>6. CASE r.snap[t].startReplayed
    <3>1. ReplayReadings(taken, q, a) /\ bound' = [ids EXCEPT ![t] = r.snap[t].ocppId]
        BY <1>2, <2>6 DEF ReplayNext
    <3>2. r.snap[t].ocppId # None
        BY <2>1, <2>6
    <3> HIDE DEF taken, t
    <3>3. CopyExact(replay', ob) /\ AsksOwn(q, a)
      <4>1. Exact(ob[taken.tx], taken.snap[taken.tx], taken.index + 1)
        BY <2>3, <2>4
      <4> QED
        BY <2>2, <2>3, <3>1, <4>1, ReadingsExact
    <3> QED
        BY <3>1, <3>2, <3>3
  <2> QED
    BY <2>5, <2>6
<1> QED
    BY <1>1, <1>2

\* What the methods do to the id a record is known by.
LEMMA IdsOf ==
    ASSUME NEW record \in Records, NEW id, NEW n
    PROVE  /\ RecordMeterValue(record, n).startReplayed = record.startReplayed
           /\ RecordMeterValue(record, n).ocppId = record.ocppId
           /\ RecordStopped(record).startReplayed = record.startReplayed
           /\ RecordStopped(record).ocppId = record.ocppId
           /\ MarkMeterValueReplayed(record, n).startReplayed = record.startReplayed
           /\ MarkMeterValueReplayed(record, n).ocppId = record.ocppId
           /\ MarkStopReplayed(record).startReplayed = record.startReplayed
           /\ MarkStopReplayed(record).ocppId = record.ocppId
           /\ BindStart(record, id) = record \/ BindStart(record, id).ocppId = id
<1>1. /\ RecordMeterValue(record, n).startReplayed = record.startReplayed
      /\ RecordMeterValue(record, n).ocppId = record.ocppId
    BY DEF RecordMeterValue, Records
<1>2. /\ RecordStopped(record).startReplayed = record.startReplayed
      /\ RecordStopped(record).ocppId = record.ocppId
      /\ MarkStopReplayed(record).startReplayed = record.startReplayed
      /\ MarkStopReplayed(record).ocppId = record.ocppId
    BY DEF RecordStopped, MarkStopReplayed, Records
<1>3. /\ MarkMeterValueReplayed(record, n).startReplayed = record.startReplayed
      /\ MarkMeterValueReplayed(record, n).ocppId = record.ocppId
    BY DEF MarkMeterValueReplayed, Records
<1>4. BindStart(record, id) = record \/ BindStart(record, id).ocppId = id
    BY DEF BindStart, Records
<1> QED
    BY <1>1, <1>2, <1>3, <1>4

\* A reading is recorded under an id that is known.
LEMMA ReadingIds ==
    ASSUME PointTypeOK, IdsKnown, NEW t \in Transactions, NEW n \in Nat, RecordReading(t, n)
    PROVE  IdsKnown'
<1> DEFINE record == IF outbox[t].kept \/ ~IsBound(t) THEN outbox[t]
                     ELSE RecordBoundStarted(OcppIdOf(t))
<1>1. outbox \in [Transactions -> Records] /\ outbox[t] \in Records
    BY DEF PointTypeOK
<1>2. outbox' = [outbox EXCEPT ![t] = RecordMeterValue(record, n)]
    BY DEF RecordReading
<1>3. record \in Records /\ (record.startReplayed => record.ocppId # None)
  <2>1. CASE record = outbox[t]
    BY <1>1, <2>1 DEF IdsKnown
  <2>2. CASE record # outbox[t]
    <3>1. record = RecordBoundStarted(OcppIdOf(t)) /\ OcppIdOf(t) # None
        BY <2>2 DEF IsBound
    <3>2. OcppIdOf(t) \in OcppIds \cup {None}
        BY OcppIdOfType
    <3>3. RecordBoundStarted(OcppIdOf(t)) \in Records
        BY <1>1, <3>2, RecordTypes
    <3>4. RecordBoundStarted(OcppIdOf(t)).ocppId = OcppIdOf(t)
        BY DEF RecordBoundStarted, NoRecord
    <3> QED
        BY <3>1, <3>3, <3>4
  <2> QED
    BY <2>1, <2>2
<1> HIDE DEF record
<1>4. outbox'[t].startReplayed => outbox'[t].ocppId # None
    BY <1>1, <1>2, <1>3, IdsOf
<1> QED
    BY <1>1, <1>2, <1>4 DEF IdsKnown

\* A transaction that is bound stays so.
LEMMA BoundStays ==
    ASSUME \A t \in Transactions : bound[t] # None => bound'[t] # None, NEW t \in Transactions, IsBound(t)
    PROVE  IsBound(t)'
    BY IdsAssumption DEF IsBound, OcppIdOf, Transactions

\* A step of another coroutine, the user or a timer.
LEMMA OtherCopied ==
    ASSUME IInv, Owed, Copied, PointTypeOK', UNCHANGED <<replay, bound>>, NEW e, Gained(e), OwnedBy(e, replay', stop'),
           \A t \in Transactions : stop[t] # "none" => stop'[t] # "none",
           \A t \in Transactions, n \in Nat :
               Waiting(ReportTask(t, n))' => Waiting(ReportTask(t, n)) \/ IsBound(t),
           \A t \in Transactions : Extended(outbox[t], outbox'[t]),
           IdsKnown'
    PROVE  Copied'
<1>0. RequestsOwned /\ ReportsBound /\ CopyExact(replay, outbox) /\ CopyIsOlder
      /\ replay \in Replays /\ replay.todo \subseteq Transactions
      /\ (replay.pc # "idle" => replay.tx \in Transactions) /\ replay' = replay
    BY DEF Copied, IInv, Safe, TypeOK, PointTypeOK, Replays
<1>1. RequestsOwned'
    BY <1>0 DEF RequestsOwned, OwnedBy, Gained
<1>2. ReportsBound'
    BY <1>0, BoundStays DEF ReportsBound
<1>3. \A u \in Transactions : \A i : Exact(outbox[u], replay.snap[u], i) => Exact(outbox'[u], replay.snap[u], i)
  <2>1. ASSUME NEW u \in Transactions, NEW i, Exact(outbox[u], replay.snap[u], i)
        PROVE  Exact(outbox'[u], replay.snap[u], i)
    <3>1. Grown(replay.snap[u], outbox[u]) /\ Extended(outbox[u], outbox'[u])
        BY <1>0 DEF CopyIsOlder
    <3> QED
        BY <2>1, <3>1, ExtendedExact
  <2> QED
    BY <2>1
<1>4. CopyExact(replay, outbox')
    BY <1>0, <1>3 DEF CopyExact
<1> QED
    BY <1>0, <1>1, <1>2, <1>4 DEF Copied

\* The replay goes on.
LEMMA ReplayCopied ==
    ASSUME IInv, Owed, Copied, PointTypeOK', NEW answer \in Answers,
           NEW q \in Seq(Entries), NEW a, Taken(ReplayTask, q, a), ReplayAnswered(answer, q, a),
           replay.pc = "start" /\ answer.kind = "response" => answer.id \in OcppIds
    PROVE  Copied'
<1> DEFINE t == replay.tx
<1>0. /\ TypeOK /\ PointTypeOK /\ queue \in Seq(Entries) /\ RequestsMatched
      /\ RequestsOwned /\ ReportsBound /\ IdsKnown /\ CopyExact(replay, outbox) /\ CopyIsOlder
      /\ TakesKept(replay, outbox) /\ StopsOwned
      /\ outbox \in [Transactions -> Records] /\ replay \in Replays
      /\ bound \in [Transactions -> OcppIds \cup {None}]
    BY DEF IInv, Safe, TypeOK, PointTypeOK, Owed, ReplaySound, Entries, Copied
<1>1. WithoutReplay(q, a) /\ replay.pc # "idle"
    BY <1>0, TakenMatched
<1>2. t \in Transactions /\ t \notin replay.todo /\ outbox[t].kept /\ outbox[t] \in Records
      /\ replay.todo \subseteq Transactions /\ replay.snap[t] \in Records
    BY <1>0, <1>1 DEF PointTypeOK, TakesKept, Replays
<1>3. stop' = stop /\ EntriesOf(q) \subseteq EntriesOf(queue)
    BY <1>0, TakenEntries DEF ReplayAnswered
<1>4. \A u \in replay.todo : /\ Exact(outbox[u], replay.snap[u], 0)
                             /\ replay.snap[u].startReplayed => replay.snap[u].ocppId # None
    BY <1>0 DEF CopyExact
<1> DEFINE Others == \A u \in Transactions : u # t => outbox'[u] = outbox[u]
           Bound == \A u \in Transactions : bound[u] # None => bound'[u] # None
           Goal == CopyExact(replay', outbox') /\ AsksOwn(q, a) /\ Bound /\ IdsKnown'
<1>5. ASSUME Others
      PROVE  \A u \in replay.todo :
               /\ Exact(outbox'[u], replay.snap[u], 0)
               /\ replay.snap[u].startReplayed => replay.snap[u].ocppId # None
    BY <1>2, <1>4, <1>5
<1>6. ASSUME ReplayAbandoned(answer, q, a)
      PROVE  Goal
  <2>1. replay' = ReplayIdle /\ Finish(q, a) /\ outbox' = outbox /\ bound' = bound
    BY <1>6 DEF ReplayAbandoned
  <2>2. AsksOwn(q, a)
    BY <2>1, OwnMessages DEF AsksOwn
  <2> QED
    BY <1>0, <2>1, <2>2 DEF CopyExact, ReplayIdle, IdsKnown
<1>7. ASSUME ReplayStartAnswered(answer, q, a)
      PROVE  Goal
  <2> DEFINE record == BindStart(outbox[t], answer.id)
             r == [replay EXCEPT !.id = answer.id]
  <2>1. answer.id \in OcppIds /\ answer.id # None /\ answer.kind = "response" /\ replay.pc = "start"
    BY <1>7, IdsAssumption DEF ReplayStartAnswered, Transactions
  <2>2. record \in Records /\ record.ocppId # None
    <3>1. record \in Records
        BY <1>2, <2>1, RecordTypes
    <3>2. record = outbox[t] \/ record.ocppId = answer.id
        BY <1>2, IdsOf
    <3>3. record.ocppId = answer.id
        BY <1>2, <2>1 DEF BindStart, Records
    <3> QED
        BY <2>1, <3>1, <3>3
  <2>3. r \in Replays /\ r.tx = t /\ r.todo = replay.todo /\ r.snap = replay.snap /\ r.index = 0
    <3>1. replay.index = 0
        BY <1>0, <2>1 DEF CopyExact
    <3> QED
        BY <1>0, <2>1, <3>1 DEF Replays
  <2>4. outbox' = [outbox EXCEPT ![t] = record] \/ outbox' = [outbox EXCEPT ![t] = RecordStopped(record)]
    BY <1>7 DEF ReplayStartAnswered
  <2>5. Extended(outbox[t], outbox'[t]) /\ outbox'[t].ocppId # None /\ Others
    <3>1. Extended(outbox[t], record) /\ Extended(outbox[t], RecordStopped(record))
        BY <1>2, StopAndBindExtend
    <3>2. RecordStopped(record).ocppId # None
        BY <2>2, IdsOf
    <3> HIDE DEF record
    <3> QED
        BY <1>0, <1>2, <2>2, <2>4, <3>1, <3>2
  <2>6. IdsKnown'
    BY <1>0, <2>5 DEF IdsKnown
  <2>7. Bound
    BY <1>0, <1>7, <2>1 DEF ReplayStartAnswered
  <2>8. Exact(outbox'[t], r.snap[t], r.index + 1)
    <3>1. Exact(outbox[t], replay.snap[t], 0)
        BY <1>0, <2>1 DEF CopyExact
    <3>2. Grown(replay.snap[t], outbox[t])
        BY <1>0, <1>2 DEF CopyIsOlder
    <3>3. Exact(outbox'[t], replay.snap[t], 0)
        BY <2>5, <3>1, <3>2, ExtendedExact
    <3> HIDE DEF r
    <3> QED
        BY <1>2, <2>3, <3>3, ExactFrom
  <2>9. /\ replay'.pc \in {"stop", "charging"} => replay'.tx = t /\ replay'.todo = replay.todo
        /\ CopyExact(replay', outbox') /\ AsksOwn(q, a)
    <3> HIDE DEF record
    <3>1. CASE ReplayReadings(r, q, a)
      <4>1. \A u \in r.todo : /\ Exact(outbox'[u], r.snap[u], 0)
                              /\ r.snap[u].startReplayed => r.snap[u].ocppId # None
        BY <1>5, <2>3, <2>5
      <4> HIDE DEF r
      <4>2. CopyExact(replay', outbox') /\ AsksOwn(q, a)
        BY <1>2, <2>3, <2>8, <3>1, <4>1, ReadingsExact
      <4>3. replay'.tx = r.tx /\ replay'.todo = r.todo
        BY <2>3, <3>1, ReadingsAsk
      <4> QED
        BY <2>3, <4>2, <4>3
    <3>2. CASE replay' = [r EXCEPT !.pc = "stop"] /\ Request(ReplayTask, StopMessage(t, answer.id), q, a)
      <4>1. replay'.pc = "stop" /\ replay'.tx = t /\ replay'.todo = replay.todo /\ replay'.snap = replay.snap
        BY <2>3, <3>2 DEF Replays
      <4>2. AsksOwn(q, a)
        BY <3>2, <4>1, OwnMessages DEF AsksOwn
      <4> HIDE DEF r
      <4> QED
        BY <1>5, <2>5, <4>1, <4>2 DEF CopyExact
    <3>3. CASE replay' = [r EXCEPT !.pc = "charging"] /\ Request(ReplayTask, StatusMessage, q, a)
      <4>1. replay'.pc = "charging" /\ replay'.tx = t /\ replay'.todo = replay.todo /\ replay'.snap = replay.snap
        BY <2>3, <3>3 DEF Replays
      <4>2. AsksOwn(q, a)
        BY <3>3, OwnMessages DEF AsksOwn
      <4> HIDE DEF r
      <4> QED
        BY <1>5, <2>5, <4>1, <4>2 DEF CopyExact
    <3> QED
        BY <1>7, <3>1, <3>2, <3>3 DEF ReplayStartAnswered
  <2> QED
    BY <2>6, <2>7, <2>9
<1>8. ASSUME ReplayReadingAnswered(answer, q, a)
      PROVE  Goal
  <2> DEFINE i == replay.index
             record == MarkMeterValueReplayed(outbox[t], i)
  <2>1. /\ outbox' = [outbox EXCEPT ![t] = record] /\ bound' = bound /\ replay.pc = "meter"
        /\ ReplayReadings(replay, q, a)
    BY <1>8 DEF ReplayReadingAnswered
  <2>2. i \in DOMAIN replay.snap[t].meterValues /\ Exact(outbox[t], replay.snap[t], i)
        /\ Grown(replay.snap[t], outbox[t])
    BY <1>0, <1>2, <2>1 DEF CopyExact, CopyIsOlder
  <2>3. Exact(record, replay.snap[t], i + 1)
    BY <1>2, <2>2, MarkExact
  <2>4. record.startReplayed = outbox[t].startReplayed /\ record.ocppId = outbox[t].ocppId
    BY <1>2, IdsOf
  <2> HIDE DEF record
  <2>5. Exact(outbox'[t], replay.snap[t], i + 1) /\ Others /\ IdsKnown'
    BY <1>0, <1>2, <2>1, <2>3, <2>4 DEF IdsKnown
  <2>6. CopyExact(replay', outbox') /\ AsksOwn(q, a)
    BY <1>0, <1>2, <1>5, <2>1, <2>5, ReadingsExact
  <2> QED
    BY <2>1, <2>5, <2>6
<1>9. ASSUME ReplayStopAnswered(answer, q, a)
      PROVE  Goal
  <2> DEFINE record == MarkStopReplayed(outbox[t])
  <2>1. /\ outbox' = [outbox EXCEPT ![t] = record] /\ bound' = bound
        /\ replay' = [replay EXCEPT !.pc = "stopped"]
        /\ Request(ReplayTask, StatusMessage, q, a)
    BY <1>9 DEF ReplayStopAnswered
  <2>2. record.startReplayed = outbox[t].startReplayed /\ record.ocppId = outbox[t].ocppId
    BY <1>2, IdsOf
  <2> HIDE DEF record
  <2>3. Others /\ IdsKnown'
    BY <1>0, <1>2, <2>1, <2>2 DEF IdsKnown
  <2>4. replay'.pc = "stopped" /\ replay'.todo = replay.todo /\ replay'.snap = replay.snap
    BY <1>0, <2>1 DEF Replays
  <2>5. AsksOwn(q, a)
    BY <2>1, OwnMessages DEF AsksOwn
  <2> QED
    BY <1>5, <2>1, <2>3, <2>4, <2>5 DEF CopyExact
<1>10. ASSUME ReplayNotified(q, a)
      PROVE  Goal
  <2>1. ReplayNext(replay, bound, q, a) /\ outbox' = outbox
    BY <1>10 DEF ReplayNotified
  <2>2. CopyExact(replay', outbox) /\ AsksOwn(q, a)
        /\ \A u \in Transactions : bound[u] # None => bound'[u] # None
    BY <1>0, <1>4, <2>1, NextExact
  <2> QED
    BY <1>0, <2>1, <2>2 DEF IdsKnown
<1>11. Goal
    BY <1>6, <1>7, <1>8, <1>9, <1>10 DEF ReplayAnswered
<1>12. RequestsOwned'
    BY <1>0, <1>1, <1>3, <1>11, AskedIsOwned
<1>13. ReportsBound'
  <2>1. PICK message : Request(ReplayTask, message, q, a) \/ Finish(q, a)
    BY <1>11 DEF AsksOwn
  <2>2. \A other : Waiting(other)' => Waiting(other)
    BY <1>0, <2>1, TakenGains
  <2> QED
    BY <1>0, <1>11, <2>2, BoundStays DEF ReportsBound
<1> QED
    BY <1>11, <1>12, <1>13 DEF Copied

\* Records that stay as they are.
LEMMA SameRecords ==
    ASSUME PointTypeOK, IdsKnown, outbox' = outbox
    PROVE  IdsKnown' /\ \A t \in Transactions : Extended(outbox[t], outbox'[t])
    BY DEF IdsKnown, Extended

\* A start, a stop or a report goes on.
LEMMA OthersContinueCopied ==
    ASSUME IInv, Owed, Copied, PointTypeOK', NEW q \in Seq(Entries), NEW a, NEW answer,
           \/ \E s \in Starts :
                /\ Taken(StartTask(s), q, a)
                /\ \/ StartAccepted(s, answer, q, a)
                   \/ StartRefused(s, answer, q, a)
                   \/ StartNotified(s, q, a)
           \/ \E t \in Transactions : Taken(StopTask(t), q, a) /\ StopAnswered(t, q, a)
           \/ \E t \in Transactions, n \in Nat :
                Taken(ReportTask(t, n), q, a) /\ ReportAnswered(t, n, answer, q, a)
    PROVE  Copied'
<1>0. PointTypeOK /\ IdsKnown /\ queue \in Seq(Entries) /\ stop \in [Transactions ->
                  {"none", "finishing", "stopping", "notifying", "done"}]
      /\ TypeOK /\ RecordsKept /\ ReportsKnown
    BY DEF IInv, TypeOK, PointTypeOK, Copied, Entries, Safe
<1>1. UNCHANGED <<replay, bound>>
    BY DEF StartAccepted, StartRefused, StartNotified, StopAnswered, ReportAnswered
<1>2. ASSUME NEW s \in Starts, Taken(StartTask(s), q, a),
             \/ StartAccepted(s, answer, q, a)
             \/ StartRefused(s, answer, q, a)
             \/ StartNotified(s, q, a)
      PROVE  Copied'
  <2> DEFINE entry == [task |-> StartTask(s), msg |-> StatusMessage]
  <2>1. /\ UNCHANGED <<outbox, stop>>
        /\ Request(StartTask(s), StatusMessage, q, a) \/ Finish(q, a)
    BY <1>2 DEF StartAccepted, StartRefused, StartNotified
  <2>2. Gained(entry) /\ \A other : Waiting(other)' => Waiting(other)
    BY <1>0, <1>2, <2>1, TakenGains
  <2>3. OwnedBy(entry, replay', stop')
    BY OwnMessages
  <2>4. IdsKnown' /\ \A t \in Transactions : Extended(outbox[t], outbox'[t])
    BY <1>0, <2>1, SameRecords
  <2> HIDE DEF entry
  <2> QED
    BY <1>1, <2>1, <2>2, <2>3, <2>4, OtherCopied
<1>3. ASSUME NEW t \in Transactions, Taken(StopTask(t), q, a), StopAnswered(t, q, a)
      PROVE  Copied'
  <2>1. /\ outbox' = outbox /\ stop'[t] # "none"
        /\ \A u \in Transactions : u # t => stop'[u] = stop[u]
    BY <1>0, <1>3 DEF StopAnswered
  <2>2. PICK message :
           /\ Request(StopTask(t), message, q, a) \/ Finish(q, a)
           /\ message = StatusMessage \/ message = StopMessage(t, OcppIdOf(t))
    BY <1>3 DEF StopAnswered
  <2> DEFINE entry == [task |-> StopTask(t), msg |-> message]
  <2>3. Gained(entry) /\ \A other : Waiting(other)' => Waiting(other)
    BY <1>0, <1>3, <2>2, TakenGains
  <2>4. OwnedBy(entry, replay', stop')
    <3>1. CASE message = StatusMessage
        BY <3>1, OwnMessages
    <3>2. CASE message = StopMessage(t, OcppIdOf(t))
        BY <2>1, <3>2 DEF OwnedBy, StopMessage, Message
    <3> QED
        BY <2>2, <3>1, <3>2
  <2>5. IdsKnown' /\ \A u \in Transactions : Extended(outbox[u], outbox'[u])
    BY <1>0, <2>1, SameRecords
  <2> HIDE DEF entry
  <2> QED
    BY <1>1, <2>1, <2>3, <2>4, <2>5, OtherCopied
<1>4. ASSUME NEW t \in Transactions, NEW n \in Nat, Taken(ReportTask(t, n), q, a),
             ReportAnswered(t, n, answer, q, a)
      PROVE  Copied'
  <2> DEFINE entry == [task |-> ReportTask(t, n), msg |-> StatusMessage]
  <2>1. stop' = stop /\ Finish(q, a) /\ (outbox' = outbox \/ RecordReading(t, n))
    BY <1>4 DEF ReportAnswered
  <2>2. Gained(entry) /\ \A other : Waiting(other)' => Waiting(other)
    BY <1>0, <1>4, <2>1, TakenGains
  <2>3. OwnedBy(entry, replay', stop')
    BY OwnMessages
  <2>4. tx[t].state # "absent"
    BY <1>0, <1>4, TakenEntries DEF ReportsKnown
  <2>5. IdsKnown' /\ \A u \in Transactions : Extended(outbox[u], outbox'[u])
    BY <1>0, <2>1, <2>4, SameRecords, ReadingIds, RecordReadingSafe
  <2> HIDE DEF entry
  <2> QED
    BY <1>1, <2>1, <2>2, <2>3, <2>5, OtherCopied
<1> QED
    BY <1>2, <1>3, <1>4

\* A start begins.
LEMMA BeginStartCopied ==
    ASSUME IInv, Owed, Copied, PointTypeOK', NEW s \in Starts, NEW c \in Connectors,
           BeginOfflineStart(s, c) \/ BeginOnlineStart(s, c)
    PROVE  Copied'
<1> DEFINE entry == [task |-> StartTask(s), msg |-> StartMessage(None)]
<1>0. /\ PointTypeOK /\ IdsKnown /\ queue \in Seq(Entries) /\ RecordsKept /\ TypeOK
      /\ RequestsMatched /\ outbox \in [Transactions -> Records] /\ StopsOwned
    BY DEF IInv, TypeOK, PointTypeOK, Copied, Entries, Safe, Owed
<1>1. UNCHANGED <<replay, bound, stop>>
    BY DEF BeginOfflineStart, BeginOnlineStart
<1>2. OwnedBy(entry, replay', stop')
    BY OwnMessages
<1>3. CASE BeginOfflineStart(s, c)
  <2>1. Gained(entry) /\ \A other : Waiting(other)' => Waiting(other)
    BY <1>3 DEF BeginOfflineStart, sessionVars, Gained, Waiting
  <2>2. PICK t \in LocalIds : tx[t].state = "absent" /\ outbox' = [outbox EXCEPT ![t] = RecordStarted]
    BY <1>3 DEF BeginOfflineStart
  <2>3. t \in Transactions /\ outbox[t].meterValues = <<>>
    BY <1>0, <2>2 DEF RecordsKept, Transactions
  <2>4. /\ RecordStarted.meterValues = <<>> /\ RecordStarted.stop = "none"
        /\ ~RecordStarted.startReplayed
    BY DEF RecordStarted, NoRecord
  <2> HIDE DEF entry
  <2>5. \A u \in Transactions : outbox'[u] = IF u = t THEN RecordStarted ELSE outbox[u]
    BY <1>0, <2>2
  <2>6. IdsKnown'
    BY <1>0, <2>4, <2>5 DEF IdsKnown
  <2>7. \A u \in Transactions : Extended(outbox[u], outbox'[u])
    BY <2>3, <2>4, <2>5 DEF Extended
  <2> QED
    BY <1>1, <1>2, <2>1, <2>6, <2>7, OtherCopied
<1>4. CASE BeginOnlineStart(s, c)
  <2>1. Request(StartTask(s), StartMessage(None), queue, aborted) /\ outbox' = outbox
    BY <1>4 DEF BeginOnlineStart
  <2>2. Gained(entry)
    BY <1>0, <2>1, RequestEntries DEF Gained
  <2>3. \A t \in Transactions, n \in Nat : Waiting(ReportTask(t, n))' => Waiting(ReportTask(t, n))
    <3>1. \A t, n : ReportTask(t, n) # StartTask(s)
        BY TaskKinds
    <3> QED
        BY <1>0, <2>1, <3>1, OthersWait
  <2>4. IdsKnown' /\ \A t \in Transactions : Extended(outbox[t], outbox'[t])
    BY <1>0, <2>1, SameRecords
  <2> HIDE DEF entry
  <2> QED
    BY <1>1, <1>2, <2>2, <2>3, <2>4, OtherCopied
<1> QED
    BY <1>3, <1>4

\* A stop begins.
LEMMA BeginStopCopied ==
    ASSUME IInv, Owed, Copied, PointTypeOK', NEW t \in Transactions,
           BeginOnlineStop(t) \/ BeginOfflineStop(t)
    PROVE  Copied'
<1> DEFINE entry == [task |-> StopTask(t), msg |-> StatusMessage]
<1>0. /\ PointTypeOK /\ IdsKnown /\ queue \in Seq(Entries) /\ TypeOK
      /\ RequestsMatched /\ outbox \in [Transactions -> Records]
      /\ stop \in [Transactions -> {"none", "finishing", "stopping", "notifying", "done"}]
    BY DEF IInv, TypeOK, PointTypeOK, Copied, Entries, Safe
<1>1. UNCHANGED <<replay, bound>>
    BY DEF BeginOfflineStop, BeginOnlineStop
<1>2. OwnedBy(entry, replay', stop')
    BY OwnMessages
<1>3. CASE BeginOfflineStop(t)
  <2>1. Gained(entry) /\ (\A other : Waiting(other)' => Waiting(other)) /\ stop' = stop
    BY <1>3 DEF BeginOfflineStop, sessionVars, Gained, Waiting
  <2>2. outbox' = [outbox EXCEPT ![t] = RecordStopped(outbox[t])]
    BY <1>3 DEF BeginOfflineStop
  <2>3. /\ RecordStopped(outbox[t]).startReplayed = outbox[t].startReplayed
        /\ RecordStopped(outbox[t]).ocppId = outbox[t].ocppId
    BY <1>0, IdsOf
  <2>4. \A u \in Transactions : Extended(outbox[u], outbox[u]) /\ Extended(outbox[u], RecordStopped(outbox[u]))
    BY <1>0, StopAndBindExtend
  <2>5. \A u \in Transactions : outbox'[u] = IF u = t THEN RecordStopped(outbox[t]) ELSE outbox[u]
    BY <1>0, <2>2
  <2> HIDE DEF entry
  <2>6. IdsKnown'
    BY <1>0, <2>3, <2>5 DEF IdsKnown
  <2>7. \A u \in Transactions : Extended(outbox[u], outbox'[u])
    BY <2>4, <2>5
  <2> QED
    BY <1>1, <1>2, <2>1, <2>6, <2>7, OtherCopied
<1>4. CASE BeginOnlineStop(t)
  <2>1. Request(StopTask(t), StatusMessage, queue, aborted) /\ outbox' = outbox
        /\ stop' = [stop EXCEPT ![t] = "finishing"]
    BY <1>4 DEF BeginOnlineStop
  <2>2. Gained(entry)
    BY <1>0, <2>1, RequestEntries DEF Gained
  <2>3. \A u \in Transactions, n \in Nat : Waiting(ReportTask(u, n))' => Waiting(ReportTask(u, n))
    <3>1. \A u, n : ReportTask(u, n) # StopTask(t)
        BY TaskKinds
    <3> QED
        BY <1>0, <2>1, <3>1, OthersWait
  <2>4. IdsKnown' /\ \A u \in Transactions : Extended(outbox[u], outbox'[u])
    BY <1>0, <2>1, SameRecords
  <2>5. \A u \in Transactions : stop[u] # "none" => stop'[u] # "none"
    BY <1>0, <2>1
  <2> HIDE DEF entry
  <2> QED
    BY <1>1, <1>2, <2>2, <2>3, <2>4, <2>5, OtherCopied
<1> QED
    BY <1>3, <1>4

\* A tick of a loop records its reading, or asks for a transaction that is known.
LEMMA BeginReportCopied ==
    ASSUME IInv, Owed, Copied, PointTypeOK', NEW t \in Transactions, BeginReport(t)
    PROVE  Copied'
<1>0. /\ PointTypeOK /\ IdsKnown /\ queue \in Seq(Entries) /\ TypeOK /\ RecordsKept
      /\ tx \in [Transactions -> TxValues]
    BY DEF IInv, TypeOK, PointTypeOK, Copied, Entries, Safe
<1>1. UNCHANGED <<replay, bound, stop>> /\ tx[t].state # "absent"
    BY DEF BeginReport, Active
<1>2. PICK n \in Nat : n = tx[t].samples + 1
    BY <1>0 DEF TxValues
<1>3. CASE RecordReading(t, n) /\ UNCHANGED sessionVars
  <2> DEFINE entry == [task |-> StopTask(t), msg |-> StatusMessage]
  <2>1. Gained(entry) /\ \A other : Waiting(other)' => Waiting(other)
    BY <1>3 DEF sessionVars, Gained, Waiting
  <2>2. OwnedBy(entry, replay', stop')
    BY OwnMessages
  <2>3. IdsKnown' /\ \A u \in Transactions : Extended(outbox[u], outbox'[u])
    BY <1>0, <1>1, <1>3, ReadingIds, RecordReadingSafe
  <2> HIDE DEF entry
  <2> QED
    BY <1>1, <2>1, <2>2, <2>3, OtherCopied
<1>4. CASE /\ IsBound(t) /\ outbox' = outbox
           /\ Request(ReportTask(t, n), MeterMessage(t, OcppIdOf(t), n), queue, aborted)
  <2> DEFINE entry == [task |-> ReportTask(t, n), msg |-> MeterMessage(t, OcppIdOf(t), n)]
  <2>1. Gained(entry)
    BY <1>0, <1>4, RequestEntries DEF Gained
  <2>2. OwnedBy(entry, replay', stop')
    <3>1. entry.msg.type = "MeterValues" /\ entry.msg.tx = t /\ entry.msg.sample = n
          /\ entry.task = ReportTask(t, n)
        BY DEF MeterMessage, Message
    <3> HIDE DEF entry
    <3> QED
        BY <3>1 DEF OwnedBy
  <2>3. \A u \in Transactions, m \in Nat :
            Waiting(ReportTask(u, m))' => Waiting(ReportTask(u, m)) \/ IsBound(u)
    <3>0. \A other : Waiting(other)' => WaitsIn(other, queue, aborted) \/ other = ReportTask(t, n)
        BY <1>0, <1>4, RequestWaits
    <3>1. \A other : Waiting(other)' => Waiting(other) \/ other = ReportTask(t, n)
        BY <3>0 DEF Waiting, WaitsIn
    <3>2. \A u, m : ReportTask(u, m) = ReportTask(t, n) => u = t
        BY TaskKinds
    <3> QED
        BY <1>4, <3>1, <3>2
  <2>4. IdsKnown' /\ \A u \in Transactions : Extended(outbox[u], outbox'[u])
    BY <1>0, <1>4, SameRecords
  <2> HIDE DEF entry
  <2> QED
    BY <1>1, <2>1, <2>2, <2>3, <2>4, OtherCopied
<1> QED
    BY <1>2, <1>3, <1>4 DEF BeginReport

\* A replay begins with copies of what is pending.
LEMMA ReplayBegunCopied ==
    ASSUME IInv, Owed, Copied, PointTypeOK', ReplayBegins
    PROVE  Copied'
<1> DEFINE snap == [t \in Transactions |-> IF t \in Pending THEN outbox[t] ELSE NoRecord]
           r == [ReplayIdle EXCEPT !.todo = Pending, !.snap = snap]
<1>0. /\ PointTypeOK /\ queue \in Seq(Entries) /\ RequestsMatched
      /\ RequestsOwned /\ ReportsBound /\ IdsKnown /\ outbox \in [Transactions -> Records]
      /\ bound \in [Transactions -> OcppIds \cup {None}]
    BY DEF IInv, Safe, TypeOK, PointTypeOK, Copied, Entries
<1>1. replay.pc = "idle" /\ outbox' = outbox /\ stop' = stop
      /\ ReplayNext(r, bound, queue, aborted)
    BY DEF ReplayBegins, ReplayBegun
<1>2. snap \in [Transactions -> Records]
    BY <1>0 DEF NoRecord, Records, StopStates
<1>3. r \in Replays /\ r.todo = Pending /\ r.snap = snap
  <2>1. Pending \in SUBSET Transactions
    BY DEF Pending
  <2> HIDE DEF snap
  <2> QED
    BY <1>2, <2>1, IdleType DEF Replays
<1>4. \A u \in r.todo :
        /\ Exact(outbox[u], r.snap[u], 0)
        /\ r.snap[u].startReplayed => r.snap[u].ocppId # None
  <2>1. \A u \in r.todo : u \in Transactions /\ r.snap[u] = outbox[u]
    BY <1>3 DEF Pending
  <2>2. \A u \in Transactions : Exact(outbox[u], outbox[u], 0)
    <3>1. \A u \in Transactions : \A j \in DOMAIN outbox[u].meterValues : ~(j < 0)
        BY <1>0, MeterValuesType
    <3> QED
        BY <3>1 DEF Exact
  <2> HIDE DEF r, snap
  <2> QED
    BY <1>0, <2>1, <2>2 DEF IdsKnown
<1> HIDE DEF r, snap
<1>5. /\ CopyExact(replay', outbox) /\ AsksOwn(queue, aborted)
      /\ \A u \in Transactions : bound[u] # None => bound'[u] # None
    BY <1>0, <1>1, <1>3, <1>4, NextExact
<1>6. WithoutReplay(queue, aborted)
    BY <1>0, <1>1 DEF RequestsMatched, Matched, WithoutReplay
<1>7. RequestsOwned'
    BY <1>0, <1>1, <1>5, <1>6, AskedIsOwned
<1>8. ReportsBound'
  <2>1. PICK message : Request(ReplayTask, message, queue, aborted) \/ Finish(queue, aborted)
    BY <1>5 DEF AsksOwn
  <2>2. \A t, n : Waiting(ReportTask(t, n))' => Waiting(ReportTask(t, n))
    <3>1. \A other : Waiting(other)' => other = ReplayTask \/ WaitsIn(other, queue, aborted)
        BY <1>0, <2>1, RequestWaits, FinishWaits
    <3> QED
        BY <3>1, TaskKinds DEF Waiting, WaitsIn
  <2> QED
    BY <1>0, <1>5, <2>2, BoundStays DEF ReportsBound
<1> QED
    BY <1>0, <1>1, <1>5, <1>7, <1>8 DEF Copied, IdsKnown

\* Nothing is copied at first.
LEMMA InitCopied ==
    ASSUME Init
    PROVE  Copied
<1>1. queue = <<>> /\ aborted = {} /\ replay.todo = {} /\ replay.pc = "idle"
    BY DEF Init, ReplayIdle
<1>2. \A t \in Transactions : ~outbox[t].startReplayed
    BY DEF Init, NoRecord
<1>3. EntriesOf(queue) = {} /\ \A task : ~Waiting(task)
    BY <1>1 DEF EntriesOf, Waiting
<1> QED
    BY <1>1, <1>2, <1>3 DEF Copied, RequestsOwned, ReportsBound, IdsKnown, CopyExact

\* Every step keeps the copies.
LEMMA CopiedStep ==
    ASSUME IInv, Owed, Turns, Copied, [Next]_vars
    PROVE  Copied'
<1>0. PointTypeOK' /\ PointTypeOK /\ IdsKnown
    BY StepCases DEF IInv, TypeOK, Copied
<1>1. CASE Idles \/ LoopsChange
  <2> DEFINE entry == [task |-> StopTask(None), msg |-> StatusMessage]
  <2>1. /\ UNCHANGED <<replay, bound, stop, outbox>> /\ EntriesOf(queue') \subseteq EntriesOf(queue)
        /\ \A task : Waiting(task)' => Waiting(task)
    BY <1>1 DEF Idles, LoopsChange, Waiting
  <2>2. Gained(entry) /\ OwnedBy(entry, replay', stop')
    BY <2>1, OwnMessages DEF Gained
  <2>3. IdsKnown' /\ \A u \in Transactions : Extended(outbox[u], outbox'[u])
    BY <1>0, <2>1, SameRecords
  <2> HIDE DEF entry
  <2> QED
    BY <1>0, <2>1, <2>2, <2>3, OtherCopied
<1>2. CASE Continues
  <2>1. ASSUME NEW answer \in Answers, NEW q \in Seq(Entries), NEW a, Taken(ReplayTask, q, a),
               ReplayAnswered(answer, q, a),
               replay.pc = "start" /\ answer.kind = "response" => answer.id \in OcppIds
        PROVE  Copied'
    BY <1>0, <2>1, ReplayCopied
  <2> QED
    BY <1>0, <1>2, <2>1, ContinueCases, OthersContinueCopied
<1> QED
    BY <1>0, <1>1, <1>2, StepCases, ReplayBegunCopied, BeginStartCopied, BeginStopCopied, BeginReportCopied

\* The replay knows what is left to send.
THEOREM CopiesAreExact == Spec => []Copied
<1>1. Init => Copied
    BY InitCopied
<1>2. IInv /\ Owed /\ Turns /\ Copied /\ [Next]_vars => Copied'
    BY CopiedStep
<1> QED
    BY <1>1, <1>2, NothingElseIsOwed, StartsTaken, PTL DEF Spec

-----------------------------------------------------------------------------
(* A stop kept in the outbox comes after the readings, but for the transactions *)
(* that the replay deauthorized: the stop of one is sent before the readings   *)
(* the outbox still holds.                                                     *)

\* The others.
Tolerated == Transactions \ deauthorized

\* A transaction that is reported on has no stop in the outbox.
ReportsRunning ==
    \A t \in Tolerated, n \in Nat : Waiting(ReportTask(t, n)) => outbox[t].stop = "none"

\* The record r has the stop of its copy s, and then no reading more.
StopKept(s, r) ==
    s.stop # "none" => r.stop # "none" /\ DOMAIN r.meterValues = DOMAIN s.meterValues

\* The replay at r asks for the stop of a record that has no reading to send,
\* but for those of d.
CopyStops(r, ob, d) ==
    /\ \A u \in r.todo \ d : StopKept(r.snap[u], ob[u])
    /\ r.pc \in {"start", "meter"} /\ r.tx \notin d => StopKept(r.snap[r.tx], ob[r.tx])
    /\ r.pc = "stop" /\ r.tx \notin d =>
         UnsentMeterValues(ob[r.tx]) = {} /\ ob[r.tx].stop # "none"

\* A transaction whose stop was received has ended, and the record of its stop
\* has no reading to send.
StopsTold ==
    \A t \in Tolerated : ReceivedStop(t) =>
        /\ tx[t].state = "ended"
        /\ outbox[t].stop # "none" => UnsentMeterValues(outbox[t]) = {}

\* Only the stop of a transaction of the point is received.
StopsNamed == \A i \in DOMAIN log : log[i].type = "StopTransaction" => log[i].tx \in Transactions

StopsLast ==
    /\ ReportsRunning
    /\ CopyStops(replay, outbox, deauthorized)
    /\ StopsTold
    /\ StopsNamed
    /\ OfflineStopAfterReadings

\* What a step does with the record of a stop, unless it deauthorizes: it is kept without readings more,
\* and begins when a transaction the CSMS does not know is stopped.
Settles(t) ==
    /\ tx[t].state = "ended" => tx'[t].state = "ended"
    /\ outbox[t].stop # "none" =>
         /\ outbox'[t].stop # "none"
         /\ DOMAIN outbox'[t].meterValues = DOMAIN outbox[t].meterValues
         /\ UnsentMeterValues(outbox'[t]) \subseteq UnsentMeterValues(outbox[t])
    /\ outbox[t].stop = "none" /\ outbox'[t].stop # "none" =>
         Active(t) /\ ~IsBound(t) /\ log' = log

\* A report that begins.
NewReport(t, n) ==
    /\ BeginReport(t) /\ n = tx[t].samples + 1
    /\ IsBound(t) /\ ~ShouldQueue(t)
    /\ loop' = [loop EXCEPT ![t].reporting = n]
    /\ outbox' = outbox

\* The reading that is marked is replayed.
LEMMA MarkedReplayed ==
    ASSUME NEW r \in Records, NEW i \in DOMAIN r.meterValues
    PROVE  MarkMeterValueReplayed(r, i).meterValues[i].replayed
<1> DEFINE marked == MarkMeterValueReplayed(r, i)
<1>1. r.meterValues[i] \in [sample : Nat, replayed : BOOLEAN]
      /\ r.meterValues \in Seq([sample : Nat, replayed : BOOLEAN])
    BY MeterValuesType, ElementOfSeq
<1>2. marked = [r EXCEPT !.meterValues[i].replayed = TRUE]
    BY DEF MarkMeterValueReplayed
<1>3. marked.meterValues = [r.meterValues EXCEPT ![i] = [r.meterValues[i] EXCEPT !.replayed = TRUE]]
    BY <1>2 DEF Records
<1>4. marked.meterValues[i] = [r.meterValues[i] EXCEPT !.replayed = TRUE]
    BY <1>1, <1>3
<1> QED
    BY <1>1, <1>4

\* A record to which the replay writes the start or a reading keeps its stop.
LEMMA ReplayLeaves ==
    ASSUME NEW r \in Records, NEW i \in Nat
    PROVE  /\ DOMAIN MarkMeterValueReplayed(r, i).meterValues = DOMAIN r.meterValues
           /\ UnsentMeterValues(MarkMeterValueReplayed(r, i)) \subseteq UnsentMeterValues(r)
<1> DEFINE marked == MarkMeterValueReplayed(r, i)
<1>1. CASE i \in DOMAIN r.meterValues
  <2>1. marked.meterValues[i].replayed
    BY <1>1, MarkedReplayed
  <2>2. DOMAIN marked.meterValues = DOMAIN r.meterValues
        /\ \A j \in DOMAIN r.meterValues : j # i => marked.meterValues[j] = r.meterValues[j]
    BY MarkReading
  <2> HIDE DEF marked
  <2>3. UnsentMeterValues(marked) \subseteq UnsentMeterValues(r)
    BY <2>1, <2>2 DEF UnsentMeterValues
  <2> QED
    BY <2>2, <2>3 DEF marked
<1>2. CASE i \notin DOMAIN r.meterValues
    BY <1>2 DEF MarkMeterValueReplayed
<1> QED
    BY <1>1, <1>2

\* Records and transactions that stay settle.
LEMMA StaySettled ==
    ASSUME UNCHANGED <<tx, outbox>>, NEW t \in Transactions
    PROVE  Settles(t)
    BY DEF Settles

\* A reading goes to a record without a stop.
LEMMA ReadingSettles ==
    ASSUME IInv, Owed, NEW u \in Transactions, NEW n \in Nat, tx[u].state # "absent",
           outbox' = outbox \/ RecordReading(u, n),
           \A v \in Transactions : tx'[v].state = tx[v].state, NEW t \in Transactions,
           t = u => outbox[u].stop = "none"
    PROVE  Settles(t)
<1>0. TypeOK /\ PointTypeOK /\ RecordsKept /\ StopsOwned
    BY DEF IInv, TypeOK, Safe, Owed
<1>1. CASE outbox' = outbox
    BY <1>1 DEF Settles
<1>2. CASE RecordReading(u, n)
  <2>1. \A v \in Transactions : v # u => outbox'[v] = outbox[v]
    BY <1>0, <1>2, RecordReadingSafe
  <2>2. t = u => outbox'[t].stop = "none"
    BY <1>0, <1>2, RecordReadingStays DEF SameRecord
  <2> QED
    BY <2>1, <2>2 DEF Settles
<1> QED
    BY <1>1, <1>2

\* No step takes a deauthorization back.
LEMMA DeauthorizedGrow ==
    ASSUME [Next]_vars
    PROVE  deauthorized \subseteq deauthorized'
<1>1. ASSUME NEW task, NEW answer, NEW q, NEW a, Settled(task, answer, q, a)
      PROVE  deauthorized \subseteq deauthorized'
  <2>1. CASE ReplayAnswered(answer, q, a)
    BY <2>1 DEF ReplayAnswered, ReplayStartAnswered
  <2>2. CASE ~ReplayAnswered(answer, q, a)
    BY <1>1, <2>2 DEF Settled, StartAccepted, StartRefused, StartNotified, StopAnswered,
       ReportAnswered
  <2> QED
    BY <2>1, <2>2
<1>2. CASE Reply \/ RequestFails \/ Resume
    BY <1>1, <1>2 DEF Reply, RequestFails, Resume
<1>3. CASE Disconnect \/ Connect \/ BootRefused \/ UNCHANGED vars
    BY <1>3 DEF Disconnect, Connect, BootRefused, vars, pointVars
<1>4. CASE RestartMeterLoops \/ BootAccepted \/ HeartbeatAnswered
    BY <1>4 DEF RestartMeterLoops, BootAccepted, HeartbeatAnswered
<1>5. CASE \E s \in Starts, c \in Connectors : BeginOfflineStart(s, c) \/ BeginOnlineStart(s, c)
    BY <1>5 DEF BeginOfflineStart, BeginOnlineStart
<1>6. CASE \E t \in Transactions :
              \/ BeginOnlineStop(t) \/ BeginOfflineStop(t) \/ StopThrows(t)
              \/ BeginReport(t) \/ LoopExpires(t)
    BY <1>6 DEF BeginOnlineStop, BeginOfflineStop, StopThrows, BeginReport, LoopExpires
<1> QED
    BY <1>2, <1>3, <1>4, <1>5, <1>6 DEF Next

\* The replay settles what it does not deauthorize.
LEMMA ReplaySettles ==
    ASSUME IInv, Owed, NEW answer \in Answers, NEW q \in Seq(Entries),
           NEW a, Taken(ReplayTask, q, a), ReplayAnswered(answer, q, a), NEW t \in Tolerated'
    PROVE  Settles(t)
<1>0. /\ outbox \in [Transactions -> Records] /\ replay.index \in Nat /\ outbox[t] \in Records
      /\ t \in Transactions /\ t \notin deauthorized' /\ TypeOK
    BY DEF IInv, TypeOK, PointTypeOK, Replays, Tolerated
<1>1. CASE ReplayAbandoned(answer, q, a) \/ ReplayNotified(q, a)
    BY <1>0, <1>1, StaySettled DEF ReplayAbandoned, ReplayNotified
<1>2. CASE ReplayStartAnswered(answer, q, a)
  <2>1. answer.id \in OcppIds \cup {None} /\ replay.tx \in Transactions
    BY <1>0, <1>2 DEF Answers, TypeOK, PointTypeOK, ReplayStartAnswered
  <2>2. CASE tx' = tx /\ outbox' = [outbox EXCEPT ![replay.tx] = BindStart(outbox[replay.tx], answer.id)]
    <3>1. /\ BindStart(outbox[t], answer.id).stop = outbox[t].stop
          /\ BindStart(outbox[t], answer.id).meterValues = outbox[t].meterValues
        BY <1>0, <2>1, ReplayWrites, StopAndBindExtend
    <3>2. /\ outbox'[t].stop = outbox[t].stop
          /\ outbox'[t].meterValues = outbox[t].meterValues
        BY <1>0, <2>2, <3>1
    <3> QED
        BY <2>2, <3>2 DEF Settles, UnsentMeterValues
  <2>3. CASE /\ \E record : outbox' = [outbox EXCEPT ![replay.tx] = record]
             /\ End(replay.tx) \/ tx' = tx
             /\ replay.tx \in deauthorized'
    <3>1. t # replay.tx
        BY <1>0, <2>3
    <3>2. outbox'[t] = outbox[t] /\ tx'[t] = tx[t]
        BY <1>0, <2>1, <2>3, <3>1, EndSamples
    <3> QED
        BY <3>2 DEF Settles
  <2> QED
    BY <1>2, <2>2, <2>3 DEF ReplayStartAnswered
<1>3. CASE ReplayReadingAnswered(answer, q, a)
  <2>1. tx' = tx
        /\ outbox' = [outbox EXCEPT ![replay.tx] = MarkMeterValueReplayed(outbox[replay.tx], replay.index)]
    BY <1>3 DEF ReplayReadingAnswered
  <2> DEFINE marked == MarkMeterValueReplayed(outbox[t], replay.index)
  <2>2. /\ marked.stop = outbox[t].stop
        /\ DOMAIN marked.meterValues = DOMAIN outbox[t].meterValues
        /\ UnsentMeterValues(marked) \subseteq UnsentMeterValues(outbox[t])
    BY <1>0, ReplayWrites, ReplayLeaves
  <2>3. outbox'[t] = outbox[t] \/ outbox'[t] = marked
    BY <1>0, <2>1
  <2> HIDE DEF marked
  <2> QED
    BY <2>1, <2>2, <2>3 DEF Settles
<1>4. CASE ReplayStopAnswered(answer, q, a)
  <2>1. tx' = tx /\ outbox' = [outbox EXCEPT ![replay.tx] = MarkStopReplayed(outbox[replay.tx])]
    BY <1>4 DEF ReplayStopAnswered
  <2>2. /\ (MarkStopReplayed(outbox[t]).stop = "none") = (outbox[t].stop = "none")
        /\ MarkStopReplayed(outbox[t]).meterValues = outbox[t].meterValues
    BY <1>0, ReplayWrites, MarkStop
  <2>3. /\ (outbox'[t].stop = "none") = (outbox[t].stop = "none")
        /\ outbox'[t].meterValues = outbox[t].meterValues
    BY <1>0, <2>1, <2>2
  <2> QED
    BY <2>1, <2>3 DEF Settles, UnsentMeterValues
<1> QED
    BY <1>1, <1>2, <1>3, <1>4 DEF ReplayAnswered

\* Every step settles what it does not deauthorize.
LEMMA StepSettles ==
    ASSUME IInv, Owed, Turns, ReportsRunning, [Next]_vars, NEW t \in Tolerated'
    PROVE  Settles(t)
<1>0. /\ TypeOK /\ PointTypeOK /\ StopsOwned /\ RecordsKept /\ ReportsKnown /\ queue \in Seq(Entries)
      /\ tx \in [Transactions -> TxValues] /\ outbox \in [Transactions -> Records]
      /\ t \in Transactions /\ t \in Tolerated
    BY DeauthorizedGrow DEF IInv, TypeOK, PointTypeOK, Safe, Owed, Entries, Tolerated
<1>1. CASE Idles \/ LoopsChange \/ ReplayBegins
    BY <1>0, <1>1, StaySettled DEF Idles, LoopsChange, ReplayBegins
<1>2. ASSUME NEW s \in Starts, NEW c \in Connectors, BeginOfflineStart(s, c) \/ BeginOnlineStart(s, c)
      PROVE  Settles(t)
  <2>1. CASE BeginOfflineStart(s, c)
    <3>1. PICK u \in LocalIds :
             /\ tx[u].state = "absent" /\ CreateActive(u, c, starts)
             /\ outbox' = [outbox EXCEPT ![u] = RecordStarted]
        BY <2>1 DEF BeginOfflineStart
    <3>2. u \in Transactions /\ outbox[u].stop = "none" /\ RecordStarted.stop = "none"
        BY <1>0, <3>1 DEF StopsOwned, Transactions, RecordStarted, NoRecord
    <3>3. t # u => tx'[t] = tx[t] /\ outbox'[t] = outbox[t]
        BY <1>0, <3>1, CreateActiveSamples
    <3>4. outbox'[u].stop = "none"
        BY <1>0, <3>1, <3>2
    <3> QED
        BY <3>1, <3>2, <3>3, <3>4 DEF Settles
  <2>2. CASE BeginOnlineStart(s, c)
    BY <1>0, <2>2, StaySettled DEF BeginOnlineStart
  <2> QED
    BY <1>2, <2>1, <2>2
<1>3. ASSUME NEW u \in Transactions, BeginOnlineStop(u) \/ BeginOfflineStop(u)
      PROVE  Settles(t)
  <2>1. Active(u) /\ End(u) /\ log' = log
    BY <1>3 DEF BeginOnlineStop, BeginOfflineStop, envVars
  <2>2. tx[t].state = "ended" => tx'[t].state = "ended"
    BY <1>0, <2>1, EndSamples
  <2>3. outbox[u].stop = "none"
    BY <1>0, <2>1 DEF StopsOwned, Active
  <2>4. CASE BeginOfflineStop(u)
    <3>1. ~IsBound(u) /\ outbox' = [outbox EXCEPT ![u] = RecordStopped(outbox[u])]
        BY <2>4 DEF BeginOfflineStop
    <3>2. t # u => outbox'[t] = outbox[t]
        BY <1>0, <3>1
    <3> QED
        BY <2>1, <2>2, <2>3, <3>1, <3>2 DEF Settles
  <2>5. CASE BeginOnlineStop(u)
    <3>1. outbox' = outbox
        BY <2>5 DEF BeginOnlineStop
    <3> QED
        BY <2>2, <3>1 DEF Settles
  <2> QED
    BY <1>3, <2>4, <2>5
<1>4. ASSUME NEW u \in Transactions, BeginReport(u)
      PROVE  Settles(t)
  <2>1. PICK n \in Nat : n = tx[u].samples + 1
    BY <1>0 DEF TxValues
  <2>2. /\ Active(u) /\ tx' = [tx EXCEPT ![u].samples = n]
        /\ outbox' = outbox \/ RecordReading(u, n)
    BY <1>4, <2>1 DEF BeginReport
  <2>3. tx[u].state # "absent" /\ outbox[u].stop = "none"
    BY <1>0, <2>2 DEF StopsOwned, Active
  <2>4. \A v \in Transactions : tx'[v].state = tx[v].state
    BY <1>0, <2>2 DEF TxValues
  <2> QED
    BY <1>0, <2>2, <2>3, <2>4, ReadingSettles
<1>5. CASE Continues
  <2>1. ASSUME NEW s \in Starts, NEW answer \in Answers, NEW q \in Seq(Entries), NEW a,
               \/ StartAccepted(s, answer, q, a) /\ Assigned(answer.id)
               \/ StartRefused(s, answer, q, a)
               \/ StartNotified(s, q, a)
        PROVE  Settles(t)
    <3>1. CASE StartAccepted(s, answer, q, a) /\ Assigned(answer.id)
      <4>1. CreateActive(answer.id, start[s].connector, start[s].at) /\ outbox' = outbox
            /\ tx[answer.id].state = "absent"
        BY <3>1 DEF StartAccepted, Assigned
      <4>2. t # answer.id => tx'[t] = tx[t]
        BY <1>0, <4>1, CreateActiveSamples
      <4> QED
        BY <4>1, <4>2 DEF Settles
    <3>2. CASE StartRefused(s, answer, q, a) \/ StartNotified(s, q, a)
        BY <1>0, <3>2, StaySettled DEF StartRefused, StartNotified
    <3> QED
        BY <2>1, <3>1, <3>2
  <2>2. ASSUME NEW u \in Transactions, NEW q \in Seq(Entries), NEW a, StopAnswered(u, q, a)
        PROVE  Settles(t)
    BY <1>0, <2>2, StaySettled DEF StopAnswered
  <2>3. ASSUME NEW u \in Transactions, NEW n \in Nat, NEW answer \in Answers, NEW q \in Seq(Entries),
               NEW a, Taken(ReportTask(u, n), q, a), ReportAnswered(u, n, answer, q, a)
        PROVE  Settles(t)
    <3>1. Waiting(ReportTask(u, n))
        BY <1>0, <2>3, TakenEntries
    <3>2. (t = u => outbox[u].stop = "none") /\ tx[u].state # "absent"
        BY <1>0, <3>1 DEF ReportsRunning, ReportsKnown
    <3>3. tx' = tx /\ (outbox' = outbox \/ RecordReading(u, n))
        BY <2>3 DEF ReportAnswered
    <3> QED
        BY <1>0, <3>2, <3>3, ReadingSettles
  <2>4. ASSUME NEW answer \in Answers, NEW q \in Seq(Entries), NEW a, Taken(ReplayTask, q, a),
               ReplayAnswered(answer, q, a)
        PROVE  Settles(t)
    BY <2>4, ReplaySettles
  <2> QED
    BY <1>5, <2>1, <2>2, <2>3, <2>4, ContinueCases
<1> QED
    BY <1>1, <1>2, <1>3, <1>4, <1>5, StepCases

\* The replay asks for one thing, or ends.
LEMMA ReplayAsks ==
    ASSUME NEW q, NEW a
    PROVE  /\ \A r : ReplayReadings(r, q, a) => \E message : Request(ReplayTask, message, q, a)
           /\ \A r, ids : ReplayNext(r, ids, q, a) =>
                \E message : Request(ReplayTask, message, q, a) \/ Finish(q, a)
           /\ \A answer : ReplayAnswered(answer, q, a) =>
                \E message : Request(ReplayTask, message, q, a) \/ Finish(q, a)
<1>1. ASSUME NEW r, ReplayReadings(r, q, a)
      PROVE  \E message : Request(ReplayTask, message, q, a)
    BY <1>1 DEF ReplayReadings
<1>2. ASSUME NEW r, NEW ids, ReplayNext(r, ids, q, a)
      PROVE  \E message : Request(ReplayTask, message, q, a) \/ Finish(q, a)
    BY <1>1, <1>2 DEF ReplayNext
<1>3. ASSUME NEW answer, ReplayAnswered(answer, q, a)
      PROVE  \E message : Request(ReplayTask, message, q, a) \/ Finish(q, a)
  <2>1. CASE ReplayStartAnswered(answer, q, a)
    <3>1. \/ ReplayReadings([replay EXCEPT !.id = answer.id], q, a)
          \/ Request(ReplayTask, StopMessage(replay.tx, answer.id), q, a)
          \/ Request(ReplayTask, StatusMessage, q, a)
        BY <2>1 DEF ReplayStartAnswered
    <3> QED
        BY <1>1, <3>1
  <2>2. CASE ReplayReadingAnswered(answer, q, a)
    BY <1>1, <2>2 DEF ReplayReadingAnswered
  <2>3. CASE ReplayNotified(q, a)
    BY <1>2, <2>3 DEF ReplayNotified
  <2> QED
    BY <1>3, <2>1, <2>2, <2>3 DEF ReplayAnswered, ReplayAbandoned, ReplayStopAnswered
<1> QED
    BY <1>1, <1>2, <1>3

\* A report waits that waited, or begins.
LEMMA ReportsBegin ==
    ASSUME IInv, Owed, Turns, [Next]_vars, NEW t \in Transactions, NEW n \in Nat,
           Waiting(ReportTask(t, n))'
    PROVE  Waiting(ReportTask(t, n)) \/ NewReport(t, n)
<1>0. /\ PointTypeOK /\ queue \in Seq(Entries) /\ tx \in [Transactions -> TxValues]
    BY DEF IInv, TypeOK, PointTypeOK, Entries
<1> DEFINE task == ReportTask(t, n)
<1>1. CASE Idles \/ LoopsChange
    BY <1>1 DEF Idles, LoopsChange, Waiting
<1>2. ASSUME NEW other, NEW message, other # task, Request(other, message, queue, aborted) \/ UNCHANGED sessionVars
      PROVE  Waiting(task)
  <2>1. CASE Request(other, message, queue, aborted)
    <3>1. \A third : Waiting(third)' => third = other \/ WaitsIn(third, queue, aborted)
        BY <1>0, <2>1, RequestWaits
    <3>2. WaitsIn(task, queue, aborted)
        BY <1>2, <3>1
    <3> QED
        BY <3>2 DEF Waiting, WaitsIn
  <2>2. CASE UNCHANGED sessionVars
    BY <2>2 DEF sessionVars, Waiting
  <2> QED
    BY <1>2, <2>1, <2>2
<1>3. CASE ReplayBegins
  <2>1. ReplayNext([ReplayIdle EXCEPT !.todo = Pending,
                      !.snap = [u \in Transactions |-> IF u \in Pending THEN outbox[u] ELSE NoRecord]],
                   bound, queue, aborted)
    BY <1>3 DEF ReplayBegins, ReplayBegun
  <2>2. \E message : Request(ReplayTask, message, queue, aborted) \/ Finish(queue, aborted)
    BY <2>1, ReplayAsks
  <2>3. ReplayTask # task
    BY TaskKinds
  <2>4. CASE Finish(queue, aborted)
    BY <2>4 DEF Finish, Waiting
  <2>5. ASSUME NEW message, Request(ReplayTask, message, queue, aborted)
        PROVE  Waiting(task)
    <3> HIDE DEF task
    <3> QED
        BY <1>2, <2>3, <2>5
  <2> QED
    BY <2>2, <2>4, <2>5
<1>4. ASSUME NEW s \in Starts, NEW c \in Connectors, BeginOfflineStart(s, c) \/ BeginOnlineStart(s, c)
      PROVE  Waiting(task)
  <2>1. StartTask(s) # task
    BY StartTaskKinds
  <2> HIDE DEF task
  <2> QED
    BY <1>2, <1>4, <2>1 DEF BeginOfflineStart, BeginOnlineStart
<1>5. ASSUME NEW u \in Transactions, BeginOnlineStop(u) \/ BeginOfflineStop(u)
      PROVE  Waiting(task)
  <2>1. StopTask(u) # task
    BY TaskKinds
  <2> HIDE DEF task
  <2> QED
    BY <1>2, <1>5, <2>1 DEF BeginOfflineStop, BeginOnlineStop
<1>6. ASSUME NEW u \in Transactions, BeginReport(u)
      PROVE  Waiting(task) \/ NewReport(t, n)
  <2>1. PICK m \in Nat : m = tx[u].samples + 1
    BY <1>0 DEF TxValues
  <2>2. CASE u = t /\ m = n
    <3>1. CASE UNCHANGED sessionVars
        BY <1>2, <3>1, TaskKinds
    <3>2. CASE IsBound(u) /\ ~ShouldQueue(u) /\ loop' = [loop EXCEPT ![u].reporting = m] /\ outbox' = outbox
        BY <1>6, <2>1, <2>2, <3>2 DEF NewReport
    <3> QED
        BY <1>6, <2>1, <3>1, <3>2 DEF BeginReport
  <2>3. CASE ~(u = t /\ m = n)
    <3>1. ReportTask(u, m) # task
        BY <2>3, TaskKinds
    <3>2. \/ UNCHANGED sessionVars
          \/ Request(ReportTask(u, m), MeterMessage(u, OcppIdOf(u), m), queue, aborted)
        BY <1>6, <2>1 DEF BeginReport
    <3> HIDE DEF task
    <3> QED
        BY <1>2, <3>1, <3>2
  <2> QED
    BY <2>2, <2>3
<1>7. CASE Continues
  <2>1. PICK third \in Tasks, answer \in Answers, q \in Seq(Entries) : \E a :
            Taken(third, q, a) /\ Settled(third, answer, q, a)
    BY <1>7 DEF Continues
  <2>2. PICK a : Taken(third, q, a) /\ Settled(third, answer, q, a)
    BY <2>1
  <2>3. PICK message : Request(third, message, q, a) \/ Finish(q, a)
    <3>1. CASE third.of = "start"
        BY <2>2, <3>1, TaskCases DEF Settled, StartAccepted, StartRefused, StartNotified
    <3>2. CASE third.of = "stop"
        BY <2>2, <3>2, TaskCases DEF Settled, StopAnswered
    <3>3. CASE third.of = "report"
        BY <2>2, <3>3, TaskCases DEF Settled, ReportAnswered
    <3>4. CASE third.of = "replay"
      <4>1. third = ReplayTask /\ ReplayAnswered(answer, q, a)
        BY <2>2, <3>4, TaskCases DEF Settled
      <4> QED
        BY <4>1, ReplayAsks
    <3> QED
        BY <2>1, <3>1, <3>2, <3>3, <3>4, TaskCases
  <2> QED
    BY <1>0, <2>2, <2>3, TakenGains
<1> QED
    BY <1>1, <1>3, <1>4, <1>5, <1>6, <1>7, StepCases

\* The readings and the stop of a record the replay goes on with.
LEMMA ReadingsStops ==
    ASSUME NEW r \in Replays, r.tx \in Transactions, NEW q, NEW a, ReplayReadings(r, q, a),
           NEW ob, Exact(ob[r.tx], r.snap[r.tx], r.index + 1),
           NEW d, \A u \in (r.todo \cup {r.tx}) \ d : StopKept(r.snap[u], ob[u])
    PROVE  CopyStops(replay', ob, d)
<1> DEFINE record == r.snap[r.tx]
           unsent == {i \in UnsentMeterValues(record) : i > r.index}
<1>0. record \in Records /\ r.index \in Nat /\ DOMAIN record.meterValues \subseteq Nat
    BY MeterValuesType DEF Replays
<1>1. /\ replay'.pc \in {"meter", "stop", "charging"}
      /\ replay'.tx = r.tx /\ replay'.todo = r.todo /\ replay'.snap = r.snap
    BY ReadingsAsk
<1>2. ASSUME replay'.pc = "stop"
      PROVE  unsent = {} /\ record.stop = "pending"
  <2>1. \A i : [r EXCEPT !.pc = "meter", !.index = i].pc = "meter"
    BY DEF Replays
  <2>2. [r EXCEPT !.pc = "charging"].pc = "charging"
    BY DEF Replays
  <2> QED
    BY <1>2, <2>1, <2>2 DEF ReplayReadings
<1>3. ASSUME replay'.pc = "stop", r.tx \notin d
      PROVE  UnsentMeterValues(ob[r.tx]) = {} /\ ob[r.tx].stop # "none"
  <2>1. ob[r.tx].stop # "none" /\ DOMAIN ob[r.tx].meterValues = DOMAIN record.meterValues
    BY <1>2, <1>3 DEF StopKept
  <2>2. ASSUME NEW j \in DOMAIN record.meterValues
        PROVE  ob[r.tx].meterValues[j].replayed
    <3>1. IF j < r.index + 1 THEN ob[r.tx].meterValues[j].replayed
          ELSE ob[r.tx].meterValues[j].replayed = record.meterValues[j].replayed
        BY DEF Exact
    <3>2. CASE j < r.index + 1
        BY <3>1, <3>2
    <3>3. CASE ~(j < r.index + 1)
      <4>1. j > r.index
        BY <1>0, <3>3
      <4>2. record.meterValues[j].replayed
        BY <1>2, <1>3, <4>1 DEF UnsentMeterValues
      <4> QED
        BY <3>1, <3>3, <4>2
    <3> QED
        BY <3>2, <3>3
  <2> QED
    BY <2>1, <2>2 DEF UnsentMeterValues
<1> HIDE DEF record, unsent
<1> QED
    BY <1>1, <1>3 DEF CopyStops

\* The next record keeps its stop.
LEMMA NextStops ==
    ASSUME PointTypeOK, NEW r \in Replays, NEW ids, NEW q, NEW a, ReplayNext(r, ids, q, a), NEW ob, NEW d,
           \A u \in r.todo : Exact(ob[u], r.snap[u], 0),
           \A u \in r.todo \ d : StopKept(r.snap[u], ob[u])
    PROVE  CopyStops(replay', ob, d)
<1> DEFINE t == Earliest(r.todo)
           taken == [r EXCEPT !.todo = r.todo \ {t}, !.tx = t, !.index = 0,
                              !.id = r.snap[t].ocppId]
<1>1. CASE r.todo = {}
  <2>1. replay' = ReplayIdle
    BY <1>1 DEF ReplayNext
  <2> QED
    BY <2>1 DEF CopyStops, ReplayIdle
<1>2. CASE r.todo # {}
  <2>1. t \in r.todo
    <3>1. r.todo \in SUBSET Transactions
        BY DEF Replays
    <3> QED
        BY <1>2, <3>1, EarliestExists
  <2>2. r.snap[t].ocppId \in OcppIds \cup {None} /\ t \in Transactions /\ r.snap[t] \in Records
    BY <2>1 DEF Replays, Records
  <2>3. taken \in Replays /\ taken.tx = t /\ taken.todo = r.todo \ {t} /\ taken.snap = r.snap
        /\ taken.index = 0
    BY <2>1, <2>2 DEF Replays
  <2>4. Exact(ob[t], r.snap[t], 1) /\ (t \notin d => StopKept(r.snap[t], ob[t]))
    BY <2>1, <2>2, ExactFrom
  <2>5. CASE ~r.snap[t].startReplayed
    <3>1. replay' = [taken EXCEPT !.pc = "start"]
        BY <1>2, <2>5 DEF ReplayNext
    <3>2. replay'.pc = "start" /\ replay'.tx = t /\ replay'.todo = r.todo \ {t}
          /\ replay'.snap = r.snap
        BY <2>3, <3>1 DEF Replays
    <3> HIDE DEF taken, t
    <3> QED
        BY <2>4, <3>2 DEF CopyStops
  <2>6. CASE r.snap[t].startReplayed
    <3>1. ReplayReadings(taken, q, a)
        BY <1>2, <2>6 DEF ReplayNext
    <3>2. \A u \in (taken.todo \cup {taken.tx}) \ d : StopKept(taken.snap[u], ob[u])
        BY <2>3, <2>4
    <3> HIDE DEF taken, t
    <3>3. Exact(ob[taken.tx], taken.snap[taken.tx], taken.index + 1)
        BY <2>3, <2>4
    <3> QED
        BY <2>2, <2>3, <3>1, <3>2, <3>3, ReadingsStops
  <2> QED
    BY <2>5, <2>6
<1> QED
    BY <1>1, <1>2

\* A copy keeps its stop in a record that settles.
LEMMA KeptSettles ==
    ASSUME NEW t, NEW s, StopKept(s, outbox[t]), Settles(t)
    PROVE  StopKept(s, outbox'[t])
    BY DEF StopKept, Settles

\* The replay goes on.
LEMMA ReplayStops ==
    ASSUME IInv, Owed, Copied, Copied', CopyStops(replay, outbox, deauthorized),
           deauthorized \subseteq deauthorized', NEW answer \in Answers,
           NEW q \in Seq(Entries), NEW a, Taken(ReplayTask, q, a), ReplayAnswered(answer, q, a),
           replay.pc = "start" /\ answer.kind = "response" => answer.id \in OcppIds
    PROVE  CopyStops(replay', outbox', deauthorized')
<1> DEFINE t == replay.tx
           d == deauthorized'
<1>0. /\ TypeOK /\ PointTypeOK /\ queue \in Seq(Entries) /\ RequestsMatched
      /\ CopyExact(replay, outbox) /\ CopyIsOlder
      /\ outbox \in [Transactions -> Records] /\ replay \in Replays
    BY DEF IInv, Safe, TypeOK, PointTypeOK, Entries, Copied
<1>1. replay.pc # "idle"
    BY <1>0, TakenMatched
<1>2. t \in Transactions /\ outbox[t] \in Records /\ t \notin replay.todo
      /\ replay.todo \subseteq Transactions /\ replay.snap[t] \in Records
    BY <1>0, <1>1 DEF PointTypeOK, Replays, Owed, ReplaySound, TakesKept
<1>3. \A u \in Transactions \ d : Settles(u)
    BY ReplaySettles DEF Tolerated
<1> HIDE DEF d
<1>4. \A u \in replay.todo \ d : StopKept(replay.snap[u], outbox'[u])
    BY <1>2, <1>3, KeptSettles DEF CopyStops, d
<1>5. replay.pc \in {"start", "meter"} /\ t \notin d => StopKept(replay.snap[t], outbox'[t])
    BY <1>2, <1>3, KeptSettles DEF CopyStops, d
<1> SUFFICES CopyStops(replay', outbox', d)
    BY DEF d
<1>6. CASE ReplayAbandoned(answer, q, a)
    BY <1>6 DEF ReplayAbandoned, CopyStops, ReplayIdle
<1>7. CASE ReplayStartAnswered(answer, q, a)
  <2> DEFINE record == BindStart(outbox[t], answer.id)
             r == [replay EXCEPT !.id = answer.id]
  <2>1. answer.id \in OcppIds /\ replay.pc = "start"
    BY <1>7 DEF ReplayStartAnswered
  <2>2. r \in Replays /\ r.tx = t /\ r.todo = replay.todo /\ r.snap = replay.snap /\ r.index = 0
    <3>1. replay.index = 0
        BY <1>0, <2>1 DEF CopyExact
    <3> QED
        BY <1>0, <2>1, <3>1 DEF Replays
  <2>3. CASE outbox' = [outbox EXCEPT ![t] = record] /\ ReplayReadings(r, q, a)
    <3>1. Exact(outbox[t], replay.snap[t], 0) /\ Grown(replay.snap[t], outbox[t])
        BY <1>0, <1>2, <2>1 DEF CopyExact, CopyIsOlder
    <3>2. Extended(outbox[t], record)
        BY <1>2, StopAndBindExtend
    <3> HIDE DEF record
    <3>3. Exact(outbox'[t], replay.snap[t], 0)
        BY <1>0, <1>2, <2>3, <3>1, <3>2, ExtendedExact
    <3>4. Exact(outbox'[t], replay.snap[t], 1)
        BY <1>2, <3>3, ExactFrom
    <3>5. \A u \in (r.todo \cup {r.tx}) \ d : StopKept(r.snap[u], outbox'[u])
        BY <1>4, <1>5, <2>1, <2>2
    <3>6. Exact(outbox'[r.tx], r.snap[r.tx], r.index + 1)
        BY <2>2, <3>4
    <3> HIDE DEF r
    <3> QED
        BY <1>2, <2>2, <2>3, <3>6, <3>5, ReadingsStops
  <2>4. CASE replay' = [r EXCEPT !.pc = "charging"]
    <3>1. replay'.pc = "charging" /\ replay'.todo = replay.todo /\ replay'.snap = replay.snap
        BY <2>2, <2>4 DEF Replays
    <3> HIDE DEF r
    <3> QED
        BY <1>4, <3>1 DEF CopyStops
  <2>5. CASE replay' = [r EXCEPT !.pc = "stop"] /\ t \in d
    <3>1. /\ replay'.pc = "stop" /\ replay'.tx = t
          /\ replay'.todo = replay.todo /\ replay'.snap = replay.snap
        BY <2>2, <2>5 DEF Replays
    <3> HIDE DEF r
    <3> QED
        BY <1>4, <2>5, <3>1 DEF CopyStops
  <2> QED
    BY <1>7, <2>3, <2>4, <2>5 DEF ReplayStartAnswered, d
<1>8. CASE ReplayReadingAnswered(answer, q, a)
  <2> DEFINE i == replay.index
             record == MarkMeterValueReplayed(outbox[t], i)
  <2>1. /\ outbox' = [outbox EXCEPT ![t] = record] /\ replay.pc = "meter"
        /\ ReplayReadings(replay, q, a)
    BY <1>8 DEF ReplayReadingAnswered
  <2>2. i \in DOMAIN replay.snap[t].meterValues /\ Exact(outbox[t], replay.snap[t], i)
        /\ Grown(replay.snap[t], outbox[t])
    BY <1>0, <1>2, <2>1 DEF CopyExact, CopyIsOlder
  <2>3. Exact(record, replay.snap[t], i + 1)
    BY <1>2, <2>2, MarkExact
  <2> HIDE DEF record
  <2>4. Exact(outbox'[t], replay.snap[t], i + 1)
    BY <1>0, <1>2, <2>1, <2>3
  <2> QED
    BY <1>0, <1>2, <1>4, <1>5, <2>1, <2>4, ReadingsStops
<1>9. CASE ReplayStopAnswered(answer, q, a)
  <2>1. replay' = [replay EXCEPT !.pc = "stopped"]
    BY <1>9 DEF ReplayStopAnswered
  <2>2. replay'.pc = "stopped" /\ replay'.todo = replay.todo /\ replay'.snap = replay.snap
    BY <1>0, <2>1 DEF Replays
  <2> QED
    BY <1>4, <2>2 DEF CopyStops
<1>10. CASE ReplayNotified(q, a)
  <2>1. ReplayNext(replay, bound, q, a) /\ outbox' = outbox
    BY <1>10 DEF ReplayNotified
  <2> QED
    BY <1>0, <1>4, <2>1, NextStops DEF CopyExact
<1> QED
    BY <1>6, <1>7, <1>8, <1>9, <1>10 DEF ReplayAnswered

\* A replay that begins has the stops of the outbox.
LEMMA ReplayBegunStops ==
    ASSUME IInv, ReplayBegins
    PROVE  CopyStops(replay', outbox', deauthorized')
<1> DEFINE snap == [t \in Transactions |-> IF t \in Pending THEN outbox[t] ELSE NoRecord]
           r == [ReplayIdle EXCEPT !.todo = Pending, !.snap = snap]
<1>0. PointTypeOK /\ outbox \in [Transactions -> Records]
    BY DEF IInv, TypeOK, PointTypeOK
<1>1. outbox' = outbox /\ ReplayNext(r, bound, queue, aborted)
    BY DEF ReplayBegins, ReplayBegun
<1>2. snap \in [Transactions -> Records]
    BY <1>0 DEF NoRecord, Records, StopStates
<1>3. r \in Replays /\ r.todo = Pending /\ r.snap = snap
  <2>1. Pending \in SUBSET Transactions
    BY DEF Pending
  <2> HIDE DEF snap
  <2> QED
    BY <1>2, <2>1, IdleType DEF Replays
<1>4. \A u \in r.todo : u \in Transactions /\ r.snap[u] = outbox[u]
    BY <1>3 DEF Pending
<1>5. \A u \in Transactions : Exact(outbox[u], outbox[u], 0)
  <2>1. \A u \in Transactions : \A j \in DOMAIN outbox[u].meterValues : ~(j < 0)
    BY <1>0, MeterValuesType
  <2> QED
    BY <2>1 DEF Exact
<1> HIDE DEF r, snap
<1>6. \A u \in r.todo : Exact(outbox[u], r.snap[u], 0) /\ StopKept(r.snap[u], outbox[u])
    BY <1>4, <1>5 DEF StopKept
<1> QED
    BY <1>0, <1>1, <1>3, <1>6, NextStops

\* Every step keeps the stops last.
LEMMA StopsLastStep ==
    ASSUME IInv, Owed, Turns, Copied, Copied', StopsLast, [Next]_vars
    PROVE  StopsLast'
<1>0. /\ TypeOK /\ PointTypeOK /\ StopsOwned /\ StopsAccounted /\ log \in Seq(Messages)
      /\ ReportsRunning /\ CopyStops(replay, outbox, deauthorized) /\ StopsTold
      /\ OfflineStopAfterReadings /\ Tolerated' \subseteq Tolerated /\ Tolerated \subseteq Transactions
      /\ deauthorized \subseteq deauthorized'
      /\ StopsNamed /\ ReportsBound /\ RequestsOwned /\ CopyExact(replay, outbox) /\ CopyIsOlder
      /\ replay.todo \subseteq Transactions /\ replay \in Replays
    BY DeauthorizedGrow
       DEF IInv, TypeOK, PointTypeOK, Safe, Owed, StopsLast, Copied, StopsOwned, Replays, Tolerated
<1>1. \A t \in Tolerated' : Settles(t)
    BY <1>0, StepSettles
<1>2. LogGrows /\ Delivers /\ DOMAIN log' \subseteq Nat
    BY StepCases, TypeStep DEF IInv, TypeOK
<1>3. \A t \in Tolerated' : outbox'[t].stop # "none" /\ log' # log => outbox[t].stop # "none"
    BY <1>1 DEF Settles
<1>4. ReportsRunning'
  <2>1. ASSUME NEW t \in Tolerated', NEW n \in Nat, Waiting(ReportTask(t, n))'
        PROVE  outbox'[t].stop = "none"
    <3>1. CASE Waiting(ReportTask(t, n))
        BY <1>0, <1>1, <3>1 DEF ReportsRunning, ReportsBound, Settles
    <3>2. CASE NewReport(t, n)
      <4>1. outbox[t].stop = "none"
        BY <1>0, <3>2 DEF NewReport, BeginReport, Active, StopsOwned
      <4> QED
        BY <3>2, <4>1 DEF NewReport
    <3> QED
        BY <1>0, <2>1, <3>1, <3>2, ReportsBegin
  <2> QED
    BY <2>1 DEF ReportsRunning
<1>5. CopyStops(replay', outbox', deauthorized')
  <2>1. CASE replay' = replay
    <3>1. \A u \in Tolerated' : StopKept(replay.snap[u], outbox[u]) => StopKept(replay.snap[u], outbox'[u])
        BY <1>1, KeptSettles
    <3>2. replay.pc # "idle" => replay.tx \in Transactions
        BY <1>0 DEF PointTypeOK
    <3>3. replay.pc = "stop" /\ replay.tx \notin deauthorized' =>
            UnsentMeterValues(outbox'[replay.tx]) = {} /\ outbox'[replay.tx].stop # "none"
        BY <1>0, <1>1, <3>2 DEF CopyStops, Settles, Tolerated
    <3> QED
        BY <1>0, <2>1, <3>1, <3>2, <3>3 DEF CopyStops, Tolerated
  <2>2. CASE Continues
    <3>1. ASSUME NEW answer \in Answers, NEW q \in Seq(Entries), NEW a, Taken(ReplayTask, q, a),
                 ReplayAnswered(answer, q, a),
                 replay.pc = "start" /\ answer.kind = "response" => answer.id \in OcppIds
          PROVE  CopyStops(replay', outbox', deauthorized')
        BY <1>0, <3>1, ReplayStops
    <3> QED
        BY <2>1, <2>2, <3>1, ContinueReplay
  <2>3. CASE ReplayBegins
    BY <2>3, ReplayBegunStops
  <2>4. CASE Idles \/ LoopsChange
    BY <2>1, <2>4 DEF Idles, LoopsChange
  <2> QED
    BY <2>1, <2>2, <2>3, <2>4, StepCases
       DEF BeginOfflineStart, BeginOnlineStart, BeginOfflineStop, BeginOnlineStop, BeginReport
<1>6. ASSUME NEW t \in Tolerated, log' # log, NEW e \in EntriesOf(queue),
             e.msg.tx = t, e.msg.type = "StopTransaction"
      PROVE  /\ tx[t].state = "ended"
             /\ outbox[t].stop # "none" => UnsentMeterValues(outbox[t]) = {}
  <2>1. CASE stop[t] # "none"
    BY <1>0, <2>1 DEF StopsOwned, StopsAccounted
  <2>2. CASE replay.pc = "stop" /\ replay.tx = t
    BY <1>0, <2>2 DEF CopyStops, StopsOwned, Tolerated
  <2> QED
    BY <1>0, <1>6, <2>1, <2>2 DEF RequestsOwned, OwnedBy
<1>7. ASSUME NEW t \in Tolerated, NEW e \in EntriesOf(queue),
             e.msg.tx = t, e.msg.type = "MeterValues", outbox[t].stop # "none"
      PROVE  UnsentMeterValues(outbox[t]) # {}
  <2>1. CASE e.msg.sample \in Nat /\ e.task = ReportTask(t, e.msg.sample)
    <3>1. Waiting(ReportTask(t, e.msg.sample))
        BY <2>1 DEF EntriesOf, Waiting
    <3> QED
        BY <1>0, <1>7, <2>1, <3>1 DEF ReportsRunning
  <2>2. CASE replay.pc = "meter" /\ replay.tx = t
    <3>1. /\ replay.index \in DOMAIN replay.snap[t].meterValues
          /\ ~replay.snap[t].meterValues[replay.index].replayed
          /\ Exact(outbox[t], replay.snap[t], replay.index) /\ replay.index \in Nat
        BY <1>0, <2>2 DEF CopyExact, Replays
    <3>2. ~outbox[t].meterValues[replay.index].replayed
        BY <3>1 DEF Exact
    <3>3. replay.index \in DOMAIN outbox[t].meterValues
        BY <1>0, <3>1 DEF CopyIsOlder, Grown
    <3> QED
        BY <3>2, <3>3 DEF UnsentMeterValues
  <2> QED
    BY <1>0, <1>7, <2>1, <2>2 DEF RequestsOwned, OwnedBy
<1>8. ASSUME NEW i \in DOMAIN log' \ DOMAIN log
      PROVE  /\ log' # log
             /\ \E e \in EntriesOf(queue) : e.msg.type = log'[i].type /\ e.msg.tx = log'[i].tx
  <2>1. log' # log
    BY <1>8
  <2>2. PICK receipt : \E e \in EntriesOf(queue) :
           /\ log' = Append(log, receipt)
           /\ receipt.type = e.msg.type /\ receipt.tx = e.msg.tx
    BY <1>2, <2>1 DEF Delivers
  <2>3. log'[i] = receipt
    BY <1>0, <1>8, <2>2
  <2> QED
    BY <2>1, <2>2, <2>3
<1>9. StopsTold'
  <2>1. ASSUME NEW t \in Tolerated', NEW i \in DOMAIN log',
               log'[i].type = "StopTransaction", log'[i].tx = t
        PROVE  /\ tx'[t].state = "ended"
               /\ outbox'[t].stop # "none" => UnsentMeterValues(outbox'[t]) = {}
    <3>1. CASE i \in DOMAIN log
      <4>1. ReceivedStop(t)
        BY <1>2, <2>1, <3>1 DEF ReceivedStop, LogGrows
      <4>2. tx[t].state = "ended" /\ (outbox[t].stop # "none" => UnsentMeterValues(outbox[t]) = {})
        BY <1>0, <4>1 DEF StopsTold
      <4> QED
        BY <1>1, <4>2 DEF Settles, Active
    <3>2. CASE i \notin DOMAIN log
      <4>1. log' # log /\ \E e \in EntriesOf(queue) : e.msg.type = "StopTransaction" /\ e.msg.tx = t
        BY <1>8, <2>1, <3>2
      <4>2. tx[t].state = "ended" /\ (outbox[t].stop # "none" => UnsentMeterValues(outbox[t]) = {})
        BY <1>0, <1>6, <2>1, <4>1
      <4> QED
        BY <1>1, <1>3, <4>1, <4>2 DEF Settles
    <3> QED
        BY <3>1, <3>2
  <2> QED
    BY <2>1 DEF StopsTold, ReceivedStop
<1>10. OfflineStopAfterReadings'
  <2>1. SUFFICES ASSUME NEW i \in DOMAIN log', NEW j \in DOMAIN log', i < j,
                        log'[i].type = "StopTransaction", NEW t, t = log'[i].tx, outbox'[t].stop # "none",
                        t \notin deauthorized',
                        log'[j].type = "MeterValues", log'[j].tx = t
                 PROVE  FALSE
    BY DEF OfflineStopAfterReadings
  <2>2. i \in DOMAIN log
    <3>1. \A k \in DOMAIN log' \ DOMAIN log : \A l \in DOMAIN log' : ~(k < l)
      <4>1. CASE log' = log
        BY <4>1
      <4>2. CASE log' # log
        <5>1. PICK receipt : log' = Append(log, receipt)
            BY <1>2, <4>2 DEF Delivers
        <5>2. DOMAIN log = 1..Len(log) /\ DOMAIN log' = 1..(Len(log) + 1) /\ Len(log) \in Nat
            BY <1>0, <5>1
        <5> QED
            BY <5>2
      <4> QED
        BY <4>1, <4>2
    <3> QED
        BY <2>1, <3>1
  <2>3. log'[i] = log[i] /\ ReceivedStop(t)
    BY <1>2, <2>1, <2>2 DEF LogGrows, ReceivedStop
  <2>4. t \in Tolerated' /\ t \in Tolerated
    <3>1. t \in Transactions
        BY <1>0, <2>1, <2>2, <2>3 DEF StopsNamed
    <3> QED
        BY <1>0, <2>1, <3>1 DEF Tolerated
  <2>5. tx[t].state = "ended" /\ (outbox[t].stop # "none" => UnsentMeterValues(outbox[t]) = {})
    BY <1>0, <2>3, <2>4 DEF StopsTold
  <2>6. outbox[t].stop # "none"
    BY <1>1, <2>1, <2>4, <2>5 DEF Settles, Active
  <2>7. CASE j \in DOMAIN log
    <3>1. /\ log[i] = log'[i] /\ log[j] = log'[j] /\ log[i].tx = t
          /\ log[i].type = "StopTransaction" /\ log[j].type = "MeterValues" /\ log[j].tx = t
        BY <1>2, <2>1, <2>2, <2>3, <2>7 DEF LogGrows
    <3>2. t \notin deauthorized
        BY <2>4 DEF Tolerated
    <3> QED
        BY <1>0, <2>1, <2>2, <2>6, <2>7, <3>1, <3>2 DEF OfflineStopAfterReadings
  <2>8. CASE j \notin DOMAIN log
    <3>1. \E e \in EntriesOf(queue) : e.msg.type = "MeterValues" /\ e.msg.tx = t
        BY <1>8, <2>1, <2>8
    <3> QED
        BY <1>7, <2>4, <2>5, <2>6, <3>1
  <2> QED
    BY <2>7, <2>8
<1>11. CopyStops(replay, outbox, deauthorized)'
    BY <1>5 DEF CopyStops, StopKept
<1>12. StopsNamed'
  <2>1. ASSUME NEW i \in DOMAIN log', log'[i].type = "StopTransaction"
        PROVE  log'[i].tx \in Transactions
    <3>1. CASE i \in DOMAIN log
        BY <1>0, <1>2, <2>1, <3>1 DEF LogGrows, StopsNamed
    <3>2. CASE i \notin DOMAIN log
      <4>1. PICK e \in EntriesOf(queue) : e.msg.type = "StopTransaction" /\ e.msg.tx = log'[i].tx
        BY <1>8, <2>1, <3>2
      <4>2. replay.pc # "idle" => replay.tx \in Transactions
        BY <1>0 DEF PointTypeOK
      <4> QED
        BY <1>0, <4>1, <4>2 DEF RequestsOwned, OwnedBy
    <3> QED
        BY <3>1, <3>2
  <2> QED
    BY <2>1 DEF StopsNamed
<1> QED
    BY <1>4, <1>9, <1>10, <1>11, <1>12 DEF StopsLast

\* No stop is known at first.
LEMMA InitStopsLast ==
    ASSUME Init
    PROVE  StopsLast
<1>1. queue = <<>> /\ aborted = {} /\ replay.todo = {} /\ replay.pc = "idle" /\ log = <<>>
    BY DEF Init, ReplayIdle
<1>2. \A task : ~Waiting(task)
    BY <1>1 DEF Waiting
<1> QED
    BY <1>1, <1>2 DEF StopsLast, ReportsRunning, CopyStops, StopsTold, StopsNamed, ReceivedStop,
        OfflineStopAfterReadings

\* A stop the outbox keeps reaches the CSMS after every reading of its
\* transaction (the order of replayOfflineTransactions, against readings that are
\* recorded, reported and marked meanwhile), whatever StopTransactionOnInvalidId
\* is and becomes; only the stop of a transaction whose start the CSMS refused
\* while it was set may come earlier.
THEOREM StopsComeLast == Spec => []OfflineStopAfterReadings
<1>1. Init => StopsLast
    BY InitStopsLast
<1>2. IInv /\ Owed /\ Turns /\ Copied /\ Copied' /\ StopsLast /\ [Next]_vars => StopsLast'
    BY StopsLastStep
<1>3. StopsLast => OfflineStopAfterReadings
    BY DEF StopsLast
<1> QED
    BY <1>1, <1>2, <1>3, NothingElseIsOwed, StartsTaken, CopiesAreExact, PTL DEF Spec

-----------------------------------------------------------------------------
(* The readings of a transaction are received in the order they were taken, as *)
(* long as the loops are not restarted (MaxRestarts = 0, the sample interval  *)
(* stays as it is): a restarted loop asks while the report before it waits.   *)

\* The report n of t that waits is the latest; the outbox and the replay have
\* nothing of t to send, and its loop waits for it.
LatestReport(t, n) ==
    /\ n = tx[t].samples /\ n > 0
    /\ ~IsPending(outbox[t])
    /\ replay.pc # "idle" => t \notin replay.todo \cup {replay.tx}
    /\ loop[t].on => loop[t].reporting = n

ReportsAreLatest ==
    \A t \in Transactions, n \in Nat : Waiting(ReportTask(t, n)) => LatestReport(t, n)

\* A coroutine waits at most once in q and a.
Single(task, q, a) ==
    /\ \A i, j \in DOMAIN q : q[i].task = task /\ q[j].task = task => i = j
    /\ task \in a => \A i \in DOMAIN q : q[i].task # task

ReportsSingle == \A t \in Transactions, n \in Nat : Single(ReportTask(t, n), queue, aborted)

\* Nothing of t is read yet.
Unread(t) ==
    /\ tx[t].state # "absent"
    /\ ~loop[t].on /\ ~outbox[t].kept
    /\ \A n \in Nat : ~Waiting(ReportTask(t, n))

\* A start that tells of its transaction is the one that begins its loop.
NotifiedUnread ==
    \A s \in Starts : start[s].pc = "notifying" =>
        /\ start[s].tx \in OcppIds
        /\ \A t \in OcppIds : start[s].tx = t =>
             /\ Unread(t)
             /\ \A u \in Starts : start[u].pc = "notifying" /\ start[u].tx = t => u = s

LoopsKnown == \A t \in Transactions : loop[t].on => tx[t].state # "absent"

\* The readings of the record r are in order, and none is later than last.
Ordered(r, last) ==
    /\ \A i, j \in DOMAIN r.meterValues : i < j => r.meterValues[i].sample <= r.meterValues[j].sample
    /\ \A i \in DOMAIN r.meterValues : r.meterValues[i].sample <= last

RecordsOrdered == \A t \in Transactions : Ordered(outbox[t], tx[t].samples)

\* The reading x of t is no later than what is still to be sent of t.
Earlier(t, x) ==
    /\ tx[t].state # "absent" /\ x <= tx[t].samples
    /\ \A j \in UnsentMeterValues(outbox[t]) : x <= outbox[t].meterValues[j].sample

ReceivedEarlier ==
    \A t \in Transactions : \A i \in DOMAIN log :
        log[i].type = "MeterValues" /\ log[i].tx = t => Earlier(t, log[i].sample)

ReadingsSound ==
    /\ ReportsAreLatest /\ ReportsSingle
    /\ NotifiedUnread /\ LoopsKnown
    /\ RecordsOrdered /\ ReceivedEarlier
    /\ ReadingsInOrder

-----------------------------------------------------------------------------
(* What a step may do with one transaction. *)

\* Its samples and whether it exists stay.
Stays(t) == tx'[t].samples = tx[t].samples /\ ((tx'[t].state = "absent") = (tx[t].state = "absent"))

Untouched(t) == Stays(t) /\ outbox'[t] = outbox[t] /\ loop'[t] \in {loop[t], LoopOff}

\* It begins.
Born(t) ==
    /\ tx[t].state = "absent" /\ tx'[t].state # "absent" /\ tx'[t].samples = 0
    /\ \/ outbox'[t] = outbox[t] /\ loop'[t] = loop[t]
       \/ t \in LocalIds /\ outbox'[t] = RecordStarted

\* Its loop reads, for the outbox.
ReadingKept(t) ==
    /\ loop[t].on /\ loop[t].reporting = 0 /\ loop'[t] = loop[t]
    /\ tx[t].state # "absent" /\ tx'[t].state # "absent"
    /\ \E n \in Nat : n = tx[t].samples + 1 /\ tx'[t].samples = n /\ RecordReading(t, n)

\* A report is answered or fails.
ReportEnds(t) ==
    /\ tx' = tx /\ loop'[t].on = loop[t].on
    /\ \E n \in Nat :
         /\ outbox' = outbox \/ RecordReading(t, n)
         /\ \E q \in Seq(Entries) : \E a : Taken(ReportTask(t, n), q, a) /\ Finish(q, a)

\* The start that tells of it begins its loop.
LoopBegins(t) ==
    /\ UNCHANGED <<tx, outbox>>
    /\ \E s \in Starts : /\ start[s].pc = "notifying" /\ start[s].tx = t
                         /\ start' = [start EXCEPT ![s].pc = "done"]

\* The replay marks its record, or begins its loop.
Replayed(t) ==
    /\ Stays(t) /\ replay.pc # "idle" /\ replay.tx = t
    /\ outbox'[t].kept = outbox[t].kept
    /\ DOMAIN outbox'[t].meterValues = DOMAIN outbox[t].meterValues
    /\ \A i \in DOMAIN outbox[t].meterValues :
         outbox'[t].meterValues[i].sample = outbox[t].meterValues[i].sample
    /\ UnsentMeterValues(outbox'[t]) \subseteq UnsentMeterValues(outbox[t])

\* It is stopped before the CSMS knows it.
StoppedUnknown(t) ==
    /\ Stays(t) /\ ~IsBound(t) /\ outbox[t].kept /\ outbox'[t].kept
    /\ outbox'[t].meterValues = outbox[t].meterValues
    /\ loop'[t] = LoopOff

Affects(t) ==
    \/ Untouched(t)
    \/ Born(t)
    \/ ReadingKept(t)
    \/ \E n \in Nat : NewReport(t, n)
    \/ ReportEnds(t)
    \/ LoopBegins(t)
    \/ Replayed(t)
    \/ StoppedUnknown(t)

\* A start goes on to tell of the transaction the CSMS has just accepted.
StartsMove ==
    \/ \A s \in Starts : start'[s].pc = "notifying" => start'[s] = start[s]
    \/ \E s \in Starts, t \in OcppIds :
         /\ Born(t) /\ outbox'[t] = outbox[t] /\ loop'[t] = loop[t]
         /\ start'[s].pc = "notifying" /\ start'[s].tx = t
         /\ \A u \in Starts : u # s => start'[u] = start[u]

\* The replay takes no record but those it has copied.
ReplayTakes ==
    \/ replay' = replay
    \/ replay'.pc = "idle"
    \/ replay.pc = "idle" /\ replay'.todo \cup {replay'.tx} \subseteq Pending
    \/ replay.pc # "idle" /\ replay'.todo \cup {replay'.tx} \subseteq replay.todo \cup {replay.tx}

\* Loops of other transactions than the one started or stopped stay.
LEMMA LoopsOf ==
    ASSUME PointTypeOK, NEW t, NEW u \in Transactions
    PROVE  /\ LoopStopped(t)[u] \in {loop[u], LoopOff}
           /\ u # t => LoopStarted(t)[u] = loop[u]
           /\ u = t => LoopStopped(t)[u] = LoopOff
    BY DEF PointTypeOK, LoopStopped, LoopStarted

\* The replay goes on with one record, and takes no other than it copied.
LEMMA NextTakes ==
    ASSUME PointTypeOK, NEW r \in Replays, NEW ids, NEW q, NEW a, ReplayNext(r, ids, q, a)
    PROVE  \/ replay'.pc = "idle"
           \/ replay'.todo \cup {replay'.tx} \subseteq r.todo
<1> DEFINE t == Earliest(r.todo)
           taken == [r EXCEPT !.todo = r.todo \ {t}, !.tx = t, !.index = 0,
                              !.id = r.snap[t].ocppId]
<1>1. CASE r.todo = {}
  <2>1. replay' = ReplayIdle
    BY <1>1 DEF ReplayNext
  <2> QED
    BY <2>1 DEF ReplayIdle
<1>2. CASE r.todo # {}
  <2>1. t \in r.todo
    <3>1. r.todo \in SUBSET Transactions
        BY DEF Replays
    <3> QED
        BY <1>2, <3>1, EarliestExists
  <2>2. r.snap[t].ocppId \in OcppIds \cup {None} /\ t \in Transactions
    BY <2>1 DEF Replays, Records
  <2>3. taken \in Replays /\ taken.tx = t /\ taken.todo = r.todo \ {t}
    BY <2>1, <2>2 DEF Replays
  <2>4. replay'.tx = t /\ replay'.todo = r.todo \ {t}
    <3>1. CASE replay' = [taken EXCEPT !.pc = "start"]
        BY <2>3, <3>1 DEF Replays
    <3>2. CASE ReplayReadings(taken, q, a)
      <4> HIDE DEF taken, t
      <4> QED
        BY <2>3, <3>2, ReadingsAsk
    <3> QED
        BY <1>2, <3>1, <3>2 DEF ReplayNext
  <2> HIDE DEF t, taken
  <2> QED
    BY <2>1, <2>4
<1> QED
    BY <1>1, <1>2

\* What a step of the replay does to a record.
LEMMA ReplayAffects ==
    ASSUME IInv, Owed, NEW answer \in Answers, NEW q \in Seq(Entries), NEW a,
           Taken(ReplayTask, q, a), ReplayAnswered(answer, q, a), NEW t \in Transactions
    PROVE  Untouched(t) \/ Replayed(t)
<1>0. /\ TypeOK /\ PointTypeOK /\ RequestsMatched /\ replay \in Replays
      /\ tx \in [Transactions -> TxValues] /\ outbox \in [Transactions -> Records]
    BY DEF IInv, TypeOK, PointTypeOK, Safe
<1>1. replay.pc # "idle" /\ replay.tx \in Transactions /\ replay.index \in Nat
    BY <1>0, TakenMatched DEF PointTypeOK, Replays
<1>2. CASE ReplayAbandoned(answer, q, a)
    BY <1>2 DEF ReplayAbandoned, Untouched, Stays
<1>3. CASE ReplayNotified(q, a)
  <2>1. UNCHANGED <<tx, outbox>> /\ loop' \in {loop, LoopStarted(replay.tx)}
    BY <1>3 DEF ReplayNotified
  <2>2. CASE t = replay.tx
    BY <1>1, <2>1, <2>2 DEF Replayed, Stays
  <2>3. CASE t # replay.tx
    BY <1>0, <2>1, <2>3, LoopsOf DEF Untouched, Stays
  <2> QED
    BY <2>2, <2>3
<1>4. CASE ReplayStartAnswered(answer, q, a)
  <2> DEFINE record == BindStart(outbox[replay.tx], answer.id)
  <2>1. /\ outbox' \in {[outbox EXCEPT ![replay.tx] = record],
                        [outbox EXCEPT ![replay.tx] = RecordStopped(record)]}
        /\ loop' = loop
        /\ tx' = tx \/ (Active(replay.tx) /\ End(replay.tx))
    BY <1>4 DEF ReplayStartAnswered
  <2>2. Stays(t)
    BY <1>0, <1>1, <2>1, EndSamples DEF Stays, Active
  <2>3. CASE t # replay.tx
    <3>1. outbox'[t] = outbox[t]
        BY <1>0, <2>1, <2>3
    <3> QED
        BY <2>1, <2>2, <3>1 DEF Untouched
  <2>4. CASE t = replay.tx
    <3>1. outbox'[t] \in {record, RecordStopped(record)}
        BY <1>0, <2>1, <2>4
    <3>2. outbox'[t].meterValues = outbox[t].meterValues /\ outbox'[t].kept = outbox[t].kept
        BY <1>0, <2>4, <3>1, StopAndBindExtend
    <3> QED
        BY <1>1, <2>2, <2>4, <3>2 DEF Replayed, UnsentMeterValues
  <2> QED
    BY <2>3, <2>4
<1>5. CASE ReplayReadingAnswered(answer, q, a)
  <2> DEFINE marked == MarkMeterValueReplayed(outbox[replay.tx], replay.index)
  <2>1. outbox' = [outbox EXCEPT ![replay.tx] = marked] /\ UNCHANGED <<tx, loop>>
    BY <1>5 DEF ReplayReadingAnswered
  <2>2. CASE t # replay.tx
    <3>1. outbox'[t] = outbox[t]
        BY <1>0, <2>1, <2>2
    <3> QED
        BY <2>1, <3>1 DEF Untouched, Stays
  <2>3. CASE t = replay.tx
    <3>1. outbox'[t] = marked
        BY <1>0, <2>1, <2>3
    <3>2. /\ marked.kept = outbox[t].kept
          /\ DOMAIN marked.meterValues = DOMAIN outbox[t].meterValues
          /\ Grown(outbox[t], marked)
          /\ UnsentMeterValues(marked) \subseteq UnsentMeterValues(outbox[t])
        BY <1>0, <1>1, <2>3, MarkReading, ReplayLeaves
    <3> HIDE DEF marked
    <3> QED
        BY <1>1, <2>1, <2>3, <3>1, <3>2 DEF Replayed, Stays, Grown
  <2> QED
    BY <2>2, <2>3
<1>6. CASE ReplayStopAnswered(answer, q, a)
  <2> DEFINE marked == MarkStopReplayed(outbox[replay.tx])
  <2>1. outbox' = [outbox EXCEPT ![replay.tx] = marked] /\ UNCHANGED <<tx, loop>>
    BY <1>6 DEF ReplayStopAnswered
  <2>2. CASE t # replay.tx
    <3>1. outbox'[t] = outbox[t]
        BY <1>0, <2>1, <2>2
    <3> QED
        BY <2>1, <3>1 DEF Untouched, Stays
  <2>3. CASE t = replay.tx
    <3>1. outbox'[t] = marked
        BY <1>0, <2>1, <2>3
    <3>2. marked.kept = outbox[t].kept /\ marked.meterValues = outbox[t].meterValues
        BY <1>0, <2>3, MarkStop
    <3> HIDE DEF marked
    <3> QED
        BY <1>1, <2>1, <2>3, <3>1, <3>2 DEF Replayed, Stays, UnsentMeterValues
  <2> QED
    BY <2>2, <2>3
<1> QED
    BY <1>2, <1>3, <1>4, <1>5, <1>6 DEF ReplayAnswered

\* What a step of a loop or of a report does to a transaction.
LEMMA ReportAffects ==
    ASSUME IInv, Owed, NEW u \in Transactions, NEW t \in Transactions,
           \/ BeginReport(u)
           \/ \E n \in Nat, answer \in Answers, q \in Seq(Entries) : \E a :
                Taken(ReportTask(u, n), q, a) /\ ReportAnswered(u, n, answer, q, a)
    PROVE  Affects(t)
<1>0. /\ TypeOK /\ PointTypeOK /\ RecordsKept /\ ReportsKnown /\ queue \in Seq(Entries)
      /\ tx \in [Transactions -> TxValues] /\ outbox \in [Transactions -> Records]
      /\ loop \in [Transactions -> LoopValues]
    BY DEF IInv, TypeOK, PointTypeOK, Safe, Entries
<1>1. CASE BeginReport(u)
  <2>1. PICK n \in Nat : n = tx[u].samples + 1
    BY <1>0 DEF TxValues
  <2>2. /\ Active(u) /\ tx' = [tx EXCEPT ![u].samples = n]
        /\ loop[u].on /\ loop[u].reporting = 0
        /\ \/ RecordReading(u, n) /\ loop' = loop
           \/ NewReport(u, n)
    BY <1>1, <2>1 DEF BeginReport, NewReport
  <2>3. tx'[u].samples = n /\ tx'[u].state = tx[u].state /\ tx[u].state # "absent"
        /\ (t # u => tx'[t] = tx[t])
    BY <1>0, <2>2 DEF TxValues, Active
  <2>4. CASE t = u
    BY <2>1, <2>2, <2>3, <2>4 DEF Affects, ReadingKept
  <2>5. CASE t # u
    <3>1. loop'[t] = loop[t]
        BY <1>0, <2>2, <2>5 DEF NewReport
    <3>2. outbox'[t] = outbox[t]
        BY <1>0, <2>2, <2>3, <2>5, RecordReadingSafe DEF NewReport
    <3> QED
        BY <2>3, <2>5, <3>1, <3>2 DEF Affects, Untouched, Stays
  <2> QED
    BY <2>4, <2>5
<1>2. ASSUME NEW n \in Nat, NEW answer \in Answers, NEW q \in Seq(Entries), NEW a,
             Taken(ReportTask(u, n), q, a), ReportAnswered(u, n, answer, q, a)
      PROVE  Affects(t)
  <2>1. /\ tx' = tx /\ Finish(q, a)
        /\ outbox' = outbox \/ RecordReading(u, n)
        /\ loop' \in {loop, [loop EXCEPT ![u].reporting = 0]}
    BY <1>2 DEF ReportAnswered
  <2>2. Waiting(ReportTask(u, n)) /\ tx[u].state # "absent"
    BY <1>0, <1>2, TakenEntries DEF ReportsKnown
  <2>3. loop'[u].on = loop[u].on /\ (t # u => loop'[t] = loop[t])
    BY <1>0, <2>1 DEF LoopValues
  <2>4. CASE t = u
    BY <1>2, <2>1, <2>3, <2>4 DEF Affects, ReportEnds
  <2>5. CASE t # u
    <3>1. outbox'[t] = outbox[t]
        BY <1>0, <2>1, <2>2, <2>5, RecordReadingSafe
    <3> QED
        BY <2>1, <2>3, <2>5, <3>1 DEF Affects, Untouched, Stays
  <2> QED
    BY <2>4, <2>5
<1> QED
    BY <1>1, <1>2

\* What a step of a start or a stop does to a transaction.
LEMMA StartAffects ==
    ASSUME IInv, Owed, NEW t \in Transactions,
           \/ \E s \in Starts, c \in Connectors :
                BeginOfflineStart(s, c) \/ BeginOnlineStart(s, c)
           \/ \E u \in Transactions : BeginOnlineStop(u) \/ BeginOfflineStop(u)
           \/ \E s \in Starts : \E answer, q, a :
                \/ StartAccepted(s, answer, q, a) /\ Assigned(answer.id)
                \/ StartRefused(s, answer, q, a)
                \/ StartNotified(s, q, a)
           \/ \E u \in Transactions : \E q, a : StopAnswered(u, q, a)
    PROVE  Affects(t)
<1>0. /\ TypeOK /\ PointTypeOK
      /\ tx \in [Transactions -> TxValues] /\ outbox \in [Transactions -> Records]
    BY DEF IInv, TypeOK, PointTypeOK
<1>1. ASSUME NEW s \in Starts, NEW c \in Connectors, BeginOfflineStart(s, c)
      PROVE  Affects(t)
  <2>1. PICK u \in LocalIds :
            /\ tx[u].state = "absent" /\ CreateActive(u, c, starts)
            /\ outbox' = [outbox EXCEPT ![u] = RecordStarted] /\ loop' = LoopStarted(u)
    BY <1>1 DEF BeginOfflineStart
  <2>2. CASE t = u
    <3>1. outbox'[t] = RecordStarted
        BY <1>0, <2>1, <2>2
    <3>2. tx'[t].state = "active" /\ tx'[t].samples = 0
        BY <1>0, <2>1, <2>2, CreateActiveSamples
    <3> QED
        BY <2>1, <2>2, <3>1, <3>2 DEF Affects, Born
  <2>3. CASE t # u
    <3>1. outbox'[t] = outbox[t]
        BY <1>0, <2>1, <2>3
    <3>2. tx'[t] = tx[t]
        BY <1>0, <2>1, <2>3, CreateActiveSamples
    <3>3. loop'[t] = loop[t]
        BY <1>0, <2>1, <2>3, LoopsOf
    <3> QED
        BY <3>1, <3>2, <3>3 DEF Affects, Untouched, Stays
  <2> QED
    BY <2>2, <2>3
<1>2. ASSUME NEW s \in Starts, NEW c \in Connectors, BeginOnlineStart(s, c)
      PROVE  Affects(t)
    BY <1>2 DEF BeginOnlineStart, Affects, Untouched, Stays
<1>3. ASSUME NEW u \in Transactions, BeginOnlineStop(u) \/ BeginOfflineStop(u)
      PROVE  Affects(t)
  <2>1. Active(u) /\ End(u) /\ loop' = LoopStopped(u)
    BY <1>3 DEF BeginOnlineStop, BeginOfflineStop
  <2>2. Stays(t)
    BY <1>0, <2>1, EndSamples DEF Stays, Active
  <2>3. loop'[t] \in {loop[t], LoopOff} /\ (t = u => loop'[t] = LoopOff)
    BY <1>0, <2>1, LoopsOf
  <2>4. CASE BeginOnlineStop(u)
    BY <2>2, <2>3, <2>4 DEF BeginOnlineStop, Affects, Untouched
  <2>5. CASE BeginOfflineStop(u)
    <3>1. ~IsBound(u) /\ outbox[u].kept /\ outbox' = [outbox EXCEPT ![u] = RecordStopped(outbox[u])]
        BY <2>5 DEF BeginOfflineStop
    <3>2. CASE t = u
      <4>1. outbox'[t] = RecordStopped(outbox[t])
        BY <1>0, <3>1, <3>2
      <4>2. outbox'[t].kept /\ outbox'[t].meterValues = outbox[t].meterValues
        BY <1>0, <3>1, <3>2, <4>1 DEF RecordStopped, Records
      <4> QED
        BY <2>2, <2>3, <3>1, <3>2, <4>2 DEF Affects, StoppedUnknown
    <3>3. CASE t # u
      <4>1. outbox'[t] = outbox[t]
        BY <1>0, <3>1, <3>3
      <4> QED
        BY <2>2, <2>3, <4>1 DEF Affects, Untouched
    <3> QED
        BY <3>2, <3>3
  <2> QED
    BY <1>3, <2>4, <2>5
<1>4. ASSUME NEW s \in Starts, NEW answer, NEW q, NEW a,
             StartAccepted(s, answer, q, a), Assigned(answer.id)
      PROVE  Affects(t)
  <2>1. /\ CreateActive(answer.id, start[s].connector, start[s].at) /\ UNCHANGED <<outbox, loop>>
        /\ tx[answer.id].state = "absent"
    BY <1>4 DEF StartAccepted, Assigned
  <2>2. IF t = answer.id THEN tx'[t].state = "active" /\ tx'[t].samples = 0 ELSE tx'[t] = tx[t]
    BY <1>0, <2>1, CreateActiveSamples
  <2>3. CASE t = answer.id
    BY <2>1, <2>2, <2>3 DEF Affects, Born
  <2>4. CASE t # answer.id
    BY <2>1, <2>2, <2>4 DEF Affects, Untouched, Stays
  <2> QED
    BY <2>3, <2>4
<1>5. ASSUME NEW s \in Starts, NEW q, NEW a, StartNotified(s, q, a)
      PROVE  Affects(t)
  <2>1. /\ start[s].pc = "notifying" /\ loop' = LoopStarted(start[s].tx)
        /\ start' = [start EXCEPT ![s].pc = "done"] /\ UNCHANGED <<tx, outbox>>
    BY <1>5 DEF StartNotified
  <2>2. CASE t = start[s].tx
    BY <2>1, <2>2 DEF Affects, LoopBegins
  <2>3. CASE t # start[s].tx
    <3>1. loop'[t] = loop[t]
        BY <1>0, <2>1, <2>3, LoopsOf
    <3> QED
        BY <2>1, <3>1 DEF Affects, Untouched, Stays
  <2> QED
    BY <2>2, <2>3
<1>6. ASSUME NEW s \in Starts, NEW answer, NEW q, NEW a, StartRefused(s, answer, q, a)
      PROVE  Affects(t)
    BY <1>6 DEF StartRefused, Affects, Untouched, Stays
<1>7. ASSUME NEW u \in Transactions, NEW q, NEW a, StopAnswered(u, q, a)
      PROVE  Affects(t)
    BY <1>7 DEF StopAnswered, Affects, Untouched, Stays
<1> QED
    BY <1>1, <1>2, <1>3, <1>4, <1>5, <1>6, <1>7

\* What any step does to a transaction.
LEMMA StepAffects ==
    ASSUME MaxRestarts = 0, IInv, Owed, Turns, [Next]_vars, NEW t \in Transactions
    PROVE  Affects(t)
<1>0. PointTypeOK /\ restarts \in Nat
    BY DEF IInv, TypeOK
<1>1. CASE Idles \/ ReplayBegins
    BY <1>1 DEF Idles, ReplayBegins, Affects, Untouched, Stays
<1>2. CASE LoopsChange
  <2>1. ~RestartMeterLoops
    BY <1>0 DEF RestartMeterLoops
  <2>2. PICK u \in Transactions : StopThrows(u) \/ LoopExpires(u)
    BY <1>2, <2>1 DEF LoopsChange
  <2>3. loop' = LoopStopped(u) /\ UNCHANGED <<tx, outbox>>
    BY <1>2, <2>2 DEF StopThrows, LoopExpires, LoopsChange
  <2>4. loop'[t] \in {loop[t], LoopOff}
    BY <1>0, <2>3, LoopsOf
  <2> QED
    BY <2>3, <2>4 DEF Affects, Untouched, Stays
<1>3. CASE Continues
  <2>1. ASSUME NEW answer \in Answers, NEW q \in Seq(Entries), NEW a,
               Taken(ReplayTask, q, a), ReplayAnswered(answer, q, a)
        PROVE  Affects(t)
    BY <2>1, ReplayAffects DEF Affects
  <2>2. \/ \E s \in Starts : \E answer, q, a :
             \/ StartAccepted(s, answer, q, a) /\ Assigned(answer.id)
             \/ StartRefused(s, answer, q, a)
             \/ StartNotified(s, q, a)
        \/ \E u \in Transactions : \E q, a : StopAnswered(u, q, a)
        \/ \E u \in Transactions : \E n \in Nat, answer \in Answers, q \in Seq(Entries) : \E a :
             Taken(ReportTask(u, n), q, a) /\ ReportAnswered(u, n, answer, q, a)
        \/ \E answer \in Answers, q \in Seq(Entries) : \E a :
             Taken(ReplayTask, q, a) /\ ReplayAnswered(answer, q, a)
    BY <1>3, ContinueCases
  <2> QED
    BY <2>1, <2>2, StartAffects, ReportAffects
<1>4. CASE \/ \E s \in Starts, c \in Connectors : BeginOfflineStart(s, c) \/ BeginOnlineStart(s, c)
           \/ \E u \in Transactions : BeginOnlineStop(u) \/ BeginOfflineStop(u)
    BY <1>4, StartAffects
<1>5. CASE \E u \in Transactions : BeginReport(u)
    BY <1>5, ReportAffects
<1> QED
    BY <1>1, <1>2, <1>3, <1>4, <1>5, StepCases

\* Which starts tell of their transaction.
LEMMA StepStarts ==
    ASSUME IInv, Owed, Turns, [Next]_vars
    PROVE  StartsMove
<1>0. /\ TypeOK /\ PointTypeOK /\ start \in [Starts -> StartValues]
      /\ tx \in [Transactions -> TxValues]
    BY DEF IInv, TypeOK, PointTypeOK
<1>1. CASE start' = start
    BY <1>1 DEF StartsMove
<1>2. ASSUME NEW s \in Starts, NEW v, start' = [start EXCEPT ![s] = v], v.pc # "notifying"
      PROVE  StartsMove
    BY <1>0, <1>2 DEF StartsMove
<1>3. ASSUME NEW s \in Starts, NEW c \in Connectors, BeginOfflineStart(s, c) \/ BeginOnlineStart(s, c)
      PROVE  StartsMove
  <2>1. CASE BeginOfflineStart(s, c)
    <3>1. start' = [start EXCEPT ![s] = [start[s] EXCEPT !.pc = "done"]]
          /\ [start[s] EXCEPT !.pc = "done"].pc = "done"
        BY <1>0, <2>1 DEF BeginOfflineStart, StartValues
    <3> QED
        BY <1>2, <3>1
  <2>2. CASE BeginOnlineStart(s, c)
    <3> DEFINE v == [pc |-> "sending", connector |-> c, at |-> starts, tx |-> None]
    <3>1. start' = [start EXCEPT ![s] = v] /\ v.pc # "notifying"
        BY <2>2 DEF BeginOnlineStart
    <3> HIDE DEF v
    <3> QED
        BY <1>2, <3>1
  <2> QED
    BY <1>3, <2>1, <2>2
<1>4. CASE Continues
  <2>1. ASSUME NEW s \in Starts, NEW answer \in Answers, NEW q, NEW a,
               \/ StartAccepted(s, answer, q, a) /\ Assigned(answer.id)
               \/ StartRefused(s, answer, q, a)
               \/ StartNotified(s, q, a)
        PROVE  StartsMove
    <3>1. CASE StartRefused(s, answer, q, a) \/ StartNotified(s, q, a)
      <4>1. start' = [start EXCEPT ![s] = [start[s] EXCEPT !.pc = "done"]]
            /\ [start[s] EXCEPT !.pc = "done"].pc = "done"
        BY <1>0, <3>1 DEF StartRefused, StartNotified, StartValues
      <4> QED
        BY <1>2, <4>1
    <3>2. CASE StartAccepted(s, answer, q, a) /\ Assigned(answer.id)
      <4>1. /\ CreateActive(answer.id, start[s].connector, start[s].at) /\ UNCHANGED <<outbox, loop>>
            /\ start' = [start EXCEPT ![s].pc = "notifying", ![s].tx = answer.id]
            /\ answer.id \in OcppIds /\ tx[answer.id].state = "absent"
        BY <3>2 DEF StartAccepted, Assigned
      <4>2. answer.id \in Transactions
        BY <4>1 DEF Transactions
      <4>3. tx'[answer.id].state = "active" /\ tx'[answer.id].samples = 0
        BY <1>0, <4>1, <4>2, CreateActiveSamples
      <4>4. /\ start'[s].pc = "notifying" /\ start'[s].tx = answer.id
            /\ \A u \in Starts : u # s => start'[u] = start[u]
        BY <1>0, <4>1 DEF StartValues
      <4> QED
        BY <4>1, <4>3, <4>4 DEF StartsMove, Born
    <3> QED
        BY <2>1, <3>1, <3>2
  <2>2. \/ \E s \in Starts, answer \in Answers : \E q, a :
             \/ StartAccepted(s, answer, q, a) /\ Assigned(answer.id)
             \/ StartRefused(s, answer, q, a)
             \/ StartNotified(s, q, a)
        \/ start' = start
    BY <1>4, ContinueCases DEF StopAnswered, ReportAnswered, ReplayAnswered
  <2> QED
    BY <1>1, <2>1, <2>2
<1> QED
    BY <1>1, <1>3, <1>4, StepCases
    DEF Idles, LoopsChange, ReplayBegins, BeginOnlineStop, BeginOfflineStop, BeginReport

\* Which records the replay takes.
LEMMA StepTakes ==
    ASSUME IInv, Owed, Turns, [Next]_vars
    PROVE  ReplayTakes
<1>0. PointTypeOK /\ TypeOK /\ RequestsMatched /\ replay \in Replays /\ outbox \in [Transactions -> Records]
    BY DEF IInv, TypeOK, PointTypeOK, Safe
<1>1. CASE replay' = replay
    BY <1>1 DEF ReplayTakes
<1>2. CASE ReplayBegins
  <2> DEFINE r == [ReplayIdle EXCEPT !.todo = Pending,
                     !.snap = [t \in Transactions |-> IF t \in Pending THEN outbox[t] ELSE NoRecord]]
  <2>1. r.todo = Pending
    BY DEF ReplayIdle
  <2>2. r \in Replays
    <3>1. NoRecord \in Records
        BY DEF NoRecord, Records, StopStates
    <3> QED
        BY <1>0, <3>1 DEF ReplayIdle, Replays, Pending
  <2>3. ReplayNext(r, bound, queue, aborted) /\ replay.pc = "idle"
    BY <1>2 DEF ReplayBegins, ReplayBegun
  <2> HIDE DEF r
  <2>4. replay'.pc = "idle" \/ replay'.todo \cup {replay'.tx} \subseteq r.todo
    BY <1>0, <2>2, <2>3, NextTakes
  <2> QED
    BY <2>1, <2>3, <2>4 DEF ReplayTakes
<1>3. ASSUME NEW answer \in Answers, NEW q \in Seq(Entries), NEW a,
             Taken(ReplayTask, q, a), ReplayAnswered(answer, q, a),
             replay.pc = "start" /\ answer.kind = "response" => answer.id \in OcppIds
      PROVE  ReplayTakes
  <2>1. replay.pc # "idle"
    BY <1>0, <1>3, TakenMatched
  <2>2. ASSUME NEW r \in Replays, ReplayReadings(r, q, a), r.tx = replay.tx, r.todo = replay.todo
        PROVE  ReplayTakes
    <3>1. replay'.tx = replay.tx /\ replay'.todo = replay.todo
        BY <2>2, ReadingsAsk
    <3> QED
        BY <2>1, <3>1 DEF ReplayTakes
  <2>3. CASE ReplayAbandoned(answer, q, a)
    BY <2>3 DEF ReplayAbandoned, ReplayIdle, ReplayTakes
  <2>4. CASE ReplayStartAnswered(answer, q, a)
    <3> DEFINE r == [replay EXCEPT !.id = answer.id]
    <3>1. r \in Replays /\ r.tx = replay.tx /\ r.todo = replay.todo
        BY <1>0, <1>3, <2>4 DEF Replays, ReplayStartAnswered
    <3>2. ReplayReadings(r, q, a) \/ \E pc : replay' = [r EXCEPT !.pc = pc]
        BY <2>4 DEF ReplayStartAnswered
    <3> HIDE DEF r
    <3>3. CASE \E pc : replay' = [r EXCEPT !.pc = pc]
      <4>1. replay'.tx = replay.tx /\ replay'.todo = replay.todo
        BY <3>1, <3>3 DEF Replays
      <4> QED
        BY <2>1, <4>1 DEF ReplayTakes
    <3> QED
        BY <2>2, <3>1, <3>2, <3>3
  <2>5. CASE ReplayReadingAnswered(answer, q, a)
    BY <1>0, <2>2, <2>5 DEF ReplayReadingAnswered
  <2>6. CASE ReplayStopAnswered(answer, q, a)
    <3>1. replay' = [replay EXCEPT !.pc = "stopped"]
        BY <2>6 DEF ReplayStopAnswered
    <3>2. replay'.tx = replay.tx /\ replay'.todo = replay.todo
        BY <1>0, <3>1 DEF Replays
    <3> QED
        BY <2>1, <3>2 DEF ReplayTakes
  <2>7. CASE ReplayNotified(q, a)
    <3>1. ReplayNext(replay, bound, q, a)
        BY <2>7 DEF ReplayNotified
    <3>2. replay'.pc = "idle" \/ replay'.todo \cup {replay'.tx} \subseteq replay.todo
        BY <1>0, <3>1, NextTakes
    <3> QED
        BY <2>1, <3>2 DEF ReplayTakes
  <2> QED
    BY <1>3, <2>3, <2>4, <2>5, <2>6, <2>7 DEF ReplayAnswered
<1>4. CASE Continues
    BY <1>1, <1>3, <1>4, ContinueReplay
<1> QED
    BY <1>1, <1>2, <1>4, StepCases
    DEF Idles, LoopsChange, BeginOfflineStart, BeginOnlineStart, BeginOnlineStop, BeginOfflineStop, BeginReport

-----------------------------------------------------------------------------
(* A report waits once. *)

\* Taking a coroutine leaves the others waiting once, and itself not at all.
LEMMA SingleTaken ==
    ASSUME queue \in Seq(Entries), NEW task, NEW q, NEW a, Taken(task, q, a),
           NEW other, Single(other, queue, aborted)
    PROVE  Single(other, q, a) /\ (other = task => ~WaitsIn(other, q, a))
<1>1. CASE queue # <<>> /\ task = Head(queue).task /\ q = Tail(queue) /\ a = aborted
  <2>1. /\ 1 \in DOMAIN queue /\ Head(queue) = queue[1]
        /\ \A i \in DOMAIN q : i + 1 \in DOMAIN queue /\ q[i] = queue[i + 1]
    BY <1>1, TailPositions
  <2>2. \A i \in DOMAIN q : i \in Nat /\ i + 1 # 1
    <3>1. q \in Seq(Entries)
        BY <1>1
    <3> QED
        BY <3>1
  <2>3. \A i, j \in DOMAIN q : q[i].task = other /\ q[j].task = other => i = j
    <3> SUFFICES ASSUME NEW i \in DOMAIN q, NEW j \in DOMAIN q, q[i].task = other, q[j].task = other
                 PROVE  i = j
        OBVIOUS
    <3>1. i + 1 = j + 1
        BY <2>1 DEF Single
    <3> QED
        BY <2>2, <3>1
  <2>4. other \in a => \A i \in DOMAIN q : q[i].task # other
    BY <1>1, <2>1 DEF Single
  <2>5. ASSUME other = task PROVE ~WaitsIn(other, q, a)
    <3>1. other \notin aborted
        BY <1>1, <2>1, <2>5 DEF Single
    <3>2. ASSUME NEW i \in DOMAIN q, q[i].task = other PROVE FALSE
      <4>1. i + 1 = 1
        BY <1>1, <2>1, <2>5, <3>2 DEF Single
      <4> QED
        BY <2>2, <4>1
    <3> QED
        BY <1>1, <3>1, <3>2 DEF WaitsIn
  <2> QED
    BY <2>3, <2>4, <2>5 DEF Single
<1>2. CASE task \in aborted /\ q = queue /\ a = aborted \ {task}
    BY <1>2 DEF Single, WaitsIn
<1> QED
    BY <1>1, <1>2 DEF Taken

\* A request of another coroutine, or of one that does not wait.
LEMMA SingleRequest ==
    ASSUME NEW task, NEW message, NEW q \in Seq(Entries), NEW a, Request(task, message, q, a),
           NEW other, Single(other, q, a), other # task \/ ~WaitsIn(other, q, a)
    PROVE  Single(other, queue', aborted')
<1> DEFINE entry == [task |-> task, msg |-> message]
<1>1. CASE queue' = q /\ aborted' = a \cup {task}
    BY <1>1 DEF Single, WaitsIn
<1>2. CASE queue' = Append(q, entry) /\ aborted' = a
  <2>1. /\ DOMAIN queue' = DOMAIN q \cup {Len(q) + 1} /\ queue'[Len(q) + 1] = entry
        /\ \A i \in DOMAIN q : queue'[i] = q[i]
    BY <1>2
  <2>2. queue'[Len(q) + 1].task = task
    BY <2>1
  <2> HIDE DEF entry
  <2>3. CASE other # task
    BY <1>2, <2>1, <2>2, <2>3 DEF Single
  <2>4. CASE other = task
    BY <1>2, <2>1, <2>2, <2>4 DEF Single, WaitsIn
  <2> QED
    BY <2>3, <2>4
<1> QED
    BY <1>1, <1>2 DEF Request

\* A coroutine that goes on asks for one thing, or ends.
LEMMA SettledAsks ==
    ASSUME NEW task \in Tasks, NEW answer, NEW q, NEW a, Settled(task, answer, q, a)
    PROVE  \E message : Request(task, message, q, a) \/ Finish(q, a)
<1>1. CASE task.of = "start"
    BY <1>1, TaskCases DEF Settled, StartAccepted, StartRefused, StartNotified
<1>2. CASE task.of = "stop"
    BY <1>2, TaskCases DEF Settled, StopAnswered
<1>3. CASE task.of = "report"
    BY <1>3, TaskCases DEF Settled, ReportAnswered
<1>4. CASE task.of = "replay"
  <2>1. task = ReplayTask /\ ReplayAnswered(answer, q, a)
    BY <1>4, TaskCases DEF Settled
  <2> QED
    BY <2>1, ReplayAsks
<1> QED
    BY <1>1, <1>2, <1>3, <1>4, TaskCases

\* Every step.
LEMMA StepSingle ==
    ASSUME IInv, Owed, Turns, ReportsAreLatest, ReportsSingle, [Next]_vars
    PROVE  ReportsSingle'
<1> SUFFICES ASSUME NEW t \in Transactions, NEW n \in Nat, NEW task, task = ReportTask(t, n)
             PROVE  Single(task, queue', aborted')
    BY DEF ReportsSingle
<1>0. /\ queue \in Seq(Entries) /\ Single(task, queue, aborted)
      /\ tx \in [Transactions -> TxValues]
    BY DEF IInv, TypeOK, PointTypeOK, Entries, ReportsSingle
<1>1. CASE UNCHANGED <<queue, aborted>>
    BY <1>0, <1>1
<1>2. CASE queue' = <<>>
    BY <1>2 DEF Single
<1>3. ASSUME NEW other, NEW message, task # other \/ ~Waiting(task),
             Request(other, message, queue, aborted)
      PROVE  Single(task, queue', aborted')
  <2>1. task # other \/ ~WaitsIn(task, queue, aborted)
    BY <1>3 DEF Waiting, WaitsIn
  <2> QED
    BY <1>0, <1>3, <2>1, SingleRequest
<1>4. ASSUME NEW other, NEW q \in Seq(Entries), NEW a, Taken(other, q, a), NEW message,
             Request(other, message, q, a) \/ Finish(q, a)
      PROVE  Single(task, queue', aborted')
  <2>1. Single(task, q, a) /\ (task = other => ~WaitsIn(task, q, a))
    BY <1>0, <1>4, SingleTaken
  <2>2. CASE Finish(q, a)
    BY <2>1, <2>2 DEF Finish
  <2>3. CASE Request(other, message, q, a)
    <3> QED
        BY <1>4, <2>1, <2>3, SingleRequest
  <2> QED
    BY <1>4, <2>2, <2>3
<1>5. \A s : StartTask(s) # task /\ \A u : StopTask(u) # task
    BY TaskKinds
<1>6. ReplayTask # task
    BY TaskKinds
<1>7. ASSUME NEW u \in Transactions, BeginReport(u)
      PROVE  Single(task, queue', aborted')
  <2>1. PICK m \in Nat : m = tx[u].samples + 1
    BY <1>0 DEF TxValues
  <2>2. \/ UNCHANGED <<queue, aborted>>
        \/ Request(ReportTask(u, m), MeterMessage(u, OcppIdOf(u), m), queue, aborted)
    BY <1>7, <2>1 DEF BeginReport, sessionVars
  <2>3. ASSUME ReportTask(u, m) = task, Waiting(task) PROVE FALSE
    <3>1. u = t /\ m = n
        BY <2>3, TaskKinds
    <3>2. Waiting(ReportTask(t, n))
        BY <2>3
    <3>3. n = tx[t].samples /\ tx[t].samples \in Nat
        BY <1>0, <3>2 DEF ReportsAreLatest, LatestReport, TxValues
    <3> QED
        BY <2>1, <3>1, <3>3
  <2> QED
    BY <1>1, <1>3, <2>2, <2>3
<1>8. CASE ReplayBegins
  <2>1. ReplayNext([ReplayIdle EXCEPT !.todo = Pending,
                      !.snap = [u \in Transactions |-> IF u \in Pending THEN outbox[u] ELSE NoRecord]],
                   bound, queue, aborted)
    BY <1>8 DEF ReplayBegins, ReplayBegun
  <2>2. \E message : Request(ReplayTask, message, queue, aborted) \/ Finish(queue, aborted)
    BY <2>1, ReplayAsks
  <2> QED
    BY <1>1, <1>3, <1>6, <2>2 DEF Finish
<1>9. CASE Continues
  <2>1. PICK third \in Tasks, answer \in Answers, q \in Seq(Entries) : \E a :
            Taken(third, q, a) /\ Settled(third, answer, q, a)
    BY <1>9 DEF Continues
  <2>2. PICK a : Taken(third, q, a) /\ Settled(third, answer, q, a)
    BY <2>1
  <2>3. PICK message : Request(third, message, q, a) \/ Finish(q, a)
    BY <2>2, SettledAsks
  <2> QED
    BY <1>4, <2>2, <2>3
<1>10. ASSUME NEW s \in Starts, NEW c \in Connectors, BeginOfflineStart(s, c) \/ BeginOnlineStart(s, c)
       PROVE  Single(task, queue', aborted')
    BY <1>1, <1>3, <1>5, <1>10 DEF BeginOfflineStart, BeginOnlineStart, sessionVars
<1>11. ASSUME NEW u \in Transactions, BeginOnlineStop(u) \/ BeginOfflineStop(u)
       PROVE  Single(task, queue', aborted')
    BY <1>1, <1>3, <1>5, <1>11 DEF BeginOfflineStop, BeginOnlineStop, sessionVars
<1> QED
    BY <1>1, <1>2, <1>7, <1>8, <1>9, <1>10, <1>11, StepCases DEF Idles, LoopsChange

-----------------------------------------------------------------------------
(* What keeps a report the latest, and who tells of a transaction. *)

\* A report that waits is the latest still.
LEMMA StepLatest ==
    ASSUME MaxRestarts = 0, IInv, Owed, Turns, Copied, ReadingsSound, [Next]_vars
    PROVE  ReportsAreLatest'
<1> SUFFICES ASSUME NEW t \in Transactions, NEW n \in Nat, Waiting(ReportTask(t, n))'
             PROVE  LatestReport(t, n)'
    BY DEF ReportsAreLatest
<1>0. /\ PointTypeOK /\ queue \in Seq(Entries) /\ tx \in [Transactions -> TxValues]
      /\ loop \in [Transactions -> LoopValues] /\ ReportsKnown /\ ReportsBound
      /\ ReportsAreLatest /\ NotifiedUnread
    BY DEF IInv, TypeOK, PointTypeOK, Safe, Entries, Copied, ReadingsSound
<1>1. Affects(t) /\ ReplayTakes
    BY StepAffects, StepTakes
<1>2. CASE NewReport(t, n)
  <2>1. /\ tx' = [tx EXCEPT ![t].samples = n] /\ outbox' = outbox /\ replay' = replay
        /\ loop' = [loop EXCEPT ![t].reporting = n] /\ n = tx[t].samples + 1
    BY <1>2 DEF NewReport, BeginReport
  <2>2. replay.pc = "idle" /\ ~IsPending(outbox[t])
    BY <1>2 DEF NewReport, ShouldQueue
  <2>3. tx[t].samples \in Nat /\ tx'[t].samples = n /\ loop'[t].reporting = n
    BY <1>0, <2>1 DEF TxValues, LoopValues
  <2> QED
    BY <2>1, <2>2, <2>3 DEF LatestReport
<1>3. CASE Waiting(ReportTask(t, n))
  <2>1. LatestReport(t, n) /\ tx[t].state # "absent" /\ IsBound(t)
    BY <1>0, <1>3 DEF ReportsAreLatest, ReportsKnown, ReportsBound
  <2>2. replay'.pc # "idle" => t \notin replay'.todo \cup {replay'.tx}
    <3>1. t \notin Pending
        BY <2>1 DEF LatestReport, Pending
    <3> QED
        BY <1>1, <2>1, <3>1 DEF ReplayTakes, LatestReport
  <2>3. CASE Untouched(t)
    BY <2>1, <2>2, <2>3 DEF Untouched, Stays, LatestReport, LoopOff
  <2>4. ~Born(t) /\ ~StoppedUnknown(t) /\ ~Replayed(t)
    BY <2>1 DEF Born, StoppedUnknown, Replayed, LatestReport
  <2>5. ~ReadingKept(t) /\ \A m \in Nat : ~NewReport(t, m)
    BY <2>1 DEF ReadingKept, NewReport, BeginReport, LatestReport
  <2>6. ~LoopBegins(t)
    BY <1>0, <1>3 DEF LoopBegins, NotifiedUnread, Unread
  <2>7. ASSUME ReportEnds(t) PROVE FALSE
    <3>1. PICK m \in Nat : \E q \in Seq(Entries) : \E a : Taken(ReportTask(t, m), q, a) /\ Finish(q, a)
        BY <2>7 DEF ReportEnds
    <3>2. PICK q \in Seq(Entries) : \E a : Taken(ReportTask(t, m), q, a) /\ Finish(q, a)
        BY <3>1
    <3>3. PICK a : Taken(ReportTask(t, m), q, a) /\ Finish(q, a)
        BY <3>2
    <3>4. m = n
      <4>1. Waiting(ReportTask(t, m))
        BY <1>0, <3>3, TakenEntries
      <4> QED
        BY <1>0, <2>1, <4>1 DEF ReportsAreLatest, LatestReport
    <3>5. ~WaitsIn(ReportTask(t, n), q, a)
        BY <1>0, <3>3, <3>4, SingleTaken DEF ReadingsSound, ReportsSingle
    <3> QED
        BY <3>3, <3>5, FinishWaits
  <2> QED
    BY <1>1, <2>3, <2>4, <2>5, <2>6, <2>7 DEF Affects
<1> QED
    BY <1>2, <1>3, ReportsBegin

\* Nothing is read of a transaction that a start is about to tell of.
LEMMA UnreadStays ==
    ASSUME MaxRestarts = 0, IInv, Owed, Turns, ReadingsSound, [Next]_vars,
           NEW t \in OcppIds, Unread(t), ~LoopBegins(t)
    PROVE  Unread(t)'
<1>0. /\ PointTypeOK /\ queue \in Seq(Entries) /\ ReplaySound /\ t \in Transactions
    BY DEF IInv, TypeOK, PointTypeOK, Entries, Owed, Transactions
<1>1. Affects(t)
    BY <1>0, StepAffects
<1>2. ~Born(t) /\ ~ReadingKept(t) /\ ~StoppedUnknown(t) /\ \A n \in Nat : ~NewReport(t, n)
    BY DEF Born, ReadingKept, StoppedUnknown, NewReport, BeginReport, Unread
<1>3. ~Replayed(t)
    BY <1>0 DEF Replayed, ReplaySound, TakesKept, Unread
<1>4. ASSUME ReportEnds(t) PROVE FALSE
  <2>1. \E n \in Nat : Waiting(ReportTask(t, n))
    BY <1>0, <1>4, TakenEntries DEF ReportEnds
  <2> QED
    BY <2>1 DEF Unread
<1>5. Untouched(t)
    BY <1>1, <1>2, <1>3, <1>4 DEF Affects
<1>6. \A n \in Nat : ~Waiting(ReportTask(t, n))'
    BY <1>0, <1>2, ReportsBegin DEF Unread
<1> QED
    BY <1>5, <1>6 DEF Untouched, Stays, Unread, LoopOff

\* A transaction that has just begun at the CSMS is unread.
LEMMA BornUnread ==
    ASSUME IInv, Owed, Turns, LoopsKnown, [Next]_vars,
           NEW t \in OcppIds, Born(t), outbox'[t] = outbox[t], loop'[t] = loop[t]
    PROVE  Unread(t)'
<1>0. RecordsKept /\ ReportsKnown /\ t \in Transactions /\ tx[t].state = "absent"
    BY DEF IInv, Safe, Transactions, Born
<1>1. ~loop[t].on /\ ~outbox[t].kept
    BY <1>0 DEF LoopsKnown, RecordsKept
<1>2. \A n \in Nat : ~Waiting(ReportTask(t, n))'
    BY <1>0, ReportsBegin DEF ReportsKnown, NewReport, BeginReport, Active
<1> QED
    BY <1>1, <1>2 DEF Unread, Born

LEMMA StepNotified ==
    ASSUME MaxRestarts = 0, IInv, Owed, Turns, ReadingsSound, [Next]_vars
    PROVE  NotifiedUnread'
<1>0. /\ NotifiedUnread /\ LoopsKnown /\ StartsMove /\ start \in [Starts -> StartValues]
      /\ OcppIds \subseteq Transactions
    BY StepStarts DEF ReadingsSound, IInv, TypeOK, PointTypeOK, Transactions
<1>1. ASSUME NEW s \in Starts, start'[s].pc = "notifying", start'[s] = start[s],
             NEW t, t = start'[s].tx
      PROVE  t \in OcppIds /\ Unread(t) /\ Unread(t)'
  <2>1. /\ t \in OcppIds /\ Unread(t)
        /\ \A u \in Starts : start[u].pc = "notifying" /\ start[u].tx = t => u = s
    BY <1>0, <1>1 DEF NotifiedUnread
  <2>2. ~LoopBegins(t)
    BY <1>0, <1>1, <2>1 DEF LoopBegins, StartValues
  <2> QED
    BY <2>1, <2>2, UnreadStays
<1>2. CASE \A s \in Starts : start'[s].pc = "notifying" => start'[s] = start[s]
  <2> SUFFICES ASSUME NEW s \in Starts, start'[s].pc = "notifying"
               PROVE  /\ start'[s].tx \in OcppIds
                      /\ \A t \in OcppIds : start'[s].tx = t =>
                           /\ Unread(t)'
                           /\ \A u \in Starts : start'[u].pc = "notifying" /\ start'[u].tx = t => u = s
    BY DEF NotifiedUnread
  <2>1. start'[s] = start[s] /\ \A u \in Starts : start'[u].pc = "notifying" => start'[u] = start[u]
    BY <1>2
  <2>2. ASSUME NEW t \in OcppIds, t = start'[s].tx
        PROVE  Unread(t)' /\ \A u \in Starts : start'[u].pc = "notifying" /\ start'[u].tx = t => u = s
    BY <1>0, <1>1, <2>1, <2>2 DEF NotifiedUnread
  <2>3. start'[s].tx \in OcppIds
    BY <1>1, <2>1
  <2> QED
    BY <2>2, <2>3
<1>3. ASSUME NEW s \in Starts, NEW t \in OcppIds,
             Born(t), outbox'[t] = outbox[t], loop'[t] = loop[t],
             start'[s].pc = "notifying", start'[s].tx = t,
             \A u \in Starts : u # s => start'[u] = start[u]
      PROVE  NotifiedUnread'
  <2>1. Unread(t)' /\ ~Unread(t)
    BY <1>0, <1>3, BornUnread DEF Unread, Born
  <2>2. ASSUME NEW u \in Starts, u # s, start'[u].pc = "notifying", NEW v, v = start'[u].tx
        PROVE  v \in OcppIds /\ v # t /\ Unread(v)'
    <3>1. v \in OcppIds /\ Unread(v) /\ Unread(v)'
        BY <1>1, <1>3, <2>2
    <3> QED
        BY <2>1, <3>1
  <2>3. \A u, v \in Starts : /\ u # s /\ v # s
                             /\ start'[u].pc = "notifying" /\ start'[v].pc = "notifying"
                             /\ start'[u].tx = start'[v].tx
                             => u = v
    <3> SUFFICES ASSUME NEW u \in Starts, NEW v \in Starts, u # s, v # s,
                        start'[u].pc = "notifying", start'[v].pc = "notifying",
                        start'[u].tx = start'[v].tx
                 PROVE  u = v
        OBVIOUS
    <3>1. start'[u] = start[u] /\ start'[v] = start[v]
        BY <1>3
    <3>2. PICK x \in OcppIds : start[u].tx = x /\ start[v].tx = x
        BY <1>0, <3>1 DEF NotifiedUnread
    <3> QED
        BY <1>0, <3>1, <3>2 DEF NotifiedUnread
  <2>4. \A u \in Starts : u # s /\ start'[u].pc = "notifying" =>
            start'[u].tx \in OcppIds /\ start'[u].tx # t
    <3> SUFFICES ASSUME NEW u \in Starts, u # s, start'[u].pc = "notifying"
                 PROVE  start'[u].tx \in OcppIds /\ start'[u].tx # t
        OBVIOUS
    <3>1. PICK v : v = start'[u].tx
        OBVIOUS
    <3>2. v \in OcppIds /\ v # t
        BY <2>2, <3>1
    <3> QED
        BY <3>1, <3>2
  <2> SUFFICES ASSUME NEW u \in Starts, start'[u].pc = "notifying"
               PROVE  /\ start'[u].tx \in OcppIds
                      /\ \A v \in OcppIds : start'[u].tx = v =>
                           /\ Unread(v)'
                           /\ \A w \in Starts : start'[w].pc = "notifying" /\ start'[w].tx = v => w = u
    BY DEF NotifiedUnread
  <2>5. start'[u].tx \in OcppIds
    BY <1>3, <2>4
  <2>6. ASSUME NEW v \in OcppIds, start'[u].tx = v
        PROVE  Unread(v)'
    BY <1>3, <2>1, <2>2, <2>6
  <2>7. ASSUME NEW v \in OcppIds, start'[u].tx = v, NEW w \in Starts,
               start'[w].pc = "notifying", start'[w].tx = v
        PROVE  w = u
    BY <1>3, <2>3, <2>4, <2>7
  <2> QED
    BY <2>5, <2>6, <2>7
<1> QED
    BY <1>0, <1>2, <1>3 DEF StartsMove

\* Only a transaction that exists has a loop.
LEMMA StepLoops ==
    ASSUME MaxRestarts = 0, IInv, Owed, Turns, ReadingsSound, [Next]_vars
    PROVE  LoopsKnown'
<1> SUFFICES ASSUME NEW t \in Transactions, loop'[t].on PROVE tx'[t].state # "absent"
    BY DEF LoopsKnown
<1>0. /\ LoopsKnown /\ NotifiedUnread /\ RecordsKept /\ ReplaySound
      /\ tx \in [Transactions -> TxValues]
    BY DEF ReadingsSound, IInv, Safe, Owed, TypeOK, PointTypeOK
<1>1. Affects(t)
    BY StepAffects
<1>2. CASE Untouched(t) \/ StoppedUnknown(t)
    BY <1>0, <1>2 DEF Untouched, Stays, LoopOff, StoppedUnknown, LoopsKnown
<1>6. CASE Born(t) \/ ReadingKept(t)
    BY <1>6 DEF Born, ReadingKept
<1>7. CASE ReportEnds(t)
    BY <1>0, <1>7 DEF ReportEnds, LoopsKnown
<1>3. CASE LoopBegins(t)
    BY <1>0, <1>3 DEF LoopBegins, NotifiedUnread, Unread
<1>4. CASE Replayed(t)
    BY <1>0, <1>4 DEF Replayed, Stays, ReplaySound, TakesKept, RecordsKept
<1>5. ASSUME NEW n \in Nat, NewReport(t, n) PROVE tx'[t].state # "absent"
    BY <1>0, <1>5 DEF NewReport, BeginReport, Active, TxValues
<1> QED
    BY <1>1, <1>2, <1>3, <1>4, <1>5, <1>6, <1>7 DEF Affects

-----------------------------------------------------------------------------
(* The order of the readings. *)

\* A reading is recorded after those the record has.
LEMMA ReadingAppended ==
    ASSUME PointTypeOK, RecordsKept, NEW t \in Transactions, NEW n,
           tx[t].state # "absent", RecordReading(t, n)
    PROVE  outbox'[t].meterValues = Append(outbox[t].meterValues, [sample |-> n, replayed |-> FALSE])
<1>0. outbox \in [Transactions -> Records] /\ outbox[t] \in Records
    BY DEF PointTypeOK
<1>1. CASE outbox[t].kept
  <2>1. outbox'[t] = RecordMeterValue(outbox[t], n)
    BY <1>0, <1>1 DEF RecordReading
  <2> QED
    BY <1>0, <1>1, <2>1 DEF RecordMeterValue, Records
<1>2. CASE ~outbox[t].kept
  <2>1. t \in OcppIds /\ outbox[t].meterValues = <<>>
    BY <1>2 DEF RecordsKept, Transactions
  <2>2. IsBound(t)
    BY <2>1, IdsAssumption DEF IsBound, OcppIdOf, Transactions
  <2>3. outbox'[t] = RecordMeterValue(RecordBoundStarted(OcppIdOf(t)), n)
    BY <1>0, <1>2, <2>2 DEF RecordReading
  <2> QED
    BY <2>1, <2>3 DEF RecordMeterValue, RecordBoundStarted, NoRecord
<1> QED
    BY <1>1, <1>2

\* The readings of a record are numbered.
LEMMA SamplesOf ==
    ASSUME NEW r \in Records, NEW i \in DOMAIN r.meterValues
    PROVE  r.meterValues[i].sample \in Nat /\ i \in Nat
<1>1. /\ r.meterValues \in Seq([sample : Nat, replayed : BOOLEAN])
      /\ Len(r.meterValues) \in Nat /\ i \in 1..Len(r.meterValues)
    BY MeterValuesType
<1>2. r.meterValues[i] \in [sample : Nat, replayed : BOOLEAN]
    BY <1>1, ElementOfSeq
<1>3. i \in Nat
    BY <1>1
<1> QED
    BY <1>2, <1>3

\* What the record s that has the reading n more than r has to send.
LEMMA AppendedOrder ==
    ASSUME NEW r \in Records, NEW s, NEW n \in Nat,
           s.meterValues = Append(r.meterValues, [sample |-> n, replayed |-> FALSE])
    PROVE  /\ \A last \in Nat : last <= n /\ Ordered(r, last) => Ordered(s, n)
           /\ \A j \in UnsentMeterValues(s) :
                \/ j \in UnsentMeterValues(r) /\ s.meterValues[j].sample = r.meterValues[j].sample
                \/ s.meterValues[j].sample = n
<1> DEFINE m == r.meterValues
           reading == [sample |-> n, replayed |-> FALSE]
<1>1. m \in Seq([sample : Nat, replayed : BOOLEAN]) /\ Len(m) \in Nat /\ DOMAIN m = 1..Len(m)
    BY MeterValuesType
<1>2. /\ DOMAIN s.meterValues = 1..(Len(m) + 1)
      /\ \A i \in DOMAIN m : s.meterValues[i] = m[i]
      /\ s.meterValues[Len(m) + 1] = reading
    BY <1>1
<1>3. reading.sample = n /\ \A i \in DOMAIN m : m[i].sample \in Nat
    BY SamplesOf
<1> HIDE DEF reading, m
<1>4. ASSUME NEW last \in Nat, last <= n, Ordered(r, last) PROVE Ordered(s, n)
  <2>1. \A i, j \in DOMAIN m : i < j => m[i].sample <= m[j].sample
    BY <1>4 DEF Ordered, m
  <2>2. \A i \in DOMAIN m : m[i].sample <= n
    BY <1>3, <1>4 DEF Ordered, m
  <2>3. \A i \in DOMAIN s.meterValues : i \in DOMAIN m \/ i = Len(m) + 1
    BY <1>1, <1>2
  <2>4. \A i \in DOMAIN s.meterValues : s.meterValues[i].sample <= n
    BY <1>2, <1>3, <2>2, <2>3
  <2>5. ASSUME NEW i \in DOMAIN s.meterValues, NEW j \in DOMAIN s.meterValues, i < j
        PROVE  s.meterValues[i].sample <= s.meterValues[j].sample
    <3>1. i \in DOMAIN m
        BY <1>1, <1>2, <2>5
    <3>2. CASE j \in DOMAIN m
        BY <1>2, <2>1, <2>5, <3>1, <3>2
    <3>3. CASE j = Len(m) + 1
        BY <1>2, <1>3, <2>2, <3>1, <3>3
    <3> QED
        BY <2>3, <3>2, <3>3
  <2> QED
    BY <2>4, <2>5 DEF Ordered
<1>5. ASSUME NEW j \in UnsentMeterValues(s)
      PROVE  \/ j \in UnsentMeterValues(r) /\ s.meterValues[j].sample = r.meterValues[j].sample
             \/ s.meterValues[j].sample = n
  <2>1. j \in DOMAIN s.meterValues /\ ~s.meterValues[j].replayed
    BY DEF UnsentMeterValues
  <2>2. CASE j \in DOMAIN m
    BY <1>2, <2>1, <2>2 DEF UnsentMeterValues, m
  <2>3. CASE j = Len(m) + 1
    BY <1>2, <1>3, <2>3
  <2> QED
    BY <1>1, <1>2, <2>1, <2>2, <2>3
<1> QED
    BY <1>4, <1>5

\* A report that ends is the latest, and is recorded as such.
LEMMA ReportEndsLatest ==
    ASSUME IInv, ReportsAreLatest, NEW t \in Transactions, ReportEnds(t)
    PROVE  /\ tx[t].state # "absent"
           /\ \/ outbox'[t] = outbox[t]
              \/ outbox'[t].meterValues =
                    Append(outbox[t].meterValues, [sample |-> tx[t].samples, replayed |-> FALSE])
<1>0. PointTypeOK /\ RecordsKept /\ ReportsKnown /\ queue \in Seq(Entries)
    BY DEF IInv, TypeOK, PointTypeOK, Safe, Entries
<1>1. PICK n \in Nat : /\ outbox' = outbox \/ RecordReading(t, n)
                       /\ \E q \in Seq(Entries) : \E a : Taken(ReportTask(t, n), q, a)
    BY DEF ReportEnds
<1>2. Waiting(ReportTask(t, n))
    BY <1>0, <1>1, TakenEntries
<1>3. n = tx[t].samples /\ tx[t].state # "absent"
    BY <1>0, <1>2 DEF ReportsAreLatest, LatestReport, ReportsKnown
<1> QED
    BY <1>0, <1>1, <1>3, ReadingAppended

\* The records stay in order.
LEMMA StepOrdered ==
    ASSUME MaxRestarts = 0, IInv, Owed, Turns, ReadingsSound, [Next]_vars
    PROVE  RecordsOrdered'
<1> SUFFICES ASSUME NEW t \in Transactions PROVE Ordered(outbox[t], tx[t].samples)'
    BY DEF RecordsOrdered
<1>0. /\ PointTypeOK /\ RecordsKept /\ outbox[t] \in Records /\ tx \in [Transactions -> TxValues]
      /\ Ordered(outbox[t], tx[t].samples) /\ tx[t].samples \in Nat /\ ReportsAreLatest
    BY DEF IInv, TypeOK, PointTypeOK, Safe, ReadingsSound, RecordsOrdered, TxValues
<1>1. Affects(t)
    BY StepAffects
<1>2. \A i \in DOMAIN outbox[t].meterValues : outbox[t].meterValues[i].sample \in Nat
    BY <1>0, SamplesOf
<1>11. ASSUME NEW n \in Nat, tx[t].samples <= n,
              outbox'[t].meterValues = Append(outbox[t].meterValues, [sample |-> n, replayed |-> FALSE])
       PROVE  Ordered(outbox'[t], n)
  <2>1. PICK r, s : r \in Records /\ r = outbox[t] /\ s = outbox'[t]
    BY <1>0
  <2>2. Ordered(s, n)
    BY <1>0, <1>11, <2>1, AppendedOrder
  <2> QED
    BY <2>1, <2>2
<1>3. CASE Untouched(t)
    BY <1>0, <1>3 DEF Untouched, Stays, Ordered
<1>4. CASE Born(t)
  <2>1. outbox'[t].meterValues = <<>>
    BY <1>0, <1>4 DEF Born, RecordsKept, RecordStarted, NoRecord
  <2> QED
    BY <2>1 DEF Ordered
<1>5. CASE ReadingKept(t)
  <2>1. PICK n \in Nat : n = tx[t].samples + 1 /\ tx'[t].samples = n /\ RecordReading(t, n)
    BY <1>5 DEF ReadingKept
  <2>2. outbox'[t].meterValues = Append(outbox[t].meterValues, [sample |-> n, replayed |-> FALSE])
    BY <1>0, <1>5, <2>1, ReadingAppended DEF ReadingKept
  <2>3. Ordered(outbox'[t], n)
    BY <1>0, <1>11, <2>1, <2>2
  <2> QED
    BY <2>1, <2>3
<1>6. ASSUME NEW n \in Nat, NewReport(t, n) PROVE Ordered(outbox[t], tx[t].samples)'
  <2>1. outbox' = outbox /\ tx'[t].samples = tx[t].samples + 1
    BY <1>0, <1>6 DEF NewReport, BeginReport, TxValues
  <2> QED
    BY <1>0, <1>2, <2>1 DEF Ordered
<1>7. CASE ReportEnds(t)
  <2>1. tx' = tx
    BY <1>7 DEF ReportEnds
  <2>2. CASE outbox'[t] = outbox[t]
    BY <1>0, <2>1, <2>2 DEF Ordered
  <2>3. CASE outbox'[t].meterValues =
                Append(outbox[t].meterValues, [sample |-> tx[t].samples, replayed |-> FALSE])
    <3>1. Ordered(outbox'[t], tx[t].samples)
        BY <1>0, <1>11, <2>3
    <3> QED
        BY <2>1, <3>1
  <2> QED
    BY <1>0, <1>7, <2>2, <2>3, ReportEndsLatest
<1>8. CASE LoopBegins(t)
    BY <1>0, <1>8 DEF LoopBegins, Ordered
<1>9. CASE Replayed(t)
    BY <1>0, <1>9 DEF Replayed, Stays, Ordered
<1>10. CASE StoppedUnknown(t)
    BY <1>0, <1>10 DEF StoppedUnknown, Stays, Ordered
<1> QED
    BY <1>1, <1>3, <1>4, <1>5, <1>6, <1>7, <1>8, <1>9, <1>10 DEF Affects

\* A reading that is no later than what is to be sent remains so.
LEMMA StepEarlier ==
    ASSUME MaxRestarts = 0, IInv, Owed, Turns, ReportsAreLatest, [Next]_vars,
           NEW t \in Transactions, NEW x \in Nat, Earlier(t, x)
    PROVE  Earlier(t, x)'
<1>0. /\ PointTypeOK /\ RecordsKept /\ outbox[t] \in Records /\ tx \in [Transactions -> TxValues]
      /\ tx[t].samples \in Nat
    BY DEF IInv, TypeOK, PointTypeOK, Safe, TxValues
<1>1. Affects(t)
    BY StepAffects
<1>2. ASSUME NEW n \in Nat, x <= n,
             outbox'[t].meterValues = Append(outbox[t].meterValues, [sample |-> n, replayed |-> FALSE])
      PROVE  \A j \in UnsentMeterValues(outbox'[t]) : x <= outbox'[t].meterValues[j].sample
    BY <1>0, <1>2, AppendedOrder DEF Earlier
<1>3. CASE Untouched(t)
    BY <1>3 DEF Untouched, Stays, Earlier
<1>4. ~Born(t)
    BY DEF Born, Earlier
<1>5. CASE ReadingKept(t)
  <2>1. PICK n \in Nat : n = tx[t].samples + 1 /\ tx'[t].samples = n /\ RecordReading(t, n)
    BY <1>5 DEF ReadingKept
  <2>2. outbox'[t].meterValues = Append(outbox[t].meterValues, [sample |-> n, replayed |-> FALSE])
    BY <1>0, <1>5, <2>1, ReadingAppended DEF ReadingKept
  <2>3. x <= n
    BY <1>0, <2>1 DEF Earlier
  <2> QED
    BY <1>2, <1>5, <2>1, <2>2, <2>3 DEF Earlier, ReadingKept
<1>6. ASSUME NEW n \in Nat, NewReport(t, n) PROVE Earlier(t, x)'
  <2>1. outbox' = outbox /\ tx'[t].samples = tx[t].samples + 1 /\ tx'[t].state = tx[t].state
    BY <1>0, <1>6 DEF NewReport, BeginReport, TxValues
  <2> QED
    BY <1>0, <2>1 DEF Earlier
<1>7. CASE ReportEnds(t)
  <2>1. tx' = tx
    BY <1>7 DEF ReportEnds
  <2>2. CASE outbox'[t] = outbox[t]
    BY <2>1, <2>2 DEF Earlier
  <2>3. CASE outbox'[t].meterValues =
                Append(outbox[t].meterValues, [sample |-> tx[t].samples, replayed |-> FALSE])
    BY <1>0, <1>2, <2>1, <2>3 DEF Earlier
  <2> QED
    BY <1>7, <2>2, <2>3, ReportEndsLatest
<1>8. CASE LoopBegins(t)
    BY <1>8 DEF LoopBegins, Earlier
<1>9. CASE Replayed(t)
    BY <1>9 DEF Replayed, Stays, Earlier, UnsentMeterValues
<1>10. CASE StoppedUnknown(t)
    BY <1>10 DEF StoppedUnknown, Stays, Earlier, UnsentMeterValues
<1> QED
    BY <1>1, <1>3, <1>4, <1>5, <1>6, <1>7, <1>8, <1>9, <1>10 DEF Affects

\* The reading that is asked for is the first that is still to be sent.
LEMMA RequestEarlier ==
    ASSUME IInv, Owed, Copied, ReportsAreLatest, RecordsOrdered,
           NEW e \in EntriesOf(queue), e.msg.type = "MeterValues"
    PROVE  /\ e.msg.tx \in Transactions /\ e.msg.sample \in Nat
           /\ Earlier(e.msg.tx, e.msg.sample)
           /\ \A x \in Nat : Earlier(e.msg.tx, x) => x <= e.msg.sample
<1>0. /\ PointTypeOK /\ RequestsMatched /\ RecordsKept /\ ReportsKnown /\ CopyIsOlder
      /\ queue \in Seq(Entries) /\ replay \in Replays
      /\ outbox \in [Transactions -> Records] /\ tx \in [Transactions -> TxValues]
      /\ RequestsOwned /\ CopyExact(replay, outbox) /\ TakesKept(replay, outbox)
    BY DEF IInv, TypeOK, PointTypeOK, Safe, Entries, Copied, Owed, ReplaySound
<1>1. OwnedBy(e, replay, stop)
    BY <1>0 DEF RequestsOwned
<1>2. PICK i \in DOMAIN queue : queue[i] = e
    BY DEF EntriesOf
<1>3. ASSUME NEW t \in Transactions, NEW n \in Nat, t = e.msg.tx, n = e.msg.sample,
             e.task = ReportTask(t, n)
      PROVE  Earlier(t, n) /\ \A x \in Nat : Earlier(t, x) => x <= n
  <2>1. Waiting(ReportTask(t, n))
    BY <1>2, <1>3 DEF Waiting
  <2>2. LatestReport(t, n) /\ tx[t].state # "absent"
    BY <1>0, <2>1 DEF ReportsAreLatest, ReportsKnown
  <2>3. UnsentMeterValues(outbox[t]) = {}
    BY <1>0, <2>2 DEF LatestReport, IsPending, RecordsKept, UnsentMeterValues
  <2> QED
    BY <2>2, <2>3 DEF Earlier, LatestReport
<1>4. ASSUME NEW t, t = e.msg.tx, NEW n, n = e.msg.sample,
             e.task = ReplayTask, replay.pc = "meter", replay.tx = t
      PROVE  /\ t \in Transactions /\ n \in Nat /\ Earlier(t, n)
             /\ \A x \in Nat : Earlier(t, x) => x <= n
  <2>1. t \in Transactions
    BY <1>0, <1>4 DEF PointTypeOK
  <2>2. PICK r, s, k : /\ r = outbox[t] /\ s = replay.snap[t] /\ k = replay.index
                       /\ r \in Records /\ s \in Records /\ k \in Nat
    BY <1>0, <2>1 DEF Replays
  <2>3. k \in DOMAIN s.meterValues /\ n = s.meterValues[k].sample
    BY <1>0, <1>2, <1>4, <2>2 DEF RequestsMatched, Matched, ReplayMatches
  <2>4. Grown(s, r) /\ Exact(r, s, k) /\ ~s.meterValues[k].replayed
    BY <1>0, <1>4, <2>1, <2>2 DEF CopyIsOlder, CopyExact
  <2>5. k \in DOMAIN r.meterValues /\ n = r.meterValues[k].sample /\ ~r.meterValues[k].replayed
    BY <2>2, <2>3, <2>4 DEF Grown, Exact
  <2>6. n \in Nat /\ k \in UnsentMeterValues(r)
    BY <2>2, <2>5, SamplesOf DEF UnsentMeterValues
  <2>7. Ordered(r, tx[t].samples)
    BY <2>1, <2>2 DEF RecordsOrdered
  <2>8. ASSUME NEW j \in UnsentMeterValues(r) PROVE n <= r.meterValues[j].sample
    <3>1. j \in DOMAIN r.meterValues /\ ~r.meterValues[j].replayed /\ j \in Nat
        BY <2>2, SamplesOf DEF UnsentMeterValues
    <3>2. CASE j < k
      <4>1. j \in DOMAIN s.meterValues
        <5>1. /\ DOMAIN s.meterValues = 1..Len(s.meterValues) /\ Len(s.meterValues) \in Nat
              /\ DOMAIN r.meterValues = 1..Len(r.meterValues)
            BY <2>2, MeterValuesType
        <5> QED
            BY <2>3, <3>1, <3>2, <5>1
      <4> QED
        BY <2>4, <3>1, <3>2, <4>1 DEF Exact
    <3>3. CASE k < j
        BY <2>5, <2>7, <3>1, <3>3 DEF Ordered
    <3>4. CASE j = k
        BY <2>5, <2>6, <3>4
    <3> QED
        BY <2>2, <3>1, <3>2, <3>3, <3>4
  <2>9. tx[t].state # "absent"
    BY <1>0, <1>4, <2>1 DEF TakesKept, RecordsKept
  <2>10. Earlier(t, n)
    BY <2>2, <2>5, <2>7, <2>8, <2>9 DEF Earlier, Ordered
  <2>11. \A x \in Nat : Earlier(t, x) => x <= n
    BY <2>2, <2>5, <2>6 DEF Earlier
  <2> QED
    BY <2>1, <2>6, <2>10, <2>11
<1> QED
    BY <1>1, <1>3, <1>4 DEF OwnedBy

\* What the CSMS has received, it had, or the queue asked for it.
LEMMA Arrives ==
    ASSUME log \in Seq(Messages), Delivers, NEW i \in DOMAIN log'
    PROVE  /\ i \in Nat
           /\ \/ i \in DOMAIN log /\ log'[i] = log[i]
              \/ /\ i = Len(log) + 1
                 /\ \E e \in EntriesOf(queue) :
                      /\ log'[i].type = e.msg.type /\ log'[i].tx = e.msg.tx
                      /\ log'[i].sample = e.msg.sample
<1>1. CASE log' = log
    BY <1>1
<1>2. ASSUME NEW receipt, NEW e \in EntriesOf(queue), log' = Append(log, receipt),
             receipt.type = e.msg.type, receipt.tx = e.msg.tx, receipt.sample = e.msg.sample
      PROVE  /\ i \in Nat
             /\ \/ i \in DOMAIN log /\ log'[i] = log[i]
                \/ /\ i = Len(log) + 1
                   /\ log'[i].type = e.msg.type /\ log'[i].tx = e.msg.tx
                   /\ log'[i].sample = e.msg.sample
  <2>1. /\ DOMAIN log = 1..Len(log) /\ Len(log) \in Nat
        /\ DOMAIN log' = 1..(Len(log) + 1)
        /\ log'[Len(log) + 1] = receipt
        /\ \A j \in DOMAIN log : log'[j] = log[j]
    BY <1>2
  <2>2. i \in DOMAIN log \/ i = Len(log) + 1
    BY <2>1
  <2> QED
    BY <1>2, <2>1, <2>2
<1> QED
    BY <1>1, <1>2 DEF Delivers

\* The readings received stay the earlier ones, and in order.
LEMMA StepReceived ==
    ASSUME MaxRestarts = 0, IInv, Owed, Turns, Copied, ReadingsSound, [Next]_vars
    PROVE  ReceivedEarlier' /\ ReadingsInOrder'
<1>0. /\ log \in Seq(Messages) /\ Delivers
      /\ ReportsAreLatest /\ RecordsOrdered /\ ReceivedEarlier /\ ReadingsInOrder
    BY StepCases DEF IInv, TypeOK, ReadingsSound
<1>1. ASSUME NEW i \in DOMAIN log, log[i].type = "MeterValues"
      PROVE  log[i].sample \in Nat
  <2>1. DOMAIN log = 1..Len(log)
    BY <1>0
  <2>2. log[i] \in Messages
    BY <1>0, <2>1, ElementOfSeq
  <2> QED
    BY <2>2 DEF Messages
<1>2. ASSUME NEW i \in DOMAIN log', log'[i].type = "MeterValues",
             NEW t \in Transactions, t = log'[i].tx, NEW x, x = log'[i].sample
      PROVE  x \in Nat /\ Earlier(t, x)
  <2>1. CASE i \in DOMAIN log /\ log'[i] = log[i]
    BY <1>0, <1>1, <1>2, <2>1 DEF ReceivedEarlier
  <2>2. ASSUME NEW e \in EntriesOf(queue), log'[i].type = e.msg.type, log'[i].tx = e.msg.tx,
               log'[i].sample = e.msg.sample
        PROVE  x \in Nat /\ Earlier(t, x)
    <3>1. e.msg.type = "MeterValues"
        BY <1>2, <2>2
    <3>2. e.msg.sample \in Nat /\ Earlier(e.msg.tx, e.msg.sample)
        BY <1>0, <3>1, RequestEarlier
    <3> QED
        BY <1>2, <2>2, <3>2
  <2> QED
    BY <1>0, <2>1, <2>2, Arrives
<1>3. ReceivedEarlier'
  <2> SUFFICES ASSUME NEW t \in Transactions, NEW i \in DOMAIN log',
                      log'[i].type = "MeterValues", log'[i].tx = t
               PROVE  Earlier(t, log[i].sample)'
    BY DEF ReceivedEarlier
  <2>1. PICK x : x = log'[i].sample
    OBVIOUS
  <2>2. x \in Nat /\ Earlier(t, x)
    BY <1>2, <2>1
  <2>3. Earlier(t, x)'
    BY <1>0, <2>2, StepEarlier
  <2> QED
    BY <2>1, <2>3 DEF Earlier
<1>4. ReadingsInOrder'
  <2> SUFFICES ASSUME NEW i \in DOMAIN log', NEW j \in DOMAIN log', i < j,
                      log'[i].type = "MeterValues", log'[j].type = "MeterValues",
                      log'[i].tx = log'[j].tx
               PROVE  log'[i].sample <= log'[j].sample
    BY DEF ReadingsInOrder
  <2>1. i \in DOMAIN log /\ log'[i] = log[i]
    <3>1. DOMAIN log = 1..Len(log) /\ Len(log) \in Nat
        BY <1>0
    <3>2. j \in Nat /\ j <= Len(log) + 1
        BY <1>0, <3>1, Arrives
    <3>3. i \in Nat /\ i # Len(log) + 1
        BY <1>0, <3>1, <3>2, Arrives
    <3> QED
        BY <1>0, <3>3, Arrives
  <2>2. CASE j \in DOMAIN log /\ log'[j] = log[j]
    BY <1>0, <2>1, <2>2 DEF ReadingsInOrder
  <2>3. ASSUME NEW e \in EntriesOf(queue), log'[j].type = e.msg.type, log'[j].tx = e.msg.tx,
               log'[j].sample = e.msg.sample
        PROVE  log'[i].sample <= log'[j].sample
    <3>1. PICK t, x : t = e.msg.tx /\ x = log[i].sample
        OBVIOUS
    <3>2. e.msg.type = "MeterValues"
        BY <2>3
    <3>3. t \in Transactions /\ \A y \in Nat : Earlier(t, y) => y <= e.msg.sample
        BY <1>0, <3>1, <3>2, RequestEarlier
    <3>4. log[i].type = "MeterValues" /\ log[i].tx = t
        BY <2>1, <2>3, <3>1
    <3>5. x \in Nat /\ Earlier(t, x)
        BY <1>0, <1>1, <2>1, <3>1, <3>3, <3>4 DEF ReceivedEarlier
    <3> QED
        BY <2>1, <2>3, <3>1, <3>3, <3>5
  <2> QED
    BY <1>0, <2>2, <2>3, Arrives
<1> QED
    BY <1>3, <1>4

\* Nothing is read at first.
LEMMA InitReadingsSound ==
    ASSUME Init
    PROVE  ReadingsSound
<1>1. /\ queue = <<>> /\ aborted = {} /\ replay.pc = "idle" /\ log = <<>>
      /\ \A t \in Transactions : ~loop[t].on /\ outbox[t].meterValues = <<>>
      /\ \A s \in Starts : start[s].pc = "idle"
    BY DEF Init, ReplayIdle, LoopOff, NoRecord
<1>2. \A task : ~Waiting(task) /\ Single(task, queue, aborted)
    BY <1>1 DEF Waiting, Single
<1> QED
    BY <1>1, <1>2 DEF ReadingsSound, ReportsAreLatest, ReportsSingle, NotifiedUnread, LoopsKnown,
        RecordsOrdered, Ordered, ReceivedEarlier, ReadingsInOrder

\* The CSMS first receives the readings of a transaction in the order they were
\* taken: what a report sends at once (reportPeriodicMeterValue), what it leaves
\* to the outbox when the connection is lost, and what the replay sends from its
\* copy never pass one another, as long as no loop is restarted while a report
\* of its transaction waits.
THEOREM ReadingsComeInOrder ==
    ASSUME MaxRestarts = 0
    PROVE  Spec => []ReadingsInOrder
<1>1. Init => ReadingsSound
    BY InitReadingsSound
<1>2. IInv /\ Owed /\ Turns /\ Copied /\ ReadingsSound /\ [Next]_vars => ReadingsSound'
  <2> SUFFICES ASSUME IInv, Owed, Turns, Copied, ReadingsSound, [Next]_vars
               PROVE  ReadingsSound'
    OBVIOUS
  <2>1. ReportsAreLatest' /\ ReportsSingle'
    BY StepLatest, StepSingle DEF ReadingsSound
  <2>2. NotifiedUnread' /\ LoopsKnown'
    BY StepNotified, StepLoops
  <2>3. RecordsOrdered'
    BY StepOrdered
  <2>4. ReceivedEarlier' /\ ReadingsInOrder'
    BY StepReceived
  <2> QED
    BY <2>1, <2>2, <2>3, <2>4 DEF ReadingsSound
<1>3. ReadingsSound => ReadingsInOrder
    BY DEF ReadingsSound
<1> QED
    BY <1>1, <1>2, <1>3, NothingElseIsOwed, StartsTaken, CopiesAreExact, PTL DEF Spec
=============================================================================
