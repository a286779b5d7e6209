---------------------- MODULE OfflineTransactionOutbox ----------------------
(***************************************************************************)
(* The records of MemoryOfflineTransactionOutbox: what the charging point   *)
(* still owes the CSMS about one transaction.  The outbox itself is a       *)
(* function from transactions to records in the module that uses it; the    *)
(* operators here are the methods, each returning the record it leaves.     *)
(* A record holds the transaction ids and readings the properties tell      *)
(* apart; dates, meter readings and the idTag are abstracted.               *)
(***************************************************************************)
EXTENDS Naturals, Sequences

CONSTANT None      \* JavaScript's null / an absent Map entry

StopStates == {"none", "pending", "replayed"}

\* A transaction the outbox has no record of (Map.get returns undefined).
NoRecord == [kept |-> FALSE, startReplayed |-> FALSE, ocppId |-> None,
             meterValues |-> <<>>, stop |-> "none"]

\* recordStarted: a transaction that began while the point was offline.
RecordStarted == [NoRecord EXCEPT !.kept = TRUE]

\* recordBoundStarted: a transaction the CSMS already started as ocppId.
RecordBoundStarted(ocppId) ==
    [NoRecord EXCEPT !.kept = TRUE, !.startReplayed = TRUE, !.ocppId = ocppId]

\* recordMeterValue: ignored when the transaction has no record.
RecordMeterValue(record, sample) ==
    IF record.kept
    THEN [record EXCEPT !.meterValues =
            Append(@, [sample |-> sample, replayed |-> FALSE])]
    ELSE record

\* recordStopped: ignored when the transaction has no record.
RecordStopped(record) ==
    IF record.kept THEN [record EXCEPT !.stop = "pending"] ELSE record

\* bindStart: the CSMS has answered the replayed StartTransaction.
BindStart(record, ocppId) ==
    IF record.kept
    THEN [record EXCEPT !.startReplayed = TRUE, !.ocppId = ocppId]
    ELSE record

\* Mutant: every reading is marked.
MarkMeterValueReplayed_All(record, index) ==
    [record EXCEPT !.meterValues =
        [i \in DOMAIN @ |-> [@[i] EXCEPT !.replayed = TRUE]]]

\* markMeterValueReplayed: by position, the position the replay read earlier.
MarkMeterValueReplayed(record, index) ==
    IF index \in DOMAIN record.meterValues
    THEN [record EXCEPT !.meterValues[index].replayed = TRUE]
    ELSE record

\* Mutant: the stop is removed instead of marked.
MarkStopReplayed_Removes(record) == [record EXCEPT !.stop = "none"]

\* markStopReplayed
MarkStopReplayed(record) ==
    IF record.stop = "none" THEN record ELSE [record EXCEPT !.stop = "replayed"]

UnsentMeterValues(record) ==
    {i \in DOMAIN record.meterValues : ~record.meterValues[i].replayed}

\* The filter of listPending.
IsPending(record) ==
    /\ record.kept
    /\ \/ ~record.startReplayed
       \/ UnsentMeterValues(record) # {}
       \/ record.stop = "pending"
=============================================================================
