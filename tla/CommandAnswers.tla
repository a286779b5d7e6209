--------------------------- MODULE CommandAnswers ---------------------------
(***************************************************************************)
(* What the OCPP 1.6 runtime answers to the commands of the CSMS that read *)
(* the device model, and what it does once it has answered.  The context   *)
(* of ConnectorSelection has two fields more:                              *)
(*   transactions: [id, state, evse, connector, startedAt, latestMeterWh]  *)
(*                 in the order they were added                            *)
(*   bindings:     <<local id, OCPP id>> in the order they were bound      *)
(* A handler's result is its reply, the status or the error it is, what    *)
(* follows the reply (a set of at most one) and the point it leaves.       *)
(***************************************************************************)
EXTENDS ConnectorSelection

LOCAL INSTANCE SequencesExt

Responds(ctx, status) == [reply |-> "respond", status |-> status, then |-> {}, point |-> ctx.point]

\* respondThenRunAcceptedCommand
Then(result, followUp) == [result EXCEPT !.then = {followUp}]

----------------------------------------------------------------------------
(* The statuses and codes the follow-ups send. *)

MapStopReason(reason) ==
    CASE reason = "local" -> "Local"
      [] reason = "remote" -> "Remote"
      [] reason = "unlock-command" -> "UnlockCommand"
      [] reason = "ev-disconnected" -> "EVDisconnected"
      [] reason = "deauthorized" -> "DeAuthorized"
      [] reason = "emergency-stop" -> "EmergencyStop"
      [] reason = "other" -> "Other"

MapPointStatus(status) ==
    CASE status = "available" -> "Available"
      [] status = "unavailable" -> "Unavailable"
      [] status = "faulted" -> "Faulted"

\* mapConnectorStatus
MapConnectorStatus(e, c) ==
    CASE "faulted" \in {ConnectorStatus(c), EvseStatus(e)} -> "Faulted"
      [] OTHER ->
           IF e.activeTransactionId # {} THEN "Charging"
           ELSE IF e.activeReservationId # {} THEN "Reserved"
           ELSE IF "unavailable" \in {ConnectorStatus(c), EvseStatus(e)} THEN "Unavailable"
           ELSE IF ConnectorStatus(c) = "available" THEN "Available" ELSE "Preparing"

OcppErrorCodes ==
    {"ConnectorLockFailure", "EVCommunicationError", "GroundFailure", "HighTemperature",
     "InternalError", "LocalListConflict", "NoError", "OtherError", "OverCurrentFailure",
     "PowerMeterFailure", "PowerSwitchFailure", "ReaderFailure", "ResetFailure",
     "UnderVoltage", "OverVoltage", "WeakSignal"}

MapErrorCode(faultCode) ==
    IF faultCode = {} THEN [errorCode |-> "NoError"]
    ELSE LET code == CHOOSE c \in faultCode : TRUE
         IN  IF code \in OcppErrorCodes THEN [errorCode |-> code]
             ELSE [errorCode |-> "OtherError", vendorErrorCode |-> code]

\* sendStatusNotification of a connector, and of the point as connector 0.
ConnectorReport(ctx, id) ==
    Spread([action |-> "StatusNotification", connectorId |-> id,
            status |-> MapConnectorStatus(EvseOf(ctx, id), ConnectorOf(ctx, id))],
           MapErrorCode(ConnectorOf(ctx, id).faultCode))
PointReport(ctx) ==
    Spread([action |-> "StatusNotification", connectorId |-> 0,
            status |-> MapPointStatus(PointStatus(ctx.point))],
           MapErrorCode(ctx.point.faultCode))

\* What reportConnectorStatus refuses.
ReportErrors(ctx, id) ==
    IF RegistrationErrors(ctx) # {} THEN RegistrationErrors(ctx)
    ELSE IF id = 0 THEN {"INVALID_OPERATION"} ELSE SelectionErrors(ctx, id)

----------------------------------------------------------------------------
(* Transactions. *)

Unfinished(ctx) == {i \in DOMAIN ctx.transactions : ctx.transactions[i].state # "ended"}

\* hasActiveTransactionOnConnector
RunningOf(transactions) ==
    {<<transactions[i].evse, transactions[i].connector>> :
        i \in {j \in DOMAIN transactions : transactions[j].state # "ended"}}

\* getConnectorStartMeter: the latest to start, the first of those alike.
GetConnectorStartMeter(ctx, id) ==
    LET mine == {i \in DOMAIN ctx.transactions : ctx.transactions[i].connector = id}
        latest == {i \in mine : \A j \in mine :
                      ctx.transactions[j].startedAt <= ctx.transactions[i].startedAt}
    IN  IF mine = {} THEN 0
        ELSE ctx.transactions[CHOOSE i \in latest : \A j \in latest : i <= j].latestMeterWh

Transaction(ctx, id) == {i \in DOMAIN ctx.transactions : ctx.transactions[i].id = id}

\* findTransactionByOcppTransactionId: an online transaction that no binding
\* names has the number for its id.
FindByOcppId(ctx, ocppId) ==
    LET bound == {i \in DOMAIN ctx.bindings : ctx.bindings[i][2] = ocppId}
    IN  IF bound = {} THEN Transaction(ctx, ocppId)
        ELSE Transaction(ctx, ctx.bindings[CHOOSE i \in bound : \A j \in bound : i <= j][1])

----------------------------------------------------------------------------
(* The commands. *)

\* resolveTriggerConnectorId: at most one.
TriggeredConnector(ctx, given) ==
    IF given # {} THEN (given \cap ConnectorIdsOf(ctx)) \ {0}
    ELSE {id \in ConnectorIdsOf(ctx) : \A other \in ConnectorIdsOf(ctx) : id <= other}

TriggerStatusNotification(ctx, given) ==
    IF given \ {0} \subseteq ConnectorIdsOf(ctx)
    THEN Then(Responds(ctx, "Accepted"),
              [name |-> "report", connectors |-> given \ {0}])
    ELSE Responds(ctx, "Rejected")

TriggerMeterValues(ctx, given) ==
    IF TriggeredConnector(ctx, given) # {}
    THEN Then(Responds(ctx, "Accepted"),
              [name |-> "reading", connectors |-> TriggeredConnector(ctx, given)])
    ELSE Responds(ctx, "Rejected")

\* handleTriggerMessage; given is the connectorId, if any.
TriggerMessage(ctx, requested, given) ==
    CASE requested = "BootNotification" ->
           Then(Responds(ctx, "Accepted"), [name |-> "boot", connectors |-> {}])
      [] requested \in {"Heartbeat", "StatusNotification", "MeterValues"}
         /\ ctx.registration # "Accepted" -> Responds(ctx, "Rejected")
      [] OTHER ->
           CASE requested = "Heartbeat" ->
                  Then(Responds(ctx, "Accepted"), [name |-> "heartbeat", connectors |-> {}])
             [] requested = "StatusNotification" -> TriggerStatusNotification(ctx, given)
             [] requested = "MeterValues" -> TriggerMeterValues(ctx, given)
             [] OTHER -> Responds(ctx, "NotImplemented")

\* findActiveTransaction: at most one.
ActiveOn(ctx, evse, id) ==
    LET mine == {i \in Unfinished(ctx) : /\ ctx.transactions[i].evse = evse
                                         /\ ctx.transactions[i].connector = id}
    IN  {i \in mine : \A j \in mine : i <= j}

\* handleUnlockConnector
UnlockConnector(ctx, id, at) ==
    IF ctx.registration # "Accepted" THEN Responds(ctx, "UnlockFailed")
    ELSE IF SelectionErrors(ctx, id) # {} THEN Responds(ctx, "NotSupported")
    ELSE LET evse == EvseOf(ctx, id).id
             unlock == SetLockState(ConnectorOf(ctx, id), "unlocked", at)
             unlocked == [Responds(ctx, "Unlocked") EXCEPT
                             !.point = UpdatePointConnector(@, evse, unlock)]
             active == ActiveOn(ctx, evse, id)
         IN  IF active = {} THEN unlocked
             ELSE Then(unlocked, [name |-> "stop", reason |-> "unlock-command",
                                  transaction |-> CHOOSE i \in active : TRUE])

\* handleRemoteStopTransaction
RemoteStopTransaction(ctx, ocppId) ==
    LET found == FindByOcppId(ctx, ocppId) \cap Unfinished(ctx)
    IN  IF found = {} THEN Responds(ctx, "Rejected")
        ELSE Then(Responds(ctx, "Accepted"), [name |-> "stop", reason |-> "remote",
                                              transaction |-> CHOOSE i \in found : TRUE])

\* selectRemoteStartConnector: at most one.
SelectRemoteStart(ctx, given) ==
    {id \in IF given = {} THEN FirstStartable(ctx) ELSE given : CanStartOn(ctx, id)}

\* handleRemoteStartTransaction: the connector is selected in ctx; the CSMS, if
\* it is asked, has decided by the time the context is later.
RemoteStartTransaction(ctx, given, asks, decision, later) ==
    IF SelectRemoteStart(ctx, given) = {} THEN Responds(ctx, "Rejected")
    ELSE LET id == CHOOSE x \in SelectRemoteStart(ctx, given) : TRUE
         IN  IF asks /\ decision # "Accepted"
             THEN Then(Responds(later, "Rejected"), [name |-> "refused", connector |-> id])
             ELSE Then(Responds(later, "Accepted"),
                       [name |-> "start", connector |-> id,
                        meterStartWh |-> GetConnectorStartMeter(later, id),
                        fails |-> StartErrors(later, id, TRUE, TRUE)])

Handled == {"ChangeAvailability", "ChangeConfiguration", "ClearCache", "GetConfiguration",
            "GetLocalListVersion", "RemoteStartTransaction", "RemoteStopTransaction",
            "SendLocalList", "TriggerMessage", "UnlockConnector"}

----------------------------------------------------------------------------
(* The records of a command: what Ocpp16CommandDispatch.handle logs after  *)
(* "started", given the calls the handler makes on the request (each sent  *)
(* or failed, the last one if it failed) and how it ends.                  *)

ClassifyCommandResponse(status) ==
    IF status \in {"Rejected", "NotSupported", "NotImplemented"} THEN "rejected" ELSE "completed"

CallRecords(call) ==
    IF ~call.sent THEN <<>>
    ELSE IF call.kind = "respond" THEN <<ClassifyCommandResponse(call.status)>> ELSE <<"failed">>

CommandRecords(action, calls, threw) ==
    IF action \notin Handled
    THEN IF calls[1].sent THEN <<"rejected">> ELSE <<"failed">>
    ELSE LET terminal == FlattenSeq([i \in DOMAIN calls |-> CallRecords(calls[i])])
         IN  IF terminal # <<>> THEN terminal
             ELSE IF threw THEN <<"failed">> ELSE <<"completed">>

----------------------------------------------------------------------------
(* What must hold of them. *)

\* resolveOcppTransactionId: the number a report or a stop is sent with.
ResolveOcppId(ctx, i) ==
    LET id == ctx.transactions[i].id
        bound == {j \in DOMAIN ctx.bindings : ctx.bindings[j][1] = id}
    IN  IF bound = {} THEN id ELSE ctx.bindings[CHOOSE j \in bound : TRUE][2]

Extended(ctx, transactions, bindings) ==
    [registration |-> ctx.registration, point |-> ctx.point,
     running |-> RunningOf(transactions), transactions |-> transactions,
     bindings |-> bindings]

\* An online transaction has the number the CSMS gave it for its id; an offline
\* one has an id of its own and is bound to a number when it is replayed, which
\* may be that of another transaction.
SomeTransaction(id) ==
    {[id |-> id, state |-> s, evse |-> 2, connector |-> 1, startedAt |-> at,
      latestMeterWh |-> id] : s \in {"active", "ended"}, at \in {1, 2}}
SomeTransactions ==
    {<<>>} \cup {<<a>> : a \in SomeTransaction(7)}
    \cup {<<a, b>> : a \in SomeTransaction(7), b \in SomeTransaction(101)}
    \cup {<<b, a>> : a \in SomeTransaction(7), b \in SomeTransaction(101)}
SomeBindings == {<<>>, <<<<101, 7>>>>, <<<<101, 8>>>>}

\* A point whose first connector may start a transaction.
OnePoint == CHOOSE ctx \in Contexts :
                ctx.registration = "Accepted" /\ CanStart([ctx EXCEPT !.running = {}], 1, FALSE)
TransactionContexts ==
    {Extended(OnePoint, transactions, bindings) :
        transactions \in SomeTransactions, bindings \in SomeBindings}

OrNone(S) == {{}} \cup {{x} : x \in S}

\* A remote start is accepted only for a connector that the CSMS sees as
\* Preparing, that the card may be authorized for and the transaction started
\* on; a connector it asks for and sees as Preparing is refused only while a
\* transaction runs on it.
ASSUME RemoteStartsArePreparing ==
    \A ctx \in Contexts : \A given \in OrNone(Ids) :
        LET selected == SelectRemoteStart(ctx, given)
        IN  /\ \A id \in selected :
                  /\ ConnectorReport(ctx, id).status = "Preparing"
                  /\ AuthorizeErrors(ctx, id, TRUE) = {}
                  /\ StartErrors(ctx, id, TRUE, TRUE) = {}
            /\ \A id \in given \cap ConnectorIdsOf(ctx) :
                  /\ ctx.registration = "Accepted"
                  /\ PointStatus(ctx.point) = "available"
                  /\ ConnectorReport(ctx, id).status = "Preparing"
                  /\ ConnectorOf(ctx, id).plugState = "plugged"
                  /\ ~HasActiveTransactionOn(ctx, id)
                  => selected = {id}

\* What a trigger was accepted for can be sent, and before the registration that
\* is a BootNotification only: no accepted trigger is dropped because what it
\* asks for is refused once the answer is out.
ASSUME TriggersCanBeServed ==
    \A ctx \in Contexts : \A given \in OrNone(Ids) :
        \A requested \in {"BootNotification", "Heartbeat", "StatusNotification", "MeterValues",
                          "FirmwareStatusNotification"} :
            LET r == TriggerMessage(ctx, requested, given)
            IN  /\ r.status = "Accepted" <=> r.then # {}
                /\ \A t \in r.then :
                     /\ t.name # "boot" => RegistrationErrors(ctx) = {}
                     /\ t.name = "report" =>
                          \A id \in t.connectors : ReportErrors(ctx, id) = {}
                     /\ t.name = "reading" =>
                          /\ \E id \in t.connectors : SelectionErrors(ctx, id) = {}
                          /\ given # {} => t.connectors = given

\* Unlocking stops a transaction of the connector that has not ended and leaves
\* the other EVSE and the status of the connector as they are.
ASSUME UnlockLeavesTheRest ==
    /\ \A ctx \in Contexts : \A id \in Ids :
          LET c == Extended(ctx, <<>>, <<>>)
              r == UnlockConnector(c, id, 0)
          IN  IF r.status = "Unlocked"
              THEN LET after == [ctx EXCEPT !.point = r.point]
                   IN  /\ ConnectorOf(after, id).lockState = "unlocked"
                       /\ \A other \in ConnectorIdsOf(ctx) :
                             /\ ConnectorReport(after, other) = ConnectorReport(ctx, other)
                             /\ other # id => ConnectorOf(after, other) = ConnectorOf(ctx, other)
                             /\ CanStartOn(after, other) = CanStartOn(ctx, other)
              ELSE r.point = ctx.point
    /\ \A ctx \in TransactionContexts :
          LET r == UnlockConnector(ctx, 1, 0)
          IN  /\ r.then = {} <=> Unfinished(ctx) = {}
              /\ \A t \in r.then : t.transaction \in Unfinished(ctx)
              /\ UnlockConnector(ctx, 2, 0).then = {}

\* The StopTransaction that follows a RemoteStopTransaction names the number
\* that the CSMS named, also when it has given one number to two transactions,
\* and is not refused because the transaction has ended.
ASSUME RemoteStopsKeepTheNumber ==
    \A ctx \in TransactionContexts : \A ocppId \in {7, 8, 9} :
        \A t \in RemoteStopTransaction(ctx, ocppId).then :
            /\ ResolveOcppId(ctx, t.transaction) = ocppId
            /\ t.transaction \in Unfinished(ctx)

\* Every command leaves one record after "started", whether its handler answers
\* and then throws, throws without an answer, or fails to send it; it is a
\* failure exactly when no answer was sent, or an error was.
ASSUME OneRecordPerCommand ==
    \A action \in Handled \cup {"Reset"} : \A sent, threw \in BOOLEAN :
        \A status \in {"Accepted", "Rejected", "Unlocked", "UnlockFailed", "NotSupported"} :
            \A calls \in {<<>>} \cup {<<[kind |-> k, status |-> status, sent |-> sent]>> :
                                      k \in {"respond", "reject"}} :
                /\ action \in Handled \/ calls # <<>>
                /\ calls # <<>> /\ ~sent => threw
                =>
                    LET records == CommandRecords(action, calls, threw)
                    IN  /\ Len(records) = 1
                        /\ records[1] = "completed" =>
                              /\ action \in Handled
                              /\ calls # <<>> => sent
=============================================================================
