-------------------------- MODULE OperationResults --------------------------
(***************************************************************************)
(* What a request to operate a charging point is answered: the result or   *)
(* error of the OCPP 1.6 runtime on its way through the actor, the command *)
(* executor and the service of the server to the HTTP answer.              *)
(*                                                                         *)
(* A reply is a record with a value or with the error that was thrown;     *)
(* texts and numbers that no layer looks at are abstracted to one value.   *)
(***************************************************************************)
EXTENDS ConnectorSelection

Returns(value) == [value |-> value]
Throws(of, code) == [error |-> [of |-> of, code |-> code]]
Threw(reply) == Has(reply, "error")

----------------------------------------------------------------------------
(* The runtime.  Fields that the actor never reads are left out. *)

AuthorizationStatuses == {"Accepted", "Blocked", "Expired", "Invalid", "ConcurrentTx"}
Refused == AuthorizationStatuses \ {"Accepted"}
Sources == {"online", "local-list", "cache", "default-policy"}

FailedCalls == {[outcome |-> "Failed", errorCode |-> "code", errorMessage |-> "message",
                 shouldReconnect |-> b] : b \in BOOLEAN}

\* Ocpp16AuthorizeResult
AuthorizeResults ==
    {[outcome |-> "Accepted", authorizationStatus |-> "Accepted", source |-> s] : s \in Sources}
    \cup {Spread([outcome |-> "Rejected", authorizationStatus |-> x, source |-> s], reason) :
            x \in Refused, s \in Sources, reason \in {<<>>, [reason |-> "why"]}}
    \cup FailedCalls

\* Ocpp16StopTransactionResult
StopResults ==
    {[outcome |-> "Accepted", transactionId |-> "t", meterStop |-> 7, stoppedAt |-> "now"]}
    \cup FailedCalls

\* Ocpp16TransactionStartResult
StartResults ==
    {Spread([status |-> "Accepted", transactionId |-> "t"], source) :
        source \in {<<>>} \cup {[authorizationSource |-> s] : s \in Sources}}
    \cup {Spread([status |-> "Rejected", reason |-> "why"], status) :
        status \in {<<>>} \cup {[authorizationStatus |-> x] : x \in Refused}}

\* Ocpp16ConnectorActionResult
ActionResults ==
    {[evseId |-> 2, connectorId |-> 1, ocppConnectorId |-> 1, plugState |-> p,
      vehiclePresence |-> IF p = "plugged" THEN "detected" ELSE "absent",
      connectorStatus |-> s] :
        p \in {"plugged", "unplugged"}, s \in {"available", "occupied", "unavailable", "faulted"}}

\* stopTransaction, for a transaction the actor knows.
StopErrors(ended) == IF ended THEN {"INVALID_OPERATION"} ELSE {}

----------------------------------------------------------------------------
(* The actor: resultMapping and Ocpp16ChargingPointActor. *)

MapAuthorizationStatus(status) ==
    CASE status = "Accepted" -> "accepted"
      [] status = "Blocked" -> "blocked"
      [] status = "Expired" -> "expired"
      [] status = "ConcurrentTx" -> "concurrent-transaction"
      [] OTHER -> "invalid"

Authorized(protocolStatus, source) ==
    [authorization |-> [status |-> MapAuthorizationStatus(protocolStatus), source |-> source,
                        protocolStatus |-> protocolStatus]]

ToBootResult(result) ==
    [status |-> CASE result.status = "Accepted" -> "accepted"
                  [] result.status = "Pending" -> "pending"
                  [] OTHER -> "rejected",
     protocolStatus |-> result.status, interval |-> result.interval]

ToConnectorActionResult(result) == Given(result, DOMAIN result \ {"ocppConnectorId"})

ToFailure(result) ==
    Spread([status |-> "failed"], Given(result, {"errorCode", "errorMessage", "shouldReconnect"}))

ToAuthorizeResult(result) ==
    CASE result.outcome = "Accepted" ->
           Spread([status |-> "accepted"], Authorized("Accepted", result.source))
      [] result.outcome = "Rejected" ->
           Spread([status |-> "rejected",
                   reason |-> IF Has(result, "reason") THEN result.reason
                              ELSE "refused by the central system",
                   authorizationStatus |-> result.authorizationStatus],
                  Authorized(result.authorizationStatus, result.source))
      [] OTHER -> ToFailure(result)

ToTransactionStartResult(result) ==
    IF result.status = "Accepted"
    THEN Spread([status |-> "accepted", transactionId |-> result.transactionId],
                Authorized("Accepted", IF Has(result, "authorizationSource")
                                       THEN result.authorizationSource ELSE "online"))
    ELSE Spread(Spread([status |-> "rejected", reason |-> result.reason],
                       Given(result, {"authorizationStatus"})),
                IF Has(result, "authorizationStatus")
                THEN Authorized(result.authorizationStatus, "online") ELSE <<>>)

ToStopTransactionResult(result) ==
    IF result.outcome = "Accepted"
    THEN [status |-> "accepted", transactionId |-> result.transactionId,
          meterStopWh |-> result.meterStop, stoppedAt |-> result.stoppedAt]
    ELSE ToFailure(result)

\* toPublicAuthorizeResult, toPublicTransactionStartResult
ToPublicAuthorizeResult(r) ==
    Given(r, {"status"} \cup CASE r.status = "accepted" -> {}
                               [] r.status = "rejected" -> {"reason", "authorizationStatus"}
                               [] OTHER -> {"errorCode", "errorMessage", "shouldReconnect"})
ToPublicTransactionStartResult(r) ==
    Given(r, {"status"} \cup IF r.status = "accepted" THEN {"transactionId"}
                             ELSE {"reason", "authorizationStatus"})

\* requireNotDisposed, requireStarted
Unready(actor) ==
    IF actor.disposed THEN {"ACTOR_INVALID_OPERATION"}
    ELSE IF actor.status \notin {"starting", "running"} THEN {"ACTOR_NOT_RUNNING"} ELSE {}

ReadyOr(actor, reply) ==
    IF Unready(actor) = {} THEN reply ELSE Throws("actor", CHOOSE c \in Unready(actor) : TRUE)

MapProtocolError(error) ==
    IF error.of # "runtime" THEN error
    ELSE [of |-> "actor",
          code |-> IF error.code \in {"INVALID_OPERATION", "CONNECTOR_NOT_FOUND"}
                   THEN "ACTOR_INVALID_OPERATION" ELSE "ACTOR_OPERATION_FAILED"]

\* plug, unplug
ActorPlug(actor, reply) ==
    ReadyOr(actor, IF Threw(reply) THEN [error |-> MapProtocolError(reply.error)]
                   ELSE Returns(ToConnectorActionResult(reply.value)))

ActorAuthorize(actor, reply) ==
    ReadyOr(actor, IF Threw(reply) THEN reply
                   ELSE Returns(ToPublicAuthorizeResult(ToAuthorizeResult(reply.value))))

\* here: the runtime has the connector.
ActorStartTransaction(actor, here, reply) ==
    ReadyOr(actor,
        IF ~here THEN Returns([status |-> "rejected", reason |-> "no such connector"])
        ELSE IF Threw(reply) THEN reply
        ELSE Returns(ToPublicTransactionStartResult(ToTransactionStartResult(reply.value))))

\* known: requireTransactionResource finds the transaction.
ActorStopTransaction(actor, known, reply) ==
    ReadyOr(actor,
        IF ~known THEN Throws("actor", "ACTOR_INVALID_OPERATION")
        ELSE IF Threw(reply) THEN reply
        ELSE Returns(ToStopTransactionResult(reply.value)))

----------------------------------------------------------------------------
(* The server: RuntimeOperationCommandExecutor and RuntimeOperationService. *)

Ok(body) == [status |-> 200, body |-> body]
AppError(status, code) == [status |-> status, code |-> code]

NotRunning == AppError(409, "CHARGING_POINT_NOT_RUNNING")
IsActorError(error, code) == error.of = "actor" /\ error.code = code

MapConnectorActionError(error) ==
    CASE IsActorError(error, "ACTOR_NOT_RUNNING") -> NotRunning
      [] IsActorError(error, "ACTOR_INVALID_OPERATION") ->
           AppError(409, "CONNECTOR_OPERATION_CONFLICT")
      [] OTHER -> AppError(502, "CONNECTOR_OPERATION_FAILED")

MapAuthorizeError(error) ==
    IF IsActorError(error, "ACTOR_NOT_RUNNING") THEN NotRunning
    ELSE AppError(502, "AUTHORIZATION_OPERATION_FAILED")

MapTransactionError(error) ==
    CASE IsActorError(error, "ACTOR_NOT_RUNNING") -> NotRunning
      [] IsActorError(error, "ACTOR_INVALID_OPERATION") ->
           AppError(409, "TRANSACTION_OPERATION_FAILED")
      [] OTHER -> AppError(502, "TRANSACTION_OPERATION_FAILED")

MapStartError(error) ==
    IF IsActorError(error, "ACTOR_PROTOCOL_UNSUPPORTED")
    THEN AppError(400, "CHARGING_POINT_PROTOCOL_UNSUPPORTED")
    ELSE AppError(502, "CHARGING_POINT_START_FAILED")
MapStopError(error) == AppError(502, "CHARGING_POINT_STOP_FAILED")

\* toConnectorOperationBase
OperationBase == [chargingPointId |-> "p", connectorId |-> "c", evseId |-> 2,
                  protocolConnectorId |-> 1]

ToConnectorActionResponse(result) ==
    [chargingPointId |-> "p", connectorId |-> "c", evseId |-> result.evseId,
     protocolConnectorId |-> result.connectorId, plugState |-> result.plugState,
     vehiclePresence |-> result.vehiclePresence, connectorStatus |-> result.connectorStatus]

ToAuthorizeResponse(result) ==
    Spread(Spread(OperationBase, [idTag |-> "tag"]), result)
ToStartTransactionResponse(result) ==
    Spread(Spread(OperationBase, [idTag |-> "tag"]), result)
ToStopTransactionResponse(result) ==
    Spread(Spread(OperationBase, [transactionId |-> "t"]), result)

\* requireConnector and requireRunningActor, before a command: what they throw,
\* or the actor a command is given; actors is the registered one, or none.
Refusals(known, actors) ==
    IF ~known THEN {AppError(404, "CONNECTOR_NOT_FOUND")}
    ELSE IF actors = {} THEN {NotRunning} ELSE {}

Executed(known, actors, answers) ==
    CHOOSE answer \in IF Refusals(known, actors) = {} THEN answers
                       ELSE Refusals(known, actors) : TRUE

ApplyConnectorAction(known, actors, reply) ==
    LET Answer(r) == IF Threw(r) THEN MapConnectorActionError(r.error)
                     ELSE Ok(ToConnectorActionResponse(r.value))
    IN  Executed(known, actors, {Answer(ActorPlug(a, reply)) : a \in actors})

ExecuteAuthorize(known, actors, reply) ==
    LET Answer(r) == IF Threw(r) THEN MapAuthorizeError(r.error)
                     ELSE Ok(ToAuthorizeResponse(r.value))
    IN  Executed(known, actors, {Answer(ActorAuthorize(a, reply)) : a \in actors})

ExecuteStartTransaction(known, actors, here, reply) ==
    LET Answer(r) == IF Threw(r) THEN MapTransactionError(r.error)
                     ELSE Ok(ToStartTransactionResponse(r.value))
    IN  Executed(known, actors, {Answer(ActorStartTransaction(a, here, reply)) : a \in actors})

\* mine: the transaction that the actor knows is one of this connector.
ExecuteStopTransaction(known, actors, mine, reply) ==
    LET Answer(r) == IF ~mine THEN AppError(409, "TRANSACTION_CONNECTOR_MISMATCH")
                     ELSE IF Threw(r) THEN MapTransactionError(r.error)
                     ELSE Ok(ToStopTransactionResponse(r.value))
    IN  Executed(known, actors, {Answer(ActorStopTransaction(a, mine, reply)) : a \in actors})

ToStatusResponse(actors) ==
    IF actors = {} THEN [chargingPointId |-> "p", status |-> "stopped"]
    ELSE LET a == CHOOSE x \in actors : TRUE
         IN  Spread([chargingPointId |-> "p", status |-> a.status],
                    CASE a.status = "running" -> [bootStatus |-> "Accepted"]
                      [] a.status = "starting" -> [bootStatus |-> "Pending"]
                      [] OTHER -> <<>>)

ToStartResponse(result) ==
    Given(Spread(result, [status |-> result.chargingPointActorStatus]),
          {"chargingPointId", "status", "bootStatus", "retryAfterSec"})

\* start(), of a point with or without connectors; the actor that is registered
\* is not started again.
ServeStart(equipped, actors, reply) ==
    CASE ~equipped -> AppError(409, "CHARGING_POINT_NOT_RUNNABLE")
      [] equipped /\ actors # {} -> Ok(ToStatusResponse(actors))
      [] OTHER -> IF Threw(reply) THEN MapStartError(reply.error)
                  ELSE Ok(ToStartResponse(reply.value))

ServeStop(actors, reply) ==
    IF actors # {} /\ Threw(reply) THEN MapStopError(reply.error) ELSE Ok(ToStatusResponse({}))

----------------------------------------------------------------------------
(* What the routes document and the contracts describe. *)

Documented(route) ==
    CASE route = "start" -> {200, 400, 404, 409, 502}
      [] route = "stop" -> {200, 400, 404, 502}
      [] route \in {"plug", "unplug", "authorize", "start-transaction", "stop-transaction"} ->
           {200, 400, 404, 409, 502}

OperationFields == DOMAIN OperationBase

\* A variant: the fields it must have and those it may have.
OperationContract == [must |-> {"chargingPointId", "status"}, may |-> {"bootStatus", "retryAfterSec"}]
ActionContract ==
    [must |-> OperationFields \cup {"plugState", "vehiclePresence", "connectorStatus"}, may |-> {}]
FailedFields == {"status", "errorCode", "errorMessage", "shouldReconnect"}
AuthorizeContract(status) ==
    LET base == OperationFields \cup {"idTag", "status"}
    IN  CASE status = "accepted" -> [must |-> base, may |-> {}]
          [] status = "rejected" -> [must |-> base \cup {"reason"}, may |-> {"authorizationStatus"}]
          [] status = "failed" -> [must |-> base \cup FailedFields, may |-> {}]
StartContract(status) ==
    LET base == OperationFields \cup {"idTag", "status"}
    IN  CASE status = "accepted" -> [must |-> base \cup {"transactionId"}, may |-> {}]
          [] status = "rejected" -> [must |-> base \cup {"reason"}, may |-> {"authorizationStatus"}]
StopContract(status) ==
    LET base == OperationFields \cup {"transactionId", "status"}
    IN  CASE status = "accepted" -> [must |-> base \cup {"meterStopWh", "stoppedAt"}, may |-> {}]
          [] status = "failed" -> [must |-> base \cup FailedFields, may |-> {}]

Fits(body, contract) ==
    contract.must \subseteq DOMAIN body /\ DOMAIN body \subseteq contract.must \cup contract.may

----------------------------------------------------------------------------
(* Every way a request can go. *)

Actors == [status : {"starting", "running", "stopped"}, disposed : BOOLEAN]
Registered == {{}} \cup {{a} : a \in Actors}

\* The runtime's result, what it refuses, or an error of the session below it.
Replies(results, refusals) ==
    {Returns(r) : r \in results} \cup {Throws("runtime", c) : c \in refusals}
    \cup {Throws("other", "Error")}

PlugReplies ==
    Replies(ActionResults, UNION {PlugErrors(ctx, 2, id) \cup UnplugErrors(ctx, 2, id) :
                                  ctx \in Contexts, id \in Ids})
AuthorizeReplies ==
    Replies(AuthorizeResults, UNION {AuthorizeErrors(ctx, id, online) :
                                     ctx \in Contexts, id \in Ids, online \in BOOLEAN})
StartReplies ==
    Replies(StartResults, UNION {StartErrors(ctx, id, online, local) :
                                 ctx \in Contexts, id \in Ids, online, local \in BOOLEAN})
StopReplies == Replies(StopResults, StopErrors(TRUE))

PlugAnswers ==
    {ApplyConnectorAction(known, actors, reply) :
        known \in BOOLEAN, actors \in Registered, reply \in PlugReplies}
AuthorizeAnswers ==
    {ExecuteAuthorize(known, actors, reply) :
        known \in BOOLEAN, actors \in Registered, reply \in AuthorizeReplies}
StartAnswers ==
    {ExecuteStartTransaction(known, actors, here, reply) :
        known, here \in BOOLEAN, actors \in Registered, reply \in StartReplies}
StopAnswers ==
    {ExecuteStopTransaction(known, actors, mine, reply) :
        known, mine \in BOOLEAN, actors \in Registered, reply \in StopReplies}

\* What Ocpp16StartupLifecycle returns and what the actor throws.
ActorStarts ==
    Replies({[chargingPointId |-> "p", chargingPointActorStatus |-> "running",
              bootStatus |-> "Accepted"],
             [chargingPointId |-> "p", chargingPointActorStatus |-> "starting",
              bootStatus |-> "Pending", retryAfterSec |-> 0]}, {})
    \cup {Throws("actor", c) : c \in {"ACTOR_START_FAILED", "ACTOR_INVALID_OPERATION",
                                      "ACTOR_PROTOCOL_UNSUPPORTED"}}

ServiceAnswers ==
    {<<"start", ServeStart(equipped, actors, reply)>> :
        equipped \in BOOLEAN, actors \in Registered, reply \in ActorStarts}
    \cup {<<"stop", ServeStop(actors, reply)>> : actors \in Registered, reply \in ActorStarts}

\* Whatever the runtime, the session or the actor throws, the answer has a
\* status the route documents (runtimeOperation.route.ts): no error of a lower
\* layer gets through as a 500.
ASSUME AnswersAreDocumented ==
    /\ \A x \in PlugAnswers : x.status \in Documented("plug") \cap Documented("unplug")
    /\ \A x \in AuthorizeAnswers : x.status \in Documented("authorize")
    /\ \A x \in StartAnswers : x.status \in Documented("start-transaction")
    /\ \A x \in StopAnswers : x.status \in Documented("stop-transaction")
    /\ \A x \in ServiceAnswers : x[2].status \in Documented(x[1])

\* The fields that the three layers drop, add and rename leave exactly those of
\* the variant of the contract that the status of the body selects.
ASSUME BodiesFitTheContract ==
    /\ \A x \in PlugAnswers : x.status = 200 => Fits(x.body, ActionContract)
    /\ \A x \in AuthorizeAnswers :
          x.status = 200 => Fits(x.body, AuthorizeContract(x.body.status))
    /\ \A x \in StartAnswers : x.status = 200 => Fits(x.body, StartContract(x.body.status))
    /\ \A x \in StopAnswers : x.status = 200 => Fits(x.body, StopContract(x.body.status))
    /\ \A x \in ServiceAnswers : x[2].status = 200 => Fits(x[2].body, OperationContract)

\* An answer is accepted exactly when the running actor's runtime accepted, and
\* a refusal by the CSMS arrives with the status the CSMS gave.
ASSUME AnswersKeepTheOutcome ==
    \A a \in Actors :
        /\ \A reply \in AuthorizeReplies :
              LET x == ExecuteAuthorize(TRUE, {a}, reply)
                  kept == Unready(a) = {} /\ ~Threw(reply)
              IN  /\ x.status = 200 <=> kept
                  /\ kept =>
                       /\ x.body.status = "accepted" <=> reply.value.outcome = "Accepted"
                       /\ reply.value.outcome = "Rejected" =>
                            x.body.authorizationStatus = reply.value.authorizationStatus
        /\ \A reply \in StartReplies :
              LET x == ExecuteStartTransaction(TRUE, {a}, TRUE, reply)
                  kept == Unready(a) = {} /\ ~Threw(reply)
              IN  /\ x.status = 200 <=> kept
                  /\ kept =>
                       /\ x.body.status = "accepted" <=> reply.value.status = "Accepted"
                       /\ x.body.status = "rejected" =>
                            Given(x.body, {"authorizationStatus"})
                              = Given(reply.value, {"authorizationStatus"})

\* A plug or unplug that the connector's state does not allow is a conflict, as
\* the routes document it, never a failure of the server.
ASSUME RefusedPlugsAreConflicts ==
    \A c \in UNION {PlugErrors(ctx, 2, id) \cup UnplugErrors(ctx, 2, id) :
                    ctx \in Contexts, id \in Ids} :
        \A a \in Actors :
            ApplyConnectorAction(TRUE, {a}, Throws("runtime", c)).status = 409
=============================================================================
