---------------------------- MODULE RuntimeView ----------------------------
(***************************************************************************)
(* What a viewer is shown of a running charging point: the events its      *)
(* actor publishes, the projection the server's hub folds them into, the   *)
(* snapshot that is sent of it, and the page's state, log, cards and       *)
(* header made from the snapshot.  Which steps publish, and when the page  *)
(* hears of them, is the matter of StatusReports and ChargingPointPage.    *)
(*                                                                         *)
(* Events are records with the fields the code gives them.  Texts stand as *)
(* short names; dates are numbers; a list with keys is a function, so that *)
(* its order, which only sorts what is shown, is left out.                 *)
(***************************************************************************)
EXTENDS Records, Integers, Sequences, FiniteSets

Nothing == "nothing"        \* null, or a text that is not given
Missing == <<>>             \* an object or a number that is not there

Read(r, f) == IF Has(r, f) THEN r[f] ELSE Nothing
There(item) == DOMAIN item # {}

----------------------------------------------------------------------------
(* Ocpp16EventEnvelope and EventEnvelopePublisher *)

Carried == [type \in {"chargingPoint.status", "evse.status", "connector.status",
                      "authorization.status", "transaction.status",
                      "transaction.meterValue"} |->
    CASE type = "authorization.status" -> {"resource", "status", "source", "protocolStatus"}
      [] type = "transaction.meterValue" -> {"resource", "meterWh", "sampledAt"}
      [] type = "transaction.status" ->
            {"resource", "previousStatus", "currentStatus", "reason", "error"}
      [] OTHER -> {"resource", "previousStatus", "currentStatus", "error"}]

\* An event of the runtime keeps its time, others get that of the clock.
RouteRuntimeEvent(e) == Given(e, Carried[e.type] \cup {"type", "occurredAt"})

RouteProtocolMessage(m, now) ==
    Spread([type |-> "protocol.message", occurredAt |-> now,
            direction |-> IF m.direction = "outbound" THEN "sent" ELSE "received"],
           Spread(Given(m, {"action", "messageId"}),
                  IF Has(m, "payload") THEN [body |-> m.payload]
                  ELSE IF Has(m, "errorCode") THEN [body |-> m.errorCode] ELSE <<>>))

\* extra: attempt and error of a reconnect, the reason of an offline.
SessionStatusEvent(previous, current, url, extra, now) ==
    Spread([type |-> "session.status", previousStatus |-> previous, currentStatus |-> current,
            connectionUrl |-> url, occurredAt |-> now], extra)

LifecycleEvent(previous, current, error, now) ==
    Spread([type |-> "chargingPoint.lifecycle", previousStatus |-> previous,
            currentStatus |-> current, occurredAt |-> now], Given(error, {"error"}))

\* toEventErrorCause follows a chain of causes three deep.
EventCauses(chain) ==
    IF Len(chain) > 3 THEN Append(SubSeq(chain, 1, 3), "truncated") ELSE chain

----------------------------------------------------------------------------
(* The projection of the hub *)

EmptyProjection ==
    [sessionStatus |-> Missing, chargingPointStatus |-> Missing, evseStatuses |-> <<>>,
     connectorStatuses |-> <<>>, transactionStatuses |-> <<>>,
     lastHeartbeatAt |-> Missing, recentIssue |-> Missing]

UpsertByKey(items, key, item) ==
    [k \in DOMAIN items \cup {key} |-> IF k = key THEN item ELSE items[k]]

WithIssue(p, about, tone, at) ==
    [p EXCEPT !.recentIssue = [about |-> about, tone |-> tone, occurredAt |-> at]]

\* An error is an issue before a status that is one by itself.
WithIssueOf(p, e, bad, tone) ==
    IF Has(e, "error") THEN WithIssue(p, <<e.type, "error", e.error>>, tone, e.occurredAt)
    ELSE IF e.currentStatus = bad THEN WithIssue(p, <<e.type, bad>>, tone, e.occurredAt)
    ELSE p

ReduceSessionStatus(p, e) ==
    LET next == [p EXCEPT !.sessionStatus =
                    Given(e, {"currentStatus", "occurredAt", "connectionUrl", "attempt", "reason"})]
        tone == IF e.currentStatus = "reconnecting" THEN "warning" ELSE "destructive"
    IN  IF Has(e, "error") THEN WithIssue(next, <<e.type, "error", e.error>>, tone, e.occurredAt)
        ELSE IF e.currentStatus = "offline" /\ Read(e, "reason") \notin {Nothing, "intentional"}
        THEN WithIssue(next, <<e.type, e.reason>>,
                       IF e.reason = "reconnect_exhausted" THEN "destructive" ELSE "warning",
                       e.occurredAt)
        ELSE next

ReduceChargingPointStatus(p, e) ==
    WithIssueOf([p EXCEPT !.chargingPointStatus = Given(e, {"currentStatus", "occurredAt"})],
                e, "faulted", "destructive")

ReduceEvseStatus(p, e) ==
    LET item == [evseId |-> e.resource.evseId, currentStatus |-> e.currentStatus,
                 occurredAt |-> e.occurredAt]
    IN  WithIssueOf([p EXCEPT !.evseStatuses = UpsertByKey(@, item.evseId, item)],
                    e, "faulted", "destructive")

ConnectorKey(resource) == <<resource.evseId, resource.connectorId>>

ReduceConnectorStatus(p, e) ==
    LET item == [evseId |-> e.resource.evseId, connectorId |-> e.resource.connectorId,
                 currentStatus |-> e.currentStatus, occurredAt |-> e.occurredAt]
    IN  WithIssueOf([p EXCEPT !.connectorStatuses = UpsertByKey(@, ConnectorKey(e.resource), item)],
                    e, "faulted", "destructive")

\* A start that is refused has no transaction id.
TransactionKey(resource) ==
    IF Has(resource, "transactionId") THEN <<resource.transactionId>> ELSE ConnectorKey(resource)

TransactionItem(e, status, kept) ==
    Spread([evseId |-> e.resource.evseId, connectorId |-> e.resource.connectorId,
            currentStatus |-> status, occurredAt |-> e.occurredAt], kept)

Previous(p, key) == IF key \in DOMAIN p.transactionStatuses THEN p.transactionStatuses[key] ELSE <<>>

\* A status keeps the last reading; the reason is that of this event only.
ReduceTransactionStatus(p, e) ==
    LET key == TransactionKey(e.resource)
        item == TransactionItem(e, e.currentStatus,
                    Spread(Given(e, {"reason"}), Given(Previous(p, key), {"meterWh", "sampledAt"})))
    IN  WithIssueOf([p EXCEPT !.transactionStatuses = UpsertByKey(@, key, item)],
                    e, "failed", "destructive")

\* A reading keeps the status; of a transaction that is not known it makes an
\* active one.
ReduceMeterValue(p, e) ==
    LET key == TransactionKey(e.resource)
        old == Previous(p, key)
        item == TransactionItem(e, IF Has(old, "currentStatus") THEN old.currentStatus ELSE "active",
                    Spread(Given(old, {"reason"}), Given(e, {"meterWh", "sampledAt"})))
    IN  IF Has(e.resource, "transactionId")
          THEN [p EXCEPT !.transactionStatuses = UpsertByKey(@, key, item)]
          ELSE p

\* A lifecycle event that ends in "stopped" empties the projection, its own
\* error included.
ReduceRuntimeProjection(p, e) ==
    CASE e.type = "chargingPoint.lifecycle" ->
            IF e.currentStatus = "stopped" THEN EmptyProjection
            ELSE IF Has(e, "error")
                 THEN WithIssue(p, <<e.type, "error", e.error>>, "destructive", e.occurredAt)
                 ELSE p
      [] e.type = "session.status" -> ReduceSessionStatus(p, e)
      [] e.type = "chargingPoint.status" -> ReduceChargingPointStatus(p, e)
      [] e.type = "evse.status" -> ReduceEvseStatus(p, e)
      [] e.type = "connector.status" -> ReduceConnectorStatus(p, e)
      [] e.type = "authorization.status" -> p
      [] e.type = "transaction.status" -> ReduceTransactionStatus(p, e)
      [] e.type = "transaction.meterValue" -> ReduceMeterValue(p, e)
      [] e.type = "protocol.message" ->
            IF e.direction = "received" /\ Read(e, "action") = "Heartbeat"
              THEN [p EXCEPT !.lastHeartbeatAt = <<e.occurredAt>>]
              ELSE p

\* toRuntimeStatusResponse.
RuntimeStatusResponse(status) ==
    CASE status = "running" -> [status |-> "running", bootStatus |-> "Accepted"]
      [] status = "starting" -> [status |-> "starting", bootStatus |-> "Pending"]
      [] OTHER -> [status |-> "stopped"]

\* A stopped point shows nothing, whatever was projected.
RuntimeSnapshot(runtime, p) ==
    Spread(IF runtime.status = "stopped" THEN EmptyProjection ELSE p, [runtimeStatus |-> runtime])

----------------------------------------------------------------------------
(* The page: chargingPointRuntimeEvents *)

\* The state is the last snapshot; errors and previous statuses are not in it.
\* Events by themselves only go to the log.
PageState(snapshot) == Given(snapshot, DOMAIN EmptyProjection)

FeedLimit == 200
PrependAndLimit(items, item) == SubSeq(<<item>> \o items, 1, IF Len(items) < FeedLimit
                                                               THEN Len(items) + 1 ELSE FeedLimit)

\* What a row says the event is about, in the fields of its resource.
ResourceShown(resource) ==
    CASE resource.scope \in {"chargingPoint", "session", "protocol"} -> <<>>
      [] resource.scope = "evse" -> Given(resource, {"evseId"})
      [] resource.scope = "connector" -> Given(resource, {"evseId", "connectorId"})
      [] resource.scope = "authorization" ->
            IF {"evseId", "connectorId"} \subseteq DOMAIN resource
              THEN Given(resource, {"evseId", "connectorId"}) ELSE Given(resource, {"idTag"})
      [] resource.scope = "transaction" ->
            IF Has(resource, "transactionId") THEN Given(resource, {"transactionId"})
            ELSE Given(resource, {"evseId", "connectorId"})

RuntimeEventSummary(e) ==
    CASE e.type = "transaction.meterValue" -> Given(e, {"meterWh"})
      [] e.type = "authorization.status" -> Given(e, {"status"})
      [] OTHER -> Given(e, {"currentStatus"})

LogEntry(e) ==
    [occurredAt |-> e.occurredAt, eventType |-> e.type, resource |-> ResourceShown(e.resource),
     summary |-> RuntimeEventSummary(e), detail |-> e]
ProtocolLogEntry(e) ==
    Spread(Given(e, {"occurredAt", "direction", "action", "messageId"}),
           [detail |-> IF Has(e, "body") THEN e.body ELSE e])

ReduceFeed(feed, e) ==
    CASE e.type = "snapshot" -> feed
      [] e.type = "protocol.message" ->
            [feed EXCEPT !.protocolMessages = PrependAndLimit(@, ProtocolLogEntry(e))]
      [] OTHER -> [feed EXCEPT !.events = PrependAndLimit(@, LogEntry(e))]

----------------------------------------------------------------------------
(* The cards: chargingPointConnectorCards.  runtime is "unknown" before the  *)
(* status has been asked for.                                                *)

IsActive(t) == t.currentStatus \in {"starting", "active", "suspended", "ending"}

\* An active transaction before the latest of the others, the first of those that
\* tie in the order of their ids.
SelectTransaction(state, c) ==
    LET mine == {k \in DOMAIN state.transactionStatuses :
                    /\ ConnectorKey(state.transactionStatuses[k]) = c
                    /\ state.transactionStatuses[k].currentStatus # "rejected"}
        active == {k \in mine : IsActive(state.transactionStatuses[k])}
        latest == {k \in mine : \A l \in mine : state.transactionStatuses[l].occurredAt
                                                   <= state.transactionStatuses[k].occurredAt}
    IN  IF mine = {} THEN Missing
        ELSE state.transactionStatuses[CHOOSE k \in IF active # {} THEN active ELSE latest : TRUE]

Charges(t) == There(t) /\ IsActive(t)

ConnectorActions(runtime, status, t) ==
    IF runtime # "running" THEN {}
    ELSE IF Charges(t) THEN {"stopCharging"}
    ELSE CASE status = "available" -> {"plug"}
           [] status = "occupied" -> {"unplug", "startCharging"}
           [] OTHER -> {}

StatusBadge(runtime, status) ==
    IF runtime = "stopped" THEN "not running"
    ELSE IF status = Nothing
         THEN IF runtime = "running" THEN "waiting for status" ELSE "not synchronized"
         ELSE status

PlugStatus(runtime, status) ==
    IF runtime # "running" THEN "not running"
    ELSE CASE status = "available" -> "unplugged"
           [] status = "occupied" -> "plugged"
           [] OTHER -> "unclear"

TransactionTone(status) ==
    CASE status \in {"starting", "active", "suspended", "ending"} -> "waiting"
      [] status = "failed" -> "destructive"
      [] status = "rejected" -> "warning"
      [] OTHER -> "neutral"

TransactionField(t) ==
    IF ~There(t) THEN [value |-> "none", tone |-> "neutral"]
    ELSE [value |-> t.currentStatus, tone |-> TransactionTone(t.currentStatus)]

ConnectorIssue(status, t) ==
    CASE status = "faulted" -> "faulted"
      [] status # "faulted" /\ There(t) -> IF t.currentStatus \in {"failed", "rejected"}
                                                THEN t.currentStatus ELSE Nothing
      [] OTHER -> Nothing

ConnectorCard(runtime, state, c) ==
    LET status == IF c \in DOMAIN state.connectorStatuses
                    THEN state.connectorStatuses[c].currentStatus ELSE Nothing
        t == SelectTransaction(state, c)
    IN  [badge |-> StatusBadge(runtime, status), plug |-> PlugStatus(runtime, status),
         transaction |-> TransactionField(t),
         meterWh |-> IF Has(t, "meterWh") THEN <<t.meterWh>> ELSE Missing,
         actions |-> ConnectorActions(runtime, status, t), issue |-> ConnectorIssue(status, t)]

----------------------------------------------------------------------------
(* The header: chargingPointDetailHeader.  query is "loading", "error" or    *)
(* "success".                                                                *)

BootSummary(runtime, fallback) ==
    CASE Read(runtime, "bootStatus") = "Accepted" -> <<"accepted">>
      [] Read(runtime, "bootStatus") = "Pending" ->
            IF Has(runtime, "retryAfterSec") THEN <<"pending", runtime.retryAfterSec>>
            ELSE <<"pending">>
      [] OTHER -> <<fallback>>

SessionItem(runtime, state) ==
    LET s == state.sessionStatus
    IN  CASE ~There(s) /\ runtime.status = "stopped" -> [label |-> "not opened", tone |-> "neutral"]
          [] ~There(s) /\ runtime.status # "stopped" ->
                [label |-> IF runtime.status = "starting" THEN "connecting" ELSE "waiting",
                 tone |-> "waiting"]
          [] There(s) ->
                CASE s.currentStatus = "online" -> [label |-> "online", tone |-> "success"]
                  [] s.currentStatus = "reconnecting" -> [label |-> "reconnecting", tone |-> "warning"]
                  [] OTHER -> [label |-> "offline",
                               tone |-> IF Read(s, "reason") = "reconnect_exhausted"
                                          THEN "destructive" ELSE "neutral"]

\* The line of the session in the summary also tells the attempt or the reason.
SessionDetail(s) ==
    CASE There(s) /\ s.currentStatus = "reconnecting" -> Given(s, {"attempt"})
      [] There(s) /\ s.currentStatus = "offline" ->
            IF Has(s, "reason") THEN Given(s, {"reason"}) ELSE [reason |-> "not told"]
      [] OTHER -> <<>>

SessionLine(runtime, query, state) ==
    IF ~There(runtime)
      THEN IF query = "loading" THEN [label |-> "loading", tone |-> "waiting"]
           ELSE [label |-> "unknown", tone |-> "warning"]
      ELSE Spread(SessionItem(runtime, state), SessionDetail(state.sessionStatus))

BootItem(runtime, query) ==
    IF query = "loading" THEN <<"loading">>
    ELSE IF ~There(runtime) THEN <<"unknown">>
    ELSE BootSummary(runtime, CASE runtime.status = "stopped" -> "not started"
                                [] runtime.status = "starting" -> "waiting"
                                [] OTHER -> "unclear")

BootTone(runtime, query) ==
    IF query = "loading" THEN "waiting"
    ELSE IF ~There(runtime) THEN "warning"
    ELSE IF Read(runtime, "bootStatus") = "Accepted" THEN "success"
    ELSE IF Read(runtime, "bootStatus") = "Pending" \/ runtime.status = "starting" THEN "waiting"
    ELSE "neutral"

RuntimeSummary(runtime, query, state) ==
    [boot |-> BootItem(runtime, query), bootTone |-> BootTone(runtime, query),
     sessionLine |-> SessionLine(runtime, query, state), lastIssue |-> state.recentIssue]

PointItem(runtime, state) ==
    IF ~There(state.chargingPointStatus)
      THEN IF runtime.status = "stopped" THEN "not synchronized" ELSE "waiting"
      ELSE state.chargingPointStatus.currentStatus

CountOf(items, status) == Cardinality({k \in DOMAIN items : items[k].currentStatus = status})

ConnectorSummary(count, runtime, state) ==
    LET items == state.connectorStatuses
        synced == Cardinality(DOMAIN items)
    IN  IF runtime.status = "stopped" THEN [total |-> count]
        ELSE IF synced = 0 THEN [total |-> count, waiting |-> TRUE]
        ELSE [total |-> count, synced |-> IF synced < count THEN synced ELSE count,
              counts |-> [s \in {"available", "occupied", "unavailable", "faulted"} |->
                             CountOf(items, s)]]

TransactionSummary(runtime, state) ==
    LET items == state.transactionStatuses
        active == Cardinality({k \in DOMAIN items : IsActive(items[k])})
    IN  IF runtime.status = "stopped" THEN <<"none">>
        ELSE IF DOMAIN items = {} THEN <<"no data", runtime.status>>
        ELSE <<"counts", active, CountOf(items, "suspended"), CountOf(items, "failed"),
               CountOf(items, "rejected"), IF active = 0 THEN CountOf(items, "ended") ELSE 0>>

Loading(query) ==
    [main |-> query, operable |-> query, issue |-> IF query = "loading" THEN Nothing ELSE "unknown",
     action |-> [kind |-> "start", disabled |-> TRUE]]

Stopped(count) ==
    [main |-> "stopped", operable |-> IF count > 0 THEN "startable" ELSE "no connector",
     boot |-> <<"not started">>, action |-> [kind |-> "start", disabled |-> count = 0]]

Active(runtime) ==
    [main |-> runtime.status, operable |-> runtime.status,
     boot |-> BootSummary(runtime, IF runtime.status = "starting" THEN "waiting" ELSE "unclear"),
     action |-> [kind |-> "stop", disabled |-> FALSE]]

DetailHeader(count, runtime, query, state) ==
    Spread(RuntimeSummary(runtime, query, state),
    IF query = "loading" THEN Loading("loading")
    ELSE IF query = "error" \/ ~There(runtime) THEN Loading("error")
    ELSE Spread([session |-> SessionItem(runtime, state), point |-> PointItem(runtime, state),
                 connectors |-> ConnectorSummary(count, runtime, state),
                 transactions |-> TransactionSummary(runtime, state),
                 issue |-> state.recentIssue],
                IF runtime.status = "stopped" THEN Stopped(count) ELSE Active(runtime)))

----------------------------------------------------------------------------
(* What the view shows after every short history of one connector *)

Point == [scope |-> "chargingPoint"]
Gun == [scope |-> "connector", evseId |-> 1, connectorId |-> 1]
Charge(id) == [scope |-> "transaction", evseId |-> 1, connectorId |-> 1, transactionId |-> id]
Lifecycle(status) ==
    Spread(LifecycleEvent("starting", status, <<>>, 0), [resource |-> Point])
Change(type, resource, status) ==
    [type |-> type, resource |-> resource, previousStatus |-> "other", currentStatus |-> status,
     occurredAt |-> 0]
Reading(id, wh) ==
    [type |-> "transaction.meterValue", resource |-> Charge(id), meterWh |-> wh, sampledAt |-> 0,
     occurredAt |-> 0]

ShortEvents ==
    {Lifecycle("stopped"), Lifecycle("running")}
        \cup {Change("connector.status", Gun, s) : s \in {"available", "occupied", "faulted"}}
        \cup {Change("transaction.status", Charge(id), s) :
                 id \in {"t1", "t2"}, s \in {"active", "ended", "rejected"}}
        \cup {Reading("t1", wh) : wh \in {1, 2}}

\* The events of a history, each at its own time, and what they are folded into.
Histories == UNION {[1..n -> ShortEvents] : n \in 0..4}
At(h, i) == [h[i] EXCEPT !.occurredAt = i]
Projected(h) ==
    LET fold[i \in 0..Len(h)] ==
            IF i = 0 THEN EmptyProjection ELSE ReduceRuntimeProjection(fold[i - 1], At(h, i))
    IN  fold[Len(h)]

\* The events of the actor's last run: those after the last "stopped".
SinceStop(h) ==
    {i \in 1..Len(h) : \A j \in i..Len(h) :
        ~(h[j].type = "chargingPoint.lifecycle" /\ h[j].currentStatus = "stopped")}
LastOf(I) == CHOOSE i \in I : \A j \in I : j <= i

\* An item is shown exactly when the run had an event of it, with the status of the
\* last status event; a reading never changes a status, a status never a reading.
ShowsLastStatus ==
    \A h \in Histories :
        LET p == Projected(h)
            guns == {i \in SinceStop(h) : h[i].type = "connector.status"}
            statuses(id) == {i \in SinceStop(h) :
                               h[i].type = "transaction.status" /\ h[i].resource = Charge(id)}
            readings(id) == {i \in SinceStop(h) :
                               h[i].type = "transaction.meterValue" /\ h[i].resource = Charge(id)}
        IN  /\ DOMAIN p.connectorStatuses = {ConnectorKey(Gun) : i \in guns}
            /\ guns # {} => p.connectorStatuses[ConnectorKey(Gun)].currentStatus
                                = h[LastOf(guns)].currentStatus
            /\ DOMAIN p.transactionStatuses
                  = {<<id>> : id \in {x \in {"t1", "t2"} : statuses(x) \cup readings(x) # {}}}
            /\ \A id \in {"t1", "t2"} :
                  /\ statuses(id) # {} => p.transactionStatuses[<<id>>].currentStatus
                                             = h[LastOf(statuses(id))].currentStatus
                  /\ statuses(id) = {} /\ readings(id) # {} =>
                        p.transactionStatuses[<<id>>].currentStatus = "active"
                  /\ readings(id) # {} => p.transactionStatuses[<<id>>].meterWh
                                             = h[LastOf(readings(id))].meterWh
                  /\ statuses(id) \cup readings(id) # {} =>
                        p.transactionStatuses[<<id>>].occurredAt
                            = LastOf(statuses(id) \cup readings(id))

\* The page's state is what the hub projected, unless the point is stopped.
PageShowsProjection ==
    \A h \in Histories, s \in {"running", "starting", "stopped"} :
        PageState(RuntimeSnapshot(RuntimeStatusResponse(s), Projected(h)))
            = IF s = "stopped" THEN EmptyProjection ELSE Projected(h)

\* A card offers to stop a charge exactly when its connector has one under way, and
\* then nothing else; it never offers to start while it shows the last charge as
\* active; it never shows a refused one.
CardsOfferWhatCanBeDone ==
    \A h \in Histories, runtime \in {"unknown", "starting", "running", "stopped"} :
        LET p == Projected(h)
            card == ConnectorCard(runtime, p, ConnectorKey(Gun))
            under == \E k \in DOMAIN p.transactionStatuses : IsActive(p.transactionStatuses[k])
        IN  /\ card.actions # {} => runtime = "running"
            /\ "stopCharging" \in card.actions <=> runtime = "running" /\ under
            /\ "stopCharging" \in card.actions => card.actions = {"stopCharging"}
            /\ card.transaction.value # "rejected" /\ card.issue # "rejected"

\* The header's action fits the runtime status, whatever else is shown: a point can
\* be stopped exactly when it starts or runs, and be started only when it is stopped
\* and has a connector.
HeaderOffersWhatCanBeDone ==
    \A s \in {"running", "starting", "stopped"}, query \in {"loading", "error", "success"},
       count \in 0..1, p \in {Projected(h) : h \in {x \in Histories : Len(x) <= 2}} :
        LET header == DetailHeader(count, RuntimeStatusResponse(s), query, p)
        IN  /\ header.action = [kind |-> "stop", disabled |-> FALSE]
                  <=> query = "success" /\ s # "stopped"
            /\ header.action = [kind |-> "start", disabled |-> FALSE]
                  <=> query = "success" /\ s = "stopped" /\ count > 0

\* The envelope carries everything the hub reads of an event.
EnvelopeCarriesWhatIsRead ==
    \A e \in {x \in ShortEvents : x.type \in DOMAIN Carried},
       extra \in {<<>>, [error |-> "failed"], [reason |-> "told"]} :
        LET given == Spread(e, extra)
        IN  ReduceRuntimeProjection(EmptyProjection, RouteRuntimeEvent(given))
                = ReduceRuntimeProjection(EmptyProjection, given)

\* The log keeps the newest FeedLimit entries, the newest first.
FeedKeepsTheNewest ==
    LET newest(n) == [i \in 1..(IF n < FeedLimit THEN n ELSE FeedLimit) |-> n + 1 - i]
    IN  \A n \in 0..FeedLimit + 2 : PrependAndLimit(newest(n), n + 1) = newest(n + 1)

ASSUME ViewIsRight ==
    /\ ShowsLastStatus
    /\ PageShowsProjection
    /\ CardsOfferWhatCanBeDone
    /\ HeaderOffersWhatCanBeDone
    /\ EnvelopeCarriesWhatIsRead
    /\ FeedKeepsTheNewest

=============================================================================
