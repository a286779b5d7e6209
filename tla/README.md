# SparkBee: a verification development

SparkBee simulates charging points that speak OCPP 1.6J to a central system
(CSMS) over a WebSocket: an actor per point, a server that keeps points and
their actors, and a web page that shows them. This directory holds TLA+ models
of it, the TLC configurations that check them on small instances, and TLAPS
proofs about them. Paths are relative to the repository; `CPA` is
`packages/charging-point-actor/src`, `RT` is `CPA/protocol/runtime/ocpp16`,
`SRV` is `apps/server/src` and `WEB` is `apps/web/src/features/charging-points`.

## 1. The system

| component | where | state | operations |
|---|---|---|---|
| Transport | `CPA/protocol/transport` | WebSocket, lifecycle state, connect and disconnect deferreds, connect timer | connect, disconnect, send; socket open, error, close, message |
| Session connection | `CPA/protocol/session/internal/Session*.ts` | lifecycle state, reconnect timer and attempt count, connect promises | connect, disconnect, transport lost, reconnect attempt |
| Outbound requests | `CPA/protocol/session/internal/{Outbound,Pending}*.ts` | serial queue, request in flight, pending map with timers | request, reply, timeout, disconnection |
| Inbound requests | `CPA/protocol/session/internal/Inbound*.ts` | contexts by message id, timers | validate, register, respond, timeout, invalidation |
| Codec and validator | `CPA/protocol/{codec,validator}` | none (schemas) | encode, decode, validate |
| OCPP 1.6 runtime | `RT/Ocpp16Runtime.ts`, `RT/state.ts`, `RT/connectorSelection.ts`, ... | the context: charging point, transactions, outbox, loops, authorization data, configuration, clock | the actions and commands below |
| Transaction delivery | `RT/Ocpp16TransactionDelivery.ts`, `RT/OfflineTransactionOutbox.ts`, `RT/actions/{transactionStart,stopTransaction,meterValues,offlineTransactionReplay}.ts` | transactions, EVSE bindings, outbox records, meter loops | start, stop, report, replay |
| Connectors | `RT/actions/{connectorActions,connectorStatus}.ts`, `RT/commands/{changeAvailability,unlockConnector}.ts` | plug, lock, availability, scheduled availability | plug, unplug, change availability, unlock |
| Status reports | `RT/events.ts`, `RT/actions/statusNotification.ts`, ... | none of its own: what coroutines captured | StatusNotification, events |
| Boot and heartbeat | `RT/actions/{boot,heartbeat}.ts`, `RT/protocolClock.ts` | registration, interval, the loop and its count of failures, clock offset | boot, heartbeat, tick |
| Authorization | `RT/Ocpp16AuthorizationPolicy.ts`, `RT/actions/authorization.ts`, `CPA/model/authorization` | grants, cache, local list | authorize, review, list and cache commands |
| Configuration | `RT/configuration`, `CPA/model/configuration` | typed key/value entries | get, change, synchronise from a boot |
| CSMS commands | `RT/commands`, `RT/RemoteCommandPolicy.ts` | none of their own | one handler per command |
| Domain model | `CPA/model` | immutable connectors, EVSEs, points, transactions, lists | one method per change |
| Actor lifecycle | `CPA/chargingPointActor` | status, boot retry timer, start-up phase | start, stop, dispose; online and offline |
| Server: runtime operations | `SRV/modules/runtimeOperation`, `SRV/lib/chargingPointActorRegistry.ts` | the registry of actors | start, stop, status, snapshot, commands |
| Server: event streams | `SRV/lib/chargingPointEventStreamHub.ts` | subscribers and one projection per point | attach, publish, subscribe, delete |
| Server: resources | `SRV/modules/{chargingPoint,connector}`, `SRV/db` | rows of points and connectors | create, change, delete, list |
| Web | `apps/web/src` | query cache, stream, runtime view reduced from events | the detail page and its buttons |
| Contracts | `packages/contracts/src` | none (schemas) | what requests and answers may contain |

How they interact: the server keeps one actor per running point and calls it;
the actor owns a session and a runtime. The runtime calls `session.request` and
awaits; the session queues requests one at a time (policy "serial"), sends the
head through the transport, and settles it on a reply, a timeout or the loss of
the connection. Session events (online, offline, inbound request) call
listeners of the runtime and of the actor synchronously. Actors publish events,
the hub folds them into a projection and pushes snapshots to the pages. Timers
drive heartbeats, meter values, boot retries, reconnections and timeouts.
Everything in the server runs on one JavaScript thread, so the interleavings are
those of coroutines at their awaits, timers, socket events, database queries and
HTTP requests.

What is hard, and what makes each part correct:

- *Transaction delivery.* A transaction may begin, be metered and stop with or
  without the CSMS. The outbox keeps what is owed, the replay sends it while more
  is added, and the connection may go at each request. No reading or stop may be
  lost or sent before its turn, a start must not be sent again once it was
  answered.
- *Session and transport.* connect and disconnect overlap each other, a
  reconnection and the socket's own events. Every promise given out must settle,
  and a session told to disconnect must not come back.
- *Requests.* A reply may come after the timeout or after a reconnection. Each
  request settles once, the queue goes on, a call is answered once.
- *Actor, boot and heartbeat.* A start is a connect, a boot and its retries;
  stop may come at any point of it, and the heartbeat loop must follow whatever
  interval and registration came last.
- *Connectors and their reports.* Plug, availability and transaction are
  separate fields that several operations change on both sides of an await, and
  the reports of them wait in a queue while they change on.
- *Authorization.* Cache, list, grants and configuration decide together, and
  differently offline; a review of a local decision comes later.
- *Server and page.* Start, stop and deletion of one point overlap, each over
  several awaits; answers, snapshots and events reach the page by three ways.
- *Resources.* A request checks rows and writes later; only the unique indexes
  hold in between.

## 2. Modules

| module | models | extends |
|---|---|---|
| `OfflineTransactionOutbox` | the outbox records and their methods | |
| `TransactionDelivery` | start, report, stop, replay over a serial queue and a connection that fails | `OfflineTransactionOutbox` |
| `Transport` | `WebSocketTransport` and its lifecycle machine | |
| `SessionConnection` | the session's lifecycle over the transport | `Transport` |
| `ConnectionContract` | what a session promises its owner (abstract) | |
| `ActorLifecycle` | the actor over the session | `SessionConnection` |
| `Frames` | the codec, the validator, the routing of frames | |
| `SessionMessaging` | requests and calls over connections | `Frames` |
| `ConnectorOperations` | connectors, availability and the transactions on them | |
| `StatusReports` | what the CSMS and the web are told of them | `ConnectorOperations` |
| `Authorization` | who may charge, and the reviews | |
| `Configuration` | entries, catalog, store, Get- and ChangeConfiguration | |
| `HeartbeatLoop` | boots, intervals and loops | `Configuration` |
| `Records` | objects with absent properties | |
| `DomainModel` | the immutable resources and their methods | `Records` |
| `ConnectorSelection` | which connector an operation may use | `DomainModel` |
| `CommandAnswers` | what each command answers and does after it | `ConnectorSelection` |
| `OperationResults` | a result on its way from the runtime to the HTTP answer | `ConnectorSelection` |
| `ProtocolClock` | the clock that boots and heartbeats set | `Records` |
| `PointResources` | rows, requests and queries of the server | `DomainModel` |
| `RuntimeOperations` | registry, hub, start, stop, deletion | |
| `ChargingPointPage` | one page over the server | `RuntimeOperations` |
| `RuntimeView` | events, projection, snapshot, cards, header | `Records` |

`MCTransactionDelivery`, `MCAuthorization`, `MCStatusReports`,
`MCChargingPointPage` and `MCPointResources` add symmetry for TLC and bring
together the modules a run evaluates; the `*Proofs` modules hold the proofs, those
of `DomainModel`, `RuntimeView` and `Configuration` in the modules that build on
them (`PointResourcesProofs`, `HeartbeatLoopProofs`), those of `ActorLifecycle` in
`SessionConnectionProofs` and those of `StatusReports` in
`ConnectorOperationsProofs`.

All share one reading of the program. An action is what the thread runs between
two awaits, or the whole of a callback. A coroutine that waits is a place (`pc`,
`at`, `stop[s]`, ...) together with what its promise has brought. What runs as a
microtask runs before the next socket event, timer or call, which is a guard of
those (`Quiet`, `AllQuiet`, `Settled`). Pure code is operators, and what must
hold of it for all inputs of a bounded set is an ASSUME that TLC evaluates in
the run named below. PROJECT.json maps each definition to its lines.

**Transaction delivery.** `outbox` is the map of records, `tx` and `evse` the
transactions and bindings of the context, `queue` the requests in the session's
serial queue with the coroutine that waits for each, `aborted` those that the
loss of the connection has rejected, `replay` the one replay, `log` what the
CSMS has received. `lost` and `deauthorized` are history variables: the readings
that were refused or timed out, and the transactions whose refused start the
replay ended. `StopTransactionOnInvalidId` is the set of values that key, TRUE by
default, may have when a refused start reads it: the CSMS may change it at any
time, and both runs allow both. The list of the replay is a copy
(`listPendingOfflineTransactions` clones), so the replay works on `snap` while
reports and stops go on changing `outbox`. The plug and authorization conditions
of a start are left out here: a start that they refuse changes nothing.

**Transport, session, actor.** `Transport` has the two deferreds, the socket's
`readyState`, the connect timeout, and the microtask with which `handleError`
judges an error. `SessionConnection` adds the five phases, the reconnect timer
and the continuations of `runInitialConnect`, `runAttempt` and `runDisconnect`; a
continuation whose operation was replaced is not `live`. `intent` is a history
variable: the last call that the session accepted. `ActorLifecycle` puts
`start`, `stop`, `dispose` and the boot retries into slots; a step of the session
and the actor's listener for its event are one step (`SessionReaction`), as the
emitter calls it synchronously.

**Messages.** `inFlight` is the request in flight with the outcome of its promise
and whether the caller was told; that the `finally` of `processQueue` runs a
microtask later is `FreeInFlight`. `inbound` holds the contexts that calls
opened; `RemoteStartTransaction` may ask `Authorize` before it answers, so a call
can wait for a request across a disconnection. A payload that fails validation,
of a call or of its reply, is answered through `CallError` and `Encode` of
`Frames`, with the details that the code passes. In `Frames` a value is its
JavaScript kind and length; `SentIsReceived`, `ReceivedCouldBeSent` and
`SentIsRouted` say that encoding and decoding are inverse on every message at
the boundaries of the fields.

**Connectors and reports.** A start checks a connector and then waits for the
CSMS without reserving it; a stop ends the transaction first and applies the
deferred availability two requests later. `wanted` is a history variable: the
last `ChangeAvailability`. `StatusReports` adds the requests in flight with what
their coroutines captured, what the CSMS was told, and what events have shown
the web.

**Authorization.** A grant is kept per tag and EVSE; `flights` are the requests
that wait for the CSMS with what each does when it is answered, `word` is a
history variable: what the CSMS last said of a tag. A status is accepted or
not, time is a small number against expiry dates.

**Boot, heartbeat, configuration.** `closures` holds what each loop's closure
counts, because a heartbeat of a replaced loop still ends in its closure. The
start-ups, boot retries and triggered boots of the actor share one serial `queue`
with the heartbeats; a heartbeat that was accepted then waits in `replaying` for
the replay of offline transactions, since `heartbeat.ts` counts one whose replay
throws as failed. `silenced` is a history variable: why the actor has no loop.
`Configuration` has the typed values, ranges and selectors of entries and the
keys that OCPP 1.6 lays over them; `HeartbeatLoop` uses its store for
`HeartbeatInterval`. The clock is in `ProtocolClock`.

**Server and page.** One point is enough, as points share nothing. `ops` are the
HTTP requests under way with their place, `registered` the actor in the
registry, `attached` and `projection` the hub's; `robbed` and `overlapped` are
history. The page is one record: its stream, the snapshots that wait on it, the
query cache that answers also write, and what it shows. `RuntimeView` gives the
data: every event the runtime can publish, the projection of the hub, the
snapshot and what the page makes of it.

**Resources.** A request is a coroutine that makes one query after the other; a
transaction is one step. Rows are in the order of their insertion. What a start
makes of the rows (`ToEvses`, then the runtime's own check) is part of the model,
because it is what stored rows have to satisfy.

## 3. Runs

| run | instance | distinct states | shows |
|---|---|---|---|
| `delivery_offline` | 2 starts, 1 connector, 2 readings each, 1 fault, `StopTransactionOnInvalidId` TRUE or FALSE at each refusal | 914 000 | `ReplayedMeansReceived`, `ReadingsAccounted`, `ReadingsInOrder`, `OfflineStartsInOrder`, `OfflineStopAfterReadings`, `NoSecondStart` |
| `delivery_replay` | 1 start, 2 readings, 2 faults, 1 change of the sample interval, `StopTransactionOnInvalidId` likewise | 88 000 | `StopsAccounted`, `EvseNamesActive`, `OutboxDrains` |
| `session` | 2 retries, `close` may throw | 336 | `TransportConsistent`, `PhaseHasDriver`, `SocketFollowsSession`, `WishRespected`, `ImplementsContract`, `DisconnectEnds`, `WantedComesOnline` |
| `actor` | 2 coroutines, 1 connector, unlimited retries | 24 000 | `StoppedIsSilent`, `StartingIsServed`, `StartingEnds` |
| `messaging` | 1 request, 2 calls, 3 connections | 301 000 | `QueueMoves`, `NothingOutlivesItsConnection`, `AnsweredOnceWhereItCame`, `RequestsSettle` |
| `messaging_refused` | 1 request, 1 call | violation | `RefusedCallsAreAnswered` |
| `authorization` | 1 tag, 1 EVSE, 2 requests waiting | 1 570 000 | `CacheIsWhatCsmsSaid`, `ReviewRefusalStops` |
| `reports` | 1 connector, 2 starts, 2 requests waiting | 3 980 000 | `ShownAsItIs`, `RunningIsShown`, `ToldAsItIs`, `LastCommandDecides`, `OnlyOfflineEndsForget`, `NeverInterrupted` |
| `page` | 2 actors, 2 requests, 1 snapshot waiting | 2 650 000 | `OnlyFailedStartsLose`, `RegisteredIsUsable`, `PageFollows`, `ButtonFollows` |
| `page_registered` | the same, 1 actor in the counterexample | violation | `RegisteredIsActive` |
| `heartbeat` | 4 loops, 3 requests under way, intervals 0 to 2, threshold 2 | 1 047 000 | `LoopBeatsAsConfigured`, `RunningActorBeats`, `SilenceIsNoticed` |
| `resources` | 2 requests, 2 connectors ever created, numbers 1 to 3 of which 3 is too large for its column | 5 510 000 | `StoredPointsStart`, `OnlyTheOvertakenErr` |

Five runs also evaluate the assumptions about pure code: `authorization` those of
`DomainModel`, `page` those of `RuntimeView` (every history of up to four of 13
events), `resources` those of `ConnectorSelection`, `CommandAnswers`,
`OperationResults` and `ProtocolClock`, and `messaging` those of `Frames`;
`heartbeat` those of `Configuration`.

*Why the bounds are enough.* Two transactions on one connector are the least that
can be confused by a binding, and two readings the least that can be reordered;
one fault falls before, in or after each request of the replay, two cut a replay
short twice. `MaxFaults` counts disconnections, timeouts and CALLERRORs,
`MaxSamples` readings of one transaction, `MaxRestarts` changes of
`MeterValueSampleInterval` (with none in `delivery_offline`, as two reports of a
transaction overlap after a change and may arrive in either order). The session
is finite without bounds but for `MaxRetries`, and runs with limited attempts so
that it also gives up; the actor uses the default, unlimited. Two slots pair
every two of start, stop, dispose and retry at every await; `StoppedIsSilent` has
also been checked once with three slots and a socket whose `close` throws
(475 125 states). A request and two calls that
ask give one request in flight, two queued, and a call open while another asks;
three connections let anything cross two disconnections. `MaxFlights` bounds the requests that wait when a new one is made;
two are a request and one that overtakes its subject. One tag on one EVSE is
enough where grants are kept per pair, and two slots of requests overlap any two
decisions about it. Two actors are one and its successor; two requests overlap
every two operations of the server. Three requests under way are a heartbeat of a
replaced loop, the boot that overtakes a start-up and that start-up's reports; a
loop more than requests is always free to be named. Two connectors can collide on a number,
and the third number is the one the schema lets through and the column does not.
`MaxInbox`, `MaxTime`, `MaxVersion`, `MaxRows`, `MaxBeats` and `MaxOthers` bound
what their comments say.

*Deadlock* is checked for the session and the heartbeat loop. Elsewhere the system
may stop: a disposed actor, a deleted point, and the bounded counts of requests,
calls, faults and connections are used up.

## 4. Fairness

- *Delivery* (`FairSpec`): the connection is retried, a boot and a heartbeat are
  answered, a request that was sent is answered or fails, and a coroutine that
  can resume does. Faults are bounded, so in the end the CSMS is reachable. This
  is the reconnect timer, the boot retry timer and the heartbeat interval of
  the code; that the CSMS answers is an assumption.
- *Session* (`LiveSpec` of `SessionConnection`): microtasks run, timers fire, and
  a socket that was told to close does emit `close`. Two strong conditions say
  that a socket can be constructed and opens again and again, which is what "the
  CSMS is reachable" means; strong, because a connection that is lost in between
  disables them for a while.
- *Actor* (`ActorLiveSpec`): the session's conditions, lifted to the steps that
  include the actor's listeners, coroutines that resume, the boot retry timer
  (strong: other turns of the event loop disable it for a while), and a CSMS that
  accepts boots often enough (`Accepting`). `CloseThrows` is FALSE: the socket in
  use does not throw for `close(1000)`.
- *Messages* (`LiveSpec` of `SessionMessaging`): microtasks run, handlers resume,
  and the request in flight is ended by its timer if by nothing else.
- *Heartbeat* (`Spec` of `HeartbeatLoop`): requests are answered or time out,
  replays end by returning or by throwing, and a timer that stays set fires (strong,
  as the promises of other events go first).

Nothing assumes that a call of the user, of the server or of the CSMS is made.
The other specifications state no fairness and are checked for safety only.

## 5. Proofs

TLC checks the instances above; TLAPS proves these for every value of the
constants.

*Delivery* (`TransactionDeliveryProofs`: `TypeCorrect`, `Invariance` and its
corollaries). That a reading marked
as replayed was received is not inductive: the mark is made from the replay's
copy when an answer arrives. `IInv` adds what each request in the queue is about
(`RequestsMatched`: the request the replay waits for carries the reading its
index points to), that a record is kept once it was made (`RecordsKept`), that
the readings that reports carry are those that were taken (`ReportsKnown`), and
that the copy is never ahead of the outbox, entry by entry (`CopyIsOlder`), since
the outbox only appends and marks. From it follow `OutboxTellsTheTruth`,
`NoReadingDisappears` and `OneReplay`. The constants are what `IdsAssumption`,
`ConfigurationAssumption` and `BoundsAssumption` say: local and CSMS identifiers
that differ from each other and from `None`, Boolean keys, of which
`StopTransactionOnInvalidId` may be fixed or change, natural bounds.

A second invariant, `Owed`, is inductive given `IInv`: a start that is sending waits for
a `StartTransaction`, so that its answer carries an id no transaction has
(`StartsMatched`); a stop belongs to nobody before its transaction ends
(`StopsOwned`); the replay takes records that are kept, holds copies that agree
with the outbox on what is started, and is the only one that asks for the start of
a transaction the point has (`TakesKept`, `OwnStarts`). From it follow
`EveryStopIsOwned`, `EvsesAreReleased` and `StartedOnce`, the last an action
property.

Four more invariants are about orders, each inductive given those before it.
`Turns` is behind `StartedInOrder`: nothing began after the clock's time
(`ClockAhead`), the replay asks for the start of the record it is at
(`StartAsked`), what the outbox holds as started was received
(`StartedIsReceived`), and what began before the record whose start is asked for is
started, what began before one the replay will come to is started or taken first
(`InTurn`). `Copied` says whose each reading and stop in the queue is, and that
the marks in the outbox are those of the replay's copy but for the readings the
replay has been through (`CopyExact`). `StopsLast` rests on it: the replay asks for
the stop of a record only when that has no reading left to send (`CopyStops`), and
a transaction whose stop was received has ended, so that it gets no more
(`StopsTold`, `ReportsRunning`). It speaks of the transactions that the replay has
not deauthorized (`Tolerated`; a refused start that is tolerated is among them),
and since `deauthorized` only grows (`DeauthorizedGrow`) none comes back into its
scope. So `StopsComeLast` assumes nothing of the key, and excepts only a
transaction that the replay has deauthorized: section 6 says why it must.

`ReadingsSound` is behind `ReadingsComeInOrder`. A report that waits is of the
latest reading, and while it does the outbox and the replay have nothing of its
transaction to send (`LatestReport`); it waits once (`Single`). This is so as a loop
awaits its report before the next tick (`reporting`) and `ShouldQueue` sends a
reading to the outbox behind those it holds. What the outbox holds is in order
(`RecordsOrdered`), and what was received is no later than what is still to be sent
(`Earlier`); a request carries the first of that (`RequestEarlier`, from `CopyExact`).
`Affects` lists the eight ways in which a step may change one transaction, and each
conjunct follows one way at a time. The loop of a start begins only after a
StatusNotification; that nothing was read before is `NotifiedUnread`. The theorem
assumes `MaxRestarts = 0`: a restarted loop does not wait for the report before it
(section 6).

*Session* (`SessionConnectionProofs`). The four invariants are inductive only
together with `OperationsNamed` (which continuation and timer may exist in which
phase) and `ContinuationsTold` (a continuation waits for a promise that is
pending or has been told what the transport did). The argument goes by turns: a
step of the transport keeps the transport sound and tells continuations, a step
of the session uses what they were told. `KeepsContract` proves the step
simulation that `ImplementsContract` states: each phase maps to offline,
reconnecting or online, `intent` to `wanted`, and each step to one of the contract
or to a stutter.

*Actor* (in the same module, for any number of coroutines). A stopped actor is
silent because of what lies between the two: from the time a coroutine has
stopped the runtime until it finds the session disconnected nothing starts the
runtime again (`LeavingInv`), as a coroutine that was told of its request has been
told the truth and goes on before the session does (`ToldInv`); the one stopped
actor that is not silent is at the reports of a start-up that the stop did not
end, and will be running (`SilenceInv`). `StartIsServed` adds that no coroutine
that leaves is refused. It assumes that `close(1000)` of the socket in use does
not throw (`~CloseThrows`) and that the attempts are unlimited, the default of
`SessionReconnectPolicy.ts:28`, which nothing in the application overrides.

*Connectors* (`ConnectorOperationsProofs`), for any number of connectors and
starts, where the run has one and two. `StepsOfAConnector` says in which ways a
step may change one connector; `CommandsDecide` and `ConnectorsAreNotInterrupted`
follow one way at a time. `OnlineStopsApply` says when a deferred command may be
forgotten: only when a transaction that began offline ended, by a stop the CSMS
was not told of or by the replay, on the connector. Its strengthening is that a
stop is of an ended transaction (`StopsOfTheEnded`); `AwaitedUntilApplied` and
`OfflineEndsStay` follow what keeps a command waiting through each step.

*Reports* (in the same module). Every step of `StatusReports` is a step of
`ConnectorOperations` (`ReportsAreOperations`), so what is proved of the operations
holds under the reports. For the three properties of what the web and the CSMS are
told, the state alone is not enough: that a connector is shown as it is, or that a
coroutine which waits will find that it is not, is `ShownInv`; `ToldInv` says the
same of the CSMS, with the last report of the connector that waits; `RunningInv`
orders the event that a transaction charges before the one that it ended. `Moves`
gives each step one form, the first request settles or not and one is made or
not, and `Effect` what such a step does to each of the three. `ReportsAssumption`
says that `ConnectorIds` lists the connectors, each once.

*Authorization* (`AuthorizationProofs`). `CacheHoldsAnswers` needs that a grant
which is marked as taken from the cache repeats it, through every continuation
that captured one. `RefusedTagsDoNotCharge` needs to count the starts under way
on each EVSE (`StartsShift`), as the review stops only the transaction it finds:
two starts that overlapped are the one exception, and the history variable
`overlapped` names it.

*Server* (`ChargingPointPageProofs`). `ActorsAreReleased` says for any number of
actors and requests that an actor that is not disposed is registered, held by a
request that will dispose of it, or was taken out by the failed start of
another (`robbed`); `RegistryHandsOutLive` that a request never finds one that is
disposed or about to be. Both follow from who holds an actor at each place of a
request.

*Page* (in the same module). `PageShowsTheServer` and `ButtonActsOnWhatIs` need
what the hub knows of the registry: it listens to the registered actor, or to one
that is stopped or that a stop is about to, and lets go of an actor before that is
disposed of (`LinkedInv`, `AttachedInv`). A step of the server that publishes
nothing leaves hub and snapshot among what was known (`Effect`); the page then
shows the last snapshot it heard or has on its way (`FollowInv`). Both claim
nothing while a stop is under way, and nothing more once `overlapped`.

*Messages* (`SessionMessagingProofs`), for any requests, calls and connections.
The outbound half of the invariant (`Lined`) says of the queue and the request in
flight what `processQueue` needs before and after it runs: no request is there
twice, a promise is pending exactly for what is queued or in flight and has not
been told, and what waits is on the connection that is up. The inbound half says
that an open call is of that connection and unanswered. They meet in
`AskedOnce`: a handler asks only for a call that has come. The last conjunct of
`CallsAnsweredOnce` needs `ViolationsAreNotSent`, the assumption about the codec
behind the finding of section 6: a codec that encoded the issues of a refused
reply would let `respond` return as if the acceptance had gone out.

*Heartbeat* (`HeartbeatLoopProofs`), for any loops, intervals and threshold. The
invariant has the closures exactly of the loop and of the heartbeats under way
(`LoopOK`), so that with no more requests than `MaxUnderWay` a name is free for the
next loop (`QueueOK`). `RunningBeats` needs that a
request for the reports of a start-up, which is made before the actor is set
running, already finds the loop or the reason it is gone (`ReportsExplained`), and
that nothing of an earlier connection is left when a session begins
(`OfflineAsksNothing`). One reason is a surprise, the overtaken start-up of
section 6. `ChangeKeepsCatalog` and `SyncKeepsCatalog` are about the store, for
any key and value.

*Resources* (`PointResourcesProofs`), for any requests and rows. A request that
was not overtaken can rely on what it has read (`CreateInv`, `UpdateInv`); a request
overtakes those that wait when it changes the rows. So an internal error is of a
request that was overtaken or of a number no column holds (`OvertakenErrOnly`).
For `StoredStarts` the numbers of one read are apart, because of the unique indices
that each transaction keeps, and `OrdersStrictly` shows that the ranks which
`ToEvses` gives the EVSEs list each of them once. `MethodsKeepTransactions` and
`UpdatesKeepProjection`, also there, state what every sequence of legal methods
keeps: readings that do not go back, an energy that is their difference, one
connector per EVSE.

*Only model-checked*: all liveness, as it needs fairness and `ENABLED`; and what a
fold or a recursion over a sequence computes, which would need induction and is
evaluated on bounded inputs.

## 6. Disagreements and surprises

Two runs refute a statement of the repository:

| run | what the code does | what says otherwise |
|---|---|---|
| `messaging_refused` | A CALLERROR for a call or a reply that failed validation carries the validator's issues (an array) or what it threw (an `Error`) as `errorDetails`, and the codec encodes only plain objects: no such CALLERROR is ever sent. Of the errors of `InboundRequestCoordinator` only the timeout's, with `{}`, can be encoded. | `packages/charging-point-actor/tests/unit/session/InboundRequestCoordinator.test.ts:69` and `:111`, whose codec is a double; the comment at `InboundRequestCoordinator.ts:24` |
| `page_registered` | A boot that is refused in the background, after the start was answered "starting", stops the actor and leaves it registered: the next start answers "stopped" and starts nothing. | `docs/adr/0010-process-local-charging-point-operations.md:3` |

If the codec took the details, a command whose reply failed validation would be
run although it was answered with an error.

The following was met while modelling and is part of the models, without a run
of its own.

*Transactions.* With the default configuration the StopTransaction of an offline
transaction whose replayed start is refused comes before its readings
(`offlineTransactionReplay.ts:66`, against the order that the test at
`Ocpp16Runtime.test.ts:2855` is about). The branch sends the stop and passes over
the readings; they keep the record pending, so that the next heartbeat's replay
sends them after the stop that was answered, then reports the connector as
Charging and starts the meter loop of a transaction that has ended. It takes no
fault. This is why `OfflineStopAfterReadings` excepts `deauthorized`: without
that conjunct TLC finds it violated with `StopTransactionOnInvalidId = {TRUE}` and
`MaxFaults = 0`. The property still binds every other replayed stop, that of an
accepted start and that of a refused one which the key tolerates. After a change of the sample interval two
reports of a transaction overlap, and with `MaxRestarts = 1` TLC finds
`ReadingsInOrder` violated. Two
overlapping starts give one connector two active transactions
(`transactionStart.ts:51`, against `:3478`); an unlock then stops only the first.
`stopOfflineTransaction` and `recordDeauthorizedStop` end a transaction without
applying the deferred availability (`stopTransaction.ts:137`, against `:5595`). A
cable pulled while StartTransaction is awaited leaves a transaction on an
unplugged connector (`connectorActions.ts:107`, against `CONTEXT.md:52`). A
RemoteStop of a number whose binding names an ended transaction is rejected even
if another online transaction has that number.

*Actor and boot.* `stop()` while the session connects or reconnects does not
disconnect it (`Ocpp16ChargingPointActor.ts:155`, against
`Ocpp16ChargingPointActor.test.ts:1488`): a start whose first connect is pending
goes on, boots and starts the loop. A reply that fails is followed by a refusal
that fails too, and nobody awaits it. A ChangeAvailability that is applied while
a start awaits makes an inoperative connector charge. A registration accepted
again makes the point operative over an earlier command.

*Heartbeat.* Late failures of a replaced loop reach its threshold and end the new
loop (`heartbeat.ts:78`). Reaching the threshold only reports a lifecycle error:
nobody reconnects, so no heartbeat is sent until the next "online". A heartbeat
that the CSMS accepted counts as failed if the replay after it throws
(`heartbeat.ts:53`). Of two start-ups that overlap one may fail while the other is
at its reports: its `stopAfterFailure` stops the runtime, the other then sets the
actor "running" without looking (`Ocpp16StartupLifecycle.ts:135`), and it has no
heartbeat loop (`silenced = "overtaken"`). A change of
`HeartbeatInterval` while the registration is not Accepted ends the loop and
answers InternalError although the value is stored. "online" while unregistered
does not restart the loop, and a later triggered boot that is accepted does not
either; one with another interval leaves the loop at the old one. With interval 0
a listener throws on "online" and `retryBoot` is skipped; a negative interval
registers the point before `boot()` throws. The options survive a boot that
completes during the disconnection of `stop()`. Ticks of an unregistered point
are swallowed and never counted.

*Authorization and clock.* A superseded review's refusal is dropped; the expiry in
a StartTransaction answer is not evaluated; a review stops only the first
matching transaction when starts overlapped; online grants survive ClearCache; an
old cache entry decides again after its tag leaves the list. The first time of
the CSMS is accepted however far off, and once synchronised a CSMS whose clock
jumped beyond the threshold is never followed again.

*Reports.* A change of availability under a transaction emits no event, so the web
shows the old one; an unplug is never reported to the CSMS; a replay reports
Charging for a transaction that ended meanwhile or was refused; a refused start
releases the EVSE of an overlapping one. A fault of an EVSE alone is reported
Faulted with error code NoError.

*Server and page.* A failed start removes the actor of another
(`OnlyFailedStartsLose` names this exception); an actor started during another's
stop is never attached to the hub; a stop takes the actor out of the registry
before it has stopped, and if `actor.stop()` throws the viewers stay at "running";
a delete leaves the actor running and beyond reach, and viewers who took the
snapshot before stay open (`CONTEXT.md:96`). The page ignores "deleted" and its
EventSource reconnects into a 404; an event between snapshot and subscription is
missed; late answers overwrite newer snapshots. Connector rows can be edited
while an actor runs on the old numbers (ADR 0009), and a connector created while
its point is soft-deleted leaves an orphan row.

*Answers.* A start of a transaction in a connector state that does not allow it is
answered 502 where 409 is documented (`runtimeOperation.route.ts:265`; authorize
likewise); a racing creation or update of a connector 500 where 409 is
documented (`connector.route.ts:79`, `:122`); a number beyond int4 passes the
schema and fails the insert with 500. `toChargingPointActorOptions`'s 400 becomes
a 502 by `mapStartError` (unreachable while OCPP16J is the only protocol). A
request over 30 seconds gets 504 while the start goes on. A pending boot with a
negative interval is answered 200 with a negative `retryAfterSec`. A read can
show an active point without connectors, deleted between its two queries. A URL
with a bare "?" or "#" passes `normalizeCentralSystemUrl`, though ADR 0009 forbids
query and hash.

*View.* The reducer empties the projection on "stopped" together with that event's
own error; the "rejected" branch of `toConnectorIssue` cannot be reached, so a
refused start is never shown on its card; the first reading of an unknown
transaction shows it as active.

*Frames and values.* A call that repeats an open message id throws inside a voided
promise (`InboundRequestRegistry.ts:27`); an action named like a property of
`Object` is an internal error of the validator. `startEnding` or `end` without a
reason clears the one given before, `markOperative` drops a waiting change of
availability, and an activated transaction that was suspended keeps that
charging state. An accepted change equal to the current value still restarts its
loop, and repeated keys count against `GetConfigurationMaxKeys`.

## 7. Not modelled

- Policy "parallel" of outbound requests: the runtime uses "serial" only. Nor the
  validation of what is asked outbound.
- JSON text and the generated schemas: `Frames` knows whether a payload fits. Calls
  that repeat an open message id.
- Meter arithmetic and electrical values: `DomainModel` keeps readings and their
  difference, not how power is integrated.
- Reservations, and faults of connectors, which nothing in the code sets.
- Crash recovery: outbox, transactions and registry live in memory only, so a
  restart begins from `Init`.
- The order of configuration entries in answers, paged listing, the log file
  writer, the health route, the database engine behind the queries, the list page,
  dialogs, forms and styling, log and trace output.

*Modelled without a property.* `start()` looking neither at the status nor at
disposal after its awaits (`ConnectReturns`, `BootReturns`); ChangeAvailability
applied while StartTransaction is awaited; two reports of one transaction that
overlap after a restart of its loop (`ReadingsInOrder` is checked and proved without
restarts); a request that timed out and is delivered twice by its retry; the
failed StopTransaction of a transaction the CSMS knows, which is given up
(tests at `Ocpp16Runtime.test.ts:1717` and `:1828`).

*Left out of a module, in another one or in none.* `TransactionDelivery`: the
conditions of plug and authorization, which are in `ConnectorOperations` and
`Authorization`. `HeartbeatLoop`: disposal, the clock, the `onHeartbeat` callback;
the reports at start-up are one request. `RuntimeOperations`: reads of rows are
merged into the request's first step, and retries overtaken by a stop are left
to `ActorLifecycle`. `PointResources`: names and URLs, and the first query of a
request is merged with its arrival.

## 8. What is left

1. An abstract at-least-once delivery that `TransactionDelivery` implements.
2. The round trip of `Frames` as theorems.
3. Reports of two connectors, whose instance is out of a five-minute run's reach.
