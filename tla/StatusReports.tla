---------------------------- MODULE StatusReports ----------------------------
(***************************************************************************)
(* What others are told of the connectors and transactions of              *)
(* ConnectorOperations: the StatusNotifications to the CSMS, and the       *)
(* events that ChargingPointEventStreamHub projects for the web.  A step   *)
(* here is a step of ConnectorOperations, or leaves its variables alone,   *)
(* with the requests and events the code makes in it.                      *)
(*                                                                         *)
(* A request waits in the queue of SessionMessaging, so requests settle in *)
(* the order they were made; what the code does after its await is the     *)
(* event that settles it.  The readings of a replay change nothing here    *)
(* and are left out.  An EVSE has one connector and no part of the web     *)
(* shows EVSEs, so their events are left out.                              *)
(***************************************************************************)
EXTENDS ConnectorOperations, Sequences

CONSTANTS
    ConnectorIds,  \* the connectors in the order of their ids
    MaxFlights     \* bound on the requests that wait when a new one is made

Statuses == {"available", "occupied", "unavailable"}
OcppStatuses == {"Available", "Preparing", "Charging", "Finishing", "Unavailable"}

ASSUME ReportsAssumption ==
    /\ MaxFlights \in Nat
    /\ ConnectorIds \in Seq(Connectors)
    /\ Len(ConnectorIds) = Cardinality(Connectors)
    /\ {ConnectorIds[i] : i \in DOMAIN ConnectorIds} = Connectors
    /\ None \notin Statuses \cup OcppStatuses

VARIABLES
    flights,   \* requests that wait, with what their coroutines captured
    outbox,    \* transactions with something to replay
    pass,      \* records the replay under way has still to come to, as it read them
    told,      \* the status the CSMS last accepted, None when it is not known
    shown,     \* connectorStatuses of the projection
    txShown,   \* transactionStatuses of the projection
    untold,    \* connectors whose OCPP status changed without a report (history)
    raced      \* connectors whose availability changed in a way that events may miss (history)

replayVars == <<outbox, pass>>
reportVars == <<flights, replayVars, told, shown, txShown, untold, raced>>
allVars == <<vars, reportVars>>

\* What is still to be reported of a change of several connectors.
Changes == [c : Connectors, was : Statuses, wasOcpp : OcppStatuses]

Flights == [kind : {"start", "charging", "finishing", "stop", "stopped", "plug", "apply",
                    "change", "snapshot", "replay", "replayStop", "resumed", "replayed"},
            s : Starts \cup {None}, c : Connectors \cup {None},
            status : OcppStatuses \cup {None}, was : Statuses \cup {None},
            rest : Seq(Changes)]

Records == [s : Starts, stopped : BOOLEAN]

ReportsTypeOK ==
    /\ flights \in Seq(Flights)
    /\ outbox \subseteq Starts
    /\ pass \subseteq Records
    /\ told \in [Connectors -> OcppStatuses \cup {None}]
    /\ shown \in [Connectors -> Statuses \cup {None}]
    /\ txShown \in [Starts -> {"none", "active", "ended"}]
    /\ untold \subseteq Connectors
    /\ raced \subseteq Connectors

ReportsInit ==
    /\ Init
    /\ flights = <<>>
    /\ outbox = {}
    /\ pass = {}
    /\ told = [c \in Connectors |-> None]
    /\ shown = [c \in Connectors |-> None]
    /\ txShown = [s \in Starts |-> "none"]
    /\ untold = {}
    /\ raced = {}

-----------------------------------------------------------------------------
(* The status of a connector, to the web and to the CSMS. *)

\* Connector.status.
Status(point) ==
    IF point.availability = "inoperative" THEN "unavailable"
    ELSE IF point.plugged THEN "occupied" ELSE "available"

\* mapConnectorStatus.
OcppStatus(point, active) ==
    IF active # None THEN "Charging"
    ELSE CASE Status(point) = "unavailable" -> "Unavailable"
           [] Status(point) = "occupied" -> "Preparing"
           [] OTHER -> "Available"

\* captureConnectorStatusTransition, and resolveConnectorOcppStatus after the step.
StatusOf(c) == Status(connector[c])
OcppStatusOf(c) == OcppStatus(connector[c], evseTx[c])
NextOcppStatus(c) == OcppStatus(connector'[c], evseTx'[c])
Captured(c) == [c |-> c, was |-> StatusOf(c), wasOcpp |-> OcppStatusOf(c)]

\* The history of what the CSMS was not told: ended by a report, begun by a
\* change of the OCPP status without one.
Unsaid(c, said, changed) ==
    untold' = IF said THEN untold \ {c} ELSE IF changed THEN untold \cup {c} ELSE untold

\* A coroutine of waiting compares the status of c with one it captured.
Compares(waiting, c) ==
    \E i \in DOMAIN waiting :
        \/ waiting[i].c = c /\ waiting[i].was # None
        \/ \E j \in DOMAIN waiting[i].rest : waiting[i].rest[j].c = c

\* The event that c has the status now.
Show(c, now, waiting) ==
    /\ shown' = [shown EXCEPT ![c] = now]
    /\ raced' = IF Compares(waiting, c) THEN raced ELSE raced \ {c}

\* emitChangedConnectorStatus: what the coroutine captured against what is now.
Emit(c, was, waiting) ==
    IF Status(connector'[c]) = was THEN UNCHANGED <<shown, raced>>
    ELSE Show(c, Status(connector'[c]), waiting)

\* emitTransactionStatus.
ShowTransaction(s, status) == txShown' = [txShown EXCEPT ![s] = status]

Request(kind, s, c, status, was, rest) ==
    [kind |-> kind, s |-> s, c |-> c, status |-> status, was |-> was, rest |-> rest]

\* A report of the status that c has after this step.
Report(kind, s, c, was, rest) == Request(kind, s, c, NextOcppStatus(c), was, rest)

\* Without a connection no request waits: those that are rejected settle first.
AllSettled == connected \/ flights = <<>>
Room == AllSettled /\ Len(flights) < MaxFlights

-----------------------------------------------------------------------------
(* What makes requests and events. *)

ReportsBeginStart(s, c) ==
    /\ Room
    /\ BeginStart(s, c)
    /\ flights' = Append(flights, Request("start", s, c, None, None, <<>>))
    /\ UNCHANGED <<replayVars, told, shown, txShown, untold, raced>>

ReportsStartOffline(s, c) ==
    /\ AllSettled
    /\ StartOffline(s, c)
    /\ outbox' = outbox \cup {s}
    /\ ShowTransaction(s, "active")
    /\ untold' = untold \cup {c}
    /\ UNCHANGED <<flights, pass, told, shown, raced>>

\* A reading of a running transaction without a connection.
OfflineReading(s) ==
    /\ AllSettled /\ ~connected
    /\ tx[s].state = "active"
    /\ outbox' = outbox \cup {s}
    /\ UNCHANGED <<vars, flights, pass, told, shown, txShown, untold, raced>>

\* stopTransaction: StatusNotification(Finishing) first.
ReportsBeginStop(s) ==
    /\ Room
    /\ tx[s].bound
    /\ BeginStop(s)
    /\ flights' = Append(flights,
                    Request("finishing", s, tx[s].at, "Finishing", StatusOf(tx[s].at), <<>>))
    /\ UNCHANGED <<replayVars, told, shown, txShown, untold, raced>>

\* stopOfflineTransaction: of a transaction that is not bound, nothing is reported.
ReportsStopOffline(s) ==
    /\ AllSettled
    /\ ~tx[s].bound
    /\ BeginStop(s)
    /\ ShowTransaction(s, "ended")
    /\ Emit(tx[s].at, StatusOf(tx[s].at), flights)
    /\ Unsaid(tx[s].at, FALSE, TRUE)
    /\ UNCHANGED <<flights, replayVars, told>>

\* plugConnector: the event comes before the report.
ReportsPlug(c) ==
    /\ Room
    /\ PlugConnector(c)
    /\ Emit(c, StatusOf(c), flights)
    /\ LET changed == NextOcppStatus(c) # OcppStatusOf(c)
           reported == registered /\ changed
       IN /\ flights' = IF reported THEN Append(flights, Report("plug", None, c, None, <<>>))
                        ELSE flights
          /\ Unsaid(c, reported, changed)
    /\ UNCHANGED <<replayVars, told, txShown>>

\* unplugConnector.  That the gun is gone is an event and no report; a deferred
\* availability that comes into force is both.
ReportsUnplug(c) ==
    /\ Room
    /\ UnplugConnector(c)
    /\ LET point == [connector[c] EXCEPT !.plugged = FALSE]
           applies == point.requested # None
           was == IF applies THEN Status(point) ELSE StatusOf(c)
           reported == applies /\ NextOcppStatus(c) # OcppStatus(point, evseTx[c])
           pulled == Status(point) # StatusOf(c)
       IN IF reported
          THEN /\ flights' = Append(flights, Report("apply", None, c, was, <<>>))
               /\ untold' = untold \ {c}
               /\ IF pulled THEN Show(c, Status(point), flights) ELSE UNCHANGED <<shown, raced>>
          ELSE /\ Unsaid(c, FALSE, NextOcppStatus(c) # OcppStatusOf(c))
               /\ Emit(c, StatusOf(c), flights)
               /\ UNCHANGED flights
    /\ UNCHANGED <<replayVars, told, txShown>>

\* publishConnectorStatusTransition for the changes of rest, in turn: those whose
\* OCPP status is what it was are passed over, without an event.
Publish(waiting, rest) ==
    LET differs == {i \in DOMAIN rest : NextOcppStatus(rest[i].c) # rest[i].wasOcpp}
        i == CHOOSE j \in differs : \A k \in differs : j <= k
    IN IF differs = {} THEN waiting
       ELSE Append(waiting, Report("change", None, rest[i].c, rest[i].was,
                                   SubSeq(rest, i + 1, Len(rest))))

\* Connectors whose status the command changes while their OCPP status stays, or
\* while a coroutine is to compare it with one it captured.
Raced ==
    {c \in Connectors : /\ Status(connector'[c]) # StatusOf(c)
                        /\ NextOcppStatus(c) = OcppStatusOf(c) \/ Compares(flights, c)}

ReportsChangeAvailability(c, availability) ==
    /\ Room
    /\ ChangeAvailability(c, availability)
    /\ flights' = Publish(flights, <<Captured(c)>>)
    /\ raced' = raced \cup Raced
    /\ UNCHANGED <<replayVars, told, shown, txShown, untold>>

\* For connectorId 0: the charging point first, then each connector.
ReportsChangePoint(availability) ==
    /\ Room
    /\ ChangePointAvailability(availability)
    /\ LET changes == [i \in DOMAIN ConnectorIds |-> Captured(ConnectorIds[i])]
       IN flights' = IF availability # chargingPoint
                     THEN Append(flights, Request("change", None, None, None, None, changes))
                     ELSE Publish(flights, changes)
    /\ raced' = raced \cup Raced
    /\ UNCHANGED <<replayVars, told, shown, txShown, untold>>

\* reportConnectorStatus, at startup or asked for by TriggerMessage.
ReportConnectorStatus(c) ==
    /\ Room /\ registered
    /\ flights' = Append(flights, Request("snapshot", None, c, OcppStatusOf(c), None, <<>>))
    /\ untold' = untold \ {c}
    /\ UNCHANGED <<vars, replayVars, told, shown, txShown, raced>>

-----------------------------------------------------------------------------
(* The replay: for each record its start, its readings, then its stop or the *)
(* report that the transaction goes on.  It does not look at the transaction *)
(* again, which may have ended since it read the records.                    *)

ReplayKinds == {"replay", "replayStop", "resumed", "replayed"}

\* The transaction has a stop that is to be replayed.
HasStop(s) == tx[s].state = "ended" /\ stop[s] \in {"idle", "offline"}

\* StatusNotification(Charging), whatever the transaction does by now.  A reading
\* taken while the replay waited stays in the outbox.
Resume(waiting, s) ==
    LET c == tx[s].at
    IN /\ flights' = Append(waiting, Request("resumed", s, c, "Charging", None, <<>>))
       /\ outbox' \in {outbox} \cup IF HasStop(s) THEN {} ELSE {outbox \ {s}}
       /\ Unsaid(c, NextOcppStatus(c) = "Charging", TRUE)

\* Of record r: its StartTransaction, which status tells how to go on from, or
\* when it is replayed the StopTransaction, or that the transaction goes on.
ReplayRecord(waiting, r) ==
    LET c == tx[r.s].at
    IN \/ /\ ~tx[r.s].bound
          /\ flights' = Append(waiting, Request("replay", r.s, c,
                                   IF r.stopped THEN None ELSE "Charging", None, <<>>))
          /\ UNCHANGED <<outbox, untold>>
       \/ /\ tx[r.s].bound /\ r.stopped
          /\ flights' = Append(waiting, Request("replayStop", r.s, c, None, None, <<>>))
          /\ UNCHANGED <<outbox, untold>>
       \/ /\ tx[r.s].bound /\ ~r.stopped
          /\ Resume(waiting, r.s)

\* The replay goes on with a record of todo, or is over.
NextRecord(waiting, todo) ==
    \/ todo = {} /\ flights' = waiting /\ pass' = {} /\ UNCHANGED <<outbox, untold>>
    \/ \E r \in todo : pass' = todo \ {r} /\ ReplayRecord(waiting, r)

BeginReplay ==
    /\ Room
    /\ connected /\ registered
    /\ \A i \in DOMAIN flights : flights[i].kind \notin ReplayKinds
    /\ outbox # {}
    /\ UNCHANGED <<vars, told, shown, txShown, raced>>
    /\ NextRecord(flights, {[s |-> s, stopped |-> HasStop(s)] : s \in outbox})

\* A request of the replay that fails ends it.
GiveUp == flights' = Tail(flights) /\ pass' = {} /\ UNCHANGED <<outbox, untold>>

\* recordDeauthorizedStop.
DeauthorizedStop(f) ==
    /\ ShowTransaction(f.s, "ended")
    /\ Emit(f.c, StatusOf(f.c), Tail(flights))

\* After StartTransaction.  A tag that is refused ends the transaction, or is
\* taken to charge on, whether or not the record has a stop.
ReplaySettles(f, ok) ==
    /\ f.kind = "replay"
    /\ \/ /\ ~ok
          /\ GiveUp
          /\ UNCHANGED <<vars, shown, txShown, raced>>
       \/ \E accepted \in BOOLEAN :
            LET deauthorized == ~accepted /\ StopTransactionOnInvalidId
                ends == deauthorized /\ tx[f.s].state = "active"
            IN /\ ok
               /\ ReplayStartAnswered(f.s, accepted)
               /\ IF ends THEN DeauthorizedStop(f) ELSE UNCHANGED <<shown, txShown, raced>>
               /\ pass' = pass
               /\ IF deauthorized \/ (accepted /\ f.status = None)
                  THEN /\ flights' = Append(Tail(flights),
                                       Request("replayStop", f.s, f.c, None, None, <<>>))
                       /\ Unsaid(f.c, FALSE, ends)
                       /\ UNCHANGED outbox
                  ELSE Resume(Tail(flights), f.s)
    /\ UNCHANGED told

\* After StopTransaction: the status of the connector as it is.
ReplayStopSettles(f, ok) ==
    /\ f.kind = "replayStop"
    /\ UNCHANGED <<vars, told, shown, txShown, raced>>
    /\ \/ ~ok /\ GiveUp
       \/ /\ ok
          /\ flights' = Append(Tail(flights),
                           Request("replayed", f.s, f.c, OcppStatusOf(f.c), None, <<>>))
          /\ outbox' = outbox \ {f.s}
          /\ untold' = untold \ {f.c}
          /\ UNCHANGED pass

-----------------------------------------------------------------------------
(* What happens when another request settles. *)

\* The CSMS accepts the report, or it is not known whether it has.
Tell(f, ok) == told' = IF f.c = None THEN told
                       ELSE [told EXCEPT ![f.c] = IF ok THEN f.status ELSE None]

\* The report of the replay: on to the next record.
ReplayedSettles(f, ok) ==
    /\ f.kind \in {"resumed", "replayed"}
    /\ UNCHANGED <<vars, shown, txShown, raced>>
    /\ Tell(f, ok)
    /\ NextRecord(Tail(flights), pass)

\* startTransaction after StartTransaction.  What is refused releases the EVSE.
StartSettles(f, ok) ==
    /\ f.kind = "start"
    /\ \/ /\ ok
          /\ StartAccepted(f.s)
          /\ flights' = Append(Tail(flights), Report("charging", f.s, f.c, None, <<>>))
          /\ untold' = untold \ {f.c}
       \/ /\ StartRefused(f.s)
          /\ flights' = Tail(flights)
          /\ Unsaid(f.c, FALSE, evseTx[f.c] # None)
    /\ UNCHANGED <<replayVars, told, shown, txShown, raced>>

\* Mutant: the transaction is shown only when the CSMS accepted the report.
ChargingSettles_IfAccepted(f, ok) ==
    /\ f.kind = "charging"
    /\ Tell(f, ok)
    /\ IF ok THEN ShowTransaction(f.s, "active") ELSE UNCHANGED txShown
    /\ flights' = Tail(flights)
    /\ UNCHANGED <<vars, replayVars, shown, untold, raced>>

\* startTransaction after StatusNotification(Charging): only now the event.
ChargingSettles(f, ok) ==
    /\ f.kind = "charging"
    /\ Tell(f, ok)
    /\ ShowTransaction(f.s, "active")
    /\ flights' = Tail(flights)
    /\ UNCHANGED <<vars, replayVars, shown, untold, raced>>

FinishingSettles(f, ok) ==
    /\ f.kind = "finishing"
    /\ StopNotified(f.s)
    /\ Tell(f, ok)
    /\ flights' = Append(Tail(flights), Request("stop", f.s, f.c, None, f.was, <<>>))
    /\ UNCHANGED <<replayVars, shown, txShown, untold, raced>>

\* Mutant: what is reported is what was captured when the stop began.
StopSettles_Captured(f) ==
    /\ f.kind = "stop"
    /\ StopAnswered(f.s)
    /\ flights' = Append(Tail(flights), Request("stopped", f.s, f.c,
                    CASE f.was = "occupied" -> "Preparing" [] f.was = "available" -> "Available"
                      [] OTHER -> "Unavailable", f.was, <<>>))
    /\ untold' = untold \ {f.c}
    /\ UNCHANGED <<replayVars, told, shown, txShown, raced>>

\* stopTransaction after StopTransaction: one report, whether or not a deferred
\* availability comes into force.
StopSettles(f) ==
    /\ f.kind = "stop"
    /\ StopAnswered(f.s)
    /\ flights' = Append(Tail(flights), Report("stopped", f.s, f.c, f.was, <<>>))
    /\ untold' = untold \ {f.c}
    /\ UNCHANGED <<replayVars, told, shown, txShown, raced>>

\* Mutant: the event tells of the change the step itself made.
StoppedSettles_Forgets(f, ok) ==
    /\ f.kind = "stopped"
    /\ UNCHANGED <<vars, replayVars, untold>>
    /\ Tell(f, ok)
    /\ ShowTransaction(f.s, "ended")
    /\ Emit(f.c, StatusOf(f.c), Tail(flights))
    /\ flights' = Tail(flights)

StoppedSettles(f, ok) ==
    /\ f.kind = "stopped"
    /\ UNCHANGED <<vars, replayVars, untold>>
    /\ Tell(f, ok)
    /\ ShowTransaction(f.s, "ended")
    /\ Emit(f.c, f.was, Tail(flights))
    /\ flights' = Tail(flights)

\* A change of availability: the event of this connector, then the next one.
ChangeSettles(f, ok) ==
    /\ f.kind = "change"
    /\ UNCHANGED <<vars, replayVars, txShown, untold>>
    /\ Tell(f, ok)
    /\ IF f.c = None THEN UNCHANGED <<shown, raced>> ELSE Emit(f.c, f.was, Tail(flights))
    /\ flights' = Publish(Tail(flights), f.rest)

\* unplugConnector after the report.
ApplySettles(f, ok) ==
    /\ f.kind = "apply"
    /\ UNCHANGED <<vars, replayVars, txShown, untold>>
    /\ Tell(f, ok)
    /\ Emit(f.c, f.was, Tail(flights))
    /\ flights' = Tail(flights)

\* reportConnectorStatus after the report.
SnapshotSettles(f, ok) ==
    /\ f.kind = "snapshot"
    /\ UNCHANGED <<vars, replayVars, txShown, untold>>
    /\ Tell(f, ok)
    /\ Show(f.c, StatusOf(f.c), Tail(flights))
    /\ flights' = Tail(flights)

\* plugConnector after the report.
PlugSettles(f, ok) ==
    /\ f.kind = "plug"
    /\ Tell(f, ok)
    /\ flights' = Tail(flights)
    /\ UNCHANGED <<vars, replayVars, shown, txShown, untold, raced>>

\* The request at the head of the queue is answered or fails.
Settles ==
    /\ flights # <<>>
    /\ \E ok \in IF connected THEN BOOLEAN ELSE {FALSE} :
         LET f == Head(flights)
         IN \/ StartSettles(f, ok) \/ ChargingSettles(f, ok) \/ FinishingSettles(f, ok)
            \/ StopSettles(f) \/ StoppedSettles(f, ok) \/ ChangeSettles(f, ok)
            \/ ApplySettles(f, ok) \/ SnapshotSettles(f, ok) \/ PlugSettles(f, ok)
            \/ ReplaySettles(f, ok) \/ ReplayStopSettles(f, ok) \/ ReplayedSettles(f, ok)

ReportsConnectionChanges == AllSettled /\ ConnectionChanges /\ UNCHANGED reportVars

ReportsBootAnswered(accepted) == BootAnswered(accepted) /\ UNCHANGED reportVars

-----------------------------------------------------------------------------

ReportsNext ==
    \/ \E s \in Starts, c \in Connectors : ReportsBeginStart(s, c) \/ ReportsStartOffline(s, c)
    \/ \E s \in Starts : ReportsBeginStop(s) \/ ReportsStopOffline(s) \/ OfflineReading(s)
    \/ \E c \in Connectors : ReportsPlug(c) \/ ReportsUnplug(c) \/ ReportConnectorStatus(c)
    \/ \E c \in Connectors, availability \in Availability :
         ReportsChangeAvailability(c, availability)
    \/ \E availability \in Availability : ReportsChangePoint(availability)
    \/ BeginReplay
    \/ Settles
    \/ ReportsConnectionChanges
    \/ \E accepted \in BOOLEAN : ReportsBootAnswered(accepted)

ReportsSpec == ReportsInit /\ [][ReportsNext]_allVars

-----------------------------------------------------------------------------

\* When nothing is under way the web shows each connector as it is, unless
\* ChangeAvailability came under a transaction or under another report of it.
ShownAsItIs ==
    flights = <<>> => \A c \in Connectors \ raced : shown[c] \in {None, StatusOf(c)}

\* When nothing is under way the web shows the transactions that run, no others.
RunningIsShown ==
    flights = <<>> => \A s \in Starts : txShown[s] = "active" <=> tx[s].state = "active"

\* When nothing is under way the CSMS knows the status of each connector whose
\* last change was reported to it, in whatever order the reports were made.
ToldAsItIs ==
    flights = <<>> => \A c \in Connectors \ untold : told[c] \in {None, OcppStatusOf(c)}

=============================================================================
