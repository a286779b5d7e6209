------------------------- MODULE ConnectorOperations -------------------------
(***************************************************************************)
(* Connectors, their availability and the transactions on them: the        *)
(* actions of connectorActions.ts, the command ChangeAvailability, and     *)
(* the ends of startTransaction, stopTransaction and the offline replay    *)
(* that reach the device model.                                            *)
(*                                                                         *)
(* A start and a stop are coroutines that wait for the CSMS; the requests  *)
(* may be answered in any order here, which includes that of the queue of  *)
(* SessionMessaging.  How transactions are delivered is the subject of     *)
(* TransactionDelivery.  RemoteStopTransaction and UnlockConnector stop a  *)
(* transaction as the user does, RemoteStartTransaction starts one.        *)
(*                                                                         *)
(* An EVSE has one connector (state.ts) and every operation changes the    *)
(* availability of both, so they are one here.  Nothing in the runtime     *)
(* sets a fault or a reservation.                                          *)
(***************************************************************************)
EXTENDS Naturals, FiniteSets

CONSTANTS
    None,
    Connectors,
    Starts,                  \* calls of startTransaction, which name the transactions
    LocalAuthorizeOffline,       \* configuration keys of the same name
    StopTransactionOnInvalidId

Availability == {"operative", "inoperative"}

ASSUME ConnectorsAssumption ==
    /\ None \notin Connectors \cup Starts \cup Availability
    /\ LocalAuthorizeOffline \in BOOLEAN
    /\ StopTransactionOnInvalidId \in BOOLEAN

VARIABLES
    connected,     \* session.isConnected()
    registered,    \* registrationStatus = "Accepted"
    chargingPoint, \* availability of the charging point
    connector,     \* plug state, availability and requestedAvailability
    evseTx,        \* EVSE.activeTransactionId, by connector
    tx,            \* transactions and the starts they come from
    stop,          \* what stopTransaction waits for, by transaction
    wanted         \* what ChangeAvailability last asked of a connector (history)

vars == <<connected, registered, chargingPoint, connector, evseTx, tx, stop, wanted>>

ConnectorTypeOK ==
    /\ connected \in BOOLEAN
    /\ registered \in BOOLEAN
    /\ chargingPoint \in Availability
    /\ connector \in [Connectors -> [plugged : BOOLEAN, availability : Availability,
                                     requested : Availability \cup {None}]]
    /\ evseTx \in [Connectors -> Starts \cup {None}]
    /\ tx \in [Starts -> [state : {"none", "sending", "refused", "active", "ended"},
                          at : Connectors \cup {None}, bound : BOOLEAN]]
    /\ stop \in [Starts -> {"idle", "notifying", "sending", "done", "offline"}]
    /\ wanted \in [Connectors -> Availability]

Init ==
    /\ connected = FALSE
    /\ registered = FALSE
    /\ chargingPoint = "inoperative"
    /\ connector = [c \in Connectors |->
                      [plugged |-> FALSE, availability |-> "operative", requested |-> None]]
    /\ evseTx = [c \in Connectors |-> None]
    /\ tx = [s \in Starts |-> [state |-> "none", at |-> None, bound |-> FALSE]]
    /\ stop = [s \in Starts |-> "idle"]
    /\ wanted = [c \in Connectors |-> "operative"]

-----------------------------------------------------------------------------
(* Transactions. *)

HasActiveTransaction(c) == \E s \in Starts : tx[s].state = "active" /\ tx[s].at = c

\* requireStartableConnectorState, and with local = TRUE its relaxation for a
\* charging point that is not registered.
Startable(c, local) ==
    /\ connector[c].plugged /\ connector[c].availability = "operative"
    /\ evseTx[c] = None /\ ~HasActiveTransaction(c)
    /\ chargingPoint = "operative" \/ (local /\ ~registered)

\* Without a connection no request waits: the coroutines whose requests were
\* rejected, or not even queued, end before the next event.
Settled ==
    connected \/ \A s \in Starts : tx[s].state # "sending" /\ stop[s] \notin {"notifying", "sending"}

\* createActiveTransaction.
Activate(s, c, bound) ==
    /\ tx' = [tx EXCEPT ![s] = [state |-> "active", at |-> c, bound |-> bound]]
    /\ evseTx' = [evseTx EXCEPT ![c] = s]

\* endTransactionDelivery: whatever the EVSE is bound to, it is released.
End(s, transactions) ==
    /\ tx' = [transactions EXCEPT ![s].state = "ended"]
    /\ evseTx' = [evseTx EXCEPT ![tx[s].at] = None]

\* startTransaction up to StartTransaction.  Without a connection this is the
\* way of a remote start and of a charging point that may not start offline.
BeginStart(s, c) ==
    /\ Settled
    /\ tx[s].state = "none"
    /\ registered /\ Startable(c, FALSE)
    /\ tx' = [tx EXCEPT ![s].state = "sending", ![s].at = c]
    /\ UNCHANGED <<connected, registered, chargingPoint, connector, evseTx, stop, wanted>>

\* startTransaction after StartTransaction was accepted.
StartAccepted(s) ==
    /\ connected
    /\ tx[s].state = "sending"
    /\ Activate(s, tx[s].at, TRUE)
    /\ UNCHANGED <<connected, registered, chargingPoint, connector, stop, wanted>>

\* startTransaction after StartTransaction was rejected or failed: the EVSE is
\* released although this start had not bound it.
StartRefused(s) ==
    /\ tx[s].state = "sending"
    /\ tx' = [tx EXCEPT ![s].state = "refused"]
    /\ evseTx' = [evseTx EXCEPT ![tx[s].at] = None]
    /\ UNCHANGED <<connected, registered, chargingPoint, connector, stop, wanted>>

StartOffline(s, c) ==
    /\ Settled
    /\ LocalAuthorizeOffline
    /\ tx[s].state = "none"
    /\ ~(connected /\ registered) /\ Startable(c, TRUE)
    /\ Activate(s, c, FALSE)
    /\ UNCHANGED <<connected, registered, chargingPoint, connector, stop, wanted>>

\* The replay gets the answer to the StartTransaction of a transaction that
\* began offline; if the idTag is refused the transaction may be stopped.
ReplayStartAnswered(s, accepted) ==
    /\ tx[s].state \in {"active", "ended"} /\ ~tx[s].bound
    /\ connected /\ registered
    /\ LET transactions == [tx EXCEPT ![s].bound = TRUE]
       IN IF ~accepted /\ StopTransactionOnInvalidId /\ tx[s].state = "active"
          THEN End(s, transactions)
          ELSE tx' = transactions /\ UNCHANGED evseTx
    /\ UNCHANGED <<connected, registered, chargingPoint, connector, stop, wanted>>

\* stopTransaction up to StatusNotification(Finishing), or all of it for a
\* transaction the CSMS does not know.
BeginStop(s) ==
    /\ Settled
    /\ tx[s].state = "active"
    /\ End(s, tx)
    /\ stop' = [stop EXCEPT ![s] = IF tx[s].bound THEN "notifying" ELSE "offline"]
    /\ UNCHANGED <<connected, registered, chargingPoint, connector, wanted>>

StopNotified(s) ==
    /\ stop[s] = "notifying"
    /\ stop' = [stop EXCEPT ![s] = "sending"]
    /\ UNCHANGED <<connected, registered, chargingPoint, connector, evseTx, tx, wanted>>

-----------------------------------------------------------------------------
(* Availability. *)

\* Mutant: applied under a transaction that began in the meantime.
ApplyRequestedAvailability_Unchecked(c, point) ==
    IF point.requested = None THEN point
    ELSE [point EXCEPT !.availability = point.requested, !.requested = None]

\* applyRequestedAvailabilityWhenNoActiveTransaction, of a connector at point.
ApplyRequestedAvailability(c, point) ==
    IF point.requested = None \/ HasActiveTransaction(c) THEN point
    ELSE [point EXCEPT !.availability = point.requested, !.requested = None]

\* Mutant: the requested availability is left for the next to come.
StopAnswered_NotApplied(s) ==
    /\ stop[s] = "sending"
    /\ stop' = [stop EXCEPT ![s] = "done"]
    /\ UNCHANGED <<connected, registered, chargingPoint, connector, evseTx, tx, wanted>>

\* stopTransaction after StopTransaction.
StopAnswered(s) ==
    /\ stop[s] = "sending"
    /\ stop' = [stop EXCEPT ![s] = "done"]
    /\ connector' = [connector EXCEPT ![tx[s].at] = ApplyRequestedAvailability(tx[s].at, @)]
    /\ UNCHANGED <<connected, registered, chargingPoint, evseTx, tx, wanted>>

\* Mutant: an operative command leaves the deferred one.
Changed_KeepsRequested(c, availability) ==
    IF availability = "inoperative" /\ HasActiveTransaction(c)
    THEN [connector[c] EXCEPT !.requested = availability]
    ELSE [connector[c] EXCEPT !.availability = availability]

\* applyConnectorAvailability: deferred only if it would interrupt a
\* transaction; what was deferred before gives way.
Changed(c, availability) ==
    IF availability = "inoperative" /\ HasActiveTransaction(c)
    THEN [connector[c] EXCEPT !.requested = availability]
    ELSE [connector[c] EXCEPT !.availability = availability, !.requested = None]

\* handleChangeAvailability for one connector.
ChangeAvailability(c, availability) ==
    /\ connected /\ registered
    /\ connector' = [connector EXCEPT ![c] = Changed(c, availability)]
    /\ wanted' = [wanted EXCEPT ![c] = availability]
    /\ UNCHANGED <<connected, registered, chargingPoint, evseTx, tx, stop>>

\* handleChangeAvailability for connectorId 0.
ChangePointAvailability(availability) ==
    /\ connected /\ registered
    /\ chargingPoint' = availability
    /\ connector' = [c \in Connectors |-> Changed(c, availability)]
    /\ wanted' = [c \in Connectors |-> availability]
    /\ UNCHANGED <<connected, registered, evseTx, tx, stop>>

-----------------------------------------------------------------------------
(* Plug, connection and registration. *)

PlugConnector(c) ==
    /\ Settled
    /\ ~HasActiveTransaction(c)
    /\ ~connector[c].plugged /\ connector[c].availability = "operative"
    /\ connector' = [connector EXCEPT ![c].plugged = TRUE]
    /\ UNCHANGED <<connected, registered, chargingPoint, evseTx, tx, stop, wanted>>

UnplugConnector(c) ==
    /\ Settled
    /\ ~HasActiveTransaction(c)
    /\ connector' = [connector EXCEPT ![c] =
         ApplyRequestedAvailability(c, [@ EXCEPT !.plugged = FALSE])]
    /\ UNCHANGED <<connected, registered, chargingPoint, evseTx, tx, stop, wanted>>

\* The session comes online or is lost.
ConnectionChanges ==
    /\ Settled
    /\ connected' = ~connected
    /\ UNCHANGED <<registered, chargingPoint, connector, evseTx, tx, stop, wanted>>

\* boot.  A registration that becomes Accepted makes the charging point
\* operative, whatever ChangeAvailability had made it.
BootAnswered(accepted) ==
    /\ connected
    /\ registered' = accepted
    /\ chargingPoint' = IF accepted /\ ~registered THEN "operative" ELSE chargingPoint
    /\ UNCHANGED <<connected, connector, evseTx, tx, stop, wanted>>

Next ==
    \/ \E s \in Starts, c \in Connectors : BeginStart(s, c) \/ StartOffline(s, c)
    \/ \E s \in Starts : StartAccepted(s) \/ StartRefused(s)
    \/ \E s \in Starts, accepted \in BOOLEAN : ReplayStartAnswered(s, accepted)
    \/ \E s \in Starts : BeginStop(s) \/ StopNotified(s) \/ StopAnswered(s)
    \/ \E c \in Connectors, availability \in Availability : ChangeAvailability(c, availability)
    \/ \E availability \in Availability : ChangePointAvailability(availability)
    \/ \E c \in Connectors : PlugConnector(c) \/ UnplugConnector(c)
    \/ ConnectionChanges
    \/ \E accepted \in BOOLEAN : BootAnswered(accepted)

Spec == Init /\ [][Next]_vars

-----------------------------------------------------------------------------

\* The last ChangeAvailability of a connector decides: it is in force, or it is
\* inoperative and deferred.  No stop, unplug or boot that ends later, and no
\* older deferred command, overrides it.
LastCommandDecides ==
    \A c \in Connectors :
        IF connector[c].requested = None
        THEN connector[c].availability = wanted[c]
        ELSE connector[c].requested = "inoperative" /\ wanted[c] = "inoperative"

\* A connector is never taken out of service under a running transaction, not
\* even by the end of an earlier one whose stop was still under way.
NeverInterrupted ==
    [][\A c \in Connectors :
         connector[c].availability = "operative" /\ connector'[c].availability = "inoperative"
            => ~HasActiveTransaction(c)]_vars

\* What a deferred command waits for: a transaction, or a stop that will apply it.
Awaited(c) ==
    \/ HasActiveTransaction(c)
    \/ \E s \in Starts : tx[s].at = c /\ stop[s] \in {"notifying", "sending"}

\* A transaction on c ended by the replay, or by a stop the CSMS was not told of.
EndedOffline(c) ==
    \E s \in Starts : tx[s].at = c /\ tx[s].state = "ended" /\ stop[s] \in {"idle", "offline"}

\* A deferred command is forgotten by no stop that the CSMS is told of, whatever
\* transactions, commands and lost connections come between its steps.
OnlyOfflineEndsForget ==
    \A c \in Connectors : connector[c].requested # None => Awaited(c) \/ EndedOffline(c)

=============================================================================
