------------------------- MODULE ConnectorSelection -------------------------
(***************************************************************************)
(* Which connector an operation of the runtime may use, over the device    *)
(* model of DomainModel.  A context is                                     *)
(*   [registration, point, running]                                        *)
(* with the connectors <<evse, connector>> that carry a transaction that   *)
(* has not ended.  A require... of the code that throws is the set of at   *)
(* most one error it throws.                                               *)
(***************************************************************************)
EXTENDS DomainModel

LOCAL INSTANCE FiniteSetsExt

EvsesWith(ctx, id) == {i \in DOMAIN ctx.point.evses : HasId(ctx.point.evses[i].connectors, id)}
EvseOf(ctx, id) == ctx.point.evses[Min(EvsesWith(ctx, id))]
ConnectorOf(ctx, id) == ById(EvseOf(ctx, id).connectors, id)

HasActiveTransactionOn(ctx, id) == <<EvseOf(ctx, id).id, id>> \in ctx.running

\* requireConnectorSelection: the first EVSE that has the connector.
SelectionErrors(ctx, id) ==
    IF id = 0 THEN {"CONNECTOR_NOT_TRANSACTIONAL"}
    ELSE IF EvsesWith(ctx, id) = {} THEN {"CONNECTOR_NOT_FOUND"} ELSE {}

\* requireRegisteredChargingPoint
RegistrationErrors(ctx) == IF ctx.registration # "Accepted" THEN {"NOT_REGISTERED"} ELSE {}

\* Without a registration the point is unavailable and may still serve locally.
PointServes(ctx, unregistered) ==
    \/ PointStatus(ctx.point) = "available"
    \/ /\ unregistered
       /\ ctx.registration # "Accepted"
       /\ PointStatus(ctx.point) = "unavailable"

IsPlugged(c) == ConnectorStatus(c) = "occupied" /\ c.plugState = "plugged"

\* requireStartableConnectorState
CanStart(ctx, id, unregistered) ==
    LET e == EvseOf(ctx, id)
        c == ConnectorOf(ctx, id)
    IN  /\ PointServes(ctx, unregistered)
        /\ EvseStatus(e) = "occupied"
        /\ e.activeTransactionId = {}
        /\ IsPlugged(c)
        /\ c.availability = "operative"
        /\ ~HasActiveTransactionOn(ctx, id)

\* requireAuthorizableConnectorState
CanAuthorize(ctx, id, unregistered) ==
    LET e == EvseOf(ctx, id)
        c == ConnectorOf(ctx, id)
    IN  /\ PointServes(ctx, unregistered)
        /\ EvseStatus(e) = "available" \/ (EvseStatus(e) = "occupied" /\ IsPlugged(c))
        /\ e.activeTransactionId = {}
        /\ ConnectorStatus(c) = "available" \/ IsPlugged(c)
        /\ c.availability = "operative"
        /\ ~HasActiveTransactionOn(ctx, id)

\* Without errors so far, an error if it may not.
Otherwise(errors, may) ==
    IF errors # {} THEN errors ELSE IF may THEN {} ELSE {"CONNECTOR_NOT_STARTABLE"}

\* requireStartableConnector, requireLocallyStartableConnector
StartableErrors(ctx, id) ==
    LET first == IF ctx.registration # "Accepted" THEN RegistrationErrors(ctx)
                 ELSE SelectionErrors(ctx, id)
    IN  Otherwise(first, first = {} /\ CanStart(ctx, id, FALSE))
LocallyStartableErrors(ctx, id) ==
    LET first == SelectionErrors(ctx, id)
    IN  Otherwise(first, first = {} /\ CanStart(ctx, id, TRUE))

\* requireAuthorizableConnector, requireLocallyAuthorizableConnector
AuthorizableErrors(ctx, id) ==
    LET first == IF ctx.registration # "Accepted" THEN RegistrationErrors(ctx)
                 ELSE SelectionErrors(ctx, id)
    IN  Otherwise(first, first = {} /\ CanAuthorize(ctx, id, FALSE))
LocallyAuthorizableErrors(ctx, id) ==
    LET first == SelectionErrors(ctx, id)
    IN  Otherwise(first, first = {} /\ CanAuthorize(ctx, id, TRUE))

\* What authorize, startTransaction and the RemoteStartTransaction ask for.
OnlineRegistered(ctx, online) == online /\ ctx.registration = "Accepted"

AuthorizeErrors(ctx, id, online) ==
    IF OnlineRegistered(ctx, online) THEN AuthorizableErrors(ctx, id)
    ELSE LocallyAuthorizableErrors(ctx, id)

StartErrors(ctx, id, online, localAuthorizeOffline) ==
    IF ~OnlineRegistered(ctx, online) /\ localAuthorizeOffline
    THEN LocallyStartableErrors(ctx, id) ELSE StartableErrors(ctx, id)

CanStartOn(ctx, id) == StartableErrors(ctx, id) = {}

\* findFirstStartableConnectorId: at most one.
ConnectorIdsOf(ctx) ==
    UNION {{ctx.point.evses[i].connectors[j].id : j \in DOMAIN ctx.point.evses[i].connectors} :
           i \in DOMAIN ctx.point.evses}
FirstStartable(ctx) ==
    LET ids == {id \in ConnectorIdsOf(ctx) : CanStartOn(ctx, id)}
    IN  IF ids = {} THEN {} ELSE {Min(ids)}

\* plugConnectorCore and unplugConnectorCore, with what they refuse.
PlugErrors(ctx, evse, id) ==
    IF ~(HasId(ctx.point.evses, evse) /\ HasId(ById(ctx.point.evses, evse).connectors, id))
      THEN {"CONNECTOR_NOT_FOUND"}
    ELSE IF \/ <<evse, id>> \in ctx.running
            \/ ConnectorStatus(ById(ById(ctx.point.evses, evse).connectors, id)) # "available"
      THEN {"INVALID_OPERATION"} ELSE {}

UnplugErrors(ctx, evse, id) ==
    IF ~(HasId(ctx.point.evses, evse) /\ HasId(ById(ctx.point.evses, evse).connectors, id))
      THEN {"CONNECTOR_NOT_FOUND"}
    ELSE IF <<evse, id>> \in ctx.running THEN {"INVALID_OPERATION"} ELSE {}

PlugOf(ctx, evse, id) == ById(ById(ctx.point.evses, evse).connectors, id)

Plugged(ctx, evse, id, at) ==
    LET Plug(c) == SetOccupied(SetVehiclePresence(SetPlugState(c, "plugged", at), "detected", at),
                               TRUE, at)
    IN  [ctx EXCEPT !.point = UpdatePointConnector(@, evse, Plug(PlugOf(ctx, evse, id)))]

Unplugged(ctx, evse, id, at) ==
    LET Unplug(c) == SetLockState(SetVehiclePresence(SetPlugState(SetOccupied(c, FALSE, at),
                                  "unplugged", at), "absent", at), "unlocked", at)
    IN  [ctx EXCEPT !.point = UpdatePointConnector(@, evse, Unplug(PlugOf(ctx, evse, id)))]

----------------------------------------------------------------------------
(* The contexts of a point with two EVSEs of one connector each. *)

Registrations == {"none", "Accepted", "Pending", "Rejected"}

SomeConnector(id) ==
    {NewConnector([id |-> id, ratings |-> {}, plugState |-> p[1], vehiclePresence |-> p[2],
                   availability |-> a, activeFaultIds |-> f]) :
        p \in {<<"unknown", "unknown">>, <<"plugged", "detected">>, <<"unplugged", "absent">>},
        a \in Availabilities, f \in AtMostOne({"f"})}

EvseWith(id, c, tx, faults) ==
    NewEvse([id |-> id, connectors |-> <<c>>, activeTransactionId |-> tx,
             activeFaultIds |-> faults])

\* A transaction of the connector may have left its EVSE, and one that runs may
\* not have taken it (two starts that overlap).
Contexts ==
    {[registration |-> r, running |-> running,
      point |-> NewPoint([availability |-> a,
                          evses |-> <<EvseWith(2, c, tx, faults), EvseWith(1, d, {}, {})>>])] :
        r \in Registrations, a \in Availabilities, running \in SUBSET {<<2, 1>>},
        c \in SomeConnector(1), tx \in AtMostOne({"t"}), faults \in AtMostOne({"f"}),
        d \in {x \in SomeConnector(2) : x.activeFaultIds = {} /\ x.vehiclePresence # "unknown"}}

Ids == {0, 1, 2, 3}

\* A user who authorizes, plugs in and starts is not refused half way: where a
\* transaction may start a card may be authorized, and where one may be
\* authorized a connector that is available can be plugged, after which a
\* transaction may start.
ASSUME SelectionsAgree ==
    \A ctx \in Contexts : \A online \in BOOLEAN :
        /\ \A id \in Ids :
              StartErrors(ctx, id, online, TRUE) = {} => AuthorizeErrors(ctx, id, online) = {}
        /\ AuthorizeErrors(ctx, 1, online) = {} /\ ConnectorStatus(ConnectorOf(ctx, 1)) = "available"
              => /\ PlugErrors(ctx, 2, 1) = {}
                 /\ StartErrors(Plugged(ctx, 2, 1, 0), 1, online, TRUE) = {}

\* Plugging in and out of one connector leaves what the other may do.
ASSUME ConnectorsAreApart ==
    \A ctx \in Contexts : \A online \in BOOLEAN :
        LET other == {Plugged(ctx, 1, 2, 0), Unplugged(ctx, 1, 2, 0)}
        IN  \A o \in other :
               /\ StartErrors(o, 1, online, TRUE) = StartErrors(ctx, 1, online, TRUE)
               /\ AuthorizeErrors(o, 1, online) = AuthorizeErrors(ctx, 1, online)

\* What a remote start picks on its own is startable, and there is none only
\* when none is.
ASSUME FirstIsStartable ==
    \A ctx \in Contexts :
        /\ \A id \in FirstStartable(ctx) : CanStartOn(ctx, id)
        /\ FirstStartable(ctx) = {} => \A id \in Ids : ~CanStartOn(ctx, id)
=============================================================================
