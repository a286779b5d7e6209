---------------------------- MODULE DomainModel ----------------------------
(***************************************************************************)
(* The resources of a charging point as values: connectors, EVSEs, the     *)
(* point itself, transactions, the local authorization list and grants.    *)
(* Every method of these classes returns a new object; here a method is an *)
(* operator on records, and one that may throw has a guard, named          *)
(* ...Accepted, that says when it does not.                                *)
(*                                                                         *)
(* What may be null is a set of at most one member.  Options that may be   *)
(* left out are absent from the record the constructor is given.  What is  *)
(* never read by a method (vendor, firmware, connector type) is left out.  *)
(***************************************************************************)
EXTENDS Records, Integers, FiniteSets, Sequences, TLC

AtMostOne(S) == {{}} \cup {{x} : x \in S}

Availabilities == {"operative", "inoperative"}

\* buildUniqueMap throws when two values share an id; the map keeps the order
\* in which they were given.
UniqueIds(s) == \A i, j \in DOMAIN s : s[i].id = s[j].id => i = j

HasId(s, id) == \E i \in DOMAIN s : s[i].id = id
ById(s, id) == s[CHOOSE i \in DOMAIN s : s[i].id = id]
ReplacedById(s, x) == [i \in DOMAIN s |-> IF s[i].id = x.id THEN x ELSE s[i]]

\* createEvseRef and createConnectorRef throw on ids that are not positive;
\* cloneResourceRef goes through them again.
RefAccepted(ref) ==
    /\ ref.scope \in {"evse", "connector"} => ref.evseId > 0
    /\ ref.scope = "connector" => ref.connectorId > 0

----------------------------------------------------------------------------
(* Connectors *)

ConnectorState ==
    [plugState : {"unplugged", "plugged", "unknown"},
     vehiclePresence : {"unknown", "detected", "absent"},
     lockState : {"locked", "unlocked", "unlocking", "unknown"},
     availability : Availabilities,
     requestedAvailability : AtMostOne(Availabilities)]

\* ratings: the maximal voltage, current and power, where given.
ConnectorAccepted(o) == o.id > 0 /\ \A r \in o.ratings : r >= 0

NewConnector(o) ==
    Spread([plugState |-> "unknown", vehiclePresence |-> "unknown", lockState |-> "unknown",
            availability |-> "operative", requestedAvailability |-> {},
            faultCode |-> {}, activeFaultIds |-> {}, lastStatusAt |-> {}], o)

CloneConnector(c, overrides) == NewConnector(Spread(c, overrides))

ConnectorStatus(c) ==
    CASE c.activeFaultIds # {} -> "faulted"
      [] c.activeFaultIds = {} /\ c.availability = "inoperative" -> "unavailable"
      [] c.activeFaultIds = {} /\ c.availability = "operative" ->
            IF c.plugState = "plugged" \/ c.vehiclePresence = "detected"
              THEN "occupied" ELSE "available"

RequestAvailability(c, next) == CloneConnector(c, [requestedAvailability |-> {next}])

ApplyRequestedAvailability(c, at) ==
    IF c.requestedAvailability = {} THEN c
    ELSE CloneConnector(c, [availability |-> CHOOSE a \in c.requestedAvailability : TRUE,
                            requestedAvailability |-> {}, lastStatusAt |-> {at}])

SetOccupied(c, occupied, at) ==
    CloneConnector(c, [plugState |-> IF occupied THEN "plugged" ELSE "unplugged",
                       vehiclePresence |-> IF occupied THEN "detected" ELSE "absent",
                       lastStatusAt |-> {at}])

SetPlugState(c, next, at) == CloneConnector(c, [plugState |-> next, lastStatusAt |-> {at}])
SetVehiclePresence(c, next, at) ==
    CloneConnector(c, [vehiclePresence |-> next, lastStatusAt |-> {at}])
SetLockState(c, next, at) == CloneConnector(c, [lockState |-> next, lastStatusAt |-> {at}])

ActivateFault(c, fault, code, at) ==
    CloneConnector(c, [activeFaultIds |-> c.activeFaultIds \cup {fault},
                       faultCode |-> {code}, lastStatusAt |-> {at}])

\* The code of the latest fault stays until the last fault is gone.
ClearFault(c, fault, at) ==
    LET faults == c.activeFaultIds \ {fault}
    IN  CloneConnector(c, [activeFaultIds |-> faults,
                           faultCode |-> IF faults = {} THEN {} ELSE c.faultCode,
                           lastStatusAt |-> {at}])

----------------------------------------------------------------------------
(* EVSEs *)

EvseAccepted(o) == o.id > 0 /\ ("connectors" \in DOMAIN o => UniqueIds(o.connectors))

NewEvse(o) ==
    Spread([availability |-> "operative", requestedAvailability |-> {},
            activeTransactionId |-> {}, activeReservationId |-> {},
            activeFaultIds |-> {}, connectors |-> <<>>, lastStatusAt |-> {}], o)

CloneEvse(e, overrides) == NewEvse(Spread(e, overrides))

\* mapConnectorStatusToEvseStatus: the worst of the connectors' statuses.
WorstStatus(statuses) ==
    CASE "faulted" \in statuses -> "faulted"
      [] "faulted" \notin statuses /\ "occupied" \in statuses -> "occupied"
      [] statuses \cap {"faulted", "occupied"} = {} ->
            IF "unavailable" \in statuses THEN "unavailable" ELSE "available"

EvseStatus(e) ==
    IF e.activeFaultIds # {} THEN "faulted"
    ELSE IF e.activeTransactionId # {} THEN "occupied"
    ELSE IF e.activeReservationId # {} THEN "reserved"
    ELSE IF e.availability = "inoperative" THEN "unavailable"
    ELSE WorstStatus({ConnectorStatus(e.connectors[i]) : i \in DOMAIN e.connectors})

AddConnectorAccepted(e, c) == ~HasId(e.connectors, c.id)
AddConnector(e, c) == CloneEvse(e, [connectors |-> Append(e.connectors, c)])

RequestEvseAvailability(e, next) == CloneEvse(e, [requestedAvailability |-> {next}])

ApplyEvseAvailability(e, at) ==
    IF e.requestedAvailability = {} THEN e
    ELSE CloneEvse(e, [availability |-> CHOOSE a \in e.requestedAvailability : TRUE,
                       requestedAvailability |-> {}, lastStatusAt |-> {at}])

BindTransaction(e, tx, at) == CloneEvse(e, [activeTransactionId |-> {tx}, lastStatusAt |-> {at}])
ReleaseTransaction(e, at) == CloneEvse(e, [activeTransactionId |-> {}, lastStatusAt |-> {at}])

ReserveEvse(e, r, at) == CloneEvse(e, [activeReservationId |-> {r}, lastStatusAt |-> {at}])
ClearReservation(e, at) == CloneEvse(e, [activeReservationId |-> {}, lastStatusAt |-> {at}])

ActivateEvseFault(e, fault, at) ==
    CloneEvse(e, [activeFaultIds |-> e.activeFaultIds \cup {fault}, lastStatusAt |-> {at}])
ClearEvseFault(e, fault, at) ==
    CloneEvse(e, [activeFaultIds |-> e.activeFaultIds \ {fault}, lastStatusAt |-> {at}])

ReplaceConnectorAccepted(e, c) == HasId(e.connectors, c.id)
ReplaceConnector(e, c) == CloneEvse(e, [connectors |-> ReplacedById(e.connectors, c)])

\* Here and below `updated' is what the caller's function makes of the member
\* that has the id.
UpdateConnectorAccepted(e, id, updated) ==
    HasId(e.connectors, id) /\ ReplaceConnectorAccepted(e, updated)
UpdateConnector(e, updated) == ReplaceConnector(e, updated)

----------------------------------------------------------------------------
(* The charging point.  Unlike its EVSEs it starts inoperative. *)

PointAccepted(o) == "evses" \in DOMAIN o => UniqueIds(o.evses)

NewPoint(o) ==
    Spread([availability |-> "inoperative", requestedAvailability |-> {}, faultCode |-> {},
            activeFaultIds |-> {}, lastStatusAt |-> {}, evses |-> <<>>], o)

ClonePoint(p, overrides) == NewPoint(Spread(p, overrides))

PointStatus(p) ==
    IF p.activeFaultIds # {} THEN "faulted"
    ELSE IF p.availability = "inoperative" THEN "unavailable" ELSE "available"

AddEvseAccepted(p, e) == ~HasId(p.evses, e.id)
AddEvse(p, e) == ClonePoint(p, [evses |-> Append(p.evses, e)])

RequestPointAvailability(p, next) == ClonePoint(p, [requestedAvailability |-> {next}])

ApplyPointAvailability(p, at) ==
    IF p.requestedAvailability = {} THEN p
    ELSE ClonePoint(p, [availability |-> CHOOSE a \in p.requestedAvailability : TRUE,
                        requestedAvailability |-> {}, lastStatusAt |-> {at}])

\* An accepted boot; it drops a change that waits.
MarkOperative(p, at) ==
    ClonePoint(p, [availability |-> "operative", requestedAvailability |-> {},
                   lastStatusAt |-> {at}])

ActivatePointFault(p, fault, code, at) ==
    ClonePoint(p, [activeFaultIds |-> p.activeFaultIds \cup {fault},
                   faultCode |-> {code}, lastStatusAt |-> {at}])
ClearPointFault(p, fault, at) ==
    LET faults == p.activeFaultIds \ {fault}
    IN  ClonePoint(p, [activeFaultIds |-> faults,
                       faultCode |-> IF faults = {} THEN {} ELSE p.faultCode,
                       lastStatusAt |-> {at}])

ReplaceEvseAccepted(p, e) == HasId(p.evses, e.id)
ReplaceEvse(p, e) == ClonePoint(p, [evses |-> ReplacedById(p.evses, e)])

UpdateEvseAccepted(p, id, updated) == HasId(p.evses, id) /\ ReplaceEvseAccepted(p, updated)
UpdateEvse(p, updated) == ReplaceEvse(p, updated)

UpdatePointConnectorAccepted(p, evseId, id, updated) ==
    /\ HasId(p.evses, evseId)
    /\ UpdateConnectorAccepted(ById(p.evses, evseId), id, updated)
UpdatePointConnector(p, evseId, updated) ==
    UpdateEvse(p, UpdateConnector(ById(p.evses, evseId), updated))

\* ensureOcpp16EvseConnectorProjection: OCPP 1.6 knows connectors only, so
\* every EVSE has exactly one and no two EVSEs share its number.
OnlyConnector(e) == e.connectors[1].id
Ocpp16Projection(p) ==
    /\ \A i \in DOMAIN p.evses : Len(p.evses[i].connectors) = 1
    /\ \A i, j \in DOMAIN p.evses :
          OnlyConnector(p.evses[i]) = OnlyConnector(p.evses[j]) => i = j

----------------------------------------------------------------------------
(* Transactions *)

TransactionStates == {"starting", "active", "suspended", "ending", "ended"}
ChargingStates == {"idle", "charging", "suspended-by-ev", "suspended-by-station"}

NewTransaction(o) ==
    LET t == Spread([latestMeterWh |-> o.startMeterWh, endedAt |-> {}, state |-> "starting",
                     chargingState |-> "idle", endMeterWh |-> {}, stopReason |-> {}], o)
    IN  Spread([consumedEnergyWh |-> t.latestMeterWh - t.startMeterWh], t)

TransactionAccepted(o) ==
    LET t == NewTransaction(o)
    IN  /\ RefAccepted(t.target)
        /\ 0 <= t.startMeterWh /\ t.startMeterWh <= t.latestMeterWh
        /\ \A meter \in t.endMeterWh : t.latestMeterWh <= meter
        /\ t.consumedEnergyWh = t.latestMeterWh - t.startMeterWh

CloneTransaction(t, overrides) == NewTransaction(Spread(t, overrides))

ActivateAccepted(t) == t.state \notin {"ending", "ended"}
Activate(t) == CloneTransaction(t, [state |-> "active"])

StartChargingAccepted(t) == t.state \notin {"ending", "ended"}
StartCharging(t) == CloneTransaction(t, [state |-> "active", chargingState |-> "charging"])

SuspendAccepted(t) == t.state \notin {"ending", "ended"}
Suspend(t, by) ==
    CloneTransaction(t, [state |-> "suspended",
        chargingState |-> IF by = "ev" THEN "suspended-by-ev" ELSE "suspended-by-station"])

ResumeChargingAccepted(t) == t.state = "suspended"
ResumeCharging(t) == CloneTransaction(t, [state |-> "active", chargingState |-> "charging"])

\* The clone checks the new reading against an end, if there is one.
RecordMeterValue(t, meter) ==
    CloneTransaction(t, [latestMeterWh |-> meter, consumedEnergyWh |-> meter - t.startMeterWh])
RecordMeterValueAccepted(t, meter) ==
    /\ t.state # "ended"
    /\ 0 <= meter /\ t.latestMeterWh <= meter
    /\ TransactionAccepted(RecordMeterValue(t, meter))

\* A reason left out replaces one given before.
StartEndingAccepted(t) == t.state # "ended"
StartEnding(t, reason) ==
    CloneTransaction(t, [state |-> "ending", chargingState |-> "idle", stopReason |-> reason])

EndAccepted(t, meter) ==
    /\ t.state # "ended"
    /\ \A m \in meter : RecordMeterValueAccepted(t, m)
End(t, reason, at, meter) ==
    LET u == IF meter = {} THEN t ELSE RecordMeterValue(t, CHOOSE m \in meter : TRUE)
    IN  CloneTransaction(u, [state |-> "ended", chargingState |-> "idle", endedAt |-> {at},
                             endMeterWh |-> {u.latestMeterWh}, stopReason |-> reason])

----------------------------------------------------------------------------
(* Authorization *)

\* An entry that is only a credential is an accepted one.
NormalizeEntry(e) ==
    Spread([status |-> "accepted", validUntil |-> {}, groupCredentialId |-> {}], e)

\* Of two entries for a credential the later one stays.
LastEntry(s, c) ==
    s[CHOOSE i \in DOMAIN s :
          s[i].credentialId = c /\ \A j \in DOMAIN s : s[j].credentialId = c => j <= i]
NewList(version, updatedAt, s) ==
    [version |-> version, updatedAt |-> updatedAt,
     entries |-> [c \in {s[i].credentialId : i \in DOMAIN s} |-> NormalizeEntry(LastEntry(s, c))]]

HasCredential(list, c) == c \in DOMAIN list.entries
GetEntry(list, c) == {list.entries[d] : d \in DOMAIN list.entries \cap {c}}
ReplaceEntries(list, version, updatedAt, s) == NewList(version, updatedAt, s)

NewGrant(o) ==
    Spread([validUntil |-> {}, allowedEvseIds |-> {}, groupCredentialId |-> {},
            isCacheEntry |-> FALSE], o)

\* A grant is valid up to and including its date; without one it stays valid.
IsAcceptedAt(g, at) == g.status = "accepted" /\ \A t \in g.validUntil : t >= at

\* No EVSE named means every EVSE.
AllowsEvse(g, evse) == g.allowedEvseIds = {} \/ evse \in g.allowedEvseIds
----------------------------------------------------------------------------
(* What TLC evaluates: the definitions against what they are for, on small *)
(* instances.                                                              *)

SomeConnectors == {NewConnector(Spread([id |-> 1, ratings |-> {}], o)) :
                      o \in ConnectorState \cup [activeFaultIds : {{"f"}}]}
SomeEvses == {NewEvse(Spread([id |-> 1, connectors |-> <<c>>], o)) :
                 c \in SomeConnectors,
                 o \in [availability : Availabilities, activeTransactionId : AtMostOne({"t"}),
                        activeReservationId : AtMostOne({"r"}), activeFaultIds : {{}, {"f"}}]}

\* An EVSE shows itself available exactly when nothing about it or about its
\* connector is in the way of a car.
ASSUME AvailableIsFree ==
    \A e \in SomeEvses :
        EvseStatus(e) = "available" <=>
            /\ e.activeFaultIds \cup e.activeTransactionId \cup e.activeReservationId = {}
            /\ e.availability = "operative"
            /\ e.connectors[1].availability = "operative"
            /\ e.connectors[1].activeFaultIds = {}
            /\ e.connectors[1].plugState # "plugged"
            /\ e.connectors[1].vehiclePresence # "detected"

\* A list is what writing its entries one after the other leaves.
SomeEntries == {[credentialId |-> c] : c \in {"a", "b"}}
               \cup [credentialId : {"a", "b"}, status : {"blocked", "expired"}]
Written(s, n) ==
    LET write[k \in 0..n] ==
            IF k = 0 THEN <<>>
            ELSE (s[k].credentialId :> NormalizeEntry(s[k])) @@ write[k - 1]
    IN  write[n]
ASSUME ListIsWritten ==
    \A n \in 0..3 : \A s \in [1..n -> SomeEntries] : NewList(1, 0, s).entries = Written(s, n)

=============================================================================
