------------------------- MODULE PointResourcesProofs -------------------------
(***************************************************************************)
(* What the methods of the domain model keep, and what the requests of the *)
(* resource service leave in the database however they overlap.            *)
(***************************************************************************)
EXTENDS PointResources, SequenceTheorems, FiniteSetTheorems, FunctionTheorems,
        WellFoundedInduction, TLAPS

----------------------------------------------------------------------------
(* Transactions *)

\* The transactions whose targets are in T, as the constructor stores them.
TransactionRecords(T) ==
    [target : T, startMeterWh : Int, latestMeterWh : Int, endedAt : SUBSET Int,
     state : TransactionStates, chargingState : ChargingStates, endMeterWh : SUBSET Int,
     stopReason : SUBSET STRING, consumedEnergyWh : Int]

\* What the constructor checks, and what it does not check: that a transaction
\* ends with its last reading, exactly when it has ended, and charges only
\* while it is active.
Whole(t) ==
    /\ RefAccepted(t.target)
    /\ 0 <= t.startMeterWh /\ t.startMeterWh <= t.latestMeterWh
    /\ t.consumedEnergyWh = t.latestMeterWh - t.startMeterWh
    /\ t.endMeterWh = IF t.state = "ended" THEN {t.latestMeterWh} ELSE {}
    /\ t.chargingState = "charging" => t.state = "active"

\* A complete record comes through the constructor as it is.
LEMMA ConstructorKeeps ==
    ASSUME NEW T, NEW t \in TransactionRecords(T)
    PROVE  NewTransaction(t) = t
<1> DEFINE d == Spread([latestMeterWh |-> t.startMeterWh, endedAt |-> {}, state |-> "starting",
                     chargingState |-> "idle", endMeterWh |-> {}, stopReason |-> {}], t)
<1>1. d = t
  BY DEF TransactionRecords, Spread
<1>2. Spread([consumedEnergyWh |-> t.latestMeterWh - t.startMeterWh], t) = t
  BY DEF TransactionRecords, Spread
<1> QED
  BY <1>1, <1>2 DEF NewTransaction

\* t with the fields that methods change.
Changed(t, latest, energy, s, c, ended, end, reason) ==
    [target |-> t.target, startMeterWh |-> t.startMeterWh, latestMeterWh |-> latest,
     endedAt |-> ended, state |-> s, chargingState |-> c, endMeterWh |-> end,
     stopReason |-> reason, consumedEnergyWh |-> energy]

\* A clone whose result is a complete record is that record.
LEMMA CloneChanges ==
    ASSUME NEW T, NEW t \in TransactionRecords(T), NEW u \in TransactionRecords(T),
           NEW o, Spread(t, o) = u
    PROVE  CloneTransaction(t, o) = u
BY ConstructorKeeps DEF CloneTransaction

\* Activation, charging, suspension: the state and the charging state change.
LEMMA StatesChange ==
    ASSUME NEW T, NEW t \in TransactionRecords(T),
           NEW s \in TransactionStates, NEW c \in ChargingStates
    PROVE  LET Now(d) == Changed(t, t.latestMeterWh, t.consumedEnergyWh, s, d, t.endedAt,
                                 t.endMeterWh, t.stopReason)
           IN  /\ CloneTransaction(t, [state |-> s]) = Now(t.chargingState)
               /\ CloneTransaction(t, [state |-> s, chargingState |-> c]) = Now(c)
               /\ Now(c) \in TransactionRecords(T)
<1> DEFINE Now(d) == Changed(t, t.latestMeterWh, t.consumedEnergyWh, s, d, t.endedAt,
                             t.endMeterWh, t.stopReason)
<1>1. Now(c) \in TransactionRecords(T) /\ Now(t.chargingState) \in TransactionRecords(T)
  BY DEF TransactionRecords, Changed
<1>2. Spread(t, [state |-> s]) = Now(t.chargingState)
  BY DEF Spread, TransactionRecords, Changed
<1>3. Spread(t, [state |-> s, chargingState |-> c]) = Now(c)
  BY DEF Spread, TransactionRecords, Changed
<1> QED
  BY <1>1, <1>2, <1>3, CloneChanges

\* A reading changes the latest reading and the energy.
LEMMA ReadingChanges ==
    ASSUME NEW T, NEW t \in TransactionRecords(T), NEW meter \in Int
    PROVE  /\ RecordMeterValue(t, meter)
                = Changed(t, meter, meter - t.startMeterWh, t.state, t.chargingState,
                          t.endedAt, t.endMeterWh, t.stopReason)
           /\ RecordMeterValue(t, meter) \in TransactionRecords(T)
<1> DEFINE u == Changed(t, meter, meter - t.startMeterWh, t.state, t.chargingState,
                        t.endedAt, t.endMeterWh, t.stopReason)
<1>1. u \in TransactionRecords(T)
  BY DEF TransactionRecords, Changed
<1>2. Spread(t, [latestMeterWh |-> meter, consumedEnergyWh |-> meter - t.startMeterWh]) = u
  BY DEF Spread, TransactionRecords, Changed
<1> QED
  BY <1>1, <1>2, CloneChanges DEF RecordMeterValue

\* The start of an end.
LEMMA EndingChanges ==
    ASSUME NEW T, NEW t \in TransactionRecords(T), NEW reason \in SUBSET STRING
    PROVE  /\ StartEnding(t, reason)
                = Changed(t, t.latestMeterWh, t.consumedEnergyWh, "ending", "idle",
                          t.endedAt, t.endMeterWh, reason)
           /\ StartEnding(t, reason) \in TransactionRecords(T)
<1> DEFINE u == Changed(t, t.latestMeterWh, t.consumedEnergyWh, "ending", "idle",
                        t.endedAt, t.endMeterWh, reason)
<1>1. u \in TransactionRecords(T)
  BY DEF TransactionRecords, TransactionStates, ChargingStates, Changed
<1>2. Spread(t, [state |-> "ending", chargingState |-> "idle", stopReason |-> reason]) = u
  BY DEF Spread, TransactionRecords, Changed
<1> QED
  BY <1>1, <1>2, CloneChanges DEF StartEnding

\* The end, after the last reading.
LEMMA EndChanges ==
    ASSUME NEW T, NEW t \in TransactionRecords(T), NEW reason \in SUBSET STRING, NEW at \in Int
    PROVE  LET u == Changed(t, t.latestMeterWh, t.consumedEnergyWh, "ended", "idle", {at},
                            {t.latestMeterWh}, reason)
           IN  /\ CloneTransaction(t, [state |-> "ended", chargingState |-> "idle",
                        endedAt |-> {at}, endMeterWh |-> {t.latestMeterWh},
                        stopReason |-> reason]) = u
               /\ u \in TransactionRecords(T)
<1> DEFINE u == Changed(t, t.latestMeterWh, t.consumedEnergyWh, "ended", "idle", {at},
                        {t.latestMeterWh}, reason)
<1>1. u \in TransactionRecords(T)
  BY DEF TransactionRecords, TransactionStates, ChargingStates, Changed
<1>2. Spread(t, [state |-> "ended", chargingState |-> "idle", endedAt |-> {at},
                 endMeterWh |-> {t.latestMeterWh}, stopReason |-> reason]) = u
  BY DEF Spread, TransactionRecords, Changed
<1> QED
  BY <1>1, <1>2, CloneChanges

\* What a method may make of t: a whole transaction of the same target and
\* start, whose reading did not go back.
Succeeds(T, t, u) ==
    /\ u \in TransactionRecords(T) /\ Whole(u)
    /\ u.target = t.target /\ u.startMeterWh = t.startMeterWh
    /\ t.latestMeterWh <= u.latestMeterWh

\* A reading that is accepted keeps a transaction whole.
LEMMA ReadingSucceeds ==
    ASSUME NEW T, NEW t \in TransactionRecords(T), Whole(t),
           NEW meter \in Int, RecordMeterValueAccepted(t, meter)
    PROVE  /\ Succeeds(T, t, RecordMeterValue(t, meter))
           /\ RecordMeterValue(t, meter).state = t.state
<1> DEFINE u == RecordMeterValue(t, meter)
<1>1. /\ u = Changed(t, meter, meter - t.startMeterWh, t.state, t.chargingState,
                      t.endedAt, t.endMeterWh, t.stopReason)
      /\ u \in TransactionRecords(T)
  BY ReadingChanges
<1>2. t.latestMeterWh <= meter /\ t.state # "ended"
  BY DEF RecordMeterValueAccepted
<1>3. /\ u.target = t.target /\ u.startMeterWh = t.startMeterWh /\ u.latestMeterWh = meter
      /\ u.consumedEnergyWh = meter - t.startMeterWh /\ u.state = t.state
      /\ u.chargingState = t.chargingState /\ u.endMeterWh = t.endMeterWh
  BY <1>1 DEF Changed
<1>4. t.startMeterWh \in Int /\ t.latestMeterWh \in Int
  BY DEF TransactionRecords
<1> HIDE DEF u
<1>5. Whole(u)
  BY <1>2, <1>3, <1>4 DEF Whole
<1>6. Succeeds(T, t, u)
  BY <1>1, <1>2, <1>3, <1>5 DEF Succeeds
<1> QED
  BY <1>3, <1>6 DEF u

\* Transactions stay whole (Transaction.ts): whatever legal call is made, the
\* meter does not go back, the energy is the difference of the readings, the
\* end is the last reading, and only an active transaction charges.
THEOREM MethodsKeepTransactions ==
    ASSUME NEW T, NEW t \in TransactionRecords(T), Whole(t), NEW by \in {"ev", "station"},
           NEW reason \in SUBSET STRING, NEW at \in Int, NEW meter \in Int
    PROVE  /\ ActivateAccepted(t) => Succeeds(T, t, Activate(t))
           /\ StartChargingAccepted(t) => Succeeds(T, t, StartCharging(t))
           /\ SuspendAccepted(t) => Succeeds(T, t, Suspend(t, by))
           /\ ResumeChargingAccepted(t) => Succeeds(T, t, ResumeCharging(t))
           /\ RecordMeterValueAccepted(t, meter) => Succeeds(T, t, RecordMeterValue(t, meter))
           /\ StartEndingAccepted(t) => Succeeds(T, t, StartEnding(t, reason))
           /\ EndAccepted(t, {}) => Succeeds(T, t, End(t, reason, at, {}))
           /\ EndAccepted(t, {meter}) => Succeeds(T, t, End(t, reason, at, {meter}))
<1>0. /\ t.latestMeterWh \in Int /\ t.startMeterWh \in Int /\ t.state \in TransactionStates
      /\ t.chargingState \in ChargingStates
  BY DEF TransactionRecords
<1> DEFINE Now(s, c) == Changed(t, t.latestMeterWh, t.consumedEnergyWh, s, c, t.endedAt,
                                t.endMeterWh, t.stopReason)
<1>1. ASSUME t.state \notin {"ending", "ended"}, NEW s \in {"active", "suspended"},
             NEW c \in ChargingStates, c = "charging" => s = "active"
      PROVE  Succeeds(T, t, Now(s, c))
  <2>1. s \in TransactionStates
    BY DEF TransactionStates
  <2>2. Now(s, c) \in TransactionRecords(T)
    BY <2>1, StatesChange
  <2>3. Whole(Now(s, c))
    BY <1>0, <1>1 DEF Whole, Changed
  <2> QED
    BY <1>0, <2>2, <2>3 DEF Succeeds, Changed
<1>2. ActivateAccepted(t) => Succeeds(T, t, Activate(t))
  <2>1. Activate(t) = Now("active", t.chargingState)
    BY <1>0, StatesChange DEF Activate, TransactionStates
  <2> QED
    BY <1>0, <1>1, <2>1 DEF ActivateAccepted
<1>3. StartChargingAccepted(t) => Succeeds(T, t, StartCharging(t))
  <2>1. StartCharging(t) = Now("active", "charging")
    BY StatesChange DEF StartCharging, TransactionStates, ChargingStates
  <2> QED
    BY <1>1, <2>1 DEF StartChargingAccepted, ChargingStates
<1>4. SuspendAccepted(t) => Succeeds(T, t, Suspend(t, by))
  <2> DEFINE c == IF by = "ev" THEN "suspended-by-ev" ELSE "suspended-by-station"
  <2>1. c \in ChargingStates /\ c # "charging" /\ "suspended" \in TransactionStates
    BY DEF ChargingStates, TransactionStates
  <2>2. Suspend(t, by) = CloneTransaction(t, [state |-> "suspended", chargingState |-> c])
    BY DEF Suspend
  <2> HIDE DEF c
  <2>3. Suspend(t, by) = Now("suspended", c)
    BY <2>1, <2>2, StatesChange
  <2> QED
    BY <1>1, <2>1, <2>3 DEF SuspendAccepted
<1>5. ResumeChargingAccepted(t) => Succeeds(T, t, ResumeCharging(t))
  <2>1. ResumeCharging(t) = Now("active", "charging")
    BY StatesChange DEF ResumeCharging, TransactionStates, ChargingStates
  <2> QED
    BY <1>1, <2>1 DEF ResumeChargingAccepted, ChargingStates
<1>6. RecordMeterValueAccepted(t, meter) => Succeeds(T, t, RecordMeterValue(t, meter))
  BY ReadingSucceeds
<1>7. StartEndingAccepted(t) => Succeeds(T, t, StartEnding(t, reason))
  <2> DEFINE u == Changed(t, t.latestMeterWh, t.consumedEnergyWh, "ending", "idle",
                          t.endedAt, t.endMeterWh, reason)
  <2>1. StartEnding(t, reason) = u /\ u \in TransactionRecords(T)
    BY EndingChanges
  <2>2. StartEndingAccepted(t) => Whole(u)
    BY <1>0 DEF Whole, Changed, StartEndingAccepted
  <2>3. u.target = t.target /\ u.startMeterWh = t.startMeterWh
        /\ u.latestMeterWh = t.latestMeterWh
    BY DEF Changed
  <2> QED
    BY <1>0, <2>1, <2>2, <2>3 DEF Succeeds
<1>8. ASSUME NEW v \in TransactionRecords(T), Succeeds(T, t, v)
      PROVE  Succeeds(T, t, CloneTransaction(v, [state |-> "ended", chargingState |-> "idle",
                 endedAt |-> {at}, endMeterWh |-> {v.latestMeterWh}, stopReason |-> reason]))
  <2> DEFINE u == Changed(v, v.latestMeterWh, v.consumedEnergyWh, "ended", "idle", {at},
                          {v.latestMeterWh}, reason)
  <2>1. /\ CloneTransaction(v, [state |-> "ended", chargingState |-> "idle", endedAt |-> {at},
                endMeterWh |-> {v.latestMeterWh}, stopReason |-> reason]) = u
        /\ u \in TransactionRecords(T)
    BY EndChanges
  <2>2. /\ u.target = v.target /\ u.startMeterWh = v.startMeterWh
        /\ u.latestMeterWh = v.latestMeterWh /\ u.consumedEnergyWh = v.consumedEnergyWh
        /\ u.state = "ended" /\ u.chargingState = "idle" /\ u.endMeterWh = {v.latestMeterWh}
    BY DEF Changed
  <2> HIDE DEF u
  <2>3. Whole(u)
    BY <1>8, <2>2 DEF Whole, Succeeds
  <2> QED
    BY <1>8, <2>1, <2>2, <2>3 DEF Succeeds
<1>9. EndAccepted(t, {}) => Succeeds(T, t, End(t, reason, at, {}))
  <2>1. Succeeds(T, t, t)
    BY <1>0 DEF Succeeds
  <2> QED
    BY <1>8, <2>1 DEF End
<1>10. EndAccepted(t, {meter}) => Succeeds(T, t, End(t, reason, at, {meter}))
  <2> SUFFICES ASSUME EndAccepted(t, {meter})
               PROVE  Succeeds(T, t, End(t, reason, at, {meter}))
    OBVIOUS
  <2>1. RecordMeterValueAccepted(t, meter)
    BY DEF EndAccepted
  <2>2. Succeeds(T, t, RecordMeterValue(t, meter))
    BY <2>1, ReadingSucceeds
  <2>3. RecordMeterValue(t, meter) \in TransactionRecords(T)
    BY ReadingChanges
  <2>4. (CHOOSE m \in {meter} : TRUE) = meter
    OBVIOUS
  <2> QED
    BY <1>8, <2>2, <2>3, <2>4 DEF End
<1> QED
  BY <1>2, <1>3, <1>4, <1>5, <1>6, <1>7, <1>9, <1>10

----------------------------------------------------------------------------
(* EVSEs and connectors *)

\* A replaced connector leaves the EVSE its id.
LEMMA ReplacedConnector ==
    ASSUME NEW e, {"id", "connectors"} \subseteq DOMAIN e, NEW c
    PROVE  /\ ReplaceConnector(e, c).id = e.id
           /\ ReplaceConnector(e, c).connectors = ReplacedById(e.connectors, c)
<1> DEFINE o == [connectors |-> ReplacedById(e.connectors, c)]
           g == Spread(e, o)
<1>1. DOMAIN o = {"connectors"} /\ o["connectors"] = ReplacedById(e.connectors, c)
  OBVIOUS
<1> HIDE DEF o
<1>2. {"id", "connectors"} \subseteq DOMAIN g
  BY DEF Spread
<1>3. g["id"] = e["id"] /\ g["connectors"] = ReplacedById(e.connectors, c)
  BY <1>1 DEF Spread
<1> HIDE DEF g
<1>4. \A d : Spread(d, g)["id"] = g["id"] /\ Spread(d, g)["connectors"] = g["connectors"]
  BY <1>2 DEF Spread
<1>5. ReplaceConnector(e, c) = NewEvse(g)
  BY DEF ReplaceConnector, CloneEvse, g, o
<1> QED
  BY <1>3, <1>4, <1>5 DEF NewEvse

\* A replaced EVSE takes its place among the others.
LEMMA ReplacedEvse ==
    ASSUME NEW p, "evses" \in DOMAIN p, NEW e
    PROVE  ReplaceEvse(p, e).evses = ReplacedById(p.evses, e)
<1> DEFINE o == [evses |-> ReplacedById(p.evses, e)]
           g == Spread(p, o)
<1>1. DOMAIN o = {"evses"} /\ o["evses"] = ReplacedById(p.evses, e)
  OBVIOUS
<1> HIDE DEF o
<1>2. "evses" \in DOMAIN g /\ g["evses"] = ReplacedById(p.evses, e)
  BY <1>1 DEF Spread
<1> HIDE DEF g
<1>3. \A d : Spread(d, g)["evses"] = g["evses"]
  BY <1>2 DEF Spread
<1>4. ReplaceEvse(p, e) = NewPoint(g)
  BY DEF ReplaceEvse, ClonePoint, g, o
<1> QED
  BY <1>2, <1>3, <1>4 DEF NewPoint

\* The projection is checked once, when the runtime is created (state.ts:152).
\* An update of the connector of one EVSE by one with the same number is
\* accepted, keeps the projection, and leaves every other EVSE as it is.
THEOREM UpdatesKeepProjection ==
    ASSUME NEW p, "evses" \in DOMAIN p, UniqueIds(p.evses), Ocpp16Projection(p),
           NEW n \in Nat, DOMAIN p.evses = 1..n,
           \A j \in 1..n : {"id", "connectors"} \subseteq DOMAIN p.evses[j],
           \A j \in 1..n : DOMAIN p.evses[j].connectors = 1..Len(p.evses[j].connectors),
           NEW i \in 1..n, NEW c, c.id = OnlyConnector(p.evses[i])
    PROVE  LET e == ReplaceConnector(p.evses[i], c)
               q == ReplaceEvse(p, e)
           IN  /\ ReplaceConnectorAccepted(p.evses[i], c) /\ ReplaceEvseAccepted(p, e)
               /\ UniqueIds(q.evses) /\ Ocpp16Projection(q)
               /\ q.evses[i].connectors = <<c>>
               /\ \A j \in (1..n) \ {i} : q.evses[j] = p.evses[j]
<1> DEFINE f == p.evses[i]
           e == ReplaceConnector(f, c)
           q == ReplaceEvse(p, e)
<1>1. Len(f.connectors) = 1 /\ DOMAIN f.connectors = 1..1 /\ c.id = f.connectors[1].id
  BY DEF Ocpp16Projection, OnlyConnector
<1>2. e.id = f.id /\ e.connectors = ReplacedById(f.connectors, c)
  BY ReplacedConnector
<1>3. e.connectors = <<c>>
  <2>1. e.connectors = [j \in 1..1 |-> IF f.connectors[j].id = c.id THEN c ELSE f.connectors[j]]
    BY <1>1, <1>2 DEF ReplacedById
  <2>2. \A j \in 1..1 : j = 1
    OBVIOUS
  <2>3. e.connectors = [j \in 1..1 |-> c]
    BY <1>1, <2>1, <2>2
  <2> QED
    BY <2>2, <2>3
<1>4. ReplaceConnectorAccepted(f, c)
  BY <1>1 DEF ReplaceConnectorAccepted, HasId
<1> HIDE DEF e
<1>5. ReplaceEvseAccepted(p, e)
  BY <1>2 DEF ReplaceEvseAccepted, HasId
<1>6. q.evses = ReplacedById(p.evses, e)
  BY ReplacedEvse
<1> HIDE DEF q
<1>7. q.evses = [j \in 1..n |-> IF j = i THEN e ELSE p.evses[j]]
  <2>1. \A j \in 1..n : p.evses[j].id = e.id <=> j = i
    BY <1>2 DEF UniqueIds
  <2> QED
    BY <1>6, <2>1 DEF ReplacedById
<1>8. /\ DOMAIN q.evses = 1..n /\ q.evses[i] = e
      /\ \A j \in (1..n) \ {i} : q.evses[j] = p.evses[j]
  BY <1>7
<1>9. UniqueIds(q.evses)
  <2>1. \A j \in 1..n : q.evses[j].id = p.evses[j].id
    BY <1>2, <1>8
  <2> QED
    BY <1>8, <2>1 DEF UniqueIds
<1>10. Ocpp16Projection(q)
  <2>1. OnlyConnector(e) = OnlyConnector(f) /\ Len(e.connectors) = 1
    BY <1>1, <1>3 DEF OnlyConnector
  <2>2. \A j \in 1..n : OnlyConnector(q.evses[j]) = OnlyConnector(p.evses[j])
    BY <1>8, <2>1
  <2>3. \A j \in 1..n : Len(q.evses[j].connectors) = 1
    BY <1>8, <2>1 DEF Ocpp16Projection
  <2> QED
    BY <1>8, <2>2, <2>3 DEF Ocpp16Projection
<1> QED
  BY <1>3, <1>4, <1>5, <1>8, <1>9, <1>10 DEF e, q

----------------------------------------------------------------------------
(* Listings *)

\* R orders S strictly: of two members exactly one comes first.
OrdersStrictly(R, S) ==
    /\ \A x \in S : <<x, x>> \notin R
    /\ \A x, y \in S : x # y => <<x, y>> \in R \/ <<y, x>> \in R
    /\ \A x, y, z \in S : <<x, y>> \in R /\ <<y, z>> \in R => <<x, z>> \in R

Before(x, R, S) == {y \in S : <<y, x>> \in R}

\* A finite set has a listing in every strict order of it: a member stands at
\* the number of those that come before it, plus one.
LEMMA ListingExists ==
    ASSUME NEW S, IsFiniteSet(S), NEW R, OrdersStrictly(R, S)
    PROVE  \E f \in [1 .. Cardinality(S) -> S] :
              \A i, j \in 1 .. Cardinality(S) : i < j => <<f[i], f[j]>> \in R
<1> DEFINE n == Cardinality(S)
           rank == [x \in S |-> Cardinality(Before(x, R, S)) + 1]
<1>0. n \in Nat
    BY FS_CardinalityType
<1>1. ASSUME NEW x \in S
      PROVE  IsFiniteSet(Before(x, R, S)) /\ Cardinality(Before(x, R, S)) \in Nat
             /\ Cardinality(Before(x, R, S)) < n
    <2>1. Before(x, R, S) \in SUBSET S /\ x \notin Before(x, R, S)
        BY DEF Before, OrdersStrictly
    <2>2. IsFiniteSet(Before(x, R, S)) /\ Cardinality(Before(x, R, S)) <= n
          /\ (n = Cardinality(Before(x, R, S)) => S = Before(x, R, S))
        BY <2>1, FS_Subset
    <2>3. Cardinality(Before(x, R, S)) \in Nat
        BY <2>2, FS_CardinalityType
    <2> QED
        BY <1>0, <2>1, <2>2, <2>3
<1>2. rank \in [S -> 1 .. n]
    BY <1>0, <1>1
<1>3. ASSUME NEW x \in S, NEW y \in S, <<x, y>> \in R
      PROVE  rank[x] < rank[y]
    <2>1. Before(x, R, S) \in SUBSET Before(y, R, S)
        BY <1>3 DEF Before, OrdersStrictly
    <2>2. x \in Before(y, R, S) /\ x \notin Before(x, R, S)
        BY <1>3 DEF Before, OrdersStrictly
    <2>3. Cardinality(Before(x, R, S)) <= Cardinality(Before(y, R, S))
          /\ (Cardinality(Before(y, R, S)) = Cardinality(Before(x, R, S))
                => Before(y, R, S) = Before(x, R, S))
        BY <1>1, <2>1, FS_Subset
    <2> QED
        BY <1>1, <2>2, <2>3
<1>4. \A x, y \in S : rank[x] = rank[y] => x = y
    <2> SUFFICES ASSUME NEW x \in S, NEW y \in S, rank[x] = rank[y], x # y
                 PROVE  FALSE
        OBVIOUS
    <2>1. <<x, y>> \in R \/ <<y, x>> \in R
        BY DEF OrdersStrictly
    <2>2. rank[x] \in Int /\ rank[y] \in Int
        BY <1>1
    <2> HIDE DEF rank
    <2> QED
        BY <1>3, <2>1, <2>2
<1> HIDE DEF rank
<1>5. rank \in Injection(S, 1 .. n)
    BY <1>2, <1>4 DEF Injection, IsInjective
<1>6. IsFiniteSet(1 .. n) /\ Cardinality(1 .. n) = n
    BY <1>0, FS_Interval
<1>7. rank \in Surjection(S, 1 .. n)
    BY <1>5, <1>6, FS_Injection
<1>8. \A i \in 1 .. n : \E x \in S : rank[x] = i
    BY <1>7 DEF Surjection
<1> DEFINE f == [i \in 1 .. n |-> CHOOSE x \in S : rank[x] = i]
<1>9. \A i \in 1 .. n : f[i] \in S /\ rank[f[i]] = i
    BY <1>8
<1>10. f \in [1 .. n -> S]
    BY <1>9
<1> HIDE DEF f
<1>11. ASSUME NEW i \in 1 .. n, NEW j \in 1 .. n, i < j
       PROVE  <<f[i], f[j]>> \in R
    <2>1. f[i] # f[j] /\ ~(rank[f[j]] < rank[f[i]])
        BY <1>9, <1>11, <1>0
    <2> QED
        BY <1>3, <1>9, <2>1 DEF OrdersStrictly
<1> QED
    BY <1>10, <1>11

\* What a listing is: every member once.
LEMMA ListingLists ==
    ASSUME NEW S, IsFiniteSet(S), NEW R, OrdersStrictly(R, S)
    PROVE  /\ Cardinality(S) \in Nat
           /\ Listing(S, R) \in [1 .. Cardinality(S) -> S]
           /\ \A i, j \in 1 .. Cardinality(S) :
                 i < j => <<Listing(S, R)[i], Listing(S, R)[j]>> \in R
           /\ \A i, j \in 1 .. Cardinality(S) : Listing(S, R)[i] = Listing(S, R)[j] => i = j
<1> DEFINE n == Cardinality(S)
<1>0. n \in Nat
    BY FS_CardinalityType
<1>1. /\ Listing(S, R) \in [1 .. n -> S]
      /\ \A i, j \in 1 .. n : i < j => <<Listing(S, R)[i], Listing(S, R)[j]>> \in R
    BY ListingExists DEF Listing
<1>2. ASSUME NEW i \in 1 .. n, NEW j \in 1 .. n, Listing(S, R)[i] = Listing(S, R)[j], i # j
      PROVE  FALSE
    <2>1. i < j \/ j < i
        BY <1>0, <1>2
    <2>2. Listing(S, R)[i] \in S /\ Listing(S, R)[j] \in S
        BY <1>1
    <2> HIDE DEF n
    <2> QED
        BY <1>1, <1>2, <2>1, <2>2 DEF OrdersStrictly
<1> QED
    BY <1>0, <1>1, <1>2

LEMMA AscendingOrders == \A S : S \subseteq Int => OrdersStrictly(Ascending(S), S)
  BY DEF OrdersStrictly, Ascending

\* The highest place among the connectors in use, where there is one.
LEMMA HighestPlace ==
    ASSUME NEW rs, Len(rs) \in Nat, \A i \in ActiveRows(rs) : rs[i].sort \in 0 .. Len(rs)
    PROVE  /\ MaxSortOrder(rs) \in 0 .. Len(rs)
           /\ \A i \in ActiveRows(rs) : rs[i].sort <= MaxSortOrder(rs)
<1> DEFINE bounds == {n \in Nat : \A i \in ActiveRows(rs) : rs[i].sort <= n}
           before == OpToRel(<, Nat)
<1>1. bounds \subseteq Nat /\ Len(rs) \in bounds
    OBVIOUS
<1>2. PICK n \in bounds : \A m \in bounds : ~(<<m, n>> \in before)
    BY <1>1, NatLessThanWellFounded, WFMin
<1>3. ASSUME NEW m \in bounds
      PROVE  n <= m
    <2>1. m \in Nat /\ n \in Nat /\ <<m, n>> \notin before
        BY <1>2
    <2>2. m < n => <<m, n>> \in before
        BY <2>1 DEF OpToRel
    <2> HIDE DEF before, bounds
    <2> QED
        BY <2>1, <2>2
<1> HIDE DEF before
<1>4. n \in 0 .. Len(rs)
    BY <1>1, <1>3
<1>5. ASSUME n # 0
      PROVE  \E i \in ActiveRows(rs) : rs[i].sort = n
    <2>1. n - 1 \in Nat /\ n - 1 \notin bounds
        BY <1>3, <1>4, <1>5
    <2>2. PICK i \in ActiveRows(rs) : ~(rs[i].sort <= n - 1)
        BY <2>1
    <2>3. rs[i].sort \in Nat /\ rs[i].sort <= n
        BY <1>2
    <2> QED
        BY <2>1, <1>4, <2>2, <2>3
<1> QED
    BY <1>4, <1>5 DEF MaxSortOrder

----------------------------------------------------------------------------
(* The inductive invariant. *)

Rows == [evse : Nat \ {0}, number : Nat \ {0}, sort : Nat, deleted : BOOLEAN, raced : BOOLEAN]
Seen == [id : Nat, evse : Nat \ {0}, number : Nat \ {0}]
Requests ==
    [kind : Kinds, at : Places, row : Nat, evse : Nat, number : Nat,
     old : [evse : Nat, number : Nat], sort : Nat, seen : Seq(Seen), answer : Nat,
     overtaken : BOOLEAN]

TypeOK ==
    /\ point \in {"none", "active", "deleted"}
    /\ rows \in Seq(Rows)
    /\ requests \in [Slots -> Requests]

\* Every place is taken once among the connectors in use: no place lies behind
\* its index, and where two connectors are out of order the later one was raced.
RowsInv(rs) ==
    /\ ~IndexRefuses(rs)
    /\ \A i \in DOMAIN rs : rs[i].sort <= i
    /\ \A i, j \in ActiveRows(rs) : i < j => rs[i].sort < rs[j].sort \/ rs[j].raced

\* What a request that creates a connector relies on, of the point at and the
\* rows rs; what it has checked still holds unless it was overtaken.
CreateInv(r, at, rs) ==
    r.kind = "createConnector" /\ r.at \in {"checked", "numbered", "ordered"} =>
        /\ r.evse # 0 /\ r.number # 0 /\ r.row = 0
        /\ r.at = "ordered" => r.sort <= Len(rs) + 1
        /\ ~r.overtaken =>
              /\ at = "active"
              /\ r.at # "checked" => ~NumbersTaken(rs, r.evse, r.number, 0)
              /\ r.at = "ordered" => \A i \in ActiveRows(rs) : rs[i].sort < r.sort

UpdateInv(r, rs) ==
    r.kind = "updateConnector" /\ r.at \in {"found", "numbered"} /\ ~r.overtaken =>
        /\ Active(rs, r.row)
        /\ r.at = "found" => r.old = [evse |-> rs[r.row].evse, number |-> rs[r.row].number]
        /\ r.at = "numbered" =>
              ~NumbersTaken(rs, OldIfKept(r.evse, rs[r.row].evse),
                            OldIfKept(r.number, rs[r.row].number), r.row)

\* An internal error is of a request that was overtaken, or of a number that
\* no column holds.
AnswerInv(r) ==
    r.answer = 500 => r.overtaken \/ TooLarge(r.evse) \/ TooLarge(r.number)

\* What one query reads: no EVSE and no number twice.
OneEach(seen) ==
    \A i, j \in DOMAIN seen : seen[i].evse = seen[j].evse \/ seen[i].number = seen[j].number => i = j

RequestInv(r, at, rs) ==
    CreateInv(r, at, rs) /\ UpdateInv(r, rs) /\ AnswerInv(r) /\ OneEach(r.seen)

IInv ==
    /\ TypeOK
    /\ RowsInv(rows)
    /\ point = "deleted" => \A i \in ActiveRows(rows) : rows[i].raced
    /\ \A s \in Slots : RequestInv(requests[s], point, rows)

USE DEF Kept

----------------------------------------------------------------------------
(* Steps of one request. *)

\* Answers are well formed, and rely on nothing.
LEMMA AnswerKeeps ==
    ASSUME NEW r \in Requests, NEW status \in Nat, NEW at, NEW rs,
           status = 500 => r.overtaken \/ TooLarge(r.evse) \/ TooLarge(r.number)
    PROVE  Answer(r, status) \in Requests /\ RequestInv(Answer(r, status), at, rs)
<1> DEFINE a == Answer(r, status)
<1>0. <<>> \in Seq(Seen) /\ DOMAIN <<>> = {}
    OBVIOUS
<1>1. a \in Requests
    BY <1>0 DEF Answer, Free, Requests, Places
<1>2. a.at = "answered" /\ a.answer = status /\ a.seen = <<>> /\ a.overtaken = r.overtaken
      /\ (status = 500 => a.evse = r.evse /\ a.number = r.number)
    BY DEF Answer, Free, Requests
<1> HIDE DEF a
<1>3. RequestInv(a, at, rs)
    BY <1>0, <1>2 DEF RequestInv, CreateInv, UpdateInv, AnswerInv, OneEach
<1> QED
    BY <1>1, <1>3 DEF a

\* A step of one request that leaves the stored point alone.
LEMMA OneRequest ==
    ASSUME IInv, NEW s \in Slots, NEW q \in Requests, RequestInv(q, point, rows),
           requests' = [requests EXCEPT ![s] = q], UNCHANGED <<point, rows>>
    PROVE  IInv'
<1>1. TypeOK'
    BY DEF IInv, TypeOK
<1>2. RowsInv(rows)' /\ (point = "deleted" => \A i \in ActiveRows(rows) : rows[i].raced)'
    BY DEF IInv
<1>3. ASSUME NEW o \in Slots
      PROVE  RequestInv(requests'[o], point, rows)
    BY DEF IInv, TypeOK
<1> QED
    BY <1>1, <1>2, <1>3 DEF IInv

LEMMA AnsweredKeeps ==
    ASSUME IInv, NEW s \in Slots, NEW status \in Nat, Answered(s, status),
           status = 500 => \/ requests[s].overtaken
                           \/ TooLarge(requests[s].evse) \/ TooLarge(requests[s].number),
           UNCHANGED <<point, rows>>
    PROVE  IInv'
<1>1. requests[s] \in Requests
    BY DEF IInv, TypeOK
<1>2. Answer(requests[s], status) \in Requests
      /\ RequestInv(Answer(requests[s], status), point, rows)
    BY <1>1, AnswerKeeps
<1> QED
    BY <1>2, OneRequest DEF Answered

\* A request that is overtaken relies on nothing any more.
LEMMA OvertakenKeeps ==
    ASSUME NEW r \in Requests, NEW at, NEW now, NEW rs, NEW next, RequestInv(r, at, rs),
           Len(rs) \in Nat, Len(next) \in Nat, Len(rs) <= Len(next)
    PROVE  LET q == [r EXCEPT !.overtaken =
                        \/ @
                        \/ r.at \in {"checked", "found", "numbered", "ordered"}
                           /\ r.kind \in {"createConnector", "updateConnector"}]
           IN  q \in Requests /\ RequestInv(q, now, next)
<1> DEFINE q == [r EXCEPT !.overtaken =
                        \/ @
                        \/ r.at \in {"checked", "found", "numbered", "ordered"}
                           /\ r.kind \in {"createConnector", "updateConnector"}]
<1>1. /\ q \in Requests
      /\ q.kind = r.kind /\ q.at = r.at /\ q.row = r.row /\ q.evse = r.evse
      /\ q.number = r.number /\ q.sort = r.sort /\ q.seen = r.seen /\ q.answer = r.answer
      /\ r.overtaken => q.overtaken
      /\ r.at \in {"checked", "found", "numbered", "ordered"}
         /\ r.kind \in {"createConnector", "updateConnector"} => q.overtaken
    BY DEF Requests
<1>2. r.sort \in Nat
    BY DEF Requests
<1> HIDE DEF q
<1>3. CreateInv(q, now, next)
    BY <1>1, <1>2 DEF RequestInv, CreateInv
<1>4. UpdateInv(q, next)
    BY <1>1 DEF RequestInv, UpdateInv
<1>5. AnswerInv(q) /\ OneEach(q.seen)
    BY <1>1 DEF RequestInv, AnswerInv, OneEach
<1> QED
    BY <1>1, <1>3, <1>4, <1>5 DEF RequestInv, q

\* A step that writes rows.
LEMMA WriteKeeps ==
    ASSUME IInv, NEW s \in Slots, NEW status \in Nat, status # 500, Writes(s, status),
           point' \in {"none", "active", "deleted"}, rows' \in Seq(Rows),
           Len(rows) <= Len(rows'), RowsInv(rows'),
           point' = "deleted" => \A i \in ActiveRows(rows') : rows'[i].raced
    PROVE  IInv'
<1>1. ASSUME NEW o \in Slots
      PROVE  requests'[o] \in Requests /\ RequestInv(requests'[o], point', rows')
    <2>1. requests[o] \in Requests /\ RequestInv(requests[o], point, rows)
        BY DEF IInv, TypeOK
    <2>2. CASE o = s
        <3>1. requests'[o] = Answer(requests[o], status)
            BY <2>2 DEF Writes
        <3> QED
            BY <2>1, <3>1, AnswerKeeps
    <2>3. CASE o # s
        <3>1. requests'[o] = [requests[o] EXCEPT !.overtaken =
                 \/ @
                 \/ requests[o].at \in {"checked", "found", "numbered", "ordered"}
                    /\ requests[o].kind \in {"createConnector", "updateConnector"}]
            BY <2>3 DEF Writes
        <3>2. Len(rows) \in Nat /\ Len(rows') \in Nat
            BY DEF IInv, TypeOK
        <3> QED
            BY <2>1, <3>1, <3>2, OvertakenKeeps
    <2> QED
        BY <2>2, <2>3
<1>2. requests' \in [Slots -> Requests]
    BY <1>1 DEF Writes
<1> QED
    BY <1>1, <1>2 DEF IInv, TypeOK

\* A function on the first numbers is a sequence.
LEMMA ListOf == ASSUME NEW S, NEW n \in Nat, NEW f \in [1 .. n -> S] PROVE f \in Seq(S) /\ Len(f) = n
  OBVIOUS

\* What the connectors of one query look like.
LEMMA ListKeeps ==
    ASSUME NEW rs \in Seq(Rows), ~IndexRefuses(rs)
    PROVE  ListActiveConnectors(rs) \in Seq(Seen) /\ OneEach(ListActiveConnectors(rs))
<1> DEFINE S == ActiveRows(rs)
           R == InListOrder(rs)
           order == Listing(S, R)
           n == Cardinality(S)
           list == ListActiveConnectors(rs)
<1>1. Len(rs) \in Nat /\ DOMAIN rs = 1 .. Len(rs) /\ \A i \in DOMAIN rs : rs[i] \in Rows
    OBVIOUS
<1>2. S \in SUBSET (1 .. Len(rs))
    BY <1>1 DEF ActiveRows
<1>3. IsFiniteSet(S)
    <2>1. IsFiniteSet(1 .. Len(rs))
        BY <1>1, FS_Interval
    <2> QED
        BY <1>2, <2>1, FS_Subset
<1>4. \A i \in S : rs[i].sort \in Int /\ i \in Int
    BY <1>1, <1>2 DEF Rows
<1>5. OrdersStrictly(R, S)
    <2>1. \A x, y \in S : <<x, y>> \in R <=>
               (rs[x].sort < rs[y].sort \/ (rs[x].sort = rs[y].sort /\ x < y))
        BY DEF InListOrder
    <2> HIDE DEF R, S
    <2> QED
        BY <1>4, <2>1 DEF OrdersStrictly
<1> HIDE DEF R
<1>6. /\ n \in Nat
      /\ order \in [1 .. n -> S]
      /\ \A i, j \in 1 .. n : order[i] = order[j] => i = j
    BY <1>3, <1>5, ListingLists
<1> HIDE DEF order
<1>7. list = [k \in 1 .. n |->
                 [id |-> order[k], evse |-> rs[order[k]].evse, number |-> rs[order[k]].number]]
    BY DEF ListActiveConnectors, order, R
<1> HIDE DEF list
<1>8. ASSUME NEW k \in 1 .. n
      PROVE  /\ list[k] \in Seen
             /\ list[k].evse = rs[order[k]].evse
             /\ list[k].number = rs[order[k]].number
             /\ order[k] \in S
    <2>1. order[k] \in S /\ order[k] \in 1 .. Len(rs)
        BY <1>2, <1>6
    <2>2. rs[order[k]] \in Rows /\ order[k] \in Nat
        BY <1>1, <2>1
    <2> HIDE DEF n, S
    <2>3. list[k] = [id |-> order[k], evse |-> rs[order[k]].evse, number |-> rs[order[k]].number]
        BY <1>7
    <2> QED
        BY <2>1, <2>2, <2>3 DEF Seen, Rows
<1>9. DOMAIN list = 1 .. n
    BY <1>7
<1>10. list \in Seq(Seen)
    BY <1>6, <1>7, <1>8
<1>11. OneEach(list)
    <2> SUFFICES ASSUME NEW i \in 1 .. n, NEW j \in 1 .. n, i # j,
                        list[i].evse = list[j].evse \/ list[i].number = list[j].number
                 PROVE  FALSE
        BY <1>9 DEF OneEach
    <2>1. order[i] # order[j] /\ order[i] \in S /\ order[j] \in S
        BY <1>6
    <2> QED
        BY <1>8, <2>1 DEF IndexRefuses
<1> QED
    BY <1>10, <1>11 DEF list

LEMMA InitKeeps == Init => IInv
<1> SUFFICES ASSUME Init PROVE IInv
    OBVIOUS
<1>0. rows = <<>> /\ <<>> \in Seq(Rows) /\ <<>> \in Seq(Seen) /\ DOMAIN rows = {} /\ DOMAIN <<>> = {}
    BY DEF Init
<1>1. Free \in Requests
    BY <1>0 DEF Free, Requests, Kinds, Places
<1>2. TypeOK
    BY <1>0, <1>1 DEF Init, TypeOK
<1>3. ActiveRows(rows) = {}
    BY <1>0 DEF ActiveRows
<1>4. RowsInv(rows)
    BY <1>0, <1>3 DEF RowsInv, IndexRefuses
<1>5. RequestInv(Free, point, rows)
    BY <1>0 DEF RequestInv, CreateInv, UpdateInv, AnswerInv, OneEach, Free
<1> QED
    BY <1>2, <1>3, <1>4, <1>5 DEF IInv, Init

LEMMA CreatePointKeeps == IInv /\ CreatePoint => IInv'
<1> SUFFICES ASSUME IInv, CreatePoint PROVE IInv'
    OBVIOUS
<1>1. TypeOK' /\ RowsInv(rows') /\ point' # "deleted"
    BY DEF IInv, TypeOK, CreatePoint
<1>2. ASSUME NEW s \in Slots
      PROVE  RequestInv(requests[s], point', rows)
    BY DEF IInv, CreatePoint, RequestInv, CreateInv
<1> QED
    BY <1>1, <1>2 DEF IInv, CreatePoint

LEMMA CheckPointKeeps == ASSUME IInv, NEW s \in Slots, CheckPoint(s) PROVE IInv'
<1>1. PICK kind \in Kinds, row \in 0 .. Len(rows), evse \in Numbers \cup {Kept},
           number \in Numbers \cup {Kept} :
          /\ Asked(kind, row, evse, number)
          /\ LET r == [Free EXCEPT !.kind = kind, !.at = "checked", !.row = row,
                                   !.evse = evse, !.number = number]
             IN  requests' = [requests EXCEPT ![s] =
                    IF point = "active" THEN r ELSE Answer(r, 404)]
    BY DEF CheckPoint
<1> DEFINE r == [Free EXCEPT !.kind = kind, !.at = "checked", !.row = row,
                             !.evse = evse, !.number = number]
<1>0. <<>> \in Seq(Seen) /\ DOMAIN <<>> = {} /\ Len(rows) \in Nat
    BY DEF IInv, TypeOK
<1>2. evse \in Nat /\ number \in Nat /\ row \in Nat
    BY <1>0, ResourcesAssumption
<1>3. r \in Requests
    BY <1>0, <1>2 DEF Free, Requests, Places
<1>4. /\ r.kind = kind /\ r.at = "checked" /\ r.row = row /\ r.evse = evse /\ r.number = number
      /\ r.answer = 0 /\ r.seen = <<>>
      /\ kind = "createConnector" => evse # 0 /\ number # 0 /\ row = 0
    BY <1>1 DEF Free, Asked
<1> HIDE DEF r
<1>5. point = "active" => RequestInv(r, point, rows)
    BY <1>0, <1>4 DEF RequestInv, CreateInv, UpdateInv, AnswerInv, OneEach
<1>6. Answer(r, 404) \in Requests /\ RequestInv(Answer(r, 404), point, rows)
    BY <1>3, AnswerKeeps
<1>7. requests' = [requests EXCEPT ![s] = IF point = "active" THEN r ELSE Answer(r, 404)]
      /\ UNCHANGED <<point, rows>>
    BY <1>1 DEF r, CheckPoint
<1>8. CASE point = "active"
    <2>1. requests' = [requests EXCEPT ![s] = r]
        BY <1>7, <1>8
    <2> QED
        BY <1>3, <1>5, <1>7, <1>8, <2>1, OneRequest
<1>9. CASE point # "active"
    <2>1. requests' = [requests EXCEPT ![s] = Answer(r, 404)]
        BY <1>7, <1>9
    <2> QED
        BY <1>6, <1>7, <2>1, OneRequest
<1> QED
    BY <1>8, <1>9

LEMMA RefuseAddressKeeps == ASSUME IInv, NEW s \in Slots, RefuseAddress(s) PROVE IInv'
  BY AnsweredKeeps DEF RefuseAddress

LEMMA FindConnectorKeeps == ASSUME IInv, NEW s \in Slots, FindConnector(s) PROVE IInv'
<1> DEFINE r == requests[s]
           q == [r EXCEPT !.at = "found",
                          !.old = [evse |-> rows[r.row].evse, number |-> rows[r.row].number]]
<1>1. r \in Requests /\ RequestInv(r, point, rows) /\ UNCHANGED <<point, rows>>
    BY DEF IInv, TypeOK, FindConnector
<1>2. CASE Answered(s, 404) \/ Answered(s, 200)
    BY <1>1, <1>2, AnsweredKeeps
<1>3. CASE Active(rows, r.row) /\ requests' = [requests EXCEPT ![s] = q]
    <2>1. rows[r.row] \in Rows
        BY <1>3 DEF Active, IInv, TypeOK
    <2>2. /\ q \in Requests /\ q.at = "found" /\ q.kind = r.kind /\ q.row = r.row
          /\ q.old = [evse |-> rows[r.row].evse, number |-> rows[r.row].number]
          /\ q.evse = r.evse /\ q.number = r.number /\ q.answer = r.answer
          /\ q.overtaken = r.overtaken /\ q.seen = r.seen
        BY <1>1, <2>1 DEF Requests, Places, Rows
    <2> HIDE DEF q
    <2>3. RequestInv(q, point, rows)
        BY <1>1, <1>3, <2>2 DEF RequestInv, CreateInv, UpdateInv, AnswerInv, OneEach
    <2> QED
        BY <1>1, <1>3, <2>2, <2>3, OneRequest
<1>4. CASE ~Active(rows, r.row)
    BY <1>2, <1>4 DEF FindConnector
<1>5. CASE Active(rows, r.row) /\ r.kind = "getConnector"
    BY <1>2, <1>5 DEF FindConnector
<1>6. CASE Active(rows, r.row) /\ r.kind # "getConnector"
    <2>1. requests' = [requests EXCEPT ![s].at = "found",
               ![s].old = [evse |-> rows[r.row].evse, number |-> rows[r.row].number]]
        BY <1>6, Zenon DEF FindConnector
    <2>2. requests' = [requests EXCEPT ![s] = q]
        BY <2>1 DEF IInv, TypeOK
    <2> QED
        BY <1>3, <1>6, <2>2
<1> QED
    BY <1>4, <1>5, <1>6

LEMMA EnsureNumbersKeeps == ASSUME IInv, NEW s \in Slots, EnsureNumbersAvailable(s) PROVE IInv'
<1> DEFINE r == requests[s]
           evse == OldIfKept(r.evse, r.old.evse)
           number == OldIfKept(r.number, r.old.number)
           q == [r EXCEPT !.at = "numbered", !.old = Free.old]
<1>1. r \in Requests /\ RequestInv(r, point, rows) /\ UNCHANGED <<point, rows>>
    BY DEF IInv, TypeOK, EnsureNumbersAvailable
<1>2. CASE NumbersTaken(rows, evse, number, r.row)
    <2>1. Answered(s, 409)
        BY <1>2 DEF EnsureNumbersAvailable
    <2> QED
        BY <1>1, <2>1, AnsweredKeeps
<1>3. CASE ~NumbersTaken(rows, evse, number, r.row)
    <2>1. requests' = [requests EXCEPT ![s].at = "numbered", ![s].old = Free.old]
        BY <1>3, Zenon DEF EnsureNumbersAvailable
    <2>2. requests' = [requests EXCEPT ![s] = q]
        BY <2>1 DEF IInv, TypeOK
    <2>3. /\ q \in Requests /\ q.at = "numbered" /\ q.kind = r.kind /\ q.row = r.row
          /\ q.evse = r.evse /\ q.number = r.number /\ q.answer = r.answer
          /\ q.overtaken = r.overtaken /\ q.seen = r.seen
        BY <1>1 DEF Requests, Places, Free
    <2>4. (r.kind = "createConnector" /\ r.at = "checked")
          \/ (r.kind = "updateConnector" /\ r.at = "found")
        BY DEF EnsureNumbersAvailable
    <2> HIDE DEF q
    <2>5. CreateInv(q, point, rows)
        <3>1. SUFFICES ASSUME r.kind = "createConnector", r.at = "checked"
                       PROVE  CreateInv(q, point, rows)
            BY <2>3, <2>4 DEF CreateInv
        <3>2. r.evse # 0 /\ r.number # 0 /\ r.row = 0 /\ (~r.overtaken => point = "active")
            BY <1>1, <3>1 DEF RequestInv, CreateInv
        <3>3. ~NumbersTaken(rows, r.evse, r.number, 0)
            BY <1>3, <3>2 DEF OldIfKept
        <3> QED
            BY <2>3, <3>2, <3>3 DEF CreateInv
    <2>6. UpdateInv(q, rows)
        <3>1. SUFFICES ASSUME r.kind = "updateConnector", r.at = "found", ~r.overtaken
                       PROVE  UpdateInv(q, rows)
            BY <2>3, <2>4 DEF UpdateInv
        <3>2. Active(rows, r.row)
              /\ r.old = [evse |-> rows[r.row].evse, number |-> rows[r.row].number]
            BY <1>1, <3>1 DEF RequestInv, UpdateInv
        <3>3. ~NumbersTaken(rows, OldIfKept(r.evse, rows[r.row].evse),
                            OldIfKept(r.number, rows[r.row].number), r.row)
            BY <1>3, <3>2
        <3> QED
            BY <2>3, <3>2, <3>3 DEF UpdateInv
    <2>7. RequestInv(q, point, rows)
        BY <1>1, <2>3, <2>5, <2>6 DEF RequestInv, AnswerInv, OneEach
    <2> QED
        BY <1>1, <2>2, <2>3, <2>7, OneRequest
<1> QED
    BY <1>2, <1>3

LEMMA ReadSortOrderKeeps == ASSUME IInv, NEW s \in Slots, ReadSortOrder(s) PROVE IInv'
<1> DEFINE r == requests[s]
           top == MaxSortOrder(rows)
           q == [r EXCEPT !.at = "ordered", !.sort = top + 1]
<1>1. r \in Requests /\ RequestInv(r, point, rows) /\ UNCHANGED <<point, rows>>
      /\ r.kind = "createConnector" /\ r.at = "numbered"
    BY DEF IInv, TypeOK, ReadSortOrder
<1>2. Len(rows) \in Nat /\ DOMAIN rows = 1 .. Len(rows) /\ \A i \in DOMAIN rows : rows[i] \in Rows
    BY DEF IInv, TypeOK
<1>3. \A i \in ActiveRows(rows) : rows[i].sort \in 0 .. Len(rows)
    BY <1>2 DEF IInv, RowsInv, ActiveRows, Rows
<1>4. top \in 0 .. Len(rows) /\ \A i \in ActiveRows(rows) : rows[i].sort <= top
    BY <1>2, <1>3, HighestPlace
<1> HIDE DEF top
<1>5. requests' = [requests EXCEPT ![s] = q]
    BY DEF IInv, TypeOK, ReadSortOrder, top
<1>6. /\ q \in Requests /\ q.at = "ordered" /\ q.kind = r.kind /\ q.row = r.row
      /\ q.evse = r.evse /\ q.number = r.number /\ q.answer = r.answer /\ q.sort = top + 1
      /\ q.overtaken = r.overtaken /\ q.seen = r.seen
    <2>1. top + 1 \in Nat
        BY <1>2, <1>4
    <2> QED
        BY <1>1, <2>1 DEF Requests, Places
<1> HIDE DEF q
<1>7. CreateInv(q, point, rows)
    <2>1. q.sort <= Len(rows) + 1 /\ \A i \in ActiveRows(rows) : rows[i].sort < q.sort
        BY <1>2, <1>3, <1>4, <1>6
    <2> QED
        BY <1>1, <1>6, <2>1 DEF RequestInv, CreateInv
<1>8. RequestInv(q, point, rows)
    BY <1>1, <1>6, <1>7 DEF RequestInv, UpdateInv, AnswerInv, OneEach
<1> QED
    BY <1>1, <1>5, <1>6, <1>8, OneRequest

\* A statement that would write rows: refused by the database or carried out.
LEMMA StatementKeeps ==
    ASSUME IInv, NEW s \in Slots, NEW changed \in Seq(Rows), NEW status \in Nat, status # 500,
           Statement(s, changed, status), point' = point,
           Len(rows) <= Len(changed),
           ~requests[s].overtaken => ~IndexRefuses(changed),
           ~IndexRefuses(changed) => RowsInv(changed),
           point = "deleted" => \A i \in ActiveRows(changed) : changed[i].raced
    PROVE  IInv'
<1>1. CASE TooLarge(requests[s].evse) \/ TooLarge(requests[s].number) \/ IndexRefuses(changed)
    <2>1. Answered(s, 500) /\ UNCHANGED rows
        BY <1>1 DEF Statement
    <2> QED
        BY <1>1, <2>1, AnsweredKeeps
<1>2. CASE ~(TooLarge(requests[s].evse) \/ TooLarge(requests[s].number) \/ IndexRefuses(changed))
    <2>1. Writes(s, status) /\ rows' = changed
        BY <1>2 DEF Statement
    <2>2. point' \in {"none", "active", "deleted"}
        BY DEF IInv, TypeOK
    <2> QED
        BY <1>2, <2>1, <2>2, WriteKeeps
<1> QED
    BY <1>1, <1>2

LEMMA InsertKeeps == ASSUME IInv, NEW s \in Slots, InsertConnector(s) PROVE IInv'
<1> DEFINE r == requests[s]
           row == [evse |-> r.evse, number |-> r.number, sort |-> r.sort,
                   deleted |-> FALSE, raced |-> r.overtaken]
           n == Len(rows) + 1
           changed == Append(rows, row)
<1>1. r \in Requests /\ RequestInv(r, point, rows) /\ point' = point
      /\ r.kind = "createConnector" /\ r.at = "ordered"
      /\ Statement(s, changed, 201)
    BY DEF IInv, TypeOK, InsertConnector
<1>2. Len(rows) \in Nat /\ DOMAIN rows = 1 .. Len(rows) /\ \A i \in DOMAIN rows : rows[i] \in Rows
    BY DEF IInv, TypeOK
<1>3. /\ r.evse # 0 /\ r.number # 0 /\ r.sort <= n
      /\ ~r.overtaken => /\ point = "active"
                         /\ ~NumbersTaken(rows, r.evse, r.number, 0)
                         /\ \A i \in ActiveRows(rows) : rows[i].sort < r.sort
    BY <1>1 DEF RequestInv, CreateInv
<1>4. row \in Rows
    BY <1>1, <1>3 DEF Requests, Rows
<1>5. /\ row.evse = r.evse /\ row.number = r.number /\ row.sort = r.sort
      /\ row.deleted = FALSE /\ row.raced = r.overtaken
    OBVIOUS
<1> HIDE DEF row
<1>6. /\ changed \in Seq(Rows)
      /\ Len(changed) = n
      /\ DOMAIN changed = 1 .. n
      /\ changed[n] = row
      /\ \A i \in 1 .. Len(rows) : changed[i] = rows[i]
    BY <1>2, <1>4 DEF IInv, TypeOK
<1>6a. Statement(s, changed, 201)
    BY <1>1 DEF row
<1> HIDE DEF changed
<1>7. /\ ActiveRows(rows) \subseteq 1 .. Len(rows)
      /\ ActiveRows(changed) = ActiveRows(rows) \cup {n}
      /\ \A i \in ActiveRows(rows) : changed[i] = rows[i] /\ i # n
    BY <1>2, <1>5, <1>6 DEF ActiveRows
<1>8. ASSUME ~r.overtaken
      PROVE  ~IndexRefuses(changed)
    <2>1. \A i \in ActiveRows(rows) : rows[i].evse # row.evse /\ rows[i].number # row.number
        BY <1>2, <1>3, <1>5, <1>7, <1>8 DEF NumbersTaken
    <2>2. ~IndexRefuses(rows)
        BY DEF IInv, RowsInv
    <2> QED
        BY <1>6, <1>7, <2>1, <2>2 DEF IndexRefuses
<1>9. ASSUME ~IndexRefuses(changed)
      PROVE  RowsInv(changed)
    <2>1. \A i \in DOMAIN changed : changed[i].sort <= i
        BY <1>2, <1>3, <1>5, <1>6 DEF IInv, RowsInv
    <2>2. ASSUME NEW i \in ActiveRows(changed), NEW j \in ActiveRows(changed), i < j
          PROVE  changed[i].sort < changed[j].sort \/ changed[j].raced
        <3>1. i \in ActiveRows(rows)
            BY <1>2, <1>7, <2>2
        <3>2. CASE j = n
            BY <1>3, <1>5, <1>6, <1>7, <3>1, <3>2
        <3>3. CASE j \in ActiveRows(rows)
            BY <1>7, <2>2, <3>1, <3>3 DEF IInv, RowsInv
        <3> QED
            BY <1>7, <3>2, <3>3
    <2> QED
        BY <1>9, <2>1, <2>2 DEF RowsInv
<1>10. ASSUME point = "deleted"
       PROVE  \A i \in ActiveRows(changed) : changed[i].raced
    BY <1>3, <1>5, <1>6, <1>7, <1>10 DEF IInv
<1>11. Len(rows) <= Len(changed)
    BY <1>2, <1>6
<1> QED
    BY <1>1, <1>6, <1>6a, <1>8, <1>9, <1>10, <1>11, StatementKeeps

\* Connectors that are deleted leave the rest in order.
LEMMA DeletedKeep ==
    ASSUME IInv, NEW S \in SUBSET DOMAIN rows, NEW changed,
           changed = [i \in DOMAIN rows |-> IF i \in S THEN [rows[i] EXCEPT !.deleted = TRUE]
                                            ELSE rows[i]]
    PROVE  /\ changed \in Seq(Rows)
           /\ Len(changed) = Len(rows)
           /\ RowsInv(changed)
           /\ ActiveRows(changed) = ActiveRows(rows) \ S
           /\ \A i \in DOMAIN rows : changed[i].raced = rows[i].raced
<1>1. Len(rows) \in Nat /\ DOMAIN rows = 1 .. Len(rows) /\ \A i \in DOMAIN rows : rows[i] \in Rows
    BY DEF IInv, TypeOK
<1>2. ASSUME NEW i \in DOMAIN rows
      PROVE  /\ changed[i] \in Rows
             /\ changed[i].evse = rows[i].evse /\ changed[i].number = rows[i].number
             /\ changed[i].sort = rows[i].sort /\ changed[i].raced = rows[i].raced
             /\ changed[i].deleted = (rows[i].deleted \/ i \in S)
    BY <1>1 DEF Rows
<1>3. DOMAIN changed = 1 .. Len(rows)
    BY <1>1
<1>4. changed \in Seq(Rows) /\ Len(changed) = Len(rows)
    <2>1. changed \in [1 .. Len(rows) -> Rows]
        BY <1>1, <1>2
    <2> QED
        BY <1>1, <2>1, ListOf
<1>5. ActiveRows(changed) = ActiveRows(rows) \ S
    BY <1>1, <1>2, <1>3 DEF ActiveRows
<1>6. \A i \in ActiveRows(rows) : i \in DOMAIN rows
    BY DEF ActiveRows
<1>7. ~IndexRefuses(changed)
    BY <1>2, <1>5, <1>6 DEF IInv, RowsInv, IndexRefuses
<1>8. \A i \in DOMAIN changed : changed[i].sort <= i
    BY <1>1, <1>2, <1>3 DEF IInv, RowsInv
<1>9. \A i, j \in ActiveRows(changed) : i < j => changed[i].sort < changed[j].sort \/ changed[j].raced
    BY <1>2, <1>5, <1>6 DEF IInv, RowsInv
<1> QED
    BY <1>2, <1>4, <1>5, <1>7, <1>8, <1>9 DEF RowsInv

LEMMA DeleteKeeps == ASSUME IInv, NEW s \in Slots, DeleteConnector(s) PROVE IInv'
<1> DEFINE row == requests[s].row
           S == IF Active(rows, row) THEN {row} ELSE {}
           changed == [i \in DOMAIN rows |-> IF i \in S THEN [rows[i] EXCEPT !.deleted = TRUE]
                                             ELSE rows[i]]
<1>1. rows' = changed
    <2>1. rows = [i \in DOMAIN rows |-> rows[i]]
        BY DEF IInv, TypeOK
    <2>2. CASE ~Active(rows, row)
        BY <2>1, <2>2 DEF DeleteConnector
    <2>3. CASE Active(rows, row)
        <3>1. rows' = [rows EXCEPT ![row].deleted = TRUE]
            BY <2>3 DEF DeleteConnector
        <3> QED
            BY <2>1, <2>3, <3>1
    <2> QED
        BY <2>2, <2>3
<1>2. S \in SUBSET DOMAIN rows
    BY DEF Active
<1> HIDE DEF S
<1>3. /\ changed \in Seq(Rows) /\ Len(changed) = Len(rows) /\ RowsInv(changed)
      /\ ActiveRows(changed) = ActiveRows(rows) \ S
      /\ \A i \in DOMAIN rows : changed[i].raced = rows[i].raced
    BY <1>2, DeletedKeep
<1> HIDE DEF changed
<1>4. point = "deleted" => \A i \in ActiveRows(changed) : changed[i].raced
    BY <1>3 DEF IInv, ActiveRows
<1>5. Writes(s, 204) /\ point' = point /\ point \in {"none", "active", "deleted"}
      /\ Len(rows) <= Len(changed)
    BY <1>3 DEF DeleteConnector, IInv, TypeOK
<1> QED
    BY <1>1, <1>3, <1>4, <1>5, WriteKeeps

LEMMA DeletePointKeeps == ASSUME IInv, NEW s \in Slots, DeletePoint(s) PROVE IInv'
<1> DEFINE S == DOMAIN rows
           changed == [i \in DOMAIN rows |-> IF i \in S THEN [rows[i] EXCEPT !.deleted = TRUE]
                                             ELSE rows[i]]
<1>1. rows' = changed
    BY DEF DeletePoint
<1>2. S \in SUBSET DOMAIN rows
    OBVIOUS
<1> HIDE DEF S
<1>3. /\ changed \in Seq(Rows) /\ Len(changed) = Len(rows) /\ RowsInv(changed)
      /\ ActiveRows(changed) = ActiveRows(rows) \ S
    BY <1>2, DeletedKeep
<1> HIDE DEF changed
<1>4. ActiveRows(changed) = {}
    BY <1>3 DEF ActiveRows, S
<1>5. Writes(s, 204) /\ point' = "deleted" /\ Len(rows) <= Len(changed)
    BY <1>3 DEF DeletePoint, IInv, TypeOK
<1> QED
    BY <1>1, <1>3, <1>4, <1>5, WriteKeeps

LEMMA UpdateRowKeeps == ASSUME IInv, NEW s \in Slots, UpdateConnectorRow(s) PROVE IInv'
<1> DEFINE r == requests[s]
           changed == IF ~Active(rows, r.row) THEN rows
                      ELSE [rows EXCEPT ![r.row].evse = OldIfKept(r.evse, @),
                                        ![r.row].number = OldIfKept(r.number, @)]
<1>1. r \in Requests /\ RequestInv(r, point, rows) /\ point' = point
      /\ r.kind = "updateConnector" /\ r.at = "numbered"
    BY DEF IInv, TypeOK, UpdateConnectorRow
<1>2. RowsInv(rows) /\ Len(rows) \in Nat /\ DOMAIN rows = 1 .. Len(rows)
      /\ \A i \in DOMAIN rows : rows[i] \in Rows
    BY DEF IInv, TypeOK
<1>3. \/ Statement(s, changed, 200)
      \/ ~Active(rows, r.row) /\ Answered(s, 404) /\ UNCHANGED rows
    BY Zenon DEF UpdateConnectorRow
<1>4. CASE ~Active(rows, r.row) /\ Answered(s, 404) /\ UNCHANGED rows
    BY <1>1, <1>4, AnsweredKeeps
<1>5. CASE ~Active(rows, r.row) /\ Statement(s, changed, 200)
    <2>1. Statement(s, rows, 200) /\ rows \in Seq(Rows)
        BY <1>5 DEF IInv, TypeOK
    <2>2. ~IndexRefuses(rows) /\ (point = "deleted" => \A i \in ActiveRows(rows) : rows[i].raced)
        BY DEF IInv, RowsInv
    <2> QED
        BY <1>1, <1>2, <1>5, <2>1, <2>2, StatementKeeps
<1>6. CASE Active(rows, r.row) /\ Statement(s, changed, 200)
    <2> DEFINE evse == OldIfKept(r.evse, rows[r.row].evse)
               number == OldIfKept(r.number, rows[r.row].number)
    <2>1. changed = [rows EXCEPT ![r.row] = [rows[r.row] EXCEPT !.evse = evse, !.number = number]]
        <3>1. changed = [rows EXCEPT ![r.row].evse = OldIfKept(r.evse, @),
                                     ![r.row].number = OldIfKept(r.number, @)]
            BY <1>6
        <3>2. rows[r.row] \in Rows /\ r.row \in DOMAIN rows
            BY <1>2, <1>6 DEF Active
        <3> QED
            BY <3>1, <3>2 DEF Rows
    <2>2. r.row \in DOMAIN rows /\ rows[r.row] \in Rows /\ r.row \in ActiveRows(rows)
        BY <1>2, <1>6 DEF Active, ActiveRows
    <2>3. evse \in Nat \ {0} /\ number \in Nat \ {0}
        BY <1>1, <2>2 DEF OldIfKept, Rows, Requests
    <2>4. ~r.overtaken => ~NumbersTaken(rows, evse, number, r.row)
        BY <1>1 DEF RequestInv, UpdateInv
    <2> HIDE DEF evse, number, changed
    <2>5. DOMAIN changed = 1 .. Len(rows)
          /\ (\A i \in DOMAIN rows \ {r.row} : changed[i] = rows[i])
          /\ changed[r.row] = [rows[r.row] EXCEPT !.evse = evse, !.number = number]
        BY <1>2, <2>1, <2>2
    <2>6. /\ changed[r.row] \in Rows
          /\ changed[r.row].evse = evse /\ changed[r.row].number = number
          /\ changed[r.row].sort = rows[r.row].sort
          /\ changed[r.row].deleted = rows[r.row].deleted
          /\ changed[r.row].raced = rows[r.row].raced
        BY <2>2, <2>3, <2>5 DEF Rows
    <2>7. changed \in Seq(Rows) /\ Len(changed) = Len(rows)
        <3>1. rows \in [1 .. Len(rows) -> Rows]
            BY <1>2 DEF IInv, TypeOK
        <3>2. changed \in [1 .. Len(rows) -> Rows]
            BY <1>2, <2>1, <2>2, <2>5, <2>6, <3>1
        <3> QED
            BY <1>2, <3>2, ListOf
    <2>8. ActiveRows(changed) = ActiveRows(rows)
          /\ \A i \in DOMAIN rows : changed[i].sort = rows[i].sort /\ changed[i].raced = rows[i].raced
        BY <1>2, <2>5, <2>6 DEF ActiveRows
    <2>9. \A i \in ActiveRows(rows) : i \in DOMAIN rows
        BY DEF ActiveRows
    <2>10. ASSUME ~r.overtaken
           PROVE  ~IndexRefuses(changed)
        <3>1. \A i \in ActiveRows(rows) \ {r.row} : rows[i].evse # evse /\ rows[i].number # number
            BY <2>4, <2>10 DEF NumbersTaken
        <3>2. ASSUME NEW i \in ActiveRows(rows), NEW j \in ActiveRows(rows), i # j,
                     changed[i].evse = changed[j].evse \/ changed[i].number = changed[j].number
              PROVE  FALSE
            <4>1. ~(rows[i].evse = rows[j].evse \/ rows[i].number = rows[j].number)
                BY <1>2, <3>2 DEF RowsInv, IndexRefuses
            <4>2. i \in DOMAIN rows /\ j \in DOMAIN rows
                BY <2>9
            <4>3. CASE i = r.row
                <5>1. changed[j] = rows[j] /\ rows[j].evse # evse /\ rows[j].number # number
                    BY <2>5, <3>1, <3>2, <4>2, <4>3
                <5> QED
                    BY <2>6, <3>2, <4>3, <5>1
            <4>4. CASE j = r.row
                <5>1. changed[i] = rows[i] /\ rows[i].evse # evse /\ rows[i].number # number
                    BY <2>5, <3>1, <3>2, <4>2, <4>4
                <5> QED
                    BY <2>6, <3>2, <4>4, <5>1
            <4>5. CASE i # r.row /\ j # r.row
                BY <2>5, <3>2, <4>1, <4>2, <4>5
            <4> QED
                BY <4>3, <4>4, <4>5
        <3> QED
            BY <2>8, <3>2 DEF IndexRefuses
    <2>11. ~IndexRefuses(changed) => RowsInv(changed)
        BY <1>2, <2>5, <2>8, <2>9 DEF RowsInv
    <2>12. point = "deleted" => \A i \in ActiveRows(changed) : changed[i].raced
        BY <2>8, <2>9 DEF IInv
    <2> QED
        BY <1>1, <1>2, <1>6, <2>7, <2>10, <2>11, <2>12, StatementKeeps
<1> QED
    BY <1>3, <1>4, <1>5, <1>6

LEMMA UpdatePointKeeps == ASSUME IInv, NEW s \in Slots, UpdatePoint(s) PROVE IInv'
<1> DEFINE r == requests[s]
           q == [r EXCEPT !.at = "written"]
<1>1. r \in Requests /\ RequestInv(r, point, rows) /\ UNCHANGED <<point, rows>>
      /\ r.kind = "updatePoint"
    BY DEF IInv, TypeOK, UpdatePoint
<1>2. CASE Answered(s, 404)
    BY <1>1, <1>2, AnsweredKeeps
<1>3. CASE Continues(s, "written")
    <2>1. requests' = [requests EXCEPT ![s] = q]
        BY <1>3 DEF Continues, IInv, TypeOK
    <2>2. /\ q \in Requests /\ q.at = "written" /\ q.evse = r.evse /\ q.number = r.number
          /\ q.answer = r.answer /\ q.overtaken = r.overtaken /\ q.seen = r.seen
        BY <1>1 DEF Requests, Places
    <2> HIDE DEF q
    <2>3. RequestInv(q, point, rows)
        BY <1>1, <2>2 DEF RequestInv, CreateInv, UpdateInv, AnswerInv, OneEach
    <2> QED
        BY <1>1, <2>1, <2>2, <2>3, OneRequest
<1> QED
    BY <1>2, <1>3 DEF UpdatePoint

LEMMA ReadConnectorsKeeps == ASSUME IInv, NEW s \in Slots, ReadConnectors(s) PROVE IInv'
<1> DEFINE r == requests[s]
           a == Answer(r, 200)
           list == ListActiveConnectors(rows)
           q == [a EXCEPT !.seen = list]
<1>1. r \in Requests /\ UNCHANGED <<point, rows>> /\ rows \in Seq(Rows) /\ ~IndexRefuses(rows)
    BY DEF IInv, TypeOK, RowsInv, ReadConnectors
<1>2. a \in Requests /\ RequestInv(a, point, rows)
    BY <1>1, AnswerKeeps
<1>3. list \in Seq(Seen) /\ OneEach(list)
    BY <1>1, ListKeeps
<1>4. requests' = [requests EXCEPT ![s] = q]
    BY DEF ReadConnectors
<1> HIDE DEF a, list
<1>5. /\ q \in Requests /\ q.at = a.at /\ q.kind = a.kind /\ q.evse = a.evse
      /\ q.number = a.number /\ q.row = a.row /\ q.old = a.old /\ q.sort = a.sort
      /\ q.answer = a.answer /\ q.overtaken = a.overtaken /\ q.seen = list
    BY <1>2, <1>3 DEF Requests
<1> HIDE DEF q
<1>6. RequestInv(q, point, rows)
    BY <1>2, <1>3, <1>5 DEF RequestInv, CreateInv, UpdateInv, AnswerInv
<1> QED
    BY <1>1, <1>4, <1>5, <1>6, OneRequest

LEMMA LeavesKeeps == ASSUME IInv, NEW s \in Slots, Leaves(s) PROVE IInv'
<1>0. <<>> \in Seq(Seen) /\ DOMAIN <<>> = {}
    OBVIOUS
<1>1. Free \in Requests
    BY <1>0 DEF Free, Requests, Kinds, Places
<1>2. RequestInv(Free, point, rows)
    BY <1>0 DEF RequestInv, CreateInv, UpdateInv, AnswerInv, OneEach, Free
<1> QED
    BY <1>1, <1>2, OneRequest DEF Leaves

----------------------------------------------------------------------------
\* The invariant holds in every state.
THEOREM ResourcesInvariant == Spec => []IInv
<1>1. Init => IInv
    BY InitKeeps
<1>2. IInv /\ [Next]_vars => IInv'
    <2> SUFFICES ASSUME IInv, [Next]_vars PROVE IInv'
        OBVIOUS
    <2>1. CASE CreatePoint
        BY <2>1, CreatePointKeeps
    <2>2. ASSUME NEW s \in Slots,
                 \/ CheckPoint(s) \/ RefuseAddress(s) \/ FindConnector(s)
                 \/ EnsureNumbersAvailable(s) \/ ReadSortOrder(s) \/ InsertConnector(s)
                 \/ UpdateConnectorRow(s) \/ DeleteConnector(s) \/ UpdatePoint(s)
                 \/ DeletePoint(s) \/ ReadConnectors(s) \/ Leaves(s)
          PROVE  IInv'
        BY <2>2, CheckPointKeeps, RefuseAddressKeeps, FindConnectorKeeps, EnsureNumbersKeeps,
           ReadSortOrderKeeps, InsertKeeps, UpdateRowKeeps, DeleteKeeps, UpdatePointKeeps,
           DeletePointKeeps, ReadConnectorsKeeps, LeavesKeeps
    <2>3. CASE UNCHANGED vars
        BY <2>3 DEF vars, IInv, TypeOK
    <2> QED
        BY <2>1, <2>2, <2>3 DEF Next
<1> QED
    BY <1>1, <1>2, PTL DEF Spec

\* Only a request that another one overtook fails with an internal error,
\* leaves a connector behind that its point has not taken along, or lists its
\* connector before an older one: for any number of requests, points and rows.
THEOREM OvertakenErrOnly == Spec => []OnlyTheOvertakenErr
<1>1. IInv => OnlyTheOvertakenErr
    BY DEF IInv, RowsInv, RequestInv, AnswerInv, OnlyTheOvertakenErr
<1> QED
    BY <1>1, ResourcesInvariant, PTL

----------------------------------------------------------------------------
(* What a start makes of it. *)

\* A sequence of the rows that share an EVSE has one member.
LEMMA OneOfEach ==
    ASSUME NEW seen \in Seq(Seen), OneEach(seen), NEW e \in {seen[i].evse : i \in DOMAIN seen}
    PROVE  LET S == {i \in DOMAIN seen : seen[i].evse = e}
           IN  /\ Cardinality(S) = 1
               /\ Listing(S, Ascending(S))[1] \in S
<1> DEFINE S == {i \in DOMAIN seen : seen[i].evse = e}
<1>1. PICK i \in DOMAIN seen : seen[i].evse = e
    OBVIOUS
<1>2. S = {i}
    BY <1>1 DEF OneEach
<1>3. IsFiniteSet(S) /\ Cardinality(S) = 1
    BY <1>2, FS_Singleton
<1>4. S \subseteq Int
    BY <1>2
<1> HIDE DEF S
<1>5. Listing(S, Ascending(S)) \in [1 .. 1 -> S]
    BY <1>3, <1>4, AscendingOrders, ListingLists
<1> QED
    BY <1>3, <1>5 DEF S

\* The numbers that a sequence shows, as a set.
LEMMA FinitelyMany ==
    ASSUME NEW seen \in Seq(Seen)
    PROVE  LET N == {seen[i].evse : i \in DOMAIN seen}
           IN  IsFiniteSet(N) /\ N \subseteq Nat \ {0}
<1> DEFINE N == {seen[i].evse : i \in DOMAIN seen}
           f == [i \in 1 .. Len(seen) |-> seen[i].evse]
<1>1. Len(seen) \in Nat /\ DOMAIN seen = 1 .. Len(seen) /\ \A i \in DOMAIN seen : seen[i] \in Seen
    OBVIOUS
<1>2. IsFiniteSet(1 .. Len(seen))
    BY <1>1, FS_Interval
<1>3. f \in Surjection(1 .. Len(seen), N)
    BY <1>1 DEF Surjection
<1>4. N \subseteq Nat \ {0}
    BY <1>1 DEF Seen
<1> QED
    BY <1>2, <1>3, <1>4, FS_Surjection

\* A start accepts what one query has read.
LEMMA SeenStarts ==
    ASSUME NEW seen \in Seq(Seen), OneEach(seen)
    PROVE  RuntimeAccepts(ToEvses(seen))
<1> DEFINE N == {seen[i].evse : i \in DOMAIN seen}
           n == Cardinality(N)
           ids == Listing(N, Ascending(N))
           Of(e) == {i \in DOMAIN seen : seen[i].evse = e}
           place == [k \in 1 .. n |-> Listing(Of(ids[k]), Ascending(Of(ids[k])))[1]]
           evses == ToEvses(seen)
<1>1. IsFiniteSet(N) /\ N \subseteq Nat \ {0} /\ N \subseteq Int
    <2>1. IsFiniteSet(N) /\ N \subseteq Nat \ {0}
        BY FinitelyMany
    <2> HIDE DEF N
    <2> QED
        BY <2>1
<1>2. /\ n \in Nat /\ ids \in [1 .. n -> N]
      /\ \A i, j \in 1 .. n : ids[i] = ids[j] => i = j
    <2> HIDE DEF N
    <2> QED
        BY <1>1, AscendingOrders, ListingLists
<1>3. evses = [k \in 1 .. n |->
                  [id |-> ids[k],
                   connectors |->
                      [c \in 1 .. Cardinality(Of(ids[k])) |->
                          [id |-> seen[Listing(Of(ids[k]), Ascending(Of(ids[k])))[c]].number,
                           ratings |-> {}]]]]
    BY DEF ToEvses
<1> HIDE DEF evses, ids
<1>4. ASSUME NEW k \in 1 .. n
      PROVE  /\ evses[k].id = ids[k] /\ ids[k] \in Nat \ {0} /\ "connectors" \in DOMAIN evses[k]
             /\ place[k] \in DOMAIN seen /\ seen[place[k]].evse = ids[k]
             /\ evses[k].connectors = [c \in 1 .. 1 |-> [id |-> seen[place[k]].number, ratings |-> {}]]
    <2>1. ids[k] \in N
        BY <1>2
    <2>2. /\ Cardinality(Of(ids[k])) = 1
          /\ Listing(Of(ids[k]), Ascending(Of(ids[k])))[1] \in Of(ids[k])
        BY <2>1, OneOfEach
    <2>3. evses[k] = [id |-> ids[k],
                      connectors |->
                         [c \in 1 .. 1 |->
                             [id |-> seen[Listing(Of(ids[k]), Ascending(Of(ids[k])))[c]].number,
                              ratings |-> {}]]]
        BY <1>3, <2>2
    <2>4. evses[k].connectors = [c \in 1 .. 1 |-> [id |-> seen[place[k]].number, ratings |-> {}]]
        BY <2>3
    <2>5. place[k] \in Of(ids[k])
        BY <2>2
    <2> HIDE DEF place
    <2>6. place[k] \in DOMAIN seen /\ seen[place[k]].evse = ids[k]
        BY <2>5
    <2>7. evses[k].id = ids[k] /\ "connectors" \in DOMAIN evses[k]
        BY <2>3
    <2>8. ids[k] \in Nat \ {0}
        BY <1>1, <2>1
    <2> QED
        BY <2>4, <2>6, <2>7, <2>8
<1>5. DOMAIN evses = 1 .. n
    BY <1>3
<1> HIDE DEF place, n
<1>6. ASSUME NEW k \in 1 .. n
      PROVE  /\ DOMAIN evses[k].connectors = {1}
             /\ Len(evses[k].connectors) = 1
             /\ evses[k].connectors[1].id = seen[place[k]].number
             /\ evses[k].connectors[1].id \in Nat \ {0}
             /\ evses[k].connectors[1].ratings = {}
    <2> DEFINE c == [id |-> seen[place[k]].number, ratings |-> {}]
               cs == [i \in 1 .. 1 |-> c]
    <2>1. evses[k].connectors = cs
        BY <1>4
    <2>2. seen[place[k]] \in Seen
        BY <1>4
    <2>3. c.id = seen[place[k]].number /\ c.ratings = {} /\ c.id \in Nat \ {0}
        BY <2>2 DEF Seen
    <2> HIDE DEF c
    <2>4. cs \in [1 .. 1 -> {c}] /\ cs[1] = c /\ DOMAIN cs = {1}
        OBVIOUS
    <2>5. Len(cs) = 1
        BY <2>4, ListOf
    <2> HIDE DEF cs
    <2> QED
        BY <2>1, <2>3, <2>4, <2>5
<1>7. UniqueIds(evses)
    BY <1>2, <1>4, <1>5 DEF UniqueIds
<1>8. PointAccepted([evses |-> evses])
    BY <1>7 DEF PointAccepted
<1>9. ASSUME NEW k \in 1 .. n
      PROVE  /\ EvseAccepted(evses[k])
             /\ \A j \in DOMAIN evses[k].connectors : ConnectorAccepted(evses[k].connectors[j])
    <2>1. UniqueIds(evses[k].connectors)
        BY <1>6 DEF UniqueIds
    <2>2. EvseAccepted(evses[k])
        BY <1>4, <2>1 DEF EvseAccepted
    <2> QED
        BY <1>6, <2>2 DEF ConnectorAccepted
<1>10. ASSUME NEW i \in 1 .. n, NEW j \in 1 .. n,
              OnlyConnector(evses[i]) = OnlyConnector(evses[j])
       PROVE  i = j
    <2>1. seen[place[i]].number = seen[place[j]].number
        BY <1>6, <1>10 DEF OnlyConnector
    <2>2. place[i] = place[j]
        BY <1>4, <2>1 DEF OneEach
    <2>3. ids[i] = ids[j]
        BY <1>4, <2>2
    <2> QED
        BY <1>2, <2>3
<1>11. Ocpp16Projection([evses |-> evses])
    BY <1>5, <1>6, <1>10 DEF Ocpp16Projection
<1> QED
    BY <1>5, <1>8, <1>9, <1>11 DEF RuntimeAccepts, evses

\* Whatever requests overlap, what one query reads of a point is a list of
\* connectors that the runtime accepts when the point is started.
THEOREM StoredStarts == Spec => []StoredPointsStart
<1>1. IInv => StoredPointsStart
    <2> SUFFICES ASSUME IInv, NEW s \in Slots
                 PROVE  RuntimeAccepts(ToEvses(requests[s].seen))
        BY DEF StoredPointsStart
    <2>1. requests[s] \in Requests /\ OneEach(requests[s].seen)
        BY DEF IInv, TypeOK, RequestInv
    <2> QED
        BY <2>1, SeenStarts DEF Requests
<1> QED
    BY <1>1, ResourcesInvariant, PTL
=============================================================================
