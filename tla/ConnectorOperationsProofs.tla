---------------------- MODULE ConnectorOperationsProofs ----------------------
(***************************************************************************)
(* Proofs about ConnectorOperations and StatusReports, for any connectors, *)
(* any number of starts, every configuration and a queue of any bound.     *)
(***************************************************************************)
EXTENDS StatusReports, SequenceTheorems, WellFoundedInduction, TLAPS

\* What a command leaves of a connector is a connector.
LEMMA ChangedTyped ==
    ASSUME ConnectorTypeOK, NEW c \in Connectors, NEW availability \in Availability
    PROVE  Changed(c, availability) \in
             [plugged : BOOLEAN, availability : Availability, requested : Availability \cup {None}]
  <1>1. connector[c] \in
          [plugged : BOOLEAN, availability : Availability, requested : Availability \cup {None}]
    BY DEF ConnectorTypeOK
  <1>2. CASE availability = "inoperative" /\ HasActiveTransaction(c)
    BY <1>1, <1>2 DEF Changed
  <1>3. CASE ~(availability = "inoperative" /\ HasActiveTransaction(c))
    BY <1>1, <1>3 DEF Changed
  <1> QED BY <1>2, <1>3

\* So is what the end of a stop or an unplug leaves.
LEMMA AppliedTyped ==
    ASSUME NEW c \in Connectors,
           NEW point \in [plugged : BOOLEAN, availability : Availability,
                          requested : Availability \cup {None}]
    PROVE  ApplyRequestedAvailability(c, point) \in
             [plugged : BOOLEAN, availability : Availability, requested : Availability \cup {None}]
  BY DEF ApplyRequestedAvailability, Availability

\* The types, by steps.
LEMMA TypeInductive == ConnectorTypeOK /\ [Next]_vars => ConnectorTypeOK'
  <1> SUFFICES ASSUME ConnectorTypeOK, [Next]_vars PROVE ConnectorTypeOK'
    OBVIOUS
  <1> USE DEF ConnectorTypeOK
  <1>1. ASSUME NEW s \in Starts, NEW c \in Connectors, BeginStart(s, c) PROVE ConnectorTypeOK'
    BY ZenonT(60), <1>1 DEF BeginStart
  <1>2. ASSUME NEW s \in Starts, NEW c \in Connectors, StartOffline(s, c) PROVE ConnectorTypeOK'
    BY <1>2 DEF StartOffline, Activate
  <1>3. ASSUME NEW s \in Starts, StartAccepted(s) PROVE ConnectorTypeOK'
    <2>1. [state |-> "active", at |-> tx[s].at, bound |-> TRUE] \in
            [state : {"none", "sending", "refused", "active", "ended"},
             at : Connectors \cup {None}, bound : BOOLEAN]
      OBVIOUS
    <2> QED BY <1>3, <2>1 DEF StartAccepted, Activate
  <1>4. ASSUME NEW s \in Starts, StartRefused(s) PROVE ConnectorTypeOK'
    BY <1>4 DEF StartRefused
  <1>5. ASSUME NEW s \in Starts, NEW accepted \in BOOLEAN, ReplayStartAnswered(s, accepted)
        PROVE ConnectorTypeOK'
    <2> DEFINE bound == [tx EXCEPT ![s].bound = TRUE]
    <2>1. bound \in [Starts -> [state : {"none", "sending", "refused", "active", "ended"},
                               at : Connectors \cup {None}, bound : BOOLEAN]]
      OBVIOUS
    <2>2. [bound EXCEPT ![s].state = "ended"] \in
            [Starts -> [state : {"none", "sending", "refused", "active", "ended"},
                        at : Connectors \cup {None}, bound : BOOLEAN]]
      BY <2>1
    <2>3. \/ tx' = [bound EXCEPT ![s].state = "ended"] /\ evseTx' = [evseTx EXCEPT ![tx[s].at] = None]
          \/ tx' = bound /\ UNCHANGED evseTx
      BY <1>5 DEF ReplayStartAnswered, End
    <2>4. UNCHANGED <<connected, registered, chargingPoint, connector, stop, wanted>>
      BY <1>5 DEF ReplayStartAnswered
    <2> HIDE DEF bound
    <2> QED BY <2>1, <2>2, <2>3, <2>4
  <1>6. ASSUME NEW s \in Starts, BeginStop(s) PROVE ConnectorTypeOK'
    BY <1>6 DEF BeginStop, End
  <1>7. ASSUME NEW s \in Starts, StopNotified(s) PROVE ConnectorTypeOK'
    BY <1>7 DEF StopNotified
  <1>8. ASSUME NEW s \in Starts, StopAnswered(s) PROVE ConnectorTypeOK'
    <2>1. stop' = [stop EXCEPT ![s] = "done"]
          /\ connector' = [connector EXCEPT ![tx[s].at] =
                             ApplyRequestedAvailability(tx[s].at, connector[tx[s].at])]
          /\ UNCHANGED <<connected, registered, chargingPoint, evseTx, tx, wanted>>
      BY <1>8 DEF StopAnswered
    <2>2. connector' \in [Connectors -> [plugged : BOOLEAN, availability : Availability,
                                         requested : Availability \cup {None}]]
      BY <2>1, AppliedTyped
    <2> QED BY <2>1, <2>2
  <1>9. ASSUME NEW c \in Connectors, NEW availability \in Availability,
               ChangeAvailability(c, availability)
        PROVE ConnectorTypeOK'
    BY <1>9, ChangedTyped DEF ChangeAvailability
  <1>10. ASSUME NEW availability \in Availability, ChangePointAvailability(availability)
         PROVE ConnectorTypeOK'
    BY <1>10, ChangedTyped DEF ChangePointAvailability
  <1>11. ASSUME NEW c \in Connectors, PlugConnector(c) PROVE ConnectorTypeOK'
    BY <1>11 DEF PlugConnector
  <1>12. ASSUME NEW c \in Connectors, UnplugConnector(c) PROVE ConnectorTypeOK'
    <2>1. [connector[c] EXCEPT !.plugged = FALSE] \in
            [plugged : BOOLEAN, availability : Availability, requested : Availability \cup {None}]
      BY ZenonT(60)
    <2> QED BY <1>12, <2>1, AppliedTyped DEF UnplugConnector
  <1>13. ASSUME ConnectionChanges PROVE ConnectorTypeOK'
    BY <1>13 DEF ConnectionChanges
  <1>14. ASSUME NEW accepted \in BOOLEAN, BootAnswered(accepted) PROVE ConnectorTypeOK'
    BY <1>14 DEF BootAnswered, Availability
  <1>15. CASE UNCHANGED vars
    BY <1>15 DEF vars
  <1> QED
    BY <1>1, <1>2, <1>3, <1>4, <1>5, <1>6, <1>7, <1>8, <1>9, <1>10, <1>11, <1>12, <1>13, <1>14,
       <1>15 DEF Next

\* The types hold at the start.
LEMMA TypeInit == Init => ConnectorTypeOK
  <1> SUFFICES ASSUME Init PROVE ConnectorTypeOK
    OBVIOUS
  <1>1. [plugged |-> FALSE, availability |-> "operative", requested |-> None] \in
          [plugged : BOOLEAN, availability : Availability, requested : Availability \cup {None}]
    BY DEF Availability
  <1>2. connector \in [Connectors -> [plugged : BOOLEAN, availability : Availability,
                                      requested : Availability \cup {None}]]
    BY <1>1 DEF Init
  <1>3. [state |-> "none", at |-> None, bound |-> FALSE] \in
          [state : {"none", "sending", "refused", "active", "ended"},
           at : Connectors \cup {None}, bound : BOOLEAN]
    OBVIOUS
  <1>4. tx \in [Starts -> [state : {"none", "sending", "refused", "active", "ended"},
                           at : Connectors \cup {None}, bound : BOOLEAN]]
    BY <1>3 DEF Init
  <1> QED BY <1>2, <1>4 DEF Init, ConnectorTypeOK, Availability

\* Every variable keeps its type, whatever the connectors and the configuration.
THEOREM TypeCorrect == Spec => []ConnectorTypeOK
  BY TypeInit, TypeInductive, PTL DEF Spec

-----------------------------------------------------------------------------

\* LastCommandDecides of one connector that is at point when command was the last.
Decided(point, command) ==
    IF point.requested = None THEN point.availability = command
    ELSE point.requested = "inoperative" /\ command = "inoperative"

\* A command decides, whether it is deferred or not.
LEMMA ChangedDecides ==
    ASSUME ConnectorTypeOK, NEW c \in Connectors, NEW availability \in Availability,
           Decided(connector[c], wanted[c])
    PROVE  Decided(Changed(c, availability), availability)
  <1>1. connector[c] \in
          [plugged : BOOLEAN, availability : Availability, requested : Availability \cup {None}]
    BY DEF ConnectorTypeOK
  <1>2. CASE availability = "inoperative" /\ HasActiveTransaction(c)
    BY <1>1, <1>2, ConnectorsAssumption DEF Changed, Decided, Availability
  <1>3. CASE ~(availability = "inoperative" /\ HasActiveTransaction(c))
    BY <1>1, <1>3 DEF Changed, Decided
  <1> QED BY <1>2, <1>3

\* To apply what is deferred changes nothing of what was decided.
LEMMA AppliedDecides ==
    ASSUME NEW c, NEW command,
           NEW point \in [plugged : BOOLEAN, availability : Availability,
                          requested : Availability \cup {None}],
           Decided(point, command)
    PROVE  Decided(ApplyRequestedAvailability(c, point), command)
  <1>1. CASE point.requested = None \/ HasActiveTransaction(c)
    BY <1>1 DEF ApplyRequestedAvailability
  <1>2. CASE ~(point.requested = None \/ HasActiveTransaction(c))
    BY <1>2 DEF ApplyRequestedAvailability, Decided
  <1> QED BY <1>1, <1>2

\* Only commands, stops, plugs and unplugs touch a connector.
LEMMA StepsOfAConnector ==
    ASSUME ConnectorTypeOK, [Next]_vars, NEW c \in Connectors
    PROVE  \/ connector'[c] = connector[c] /\ wanted'[c] = wanted[c]
           \/ /\ connector'[c] = [connector[c] EXCEPT !.plugged = TRUE]
              /\ wanted'[c] = wanted[c]
           \/ /\ \E point \in {connector[c], [connector[c] EXCEPT !.plugged = FALSE]} :
                   connector'[c] = ApplyRequestedAvailability(c, point)
              /\ wanted'[c] = wanted[c]
           \/ \E availability \in Availability :
                connector'[c] = Changed(c, availability) /\ wanted'[c] = availability
  <1> USE DEF ConnectorTypeOK
  <1>1. CASE UNCHANGED <<connector, wanted>>
    BY <1>1
  <1>2. ASSUME NEW s \in Starts, StopAnswered(s)
        PROVE  /\ connector'[c] = connector[c] \/ connector'[c] = ApplyRequestedAvailability(c, connector[c])
               /\ wanted'[c] = wanted[c]
    BY <1>2 DEF StopAnswered
  <1>3. ASSUME NEW d \in Connectors, NEW availability \in Availability,
               ChangeAvailability(d, availability)
        PROVE  \/ connector'[c] = connector[c] /\ wanted'[c] = wanted[c]
               \/ connector'[c] = Changed(c, availability) /\ wanted'[c] = availability
    BY <1>3 DEF ChangeAvailability
  <1>4. ASSUME NEW availability \in Availability, ChangePointAvailability(availability)
        PROVE  connector'[c] = Changed(c, availability) /\ wanted'[c] = availability
    BY <1>4 DEF ChangePointAvailability
  <1>5. ASSUME NEW d \in Connectors, PlugConnector(d)
        PROVE  /\ connector'[c] = connector[c] \/ connector'[c] = [connector[c] EXCEPT !.plugged = TRUE]
               /\ wanted'[c] = wanted[c]
    BY <1>5 DEF PlugConnector
  <1>6. ASSUME NEW d \in Connectors, UnplugConnector(d)
        PROVE  /\ \/ connector'[c] = connector[c]
                  \/ connector'[c] =
                       ApplyRequestedAvailability(c, [connector[c] EXCEPT !.plugged = FALSE])
               /\ wanted'[c] = wanted[c]
    BY <1>6 DEF UnplugConnector
  <1>7. \/ UNCHANGED <<connector, wanted>>
        \/ \E s \in Starts : StopAnswered(s)
        \/ \E d \in Connectors, availability \in Availability : ChangeAvailability(d, availability)
        \/ \E availability \in Availability : ChangePointAvailability(availability)
        \/ \E d \in Connectors : PlugConnector(d) \/ UnplugConnector(d)
    BY DEF Next, vars, BeginStart, StartOffline, StartAccepted, StartRefused, ReplayStartAnswered,
           BeginStop, StopNotified, ConnectionChanges, BootAnswered
  <1> QED BY <1>1, <1>2, <1>3, <1>4, <1>5, <1>6, <1>7

\* LastCommandDecides is inductive, with the types.
LEMMA DecidedInductive ==
    ASSUME ConnectorTypeOK, LastCommandDecides, [Next]_vars PROVE LastCommandDecides'
  <1> SUFFICES ASSUME NEW c \in Connectors PROVE Decided(connector'[c], wanted'[c])
    BY DEF LastCommandDecides, Decided
  <1>1. Decided(connector[c], wanted[c])
    BY DEF LastCommandDecides, Decided
  <1>2. connector[c] \in
          [plugged : BOOLEAN, availability : Availability, requested : Availability \cup {None}]
    BY DEF ConnectorTypeOK
  <1>3. CASE connector'[c] = connector[c] /\ wanted'[c] = wanted[c]
    BY <1>1, <1>3
  <1>4. CASE connector'[c] = [connector[c] EXCEPT !.plugged = TRUE] /\ wanted'[c] = wanted[c]
    BY <1>1, <1>2, <1>4 DEF Decided
  <1>5. ASSUME NEW point \in {connector[c], [connector[c] EXCEPT !.plugged = FALSE]},
               connector'[c] = ApplyRequestedAvailability(c, point), wanted'[c] = wanted[c]
        PROVE  Decided(connector'[c], wanted'[c])
    <2>1. point \in
            [plugged : BOOLEAN, availability : Availability, requested : Availability \cup {None}]
      BY <1>2
    <2>2. Decided(point, wanted[c])
      BY <1>1, <1>2 DEF Decided
    <2> QED BY <1>5, <2>1, <2>2, AppliedDecides
  <1>6. ASSUME NEW availability \in Availability,
               connector'[c] = Changed(c, availability), wanted'[c] = availability
        PROVE  Decided(connector'[c], wanted'[c])
    BY <1>1, <1>6, ChangedDecides
  <1> QED BY <1>3, <1>4, <1>5, <1>6, StepsOfAConnector

\* The availability of a connector is what the CSMS last asked for, at once or
\* deferred, however stops, unplugs and boots interleave with its commands.
THEOREM CommandsDecide == Spec => []LastCommandDecides
  <1>1. Init => LastCommandDecides
    BY DEF Init, LastCommandDecides
  <1>2. ConnectorTypeOK /\ LastCommandDecides /\ [Next]_vars => LastCommandDecides'
    BY DecidedInductive
  <1> QED BY <1>1, <1>2, TypeCorrect, PTL DEF Spec

\* No step takes a connector out of service under a running transaction.
THEOREM ConnectorsAreNotInterrupted == Spec => NeverInterrupted
  <1>1. ASSUME ConnectorTypeOK, [Next]_vars, NEW c \in Connectors,
               connector[c].availability = "operative",
               connector'[c].availability = "inoperative",
               HasActiveTransaction(c)
        PROVE  FALSE
    <2>1. connector[c] \in
            [plugged : BOOLEAN, availability : Availability, requested : Availability \cup {None}]
      BY <1>1 DEF ConnectorTypeOK
    <2>2. ASSUME NEW point \in {connector[c], [connector[c] EXCEPT !.plugged = FALSE]}
          PROVE  ApplyRequestedAvailability(c, point).availability = connector[c].availability
      BY <1>1, <2>1 DEF ApplyRequestedAvailability
    <2>3. ASSUME NEW availability \in Availability
          PROVE  Changed(c, availability).availability # "inoperative"
      BY <1>1, <2>1 DEF Changed, Availability
    <2> QED BY <1>1, <2>1, <2>2, <2>3, StepsOfAConnector
  <1>2. ConnectorTypeOK /\ [Next]_vars =>
          [\A c \in Connectors :
             connector[c].availability = "operative" /\ connector'[c].availability = "inoperative"
               => ~HasActiveTransaction(c)]_vars
    BY <1>1
  <1> QED BY <1>2, TypeCorrect, PTL DEF Spec, NeverInterrupted

-----------------------------------------------------------------------------

\* The answer the replay gets ends a transaction or leaves its state alone.
LEMMA ReplayEffect ==
    ASSUME ConnectorTypeOK, NEW s \in Starts, NEW accepted \in BOOLEAN,
           ReplayStartAnswered(s, accepted), NEW t \in Starts
    PROVE  /\ UNCHANGED stop
           /\ tx'[t].at = tx[t].at
           /\ tx'[t].state = tx[t].state \/ (tx[t].state = "active" /\ tx'[t].state = "ended")
  <1> DEFINE bound == [tx EXCEPT ![s].bound = TRUE]
  <1>1. /\ bound \in [Starts -> [state : {"none", "sending", "refused", "active", "ended"},
                                 at : Connectors \cup {None}, bound : BOOLEAN]]
        /\ bound[t].at = tx[t].at /\ bound[t].state = tx[t].state
    BY DEF ConnectorTypeOK
  <1>2. /\ UNCHANGED stop
        /\ \/ tx' = bound
           \/ tx[s].state = "active" /\ tx' = [bound EXCEPT ![s].state = "ended"]
    BY DEF ReplayStartAnswered, End
  <1> HIDE DEF bound
  <1>3. CASE tx' = bound
    BY <1>1, <1>2, <1>3
  <1>4. CASE tx[s].state = "active" /\ tx' = [bound EXCEPT ![s].state = "ended"]
    <2>1. tx'[t].at = bound[t].at /\ tx'[t].state = IF t = s THEN "ended" ELSE bound[t].state
      BY <1>1, <1>4
    <2> QED BY <1>1, <1>2, <1>4, <2>1
  <1> QED BY <1>2, <1>3, <1>4

\* A stop is of a transaction that has ended, and no start moves it.
StopsOfTheEnded == \A s \in Starts : stop[s] # "idle" => tx[s].state = "ended"

\* Transactions and stops keep their phases in step.
LEMMA PhasesInductive ==
    ASSUME ConnectorTypeOK, StopsOfTheEnded, [Next]_vars
    PROVE  StopsOfTheEnded'
  <1> USE DEF ConnectorTypeOK, StopsOfTheEnded
  <1>1. CASE UNCHANGED <<tx, stop>>
    BY <1>1
  <1>2. ASSUME NEW s \in Starts, NEW c \in Connectors, BeginStart(s, c)
        PROVE  StopsOfTheEnded'
    BY <1>2 DEF BeginStart
  <1>3. ASSUME NEW s \in Starts, NEW c \in Connectors, StartOffline(s, c)
        PROVE  StopsOfTheEnded'
    BY <1>3 DEF StartOffline, Activate
  <1>4. ASSUME NEW s \in Starts, StartAccepted(s)
        PROVE  StopsOfTheEnded'
    BY <1>4 DEF StartAccepted, Activate
  <1>5. ASSUME NEW s \in Starts, StartRefused(s)
        PROVE  StopsOfTheEnded'
    BY <1>5 DEF StartRefused
  <1>6. ASSUME NEW s \in Starts, NEW accepted \in BOOLEAN, ReplayStartAnswered(s, accepted)
        PROVE  StopsOfTheEnded'
    <2>1. UNCHANGED stop /\ \A t \in Starts : tx[t].state = "ended" => tx'[t].state = "ended"
      BY <1>6, ReplayEffect
    <2> QED BY <2>1
  <1>7. ASSUME NEW s \in Starts, BeginStop(s)
        PROVE  StopsOfTheEnded'
    BY <1>7 DEF BeginStop, End
  <1>8. ASSUME NEW s \in Starts, StopNotified(s) \/ StopAnswered(s)
        PROVE  StopsOfTheEnded'
    BY <1>8 DEF StopNotified, StopAnswered
  <1> QED
    BY <1>1, <1>2, <1>3, <1>4, <1>5, <1>6, <1>7, <1>8
    DEF Next, vars, ChangeAvailability, ChangePointAvailability, PlugConnector, UnplugConnector,
        ConnectionChanges, BootAnswered

\* What an ended transaction says of its connector it says for good.
LEMMA OfflineEndsStay ==
    ASSUME ConnectorTypeOK, StopsOfTheEnded, [Next]_vars, NEW c \in Connectors, EndedOffline(c)
    PROVE  EndedOffline(c)'
  <1>1. PICK t \in Starts : tx[t].at = c /\ tx[t].state = "ended" /\ stop[t] \in {"idle", "offline"}
    BY DEF EndedOffline
  <1>2. tx'[t].at = c /\ tx'[t].state = "ended" /\ stop'[t] = stop[t]
    <2> USE <1>1 DEF ConnectorTypeOK
    <2>1. CASE UNCHANGED <<tx, stop>>
      BY <2>1
    <2>2. ASSUME NEW s \in Starts, NEW d \in Connectors, BeginStart(s, d) \/ StartOffline(s, d)
          PROVE  UNCHANGED stop /\ tx'[t] = tx[t]
      BY <2>2 DEF BeginStart, StartOffline, Activate
    <2>3. ASSUME NEW s \in Starts, StartAccepted(s) \/ StartRefused(s)
          PROVE  UNCHANGED stop /\ tx'[t] = tx[t]
      BY <2>3 DEF StartAccepted, StartRefused, Activate
    <2>4. ASSUME NEW s \in Starts, NEW accepted \in BOOLEAN, ReplayStartAnswered(s, accepted)
          PROVE  UNCHANGED stop /\ tx'[t].at = tx[t].at /\ tx'[t].state = "ended"
      BY <2>4, ReplayEffect
    <2>5. ASSUME NEW s \in Starts, BeginStop(s)
          PROVE  stop'[t] = stop[t] /\ tx'[t] = tx[t]
      BY <2>5 DEF BeginStop, End
    <2>6. ASSUME NEW s \in Starts, StopNotified(s) \/ StopAnswered(s)
          PROVE  stop'[t] = stop[t] /\ UNCHANGED tx
      BY <2>6 DEF StopNotified, StopAnswered
    <2> QED
      BY <2>1, <2>2, <2>3, <2>4, <2>5, <2>6
      DEF Next, vars, ChangeAvailability, ChangePointAvailability, PlugConnector, UnplugConnector,
          ConnectionChanges, BootAnswered
  <1> QED BY <1>1, <1>2 DEF EndedOffline

\* What keeps a connector waiting goes on doing so, or ends offline, or a stop
\* of its ends.
LEMMA AwaitedUntilApplied ==
    ASSUME ConnectorTypeOK, StopsOfTheEnded, [Next]_vars, NEW c \in Connectors, Awaited(c)
    PROVE  \/ Awaited(c)' \/ EndedOffline(c)'
           \/ \E s \in Starts : StopAnswered(s) /\ tx[s].at = c
  <1> USE DEF ConnectorTypeOK, StopsOfTheEnded, Awaited, HasActiveTransaction
  <1>1. CASE UNCHANGED <<tx, stop>>
    BY <1>1
  <1>2. ASSUME NEW s \in Starts, NEW d \in Connectors, BeginStart(s, d)
        PROVE  Awaited(c)'
    BY <1>2 DEF BeginStart
  <1>3. ASSUME NEW s \in Starts, NEW d \in Connectors, StartOffline(s, d)
        PROVE  Awaited(c)'
    <2>1. /\ tx' = [tx EXCEPT ![s] = [state |-> "active", at |-> d, bound |-> FALSE]]
          /\ UNCHANGED stop /\ tx[s].state = "none" /\ stop[s] = "idle"
      BY <1>3 DEF StartOffline, Activate
    <2>2. \A t \in Starts : t # s => tx'[t] = tx[t]
      BY <2>1
    <2> QED BY <2>1, <2>2
  <1>4. ASSUME NEW s \in Starts, StartAccepted(s)
        PROVE  Awaited(c)'
    <2>1. /\ tx' = [tx EXCEPT ![s] = [state |-> "active", at |-> tx[s].at, bound |-> TRUE]]
          /\ UNCHANGED stop
      BY <1>4 DEF StartAccepted, Activate
    <2>2. \A t \in Starts : tx'[t].at = tx[t].at
      BY <2>1
    <2>3. \A t \in Starts : tx[t].state = "active" => tx'[t].state = "active"
      BY <2>1
    <2> QED BY <2>1, <2>2, <2>3
  <1>5. ASSUME NEW s \in Starts, StartRefused(s)
        PROVE  Awaited(c)'
    BY <1>5 DEF StartRefused
  <1>6. ASSUME NEW s \in Starts, NEW accepted \in BOOLEAN, ReplayStartAnswered(s, accepted)
        PROVE  Awaited(c)' \/ EndedOffline(c)'
    <2>1. UNCHANGED stop /\ \A t \in Starts : tx'[t].at = tx[t].at
      BY <1>6, ReplayEffect
    <2>2. \A t \in Starts : tx[t].state = "active" => tx'[t].state \in {"active", "ended"}
      BY <1>6, ReplayEffect
    <2>3. CASE HasActiveTransaction(c)
      <3>1. PICK t \in Starts : tx[t].state = "active" /\ tx[t].at = c
        BY <2>3
      <3>2. stop'[t] = "idle"
        BY <2>1, <3>1
      <3> QED BY <2>1, <2>2, <3>1, <3>2 DEF EndedOffline
    <2>4. CASE ~HasActiveTransaction(c)
      BY <2>1, <2>4
    <2> QED BY <2>3, <2>4
  <1>7. ASSUME NEW s \in Starts, BeginStop(s)
        PROVE  Awaited(c)' \/ EndedOffline(c)'
    <2>1. /\ tx' = [tx EXCEPT ![s].state = "ended"]
          /\ stop' = [stop EXCEPT ![s] = IF tx[s].bound THEN "notifying" ELSE "offline"]
          /\ tx[s].state = "active"
      BY <1>7 DEF BeginStop, End
    <2>2. /\ \A t \in Starts : tx'[t].at = tx[t].at
          /\ tx'[s].state = "ended" /\ stop'[s] \in {"notifying", "offline"}
      BY <2>1
    <2>3. CASE tx[s].at = c
      BY <2>2, <2>3 DEF EndedOffline
    <2>4. CASE tx[s].at # c
      <3>1. \A t \in Starts : tx[t].at = c => tx'[t] = tx[t] /\ stop'[t] = stop[t]
        BY <2>1, <2>4
      <3> QED BY <3>1
    <2> QED BY <2>3, <2>4
  <1>8. ASSUME NEW s \in Starts, StopNotified(s)
        PROVE  Awaited(c)'
    <2>1. stop' = [stop EXCEPT ![s] = "sending"] /\ UNCHANGED tx
      BY <1>8 DEF StopNotified
    <2>2. \A t \in Starts : stop[t] \in {"notifying", "sending"}
                              => stop'[t] \in {"notifying", "sending"}
      BY <2>1
    <2> QED BY <2>1, <2>2
  <1>9. ASSUME NEW s \in Starts, StopAnswered(s), tx[s].at # c
        PROVE  Awaited(c)'
    <2>1. stop' = [stop EXCEPT ![s] = "done"] /\ UNCHANGED tx
      BY <1>9 DEF StopAnswered
    <2>2. \A t \in Starts : tx[t].at = c => stop'[t] = stop[t]
      BY <1>9, <2>1
    <2> QED BY <2>1, <2>2
  <1> QED
    BY <1>1, <1>2, <1>3, <1>4, <1>5, <1>6, <1>7, <1>8, <1>9
    DEF Next, vars, ChangeAvailability, ChangePointAvailability, PlugConnector, UnplugConnector,
        ConnectionChanges, BootAnswered

\* What a connector is left waiting for, it waited for, or a running transaction defers it.
LEMMA DeferredByTransaction ==
    ASSUME ConnectorTypeOK, [Next]_vars, NEW c \in Connectors, connector'[c].requested # None
    PROVE  connector[c].requested # None \/ HasActiveTransaction(c)
  <1>1. connector[c] \in
          [plugged : BOOLEAN, availability : Availability, requested : Availability \cup {None}]
    BY DEF ConnectorTypeOK
  <1>2. CASE connector'[c] = connector[c]
    BY <1>2
  <1>3. CASE connector'[c] = [connector[c] EXCEPT !.plugged = TRUE]
    BY <1>1, <1>3
  <1>4. ASSUME NEW point \in {connector[c], [connector[c] EXCEPT !.plugged = FALSE]},
               connector'[c] = ApplyRequestedAvailability(c, point)
        PROVE  connector[c].requested # None
    <2>1. point.requested = connector[c].requested
      BY <1>1
    <2>2. CASE point.requested = None
      BY <1>4, <2>2 DEF ApplyRequestedAvailability
    <2>3. CASE point.requested # None
      BY <2>1, <2>3
    <2> QED BY <2>2, <2>3
  <1>5. ASSUME NEW availability \in Availability, connector'[c] = Changed(c, availability)
        PROVE  HasActiveTransaction(c)
    <2>1. CASE ~(availability = "inoperative" /\ HasActiveTransaction(c))
      BY <1>1, <1>5, <2>1 DEF Changed
    <2> QED BY <2>1
  <1> QED BY <1>2, <1>3, <1>4, <1>5, StepsOfAConnector

\* A stop that ends leaves something deferred only to a running transaction.
LEMMA StopApplies ==
    ASSUME ConnectorTypeOK, NEW s \in Starts, StopAnswered(s), NEW c \in Connectors,
           tx[s].at = c, connector'[c].requested # None
    PROVE  HasActiveTransaction(c)'
  <1>1. connector'[c] = ApplyRequestedAvailability(c, connector[c]) /\ UNCHANGED tx
    BY DEF StopAnswered, ConnectorTypeOK
  <1>2. connector[c] \in
          [plugged : BOOLEAN, availability : Availability, requested : Availability \cup {None}]
    BY DEF ConnectorTypeOK
  <1>3. HasActiveTransaction(c)
    BY <1>1, <1>2 DEF ApplyRequestedAvailability
  <1> QED BY <1>1, <1>3 DEF HasActiveTransaction

\* Whatever the configuration, a deferred ChangeAvailability waits for a running
\* transaction or for a stop that will apply it, unless a transaction that began
\* offline ended on the connector.
THEOREM OnlineStopsApply == Spec => []OnlyOfflineEndsForget
  <1> DEFINE IInv == StopsOfTheEnded /\ OnlyOfflineEndsForget
  <1>1. Init => IInv
    BY DEF Init, StopsOfTheEnded, OnlyOfflineEndsForget
  <1>2. ConnectorTypeOK /\ IInv /\ [Next]_vars => IInv'
    <2> SUFFICES ASSUME ConnectorTypeOK, IInv, [Next]_vars PROVE IInv'
      OBVIOUS
    <2>1. StopsOfTheEnded'
      BY PhasesInductive
    <2>2. ASSUME NEW c \in Connectors, connector'[c].requested # None
          PROVE  Awaited(c)' \/ EndedOffline(c)'
      <3>1. connector[c].requested # None \/ HasActiveTransaction(c)
        BY <2>2, DeferredByTransaction
      <3>2. Awaited(c) \/ EndedOffline(c)
        BY <3>1 DEF OnlyOfflineEndsForget, Awaited
      <3>3. CASE EndedOffline(c)
        BY <3>3, OfflineEndsStay
      <3>4. CASE Awaited(c)
        <4>1. \/ Awaited(c)' \/ EndedOffline(c)'
              \/ \E s \in Starts : StopAnswered(s) /\ tx[s].at = c
          BY <3>4, AwaitedUntilApplied
        <4>2. ASSUME NEW s \in Starts, StopAnswered(s), tx[s].at = c
              PROVE  Awaited(c)'
          BY <2>2, <4>2, StopApplies DEF Awaited
        <4> QED BY <4>1, <4>2
      <3> QED BY <3>2, <3>3, <3>4
    <2>3. OnlyOfflineEndsForget'
      BY <2>2 DEF OnlyOfflineEndsForget
    <2> QED BY <2>1, <2>3
  <1>3. IInv => OnlyOfflineEndsForget
    OBVIOUS
  <1> QED BY <1>1, <1>2, <1>3, TypeCorrect, PTL DEF Spec

-----------------------------------------------------------------------------
(* What the CSMS is told and the web is shown: StatusReports. *)

\* A transaction that has begun is on a connector, and so is what is to be replayed.
Begun == \A s \in Starts : tx[s].state # "none" => tx[s].at \in Connectors
Recorded ==
    /\ \A s \in outbox : tx[s].state # "none"
    /\ \A r \in pass : tx[r.s].state # "none"

\* Requests of a transaction, and of the stop of one; coroutines that compare the
\* status of a connector with one they captured; requests that tell a status.
OfTransaction ==
    {"start", "charging", "finishing", "stop", "stopped", "replay", "replayStop", "resumed", "replayed"}
Ending == {"finishing", "stop", "stopped"}
Comparing == {"finishing", "stop", "stopped", "apply", "change"}
Telling == {"charging", "finishing", "stopped", "plug", "apply", "change", "snapshot", "resumed",
            "replayed"}

\* What is known of a request that waits, the transactions being known.
Fits(f, known) ==
    /\ f.kind \in OfTransaction =>
         /\ f.s \in Starts /\ f.c \in Connectors
         /\ known[f.s].state # "none" /\ known[f.s].at = f.c
    /\ f.kind \in {"plug", "snapshot", "apply"} => f.c \in Connectors
    /\ f.was # None => f.kind \in Comparing /\ f.c # None
    /\ f.was = None => f.kind \notin Comparing \/ (f.kind = "change" /\ f.c = None)
    /\ f.rest # <<>> => f.kind = "change"

FlightsFit == \A i \in DOMAIN flights : Fits(flights[i], tx)

\* What is shown of transactions.  The event that one runs is still to come, or
\* the event that it has ended, which comes after the other.
StartsToShow(s) == \E i \in DOMAIN flights : flights[i].kind = "charging" /\ flights[i].s = s
EndsToShow(s) == \E i \in DOMAIN flights : flights[i].kind \in Ending /\ flights[i].s = s

RunningInv ==
    /\ \A i \in DOMAIN flights :
         /\ flights[i].kind = "charging" =>
              tx[flights[i].s].bound /\ tx[flights[i].s].state \in {"active", "ended"}
         /\ flights[i].kind \in Ending => tx[flights[i].s].state = "ended"
    /\ \A i, j \in DOMAIN flights :
         flights[i].kind = "charging" /\ flights[j].kind \in Ending /\ flights[i].s = flights[j].s
           => i < j
    /\ \A s \in Starts :
         /\ tx[s].state = "active" => txShown[s] = "active" \/ StartsToShow(s)
         /\ tx[s].state # "active" /\ (txShown[s] = "active" \/ StartsToShow(s)) => EndsToShow(s)

\* What the CSMS is told of a connector.  The last report of it that waits, or
\* when none does what was told, is true, or there will be another.
Reports(f, c) == f.kind \in Telling /\ f.c = c

LastReportIs(c, status) ==
    \/ told[c] \in {None, status} /\ \A i \in DOMAIN flights : ~Reports(flights[i], c)
    \/ \E i \in DOMAIN flights :
         /\ Reports(flights[i], c) /\ flights[i].status = status
         /\ \A j \in DOMAIN flights : Reports(flights[j], c) => j <= i

WillReport(f, c, status) ==
    \/ f.kind \in {"finishing", "stop"} /\ f.c = c
    \/ \E j \in DOMAIN f.rest : f.rest[j].c = c /\ f.rest[j].wasOcpp # status

ToldInv ==
    \A c \in Connectors \ untold :
        \/ LastReportIs(c, OcppStatusOf(c))
        \/ \E i \in DOMAIN flights : WillReport(flights[i], c, OcppStatusOf(c))

\* mapConnectorStatus without a transaction.
Plain(status) ==
    CASE status = "unavailable" -> "Unavailable"
      [] status = "occupied" -> "Preparing"
      [] OTHER -> "Available"

\* What the web is shown of a connector.  It is true, or a coroutine will find
\* that the status has changed; a stop that captured "unavailable" still finds it.
WillFind(f, c, status) ==
    \/ f.c = c /\ f.was \notin {None, status}
    \/ \E j \in DOMAIN f.rest :
         f.rest[j].c = c /\ f.rest[j].was # status /\ f.rest[j].wasOcpp = Plain(f.rest[j].was)

Barred(f, c) == f.kind \in {"finishing", "stop"} /\ f.c = c /\ f.was = "unavailable"

ShownInv ==
    \A c \in Connectors \ raced :
        /\ \/ shown[c] \in {None, StatusOf(c)}
           \/ \E i \in DOMAIN flights : WillFind(flights[i], c, StatusOf(c))
        /\ StatusOf(c) = "unavailable" \/ \A i \in DOMAIN flights : ~Barred(flights[i], c)

\* The inductive invariant.
BaseInv == ConnectorTypeOK /\ LastCommandDecides /\ ReportsTypeOK /\ Begun /\ Recorded /\ FlightsFit
ReportsInv == BaseInv /\ RunningInv /\ ToldInv /\ ShownInv

-----------------------------------------------------------------------------
(* A step of the queue: its first n requests, none or one, settle, and a of new, *)
(* none or one, is made.                                                          *)

Moves(n, a, new) ==
    /\ n <= Len(flights)
    /\ flights' \in Seq(Flights)
    /\ Len(flights') = Len(flights) - n + a
    /\ \A i \in 1 .. Len(flights) - n : flights'[i] = flights[i + n]
    /\ a = 1 => flights'[Len(flights')] = new

\* What waits when the first n have settled.
Waiting(n) == IF n = 0 THEN flights ELSE Tail(flights)

LEMMA WaitingIs ==
    ASSUME flights \in Seq(Flights), NEW n \in {0, 1}, n <= Len(flights)
    PROVE  /\ Waiting(n) \in Seq(Flights)
           /\ Len(Waiting(n)) = Len(flights) - n
           /\ \A i \in 1 .. Len(flights) - n : Waiting(n)[i] = flights[i + n]
  <1>1. CASE n = 0
    BY <1>1 DEF Waiting
  <1>2. CASE n = 1
    <2>1. flights # <<>>
      BY <1>2
    <2> QED BY <1>2, <2>1 DEF Waiting
  <1> QED BY <1>1, <1>2

LEMMA MovesWithout ==
    ASSUME flights \in Seq(Flights), NEW n \in {0, 1}, n <= Len(flights), NEW new,
           flights' = Waiting(n)
    PROVE  Moves(n, 0, new)
  BY WaitingIs DEF Moves

LEMMA MovesWith ==
    ASSUME flights \in Seq(Flights), NEW n \in {0, 1}, n <= Len(flights), NEW new \in Flights,
           flights' = Append(Waiting(n), new)
    PROVE  Moves(n, 1, new)
  <1> DEFINE w == Waiting(n)
  <1>1. w \in Seq(Flights) /\ Len(w) = Len(flights) - n
        /\ \A i \in 1 .. Len(flights) - n : w[i] = flights[i + n]
    BY WaitingIs
  <1> HIDE DEF w
  <1>2. flights' = Append(w, new)
    BY DEF w
  <1>3. /\ flights' \in Seq(Flights) /\ Len(flights') = Len(w) + 1
        /\ \A i \in 1 .. Len(w) : flights'[i] = w[i]
        /\ flights'[Len(w) + 1] = new
    BY <1>1, <1>2
  <1> QED BY <1>1, <1>3 DEF Moves

\* Where the requests after such a step come from, and where those before it go.
LEMMA MovesFrom ==
    ASSUME flights \in Seq(Flights), NEW n \in {0, 1}, NEW a \in {0, 1}, NEW new, Moves(n, a, new)
    PROVE  /\ \A i \in DOMAIN flights' :
                \/ i + n \in DOMAIN flights /\ i + n > n /\ flights'[i] = flights[i + n]
                \/ a = 1 /\ i = Len(flights') /\ flights'[i] = new
           /\ \A i \in DOMAIN flights :
                \/ i - n \in DOMAIN flights' /\ flights'[i - n] = flights[i] /\ i > n
                \/ n = 1 /\ i = 1
           /\ a = 1 => /\ Len(flights') \in DOMAIN flights'
                       /\ \A i \in DOMAIN flights : i - n < Len(flights')
           /\ DOMAIN flights \subseteq Nat /\ DOMAIN flights' \subseteq Nat
           /\ \A i \in DOMAIN flights' : i <= Len(flights')
           /\ n = 1 => 1 \in DOMAIN flights
  <1>1. /\ Len(flights) \in Nat /\ DOMAIN flights = 1 .. Len(flights)
        /\ DOMAIN flights' = 1 .. Len(flights') /\ Len(flights') \in Nat
    BY DEF Moves
  <1>2. \A i \in 1 .. Len(flights) - n : flights'[i] = flights[i + n]
    BY DEF Moves
  <1>3. n <= Len(flights) /\ Len(flights') = Len(flights) - n + a
    BY DEF Moves
  <1>4. ASSUME NEW i \in DOMAIN flights'
        PROVE  /\ \/ i + n \in DOMAIN flights /\ i + n > n /\ flights'[i] = flights[i + n]
                  \/ a = 1 /\ i = Len(flights') /\ flights'[i] = new
               /\ i <= Len(flights')
    <2>1. CASE i \in 1 .. Len(flights) - n
      BY <1>1, <1>2, <2>1
    <2>2. CASE i \notin 1 .. Len(flights) - n
      <3>1. a = 1 /\ i = Len(flights')
        BY <1>1, <1>3, <2>2
      <3> QED BY <1>1, <3>1 DEF Moves
    <2> QED BY <2>1, <2>2
  <1>5. ASSUME NEW i \in DOMAIN flights
        PROVE  \/ i - n \in DOMAIN flights' /\ flights'[i - n] = flights[i] /\ i > n
               \/ n = 1 /\ i = 1
    <2>1. CASE i > n
      <3>1. i - n \in 1 .. Len(flights) - n /\ (i - n) + n = i
        BY <1>1, <2>1
      <3>2. i - n \in DOMAIN flights'
        BY <1>1, <1>3, <3>1
      <3> QED BY <1>2, <2>1, <3>1, <3>2
    <2>2. CASE ~(i > n)
      BY <1>1, <2>2
    <2> QED BY <2>1, <2>2
  <1>6. a = 1 => /\ Len(flights') \in DOMAIN flights'
                 /\ \A i \in DOMAIN flights : i - n < Len(flights')
    BY <1>1, <1>3
  <1>7. n = 1 => 1 \in DOMAIN flights
    BY <1>1, <1>3
  <1> QED BY <1>1, <1>4, <1>5, <1>6, <1>7

-----------------------------------------------------------------------------
(* What such a step does to each part of the invariant. *)

\* A transaction that has begun stays where it is, and one that has ended stays so.
Progress ==
    \A s \in Starts : tx[s].state # "none" =>
        /\ tx'[s].state # "none" /\ tx'[s].at = tx[s].at
        /\ tx[s].bound => tx'[s].bound
        /\ tx[s].state = "ended" => tx'[s].state = "ended"
        /\ tx[s].state = "active" => tx'[s].state \in {"active", "ended"}

LEMMA FitsKept ==
    ASSUME FlightsFit, flights \in Seq(Flights), Progress,
           NEW n \in {0, 1}, NEW a \in {0, 1}, NEW new, Moves(n, a, new),
           a = 1 => Fits(new, tx')
    PROVE  FlightsFit'
  <1>1. ASSUME NEW i \in DOMAIN flights'
        PROVE  Fits(flights'[i], tx')
    <2>1. \/ i + n \in DOMAIN flights /\ flights'[i] = flights[i + n]
          \/ a = 1 /\ flights'[i] = new
      BY <1>1, MovesFrom
    <2>2. CASE i + n \in DOMAIN flights /\ flights'[i] = flights[i + n]
      <3>1. Fits(flights[i + n], tx)
        BY <2>2 DEF FlightsFit
      <3> QED BY <2>2, <3>1 DEF Fits, Progress
    <2> QED BY <2>1, <2>2
  <1> QED BY <1>1 DEF FlightsFit

\* Transactions, and what is shown of them.
RunningEffect(n, a, new) ==
    /\ a = 1 => /\ new.kind = "charging" =>
                     tx'[new.s].bound /\ tx'[new.s].state = "active" /\ tx[new.s].state = "sending"
                /\ new.kind \in Ending => tx'[new.s].state = "ended"
    /\ n = 1 =>
         /\ flights[1].kind = "charging" => txShown'[flights[1].s] = "active"
         /\ flights[1].kind \in Ending =>
              \/ a = 1 /\ new.kind \in Ending /\ new.s = flights[1].s
              \/ txShown'[flights[1].s] # "active"
    /\ \A s \in Starts :
         /\ tx'[s].state = "active" /\ tx[s].state # "active" =>
              txShown'[s] = "active" \/ (a = 1 /\ new.kind = "charging" /\ new.s = s)
         /\ tx[s].state = "active" /\ tx'[s].state # "active" =>
              \/ a = 1 /\ new.kind \in Ending /\ new.s = s
              \/ txShown'[s] # "active" /\ ~tx[s].bound
         /\ txShown'[s] # txShown[s] =>
              \/ tx'[s].state = "active" <=> txShown'[s] = "active"
              \/ n = 1 /\ flights[1].kind = "charging" /\ flights[1].s = s

LEMMA RunningKept ==
    ASSUME FlightsFit, RunningInv, flights \in Seq(Flights), Progress,
           NEW n \in {0, 1}, NEW a \in {0, 1}, NEW new, Moves(n, a, new),
           a = 1 => Fits(new, tx'), RunningEffect(n, a, new)
    PROVE  RunningInv'
  <1> USE DEF OfTransaction, Ending
  <1>1. ASSUME NEW i \in DOMAIN flights'
        PROVE  /\ flights'[i].kind = "charging" =>
                    tx'[flights'[i].s].bound /\ tx'[flights'[i].s].state \in {"active", "ended"}
               /\ flights'[i].kind \in Ending => tx'[flights'[i].s].state = "ended"
    <2>1. \/ i + n \in DOMAIN flights /\ flights'[i] = flights[i + n]
          \/ a = 1 /\ flights'[i] = new
      BY <1>1, MovesFrom
    <2>2. CASE i + n \in DOMAIN flights /\ flights'[i] = flights[i + n]
      <3>1. Fits(flights[i + n], tx)
        BY <2>2 DEF FlightsFit
      <3> QED BY <2>2, <3>1 DEF RunningInv, Fits, Progress
    <2>3. CASE a = 1 /\ flights'[i] = new
      BY <2>3 DEF RunningEffect
    <2> QED BY <2>1, <2>2, <2>3
  <1>2. ASSUME NEW i \in DOMAIN flights', NEW j \in DOMAIN flights', flights'[i].kind = "charging",
               flights'[j].kind \in Ending, flights'[i].s = flights'[j].s
        PROVE  i < j
    <2>0. /\ i \in Nat /\ j \in Nat /\ n \in Nat /\ i <= Len(flights') /\ j <= Len(flights')
          /\ \/ i + n \in DOMAIN flights /\ flights'[i] = flights[i + n]
             \/ a = 1 /\ i = Len(flights') /\ flights'[i] = new
          /\ \/ j + n \in DOMAIN flights /\ flights'[j] = flights[j + n]
             \/ a = 1 /\ j = Len(flights') /\ flights'[j] = new
      BY <1>2, MovesFrom
    <2>1. CASE i + n \in DOMAIN flights /\ flights'[i] = flights[i + n]
      <3>1. CASE j + n \in DOMAIN flights /\ flights'[j] = flights[j + n]
        <4>1. i + n < j + n
          BY <1>2, <2>1, <3>1 DEF RunningInv
        <4> QED BY <2>0, <4>1
      <3>2. CASE a = 1 /\ j = Len(flights') /\ flights'[j] = new
        <4>1. i # j
          BY <1>2
        <4> QED BY <2>0, <3>2, <4>1
      <3> QED BY <2>0, <3>1, <3>2
    <2>2. CASE a = 1 /\ i = Len(flights') /\ flights'[i] = new
      <3>1. tx[new.s].state = "sending"
        BY <1>2, <2>2 DEF RunningEffect
      <3>2. CASE j + n \in DOMAIN flights /\ flights'[j] = flights[j + n]
        <4>1. tx[flights[j + n].s].state = "ended"
          BY <1>2, <3>2 DEF RunningInv
        <4> QED BY <1>2, <2>2, <3>1, <3>2, <4>1
      <3>3. CASE a = 1 /\ flights'[j] = new
        BY <1>2, <2>2, <3>3
      <3> QED BY <2>0, <3>2, <3>3
    <2> QED BY <2>0, <2>1, <2>2
  \* Where the events to come go.
  <1>3. ASSUME NEW s \in Starts
        PROVE  /\ StartsToShow(s) => StartsToShow(s)' \/ (n = 1 /\ flights[1].kind = "charging" /\ flights[1].s = s)
               /\ StartsToShow(s)' => StartsToShow(s) \/ (a = 1 /\ new.kind = "charging" /\ new.s = s)
               /\ EndsToShow(s) => EndsToShow(s)' \/ (n = 1 /\ flights[1].kind \in Ending /\ flights[1].s = s)
               /\ a = 1 /\ new.kind = "charging" /\ new.s = s => StartsToShow(s)'
               /\ a = 1 /\ new.kind \in Ending /\ new.s = s => EndsToShow(s)'
    <2>1. /\ StartsToShow(s)' <=> \E i \in DOMAIN flights' : flights'[i].kind = "charging" /\ flights'[i].s = s
          /\ EndsToShow(s)' <=> \E i \in DOMAIN flights' : flights'[i].kind \in Ending /\ flights'[i].s = s
      BY DEF StartsToShow, EndsToShow
    <2>2. StartsToShow(s) => StartsToShow(s)' \/ (n = 1 /\ flights[1].kind = "charging" /\ flights[1].s = s)
      BY <2>1, MovesFrom DEF StartsToShow
    <2>3. StartsToShow(s)' => StartsToShow(s) \/ (a = 1 /\ new.kind = "charging" /\ new.s = s)
      <3>1. ASSUME NEW i \in DOMAIN flights', flights'[i].kind = "charging", flights'[i].s = s
            PROVE  StartsToShow(s) \/ (a = 1 /\ new.kind = "charging" /\ new.s = s)
        <4>1. \/ i + n \in DOMAIN flights /\ flights'[i] = flights[i + n]
              \/ a = 1 /\ flights'[i] = new
          BY MovesFrom
        <4> QED BY <3>1, <4>1 DEF StartsToShow
      <3> QED BY <2>1, <3>1
    <2>4. EndsToShow(s) => EndsToShow(s)' \/ (n = 1 /\ flights[1].kind \in Ending /\ flights[1].s = s)
      BY <2>1, MovesFrom DEF EndsToShow
    <2>5. a = 1 => Len(flights') \in DOMAIN flights' /\ flights'[Len(flights')] = new
      BY MovesFrom DEF Moves
    <2> QED BY <2>1, <2>2, <2>3, <2>4, <2>5
  <1>4. ASSUME NEW s \in Starts, StartsToShow(s)
        PROVE  tx[s].bound /\ tx[s].state \in {"active", "ended"}
    BY <1>4 DEF RunningInv, StartsToShow
  <1>5. ASSUME NEW s \in Starts, tx'[s].state = "active"
        PROVE  txShown'[s] = "active" \/ StartsToShow(s)'
    <2>1. CASE tx[s].state # "active"
      BY <1>3, <1>5, <2>1 DEF RunningEffect
    <2>2. CASE tx[s].state = "active"
      <3>1. txShown[s] = "active" \/ StartsToShow(s)
        BY <2>2 DEF RunningInv
      <3>2. CASE txShown'[s] # txShown[s]
        BY <1>5, <3>2 DEF RunningEffect
      <3>3. n = 1 /\ flights[1].kind = "charging" /\ flights[1].s = s => txShown'[s] = "active"
        BY DEF RunningEffect
      <3> QED BY <1>3, <3>1, <3>2, <3>3
    <2> QED BY <2>1, <2>2
  <1>6. ASSUME NEW s \in Starts, tx'[s].state # "active", txShown'[s] = "active" \/ StartsToShow(s)'
        PROVE  EndsToShow(s)'
    <2>0. ~(a = 1 /\ new.kind = "charging" /\ new.s = s)
      BY <1>6 DEF RunningEffect
    <2>1. StartsToShow(s)' => StartsToShow(s)
      BY <1>3, <2>0
    <2>2. CASE tx[s].state = "active"
      <3>1. \/ a = 1 /\ new.kind \in Ending /\ new.s = s
            \/ txShown'[s] # "active" /\ ~tx[s].bound
        BY <1>6, <2>2 DEF RunningEffect
      <3> QED BY <1>3, <1>4, <1>6, <2>1, <3>1
    <2>3. CASE tx[s].state # "active"
      <3>1. txShown[s] = "active" \/ StartsToShow(s)
        <4>1. txShown'[s] # txShown[s] /\ txShown'[s] = "active" =>
                n = 1 /\ flights[1].kind = "charging" /\ flights[1].s = s
          BY <1>6 DEF RunningEffect
        <4>2. n = 1 => 1 \in DOMAIN flights
          BY MovesFrom
        <4>3. n = 1 /\ flights[1].kind = "charging" /\ flights[1].s = s => StartsToShow(s)
          BY <4>2 DEF StartsToShow
        <4> QED BY <1>6, <2>1, <4>1, <4>3
      <3>2. EndsToShow(s)
        BY <2>3, <3>1 DEF RunningInv
      <3>3. CASE n = 1 /\ flights[1].kind \in Ending /\ flights[1].s = s
        <4>1. CASE a = 1 /\ new.kind \in Ending /\ new.s = s
          BY <1>3, <4>1
        <4>2. CASE txShown'[s] # "active"
          <5>1. PICK i \in DOMAIN flights' : flights'[i].kind = "charging" /\ flights'[i].s = s
            BY <1>6, <4>2 DEF StartsToShow
          <5>2. i + n \in DOMAIN flights /\ flights'[i] = flights[i + n] /\ i + n > n
            BY <2>0, <5>1, MovesFrom
          <5>3. 1 \in DOMAIN flights /\ i + n \in Nat
            BY <3>3, <5>2, MovesFrom
          <5>4. i + n < 1
            BY <3>3, <5>1, <5>2, <5>3 DEF RunningInv
          <5> QED BY <3>3, <5>2, <5>3, <5>4
        <4> QED BY <3>3, <4>1, <4>2 DEF RunningEffect
      <3> QED BY <1>3, <3>2, <3>3
    <2> QED BY <2>2, <2>3
  <1> QED BY <1>1, <1>2, <1>5, <1>6 DEF RunningInv

\* What is told of connectors.
ToldEffect(n, a, new) ==
    \A c \in Connectors :
        /\ IF n = 1 /\ Reports(flights[1], c) THEN told'[c] \in {None, flights[1].status}
           ELSE told'[c] = told[c]
        /\ c \notin untold' =>
             \/ a = 1 /\ Reports(new, c) /\ new.status = NextOcppStatus(c)
             \/ a = 1 /\ WillReport(new, c, NextOcppStatus(c))
             \/ /\ c \notin untold
                /\ NextOcppStatus(c) = OcppStatusOf(c)
                /\ ~(a = 1 /\ Reports(new, c))
                /\ ~(n = 1 /\ WillReport(flights[1], c, OcppStatusOf(c)))

LEMMA ToldKept ==
    ASSUME ToldInv, flights \in Seq(Flights),
           NEW n \in {0, 1}, NEW a \in {0, 1}, NEW new, Moves(n, a, new), ToldEffect(n, a, new)
    PROVE  ToldInv'
  <1> SUFFICES ASSUME NEW c \in Connectors, c \notin untold'
               PROVE  \/ LastReportIs(c, OcppStatusOf(c))'
                      \/ \E i \in DOMAIN flights' : WillReport(flights'[i], c, NextOcppStatus(c))
    BY DEF ToldInv, OcppStatusOf, NextOcppStatus
  <1> DEFINE status == NextOcppStatus(c)
             Last == \/ /\ told'[c] \in {None, status}
                        /\ \A i \in DOMAIN flights' : ~Reports(flights'[i], c)
                     \/ \E i \in DOMAIN flights' :
                          /\ Reports(flights'[i], c) /\ flights'[i].status = status
                          /\ \A j \in DOMAIN flights' : Reports(flights'[j], c) => j <= i
  <1>0. Last => LastReportIs(c, OcppStatusOf(c))'
    BY DEF LastReportIs, OcppStatusOf, NextOcppStatus, Reports
  <1> HIDE DEF Last
  <1>1. a = 1 => /\ Len(flights') \in DOMAIN flights' /\ flights'[Len(flights')] = new
                 /\ \A i \in DOMAIN flights' : i <= Len(flights')
    BY MovesFrom DEF Moves
  <1>2. CASE a = 1 /\ Reports(new, c) /\ new.status = status
    BY <1>0, <1>1, <1>2 DEF Last
  <1>3. CASE a = 1 /\ WillReport(new, c, status)
    BY <1>1, <1>3
  <1>4. CASE /\ c \notin untold
             /\ status = OcppStatusOf(c)
             /\ ~(a = 1 /\ Reports(new, c))
             /\ ~(n = 1 /\ WillReport(flights[1], c, OcppStatusOf(c)))
    <2>1. CASE \E i \in DOMAIN flights : WillReport(flights[i], c, OcppStatusOf(c))
      <3>1. PICK i \in DOMAIN flights : WillReport(flights[i], c, OcppStatusOf(c))
        BY <2>1
      <3>2. i - n \in DOMAIN flights' /\ flights'[i - n] = flights[i]
        BY <1>4, <3>1, MovesFrom
      <3> QED BY <1>4, <3>1, <3>2
    <2>2. CASE told[c] \in {None, status} /\ \A i \in DOMAIN flights : ~Reports(flights[i], c)
      <3>1. \A i \in DOMAIN flights' : ~Reports(flights'[i], c)
        BY <1>4, <2>2, MovesFrom
      <3>2. ~(n = 1 /\ Reports(flights[1], c))
        BY <2>2, MovesFrom
      <3>3. told'[c] = told[c]
        BY <3>2 DEF ToldEffect
      <3> QED BY <1>0, <2>2, <3>1, <3>3 DEF Last
    <2>3. ASSUME NEW i \in DOMAIN flights, Reports(flights[i], c), flights[i].status = status,
                 \A j \in DOMAIN flights : Reports(flights[j], c) => j <= i
          PROVE  Last
      <3>1. CASE n = 1 /\ i = 1
        <4>1. ASSUME NEW j \in DOMAIN flights', Reports(flights'[j], c)
              PROVE  FALSE
          <5>1. j + n \in DOMAIN flights /\ flights'[j] = flights[j + n] /\ j + n > n /\ j + n \in Nat
            BY <1>4, <4>1, MovesFrom
          <5> QED BY <2>3, <3>1, <4>1, <5>1
        <4>2. told'[c] \in {None, flights[1].status}
          BY <2>3, <3>1 DEF ToldEffect
        <4> QED BY <2>3, <3>1, <4>1, <4>2 DEF Last
      <3>2. CASE ~(n = 1 /\ i = 1)
        <4>1. i - n \in DOMAIN flights' /\ flights'[i - n] = flights[i] /\ i \in Nat
          BY <3>2, MovesFrom
        <4>2. ASSUME NEW j \in DOMAIN flights', Reports(flights'[j], c)
              PROVE  j <= i - n
          <5>1. j + n \in DOMAIN flights /\ flights'[j] = flights[j + n] /\ j \in Nat
            BY <1>4, <4>2, MovesFrom
          <5>2. j + n <= i
            BY <2>3, <4>2, <5>1
          <5> QED BY <4>1, <5>1, <5>2
        <4> QED BY <2>3, <4>1, <4>2 DEF Last
      <3> QED BY <3>1, <3>2
    <2> QED BY <1>0, <1>4, <2>1, <2>2, <2>3 DEF ToldInv, LastReportIs
  <1> QED BY <1>2, <1>3, <1>4 DEF ToldEffect

\* What is shown of connectors.
NextStatus(c) == Status(connector'[c])

ShownEffect(n, a, new) ==
    \A c \in Connectors : c \notin raced' =>
        /\ \/ shown'[c] = NextStatus(c)
           \/ a = 1 /\ WillFind(new, c, NextStatus(c))
           \/ /\ c \notin raced
              /\ NextStatus(c) = StatusOf(c)
              /\ shown'[c] = shown[c]
              /\ ~(n = 1 /\ WillFind(flights[1], c, StatusOf(c)))
        /\ \/ NextStatus(c) = "unavailable"
           \/ c \notin raced /\ StatusOf(c) # "unavailable" /\ ~(a = 1 /\ Barred(new, c))
           \/ ~(a = 1 /\ Barred(new, c)) /\ \A i \in DOMAIN flights : i > n => ~Barred(flights[i], c)

LEMMA ShownKept ==
    ASSUME ShownInv, flights \in Seq(Flights),
           NEW n \in {0, 1}, NEW a \in {0, 1}, NEW new, Moves(n, a, new), ShownEffect(n, a, new)
    PROVE  ShownInv'
  <1> SUFFICES ASSUME NEW c \in Connectors, c \notin raced'
               PROVE  /\ \/ shown'[c] \in {None, NextStatus(c)}
                         \/ \E i \in DOMAIN flights' : WillFind(flights'[i], c, NextStatus(c))
                      /\ NextStatus(c) = "unavailable" \/ \A i \in DOMAIN flights' : ~Barred(flights'[i], c)
    BY DEF ShownInv, StatusOf, NextStatus
  <1>1. \/ shown'[c] \in {None, NextStatus(c)}
        \/ \E i \in DOMAIN flights' : WillFind(flights'[i], c, NextStatus(c))
    <2>1. CASE shown'[c] = NextStatus(c)
      BY <2>1
    <2>2. CASE a = 1 /\ WillFind(new, c, NextStatus(c))
      BY <2>2, MovesFrom DEF Moves
    <2>3. CASE /\ c \notin raced
               /\ NextStatus(c) = StatusOf(c)
               /\ shown'[c] = shown[c]
               /\ ~(n = 1 /\ WillFind(flights[1], c, StatusOf(c)))
      <3>1. CASE shown[c] \in {None, StatusOf(c)}
        BY <2>3, <3>1
      <3>2. CASE \E i \in DOMAIN flights : WillFind(flights[i], c, StatusOf(c))
        <4>1. PICK i \in DOMAIN flights : WillFind(flights[i], c, StatusOf(c))
          BY <3>2
        <4>2. i - n \in DOMAIN flights' /\ flights'[i - n] = flights[i]
          BY <2>3, <4>1, MovesFrom
        <4> QED BY <2>3, <4>1, <4>2
      <3> QED BY <2>3, <3>1, <3>2 DEF ShownInv
    <2> QED BY <2>1, <2>2, <2>3 DEF ShownEffect
  <1>2. NextStatus(c) = "unavailable" \/ \A i \in DOMAIN flights' : ~Barred(flights'[i], c)
    <2>1. CASE c \notin raced /\ StatusOf(c) # "unavailable" /\ ~(a = 1 /\ Barred(new, c))
      <3>1. \A i \in DOMAIN flights : ~Barred(flights[i], c)
        BY <2>1 DEF ShownInv
      <3> QED BY <2>1, <3>1, MovesFrom
    <2>2. CASE ~(a = 1 /\ Barred(new, c)) /\ \A i \in DOMAIN flights : i > n => ~Barred(flights[i], c)
      <3>1. ASSUME NEW i \in DOMAIN flights'
            PROVE  ~Barred(flights'[i], c)
        <4>1. \/ i + n \in DOMAIN flights /\ i + n > n /\ flights'[i] = flights[i + n]
              \/ a = 1 /\ flights'[i] = new
          BY MovesFrom
        <4> QED BY <2>2, <4>1
      <3> QED BY <3>1
    <2> QED BY <2>1, <2>2 DEF ShownEffect
  <1> QED BY <1>1, <1>2

LEMMA ProgressKept ==
    ASSUME ConnectorTypeOK, [Next]_vars PROVE Progress
  <1> USE DEF ConnectorTypeOK, Progress
  <1>1. CASE UNCHANGED tx
    BY <1>1
  <1>2. ASSUME NEW s \in Starts, NEW c \in Connectors, BeginStart(s, c) \/ StartOffline(s, c)
        PROVE  Progress
    BY <1>2 DEF BeginStart, StartOffline, Activate
  <1>3. ASSUME NEW s \in Starts, StartAccepted(s) \/ StartRefused(s)
        PROVE  Progress
    BY <1>3 DEF StartAccepted, StartRefused, Activate
  <1>4. ASSUME NEW s \in Starts, NEW accepted \in BOOLEAN, ReplayStartAnswered(s, accepted)
        PROVE  Progress
    <2> DEFINE bound == [tx EXCEPT ![s].bound = TRUE]
    <2>1. \A t \in Starts : tx'[t].bound = bound[t].bound
      <3>1. bound \in [Starts -> [state : {"none", "sending", "refused", "active", "ended"},
                                  at : Connectors \cup {None}, bound : BOOLEAN]]
        OBVIOUS
      <3>2. tx' = bound \/ tx' = [bound EXCEPT ![s].state = "ended"]
        BY <1>4 DEF ReplayStartAnswered, End
      <3> HIDE DEF bound
      <3> QED BY <3>1, <3>2
    <2>2. \A t \in Starts : tx[t].bound => bound[t].bound
      OBVIOUS
    <2>3. \A t \in Starts : /\ tx'[t].at = tx[t].at
                            /\ \/ tx'[t].state = tx[t].state
                               \/ tx[t].state = "active" /\ tx'[t].state = "ended"
      BY <1>4, ReplayEffect
    <2> HIDE DEF bound
    <2> QED BY <2>1, <2>2, <2>3
  <1>5. ASSUME NEW s \in Starts, BeginStop(s)
        PROVE  Progress
    BY <1>5 DEF BeginStop, End
  <1> QED
    BY <1>1, <1>2, <1>3, <1>4, <1>5
    DEF Next, vars, StopNotified, StopAnswered, ChangeAvailability, ChangePointAvailability,
        PlugConnector, UnplugConnector, ConnectionChanges, BootAnswered

LEMMA BegunKept ==
    ASSUME ConnectorTypeOK, Begun, [Next]_vars PROVE Begun'
  <1> USE DEF ConnectorTypeOK, Begun
  <1>1. CASE UNCHANGED tx
    BY <1>1
  <1>2. ASSUME NEW s \in Starts, NEW c \in Connectors, BeginStart(s, c) \/ StartOffline(s, c)
        PROVE  Begun'
    <2>1. \A t \in Starts : tx'[t] = tx[t] \/ (t = s /\ tx'[t].at = c)
      <3>1. CASE BeginStart(s, c)
        BY <3>1 DEF BeginStart
      <3>2. CASE StartOffline(s, c)
        <4>1. tx' = [tx EXCEPT ![s] = [state |-> "active", at |-> c, bound |-> FALSE]]
          BY <3>2 DEF StartOffline, Activate
        <4> QED BY <4>1
      <3> QED BY <1>2, <3>1, <3>2
    <2> QED BY <2>1
  <1>3. ASSUME NEW s \in Starts, StartAccepted(s) \/ StartRefused(s)
        PROVE  Begun'
    BY <1>3 DEF StartAccepted, StartRefused, Activate
  <1>4. ASSUME NEW s \in Starts, NEW accepted \in BOOLEAN, ReplayStartAnswered(s, accepted)
        PROVE  Begun'
    BY <1>4, ReplayEffect
  <1>5. ASSUME NEW s \in Starts, BeginStop(s)
        PROVE  Begun'
    BY <1>5 DEF BeginStop, End
  <1> QED
    BY <1>1, <1>2, <1>3, <1>4, <1>5
    DEF Next, vars, StopNotified, StopAnswered, ChangeAvailability, ChangePointAvailability,
        PlugConnector, UnplugConnector, ConnectionChanges, BootAnswered

\* The other variables of the reports, and what is to be replayed.
RestFits ==
    /\ outbox' \subseteq Starts /\ pass' \subseteq Records
    /\ told' \in [Connectors -> OcppStatuses \cup {None}]
    /\ shown' \in [Connectors -> Statuses \cup {None}]
    /\ txShown' \in [Starts -> {"none", "active", "ended"}]
    /\ untold' \subseteq Connectors
    /\ raced' \subseteq Connectors
    /\ \A s \in outbox' : s \in outbox \/ tx'[s].state # "none"
    /\ \A r \in pass' : r \in pass \/ r.s \in outbox

\* A step with such an effect.
Effect(n, a, new) ==
    /\ Moves(n, a, new)
    /\ a = 1 => Fits(new, tx')
    /\ RunningEffect(n, a, new)
    /\ ToldEffect(n, a, new)
    /\ ShownEffect(n, a, new)

LEMMA EffectKeeps ==
    ASSUME ReportsInv, [Next]_vars, RestFits,
           NEW n \in {0, 1}, NEW a \in {0, 1}, NEW new, Effect(n, a, new)
    PROVE  ReportsInv'
  <1> USE DEF ReportsInv, BaseInv, Effect
  <1>1. ConnectorTypeOK'
    BY TypeInductive
  <1>2. LastCommandDecides'
    BY DecidedInductive
  <1>3. Progress /\ Begun'
    BY ProgressKept, BegunKept
  <1>4. flights \in Seq(Flights)
    BY DEF ReportsTypeOK
  <1>5. ReportsTypeOK'
    BY DEF RestFits, ReportsTypeOK, Moves
  <1>6. Recorded'
    <2>1. \A s \in outbox' : tx'[s].state # "none"
      BY <1>3 DEF RestFits, Recorded, Progress, ReportsTypeOK
    <2>2. ASSUME NEW r \in pass' PROVE tx'[r.s].state # "none"
      <3>1. r.s \in Starts
        BY DEF RestFits, Records
      <3>2. tx[r.s].state # "none"
        BY DEF RestFits, Recorded
      <3> QED BY <1>3, <3>1, <3>2 DEF Progress
    <2> QED BY <2>1, <2>2 DEF Recorded
  <1>7. FlightsFit' /\ RunningInv' /\ ToldInv' /\ ShownInv'
    BY <1>3, <1>4, FitsKept, RunningKept, ToldKept, ShownKept
  <1> QED BY <1>1, <1>2, <1>3, <1>5, <1>6, <1>7

\* Statuses are.
LEMMA StatusTyped ==
    /\ \A point : Status(point) \in Statuses
    /\ \A point, active : OcppStatus(point, active) \in OcppStatuses
    /\ \A c : StatusOf(c) \in Statuses /\ OcppStatusOf(c) \in OcppStatuses
    /\ \A c : NextStatus(c) \in Statuses /\ NextOcppStatus(c) \in OcppStatuses
  <1>1. \A point : Status(point) \in Statuses
    BY DEF Status, Statuses
  <1>2. \A point, active : OcppStatus(point, active) \in OcppStatuses
    BY DEF OcppStatus, OcppStatuses
  <1> QED BY <1>1, <1>2 DEF StatusOf, OcppStatusOf, NextStatus, NextOcppStatus

\* Steps that a part of the invariant takes no notice of.
LEMMA RunningQuiet ==
    ASSUME UNCHANGED <<tx, txShown>>, NEW n, NEW a, NEW new,
           n = 1 => flights[1].kind \notin Ending \cup {"charging"},
           a = 1 => new.kind \notin Ending \cup {"charging"}
    PROVE  RunningEffect(n, a, new)
  BY DEF RunningEffect

LEMMA ToldQuiet ==
    ASSUME UNCHANGED <<connector, evseTx, told, untold>>, NEW n, NEW a, NEW new,
           n = 1 => flights[1].kind \notin Telling \cup {"stop"} /\ flights[1].rest = <<>>,
           a = 1 => new.kind \notin Telling
    PROVE  ToldEffect(n, a, new)
  <1>1. n = 1 => \A c : ~Reports(flights[1], c) /\ ~WillReport(flights[1], c, OcppStatusOf(c))
    BY DEF Reports, WillReport, Telling
  <1>2. a = 1 => \A c : ~Reports(new, c)
    BY DEF Reports
  <1>3. \A c : NextOcppStatus(c) = OcppStatusOf(c)
    BY DEF NextOcppStatus, OcppStatusOf
  <1> QED BY <1>1, <1>2, <1>3 DEF ToldEffect

LEMMA ShownQuiet ==
    ASSUME UNCHANGED <<connector, shown, raced>>, NEW n, NEW a, NEW new,
           n = 1 => flights[1].was = None /\ flights[1].rest = <<>>,
           a = 1 => new.kind \notin {"finishing", "stop"}
    PROVE  ShownEffect(n, a, new)
  <1>1. n = 1 => \A c : ~WillFind(flights[1], c, StatusOf(c))
    BY DEF WillFind
  <1>2. a = 1 => \A c : ~Barred(new, c)
    BY DEF Barred
  <1>3. \A c : NextStatus(c) = StatusOf(c)
    BY DEF NextStatus, StatusOf
  <1> QED BY <1>1, <1>2, <1>3 DEF ShownEffect

-----------------------------------------------------------------------------
(* The steps that make requests and events. *)

\* What a step starts from.
LEMMA Standing ==
    ASSUME ReportsInv
    PROVE  /\ flights \in Seq(Flights) /\ Len(flights) \in Nat /\ Waiting(0) = flights
           /\ 0 <= Len(flights)
           /\ flights # <<>> => 1 <= Len(flights) /\ flights[1] = Head(flights) /\ flights[1] \in Flights
                                /\ Fits(flights[1], tx) /\ Waiting(1) = Tail(flights) /\ 1 \in DOMAIN flights
           /\ tx \in [Starts -> [state : {"none", "sending", "refused", "active", "ended"},
                                 at : Connectors \cup {None}, bound : BOOLEAN]]
           /\ connector \in [Connectors -> [plugged : BOOLEAN, availability : Availability,
                                            requested : Availability \cup {None}]]
           /\ evseTx \in [Connectors -> Starts \cup {None}]
           /\ outbox \subseteq Starts /\ pass \subseteq Records
           /\ told \in [Connectors -> OcppStatuses \cup {None}]
           /\ shown \in [Connectors -> Statuses \cup {None}]
           /\ txShown \in [Starts -> {"none", "active", "ended"}]
           /\ untold \subseteq Connectors /\ raced \subseteq Connectors
  <1>1. flights \in Seq(Flights)
    BY DEF ReportsInv, BaseInv, ReportsTypeOK
  <1>2. flights # <<>> => 1 <= Len(flights) /\ flights[1] = Head(flights) /\ flights[1] \in Flights
                          /\ 1 \in DOMAIN flights
    BY <1>1
  <1>3. flights # <<>> => Fits(flights[1], tx)
    BY <1>2 DEF ReportsInv, BaseInv, FlightsFit
  <1>4. Waiting(0) = flights /\ Waiting(1) = Tail(flights)
    BY DEF Waiting
  <1> QED BY <1>1, <1>2, <1>3, <1>4 DEF ReportsInv, BaseInv, ReportsTypeOK, ConnectorTypeOK

\* A request of a kind that waits.
LEMMA RequestIs ==
    ASSUME NEW kind \in {"start", "charging", "finishing", "stop", "stopped", "plug", "apply",
                         "change", "snapshot", "replay", "replayStop", "resumed", "replayed"},
           NEW s \in Starts \cup {None}, NEW c \in Connectors \cup {None},
           NEW status \in OcppStatuses \cup {None}, NEW was \in Statuses \cup {None},
           NEW rest \in Seq(Changes)
    PROVE  Request(kind, s, c, status, was, rest) \in Flights
  BY DEF Request, Flights

LEMMA RequestHas ==
    \A kind, s, c, status, was, rest :
        /\ Request(kind, s, c, status, was, rest).kind = kind
        /\ Request(kind, s, c, status, was, rest).s = s
        /\ Request(kind, s, c, status, was, rest).c = c
        /\ Request(kind, s, c, status, was, rest).status = status
        /\ Request(kind, s, c, status, was, rest).was = was
        /\ Request(kind, s, c, status, was, rest).rest = rest
  BY DEF Request

\* No change is left of none.
LEMMA NoRest == <<>> \in Seq(Changes) /\ DOMAIN <<>> = {}
  OBVIOUS

LEMMA BeginStartKeeps ==
    ASSUME ReportsInv, NEW s \in Starts, NEW c \in Connectors, ReportsBeginStart(s, c)
    PROVE  ReportsInv'
  <1> DEFINE new == Request("start", s, c, None, None, <<>>)
  <1>0. /\ BeginStart(s, c) /\ flights' = Append(flights, new)
        /\ UNCHANGED <<outbox, pass, told, shown, txShown, untold, raced>>
    BY DEF ReportsBeginStart, replayVars
  <1>1. [Next]_vars
    BY <1>0 DEF Next
  <1>2. new \in Flights
    BY NoRest, RequestIs
  <1>3. /\ new.kind = "start" /\ new.s = s /\ new.c = c /\ new.was = None /\ new.rest = <<>>
    BY RequestHas
  <1> HIDE DEF new
  <1>4. Moves(0, 1, new)
    BY <1>0, <1>2, Standing, MovesWith
  <1>5. UNCHANGED <<connector, evseTx>> /\ tx' = [tx EXCEPT ![s].state = "sending", ![s].at = c]
        /\ tx[s].state = "none"
    BY <1>0 DEF BeginStart
  <1>6. tx'[s].state = "sending" /\ tx'[s].at = c /\ \A t \in Starts : t # s => tx'[t] = tx[t]
    BY <1>5, Standing
  <1>7. Fits(new, tx')
    BY <1>3, <1>6 DEF Fits, Comparing
  <1>8. RunningEffect(0, 1, new)
    <2>1. \A t \in Starts : tx'[t].state = "active" <=> tx[t].state = "active"
      BY <1>5, <1>6
    <2>2. new.kind \notin Ending \cup {"charging"}
      BY <1>3 DEF Ending
    <2> QED BY <1>0, <2>1, <2>2 DEF RunningEffect
  <1>9. ToldEffect(0, 1, new)
    BY <1>0, <1>3, <1>5, ToldQuiet DEF Telling
  <1>10. ShownEffect(0, 1, new)
    BY <1>0, <1>3, <1>5, ShownQuiet
  <1>11. RestFits
    BY <1>0, Standing DEF RestFits
  <1> QED BY <1>1, <1>4, <1>7, <1>8, <1>9, <1>10, <1>11, EffectKeeps DEF Effect

LEMMA StartOfflineKeeps ==
    ASSUME ReportsInv, NEW s \in Starts, NEW c \in Connectors, ReportsStartOffline(s, c)
    PROVE  ReportsInv'
  <1>0. /\ StartOffline(s, c) /\ flights' = flights /\ outbox' = outbox \cup {s}
        /\ txShown' = [txShown EXCEPT ![s] = "active"] /\ untold' = untold \cup {c}
        /\ UNCHANGED <<pass, told, shown, raced>>
    BY DEF ReportsStartOffline, ShowTransaction
  <1>1. [Next]_vars
    BY <1>0 DEF Next
  <1>2. Moves(0, 0, None)
    BY <1>0, Standing, MovesWithout
  <1>3. /\ tx' = [tx EXCEPT ![s] = [state |-> "active", at |-> c, bound |-> FALSE]]
        /\ evseTx' = [evseTx EXCEPT ![c] = s] /\ UNCHANGED connector
    BY <1>0 DEF StartOffline, Activate
  <1>4. tx'[s].state = "active" /\ \A t \in Starts : t # s => tx'[t] = tx[t]
    BY <1>3, Standing
  <1>5. txShown'[s] = "active" /\ \A t \in Starts : t # s => txShown'[t] = txShown[t]
    BY <1>0, Standing
  <1>6. RunningEffect(0, 0, None)
    BY <1>4, <1>5 DEF RunningEffect
  <1>7. ToldEffect(0, 0, None)
    BY <1>0, <1>3, Standing DEF ToldEffect, NextOcppStatus, OcppStatusOf
  <1>8. ShownEffect(0, 0, None)
    BY <1>0, <1>3, ShownQuiet
  <1>9. RestFits
    BY <1>0, <1>4, Standing DEF RestFits
  <1> QED BY <1>1, <1>2, <1>6, <1>7, <1>8, <1>9, EffectKeeps DEF Effect

LEMMA OfflineReadingKeeps ==
    ASSUME ReportsInv, NEW s \in Starts, OfflineReading(s)
    PROVE  ReportsInv'
  <1>0. /\ UNCHANGED vars /\ flights' = flights /\ outbox' = outbox \cup {s} /\ tx[s].state = "active"
        /\ UNCHANGED <<pass, told, shown, txShown, untold, raced>>
    BY DEF OfflineReading
  <1>1. UNCHANGED <<connector, evseTx, tx>>
    BY <1>0 DEF vars
  <1>2. Moves(0, 0, None)
    BY <1>0, Standing, MovesWithout
  <1>3. RunningEffect(0, 0, None)
    BY <1>0, <1>1, RunningQuiet
  <1>4. ToldEffect(0, 0, None)
    BY <1>0, <1>1, ToldQuiet
  <1>5. ShownEffect(0, 0, None)
    BY <1>0, <1>1, ShownQuiet
  <1>6. RestFits
    BY <1>0, <1>1, Standing DEF RestFits
  <1> QED BY <1>0, <1>2, <1>3, <1>4, <1>5, <1>6, EffectKeeps DEF Effect

LEMMA BeginStopKeeps ==
    ASSUME ReportsInv, NEW s \in Starts, ReportsBeginStop(s)
    PROVE  ReportsInv'
  <1> DEFINE c == tx[s].at
             new == Request("finishing", s, c, "Finishing", StatusOf(c), <<>>)
  <1>0. /\ BeginStop(s) /\ flights' = Append(flights, new)
        /\ UNCHANGED <<outbox, pass, told, shown, txShown, untold, raced>>
    BY DEF ReportsBeginStop, replayVars
  <1>1. [Next]_vars
    BY <1>0 DEF Next
  <1>2. tx[s].state = "active" /\ c \in Connectors
    BY <1>0 DEF BeginStop, ReportsInv, BaseInv, Begun
  <1>3. new \in Flights
    <2>1. StatusOf(c) \in Statuses /\ "Finishing" \in OcppStatuses
      BY StatusTyped DEF OcppStatuses
    <2> QED BY <1>2, <2>1, NoRest, RequestIs
  <1>4. /\ new.kind = "finishing" /\ new.s = s /\ new.c = c /\ new.was = StatusOf(c) /\ new.rest = <<>>
    BY RequestHas
  <1>5. StatusOf(c) # None
    BY StatusTyped, ReportsAssumption
  <1> HIDE DEF new
  <1>6. Moves(0, 1, new)
    BY <1>0, <1>3, Standing, MovesWith
  <1>7. /\ UNCHANGED connector /\ evseTx' = [evseTx EXCEPT ![c] = None]
        /\ tx' = [tx EXCEPT ![s].state = "ended"]
    BY <1>0 DEF BeginStop, End
  <1>8. /\ tx'[s].state = "ended" /\ tx'[s].at = c /\ \A t \in Starts : t # s => tx'[t] = tx[t]
        /\ \A d \in Connectors : d # c => evseTx'[d] = evseTx[d]
    BY <1>7, Standing
  <1> HIDE DEF c
  <1>9. Fits(new, tx')
    BY <1>2, <1>4, <1>5, <1>8, ConnectorsAssumption DEF Fits, Comparing
  <1>10. RunningEffect(0, 1, new)
    BY <1>0, <1>4, <1>8 DEF RunningEffect, Ending
  <1>11. ToldEffect(0, 1, new)
    <2>1. WillReport(new, c, NextOcppStatus(c))
      BY <1>4 DEF WillReport
    <2>2. \A d \in Connectors : d # c => NextOcppStatus(d) = OcppStatusOf(d) /\ ~Reports(new, d)
      BY <1>4, <1>7, <1>8 DEF NextOcppStatus, OcppStatusOf, Reports
    <2> QED BY <1>0, <2>1, <2>2 DEF ToldEffect
  <1>12. ShownEffect(0, 1, new)
    <2>1. \A d : NextStatus(d) = StatusOf(d)
      BY <1>7 DEF NextStatus, StatusOf
    <2>2. \A d \in Connectors : Barred(new, d) => StatusOf(d) = "unavailable"
      BY <1>4 DEF Barred
    <2>3. \A d \in Connectors : shown[d] \in {None, StatusOf(d)} \/ shown'[d] = shown[d]
      BY <1>0
    <2> QED BY <1>0, <2>1, <2>2 DEF ShownEffect
  <1>13. RestFits
    BY <1>0, Standing DEF RestFits
  <1> QED BY <1>1, <1>6, <1>9, <1>10, <1>11, <1>12, <1>13, EffectKeeps DEF Effect

-----------------------------------------------------------------------------
(* Events of connectors. *)

\* What an event changes.
LEMMA EmitIs ==
    ASSUME shown \in [Connectors -> Statuses \cup {None}], raced \subseteq Connectors,
           NEW c \in Connectors, NEW was, NEW waiting, Emit(c, was, waiting)
    PROVE  /\ shown' \in [Connectors -> Statuses \cup {None}] /\ raced' \subseteq raced
           /\ \A d \in Connectors : d # c => shown'[d] = shown[d] /\ (d \in raced' <=> d \in raced)
           /\ NextStatus(c) = was => UNCHANGED <<shown, raced>>
           /\ NextStatus(c) # was => shown'[c] = NextStatus(c)
           /\ c \notin raced' => c \notin raced \/ ~Compares(waiting, c)
  <1>1. NextStatus(c) \in Statuses
    BY StatusTyped
  <1> QED BY <1>1 DEF Emit, Show, NextStatus

\* No coroutine compares the status of c, so none is a stop that captured it.
LEMMA NotComparing ==
    ASSUME flights \in Seq(Flights), NEW n \in {0, 1}, n <= Len(flights), NEW c,
           ~Compares(Waiting(n), c)
    PROVE  \A i \in DOMAIN flights : i > n => ~Barred(flights[i], c)
  <1> SUFFICES ASSUME NEW i \in DOMAIN flights, i > n, Barred(flights[i], c) PROVE FALSE
    OBVIOUS
  <1>1. Waiting(n) \in Seq(Flights) /\ Len(Waiting(n)) = Len(flights) - n
        /\ \A j \in 1 .. Len(flights) - n : Waiting(n)[j] = flights[j + n]
    BY WaitingIs
  <1>2. i - n \in 1 .. Len(flights) - n /\ (i - n) + n = i
    OBVIOUS
  <1>3. i - n \in DOMAIN Waiting(n) /\ Waiting(n)[i - n] = flights[i]
    BY <1>1, <1>2
  <1>4. flights[i].c = c /\ flights[i].was # None
    BY ReportsAssumption DEF Barred, Statuses
  <1> QED BY <1>3, <1>4 DEF Compares

\* A step with an event of c at most.
LEMMA EmitShows ==
    ASSUME ReportsInv, NEW n \in {0, 1}, n <= Len(flights), NEW a \in {0, 1}, NEW new,
           NEW c \in Connectors, NEW was, Emit(c, was, Waiting(n)),
           \A d \in Connectors \ {c} : NextStatus(d) = StatusOf(d),
           StatusOf(c) = "unavailable" => NextStatus(c) = "unavailable",
           NextStatus(c) = was => NextStatus(c) = StatusOf(c) \/ (a = 1 /\ WillFind(new, c, NextStatus(c))),
           a = 1 => new.kind \notin {"finishing", "stop"},
           n = 1 => \A d \in Connectors : WillFind(flights[1], d, StatusOf(d)) =>
                       (d = c /\ NextStatus(c) # was) \/ (a = 1 /\ WillFind(new, d, NextStatus(d)))
    PROVE  ShownEffect(n, a, new)
  <1>1. /\ \A d \in Connectors : d # c => shown'[d] = shown[d] /\ (d \in raced' <=> d \in raced)
        /\ NextStatus(c) = was => UNCHANGED <<shown, raced>>
        /\ NextStatus(c) # was => shown'[c] = NextStatus(c)
        /\ c \notin raced' => c \notin raced \/ ~Compares(Waiting(n), c)
    BY EmitIs, Standing
  <1>2. a = 1 => \A d \in Connectors : ~Barred(new, d)
    BY DEF Barred
  <1>3. ~Compares(Waiting(n), c) => \A i \in DOMAIN flights : i > n => ~Barred(flights[i], c)
    BY NotComparing, Standing
  <1>4. ASSUME NEW d \in Connectors, d \notin raced', d # c
        PROVE  /\ \/ a = 1 /\ WillFind(new, d, NextStatus(d))
                  \/ /\ d \notin raced /\ NextStatus(d) = StatusOf(d) /\ shown'[d] = shown[d]
                     /\ ~(n = 1 /\ WillFind(flights[1], d, StatusOf(d)))
               /\ \/ NextStatus(d) = "unavailable"
                  \/ d \notin raced /\ StatusOf(d) # "unavailable" /\ ~(a = 1 /\ Barred(new, d))
    BY <1>1, <1>2, <1>4
  <1>5. ASSUME c \notin raced'
        PROVE  /\ \/ shown'[c] = NextStatus(c)
                  \/ a = 1 /\ WillFind(new, c, NextStatus(c))
                  \/ /\ c \notin raced /\ NextStatus(c) = StatusOf(c) /\ shown'[c] = shown[c]
                     /\ ~(n = 1 /\ WillFind(flights[1], c, StatusOf(c)))
               /\ \/ NextStatus(c) = "unavailable"
                  \/ c \notin raced /\ StatusOf(c) # "unavailable" /\ ~(a = 1 /\ Barred(new, c))
                  \/ ~(a = 1 /\ Barred(new, c)) /\ \A i \in DOMAIN flights : i > n => ~Barred(flights[i], c)
    BY <1>1, <1>2, <1>3, <1>5
  <1> QED BY <1>4, <1>5 DEF ShownEffect

\* The step changes no status of a connector.
LEMMA SameConnectors ==
    ASSUME UNCHANGED connector
    PROVE  \A d : NextStatus(d) = StatusOf(d)
  BY DEF NextStatus, StatusOf

LEMMA StopOfflineKeeps ==
    ASSUME ReportsInv, NEW s \in Starts, ReportsStopOffline(s)
    PROVE  ReportsInv'
  <1> DEFINE c == tx[s].at
  <1>0. /\ BeginStop(s) /\ ~tx[s].bound /\ flights' = flights
        /\ txShown' = [txShown EXCEPT ![s] = "ended"]
        /\ Emit(c, StatusOf(c), flights) /\ untold' = untold \cup {c}
        /\ UNCHANGED <<outbox, pass, told>>
    BY DEF ReportsStopOffline, replayVars, ShowTransaction, Unsaid
  <1>1. [Next]_vars
    BY <1>0 DEF Next
  <1>2. tx[s].state = "active" /\ c \in Connectors
    BY <1>0 DEF BeginStop, ReportsInv, BaseInv, Begun
  <1>3. Moves(0, 0, None)
    BY <1>0, Standing, MovesWithout
  <1>4. /\ UNCHANGED connector /\ evseTx' = [evseTx EXCEPT ![c] = None]
        /\ tx' = [tx EXCEPT ![s].state = "ended"]
    BY <1>0 DEF BeginStop, End
  <1>5. /\ tx'[s].state = "ended" /\ \A t \in Starts : t # s => tx'[t] = tx[t]
        /\ \A d \in Connectors : d # c => evseTx'[d] = evseTx[d]
        /\ txShown'[s] = "ended" /\ \A t \in Starts : t # s => txShown'[t] = txShown[t]
    BY <1>0, <1>4, Standing
  <1> HIDE DEF c
  <1>6. RunningEffect(0, 0, None)
    BY <1>0, <1>5 DEF RunningEffect
  <1>7. ToldEffect(0, 0, None)
    BY <1>0, <1>4, <1>5 DEF ToldEffect, NextOcppStatus, OcppStatusOf
  <1>8. ShownEffect(0, 0, None)
    <2>1. \A d : NextStatus(d) = StatusOf(d)
      BY <1>4, SameConnectors
    <2> QED BY <1>0, <1>2, <2>1, Standing, EmitShows
  <1>9. RestFits
    BY <1>0, <1>2, <1>5, Standing, EmitIs DEF RestFits
  <1> QED BY <1>1, <1>3, <1>6, <1>7, <1>8, <1>9, EffectKeeps DEF Effect

LEMMA PlugKeeps ==
    ASSUME ReportsInv, NEW c \in Connectors, ReportsPlug(c)
    PROVE  ReportsInv'
  <1> DEFINE changed == NextOcppStatus(c) # OcppStatusOf(c)
             reported == registered /\ changed
             a == IF reported THEN 1 ELSE 0
             new == Request("plug", None, c, NextOcppStatus(c), None, <<>>)
  <1>0. /\ PlugConnector(c)
        /\ Emit(c, StatusOf(c), flights)
        /\ flights' = IF reported THEN Append(flights, new) ELSE flights
        /\ untold' = IF reported THEN untold \ {c} ELSE IF changed THEN untold \cup {c} ELSE untold
        /\ UNCHANGED <<outbox, pass, told, txShown>>
    BY DEF ReportsPlug, replayVars, Unsaid, Report
  <1>1. [Next]_vars
    BY <1>0 DEF Next
  <1>2. new \in Flights
    BY StatusTyped, NoRest, RequestIs
  <1>3. /\ new.kind = "plug" /\ new.c = c /\ new.status = NextOcppStatus(c) /\ new.was = None
        /\ new.rest = <<>>
    BY RequestHas
  <1>4. /\ UNCHANGED <<tx, evseTx>> /\ connector' = [connector EXCEPT ![c].plugged = TRUE]
        /\ connector[c].availability = "operative"
    BY <1>0 DEF PlugConnector
  <1>5. \A d \in Connectors : d # c => connector'[d] = connector[d]
    BY <1>4, Standing
  <1>6. \A d \in Connectors : d # c => NextStatus(d) = StatusOf(d) /\ NextOcppStatus(d) = OcppStatusOf(d)
    BY <1>4, <1>5 DEF NextStatus, StatusOf, NextOcppStatus, OcppStatusOf
  <1>7. StatusOf(c) # "unavailable"
    BY <1>4 DEF StatusOf, Status
  <1> HIDE DEF new, reported, changed
  <1>8. a \in {0, 1} /\ (a = 1 <=> reported)
    OBVIOUS
  <1> HIDE DEF a
  <1>9. Moves(0, a, new)
    BY <1>0, <1>2, <1>8, Standing, MovesWith, MovesWithout
  <1>10. Fits(new, tx')
    BY <1>3 DEF Fits, OfTransaction, Comparing
  <1>11. RunningEffect(0, a, new)
    BY <1>0, <1>3, <1>4, RunningQuiet DEF Ending
  <1>12. ToldEffect(0, a, new)
    <2>1. \A d \in Connectors : d # c => ~Reports(new, d)
      BY <1>3 DEF Reports
    <2>2. Reports(new, c)
      BY <1>3 DEF Reports, Telling
    <2> QED BY <1>0, <1>3, <1>6, <1>8, <2>1, <2>2 DEF ToldEffect, reported, changed
  <1>13. ShownEffect(0, a, new)
    <2>1. Emit(c, StatusOf(c), Waiting(0)) /\ 0 <= Len(flights)
      BY <1>0, Standing
    <2>2. a = 1 => new.kind \notin {"finishing", "stop"}
      BY <1>3
    <2>3. \A d \in Connectors \ {c} : NextStatus(d) = StatusOf(d)
      BY <1>6
    <2>4. 0 \in {0, 1} /\ 0 # 1
      OBVIOUS
    <2> QED BY <1>7, <1>8, <2>1, <2>2, <2>3, <2>4, EmitShows
  <1>14. RestFits
    BY <1>0, Standing, EmitIs DEF RestFits
  <1> QED BY <1>1, <1>8, <1>9, <1>10, <1>11, <1>12, <1>13, <1>14, EffectKeeps DEF Effect

LEMMA UnplugKeeps ==
    ASSUME ReportsInv, NEW c \in Connectors, ReportsUnplug(c)
    PROVE  ReportsInv'
  <1> DEFINE point == [connector[c] EXCEPT !.plugged = FALSE]
             applies == point.requested # None
             was == IF applies THEN Status(point) ELSE StatusOf(c)
             changed == NextOcppStatus(c) # OcppStatusOf(c)
             reported == applies /\ NextOcppStatus(c) # OcppStatus(point, evseTx[c])
             new == Request("apply", None, c, NextOcppStatus(c), was, <<>>)
  <1>0. /\ UnplugConnector(c)
        /\ UNCHANGED <<outbox, pass, told, txShown>>
        /\ IF reported
           THEN /\ flights' = Append(flights, new) /\ untold' = untold \ {c}
                /\ IF Status(point) # StatusOf(c) THEN Show(c, Status(point), flights)
                   ELSE UNCHANGED <<shown, raced>>
           ELSE /\ untold' = IF changed THEN untold \cup {c} ELSE untold
                /\ Emit(c, StatusOf(c), flights)
                /\ UNCHANGED flights
    BY DEF ReportsUnplug, replayVars, Unsaid, Report
  <1>1. [Next]_vars
    BY <1>0 DEF Next
  <1>2. was \in Statuses /\ was # None
    BY StatusTyped, ReportsAssumption
  <1>3. new \in Flights
    BY <1>2, StatusTyped, NoRest, RequestIs
  <1>4. /\ new.kind = "apply" /\ new.c = c /\ new.status = NextOcppStatus(c) /\ new.was = was
        /\ new.rest = <<>>
    BY RequestHas
  <1>5. /\ UNCHANGED <<tx, evseTx>>
        /\ connector' = [connector EXCEPT ![c] = ApplyRequestedAvailability(c, point)]
    BY <1>0 DEF UnplugConnector
  <1>6. /\ connector'[c] = ApplyRequestedAvailability(c, point)
        /\ \A d \in Connectors : d # c => connector'[d] = connector[d]
    BY <1>5, Standing
  <1>7. \A d \in Connectors : d # c => NextStatus(d) = StatusOf(d) /\ NextOcppStatus(d) = OcppStatusOf(d)
    BY <1>5, <1>6 DEF NextStatus, StatusOf, NextOcppStatus, OcppStatusOf
  <1>8. /\ point \in [plugged : BOOLEAN, availability : Availability, requested : Availability \cup {None}]
        /\ point.requested = connector[c].requested /\ point.availability = connector[c].availability
    <2>1. connector[c] \in
            [plugged : BOOLEAN, availability : Availability, requested : Availability \cup {None}]
      BY Standing
    <2> QED BY <2>1
  <1>9. point.requested \in {None, "inoperative"}
    BY <1>8 DEF ReportsInv, BaseInv, LastCommandDecides
  <1>10. \/ connector'[c] = point
         \/ NextStatus(c) = "unavailable"
    <2>1. CASE point.requested = None \/ HasActiveTransaction(c)
      BY <1>6, <2>1 DEF ApplyRequestedAvailability
    <2>2. CASE ~(point.requested = None \/ HasActiveTransaction(c))
      <3>1. connector'[c] = [point EXCEPT !.availability = point.requested, !.requested = None]
        BY <1>6, <2>2 DEF ApplyRequestedAvailability
      <3> HIDE DEF point
      <3>2. connector'[c].availability = "inoperative"
        BY <1>8, <1>9, <2>2, <3>1
      <3> QED BY <3>2 DEF NextStatus, Status
    <2> QED BY <2>1, <2>2
  <1>11. StatusOf(c) = "unavailable" => NextStatus(c) = "unavailable"
    <2>1. StatusOf(c) = "unavailable" => connector[c].availability = "inoperative"
      BY DEF StatusOf, Status
    <2>2. connector[c].availability = "inoperative" => Status(point) = "unavailable"
      BY <1>8 DEF Status
    <2> QED BY <1>10, <2>1, <2>2 DEF NextStatus
  <1>12. reported => /\ NextStatus(c) # Status(point) /\ was = Status(point)
                     /\ NextStatus(c) = "unavailable"
    <2>1. NextStatus(c) = Status(point) => NextOcppStatus(c) = OcppStatus(point, evseTx[c])
      BY <1>5 DEF NextOcppStatus, OcppStatus, NextStatus
    <2> QED BY <1>10, <2>1 DEF NextStatus
  <1> HIDE DEF new, was, point, applies, reported, changed
  <1>13. CASE reported
    <2>1. Moves(0, 1, new)
      BY <1>0, <1>3, <1>13, Standing, MovesWith
    <2>2. Fits(new, tx')
      BY <1>2, <1>4, ConnectorsAssumption DEF Fits, OfTransaction, Comparing
    <2>3. RunningEffect(0, 1, new)
      BY <1>0, <1>4, <1>5, RunningQuiet DEF Ending
    <2>4. ToldEffect(0, 1, new)
      <3>1. \A d \in Connectors : d # c => ~Reports(new, d)
        BY <1>4 DEF Reports
      <3>2. Reports(new, c)
        BY <1>4 DEF Reports, Telling
      <3> QED BY <1>0, <1>4, <1>7, <1>13, <3>1, <3>2 DEF ToldEffect
    <2>5. \A d \in Connectors : d # c => shown'[d] = shown[d] /\ (d \in raced' <=> d \in raced)
      BY <1>0, <1>13, Standing DEF Show
    <2>6. ShownEffect(0, 1, new)
      <3>1. WillFind(new, c, NextStatus(c))
        BY <1>2, <1>4, <1>12, <1>13 DEF WillFind
      <3>2. \A d : ~Barred(new, d)
        BY <1>4 DEF Barred
      <3> QED BY <1>7, <1>12, <1>13, <2>5, <3>1, <3>2 DEF ShownEffect
    <2>7. RestFits
      <3>1. Status(point) \in Statuses
        BY StatusTyped
      <3>2. shown' \in [Connectors -> Statuses \cup {None}] /\ raced' \subseteq Connectors
        BY <1>0, <1>13, <3>1, Standing DEF Show
      <3> QED BY <1>0, <1>13, <3>2, Standing DEF RestFits
    <2> QED BY <1>1, <2>1, <2>2, <2>3, <2>4, <2>6, <2>7, EffectKeeps DEF Effect
  <1>14. CASE ~reported
    <2>1. Moves(0, 0, None)
      BY <1>0, <1>14, Standing, MovesWithout
    <2>2. RunningEffect(0, 0, None)
      BY <1>0, <1>5, RunningQuiet
    <2>3. ToldEffect(0, 0, None)
      BY <1>0, <1>7, <1>14 DEF ToldEffect, changed
    <2>4. ShownEffect(0, 0, None)
      <3>1. Emit(c, StatusOf(c), Waiting(0)) /\ 0 <= Len(flights)
        BY <1>0, <1>14, Standing
      <3>2. \A d \in Connectors \ {c} : NextStatus(d) = StatusOf(d)
        BY <1>7
      <3>3. 0 \in {0, 1} /\ 0 # 1
        OBVIOUS
      <3> QED BY <1>11, <3>1, <3>2, <3>3, EmitShows
    <2>5. RestFits
      BY <1>0, <1>14, Standing, EmitIs DEF RestFits
    <2> QED BY <1>1, <2>1, <2>2, <2>3, <2>4, <2>5, EffectKeeps DEF Effect
  <1> QED BY <1>13, <1>14

LEMMA SnapshotKeeps ==
    ASSUME ReportsInv, NEW c \in Connectors, ReportConnectorStatus(c)
    PROVE  ReportsInv'
  <1> DEFINE new == Request("snapshot", None, c, OcppStatusOf(c), None, <<>>)
  <1>0. /\ flights' = Append(flights, new) /\ untold' = untold \ {c}
        /\ UNCHANGED vars /\ UNCHANGED <<outbox, pass, told, shown, txShown, raced>>
    BY DEF ReportConnectorStatus, replayVars
  <1>1. UNCHANGED <<connector, evseTx, tx>>
    BY <1>0 DEF vars
  <1>2. new \in Flights
    BY StatusTyped, NoRest, RequestIs
  <1>3. /\ new.kind = "snapshot" /\ new.c = c /\ new.status = OcppStatusOf(c) /\ new.was = None
        /\ new.rest = <<>>
    BY RequestHas
  <1> HIDE DEF new
  <1>4. Moves(0, 1, new)
    BY <1>0, <1>2, Standing, MovesWith
  <1>5. Fits(new, tx')
    BY <1>3 DEF Fits, OfTransaction, Comparing
  <1>6. RunningEffect(0, 1, new)
    BY <1>0, <1>1, <1>3, RunningQuiet DEF Ending
  <1>7. ToldEffect(0, 1, new)
    <2>1. \A d : NextOcppStatus(d) = OcppStatusOf(d)
      BY <1>1 DEF NextOcppStatus, OcppStatusOf
    <2>2. Reports(new, c) /\ \A d : d # c => ~Reports(new, d)
      BY <1>3 DEF Reports, Telling
    <2> QED BY <1>0, <1>3, <2>1, <2>2 DEF ToldEffect
  <1>8. ShownEffect(0, 1, new)
    BY <1>0, <1>1, <1>3, ShownQuiet
  <1>9. RestFits
    BY <1>0, Standing DEF RestFits
  <1> QED BY <1>0, <1>4, <1>5, <1>6, <1>7, <1>8, <1>9, EffectKeeps DEF Effect

\* The steps that leave connectors, transactions and reports alone.
LEMMA AloneReports ==
    ASSUME ReportsInv, [Next]_vars, UNCHANGED reportVars, UNCHANGED <<connector, evseTx, tx>>
    PROVE  ReportsInv'
  <1>0. flights' = flights /\ UNCHANGED <<outbox, pass, told, shown, txShown, untold, raced>>
    BY DEF reportVars, replayVars
  <1>1. Moves(0, 0, None)
    BY <1>0, Standing, MovesWithout
  <1>2. RunningEffect(0, 0, None) /\ ToldEffect(0, 0, None) /\ ShownEffect(0, 0, None)
    BY <1>0, RunningQuiet, ToldQuiet, ShownQuiet
  <1>3. RestFits
    BY <1>0, Standing DEF RestFits
  <1> QED BY <1>1, <1>2, <1>3, EffectKeeps DEF Effect

-----------------------------------------------------------------------------
(* Changes of availability. *)

\* Of the changes of rest one that the OCPP status shows is reported next, and
\* those after it are kept; those before it are passed over.
LEMMA PublishIs ==
    ASSUME NEW waiting, NEW rest \in Seq(Changes), flights' = Publish(waiting, rest)
    PROVE  \/ /\ flights' = waiting
              /\ \A j \in DOMAIN rest : NextOcppStatus(rest[j].c) = rest[j].wasOcpp
           \/ \E i \in DOMAIN rest, left \in Seq(Changes) :
                /\ flights' = Append(waiting, Request("change", None, rest[i].c,
                                                      NextOcppStatus(rest[i].c), rest[i].was, left))
                /\ \A j \in DOMAIN rest : NextOcppStatus(rest[j].c) # rest[j].wasOcpp =>
                     j = i \/ \E k \in DOMAIN left : left[k] = rest[j]
  <1> DEFINE differs == {i \in DOMAIN rest : NextOcppStatus(rest[i].c) # rest[i].wasOcpp}
             first == CHOOSE j \in differs : \A k \in differs : j <= k
             left == SubSeq(rest, first + 1, Len(rest))
             before == OpToRel(<, Nat)
  <1>1. CASE differs = {}
    BY <1>1 DEF Publish
  <1>2. CASE differs # {}
    <2>1. differs \subseteq Nat /\ Len(rest) \in Nat /\ DOMAIN rest = 1 .. Len(rest)
          /\ differs \subseteq DOMAIN rest
      OBVIOUS
    <2>2. \E j \in differs : \A k \in differs : j <= k
      <3> HIDE DEF differs
      <3>1. PICK j \in differs : \A k \in differs : ~(<<k, j>> \in before)
        BY <1>2, <2>1, NatLessThanWellFounded, WFMin
      <3>2. ASSUME NEW k \in differs PROVE j <= k
        <4>1. k \in Nat /\ j \in Nat
          BY <2>1, <3>1
        <4>2. k < j => <<k, j>> \in before
          BY <4>1 DEF OpToRel
        <4> HIDE DEF before
        <4>3. ~(k < j)
          BY <3>1, <4>2
        <4> QED BY <4>1, <4>3
      <3> QED BY <3>1, <3>2
    <2>3. first \in differs /\ \A k \in differs : first <= k
      <3> HIDE DEF differs
      <3> QED BY <2>2
    <2>4. flights' = Append(waiting, Request("change", None, rest[first].c,
                                NextOcppStatus(rest[first].c), rest[first].was, left))
      BY <1>2 DEF Publish, Report
    <2> HIDE DEF first, differs
    <2>5. first \in Nat /\ first >= 1 /\ first <= Len(rest) /\ first \in DOMAIN rest
      BY <2>1, <2>3
    <2>6. /\ left \in Seq(Changes)
          /\ Len(left) = IF first + 1 <= Len(rest) THEN Len(rest) - (first + 1) + 1 ELSE 0
          /\ \A k \in 1 .. Len(rest) - (first + 1) + 1 : left[k] = rest[(first + 1) + k - 1]
      <3>1. first + 1 \in Int /\ Len(rest) \in Int /\ \A k \in first + 1 .. Len(rest) : rest[k] \in Changes
        BY <2>1, <2>5
      <3> QED BY <3>1, SubSeqProperties
    <2> HIDE DEF left
    <2>7. ASSUME NEW j \in DOMAIN rest, NextOcppStatus(rest[j].c) # rest[j].wasOcpp, j # first
          PROVE  \E k \in DOMAIN left : left[k] = rest[j]
      <3>1. first <= j /\ j \in Nat /\ j <= Len(rest)
        BY <2>1, <2>3, <2>7 DEF differs
      <3>2. j - first \in 1 .. Len(rest) - (first + 1) + 1 /\ (first + 1) + (j - first) - 1 = j
            /\ first + 1 <= Len(rest)
        BY <2>1, <2>5, <2>7, <3>1
      <3>3. left[j - first] = rest[j]
        BY <2>6, <3>2
      <3>4. j - first \in DOMAIN left
        BY <2>1, <2>5, <2>6, <3>2
      <3> QED BY <3>3, <3>4
    <2> QED BY <2>4, <2>5, <2>6, <2>7
  <1> QED BY <1>1, <1>2

LEMMA PublishMoves ==
    ASSUME flights \in Seq(Flights), NEW n \in {0, 1}, n <= Len(flights),
           NEW rest \in Seq(Changes), flights' = Publish(Waiting(n), rest)
    PROVE  \E a \in {0, 1} : \E new :
             /\ Moves(n, a, new)
             /\ a = 1 => /\ new.kind = "change" /\ new.c \in Connectors /\ new.was \in Statuses
                         /\ new.status = NextOcppStatus(new.c)
             /\ \A j \in DOMAIN rest : NextOcppStatus(rest[j].c) # rest[j].wasOcpp =>
                  /\ a = 1
                  /\ \/ new.c = rest[j].c /\ new.was = rest[j].was
                     \/ \E k \in DOMAIN new.rest : new.rest[k] = rest[j]
  <1>1. CASE /\ flights' = Waiting(n)
             /\ \A j \in DOMAIN rest : NextOcppStatus(rest[j].c) = rest[j].wasOcpp
    <2>1. Moves(n, 0, None)
      BY <1>1, MovesWithout
    <2> QED BY <1>1, <2>1
  <1>2. ASSUME NEW i \in DOMAIN rest, NEW left \in Seq(Changes),
               flights' = Append(Waiting(n), Request("change", None, rest[i].c,
                                    NextOcppStatus(rest[i].c), rest[i].was, left)),
               \A j \in DOMAIN rest : NextOcppStatus(rest[j].c) # rest[j].wasOcpp =>
                 j = i \/ \E k \in DOMAIN left : left[k] = rest[j]
        PROVE  \E new :
                 /\ Moves(n, 1, new)
                 /\ new.kind = "change" /\ new.c \in Connectors /\ new.was \in Statuses
                 /\ new.status = NextOcppStatus(new.c)
                 /\ \A j \in DOMAIN rest : NextOcppStatus(rest[j].c) # rest[j].wasOcpp =>
                      \/ new.c = rest[j].c /\ new.was = rest[j].was
                      \/ \E k \in DOMAIN new.rest : new.rest[k] = rest[j]
    <2> DEFINE f == Request("change", None, rest[i].c, NextOcppStatus(rest[i].c), rest[i].was, left)
    <2>1. rest[i] \in Changes
      OBVIOUS
    <2>2. rest[i].c \in Connectors /\ rest[i].was \in Statuses
      BY <2>1 DEF Changes
    <2>3. f \in Flights
      BY <2>2, StatusTyped, RequestIs
    <2>4. /\ f.kind = "change" /\ f.c = rest[i].c /\ f.was = rest[i].was /\ f.rest = left
          /\ f.status = NextOcppStatus(rest[i].c)
      BY RequestHas
    <2> HIDE DEF f
    <2>5. Moves(n, 1, f)
      BY <1>2, <2>3, MovesWith DEF f
    <2>6. \A j \in DOMAIN rest : NextOcppStatus(rest[j].c) # rest[j].wasOcpp =>
            \/ f.c = rest[j].c /\ f.was = rest[j].was
            \/ \E k \in DOMAIN f.rest : f.rest[k] = rest[j]
      BY <1>2, <2>4
    <2> QED BY <2>2, <2>4, <2>5, <2>6
  <1> QED BY <1>1, <1>2, PublishIs

\* A command that changes connectors: those whose OCPP status differs are reported
\* now or wait for the report before them.
LEMMA CommandKeeps ==
    ASSUME ReportsInv, [Next]_vars, NEW a \in {0, 1}, NEW new, Moves(0, a, new),
           a = 1 => /\ new.kind = "change" /\ Fits(new, tx')
                    /\ new.c \in Connectors => new.status = NextOcppStatus(new.c),
           \A d \in Connectors : NextOcppStatus(d) # OcppStatusOf(d) =>
             /\ a = 1
             /\ \/ new.c = d /\ new.was = StatusOf(d)
                \/ \E k \in DOMAIN new.rest : new.rest[k] = Captured(d),
           UNCHANGED <<evseTx, tx, outbox, pass, told, shown, txShown, untold>>,
           raced' = raced \cup Raced
    PROVE  ReportsInv'
  <1>1. RunningEffect(0, a, new)
    BY RunningQuiet DEF Ending
  <1>2. ToldEffect(0, a, new)
    <2>1. ASSUME NEW d \in Connectors, NextOcppStatus(d) # OcppStatusOf(d)
          PROVE  /\ a = 1
                 /\ \/ Reports(new, d) /\ new.status = NextOcppStatus(d)
                    \/ WillReport(new, d, NextOcppStatus(d))
      <3>1. CASE a = 1 /\ new.c = d
        BY <3>1 DEF Reports, Telling
      <3>2. CASE a = 1 /\ \E k \in DOMAIN new.rest : new.rest[k] = Captured(d)
        BY <2>1, <3>2 DEF WillReport, Captured
      <3> QED BY <2>1, <3>1, <3>2
    <2>2. ASSUME NEW d \in Connectors, a = 1, Reports(new, d)
          PROVE  new.status = NextOcppStatus(d)
      BY <2>2 DEF Reports
    <2> QED BY <2>1, <2>2 DEF ToldEffect
  <1>3. ShownEffect(0, a, new)
    <2>0. a = 1 => \A d : ~Barred(new, d)
      BY DEF Barred
    <2>1. ASSUME NEW d \in Connectors, d \notin raced', NextStatus(d) # StatusOf(d)
          PROVE  /\ a = 1 /\ WillFind(new, d, NextStatus(d))
                 /\ \A i \in DOMAIN flights : i > 0 => ~Barred(flights[i], d)
      <3>1. NextOcppStatus(d) # OcppStatusOf(d) /\ ~Compares(flights, d)
        BY <2>1 DEF Raced, NextStatus
      <3>2. \A i \in DOMAIN flights : i > 0 => ~Barred(flights[i], d)
        BY <3>1, Standing, NotComparing
      <3>3. StatusOf(d) # None
        BY StatusTyped, ReportsAssumption
      <3>4. OcppStatusOf(d) = Plain(StatusOf(d))
        <4>1. evseTx[d] = None
          BY <3>1 DEF NextOcppStatus, OcppStatusOf, OcppStatus
        <4> QED BY <4>1 DEF OcppStatusOf, OcppStatus, StatusOf, Plain
      <3>5. Captured(d).c = d /\ Captured(d).was = StatusOf(d) /\ Captured(d).wasOcpp = OcppStatusOf(d)
        BY DEF Captured
      <3>6. a = 1 /\ WillFind(new, d, NextStatus(d))
        BY <2>1, <3>1, <3>3, <3>4, <3>5 DEF WillFind
      <3> QED BY <3>2, <3>6
    <2>2. ASSUME NEW d \in Connectors, d \notin raced'
          PROVE  d \notin raced /\ shown'[d] = shown[d]
      BY <2>2
    <2> QED BY <2>0, <2>1, <2>2 DEF ShownEffect
  <1>4. RestFits
    BY Standing DEF RestFits, Raced
  <1> QED BY <1>1, <1>2, <1>3, <1>4, EffectKeeps DEF Effect

\* What a command captures.
LEMMA CapturedTyped ==
    /\ \A c \in Connectors : Captured(c) \in Changes
    /\ \A c : Captured(c).c = c /\ Captured(c).was = StatusOf(c) /\ Captured(c).wasOcpp = OcppStatusOf(c)
  BY StatusTyped DEF Captured, Changes

LEMMA ChangeAvailabilityKeeps ==
    ASSUME ReportsInv, NEW c \in Connectors, NEW availability \in Availability,
           ReportsChangeAvailability(c, availability)
    PROVE  ReportsInv'
  <1> DEFINE rest == <<Captured(c)>>
  <1>0. /\ ChangeAvailability(c, availability)
        /\ flights' = Publish(flights, rest)
        /\ raced' = raced \cup Raced
        /\ UNCHANGED <<outbox, pass, told, shown, txShown, untold>>
    BY DEF ReportsChangeAvailability, replayVars
  <1>1. [Next]_vars
    BY <1>0 DEF Next
  <1>2. rest \in Seq(Changes) /\ DOMAIN rest = {1} /\ rest[1] = Captured(c)
    BY CapturedTyped
  <1> HIDE DEF rest
  <1>3. /\ UNCHANGED <<evseTx, tx>>
        /\ \A d \in Connectors : d # c => connector'[d] = connector[d]
    BY <1>0, Standing DEF ChangeAvailability
  <1>4. \A d \in Connectors : d # c => NextOcppStatus(d) = OcppStatusOf(d)
    BY <1>3 DEF NextOcppStatus, OcppStatusOf
  <1>5. PICK a \in {0, 1} : \E new :
          /\ Moves(0, a, new)
          /\ a = 1 => /\ new.kind = "change" /\ new.c \in Connectors /\ new.was \in Statuses
                      /\ new.status = NextOcppStatus(new.c)
          /\ \A j \in DOMAIN rest : NextOcppStatus(rest[j].c) # rest[j].wasOcpp =>
               /\ a = 1
               /\ \/ new.c = rest[j].c /\ new.was = rest[j].was
                  \/ \E k \in DOMAIN new.rest : new.rest[k] = rest[j]
    BY <1>0, <1>2, Standing, PublishMoves
  <1>6. PICK new :
          /\ Moves(0, a, new)
          /\ a = 1 => /\ new.kind = "change" /\ new.c \in Connectors /\ new.was \in Statuses
                      /\ new.status = NextOcppStatus(new.c)
          /\ \A j \in DOMAIN rest : NextOcppStatus(rest[j].c) # rest[j].wasOcpp =>
               /\ a = 1
               /\ \/ new.c = rest[j].c /\ new.was = rest[j].was
                  \/ \E k \in DOMAIN new.rest : new.rest[k] = rest[j]
    BY <1>5
  <1>7. a = 1 => Fits(new, tx')
    <2>1. a = 1 => new.was # None /\ new.c # None
      BY <1>6, ConnectorsAssumption, ReportsAssumption
    <2> QED BY <1>6, <2>1 DEF Fits, OfTransaction, Comparing
  <1>8. \A d \in Connectors : NextOcppStatus(d) # OcppStatusOf(d) =>
             /\ a = 1
             /\ \/ new.c = d /\ new.was = StatusOf(d)
                \/ \E k \in DOMAIN new.rest : new.rest[k] = Captured(d)
    BY <1>2, <1>4, <1>6, CapturedTyped
  <1> QED BY <1>0, <1>1, <1>3, <1>6, <1>7, <1>8, CommandKeeps

LEMMA ChangePointKeeps ==
    ASSUME ReportsInv, NEW availability \in Availability, ReportsChangePoint(availability)
    PROVE  ReportsInv'
  <1> DEFINE rest == [i \in DOMAIN ConnectorIds |-> Captured(ConnectorIds[i])]
             whole == Request("change", None, None, None, None, rest)
  <1>0. /\ ChangePointAvailability(availability)
        /\ flights' = IF availability # chargingPoint THEN Append(flights, whole)
                      ELSE Publish(flights, rest)
        /\ raced' = raced \cup Raced
        /\ UNCHANGED <<outbox, pass, told, shown, txShown, untold>>
    BY DEF ReportsChangePoint, replayVars
  <1>1. [Next]_vars
    BY <1>0 DEF Next
  <1>2. /\ rest \in Seq(Changes)
        /\ \A d \in Connectors : \E i \in DOMAIN rest : rest[i] = Captured(d)
    <2>1. /\ ConnectorIds \in Seq(Connectors) /\ Len(ConnectorIds) \in Nat
          /\ DOMAIN ConnectorIds = 1 .. Len(ConnectorIds)
      BY ReportsAssumption
    <2>2. \A i \in DOMAIN ConnectorIds : Captured(ConnectorIds[i]) \in Changes
      BY <2>1, CapturedTyped
    <2>3. rest \in Seq(Changes)
      BY <2>1, <2>2
    <2>4. \A d \in Connectors : \E i \in DOMAIN ConnectorIds : ConnectorIds[i] = d
      BY ReportsAssumption
    <2> QED BY <2>3, <2>4
  <1>3. UNCHANGED <<evseTx, tx>>
    BY <1>0 DEF ChangePointAvailability
  <1>4. CASE availability # chargingPoint
    <2>1. whole \in Flights
      BY <1>2, RequestIs
    <2>2. whole.kind = "change" /\ whole.c = None /\ whole.was = None /\ whole.rest = rest
      BY RequestHas
    <2> HIDE DEF whole, rest
    <2>3. Moves(0, 1, whole)
      BY <1>0, <1>4, <2>1, Standing, MovesWith
    <2>4. Fits(whole, tx')
      BY <2>2 DEF Fits, OfTransaction, Comparing
    <2>5. whole.c \notin Connectors
      BY <2>2, ConnectorsAssumption
    <2>6. \A d \in Connectors : \E k \in DOMAIN whole.rest : whole.rest[k] = Captured(d)
      BY <1>2, <2>2
    <2> QED BY <1>0, <1>1, <1>3, <2>2, <2>3, <2>4, <2>5, <2>6, CommandKeeps
  <1>5. CASE availability = chargingPoint
    <2> HIDE DEF whole, rest
    <2>1. PICK a \in {0, 1} : \E new :
            /\ Moves(0, a, new)
            /\ a = 1 => /\ new.kind = "change" /\ new.c \in Connectors /\ new.was \in Statuses
                        /\ new.status = NextOcppStatus(new.c)
            /\ \A j \in DOMAIN rest : NextOcppStatus(rest[j].c) # rest[j].wasOcpp =>
                 /\ a = 1
                 /\ \/ new.c = rest[j].c /\ new.was = rest[j].was
                    \/ \E k \in DOMAIN new.rest : new.rest[k] = rest[j]
      BY <1>0, <1>2, <1>5, Standing, PublishMoves
    <2>2. PICK new :
            /\ Moves(0, a, new)
            /\ a = 1 => /\ new.kind = "change" /\ new.c \in Connectors /\ new.was \in Statuses
                        /\ new.status = NextOcppStatus(new.c)
            /\ \A j \in DOMAIN rest : NextOcppStatus(rest[j].c) # rest[j].wasOcpp =>
                 /\ a = 1
                 /\ \/ new.c = rest[j].c /\ new.was = rest[j].was
                    \/ \E k \in DOMAIN new.rest : new.rest[k] = rest[j]
      BY <2>1
    <2>3. a = 1 => Fits(new, tx')
      <3>1. a = 1 => new.was # None /\ new.c # None
        BY <2>2, ConnectorsAssumption, ReportsAssumption
      <3> QED BY <2>2, <3>1 DEF Fits, OfTransaction, Comparing
    <2>4. ASSUME NEW d \in Connectors, NextOcppStatus(d) # OcppStatusOf(d)
          PROVE  /\ a = 1
                 /\ \/ new.c = d /\ new.was = StatusOf(d)
                    \/ \E k \in DOMAIN new.rest : new.rest[k] = Captured(d)
      <3>1. PICK j \in DOMAIN rest : rest[j] = Captured(d)
        BY <1>2
      <3>2. rest[j].c = d /\ rest[j].was = StatusOf(d) /\ rest[j].wasOcpp = OcppStatusOf(d)
        BY <3>1, CapturedTyped
      <3> QED BY <2>2, <2>4, <3>1, <3>2
    <2> QED BY <1>0, <1>1, <1>3, <2>2, <2>3, <2>4, CommandKeeps
  <1> QED BY <1>4, <1>5

-----------------------------------------------------------------------------
(* The request at the head of the queue settles. *)

\* The head of the queue.
LEMMA HeadIs ==
    ASSUME ReportsInv, flights # <<>>, NEW f, f = Head(flights)
    PROVE  /\ f = flights[1] /\ f \in Flights /\ 1 <= Len(flights) /\ Waiting(1) = Tail(flights)
           /\ 1 \in DOMAIN flights /\ Fits(f, tx)
           /\ f.kind \in OfTransaction =>
                f.s \in Starts /\ f.c \in Connectors /\ tx[f.s].state # "none" /\ tx[f.s].at = f.c
           /\ f.c \in Connectors \cup {None} /\ f.status \in OcppStatuses \cup {None}
           /\ f.was \in Statuses \cup {None} /\ f.rest \in Seq(Changes)
           /\ f.kind # "change" => f.rest = <<>>
           /\ f.kind \in Comparing \ {"change"} => f.was # None
           /\ f.kind \notin Comparing => f.was = None
  <1>1. /\ f = flights[1] /\ f \in Flights /\ 1 <= Len(flights) /\ Waiting(1) = Tail(flights)
        /\ 1 \in DOMAIN flights /\ Fits(f, tx)
    BY Standing
  <1>2. /\ f.c \in Connectors \cup {None} /\ f.status \in OcppStatuses \cup {None}
        /\ f.was \in Statuses \cup {None} /\ f.rest \in Seq(Changes)
    BY <1>1 DEF Flights
  <1> QED BY <1>1, <1>2 DEF Fits

\* A report that settles.
LEMMA TellIs ==
    ASSUME ReportsInv, flights # <<>>, NEW f, f = Head(flights), NEW ok \in BOOLEAN, Tell(f, ok),
           f.kind \in Telling
    PROVE  /\ told' \in [Connectors -> OcppStatuses \cup {None}]
           /\ \A c \in Connectors :
                IF Reports(flights[1], c) THEN told'[c] \in {None, flights[1].status}
                ELSE told'[c] = told[c]
  <1>1. /\ f = flights[1] /\ f.c \in Connectors \cup {None} /\ f.status \in OcppStatuses \cup {None}
        /\ told \in [Connectors -> OcppStatuses \cup {None}]
    BY HeadIs, Standing
  <1> QED BY <1>1, ConnectorsAssumption DEF Tell, Reports

\* Nothing of a connector changes, and what follows the report reports nothing.
LEMMA ToldSettles ==
    ASSUME ReportsInv, flights # <<>>, NEW f, f = Head(flights), NEW ok \in BOOLEAN, Tell(f, ok),
           f.kind \in Telling, f.kind \notin {"finishing", "change"},
           UNCHANGED <<connector, evseTx, untold>>,
           NEW a, NEW new, a = 1 => new.kind \notin Telling
    PROVE  ToldEffect(1, a, new)
  <1>1. \A c \in Connectors :
          IF Reports(flights[1], c) THEN told'[c] \in {None, flights[1].status}
          ELSE told'[c] = told[c]
    BY TellIs
  <1>2. f = flights[1] /\ f.rest = <<>> /\ f.kind \notin {"finishing", "stop"}
    BY HeadIs DEF Telling
  <1>3. \A c : ~WillReport(flights[1], c, OcppStatusOf(c))
    BY <1>2, NoRest DEF WillReport
  <1>4. \A c : NextOcppStatus(c) = OcppStatusOf(c)
    BY DEF NextOcppStatus, OcppStatusOf
  <1>5. a = 1 => \A c : ~Reports(new, c)
    BY DEF Reports
  <1> QED BY <1>1, <1>3, <1>4, <1>5 DEF ToldEffect

\* What the head finds of a connector: only of its own, when it has no rest.
LEMMA HeadFinds ==
    ASSUME ReportsInv, flights # <<>>, flights[1].kind # "change"
    PROVE  /\ \A d, status : WillFind(flights[1], d, status) => d = flights[1].c
           /\ flights[1].kind \notin Comparing => \A d, status : ~WillFind(flights[1], d, status)
  <1> DEFINE f == Head(flights)
  <1>1. f = flights[1] /\ (f.kind # "change" => f.rest = <<>>) /\ (f.kind \notin Comparing => f.was = None)
    BY HeadIs
  <1> HIDE DEF f
  <1> QED BY <1>1, NoRest DEF WillFind

LEMMA StartSettlesKeeps ==
    ASSUME ReportsInv, flights # <<>>, NEW f, f = Head(flights), NEW ok \in BOOLEAN, StartSettles(f, ok)
    PROVE  ReportsInv'
  <1> DEFINE s == f.s
             c == f.c
             new == Request("charging", s, c, NextOcppStatus(c), None, <<>>)
  <1>1. /\ f = flights[1] /\ 1 <= Len(flights) /\ Waiting(1) = Tail(flights)
        /\ f.kind = "start" /\ f.rest = <<>> /\ f.was = None
        /\ s \in Starts /\ c \in Connectors /\ tx[s].at = c
    BY HeadIs DEF StartSettles, OfTransaction, Comparing
  <1>2. /\ UNCHANGED <<outbox, pass, told, shown, txShown, raced>>
        /\ \/ /\ StartAccepted(s)
              /\ flights' = Append(Waiting(1), new) /\ untold' = untold \ {c}
           \/ /\ StartRefused(s)
              /\ flights' = Waiting(1)
              /\ untold' = IF evseTx[c] # None THEN untold \cup {c} ELSE untold
    BY <1>1 DEF StartSettles, replayVars, Unsaid, Report
  <1>3. [Next]_vars
    BY <1>1, <1>2 DEF Next
  <1>4. new \in Flights
    BY <1>1, StatusTyped, NoRest, RequestIs
  <1>5. /\ new.kind = "charging" /\ new.s = s /\ new.c = c /\ new.status = NextOcppStatus(c)
        /\ new.was = None /\ new.rest = <<>>
    BY RequestHas
  <1>6. UNCHANGED connector /\ tx[s].state = "sending"
    BY <1>2 DEF StartAccepted, StartRefused
  <1> HIDE DEF new, s, c
  <1>7. RestFits
    BY <1>2, Standing, <1>1 DEF RestFits
  <1>8. CASE StartAccepted(s) /\ flights' = Append(Waiting(1), new) /\ untold' = untold \ {c}
    <2>1. /\ tx' = [tx EXCEPT ![s] = [state |-> "active", at |-> c, bound |-> TRUE]]
          /\ evseTx' = [evseTx EXCEPT ![c] = s]
      BY <1>1, <1>8 DEF StartAccepted, Activate
    <2>2. /\ tx'[s].state = "active" /\ tx'[s].bound /\ tx'[s].at = c
          /\ \A t \in Starts : t # s => tx'[t] = tx[t]
          /\ \A d \in Connectors : d # c => evseTx'[d] = evseTx[d]
      BY <1>1, <2>1, Standing
    <2>3. Moves(1, 1, new)
      BY <1>1, <1>4, <1>8, Standing, MovesWith
    <2>4. Fits(new, tx')
      BY <1>1, <1>5, <2>2 DEF Fits, Comparing
    <2>5. RunningEffect(1, 1, new)
      BY <1>1, <1>2, <1>5, <1>6, <2>2 DEF RunningEffect, Ending
    <2>6. ToldEffect(1, 1, new)
      <3>1. \A d \in Connectors : d # c => NextOcppStatus(d) = OcppStatusOf(d) /\ ~Reports(new, d)
        BY <1>5, <1>6, <2>2 DEF NextOcppStatus, OcppStatusOf, Reports
      <3>2. \A d : ~Reports(flights[1], d) /\ ~WillReport(flights[1], d, OcppStatusOf(d))
        BY <1>1, NoRest DEF Reports, WillReport, Telling
      <3>3. Reports(new, c) /\ new.status = NextOcppStatus(c)
        BY <1>5 DEF Reports, Telling
      <3> QED BY <1>1, <1>2, <1>8, <3>1, <3>2, <3>3 DEF ToldEffect
    <2>7. ShownEffect(1, 1, new)
      BY <1>1, <1>2, <1>5, <1>6, ShownQuiet
    <2> QED BY <1>3, <1>7, <2>3, <2>4, <2>5, <2>6, <2>7, EffectKeeps DEF Effect
  <1>9. CASE /\ StartRefused(s) /\ flights' = Waiting(1)
             /\ untold' = IF evseTx[c] # None THEN untold \cup {c} ELSE untold
    <2>1. tx' = [tx EXCEPT ![s].state = "refused"] /\ evseTx' = [evseTx EXCEPT ![c] = None]
      BY <1>1, <1>9 DEF StartRefused
    <2>2. /\ tx'[s].state = "refused" /\ \A t \in Starts : t # s => tx'[t] = tx[t]
          /\ \A d \in Connectors : d # c => evseTx'[d] = evseTx[d]
          /\ evseTx'[c] = None
      BY <1>1, <2>1, Standing
    <2>3. Moves(1, 0, None)
      BY <1>1, <1>9, Standing, MovesWithout
    <2>4. RunningEffect(1, 0, None)
      BY <1>1, <1>2, <1>6, <2>2 DEF RunningEffect, Ending
    <2>5. ToldEffect(1, 0, None)
      <3>1. \A d \in Connectors : d # c \/ evseTx[c] = None => NextOcppStatus(d) = OcppStatusOf(d)
        BY <1>6, <2>2 DEF NextOcppStatus, OcppStatusOf
      <3>2. \A d : ~Reports(flights[1], d) /\ ~WillReport(flights[1], d, OcppStatusOf(d))
        BY <1>1, NoRest DEF Reports, WillReport, Telling
      <3> QED BY <1>1, <1>2, <1>9, <3>1, <3>2 DEF ToldEffect
    <2>6. ShownEffect(1, 0, None)
      BY <1>1, <1>2, <1>6, ShownQuiet
    <2> QED BY <1>3, <1>7, <2>3, <2>4, <2>5, <2>6, EffectKeeps DEF Effect
  <1> QED BY <1>2, <1>8, <1>9

LEMMA ChargingSettlesKeeps ==
    ASSUME ReportsInv, flights # <<>>, NEW f, f = Head(flights), NEW ok \in BOOLEAN, ChargingSettles(f, ok)
    PROVE  ReportsInv'
  <1>1. /\ f = flights[1] /\ 1 <= Len(flights) /\ Waiting(1) = Tail(flights)
        /\ f.kind = "charging" /\ f.rest = <<>> /\ f.was = None /\ f.s \in Starts
    BY HeadIs DEF ChargingSettles, OfTransaction, Comparing
  <1>2. /\ UNCHANGED vars /\ UNCHANGED <<outbox, pass, shown, untold, raced>> /\ Tell(f, ok)
        /\ txShown' = [txShown EXCEPT ![f.s] = "active"] /\ flights' = Waiting(1)
    BY <1>1 DEF ChargingSettles, replayVars, ShowTransaction
  <1>3. UNCHANGED <<connector, evseTx, tx>>
    BY <1>2 DEF vars
  <1>4. /\ txShown'[f.s] = "active" /\ \A t \in Starts : t # f.s => txShown'[t] = txShown[t]
        /\ txShown' \in [Starts -> {"none", "active", "ended"}]
    BY <1>1, <1>2, Standing
  <1>5. Moves(1, 0, None)
    BY <1>1, <1>2, Standing, MovesWithout
  <1>6. RunningEffect(1, 0, None)
    BY <1>1, <1>3, <1>4 DEF RunningEffect, Ending
  <1>7. f.kind \in Telling /\ f.kind \notin {"finishing", "change"} /\ 0 # 1
    BY <1>1 DEF Telling
  <1>8. ToldEffect(1, 0, None)
    BY <1>2, <1>3, <1>7, ToldSettles
  <1>9. ShownEffect(1, 0, None)
    BY <1>1, <1>2, <1>3, ShownQuiet
  <1>10. told' \in [Connectors -> OcppStatuses \cup {None}]
    BY <1>2, <1>7, TellIs
  <1>11. RestFits
    BY <1>2, <1>4, <1>10, Standing DEF RestFits
  <1> QED BY <1>2, <1>5, <1>6, <1>8, <1>9, <1>11, EffectKeeps DEF Effect

LEMMA FinishingSettlesKeeps ==
    ASSUME ReportsInv, flights # <<>>, NEW f, f = Head(flights), NEW ok \in BOOLEAN, FinishingSettles(f, ok)
    PROVE  ReportsInv'
  <1> DEFINE s == f.s
             c == f.c
             new == Request("stop", s, c, None, f.was, <<>>)
  <1>1. /\ f = flights[1] /\ 1 <= Len(flights) /\ Waiting(1) = Tail(flights) /\ 1 \in DOMAIN flights
        /\ f.kind = "finishing" /\ f.rest = <<>> /\ f.was # None /\ f.was \in Statuses \cup {None}
        /\ s \in Starts /\ c \in Connectors /\ tx[s].at = c /\ tx[s].state # "none"
    BY HeadIs DEF FinishingSettles, OfTransaction, Comparing
  <1>2. /\ StopNotified(s) /\ Tell(f, ok) /\ flights' = Append(Waiting(1), new)
        /\ UNCHANGED <<outbox, pass, shown, txShown, untold, raced>>
    BY <1>1 DEF FinishingSettles, replayVars
  <1>3. [Next]_vars
    BY <1>1, <1>2 DEF Next
  <1>4. new \in Flights
    BY <1>1, NoRest, RequestIs
  <1>5. /\ new.kind = "stop" /\ new.s = s /\ new.c = c /\ new.was = f.was /\ new.rest = <<>>
    BY RequestHas
  <1>6. UNCHANGED <<connector, evseTx, tx>>
    BY <1>2 DEF StopNotified
  <1>7. tx[s].state = "ended"
    BY <1>1 DEF ReportsInv, RunningInv, Ending
  <1>8. /\ told' \in [Connectors -> OcppStatuses \cup {None}]
        /\ \A d \in Connectors :
             IF Reports(flights[1], d) THEN told'[d] \in {None, flights[1].status}
             ELSE told'[d] = told[d]
    BY <1>1, <1>2, TellIs DEF Telling
  <1> HIDE DEF new, s, c
  <1>9. Moves(1, 1, new)
    BY <1>1, <1>2, <1>4, Standing, MovesWith
  <1>10. Fits(new, tx')
    BY <1>1, <1>5, <1>6, ConnectorsAssumption DEF Fits, Comparing
  <1>11. RunningEffect(1, 1, new)
    BY <1>1, <1>2, <1>5, <1>6, <1>7 DEF RunningEffect, Ending, s
  <1>12. ToldEffect(1, 1, new)
    <2>1. \A d : NextOcppStatus(d) = OcppStatusOf(d)
      BY <1>6 DEF NextOcppStatus, OcppStatusOf
    <2>2. WillReport(new, c, NextOcppStatus(c)) /\ \A d : ~Reports(new, d)
      BY <1>5 DEF WillReport, Reports, Telling
    <2>3. \A d : d # c => ~WillReport(flights[1], d, OcppStatusOf(d))
      BY <1>1, NoRest DEF WillReport, c
    <2> QED BY <1>2, <1>8, <2>1, <2>2, <2>3 DEF ToldEffect
  <1>13. ShownEffect(1, 1, new)
    <2>1. \A d : NextStatus(d) = StatusOf(d)
      BY <1>6, SameConnectors
    <2>2. \A d, status : WillFind(flights[1], d, status) => WillFind(new, d, status)
      BY <1>1, <1>5, NoRest DEF WillFind, c
    <2>3. ASSUME NEW d \in Connectors \ raced PROVE StatusOf(d) = "unavailable" \/ ~Barred(new, d)
      <3>1. StatusOf(d) = "unavailable" \/ ~Barred(flights[1], d)
        BY <1>1 DEF ReportsInv, ShownInv
      <3> QED BY <1>1, <1>5, <3>1 DEF Barred, c
    <2> QED BY <1>2, <2>1, <2>2, <2>3 DEF ShownEffect
  <1>14. RestFits
    BY <1>2, <1>8, Standing DEF RestFits
  <1> QED BY <1>3, <1>9, <1>10, <1>11, <1>12, <1>13, <1>14, EffectKeeps DEF Effect

LEMMA StopSettlesKeeps ==
    ASSUME ReportsInv, flights # <<>>, NEW f, f = Head(flights), StopSettles(f)
    PROVE  ReportsInv'
  <1> DEFINE s == f.s
             c == f.c
             new == Request("stopped", s, c, NextOcppStatus(c), f.was, <<>>)
  <1>1. /\ f = flights[1] /\ 1 <= Len(flights) /\ Waiting(1) = Tail(flights) /\ 1 \in DOMAIN flights
        /\ f.kind = "stop" /\ f.rest = <<>> /\ f.was # None /\ f.was \in Statuses \cup {None}
        /\ s \in Starts /\ c \in Connectors /\ tx[s].at = c /\ tx[s].state # "none"
    BY HeadIs DEF StopSettles, OfTransaction, Comparing
  <1>2. /\ StopAnswered(s) /\ flights' = Append(Waiting(1), new) /\ untold' = untold \ {c}
        /\ UNCHANGED <<outbox, pass, told, shown, txShown, raced>>
    BY <1>1 DEF StopSettles, replayVars, Report
  <1>3. [Next]_vars
    BY <1>1, <1>2 DEF Next
  <1>4. new \in Flights
    BY <1>1, StatusTyped, NoRest, RequestIs
  <1>5. /\ new.kind = "stopped" /\ new.s = s /\ new.c = c /\ new.status = NextOcppStatus(c)
        /\ new.was = f.was /\ new.rest = <<>>
    BY RequestHas
  <1>6. /\ UNCHANGED <<evseTx, tx>>
        /\ connector' = [connector EXCEPT ![c] = ApplyRequestedAvailability(c, connector[c])]
    BY <1>1, <1>2 DEF StopAnswered
  <1>7. tx[s].state = "ended"
    BY <1>1 DEF ReportsInv, RunningInv, Ending
  <1> HIDE DEF new, s, c
  <1>8. /\ connector'[c] = ApplyRequestedAvailability(c, connector[c])
        /\ \A d \in Connectors : d # c => connector'[d] = connector[d]
    BY <1>1, <1>6, Standing
  <1>9. connector'[c] = connector[c] \/ NextStatus(c) = "unavailable"
    <2>1. CASE connector[c].requested = None \/ HasActiveTransaction(c)
      BY <1>8, <2>1 DEF ApplyRequestedAvailability
    <2>2. CASE ~(connector[c].requested = None \/ HasActiveTransaction(c))
      <3>1. connector'[c] = [connector[c] EXCEPT !.availability = connector[c].requested, !.requested = None]
        BY <1>8, <2>2 DEF ApplyRequestedAvailability
      <3>2. connector[c].requested = "inoperative"
        BY <1>1, <2>2 DEF ReportsInv, BaseInv, LastCommandDecides
      <3>3. connector[c] \in
              [plugged : BOOLEAN, availability : Availability, requested : Availability \cup {None}]
        BY <1>1, Standing
      <3>4. connector'[c].availability = "inoperative"
        BY <3>1, <3>2, <3>3
      <3> QED BY <3>4 DEF NextStatus, Status
    <2> QED BY <2>1, <2>2
  <1>10. Moves(1, 1, new)
    BY <1>1, <1>2, <1>4, Standing, MovesWith
  <1>11. Fits(new, tx')
    BY <1>1, <1>5, <1>6, ConnectorsAssumption DEF Fits, Comparing
  <1>12. RunningEffect(1, 1, new)
    BY <1>1, <1>2, <1>5, <1>6, <1>7 DEF RunningEffect, Ending, s
  <1>13. ToldEffect(1, 1, new)
    <2>1. \A d \in Connectors : d # c => NextOcppStatus(d) = OcppStatusOf(d) /\ ~Reports(new, d)
                                         /\ ~WillReport(flights[1], d, OcppStatusOf(d))
      BY <1>1, <1>5, <1>6, <1>8, NoRest DEF NextOcppStatus, OcppStatusOf, Reports, WillReport, c
    <2>2. Reports(new, c) /\ new.status = NextOcppStatus(c)
      BY <1>5 DEF Reports, Telling
    <2>3. \A d : ~Reports(flights[1], d)
      BY <1>1 DEF Reports, Telling
    <2> QED BY <1>2, <2>1, <2>2, <2>3 DEF ToldEffect
  <1>14. ShownEffect(1, 1, new)
    <2>1. \A d \in Connectors : d # c => NextStatus(d) = StatusOf(d)
      BY <1>8 DEF NextStatus, StatusOf
    <2>2. /\ \A d, status : WillFind(flights[1], d, status) => d = c /\ WillFind(new, d, status)
          /\ \A status : f.was # status => WillFind(new, c, status)
          /\ \A d : ~Barred(new, d)
      BY <1>1, <1>5, NoRest DEF WillFind, Barred, c
    <2>3. ASSUME c \notin raced, NextStatus(c) # StatusOf(c)
          PROVE  NextStatus(c) = "unavailable" /\ WillFind(new, c, NextStatus(c))
      <3>1. NextStatus(c) = "unavailable"
        BY <1>9, <2>3 DEF NextStatus, StatusOf
      <3>2. ~Barred(flights[1], c)
        BY <1>1, <2>3, <3>1 DEF ReportsInv, ShownInv
      <3>3. f.was # "unavailable"
        BY <1>1, <3>2 DEF Barred, c
      <3> QED BY <2>2, <3>1, <3>3
    <2> QED BY <1>2, <2>1, <2>2, <2>3 DEF ShownEffect
  <1>15. RestFits
    BY <1>2, Standing DEF RestFits
  <1> QED BY <1>3, <1>10, <1>11, <1>12, <1>13, <1>14, <1>15, EffectKeeps DEF Effect

\* A report that ends its coroutine, with an event of the connector.
LEMMA LastReportShows ==
    ASSUME ReportsInv, flights # <<>>, NEW f, f = Head(flights), NEW ok \in BOOLEAN, Tell(f, ok),
           f.kind \in {"stopped", "apply", "snapshot"}, f.c \in Connectors,
           UNCHANGED vars, UNCHANGED <<outbox, pass, untold>>, flights' = Tail(flights),
           Emit(f.c, f.was, Tail(flights)),
           txShown' \in [Starts -> {"none", "active", "ended"}], RunningEffect(1, 0, None)
    PROVE  ReportsInv'
  <1>1. /\ f = flights[1] /\ 1 <= Len(flights) /\ Waiting(1) = Tail(flights) /\ f.rest = <<>>
        /\ f.kind \in Telling /\ f.kind \notin {"finishing", "change"}
    BY HeadIs DEF Telling
  <1>2. UNCHANGED <<connector, evseTx, tx>> /\ 0 # 1
    BY DEF vars
  <1>3. Moves(1, 0, None)
    BY <1>1, Standing, MovesWithout
  <1>4. ToldEffect(1, 0, None)
    BY <1>1, <1>2, ToldSettles
  <1>5. ShownEffect(1, 0, None)
    <2>1. \A d : NextStatus(d) = StatusOf(d)
      BY <1>2, SameConnectors
    <2>2. \A d \in Connectors : WillFind(flights[1], d, StatusOf(d)) => d = f.c /\ NextStatus(f.c) # f.was
      BY <1>1, <2>1, NoRest DEF WillFind
    <2>3. Emit(f.c, f.was, Waiting(1))
      BY <1>1
    <2> QED BY <1>1, <1>2, <2>1, <2>2, <2>3, EmitShows
  <1>6. told' \in [Connectors -> OcppStatuses \cup {None}]
    BY <1>1, TellIs
  <1>7. RestFits
    BY <1>6, Standing, EmitIs DEF RestFits
  <1> QED BY <1>3, <1>4, <1>5, <1>7, EffectKeeps DEF Effect

LEMMA StoppedSettlesKeeps ==
    ASSUME ReportsInv, flights # <<>>, NEW f, f = Head(flights), NEW ok \in BOOLEAN, StoppedSettles(f, ok)
    PROVE  ReportsInv'
  <1>1. /\ f = flights[1] /\ f.kind = "stopped" /\ f.s \in Starts /\ f.c \in Connectors
        /\ 1 \in DOMAIN flights
    BY HeadIs DEF StoppedSettles, OfTransaction
  <1>2. /\ UNCHANGED vars /\ UNCHANGED <<outbox, pass, untold>> /\ Tell(f, ok)
        /\ Emit(f.c, f.was, Tail(flights)) /\ flights' = Tail(flights)
        /\ txShown' = [txShown EXCEPT ![f.s] = "ended"]
    BY DEF StoppedSettles, replayVars, ShowTransaction
  <1>3. /\ txShown'[f.s] = "ended" /\ \A t \in Starts : t # f.s => txShown'[t] = txShown[t]
        /\ txShown' \in [Starts -> {"none", "active", "ended"}]
    BY <1>1, <1>2, Standing
  <1>4. tx[f.s].state = "ended" /\ tx' = tx
    BY <1>1, <1>2 DEF ReportsInv, RunningInv, Ending, vars
  <1>5. RunningEffect(1, 0, None)
    BY <1>1, <1>3, <1>4 DEF RunningEffect
  <1> QED BY <1>1, <1>2, <1>3, <1>5, LastReportShows

LEMMA ApplySettlesKeeps ==
    ASSUME ReportsInv, flights # <<>>, NEW f, f = Head(flights), NEW ok \in BOOLEAN, ApplySettles(f, ok)
    PROVE  ReportsInv'
  <1>1. f = flights[1] /\ f.kind = "apply" /\ f.c \in Connectors
    BY HeadIs DEF ApplySettles, Fits
  <1>2. /\ UNCHANGED vars /\ UNCHANGED <<outbox, pass, untold, txShown>> /\ Tell(f, ok)
        /\ Emit(f.c, f.was, Tail(flights)) /\ flights' = Tail(flights)
    BY DEF ApplySettles, replayVars
  <1>3. UNCHANGED <<tx, txShown>>
    BY <1>2 DEF vars
  <1>4. RunningEffect(1, 0, None)
    BY <1>1, <1>3, RunningQuiet DEF Ending
  <1> QED BY <1>1, <1>2, <1>4, Standing, LastReportShows

LEMMA SnapshotSettlesKeeps ==
    ASSUME ReportsInv, flights # <<>>, NEW f, f = Head(flights), NEW ok \in BOOLEAN, SnapshotSettles(f, ok)
    PROVE  ReportsInv'
  <1>1. f = flights[1] /\ f.kind = "snapshot" /\ f.c \in Connectors /\ f.was = None
    BY HeadIs DEF SnapshotSettles, Fits, Comparing
  <1>2. /\ UNCHANGED vars /\ UNCHANGED <<outbox, pass, untold, txShown>> /\ Tell(f, ok)
        /\ Show(f.c, StatusOf(f.c), Tail(flights)) /\ flights' = Tail(flights)
    BY DEF SnapshotSettles, replayVars
  <1>3. UNCHANGED <<tx, txShown, connector>>
    BY <1>2 DEF vars
  <1>4. Emit(f.c, f.was, Tail(flights))
    <2>1. Status(connector'[f.c]) = StatusOf(f.c) /\ Status(connector'[f.c]) # None
      BY <1>3, StatusTyped, ReportsAssumption DEF StatusOf
    <2> QED BY <1>1, <1>2, <2>1 DEF Emit
  <1>5. RunningEffect(1, 0, None)
    BY <1>1, <1>3, RunningQuiet DEF Ending
  <1> QED BY <1>1, <1>2, <1>4, <1>5, Standing, LastReportShows

LEMMA PlugSettlesKeeps ==
    ASSUME ReportsInv, flights # <<>>, NEW f, f = Head(flights), NEW ok \in BOOLEAN, PlugSettles(f, ok)
    PROVE  ReportsInv'
  <1>1. /\ f = flights[1] /\ 1 <= Len(flights) /\ Waiting(1) = Tail(flights)
        /\ f.kind = "plug" /\ f.was = None /\ f.rest = <<>>
    BY HeadIs DEF PlugSettles, Comparing
  <1>2. /\ UNCHANGED vars /\ UNCHANGED <<outbox, pass, shown, txShown, untold, raced>> /\ Tell(f, ok)
        /\ flights' = Waiting(1)
    BY <1>1 DEF PlugSettles, replayVars
  <1>3. UNCHANGED <<tx, txShown, connector, evseTx>> /\ 0 # 1
    BY <1>2 DEF vars
  <1>4. f.kind \in Telling /\ f.kind \notin {"finishing", "change"}
    BY <1>1 DEF Telling
  <1>5. Moves(1, 0, None)
    BY <1>1, <1>2, Standing, MovesWithout
  <1>6. RunningEffect(1, 0, None)
    BY <1>1, <1>3, RunningQuiet DEF Ending
  <1>7. ToldEffect(1, 0, None)
    BY <1>2, <1>3, <1>4, ToldSettles
  <1>8. ShownEffect(1, 0, None)
    BY <1>1, <1>2, <1>3, ShownQuiet
  <1>9. told' \in [Connectors -> OcppStatuses \cup {None}]
    BY <1>2, <1>4, TellIs
  <1>10. RestFits
    BY <1>2, <1>9, Standing DEF RestFits
  <1> QED BY <1>2, <1>5, <1>6, <1>7, <1>8, <1>10, EffectKeeps DEF Effect

\* Of a command the next change to report waits until the one before is reported.
LEMMA ChangeSettlesKeeps ==
    ASSUME ReportsInv, flights # <<>>, NEW f, f = Head(flights), NEW ok \in BOOLEAN, ChangeSettles(f, ok)
    PROVE  ReportsInv'
  <1> DEFINE rest == f.rest
  <1>1. /\ f = flights[1] /\ 1 <= Len(flights) /\ Waiting(1) = Tail(flights) /\ Fits(f, tx)
        /\ f.kind = "change" /\ rest \in Seq(Changes) /\ f.c \in Connectors \cup {None}
    BY HeadIs DEF ChangeSettles
  <1>2. /\ UNCHANGED vars /\ UNCHANGED <<outbox, pass, txShown, untold>> /\ Tell(f, ok)
        /\ flights' = Publish(Waiting(1), rest)
        /\ IF f.c = None THEN UNCHANGED <<shown, raced>> ELSE Emit(f.c, f.was, Waiting(1))
    BY <1>1 DEF ChangeSettles, replayVars
  <1>3. UNCHANGED <<tx, txShown, connector, evseTx>>
    BY <1>2 DEF vars
  <1>4. /\ \A d : NextStatus(d) = StatusOf(d)
        /\ \A d : NextOcppStatus(d) = OcppStatusOf(d)
    BY <1>3, SameConnectors DEF NextOcppStatus, OcppStatusOf
  <1>5. /\ told' \in [Connectors -> OcppStatuses \cup {None}]
        /\ \A d \in Connectors :
             IF Reports(flights[1], d) THEN told'[d] \in {None, flights[1].status}
             ELSE told'[d] = told[d]
    BY <1>1, <1>2, TellIs DEF Telling
  <1> HIDE DEF rest
  <1>6. PICK a \in {0, 1} : \E new :
          /\ Moves(1, a, new)
          /\ a = 1 => /\ new.kind = "change" /\ new.c \in Connectors /\ new.was \in Statuses
                      /\ new.status = NextOcppStatus(new.c)
          /\ \A j \in DOMAIN rest : NextOcppStatus(rest[j].c) # rest[j].wasOcpp =>
               /\ a = 1
               /\ \/ new.c = rest[j].c /\ new.was = rest[j].was
                  \/ \E k \in DOMAIN new.rest : new.rest[k] = rest[j]
    BY <1>1, <1>2, Standing, PublishMoves
  <1>7. PICK new :
          /\ Moves(1, a, new)
          /\ a = 1 => /\ new.kind = "change" /\ new.c \in Connectors /\ new.was \in Statuses
                      /\ new.status = NextOcppStatus(new.c)
          /\ \A j \in DOMAIN rest : NextOcppStatus(rest[j].c) # rest[j].wasOcpp =>
               /\ a = 1
               /\ \/ new.c = rest[j].c /\ new.was = rest[j].was
                  \/ \E k \in DOMAIN new.rest : new.rest[k] = rest[j]
    BY <1>6
  <1>8. a = 1 => Fits(new, tx')
    <2>1. a = 1 => new.was # None /\ new.c # None
      BY <1>7, ConnectorsAssumption, ReportsAssumption
    <2> QED BY <1>7, <2>1 DEF Fits, OfTransaction, Comparing
  <1>9. RunningEffect(1, a, new)
    BY <1>1, <1>3, <1>7, RunningQuiet DEF Ending
  <1>10. ToldEffect(1, a, new)
    <2>1. ASSUME NEW d \in Connectors, WillReport(flights[1], d, OcppStatusOf(d))
          PROVE  /\ a = 1
                 /\ \/ Reports(new, d) /\ new.status = NextOcppStatus(d)
                    \/ WillReport(new, d, NextOcppStatus(d))
      <3>1. PICK j \in DOMAIN rest : rest[j].c = d /\ rest[j].wasOcpp # OcppStatusOf(d)
        BY <1>1, <2>1 DEF WillReport, rest
      <3>2. /\ a = 1
            /\ new.c = d \/ \E k \in DOMAIN new.rest : new.rest[k] = rest[j]
        BY <1>4, <1>7, <3>1
      <3>3. new.c = d => Reports(new, d) /\ new.status = NextOcppStatus(d)
        BY <1>7, <3>2 DEF Reports, Telling
      <3>4. (\E k \in DOMAIN new.rest : new.rest[k] = rest[j]) => WillReport(new, d, NextOcppStatus(d))
        BY <1>4, <3>1 DEF WillReport
      <3> QED BY <3>2, <3>3, <3>4
    <2>2. ASSUME NEW d \in Connectors, a = 1, Reports(new, d)
          PROVE  new.status = NextOcppStatus(d)
      BY <1>7, <2>2 DEF Reports
    <2> QED BY <1>2, <1>4, <1>5, <2>1, <2>2 DEF ToldEffect
  <1>11. ASSUME NEW d \in Connectors, WillFind(flights[1], d, StatusOf(d))
         PROVE  \/ d = f.c /\ f.c # None /\ NextStatus(d) # f.was
                \/ a = 1 /\ WillFind(new, d, NextStatus(d))
    <2>1. CASE f.c = d /\ f.was \notin {None, StatusOf(d)}
      BY <1>4, <2>1, ConnectorsAssumption
    <2>2. ASSUME NEW j \in DOMAIN rest, rest[j].c = d, rest[j].was # StatusOf(d),
                 rest[j].wasOcpp = Plain(rest[j].was)
          PROVE  a = 1 /\ WillFind(new, d, NextStatus(d))
      <3>1. rest[j].was \in Statuses
        <4>1. rest[j] \in Changes
          BY <1>1
        <4> QED BY <4>1 DEF Changes
      <3>2. OcppStatusOf(d) \in {"Charging", Plain(StatusOf(d))}
        BY DEF OcppStatusOf, OcppStatus, StatusOf, Plain
      <3>3. StatusOf(d) \in Statuses
        BY StatusTyped
      <3>4. Plain(rest[j].was) \notin {"Charging", Plain(StatusOf(d))}
        BY <2>2, <3>1, <3>3 DEF Plain, Statuses
      <3>5. NextOcppStatus(rest[j].c) # rest[j].wasOcpp
        BY <1>4, <2>2, <3>2, <3>4
      <3>6. /\ a = 1 /\ new.was \in Statuses
            /\ \/ new.c = d /\ new.was = rest[j].was
               \/ \E k \in DOMAIN new.rest : new.rest[k] = rest[j]
        BY <1>7, <2>2, <3>5
      <3>7. None \notin Statuses
        BY ReportsAssumption
      <3>8. CASE new.c = d /\ new.was = rest[j].was
        BY <1>4, <2>2, <3>6, <3>7, <3>8 DEF WillFind
      <3>9. CASE \E k \in DOMAIN new.rest : new.rest[k] = rest[j]
        BY <1>4, <2>2, <3>6, <3>9 DEF WillFind
      <3> QED BY <3>6, <3>8, <3>9
    <2> QED BY <1>1, <1>11, <2>1, <2>2 DEF WillFind, rest
  <1>12. a = 1 => new.kind \notin {"finishing", "stop"}
    BY <1>7
  <1>13. CASE f.c = None
    <2>1. UNCHANGED <<shown, raced>>
      BY <1>2, <1>13
    <2>2. \A d \in Connectors : WillFind(flights[1], d, StatusOf(d)) =>
            a = 1 /\ WillFind(new, d, NextStatus(d))
      BY <1>11, <1>13
    <2>3. a = 1 => \A d : ~Barred(new, d)
      BY <1>12 DEF Barred
    <2>4. ShownEffect(1, a, new)
      BY <1>4, <2>1, <2>2, <2>3 DEF ShownEffect
    <2>5. RestFits
      BY <1>2, <1>5, <2>1, Standing DEF RestFits
    <2> QED BY <1>2, <1>7, <1>8, <1>9, <1>10, <2>4, <2>5, EffectKeeps DEF Effect
  <1>14. CASE f.c # None
    <2>1. f.c \in Connectors /\ Emit(f.c, f.was, Waiting(1))
      BY <1>1, <1>2, <1>14
    <2>2. \A d \in Connectors : WillFind(flights[1], d, StatusOf(d)) =>
            (d = f.c /\ NextStatus(f.c) # f.was) \/ (a = 1 /\ WillFind(new, d, NextStatus(d)))
      BY <1>11
    <2>3. ShownEffect(1, a, new)
      BY <1>1, <1>4, <1>12, <2>1, <2>2, EmitShows
    <2>4. RestFits
      BY <1>2, <1>5, <2>1, Standing, EmitIs DEF RestFits
    <2> QED BY <1>2, <1>7, <1>8, <1>9, <1>10, <2>3, <2>4, EffectKeeps DEF Effect
  <1> QED BY <1>13, <1>14

-----------------------------------------------------------------------------
(* The replay. *)

\* What a request of the replay says of connectors, when it says something, is true.
Replaying(a, new) ==
    /\ a = 1 => Fits(new, tx') /\ new.kind \in ReplayKinds
    /\ \A c \in Connectors \ untold' :
         \/ a = 1 /\ Reports(new, c) /\ new.status = NextOcppStatus(c)
         \/ c \notin untold /\ ~(a = 1 /\ Reports(new, c))
    /\ outbox' \subseteq outbox /\ untold' \subseteq Connectors

\* A transaction that can be replayed.
Replayable(s) == s \in Starts /\ tx[s].state # "none" /\ tx'[s].state # "none" /\ tx'[s].at = tx[s].at

\* A request that reports nothing.
LEMMA ReplayMoves ==
    ASSUME ReportsInv, NEW n \in {0, 1}, n <= Len(flights), NEW s, Replayable(s),
           NEW kind \in {"replay", "replayStop"}, NEW status \in {None, "Charging"},
           flights' = Append(Waiting(n), Request(kind, s, tx[s].at, status, None, <<>>)),
           UNCHANGED <<outbox, untold>>
    PROVE  \E new : Moves(n, 1, new) /\ Replaying(1, new)
  <1> DEFINE new == Request(kind, s, tx[s].at, status, None, <<>>)
  <1>1. s \in Starts /\ tx[s].at \in Connectors
    BY DEF Replayable, ReportsInv, BaseInv, Begun
  <1>2. new \in Flights
    BY <1>1, NoRest, RequestIs DEF OcppStatuses
  <1>3. /\ new.kind = kind /\ new.s = s /\ new.c = tx[s].at /\ new.was = None /\ new.rest = <<>>
    BY RequestHas
  <1> HIDE DEF new
  <1>4. Moves(n, 1, new)
    BY <1>2, Standing, MovesWith DEF new
  <1>5. Fits(new, tx')
    BY <1>1, <1>3 DEF Fits, Comparing, Replayable
  <1>6. \A c : ~Reports(new, c)
    BY <1>3 DEF Reports, Telling
  <1>7. Replaying(1, new)
    BY <1>3, <1>5, <1>6, Standing DEF Replaying, ReplayKinds
  <1> QED BY <1>4, <1>7

LEMMA ResumeMoves ==
    ASSUME ReportsInv, NEW n \in {0, 1}, n <= Len(flights), NEW s, Replayable(s), Resume(Waiting(n), s)
    PROVE  \E new : Moves(n, 1, new) /\ Replaying(1, new)
  <1> DEFINE c == tx[s].at
             new == Request("resumed", s, c, "Charging", None, <<>>)
  <1>1. s \in Starts /\ c \in Connectors
    BY DEF Replayable, ReportsInv, BaseInv, Begun
  <1>2. /\ flights' = Append(Waiting(n), new) /\ outbox' \subseteq outbox
        /\ untold' = IF NextOcppStatus(c) = "Charging" THEN untold \ {c} ELSE untold \cup {c}
    BY DEF Resume, Unsaid
  <1>3. new \in Flights
    BY <1>1, NoRest, RequestIs DEF OcppStatuses
  <1>4. /\ new.kind = "resumed" /\ new.s = s /\ new.c = c /\ new.was = None /\ new.rest = <<>>
        /\ new.status = "Charging"
    BY RequestHas
  <1> HIDE DEF new
  <1>5. Moves(n, 1, new)
    BY <1>2, <1>3, Standing, MovesWith
  <1>6. Fits(new, tx')
    BY <1>1, <1>4 DEF Fits, Comparing, Replayable
  <1> HIDE DEF c
  <1>7. Reports(new, c) /\ \A d : d # c => ~Reports(new, d)
    BY <1>4 DEF Reports, Telling
  <1>8. Replaying(1, new)
    BY <1>1, <1>2, <1>4, <1>6, <1>7, Standing DEF Replaying, ReplayKinds
  <1> QED BY <1>5, <1>8

LEMMA NextRecordMoves ==
    ASSUME ReportsInv, NEW n \in {0, 1}, n <= Len(flights), UNCHANGED vars,
           NEW todo \in SUBSET Records, \A r \in todo : tx[r.s].state # "none",
           NextRecord(Waiting(n), todo)
    PROVE  /\ pass' \subseteq todo
           /\ \E a \in {0, 1} : \E new : Moves(n, a, new) /\ Replaying(a, new)
  <1>1. tx' = tx
    BY DEF vars
  <1>2. CASE todo = {} /\ flights' = Waiting(n) /\ pass' = {} /\ UNCHANGED <<outbox, untold>>
    <2>1. Moves(n, 0, None)
      BY <1>2, Standing, MovesWithout
    <2>2. Replaying(0, None)
      BY <1>2, Standing DEF Replaying
    <2> QED BY <1>2, <2>1, <2>2
  <1>3. ASSUME NEW r \in todo, pass' = todo \ {r}, ReplayRecord(Waiting(n), r)
        PROVE  /\ pass' \subseteq todo
               /\ \E new : Moves(n, 1, new) /\ Replaying(1, new)
    <2>1. Replayable(r.s)
      BY <1>1 DEF Replayable, Records
    <2>2. CASE /\ flights' = Append(Waiting(n), Request("replay", r.s, tx[r.s].at,
                                       IF r.stopped THEN None ELSE "Charging", None, <<>>))
               /\ UNCHANGED <<outbox, untold>>
      <3>1. (IF r.stopped THEN None ELSE "Charging") \in {None, "Charging"}
        OBVIOUS
      <3> QED BY <1>3, <2>1, <2>2, <3>1, ReplayMoves
    <2>3. CASE /\ flights' = Append(Waiting(n), Request("replayStop", r.s, tx[r.s].at, None, None, <<>>))
               /\ UNCHANGED <<outbox, untold>>
      BY <1>3, <2>1, <2>3, ReplayMoves
    <2>4. CASE Resume(Waiting(n), r.s)
      BY <1>3, <2>1, <2>4, ResumeMoves
    <2> QED BY <1>3, <2>2, <2>3, <2>4 DEF ReplayRecord
  <1> QED BY <1>2, <1>3 DEF NextRecord

\* A step of the replay that ends no transaction.
LEMMA ReplayKeeps ==
    ASSUME ReportsInv, [Next]_vars, UNCHANGED <<connector, evseTx, shown, raced, txShown>>,
           \A s \in Starts : tx'[s].state = tx[s].state,
           NEW n \in {0, 1}, NEW a \in {0, 1}, NEW new, Moves(n, a, new), Replaying(a, new),
           n = 1 => flights[1].kind \in ReplayKinds /\ flights[1].was = None /\ flights[1].rest = <<>>,
           told' \in [Connectors -> OcppStatuses \cup {None}],
           \A c \in Connectors :
             IF n = 1 /\ Reports(flights[1], c) THEN told'[c] \in {None, flights[1].status}
             ELSE told'[c] = told[c],
           pass' \in SUBSET Records, \A r \in pass' : r \in pass \/ r.s \in outbox
    PROVE  ReportsInv'
  <1>1. RunningEffect(n, a, new)
    BY DEF RunningEffect, Ending, Replaying, ReplayKinds
  <1>2. ToldEffect(n, a, new)
    <2>1. \A c : NextOcppStatus(c) = OcppStatusOf(c)
      BY DEF NextOcppStatus, OcppStatusOf
    <2>2. n = 1 => \A c : ~WillReport(flights[1], c, OcppStatusOf(c))
      BY NoRest DEF WillReport, ReplayKinds
    <2> QED BY <2>1, <2>2 DEF ToldEffect, Replaying
  <1>3. ShownEffect(n, a, new)
    <2>1. a = 1 => new.kind \notin {"finishing", "stop"}
      BY DEF Replaying, ReplayKinds
    <2> QED BY <2>1, ShownQuiet
  <1>4. RestFits
    BY Standing DEF RestFits, Replaying
  <1>5. a = 1 => Fits(new, tx')
    BY DEF Replaying
  <1> QED BY <1>1, <1>2, <1>3, <1>4, <1>5, EffectKeeps DEF Effect

LEMMA BeginReplayKeeps ==
    ASSUME ReportsInv, BeginReplay PROVE ReportsInv'
  <1> DEFINE todo == {[s |-> s, stopped |-> HasStop(s)] : s \in outbox}
  <1>1. /\ UNCHANGED vars /\ UNCHANGED <<told, shown, txShown, raced>>
        /\ NextRecord(Waiting(0), todo)
    BY Standing DEF BeginReplay
  <1>2. todo \in SUBSET Records
    <2>1. \A s : HasStop(s) \in BOOLEAN
      BY DEF HasStop
    <2>2. ASSUME NEW s \in outbox PROVE [s |-> s, stopped |-> HasStop(s)] \in Records
      BY <2>1, Standing DEF Records
    <2> QED BY <2>2
  <1>3. \A r \in todo : r.s \in outbox
    OBVIOUS
  <1>4. \A r \in todo : tx[r.s].state # "none"
    BY <1>3 DEF ReportsInv, BaseInv, Recorded
  <1> HIDE DEF todo
  <1>5. /\ pass' \subseteq todo
        /\ \E a \in {0, 1} : \E new : Moves(0, a, new) /\ Replaying(a, new)
    BY <1>1, <1>2, <1>4, Standing, NextRecordMoves
  <1>6. PICK a \in {0, 1} : \E new : Moves(0, a, new) /\ Replaying(a, new)
    BY <1>5
  <1>7. PICK new : Moves(0, a, new) /\ Replaying(a, new)
    BY <1>6
  <1>8. UNCHANGED <<connector, evseTx, tx>>
    BY <1>1 DEF vars
  <1>9. /\ told' \in [Connectors -> OcppStatuses \cup {None}]
        /\ \A c \in Connectors : told'[c] = told[c]
    BY <1>1, Standing
  <1>10. pass' \in SUBSET Records /\ \A r \in pass' : r \in pass \/ r.s \in outbox
    BY <1>2, <1>3, <1>5
  <1>11. \A s \in Starts : tx'[s].state = tx[s].state
    BY <1>8
  <1> QED BY <1>1, <1>7, <1>8, <1>9, <1>10, <1>11, ReplayKeeps

LEMMA ReplayedSettlesKeeps ==
    ASSUME ReportsInv, flights # <<>>, NEW f, f = Head(flights), NEW ok \in BOOLEAN, ReplayedSettles(f, ok)
    PROVE  ReportsInv'
  <1>1. /\ f = flights[1] /\ 1 <= Len(flights) /\ Waiting(1) = Tail(flights)
        /\ f.kind \in {"resumed", "replayed"} /\ f.was = None /\ f.rest = <<>>
    BY HeadIs DEF ReplayedSettles, Comparing
  <1>2. /\ UNCHANGED vars /\ UNCHANGED <<shown, txShown, raced>> /\ Tell(f, ok)
        /\ NextRecord(Waiting(1), pass)
    BY <1>1 DEF ReplayedSettles
  <1>3. pass \in SUBSET Records /\ \A r \in pass : tx[r.s].state # "none"
    BY Standing DEF ReportsInv, BaseInv, Recorded
  <1>4. /\ pass' \subseteq pass
        /\ \E a \in {0, 1} : \E new : Moves(1, a, new) /\ Replaying(a, new)
    BY <1>1, <1>2, <1>3, NextRecordMoves
  <1>5. PICK a \in {0, 1} : \E new : Moves(1, a, new) /\ Replaying(a, new)
    BY <1>4
  <1>6. PICK new : Moves(1, a, new) /\ Replaying(a, new)
    BY <1>5
  <1>7. UNCHANGED <<connector, evseTx, tx>>
    BY <1>2 DEF vars
  <1>8. /\ told' \in [Connectors -> OcppStatuses \cup {None}]
        /\ \A c \in Connectors :
             IF Reports(flights[1], c) THEN told'[c] \in {None, flights[1].status}
             ELSE told'[c] = told[c]
    BY <1>1, <1>2, TellIs DEF Telling
  <1>9. pass' \in SUBSET Records /\ \A r \in pass' : r \in pass \/ r.s \in outbox
    BY <1>3, <1>4
  <1>10. \A s \in Starts : tx'[s].state = tx[s].state
    BY <1>7
  <1>11. f.kind \in ReplayKinds
    BY <1>1 DEF ReplayKinds
  <1> QED BY <1>1, <1>2, <1>6, <1>7, <1>8, <1>9, <1>10, <1>11, ReplayKeeps

\* The head is a request of the replay that reports nothing.
LEMMA ReplayHead ==
    ASSUME ReportsInv, flights # <<>>, NEW f, f = Head(flights), f.kind \in {"replay", "replayStop"},
           told' = told
    PROVE  /\ f = flights[1] /\ 1 <= Len(flights) /\ Waiting(1) = Tail(flights)
           /\ f.s \in Starts /\ f.c \in Connectors /\ tx[f.s].at = f.c /\ tx[f.s].state # "none"
           /\ f.kind \in ReplayKinds /\ f.was = None /\ f.rest = <<>>
           /\ told' \in [Connectors -> OcppStatuses \cup {None}]
           /\ \A c : ~Reports(flights[1], c)
           /\ \A c \in Connectors :
                IF Reports(flights[1], c) THEN told'[c] \in {None, flights[1].status}
                ELSE told'[c] = told[c]
  <1>1. /\ f = flights[1] /\ 1 <= Len(flights) /\ Waiting(1) = Tail(flights)
        /\ f.s \in Starts /\ f.c \in Connectors /\ tx[f.s].at = f.c /\ tx[f.s].state # "none"
        /\ f.was = None /\ f.rest = <<>>
    BY HeadIs DEF OfTransaction, Comparing
  <1>2. \A c : ~Reports(flights[1], c)
    BY <1>1 DEF Reports, Telling
  <1> QED BY <1>1, <1>2, Standing DEF ReplayKinds

\* The replay gives up.
LEMMA GiveUpKeeps ==
    ASSUME ReportsInv, flights # <<>>, NEW f, f = Head(flights), f.kind \in {"replay", "replayStop"},
           GiveUp, UNCHANGED vars, UNCHANGED <<told, shown, txShown, raced>>
    PROVE  ReportsInv'
  <1>1. /\ f = flights[1] /\ 1 <= Len(flights) /\ Waiting(1) = Tail(flights)
        /\ f.kind \in ReplayKinds /\ f.was = None /\ f.rest = <<>>
        /\ told' \in [Connectors -> OcppStatuses \cup {None}]
        /\ \A c \in Connectors :
             IF Reports(flights[1], c) THEN told'[c] \in {None, flights[1].status}
             ELSE told'[c] = told[c]
    BY ReplayHead
  <1>2. UNCHANGED <<connector, evseTx, tx>>
    BY DEF vars
  <1>3. Moves(1, 0, None)
    BY <1>1, Standing, MovesWithout DEF GiveUp
  <1>4. Replaying(0, None)
    BY Standing DEF Replaying, GiveUp
  <1>5. pass' \in SUBSET Records /\ \A r \in pass' : r \in pass \/ r.s \in outbox
    BY DEF GiveUp
  <1>6. \A s \in Starts : tx'[s].state = tx[s].state
    BY <1>2
  <1> QED BY <1>1, <1>2, <1>3, <1>4, <1>5, <1>6, ReplayKeeps

LEMMA ReplayStopSettlesKeeps ==
    ASSUME ReportsInv, flights # <<>>, NEW f, f = Head(flights), NEW ok \in BOOLEAN, ReplayStopSettles(f, ok)
    PROVE  ReportsInv'
  <1> DEFINE s == f.s
             c == f.c
             new == Request("replayed", s, c, OcppStatusOf(c), None, <<>>)
  <1>0. /\ f.kind \in {"replay", "replayStop"} /\ UNCHANGED vars
        /\ UNCHANGED <<told, shown, txShown, raced>>
    BY DEF ReplayStopSettles
  <1>1. /\ f = flights[1] /\ 1 <= Len(flights) /\ Waiting(1) = Tail(flights)
        /\ s \in Starts /\ c \in Connectors /\ tx[s].at = c /\ tx[s].state # "none"
        /\ f.kind \in ReplayKinds /\ f.was = None /\ f.rest = <<>>
        /\ told' \in [Connectors -> OcppStatuses \cup {None}]
        /\ \A d \in Connectors :
             IF Reports(flights[1], d) THEN told'[d] \in {None, flights[1].status}
             ELSE told'[d] = told[d]
    BY <1>0, ReplayHead
  <1>2. CASE GiveUp
    BY <1>0, <1>2, GiveUpKeeps
  <1>3. CASE /\ flights' = Append(Waiting(1), new) /\ outbox' = outbox \ {s}
             /\ untold' = untold \ {c} /\ UNCHANGED pass
    <2>1. new \in Flights
      BY <1>1, StatusTyped, NoRest, RequestIs
    <2>2. /\ new.kind = "replayed" /\ new.s = s /\ new.c = c /\ new.status = OcppStatusOf(c)
          /\ new.was = None /\ new.rest = <<>>
      BY RequestHas
    <2> HIDE DEF new, s, c
    <2>3. UNCHANGED <<connector, evseTx, tx>>
      BY <1>0 DEF vars
    <2>4. Moves(1, 1, new)
      BY <1>1, <1>3, <2>1, Standing, MovesWith
    <2>5. Fits(new, tx')
      BY <1>1, <2>2, <2>3 DEF Fits, Comparing
    <2>6. Reports(new, c) /\ new.status = NextOcppStatus(c) /\ \A d : d # c => ~Reports(new, d)
      BY <2>2, <2>3 DEF Reports, Telling, NextOcppStatus, OcppStatusOf
    <2>7. Replaying(1, new)
      BY <1>3, <2>2, <2>5, <2>6, Standing DEF Replaying, ReplayKinds
    <2>8. pass' \in SUBSET Records /\ \A r \in pass' : r \in pass \/ r.s \in outbox
      BY <1>3, Standing
    <2>9. \A t \in Starts : tx'[t].state = tx[t].state
      BY <2>3
    <2> QED BY <1>0, <1>1, <2>3, <2>4, <2>7, <2>8, <2>9, ReplayKeeps
  <1> QED BY <1>1, <1>2, <1>3 DEF ReplayStopSettles

LEMMA ReplaySettlesKeeps ==
    ASSUME ReportsInv, flights # <<>>, NEW f, f = Head(flights), NEW ok \in BOOLEAN, ReplaySettles(f, ok)
    PROVE  ReportsInv'
  <1> DEFINE s == f.s
             c == f.c
  <1>0. f.kind \in {"replay", "replayStop"} /\ f.kind = "replay" /\ told' = told
    BY DEF ReplaySettles
  <1>1. /\ f = flights[1] /\ 1 <= Len(flights) /\ Waiting(1) = Tail(flights)
        /\ s \in Starts /\ c \in Connectors /\ tx[s].at = c /\ tx[s].state # "none"
        /\ f.kind \in ReplayKinds /\ f.was = None /\ f.rest = <<>>
        /\ told' \in [Connectors -> OcppStatuses \cup {None}]
        /\ \A d : ~Reports(flights[1], d)
        /\ \A d \in Connectors :
             IF Reports(flights[1], d) THEN told'[d] \in {None, flights[1].status}
             ELSE told'[d] = told[d]
    BY <1>0, ReplayHead
  <1>2. CASE GiveUp /\ UNCHANGED <<vars, shown, txShown, raced>>
    BY <1>0, <1>2, GiveUpKeeps
  <1>3. ASSUME NEW accepted \in BOOLEAN, ReplayStartAnswered(s, accepted), pass' = pass,
               IF ~accepted /\ StopTransactionOnInvalidId /\ tx[s].state = "active"
               THEN DeauthorizedStop(f) ELSE UNCHANGED <<shown, txShown, raced>>,
               IF (~accepted /\ StopTransactionOnInvalidId) \/ (accepted /\ f.status = None)
               THEN /\ flights' = Append(Waiting(1), Request("replayStop", s, c, None, None, <<>>))
                    /\ untold' = IF ~accepted /\ StopTransactionOnInvalidId /\ tx[s].state = "active"
                                 THEN untold \cup {c} ELSE untold
                    /\ UNCHANGED outbox
               ELSE Resume(Waiting(1), s)
        PROVE  ReportsInv'
    <2>1. [Next]_vars
      BY <1>1, <1>3 DEF Next
    <2>2. /\ UNCHANGED connector /\ ~tx[s].bound /\ tx[s].state \in {"active", "ended"}
          /\ ConnectorTypeOK
      BY <1>3 DEF ReplayStartAnswered, ReportsInv, BaseInv
    <2>3. Progress
      BY <2>1, <2>2, ProgressKept
    <2>4. Replayable(s)
      BY <1>1, <2>3 DEF Replayable, Progress
    <2>5. pass' \in SUBSET Records /\ \A r \in pass' : r \in pass \/ r.s \in outbox
      BY <1>3, Standing
    <2>6. CASE ~accepted /\ StopTransactionOnInvalidId /\ tx[s].state = "active"
      <3> DEFINE new == Request("replayStop", s, c, None, None, <<>>)
      <3>1. /\ DeauthorizedStop(f) /\ flights' = Append(Waiting(1), new)
            /\ untold' = untold \cup {c} /\ UNCHANGED outbox
        BY <1>3, <2>6
      <3>2. new \in Flights
        BY <1>1, NoRest, RequestIs
      <3>3. /\ new.kind = "replayStop" /\ new.s = s /\ new.c = c /\ new.was = None /\ new.rest = <<>>
        BY RequestHas
      <3> HIDE DEF new
      <3>4. txShown' = [txShown EXCEPT ![s] = "ended"] /\ Emit(c, StatusOf(c), Waiting(1))
        BY <1>1, <3>1 DEF DeauthorizedStop, ShowTransaction
      <3>5. /\ txShown'[s] = "ended" /\ \A t \in Starts : t # s => txShown'[t] = txShown[t]
            /\ txShown' \in [Starts -> {"none", "active", "ended"}]
        BY <1>1, <3>4, Standing
      <3>6. UNCHANGED <<shown, raced>>
        BY <2>2, <3>4, SameConnectors DEF Emit, StatusOf
      <3>7. End(s, [tx EXCEPT ![s].bound = TRUE])
        BY <1>3, <2>6 DEF ReplayStartAnswered
      <3>8. /\ tx'[s].state = "ended" /\ \A t \in Starts : t # s => tx'[t] = tx[t]
            /\ \A d \in Connectors : d # c => evseTx'[d] = evseTx[d]
        <4> HIDE DEF s, c
        <4> DEFINE bound == [tx EXCEPT ![s].bound = TRUE]
        <4>0. tx \in [Starts -> [state : {"none", "sending", "refused", "active", "ended"},
                                 at : Connectors \cup {None}, bound : BOOLEAN]]
          BY Standing
        <4>1. /\ bound \in [Starts -> [state : {"none", "sending", "refused", "active", "ended"},
                                       at : Connectors \cup {None}, bound : BOOLEAN]]
              /\ \A t \in Starts : t # s => bound[t] = tx[t]
          BY <4>0
        <4>2. tx' = [bound EXCEPT ![s].state = "ended"] /\ evseTx' = [evseTx EXCEPT ![c] = None]
          BY <1>1, <3>7 DEF End
        <4> HIDE DEF bound
        <4> QED BY <1>1, <4>1, <4>2, Standing
      <3> HIDE DEF s, c
      <3>9. Moves(1, 1, new)
        BY <1>1, <3>1, <3>2, Standing, MovesWith
      <3>10. Fits(new, tx')
        BY <1>1, <2>4, <3>3 DEF Fits, Comparing, Replayable
      <3>11. RunningEffect(1, 1, new)
        BY <1>0, <1>1, <2>2, <3>3, <3>5, <3>8 DEF RunningEffect, Ending
      <3>12. ToldEffect(1, 1, new)
        <4>1. \A d \in Connectors : d # c => NextOcppStatus(d) = OcppStatusOf(d)
          BY <2>2, <3>8 DEF NextOcppStatus, OcppStatusOf
        <4>2. \A d : ~Reports(new, d) /\ ~WillReport(flights[1], d, OcppStatusOf(d))
          BY <1>0, <1>1, <3>3, NoRest DEF Reports, WillReport, Telling
        <4> QED BY <1>1, <3>1, <4>1, <4>2 DEF ToldEffect
      <3>13. ShownEffect(1, 1, new)
        BY <1>1, <2>2, <3>3, <3>6, ShownQuiet
      <3>14. RestFits
        BY <1>1, <2>5, <3>1, <3>5, <3>6, Standing DEF RestFits
      <3> QED BY <2>1, <3>9, <3>10, <3>11, <3>12, <3>13, <3>14, EffectKeeps DEF Effect
    <2>7. CASE ~(~accepted /\ StopTransactionOnInvalidId /\ tx[s].state = "active")
      <3>1. UNCHANGED <<shown, txShown, raced>> /\ UNCHANGED evseTx /\ tx' = [tx EXCEPT ![s].bound = TRUE]
        BY <1>3, <2>7 DEF ReplayStartAnswered
      <3>2. \A t \in Starts : tx'[t].state = tx[t].state
        BY <3>1, Standing
      <3> HIDE DEF s, c
      <3>3. \E new : Moves(1, 1, new) /\ Replaying(1, new)
        <4>1. CASE (~accepted /\ StopTransactionOnInvalidId) \/ (accepted /\ f.status = None)
          <5>1. /\ flights' = Append(Waiting(1), Request("replayStop", s, tx[s].at, None, None, <<>>))
                /\ UNCHANGED <<outbox, untold>>
            BY <1>1, <1>3, <2>7, <4>1
          <5> QED BY <1>1, <2>4, <5>1, ReplayMoves
        <4>2. CASE Resume(Waiting(1), s)
          BY <1>1, <2>4, <4>2, ResumeMoves
        <4> QED BY <1>3, <4>1, <4>2
      <3>4. PICK new : Moves(1, 1, new) /\ Replaying(1, new)
        BY <3>3
      <3> QED BY <1>1, <2>1, <2>2, <2>5, <3>1, <3>2, <3>4, ReplayKeeps
    <2> QED BY <2>6, <2>7
  <1>4. ASSUME NEW accepted \in BOOLEAN, ok,
               ReplayStartAnswered(s, accepted), pass' = pass,
               IF ~accepted /\ StopTransactionOnInvalidId /\ tx[s].state = "active"
               THEN DeauthorizedStop(f) ELSE UNCHANGED <<shown, txShown, raced>>,
               IF (~accepted /\ StopTransactionOnInvalidId) \/ (accepted /\ f.status = None)
               THEN /\ flights' = Append(Tail(flights), Request("replayStop", s, c, None, None, <<>>))
                    /\ Unsaid(c, FALSE, ~accepted /\ StopTransactionOnInvalidId /\ tx[s].state = "active")
                    /\ UNCHANGED outbox
               ELSE Resume(Tail(flights), s)
        PROVE  ReportsInv'
    <2>1. Tail(flights) = Waiting(1)
      BY <1>1
    <2> HIDE DEF s, c
    <2> QED BY <1>3, <1>4, <2>1 DEF Unsaid
  <1> QED BY <1>2, <1>4 DEF ReplaySettles

LEMMA SettlesKeep ==
    ASSUME ReportsInv, Settles PROVE ReportsInv'
  <1>1. flights # <<>>
    BY DEF Settles
  <1>2. PICK ok \in BOOLEAN :
          LET f == Head(flights)
          IN \/ StartSettles(f, ok) \/ ChargingSettles(f, ok) \/ FinishingSettles(f, ok)
             \/ StopSettles(f) \/ StoppedSettles(f, ok) \/ ChangeSettles(f, ok)
             \/ ApplySettles(f, ok) \/ SnapshotSettles(f, ok) \/ PlugSettles(f, ok)
             \/ ReplaySettles(f, ok) \/ ReplayStopSettles(f, ok) \/ ReplayedSettles(f, ok)
    BY DEF Settles
  <1> QED
    BY <1>1, <1>2, StartSettlesKeeps, ChargingSettlesKeeps, FinishingSettlesKeeps, StopSettlesKeeps,
       StoppedSettlesKeeps, ChangeSettlesKeeps, ApplySettlesKeeps, SnapshotSettlesKeeps,
       PlugSettlesKeeps, ReplaySettlesKeeps, ReplayStopSettlesKeeps, ReplayedSettlesKeeps

LEMMA ReportsInductive == ReportsInv /\ [ReportsNext]_allVars => ReportsInv'
  <1> SUFFICES ASSUME ReportsInv, [ReportsNext]_allVars PROVE ReportsInv'
    OBVIOUS
  <1>1. CASE \E s \in Starts, c \in Connectors : ReportsBeginStart(s, c) \/ ReportsStartOffline(s, c)
    BY <1>1, BeginStartKeeps, StartOfflineKeeps
  <1>2. CASE \E s \in Starts : ReportsBeginStop(s) \/ ReportsStopOffline(s) \/ OfflineReading(s)
    BY <1>2, BeginStopKeeps, StopOfflineKeeps, OfflineReadingKeeps
  <1>3. CASE \E c \in Connectors : ReportsPlug(c) \/ ReportsUnplug(c) \/ ReportConnectorStatus(c)
    BY <1>3, PlugKeeps, UnplugKeeps, SnapshotKeeps
  <1>4. CASE \/ \E c \in Connectors, availability \in Availability :
                  ReportsChangeAvailability(c, availability)
             \/ \E availability \in Availability : ReportsChangePoint(availability)
    BY <1>4, ChangeAvailabilityKeeps, ChangePointKeeps
  <1>5. CASE BeginReplay
    BY <1>5, BeginReplayKeeps
  <1>6. CASE Settles
    BY <1>6, SettlesKeep
  <1>7. CASE ReportsConnectionChanges \/ \E accepted \in BOOLEAN : ReportsBootAnswered(accepted)
    <2>1. /\ ConnectionChanges \/ \E accepted \in BOOLEAN : BootAnswered(accepted)
          /\ UNCHANGED reportVars
      BY <1>7 DEF ReportsConnectionChanges, ReportsBootAnswered
    <2>2. [Next]_vars
      BY <2>1 DEF Next
    <2>3. UNCHANGED <<connector, evseTx, tx>>
      BY <2>1 DEF ConnectionChanges, BootAnswered
    <2> QED BY <2>1, <2>2, <2>3, AloneReports
  <1>8. CASE UNCHANGED allVars
    <2>1. UNCHANGED vars /\ UNCHANGED reportVars
      BY <1>8 DEF allVars
    <2>2. UNCHANGED <<connector, evseTx, tx>>
      BY <2>1 DEF vars
    <2> QED BY <2>1, <2>2, AloneReports
  <1> QED BY <1>1, <1>2, <1>3, <1>4, <1>5, <1>6, <1>7, <1>8 DEF ReportsNext

LEMMA ReportsBegin == ReportsInit => ReportsInv
  <1> SUFFICES ASSUME ReportsInit PROVE ReportsInv
    OBVIOUS
  <1>1. /\ Init /\ flights = <<>> /\ outbox = {} /\ pass = {} /\ untold = {} /\ raced = {}
        /\ told = [c \in Connectors |-> None] /\ shown = [c \in Connectors |-> None]
        /\ txShown = [s \in Starts |-> "none"]
    BY DEF ReportsInit
  <1>2. tx = [s \in Starts |-> [state |-> "none", at |-> None, bound |-> FALSE]]
    BY <1>1 DEF Init
  <1>3. ConnectorTypeOK
    BY <1>1, TypeInit
  <1>4. LastCommandDecides
    BY <1>1 DEF Init, LastCommandDecides
  <1>5. flights \in Seq(Flights) /\ DOMAIN flights = {}
    BY <1>1
  <1>6. ReportsTypeOK
    BY <1>1, <1>5 DEF ReportsTypeOK
  <1>7. Begun /\ Recorded /\ FlightsFit
    BY <1>1, <1>2, <1>5 DEF Begun, Recorded, FlightsFit
  <1>8. RunningInv
    BY <1>1, <1>2, <1>5 DEF RunningInv, StartsToShow
  <1>9. ToldInv
    BY <1>1, <1>5 DEF ToldInv, LastReportIs
  <1>10. ShownInv
    BY <1>1, <1>5 DEF ShownInv
  <1> QED BY <1>3, <1>4, <1>6, <1>7, <1>8, <1>9, <1>10 DEF ReportsInv, BaseInv

\* The inductive invariant: what waits in the queue makes up for what the CSMS and
\* the web have not been told yet.
THEOREM ReportsCorrect == ReportsSpec => []ReportsInv
  BY ReportsBegin, ReportsInductive, PTL DEF ReportsSpec

\* Reports and events are typed: a request names a transaction and a connector, or neither.
THEOREM ReportsTypes == ReportsSpec => []ReportsTypeOK
  <1>1. ReportsInv => ReportsTypeOK
    BY DEF ReportsInv, BaseInv
  <1> QED BY <1>1, ReportsCorrect, PTL

-----------------------------------------------------------------------------
(* StatusReports implements ConnectorOperations. *)

LEMMA HeadOperates ==
    ASSUME ReportsInv, flights # <<>>, NEW f, f = Head(flights), f.kind \in OfTransaction
    PROVE  f.s \in Starts
  BY HeadIs

LEMMA SettlesOperates ==
    ASSUME ReportsInv, Settles PROVE [Next]_vars
  <1> DEFINE f == Head(flights)
  <1>1. flights # <<>>
    BY DEF Settles
  <1>2. PICK ok \in BOOLEAN :
             \/ StartSettles(f, ok) \/ ChargingSettles(f, ok) \/ FinishingSettles(f, ok)
             \/ StopSettles(f) \/ StoppedSettles(f, ok) \/ ChangeSettles(f, ok)
             \/ ApplySettles(f, ok) \/ SnapshotSettles(f, ok) \/ PlugSettles(f, ok)
             \/ ReplaySettles(f, ok) \/ ReplayStopSettles(f, ok) \/ ReplayedSettles(f, ok)
    BY DEF Settles
  <1>3. f.kind \in OfTransaction => f.s \in Starts
    BY <1>1, HeadOperates
  <1> HIDE DEF f
  <1>4. CASE StartSettles(f, ok) \/ FinishingSettles(f, ok) \/ StopSettles(f)
    <2>1. f.s \in Starts
      BY <1>3, <1>4 DEF StartSettles, FinishingSettles, StopSettles, OfTransaction
    <2>2. StartAccepted(f.s) \/ StartRefused(f.s) \/ StopNotified(f.s) \/ StopAnswered(f.s)
      BY <1>4 DEF StartSettles, FinishingSettles, StopSettles
    <2> QED BY <2>1, <2>2 DEF Next
  <1>5. CASE ReplaySettles(f, ok)
    <2>1. f.s \in Starts
      BY <1>3, <1>5 DEF ReplaySettles, OfTransaction
    <2>2. UNCHANGED vars \/ \E accepted \in BOOLEAN : ReplayStartAnswered(f.s, accepted)
      BY <1>5 DEF ReplaySettles
    <2> QED BY <2>1, <2>2 DEF Next
  <1>6. CASE \/ ChargingSettles(f, ok) \/ StoppedSettles(f, ok) \/ ChangeSettles(f, ok)
             \/ ApplySettles(f, ok) \/ SnapshotSettles(f, ok) \/ PlugSettles(f, ok)
             \/ ReplayStopSettles(f, ok) \/ ReplayedSettles(f, ok)
    BY <1>6 DEF ChargingSettles, StoppedSettles, ChangeSettles, ApplySettles, SnapshotSettles,
       PlugSettles, ReplayStopSettles, ReplayedSettles
  <1> QED BY <1>2, <1>4, <1>5, <1>6

LEMMA StepsOperate ==
    ASSUME ReportsInv, [ReportsNext]_allVars PROVE [Next]_vars
  <1>1. CASE \E s \in Starts, c \in Connectors : ReportsBeginStart(s, c) \/ ReportsStartOffline(s, c)
    BY <1>1 DEF ReportsBeginStart, ReportsStartOffline, Next
  <1>2. CASE \E s \in Starts : ReportsBeginStop(s) \/ ReportsStopOffline(s) \/ OfflineReading(s)
    BY <1>2 DEF ReportsBeginStop, ReportsStopOffline, OfflineReading, Next
  <1>3. CASE \E c \in Connectors : ReportsPlug(c) \/ ReportsUnplug(c) \/ ReportConnectorStatus(c)
    BY <1>3 DEF ReportsPlug, ReportsUnplug, ReportConnectorStatus, Next
  <1>4. CASE \/ \E c \in Connectors, availability \in Availability :
                  ReportsChangeAvailability(c, availability)
             \/ \E availability \in Availability : ReportsChangePoint(availability)
    BY <1>4 DEF ReportsChangeAvailability, ReportsChangePoint, Next
  <1>5. CASE BeginReplay
    BY <1>5 DEF BeginReplay
  <1>6. CASE Settles
    BY <1>6, SettlesOperates
  <1>7. CASE ReportsConnectionChanges \/ \E accepted \in BOOLEAN : ReportsBootAnswered(accepted)
    BY <1>7 DEF ReportsConnectionChanges, ReportsBootAnswered, Next
  <1>8. CASE UNCHANGED allVars
    BY <1>8 DEF allVars
  <1> QED BY <1>1, <1>2, <1>3, <1>4, <1>5, <1>6, <1>7, <1>8 DEF ReportsNext

\* A connector with its reports, events and replays is a connector of ConnectorOperations:
\* what is proved of it there, that the last command decides, say, holds of it.
THEOREM ReportsAreOperations == ReportsSpec => Spec
  <1>1. ReportsInit => Init
    BY DEF ReportsInit
  <1> QED BY <1>1, StepsOperate, ReportsCorrect, PTL DEF ReportsSpec, Spec

\* Whatever overtakes what in startTransaction, stopTransaction, the commands and the
\* replay: when nothing is under way the web shows each connector as it is, unless
\* ChangeAvailability came under a transaction or another report of it.
THEOREM WebShowsConnectors == ReportsSpec => []ShownAsItIs
  <1>1. ReportsInv => ShownAsItIs
    BY DEF ReportsInv, ShownInv, ShownAsItIs
  <1> QED BY <1>1, ReportsCorrect, PTL

\* When nothing is under way emitTransactionStatus has shown the web the transactions
\* that run, and no others.
THEOREM WebShowsTransactions == ReportsSpec => []RunningIsShown
  <1>1. ReportsInv => RunningIsShown
    BY DEF ReportsInv, RunningInv, RunningIsShown, StartsToShow, EndsToShow
  <1> QED BY <1>1, ReportsCorrect, PTL

\* When nothing is under way the CSMS knows the status of each connector whose last
\* change was reported to it, in whatever order its StatusNotifications were made.
THEOREM CsmsIsTold == ReportsSpec => []ToldAsItIs
  <1>1. ReportsInv => ToldAsItIs
    BY DEF ReportsInv, ToldInv, ToldAsItIs, LastReportIs
  <1> QED BY <1>1, ReportsCorrect, PTL

=============================================================================
