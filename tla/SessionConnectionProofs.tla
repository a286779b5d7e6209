----------------------- MODULE SessionConnectionProofs -----------------------
(***************************************************************************)
(* Proofs that the session and its transport stay together in every        *)
(* behaviour of SessionConnection, for any number of attempts, that the    *)
(* session implements ConnectionContract, and that the actor over it, with *)
(* any number of coroutines, is silent once it is stopped and gets on      *)
(* while it starts.                                                        *)
(***************************************************************************)
EXTENDS ActorLifecycle, TLAPS

\* The operations of the lifecycle machine are those of its phase.
OperationsNamed ==
    /\ session.connect <=> session.phase = "connecting"
    /\ session.reconnect <=> session.phase = "reconnecting"
    /\ session.disconnect <=> session.phase = "disconnecting"

\* What a continuation of S may wait for, or was told, when the transport is at
\* t and an error check is queued or not.
Told(S, t, check) ==
    \A w \in S :
        /\ w.outcome = "pending" =>
             IF w.flow = "disconnect" THEN t.disconnect = "pending" ELSE t.connect = "pending"
        /\ w.live /\ w.outcome = "resolved" /\ w.flow # "disconnect" =>
             t.state = "connected" /\ ~check
        /\ w.live /\ w.outcome = "rejected" /\ w.flow # "disconnect" => t.state = "disconnected"
        /\ w.live /\ w.outcome # "pending" /\ w.flow = "disconnect" => t.state = "disconnected"

ContinuationsTold == Told(awaiting, transport, errorCheck)

LiveIn(S, flow) == \E w \in S : w.live /\ w.flow = flow

OneLive(S) == \A v, w \in S : v.live /\ w.live /\ v.flow = w.flow => v = w

\* PhaseHasDriver of a phase, a timer and a set of continuations.
HasDriver(phase, timer, S) ==
    /\ phase = "connecting" <=> LiveIn(S, "connect")
    /\ phase = "disconnecting" <=> LiveIn(S, "disconnect")
    /\ phase = "reconnecting" <=> (timer \/ LiveIn(S, "attempt"))
    /\ ~(timer /\ LiveIn(S, "attempt"))
    /\ OneLive(S)

TransportSound == TransportTypeOK /\ TransportConsistent

\* The inductive invariant.  OperationsNamed and ContinuationsTold are what the
\* four properties need to be kept.
SessionSound ==
    /\ SessionTypeOK
    /\ OperationsNamed
    /\ ContinuationsTold
    /\ PhaseHasDriver
    /\ SocketFollowsSession
    /\ WishRespected

IInv == TransportSound /\ SessionSound

-----------------------------------------------------------------------------
(* The transport. *)

\* What an event does to the promises and to the state.
EventEffect ==
    /\ transport.connect = "pending" => transport'.connect \in {"pending", "resolved", "rejected"}
    /\ transport.disconnect = "pending" =>
         transport'.disconnect \in {"pending", "resolved", "rejected"}
    /\ transport.connect = "pending" /\ transport'.connect = "resolved" =>
         transport'.state = "connected" /\ ~errorCheck'
    /\ transport.connect = "pending" /\ transport'.connect = "rejected" =>
         transport'.state = "disconnected"
    /\ transport.disconnect = "pending" /\ transport'.disconnect # "pending" =>
         transport'.state = "disconnected"
    /\ transport.state = "disconnected" => transport'.state = "disconnected"
    /\ transport.state = "connected" => transport'.state \in {"connected", "disconnected"}
    /\ transport.state = "disconnecting" => transport'.state \in {"disconnecting", "disconnected"}
    /\ transport.state = "connecting" => transport'.state # "disconnecting"

\* An open event keeps the transport consistent and settles only connect().
LEMMA OpenSound ==
    ASSUME TransportSound, HandleOpen
    PROVE  TransportSound' /\ EventEffect
<1>1. CASE transport.state = "connecting"
  <2>1. /\ transport' = [transport EXCEPT !.state = "connected", !.connect = "resolved"]
        /\ socket' = "open" /\ connectTimer' = FALSE /\ errorCheck' = errorCheck
    BY <1>1 DEF TransportSound, TransportConsistent, HandleOpen
  <2> QED
    BY <1>1, <2>1 DEF TransportSound, TransportTypeOK, TransportConsistent, EventEffect,
                      States, Promises, SocketStates
<1>2. CASE transport.state # "connecting"
  <2>1. transport.state = "disconnecting" /\ socket = "connecting" /\ connectTimer' = FALSE
    BY <1>2 DEF HandleOpen
  <2>2. CASE transport' = transport /\ socket' = "closing" /\ errorCheck' = errorCheck
    BY <2>1, <2>2 DEF TransportSound, TransportTypeOK, TransportConsistent, EventEffect,
                      States, Promises, SocketStates
  <2>3. CASE /\ transport' = [transport EXCEPT !.disconnect = "rejected",
                                              !.state = "disconnected"]
             /\ socket' = "none" /\ errorCheck' = FALSE
    BY <2>1, <2>3 DEF TransportSound, TransportTypeOK, TransportConsistent, EventEffect,
                      States, Promises, SocketStates
  <2> QED
    BY <1>2, <2>1, <2>2, <2>3 DEF HandleOpen, SettleDisconnect, TransportSound,
                                  TransportConsistent
<1> QED
  BY <1>1, <1>2

\* So does an error.
LEMMA ErrorSound ==
    ASSUME TransportSound, HandleError
    PROVE  TransportSound' /\ EventEffect
<1>1. CASE transport.state = "connecting"
  <2>1. /\ transport' = [transport EXCEPT !.connect = "rejected", !.state = "disconnected"]
        /\ socket' = "none" /\ connectTimer' = FALSE /\ errorCheck' = FALSE
    BY <1>1 DEF TransportSound, TransportConsistent, HandleError, FailConnect, ReleaseSocket
  <2> QED
    BY <1>1, <2>1 DEF TransportSound, TransportTypeOK, TransportConsistent, EventEffect,
                      States, Promises, SocketStates
<1>2. CASE transport.state # "connecting"
  <2>1. /\ transport.state = "connected" /\ transport' = transport
        /\ connectTimer' = connectTimer /\ errorCheck' = TRUE
        /\ socket' \in {"open", "closing"}
    BY <1>2 DEF HandleError
  <2> QED
    BY <2>1 DEF TransportSound, TransportTypeOK, TransportConsistent, EventEffect, SocketStates
<1> QED
  BY <1>1, <1>2

\* So does the microtask of an error.
LEMMA CheckSound ==
    ASSUME TransportSound, ErrorChecked
    PROVE  TransportSound' /\ EventEffect
<1>1. CASE transport.state = "connected" /\ socket # "open"
  <2>1. /\ transport' = [transport EXCEPT !.state = "disconnected"]
        /\ socket' = "none" /\ connectTimer' = FALSE /\ errorCheck' = FALSE
    BY <1>1 DEF ErrorChecked, ReleaseSocket
  <2> QED
    BY <1>1, <2>1 DEF TransportSound, TransportTypeOK, TransportConsistent, EventEffect,
                      States, Promises, SocketStates
<1>2. CASE ~(transport.state = "connected" /\ socket # "open")
  <2>1. /\ transport' = transport /\ socket' = socket
        /\ connectTimer' = connectTimer /\ errorCheck' = FALSE
    BY <1>2 DEF ErrorChecked
  <2> QED
    BY <2>1 DEF TransportSound, TransportTypeOK, TransportConsistent, EventEffect,
                States, Promises, SocketStates
<1> QED
  BY <1>1, <1>2

\* So does a close.
LEMMA CloseSound ==
    ASSUME TransportSound, HandleClose
    PROVE  TransportSound' /\ EventEffect
  BY DEF TransportSound, TransportTypeOK, TransportConsistent, EventEffect, HandleClose,
         FailConnect, SettleDisconnect, ReleaseSocket, States, Promises, SocketStates

\* So does the connect timeout.
LEMMA TimeoutSound ==
    ASSUME TransportSound, ConnectTimesOut
    PROVE  TransportSound' /\ EventEffect
  BY DEF TransportSound, TransportTypeOK, TransportConsistent, EventEffect, ConnectTimesOut,
         FailConnect, ReleaseSocket, States, Promises, SocketStates

\* So does every event of the socket.
LEMMA EventSound ==
    ASSUME TransportSound, SocketEvent \/ ErrorChecked
    PROVE  TransportSound' /\ EventEffect
  BY OpenSound, ErrorSound, CheckSound, CloseSound, TimeoutSound DEF SocketEvent

\* connect() of a transport that is disconnected: the promise is pending with
\* a socket on its way, or rejected.
LEMMA ConnectSound ==
    ASSUME NEW outcome, TransportSound, transport.state = "disconnected", TransportConnect(outcome)
    PROVE  /\ TransportSound'
           /\ outcome \in {"pending", "rejected"}
           /\ transport.connect # "pending" /\ transport.disconnect # "pending"
           /\ outcome = "pending" => transport'.connect = "pending"
           /\ outcome = "rejected" => transport'.state = "disconnected"
           /\ transport'.state \in {"connecting", "disconnected"}
  BY DEF TransportSound, TransportTypeOK, TransportConsistent, TransportConnect, StartConnect,
         States, Promises, SocketStates

\* requestSocketClose, with a machine that has begun to disconnect: the promise
\* is pending while a socket closes, or settled.
LEMMA RequestCloseSound ==
    ASSUME NEW t \in [state : States, connect : Promises, disconnect : Promises],
           TransportSound, transport.state \in {"connecting", "connected"},
           t.state = "disconnecting", t.disconnect = "pending", t.connect # "pending",
           RequestSocketClose(t)
    PROVE  /\ TransportSound'
           /\ transport'.disconnect \in {"pending", "resolved", "rejected"}
           /\ transport'.disconnect # "pending" => transport'.state = "disconnected"
           /\ transport'.state \in {"disconnecting", "disconnected"}
           /\ transport'.connect = t.connect
  BY DEF TransportSound, TransportTypeOK, TransportConsistent, RequestSocketClose,
         SettleDisconnect, ReleaseSocket, States, Promises, SocketStates

\* disconnect() of a transport that is not disconnecting.
LEMMA DisconnectSound ==
    ASSUME NEW outcome, TransportSound, transport.state # "disconnecting",
           TransportDisconnect(outcome)
    PROVE  /\ TransportSound'
           /\ outcome \in {"pending", "resolved", "rejected"}
           /\ transport.disconnect # "pending"
           /\ transport.connect = "pending" => transport'.connect = "rejected"
           /\ outcome = "pending" => transport'.disconnect = "pending"
           /\ outcome # "pending" => transport'.state = "disconnected"
           /\ transport'.state \in {"disconnecting", "disconnected"}
<1>1. CASE transport.state = "disconnected"
  BY <1>1 DEF TransportSound, TransportTypeOK, TransportConsistent, TransportDisconnect,
     transportVars
<1>2. CASE transport.state # "disconnected"
  <2> DEFINE t == IF transport.state = "connecting"
                  THEN InterruptConnect(transport) ELSE BeginDisconnect(transport)
  <2>1. transport.state \in {"connecting", "connected"}
    BY <1>2 DEF TransportSound, TransportTypeOK, States
  <2>2. /\ t \in [state : States, connect : Promises, disconnect : Promises]
        /\ t.state = "disconnecting" /\ t.disconnect = "pending" /\ t.connect # "pending"
        /\ transport.connect = "pending" => t.connect = "rejected"
        /\ transport.disconnect # "pending"
    BY <2>1 DEF TransportSound, TransportTypeOK, TransportConsistent, InterruptConnect,
                BeginDisconnect, States, Promises
  <2>3. RequestSocketClose(t) /\ outcome = transport'.disconnect
    BY <2>1 DEF TransportDisconnect
  <2> HIDE DEF t
  <2> QED
    BY <2>1, <2>2, <2>3, RequestCloseSound
<1> QED
  BY <1>1, <1>2

-----------------------------------------------------------------------------
(* Sets of continuations. *)

\* PhaseHasDriver speaks of the phase, the timer and the live continuations.
LEMMA PhaseHasDriverIs ==
    PhaseHasDriver <=> HasDriver(session.phase, reconnectTimer, awaiting)
  BY DEF PhaseHasDriver, HasDriver, Driven, LiveIn, OneLive

\* Orphaned leaves the other flows alone and none live of its own.
LEMMA OrphanedIs ==
    ASSUME NEW S \in SUBSET Continuations, NEW flow, NEW t, NEW check
    PROVE  /\ Orphaned(flow, S) \subseteq Continuations
           /\ ~LiveIn(Orphaned(flow, S), flow)
           /\ \A g : g # flow => (LiveIn(Orphaned(flow, S), g) <=> LiveIn(S, g))
           /\ OneLive(S) => OneLive(Orphaned(flow, S))
           /\ Told(S, t, check) => Told(Orphaned(flow, S), t, check)
           /\ \A v \in Orphaned(flow, S) : v.live => v \in S
<1> DEFINE O(w) == [w EXCEPT !.live = @ /\ w.flow # flow]
<1>1. Orphaned(flow, S) = {O(w) : w \in S}
  BY DEF Orphaned
<1>2. ASSUME NEW w \in S
      PROVE  /\ O(w) \in Continuations
             /\ O(w).flow = w.flow /\ O(w).outcome = w.outcome
             /\ O(w).live <=> w.live /\ w.flow # flow
             /\ O(w).live => O(w) = w
  BY DEF Continuations
<1> HIDE DEF O
<1>3. Orphaned(flow, S) \subseteq Continuations
  BY <1>1, <1>2
<1>4. ~LiveIn(Orphaned(flow, S), flow)
  BY <1>1, <1>2 DEF LiveIn
<1>5. ASSUME NEW g, g # flow PROVE LiveIn(Orphaned(flow, S), g) <=> LiveIn(S, g)
  BY <1>1, <1>2, <1>5 DEF LiveIn
<1>6. \A v \in Orphaned(flow, S) : v.live => v \in S
  BY <1>1, <1>2
<1>7. OneLive(S) => OneLive(Orphaned(flow, S))
  BY <1>6 DEF OneLive
<1>8. Told(S, t, check) => Told(Orphaned(flow, S), t, check)
  BY <1>1, <1>2 DEF Told
<1> QED
  BY <1>3, <1>4, <1>5, <1>6, <1>7, <1>8

\* Waking tells each continuation the outcome of what it awaits and changes
\* neither its flow nor whether it is live.
LEMMA WokenIs ==
    ASSUME NEW S \in SUBSET Continuations,
           transport.connect = "pending" => transport'.connect \in {"pending", "resolved", "rejected"},
           transport.disconnect = "pending" =>
             transport'.disconnect \in {"pending", "resolved", "rejected"}
    PROVE  /\ Woken(S) \subseteq Continuations
           /\ \A g : LiveIn(Woken(S), g) <=> LiveIn(S, g)
           /\ OneLive(S) => OneLive(Woken(S))
           /\ \A v \in Woken(S) : \E w \in S :
                /\ v.flow = w.flow /\ (v.live <=> w.live)
                /\ w.outcome # "pending" => v.outcome = w.outcome
                /\ w.outcome = "pending" /\ w.flow = "disconnect" /\ transport.disconnect = "pending"
                     => v.outcome = transport'.disconnect
                /\ w.outcome = "pending" /\ w.flow # "disconnect" /\ transport.connect = "pending"
                     => v.outcome = transport'.connect
<1> DEFINE K(w) ==
      [w EXCEPT !.outcome =
        IF @ # "pending" THEN @
        ELSE IF w.flow = "disconnect"
             THEN IF transport.disconnect = "pending" THEN transport'.disconnect ELSE @
             ELSE IF transport.connect = "pending" THEN transport'.connect ELSE @]
<1>1. Woken(S) = {K(w) : w \in S}
  BY DEF Woken
<1>2. ASSUME NEW w \in S
      PROVE  /\ K(w) \in Continuations
             /\ K(w).flow = w.flow /\ (K(w).live <=> w.live)
             /\ w.outcome # "pending" => K(w).outcome = w.outcome
             /\ w.outcome = "pending" /\ w.flow = "disconnect" /\ transport.disconnect = "pending"
                  => K(w).outcome = transport'.disconnect
             /\ w.outcome = "pending" /\ w.flow # "disconnect" /\ transport.connect = "pending"
                  => K(w).outcome = transport'.connect
  BY DEF Continuations
<1> HIDE DEF K
<1>3. Woken(S) \subseteq Continuations
  BY <1>1, <1>2
<1>4. \A g : LiveIn(Woken(S), g) <=> LiveIn(S, g)
  BY <1>1, <1>2 DEF LiveIn
<1>5. OneLive(S) => OneLive(Woken(S))
  BY <1>1, <1>2 DEF OneLive
<1> QED
  BY <1>1, <1>2, <1>3, <1>4, <1>5

\* A continuation leaves.
LEMMA LeftIs ==
    ASSUME NEW S \in SUBSET Continuations, NEW w \in S, OneLive(S), NEW t, NEW check
    PROVE  /\ S \ {w} \subseteq Continuations
           /\ OneLive(S \ {w})
           /\ w.live => ~LiveIn(S \ {w}, w.flow)
           /\ ~w.live => \A g : LiveIn(S \ {w}, g) <=> LiveIn(S, g)
           /\ \A g : g # w.flow => (LiveIn(S \ {w}, g) <=> LiveIn(S, g))
           /\ Told(S, t, check) => Told(S \ {w}, t, check)
<1>1. /\ S \ {w} \subseteq Continuations
      /\ OneLive(S \ {w})
      /\ w.live => ~LiveIn(S \ {w}, w.flow)
  BY DEF OneLive, LiveIn
<1>2. ~w.live => \A g : LiveIn(S \ {w}, g) <=> LiveIn(S, g)
  BY DEF LiveIn
<1>3. \A g : g # w.flow => (LiveIn(S \ {w}, g) <=> LiveIn(S, g))
  BY DEF LiveIn
<1>4. Told(S, t, check) => Told(S \ {w}, t, check)
  BY DEF Told
<1> QED
  BY <1>1, <1>2, <1>3, <1>4

NoneLive(S) == \A v \in S : ~v.live

\* In a set with none live, orphaning or waking changes nothing that matters.
LEMMA NoneLiveIs ==
    ASSUME NEW S \in SUBSET Continuations, NoneLive(S)
    PROVE  /\ \A g : ~LiveIn(S, g)
           /\ OneLive(S)
           /\ \A g : Orphaned(g, S) \subseteq Continuations /\ NoneLive(Orphaned(g, S))
           /\ \A g, t, check : Told(S, t, check) => Told(Orphaned(g, S), t, check)
<1>1. /\ \A g : ~LiveIn(S, g)
      /\ OneLive(S)
  BY DEF NoneLive, LiveIn, OneLive
<1>2. ASSUME NEW g
      PROVE  Orphaned(g, S) \subseteq Continuations /\ NoneLive(Orphaned(g, S))
  BY OrphanedIs DEF NoneLive
<1>3. ASSUME NEW g, NEW t, NEW check, Told(S, t, check)
      PROVE  Told(Orphaned(g, S), t, check)
  BY <1>3, OrphanedIs
<1> QED
  BY <1>1, <1>2, <1>3

\* A session between two operations has no live continuation.
LEMMA NoneUnderWay ==
    ASSUME IInv, session.phase \in {"idle", "connected"} \/ reconnectTimer
    PROVE  NoneLive(awaiting)
<1>1. HasDriver(session.phase, reconnectTimer, awaiting) /\ awaiting \subseteq Continuations
  BY PhaseHasDriverIs DEF IInv, SessionSound, SessionTypeOK
<1>2. \A w \in awaiting : w.flow \in {"connect", "attempt", "disconnect"}
  BY <1>1 DEF Continuations
<1> QED
  BY <1>1, <1>2 DEF HasDriver, LiveIn, NoneLive

\* The continuation that is live is the only one, and its flow tells the phase.
LEMMA LastLive ==
    ASSUME IInv, NEW w \in awaiting, w.live
    PROVE  /\ NoneLive(awaiting \ {w})
           /\ ~reconnectTimer
           /\ w.flow = "connect" => session.phase = "connecting"
           /\ w.flow = "attempt" => session.phase = "reconnecting"
           /\ w.flow = "disconnect" => session.phase = "disconnecting"
           /\ w.flow \in {"connect", "attempt", "disconnect"}
<1>1. HasDriver(session.phase, reconnectTimer, awaiting) /\ awaiting \subseteq Continuations
  BY PhaseHasDriverIs DEF IInv, SessionSound, SessionTypeOK
<1>2. \A v \in awaiting : v.flow \in {"connect", "attempt", "disconnect"}
  BY <1>1 DEF Continuations
<1>3. \A v \in awaiting : v.live => LiveIn(awaiting, v.flow)
  BY DEF LiveIn
<1>4. \A v \in awaiting : v.live =>
        /\ v.flow = "connect" => session.phase = "connecting"
        /\ v.flow = "attempt" => session.phase = "reconnecting"
        /\ v.flow = "disconnect" => session.phase = "disconnecting"
        /\ ~reconnectTimer
  BY <1>1, <1>2, <1>3 DEF HasDriver
<1>5. \A v \in awaiting : v.live => v.flow = w.flow
  BY <1>2, <1>4
<1> QED
  BY <1>1, <1>2, <1>4, <1>5 DEF HasDriver, OneLive, NoneLive

-----------------------------------------------------------------------------
(* Steps of the session: events. *)

\* Reconnecting from a session that has no operation left and no connection.
LEMMA StartReconnectSound ==
    ASSUME NEW S \in SUBSET Continuations, NoneLive(S), Told(S, transport', errorCheck'),
           NEW s \in [phase : Phases, connect : BOOLEAN, reconnect : BOOLEAN,
                      disconnect : BOOLEAN],
           ~s.connect, ~s.disconnect,
           attempt \in Nat, ~reconnectTimer, reconnectTimer \in BOOLEAN,
           intent' = "connect", transport'.state = "disconnected", StartReconnect(s, S)
    PROVE  SessionSound'
<1> DEFINE O == Orphaned("attempt", S)
<1>1. /\ O \subseteq Continuations /\ OneLive(O)
      /\ \A g : ~LiveIn(O, g)
      /\ Told(O, transport', errorCheck')
  BY NoneLiveIs
<1> HIDE DEF O
<1>2. CASE Unlimited \/ MaxRetries > 0
  <2>1. /\ session' = [s EXCEPT !.phase = "reconnecting", !.reconnect = TRUE]
        /\ reconnectTimer' = TRUE /\ attempt' = 1 /\ awaiting' = O
    BY <1>2 DEF StartReconnect, O
  <2>2. /\ session' \in [phase : Phases, connect : BOOLEAN, reconnect : BOOLEAN,
                          disconnect : BOOLEAN]
        /\ session'.phase = "reconnecting" /\ session'.reconnect
        /\ ~session'.connect /\ ~session'.disconnect
    BY <2>1 DEF Phases
  <2>3. SessionTypeOK' /\ OperationsNamed' /\ WishRespected' /\ SocketFollowsSession'
    BY <1>1, <2>1, <2>2 DEF SessionTypeOK, OperationsNamed, WishRespected, SocketFollowsSession
  <2>4. PhaseHasDriver'
    BY <1>1, <2>1, <2>2 DEF PhaseHasDriver, Driven, LiveIn, OneLive
  <2> QED
    BY <1>1, <2>1, <2>3, <2>4 DEF SessionSound, ContinuationsTold
<1>3. CASE ~(Unlimited \/ MaxRetries > 0)
  <2>1. /\ session' = [s EXCEPT !.phase = "idle", !.reconnect = FALSE]
        /\ reconnectTimer' = reconnectTimer /\ attempt' = attempt /\ awaiting' = O
    BY <1>3 DEF StartReconnect, O
  <2>2. /\ session' \in [phase : Phases, connect : BOOLEAN, reconnect : BOOLEAN,
                          disconnect : BOOLEAN]
        /\ session'.phase = "idle" /\ ~session'.reconnect
        /\ ~session'.connect /\ ~session'.disconnect
    BY <2>1 DEF Phases
  <2>3. SessionTypeOK' /\ OperationsNamed' /\ WishRespected' /\ SocketFollowsSession'
    BY <1>1, <2>1, <2>2 DEF SessionTypeOK, OperationsNamed, WishRespected, SocketFollowsSession
  <2>4. PhaseHasDriver'
    BY <1>1, <2>1, <2>2 DEF PhaseHasDriver, Driven, LiveIn, OneLive
  <2> QED
    BY <1>1, <2>1, <2>3, <2>4 DEF SessionSound, ContinuationsTold
<1> QED
  BY <1>2, <1>3

\* An event of the transport, at the beginning of a turn or in the microtask of
\* an error, keeps the invariant.
LEMMA EventStep ==
    ASSUME IInv, (Quiet /\ SocketEvent) \/ ErrorChecked, TransportReaction
    PROVE  IInv'
<1>1. TransportSound' /\ EventEffect
  BY EventSound DEF IInv
<1>2. awaiting \in SUBSET Continuations
  BY DEF IInv, SessionSound, SessionTypeOK
<1>3. \A w \in awaiting : w.live => w.outcome = "pending"
  <2>1. CASE Quiet
    BY <2>1 DEF Quiet
  <2>2. CASE ErrorChecked
    <3>1. errorCheck /\ transport.state \in {"connected", "disconnecting"}
      BY <2>2 DEF ErrorChecked, IInv, TransportSound, TransportConsistent
    <3>2. \A w \in awaiting : w.outcome \in {"pending", "resolved", "rejected"}
      BY <1>2 DEF Continuations
    <3> QED
      BY <3>1, <3>2 DEF IInv, SessionSound, ContinuationsTold, Told
  <2> QED
    BY <2>1, <2>2
<1>4. CASE /\ session.phase = "connected"
           /\ transport.state # "disconnected" /\ transport'.state = "disconnected"
  <2>1. TransportLost /\ intent' = intent
    BY <1>4 DEF TransportReaction
  <2>2. NoneLive(awaiting) /\ ~reconnectTimer /\ intent = "connect"
    <3>1. NoneLive(awaiting)
      BY <1>4, NoneUnderWay
    <3>2. ~reconnectTimer
      BY <1>4 DEF IInv, SessionSound, PhaseHasDriver
    <3>3. intent = "connect"
      BY <1>4 DEF IInv, SessionSound, SessionTypeOK, WishRespected
    <3> QED
      BY <3>1, <3>2, <3>3
  <2>3. Told(awaiting, transport', errorCheck')
    <3>1. transport.connect # "pending" /\ transport.disconnect # "pending"
      BY <1>4 DEF IInv, TransportSound, TransportConsistent, SessionSound, SocketFollowsSession
    <3> QED
      BY <2>2, <3>1 DEF IInv, SessionSound, ContinuationsTold, Told, NoneLive
  <2>4. /\ session \in [phase : Phases, connect : BOOLEAN, reconnect : BOOLEAN,
                        disconnect : BOOLEAN]
        /\ ~session.connect /\ ~session.disconnect /\ ~session.reconnect
        /\ attempt \in Nat /\ reconnectTimer \in BOOLEAN
    BY <1>4 DEF IInv, SessionSound, SessionTypeOK, OperationsNamed
  <2>5. CASE Reconnects
    <3>1. StartReconnect(session, awaiting)
      BY <2>1, <2>5 DEF TransportLost
    <3>2. SessionSound'
      BY <1>2, <1>4, <2>1, <2>2, <2>3, <2>4, <3>1, StartReconnectSound
    <3> QED
      BY <1>1, <3>2 DEF IInv
  <2>6. CASE ~Reconnects
    <3>1. /\ session' = [session EXCEPT !.phase = "idle"]
          /\ reconnectTimer' = reconnectTimer /\ attempt' = attempt /\ awaiting' = awaiting
      BY <2>1, <2>6 DEF TransportLost
    <3>2. /\ session' \in [phase : Phases, connect : BOOLEAN, reconnect : BOOLEAN,
                           disconnect : BOOLEAN]
          /\ session'.phase = "idle" /\ ~session'.reconnect
          /\ ~session'.connect /\ ~session'.disconnect
      BY <2>4, <3>1 DEF Phases
    <3>3. SessionTypeOK' /\ OperationsNamed' /\ WishRespected' /\ SocketFollowsSession'
      BY <1>2, <1>4, <2>1, <2>2, <2>4, <3>1, <3>2
         DEF SessionTypeOK, OperationsNamed, WishRespected, SocketFollowsSession
    <3>4. PhaseHasDriver'
      BY <2>2, <3>1, <3>2 DEF PhaseHasDriver, Driven, NoneLive
    <3>5. ContinuationsTold'
      BY <2>3, <3>1 DEF ContinuationsTold
    <3> QED
      BY <1>1, <3>3, <3>4, <3>5 DEF IInv, SessionSound
  <2> QED
    BY <2>5, <2>6
<1>5. CASE ~(/\ session.phase = "connected"
             /\ transport.state # "disconnected" /\ transport'.state = "disconnected")
  <2>1. /\ awaiting' = Woken(awaiting) /\ session' = session
        /\ reconnectTimer' = reconnectTimer /\ attempt' = attempt /\ intent' = intent
    BY <1>5 DEF TransportReaction
  <2>2. /\ Woken(awaiting) \subseteq Continuations
        /\ \A g : LiveIn(Woken(awaiting), g) <=> LiveIn(awaiting, g)
        /\ OneLive(awaiting) => OneLive(Woken(awaiting))
        /\ \A v \in Woken(awaiting) : \E w \in awaiting :
             /\ v.flow = w.flow /\ (v.live <=> w.live)
             /\ w.outcome # "pending" => v.outcome = w.outcome
             /\ w.outcome = "pending" /\ w.flow = "disconnect" /\ transport.disconnect = "pending"
                  => v.outcome = transport'.disconnect
             /\ w.outcome = "pending" /\ w.flow # "disconnect" /\ transport.connect = "pending"
                  => v.outcome = transport'.connect
    <3>1. /\ transport.connect = "pending" =>
               transport'.connect \in {"pending", "resolved", "rejected"}
          /\ transport.disconnect = "pending" =>
               transport'.disconnect \in {"pending", "resolved", "rejected"}
      BY <1>1 DEF EventEffect
    <3> QED
      BY <1>2, <3>1, WokenIs
  <2>3. SessionTypeOK' /\ OperationsNamed' /\ WishRespected'
    BY <2>1, <2>2 DEF IInv, SessionSound, SessionTypeOK, OperationsNamed, WishRespected
  <2>4. SocketFollowsSession'
    <3>1. transport.state \in States /\ transport'.state \in States
      BY <1>1 DEF IInv, TransportSound, TransportTypeOK
    <3>2. SocketFollowsSession
      BY DEF IInv, SessionSound
    <3> QED
      BY <1>1, <1>5, <2>1, <3>1, <3>2 DEF SocketFollowsSession, EventEffect, States
  <2>5. PhaseHasDriver'
    <3>1. HasDriver(session.phase, reconnectTimer, awaiting)
      BY PhaseHasDriverIs DEF IInv, SessionSound
    <3>2. HasDriver(session.phase, reconnectTimer, Woken(awaiting))
      BY <2>2, <3>1 DEF HasDriver
    <3> QED
      BY <2>1, <3>2 DEF HasDriver, PhaseHasDriver, Driven, LiveIn, OneLive
  <2>6. ContinuationsTold'
    <3>1. ASSUME NEW w \in awaiting
          PROVE  w.outcome = "pending" =>
                   IF w.flow = "disconnect" THEN transport.disconnect = "pending"
                   ELSE transport.connect = "pending"
      BY DEF IInv, SessionSound, ContinuationsTold, Told
    <3>2. ASSUME NEW v \in Woken(awaiting)
          PROVE  /\ v.outcome = "pending" =>
                      IF v.flow = "disconnect" THEN transport'.disconnect = "pending"
                      ELSE transport'.connect = "pending"
                 /\ v.live /\ v.outcome = "resolved" /\ v.flow # "disconnect" =>
                      transport'.state = "connected" /\ ~errorCheck'
                 /\ v.live /\ v.outcome = "rejected" /\ v.flow # "disconnect" =>
                      transport'.state = "disconnected"
                 /\ v.live /\ v.outcome # "pending" /\ v.flow = "disconnect" =>
                      transport'.state = "disconnected"
      <4>1. PICK w \in awaiting :
             /\ v.flow = w.flow /\ (v.live <=> w.live)
             /\ w.outcome # "pending" => v.outcome = w.outcome
             /\ w.outcome = "pending" /\ w.flow = "disconnect" /\ transport.disconnect = "pending"
                  => v.outcome = transport'.disconnect
             /\ w.outcome = "pending" /\ w.flow # "disconnect" /\ transport.connect = "pending"
                  => v.outcome = transport'.connect
        BY <2>2
      <4>2. CASE w.outcome # "pending"
        BY <1>3, <4>1, <4>2
      <4>3. CASE w.outcome = "pending" /\ w.flow = "disconnect"
        BY <1>1, <3>1, <4>1, <4>3 DEF EventEffect
      <4>4. CASE w.outcome = "pending" /\ w.flow # "disconnect"
        BY <1>1, <3>1, <4>1, <4>4 DEF EventEffect
      <4> QED
        BY <4>2, <4>3, <4>4
    <3>3. Told(Woken(awaiting), transport', errorCheck')
      BY <3>2 DEF Told
    <3> QED
      BY <2>1, <3>3 DEF ContinuationsTold
  <2> QED
    BY <1>1, <2>3, <2>4, <2>5, <2>6 DEF IInv, SessionSound
<1> QED
  BY <1>4, <1>5

-----------------------------------------------------------------------------
(* Steps of the session: calls. *)

\* A call of the transport that leaves none of the promises pending that were:
\* those who waited are told, and only the new continuation is live.
LEMMA CallIs ==
    ASSUME NEW S \in SUBSET Continuations, NoneLive(S), Told(S, transport, errorCheck),
           transport.disconnect # "pending",
           transport.connect = "pending" => transport'.connect \in {"resolved", "rejected"},
           NEW flow \in {"connect", "attempt", "disconnect"},
           NEW outcome \in {"pending", "resolved", "rejected"},
           outcome = "pending" =>
             IF flow = "disconnect" THEN transport'.disconnect = "pending"
             ELSE transport'.connect = "pending",
           outcome = "resolved" => flow = "disconnect" /\ transport'.state = "disconnected",
           outcome = "rejected" => transport'.state = "disconnected"
    PROVE  /\ Woken(S) \cup {Awaits(flow, outcome)} \subseteq Continuations
           /\ Told(Woken(S) \cup {Awaits(flow, outcome)}, transport', errorCheck')
           /\ \A g : LiveIn(Woken(S) \cup {Awaits(flow, outcome)}, g) <=> g = flow
           /\ OneLive(Woken(S) \cup {Awaits(flow, outcome)})
<1> DEFINE W == Woken(S)
<1> DEFINE a == Awaits(flow, outcome)
<1>1. /\ W \in SUBSET Continuations
      /\ \A v \in W : ~v.live /\ v.outcome # "pending"
  <2>1. /\ W \subseteq Continuations
        /\ \A v \in W : \E w \in S :
             /\ v.flow = w.flow /\ (v.live <=> w.live)
             /\ w.outcome # "pending" => v.outcome = w.outcome
             /\ w.outcome = "pending" /\ w.flow = "disconnect" /\ transport.disconnect = "pending"
                  => v.outcome = transport'.disconnect
             /\ w.outcome = "pending" /\ w.flow # "disconnect" /\ transport.connect = "pending"
                  => v.outcome = transport'.connect
    BY WokenIs
  <2>2. \A w \in S : ~w.live /\ (w.outcome = "pending" =>
          w.flow # "disconnect" /\ transport.connect = "pending")
    BY DEF NoneLive, Told
  <2> HIDE DEF W
  <2> QED
    BY <2>1, <2>2
<1>2. /\ a \in Continuations
      /\ a.live /\ a.flow = flow /\ a.outcome = outcome
  BY DEF Awaits, Continuations
<1>3. W \cup {a} \subseteq Continuations
  BY <1>1, <1>2
<1>4. \A g : LiveIn(W \cup {a}, g) <=> g = flow
  <2> HIDE DEF W, a
  <2> QED
    BY <1>1, <1>2 DEF LiveIn
<1>5. OneLive(W \cup {a})
  <2> HIDE DEF W, a
  <2> QED
    BY <1>1, <1>2 DEF OneLive
<1>6. Told(W \cup {a}, transport', errorCheck')
  <2> HIDE DEF W, a
  <2> QED
    BY <1>1, <1>2 DEF Told
<1> QED
  BY <1>3, <1>4, <1>5, <1>6

\* A session with one live continuation, that of its phase, and no timer.
LEMMA CalledSound ==
    ASSUME NEW flow \in {"connect", "attempt", "disconnect"}, TransportSound',
           awaiting' \subseteq Continuations, ContinuationsTold', OneLive(awaiting'),
           \A g : LiveIn(awaiting', g) <=> g = flow,
           session' \in [phase : Phases, connect : BOOLEAN, reconnect : BOOLEAN,
                         disconnect : BOOLEAN],
           OperationsNamed',
           session'.phase = IF flow = "connect" THEN "connecting"
                            ELSE IF flow = "attempt" THEN "reconnecting" ELSE "disconnecting",
           reconnectTimer' = FALSE, attempt' \in Nat, intent' \in {"connect", "disconnect"},
           flow # "disconnect" => intent' = "connect" /\ transport'.state # "disconnecting",
           flow = "disconnect" => transport'.state \in {"disconnecting", "disconnected"}
    PROVE  IInv'
<1>1. SessionTypeOK' /\ WishRespected' /\ SocketFollowsSession'
  BY DEF SessionTypeOK, WishRespected, SocketFollowsSession
<1>2. PhaseHasDriver'
  <2>1. HasDriver(session'.phase, reconnectTimer', awaiting')
    BY DEF HasDriver
  <2> QED
    BY <2>1 DEF HasDriver, PhaseHasDriver, Driven, LiveIn, OneLive
<1> QED
  BY <1>1, <1>2 DEF IInv, SessionSound

\* connect() keeps the invariant.
LEMMA StartInitialConnectStep ==
    ASSUME IInv, StartInitialConnect
    PROVE  IInv'
<1>1. /\ session.phase = "idle" /\ ~session.reconnect /\ ~session.disconnect
      /\ session \in [phase : Phases, connect : BOOLEAN, reconnect : BOOLEAN,
                      disconnect : BOOLEAN]
      /\ transport.state = "disconnected" /\ reconnectTimer = FALSE /\ attempt \in Nat
      /\ awaiting \in SUBSET Continuations
      /\ Told(awaiting, transport, errorCheck)
  BY DEF StartInitialConnect, IInv, SessionSound, OperationsNamed, SocketFollowsSession,
     SessionTypeOK, PhaseHasDriver, ContinuationsTold
<1>2. NoneLive(awaiting)
  BY <1>1, NoneUnderWay
<1>3. PICK outcome \in {"pending", "resolved", "rejected"} :
        /\ TransportConnect(outcome)
        /\ awaiting' = Woken(Orphaned("connect", awaiting)) \cup {Awaits("connect", outcome)}
  BY DEF StartInitialConnect
<1>4. /\ TransportSound'
      /\ outcome \in {"pending", "rejected"}
      /\ transport.connect # "pending" /\ transport.disconnect # "pending"
      /\ outcome = "pending" => transport'.connect = "pending"
      /\ outcome = "rejected" => transport'.state = "disconnected"
      /\ transport'.state \in {"connecting", "disconnected"}
  BY <1>1, <1>3, ConnectSound DEF IInv
<1>5. /\ Orphaned("connect", awaiting) \in SUBSET Continuations
      /\ NoneLive(Orphaned("connect", awaiting))
      /\ Told(Orphaned("connect", awaiting), transport, errorCheck)
  BY <1>1, <1>2, NoneLiveIs
<1>6. /\ awaiting' \subseteq Continuations
      /\ Told(awaiting', transport', errorCheck')
      /\ \A g : LiveIn(awaiting', g) <=> g = "connect"
      /\ OneLive(awaiting')
  BY <1>3, <1>4, <1>5, CallIs
<1>7. /\ session' = [session EXCEPT !.phase = "connecting", !.connect = TRUE]
      /\ intent' = "connect" /\ reconnectTimer' = FALSE /\ attempt' = attempt
  BY <1>1 DEF StartInitialConnect
<1>8. /\ session' \in [phase : Phases, connect : BOOLEAN, reconnect : BOOLEAN,
                       disconnect : BOOLEAN]
      /\ session'.phase = "connecting" /\ session'.connect
      /\ ~session'.reconnect /\ ~session'.disconnect
  BY <1>1, <1>7 DEF Phases
<1>9. OperationsNamed' /\ ContinuationsTold'
  BY <1>6, <1>8 DEF OperationsNamed, ContinuationsTold
<1> QED
  BY <1>1, <1>4, <1>6, <1>7, <1>8, <1>9, CalledSound

\* So does the timer of a reconnect: it finds the session reconnecting.
LEMMA ReconnectAttemptStep ==
    ASSUME IInv, ReconnectAttempt
    PROVE  IInv'
<1>1. /\ session.phase = "reconnecting" /\ session.reconnect
      /\ ~session.connect /\ ~session.disconnect
      /\ session \in [phase : Phases, connect : BOOLEAN, reconnect : BOOLEAN,
                      disconnect : BOOLEAN]
      /\ transport.state = "disconnected" /\ attempt \in Nat
      /\ awaiting \in SUBSET Continuations
      /\ Told(awaiting, transport, errorCheck)
      /\ intent = "connect"
  BY DEF ReconnectAttempt, IInv, SessionSound, OperationsNamed, SocketFollowsSession,
     SessionTypeOK, PhaseHasDriver, ContinuationsTold, WishRespected
<1>2. NoneLive(awaiting)
  BY NoneUnderWay DEF ReconnectAttempt
<1>3. PICK outcome \in {"pending", "resolved", "rejected"} :
        /\ TransportConnect(outcome)
        /\ awaiting' = Woken(awaiting) \cup {Awaits("attempt", outcome)}
  BY <1>1 DEF ReconnectAttempt
<1>4. /\ TransportSound'
      /\ outcome \in {"pending", "rejected"}
      /\ transport.connect # "pending" /\ transport.disconnect # "pending"
      /\ outcome = "pending" => transport'.connect = "pending"
      /\ outcome = "rejected" => transport'.state = "disconnected"
      /\ transport'.state \in {"connecting", "disconnected"}
  BY <1>1, <1>3, ConnectSound DEF IInv
<1>5. /\ awaiting' \subseteq Continuations
      /\ Told(awaiting', transport', errorCheck')
      /\ \A g : LiveIn(awaiting', g) <=> g = "attempt"
      /\ OneLive(awaiting')
  BY <1>1, <1>2, <1>3, <1>4, CallIs
<1>6. session' = session /\ intent' = intent /\ reconnectTimer' = FALSE /\ attempt' = attempt
  BY DEF ReconnectAttempt
<1>7. OperationsNamed' /\ ContinuationsTold'
  BY <1>1, <1>5, <1>6 DEF OperationsNamed, ContinuationsTold
<1> QED
  BY <1>1, <1>4, <1>5, <1>6, <1>7, CalledSound

\* disconnect() goes to its await, with every other operation aborted.
LEMMA StartDisconnectSound ==
    ASSUME NEW S \in SUBSET Continuations, NoneLive(S), Told(S, transport, errorCheck),
           NEW s \in [phase : Phases, connect : BOOLEAN, reconnect : BOOLEAN,
                      disconnect : BOOLEAN],
           ~s.connect, ~s.reconnect, TransportSound, transport.state # "disconnecting",
           StartDisconnect(s, S), reconnectTimer' = FALSE, intent' = "disconnect",
           attempt' \in Nat
    PROVE  IInv'
<1>1. PICK outcome \in {"pending", "resolved", "rejected"} :
        /\ TransportDisconnect(outcome)
        /\ awaiting' = Woken(Orphaned("disconnect", S)) \cup {Awaits("disconnect", outcome)}
  BY DEF StartDisconnect
<1>2. /\ TransportSound'
      /\ transport.disconnect # "pending"
      /\ transport.connect = "pending" => transport'.connect = "rejected"
      /\ outcome = "pending" => transport'.disconnect = "pending"
      /\ outcome # "pending" => transport'.state = "disconnected"
      /\ transport'.state \in {"disconnecting", "disconnected"}
  BY <1>1, DisconnectSound
<1>3. /\ Orphaned("disconnect", S) \in SUBSET Continuations
      /\ NoneLive(Orphaned("disconnect", S))
      /\ Told(Orphaned("disconnect", S), transport, errorCheck)
  BY NoneLiveIs
<1>4. /\ awaiting' \subseteq Continuations
      /\ Told(awaiting', transport', errorCheck')
      /\ \A g : LiveIn(awaiting', g) <=> g = "disconnect"
      /\ OneLive(awaiting')
  BY <1>1, <1>2, <1>3, CallIs
<1>5. session' = [s EXCEPT !.phase = "disconnecting", !.disconnect = TRUE]
  BY DEF StartDisconnect
<1>6. /\ session' \in [phase : Phases, connect : BOOLEAN, reconnect : BOOLEAN,
                       disconnect : BOOLEAN]
      /\ session'.phase = "disconnecting" /\ session'.disconnect
      /\ ~session'.connect /\ ~session'.reconnect
  BY <1>5 DEF Phases
<1>7. OperationsNamed' /\ ContinuationsTold'
  BY <1>4, <1>6 DEF OperationsNamed, ContinuationsTold
<1> QED
  BY <1>2, <1>4, <1>6, <1>7, CalledSound

\* disconnect() keeps the invariant in each of its phases.
LEMMA DisconnectStep ==
    ASSUME IInv, Disconnect
    PROVE  IInv'
<1>1. /\ session \in [phase : Phases, connect : BOOLEAN, reconnect : BOOLEAN,
                      disconnect : BOOLEAN]
      /\ OperationsNamed /\ attempt \in Nat /\ TransportSound
      /\ awaiting \in SUBSET Continuations
      /\ Told(awaiting, transport, errorCheck)
      /\ transport.state = "disconnecting" => session.phase = "disconnecting"
      /\ HasDriver(session.phase, reconnectTimer, awaiting)
      /\ reconnectTimer \in BOOLEAN
  BY PhaseHasDriverIs DEF IInv, SessionSound, SessionTypeOK, SocketFollowsSession,
     ContinuationsTold
<1>2. intent' = "disconnect" /\ attempt' \in Nat
  BY <1>1 DEF Disconnect
<1>3. CASE DisconnectDuringConnect
  <2> DEFINE S == Orphaned("connect", awaiting)
  <2> DEFINE s == [session EXCEPT !.connect = FALSE]
  <2>1. session.phase = "connecting" /\ StartDisconnect(s, S) /\ reconnectTimer' = FALSE
    BY <1>1, <1>3 DEF DisconnectDuringConnect, HasDriver
  <2>2. S \in SUBSET Continuations /\ Told(S, transport, errorCheck) /\ NoneLive(S)
    <3>1. /\ S \in SUBSET Continuations /\ Told(S, transport, errorCheck)
          /\ ~LiveIn(S, "connect")
          /\ \A g : g # "connect" => (LiveIn(S, g) <=> LiveIn(awaiting, g))
      BY <1>1, OrphanedIs
    <3>2. \A v \in S : v.flow \in {"connect", "attempt", "disconnect"}
      BY <3>1 DEF Continuations
    <3> HIDE DEF S
    <3> QED
      BY <1>1, <2>1, <3>1, <3>2 DEF HasDriver, LiveIn, NoneLive
  <2>3. /\ s \in [phase : Phases, connect : BOOLEAN, reconnect : BOOLEAN,
                  disconnect : BOOLEAN]
        /\ ~s.connect /\ ~s.reconnect
    BY <1>1, <2>1 DEF OperationsNamed
  <2> HIDE DEF S, s
  <2> QED
    BY <1>1, <1>2, <2>1, <2>2, <2>3, StartDisconnectSound
<1>4. CASE DisconnectFromActiveSession
  <2>1. /\ session.phase = "connected" /\ StartDisconnect(session, awaiting)
        /\ reconnectTimer' = FALSE /\ ~session.connect /\ ~session.reconnect
    BY <1>1, <1>4 DEF DisconnectFromActiveSession, HasDriver, OperationsNamed
  <2>2. NoneLive(awaiting)
    BY <2>1, NoneUnderWay
  <2> QED
    BY <1>1, <1>2, <2>1, <2>2, StartDisconnectSound
<1>5. CASE DisconnectDuringReconnect
  <2> DEFINE S == Orphaned("attempt", awaiting)
  <2> DEFINE s == [session EXCEPT !.reconnect = FALSE]
  <2>1. session.phase = "reconnecting" /\ StartDisconnect(s, S) /\ reconnectTimer' = FALSE
    BY <1>5 DEF DisconnectDuringReconnect
  <2>2. S \in SUBSET Continuations /\ Told(S, transport, errorCheck) /\ NoneLive(S)
    <3>1. /\ S \in SUBSET Continuations /\ Told(S, transport, errorCheck)
          /\ ~LiveIn(S, "attempt")
          /\ \A g : g # "attempt" => (LiveIn(S, g) <=> LiveIn(awaiting, g))
      BY <1>1, OrphanedIs
    <3>2. \A v \in S : v.flow \in {"connect", "attempt", "disconnect"}
      BY <3>1 DEF Continuations
    <3> HIDE DEF S
    <3> QED
      BY <1>1, <2>1, <3>1, <3>2 DEF HasDriver, LiveIn, NoneLive
  <2>3. /\ s \in [phase : Phases, connect : BOOLEAN, reconnect : BOOLEAN,
                  disconnect : BOOLEAN]
        /\ ~s.connect /\ ~s.reconnect
    BY <1>1, <2>1 DEF OperationsNamed
  <2> HIDE DEF S, s
  <2> QED
    BY <1>1, <1>2, <2>1, <2>2, <2>3, StartDisconnectSound
<1> QED
  BY <1>3, <1>4, <1>5 DEF Disconnect

-----------------------------------------------------------------------------
(* Steps of the session: continuations. *)

\* A session with no live continuation rests, or waits for the reconnect timer.
LEMMA RestedSound ==
    ASSUME awaiting' \subseteq Continuations, NoneLive(awaiting'), ContinuationsTold',
           session' \in [phase : Phases, connect : BOOLEAN, reconnect : BOOLEAN,
                         disconnect : BOOLEAN],
           OperationsNamed', TransportSound', WishRespected', SocketFollowsSession',
           session'.phase \in {"idle", "connected", "reconnecting"},
           reconnectTimer' \in BOOLEAN, reconnectTimer' <=> session'.phase = "reconnecting",
           attempt' \in Nat, intent' \in {"connect", "disconnect"}
    PROVE  IInv'
<1>1. SessionTypeOK'
  BY DEF SessionTypeOK
<1>2. PhaseHasDriver'
  BY DEF PhaseHasDriver, Driven, NoneLive
<1> QED
  BY <1>1, <1>2 DEF IInv, SessionSound

\* The continuation of a superseded operation returns: it is not live.
LEMMA SupersededStep ==
    ASSUME IInv, NEW w \in awaiting, Superseded(w), awaiting' = awaiting \ {w},
           UNCHANGED <<session, reconnectTimer, attempt, transportVars, intent>>
    PROVE  IInv'
<1>1. ~w.live
  <2>1. ~(w.live /\ w.flow = "connect" /\ session.phase # "connecting")
    BY LastLive
  <2>2. ~(w.live /\ w.flow = "attempt" /\ session.phase # "reconnecting")
    BY LastLive
  <2> QED
    BY <2>1, <2>2 DEF Superseded
<1>2. HasDriver(session.phase, reconnectTimer, awaiting) /\ awaiting \in SUBSET Continuations
  BY PhaseHasDriverIs DEF IInv, SessionSound, SessionTypeOK
<1>3. /\ awaiting \ {w} \subseteq Continuations
      /\ HasDriver(session.phase, reconnectTimer, awaiting \ {w})
  <2>1. OneLive(awaiting)
    BY <1>2 DEF HasDriver
  <2>2. /\ awaiting \ {w} \subseteq Continuations
        /\ OneLive(awaiting \ {w})
        /\ ~w.live => \A g : LiveIn(awaiting \ {w}, g) <=> LiveIn(awaiting, g)
    BY <1>2, <2>1, LeftIs
  <2> QED
    BY <1>1, <1>2, <2>2 DEF HasDriver
<1>4. Told(awaiting \ {w}, transport, errorCheck)
  BY DEF IInv, SessionSound, ContinuationsTold, Told
<1>5. TransportSound'
  BY DEF IInv, TransportSound, TransportTypeOK, TransportConsistent, transportVars
<1>6. SessionTypeOK' /\ OperationsNamed' /\ SocketFollowsSession' /\ WishRespected'
  BY <1>3 DEF IInv, SessionSound, SessionTypeOK, OperationsNamed, SocketFollowsSession,
     WishRespected, transportVars
<1>7. PhaseHasDriver'
  BY <1>3 DEF HasDriver, PhaseHasDriver, Driven, LiveIn, OneLive
<1>8. ContinuationsTold'
  BY <1>4 DEF ContinuationsTold, transportVars
<1> QED
  BY <1>5, <1>6, <1>7, <1>8 DEF IInv, SessionSound

\* A live continuation that was told its outcome takes the session to its next
\* phase.
LEMMA LiveStep ==
    ASSUME IInv, NEW w \in awaiting, w.live, w.outcome # "pending",
           \/ ConnectSucceeds(w) \/ ConnectFails(w)
           \/ AttemptSucceeds(w) \/ AttemptFails(w)
           \/ DisconnectSettles(w),
           UNCHANGED <<transportVars, intent>>
    PROVE  IInv'
<1> DEFINE S == awaiting \ {w}
<1> DEFINE Records == [phase : Phases, connect : BOOLEAN, reconnect : BOOLEAN,
                       disconnect : BOOLEAN]
<1>1. /\ session \in Records /\ attempt \in Nat /\ intent \in {"connect", "disconnect"}
      /\ reconnectTimer = FALSE
      /\ S \in SUBSET Continuations /\ NoneLive(S) /\ Told(S, transport, errorCheck)
  <2>1. NoneLive(S) /\ ~reconnectTimer
    BY LastLive
  <2>2. Told(S, transport, errorCheck)
    BY DEF IInv, SessionSound, ContinuationsTold, Told
  <2> QED
    BY <2>1, <2>2 DEF IInv, SessionSound, SessionTypeOK
<1>2. /\ w.flow = "connect" => session.phase = "connecting"
      /\ w.flow = "attempt" => session.phase = "reconnecting"
      /\ w.flow = "disconnect" => session.phase = "disconnecting"
  BY LastLive
<1>3. TransportSound' /\ transport' = transport /\ errorCheck' = errorCheck /\ intent' = intent
  BY DEF IInv, TransportSound, TransportTypeOK, TransportConsistent, transportVars
<1>4. /\ w.outcome = "resolved" /\ w.flow # "disconnect" => transport.state = "connected"
      /\ w.outcome = "rejected" /\ w.flow # "disconnect" => transport.state = "disconnected"
      /\ w.flow = "disconnect" => transport.state = "disconnected"
  BY DEF IInv, SessionSound, ContinuationsTold, Told
<1>5. OperationsNamed /\ WishRespected
  BY DEF IInv, SessionSound
<1>6. \A g : /\ Orphaned(g, S) \subseteq Continuations
             /\ NoneLive(Orphaned(g, S))
             /\ Told(Orphaned(g, S), transport, errorCheck)
  BY <1>1, NoneLiveIs
<1> HIDE DEF S
<1>7. CASE ConnectSucceeds(w)
  <2>1. /\ session' = [session EXCEPT !.phase = "connected", !.connect = FALSE]
        /\ awaiting' = Orphaned("connect", S)
        /\ reconnectTimer' = FALSE /\ attempt' = attempt
        /\ session.phase = "connecting" /\ transport.state = "connected"
    BY <1>1, <1>2, <1>4, <1>7 DEF ConnectSucceeds, S
  <2>2. /\ session' \in Records
        /\ session'.phase = "connected" /\ ~session'.connect
        /\ ~session'.reconnect /\ ~session'.disconnect
    BY <1>1, <1>5, <2>1 DEF Phases, OperationsNamed
  <2>3. /\ OperationsNamed' /\ WishRespected' /\ SocketFollowsSession'
        /\ ContinuationsTold' /\ awaiting' \subseteq Continuations /\ NoneLive(awaiting')
    BY <1>3, <1>5, <1>6, <2>1, <2>2
       DEF OperationsNamed, WishRespected, SocketFollowsSession, ContinuationsTold
  <2> QED
    BY <1>1, <1>3, <2>1, <2>2, <2>3, RestedSound
<1>8. CASE ConnectFails(w)
  <2> DEFINE failed == [session EXCEPT !.phase = "idle", !.connect = FALSE]
  <2>1. /\ failed \in Records
        /\ failed.phase = "idle" /\ ~failed.connect
        /\ ~failed.reconnect /\ ~failed.disconnect
        /\ intent = "connect" /\ transport.state = "disconnected"
    BY <1>1, <1>2, <1>4, <1>5, <1>8
       DEF ConnectFails, Phases, OperationsNamed, WishRespected
  <2>2. CASE Reconnects
    <3>1. StartReconnect(failed, Orphaned("connect", S))
      BY <1>8, <2>2 DEF ConnectFails, S
    <3>2. SessionSound'
      <4> HIDE DEF failed
      <4> QED
        BY <1>1, <1>3, <1>6, <2>1, <3>1, StartReconnectSound
    <3> QED
      BY <1>3, <3>2 DEF IInv
  <2>3. CASE ~Reconnects
    <3>1. /\ session' = failed /\ awaiting' = Orphaned("connect", S)
          /\ reconnectTimer' = FALSE /\ attempt' = attempt
      BY <1>1, <1>8, <2>3 DEF ConnectFails, S
    <3> HIDE DEF failed
    <3>2. /\ OperationsNamed' /\ WishRespected' /\ SocketFollowsSession'
          /\ ContinuationsTold' /\ awaiting' \subseteq Continuations /\ NoneLive(awaiting')
      BY <1>3, <1>6, <2>1, <3>1
         DEF OperationsNamed, WishRespected, SocketFollowsSession, ContinuationsTold
    <3> QED
      BY <1>1, <1>3, <2>1, <3>1, <3>2, RestedSound
  <2> QED
    BY <2>2, <2>3
<1>9. CASE AttemptSucceeds(w)
  <2>1. /\ session' = [session EXCEPT !.phase = "connected", !.reconnect = FALSE]
        /\ awaiting' = Orphaned("attempt", S)
        /\ reconnectTimer' = FALSE /\ attempt' = attempt
        /\ session.phase = "reconnecting" /\ transport.state = "connected"
    BY <1>1, <1>2, <1>4, <1>9 DEF AttemptSucceeds, S
  <2>2. /\ session' \in Records
        /\ session'.phase = "connected" /\ ~session'.connect
        /\ ~session'.reconnect /\ ~session'.disconnect
    BY <1>1, <1>5, <2>1 DEF Phases, OperationsNamed
  <2>3. /\ OperationsNamed' /\ WishRespected' /\ SocketFollowsSession'
        /\ ContinuationsTold' /\ awaiting' \subseteq Continuations /\ NoneLive(awaiting')
    BY <1>3, <1>5, <1>6, <2>1, <2>2
       DEF OperationsNamed, WishRespected, SocketFollowsSession, ContinuationsTold
  <2> QED
    BY <1>1, <1>3, <2>1, <2>2, <2>3, RestedSound
<1>10. CASE AttemptFails(w)
  <2>1. session.phase = "reconnecting" /\ transport.state = "disconnected"
    BY <1>2, <1>4, <1>10 DEF AttemptFails
  <2>2. CASE ~Unlimited /\ attempt >= MaxRetries
    <3>1. /\ session' = [session EXCEPT !.phase = "idle", !.reconnect = FALSE]
          /\ awaiting' = Orphaned("attempt", S)
          /\ reconnectTimer' = FALSE /\ attempt' = attempt
      BY <1>1, <1>10, <2>2 DEF AttemptFails, S
    <3>2. /\ session' \in Records
          /\ session'.phase = "idle" /\ ~session'.connect
          /\ ~session'.reconnect /\ ~session'.disconnect
      BY <1>1, <1>5, <2>1, <3>1 DEF Phases, OperationsNamed
    <3>3. /\ OperationsNamed' /\ WishRespected' /\ SocketFollowsSession'
          /\ ContinuationsTold' /\ awaiting' \subseteq Continuations /\ NoneLive(awaiting')
      BY <1>3, <1>6, <2>1, <3>1, <3>2
         DEF OperationsNamed, WishRespected, SocketFollowsSession, ContinuationsTold
    <3> QED
      BY <1>1, <1>3, <3>1, <3>2, <3>3, RestedSound
  <2>3. CASE ~(~Unlimited /\ attempt >= MaxRetries)
    <3>1. /\ session' = session /\ awaiting' = S /\ reconnectTimer' = TRUE
          /\ attempt' = IF Unlimited THEN attempt ELSE attempt + 1
      BY <1>10, <2>3 DEF AttemptFails, S
    <3>2. attempt' \in Nat
      BY <1>1, <3>1
    <3>3. /\ OperationsNamed' /\ WishRespected' /\ SocketFollowsSession'
          /\ ContinuationsTold' /\ awaiting' \subseteq Continuations /\ NoneLive(awaiting')
      BY <1>1, <1>3, <1>5, <2>1, <3>1
         DEF OperationsNamed, WishRespected, SocketFollowsSession, ContinuationsTold
    <3> QED
      BY <1>1, <1>3, <2>1, <3>1, <3>2, <3>3, RestedSound
  <2> QED
    BY <2>2, <2>3
<1>11. CASE DisconnectSettles(w)
  <2>1. /\ session' = [session EXCEPT !.phase = "idle", !.disconnect = FALSE]
        /\ awaiting' = Orphaned("disconnect", S)
        /\ reconnectTimer' = FALSE /\ attempt' = attempt
        /\ session.phase = "disconnecting" /\ transport.state = "disconnected"
    BY <1>1, <1>2, <1>4, <1>11 DEF DisconnectSettles, S
  <2>2. /\ session' \in Records
        /\ session'.phase = "idle" /\ ~session'.connect
        /\ ~session'.reconnect /\ ~session'.disconnect
    BY <1>1, <1>5, <2>1 DEF Phases, OperationsNamed
  <2>3. /\ OperationsNamed' /\ WishRespected' /\ SocketFollowsSession'
        /\ ContinuationsTold' /\ awaiting' \subseteq Continuations /\ NoneLive(awaiting')
    BY <1>3, <1>6, <2>1, <2>2
       DEF OperationsNamed, WishRespected, SocketFollowsSession, ContinuationsTold
  <2> QED
    BY <1>1, <1>3, <2>1, <2>2, <2>3, RestedSound
<1> QED
  BY <1>7, <1>8, <1>9, <1>10, <1>11

\* Every continuation keeps the invariant.
LEMMA ContinuesStep ==
    ASSUME IInv, Continues
    PROVE  IInv'
<1>1. PICK w \in awaiting : Continue(w)
  BY DEF Continues
<1>2. CASE Superseded(w)
  <2>1. /\ awaiting' = awaiting \ {w}
        /\ UNCHANGED <<session, reconnectTimer, attempt, transportVars, intent>>
    BY <1>1, <1>2 DEF Continue
  <2> QED
    BY <1>2, <2>1, SupersededStep
<1>3. CASE ~Superseded(w)
  <2>1. /\ w.live /\ w.outcome # "pending"
        /\ \/ ConnectSucceeds(w) \/ ConnectFails(w)
           \/ AttemptSucceeds(w) \/ AttemptFails(w)
           \/ DisconnectSettles(w)
        /\ UNCHANGED <<transportVars, intent>>
    BY <1>1, <1>3 DEF Continue, Superseded
  <2> QED
    BY <2>1, LiveStep
<1> QED
  BY <1>2, <1>3

-----------------------------------------------------------------------------
(* The theorems. *)

\* The invariant holds at the start.
LEMMA InitSound == Init => IInv
<1> SUFFICES ASSUME Init PROVE IInv
  OBVIOUS
<1>1. TransportSound
  BY DEF Init, TransportInit, TransportSound, TransportTypeOK, TransportConsistent, States,
         Promises, SocketStates
<1>2. SessionTypeOK /\ OperationsNamed /\ SocketFollowsSession /\ WishRespected
  BY DEF Init, TransportInit, SessionInit, SessionTypeOK, OperationsNamed, SocketFollowsSession,
         WishRespected, Phases
<1>3. ContinuationsTold /\ PhaseHasDriver
  BY DEF Init, SessionInit, ContinuationsTold, Told, PhaseHasDriver, Driven
<1> QED
  BY <1>1, <1>2, <1>3 DEF IInv, SessionSound

\* A step of Next, or none, keeps it.
LEMMA NextSound == IInv /\ [Next]_connectionVars => IInv'
<1> SUFFICES ASSUME IInv, [Next]_connectionVars PROVE IInv'
  OBVIOUS
<1>1. CASE TransportTurn(SocketEvent)
  BY <1>1, EventStep DEF TransportTurn
<1>2. CASE ReconnectAttempt
  BY <1>2, ReconnectAttemptStep
<1>3. CASE ErrorCheckRuns
  BY <1>3, EventStep DEF ErrorCheckRuns
<1>4. CASE Continues
  BY <1>4, ContinuesStep
<1>5. CASE StartInitialConnect
  BY <1>5, StartInitialConnectStep
<1>6. CASE Disconnect
  BY <1>6, DisconnectStep
<1>7. CASE UNCHANGED connectionVars
  BY <1>7 DEF connectionVars, transportVars, sessionVars, IInv, TransportSound, TransportTypeOK,
     TransportConsistent, SessionSound, SessionTypeOK, OperationsNamed, ContinuationsTold,
     PhaseHasDriver, Driven, SocketFollowsSession, WishRespected
<1> QED
  BY <1>1, <1>2, <1>3, <1>4, <1>5, <1>6, <1>7 DEF Next, Macrotask, Microtask

\* The session and its transport are sound in every behaviour.
THEOREM Soundness == Spec => []IInv
  BY InitSound, NextSound, PTL DEF Spec

\* Every variable of the session and of the transport keeps its type.
THEOREM TypeCorrect == Spec => []TypeOK
<1>1. IInv => TypeOK
  BY DEF IInv, TransportSound, SessionSound, TypeOK
<1> QED
  BY <1>1, Soundness, PTL

\* No promise, socket or timer of the transport is orphaned.
THEOREM TransportIsConsistent == Spec => []TransportConsistent
<1>1. IInv => TransportConsistent
  BY DEF IInv, TransportSound
<1> QED
  BY <1>1, Soundness, PTL

\* A phase that must end has exactly one continuation or timer that ends it.
THEOREM PhasesAreDriven == Spec => []PhaseHasDriver
<1>1. IInv => PhaseHasDriver
  BY DEF IInv, SessionSound
<1> QED
  BY <1>1, Soundness, PTL

\* The session's phase and the transport's socket agree.
THEOREM SocketsFollow == Spec => []SocketFollowsSession
<1>1. IInv => SocketFollowsSession
  BY DEF IInv, SessionSound
<1> QED
  BY <1>1, Soundness, PTL

\* After disconnect() nothing brings the session back but connect().
THEOREM WishesAreRespected == Spec => []WishRespected
<1>1. IInv => WishRespected
  BY DEF IInv, SessionSound
<1> QED
  BY <1>1, Soundness, PTL

\* A step of the session is a step of the contract, or none.
LEMMA ContractStep ==
    ASSUME IInv, [Next]_connectionVars
    PROVE  Contract!Next \/ UNCHANGED <<SessionState, intent = "connect">>
<1>1. /\ session \in [phase : Phases, connect : BOOLEAN, reconnect : BOOLEAN,
                      disconnect : BOOLEAN]
      /\ session.phase \in Phases
      /\ session.phase \in {"connecting", "connected", "reconnecting"} => intent = "connect"
  BY DEF IInv, SessionSound, SessionTypeOK, WishRespected
<1>2. ASSUME intent' = intent, session'.phase = "idle"
      PROVE  Contract!Next
  BY <1>2 DEF Contract!Next, Contract!GoOffline, SessionState
<1>3. ASSUME intent' = intent, session' = session
      PROVE  UNCHANGED <<SessionState, intent = "connect">>
  BY <1>3 DEF SessionState
<1>4. ASSUME NEW s, s.phase = "idle" \/ s.phase = "connected", intent' = intent,
             intent = "connect", session.phase \in {"connecting", "connected"},
             s \in [phase : Phases, connect : BOOLEAN, reconnect : BOOLEAN,
                    disconnect : BOOLEAN],
             NEW S, StartReconnect(s, S)
      PROVE  Contract!Next
  <2>1. session'.phase = "reconnecting" \/ session'.phase = "idle"
    BY <1>4 DEF StartReconnect
  <2>2. CASE session'.phase = "reconnecting"
    BY <1>4, <2>2 DEF Contract!Next, Contract!Reconnect, SessionState
  <2> QED
    BY <1>2, <1>4, <2>1, <2>2
<1>5. ASSUME TransportReaction
      PROVE  Contract!Next \/ UNCHANGED <<SessionState, intent = "connect">>
  <2>1. intent' = intent
    BY <1>5 DEF TransportReaction
  <2>2. CASE session' = session
    BY <1>3, <2>1, <2>2
  <2>3. CASE session' # session
    <3>1. TransportLost /\ session.phase = "connected"
      BY <1>5, <2>3 DEF TransportReaction
    <3>2. CASE Reconnects
      BY <1>1, <1>4, <2>1, <3>1, <3>2 DEF TransportLost
    <3>3. CASE ~Reconnects
      <4>1. session'.phase = "idle"
        BY <1>1, <3>1, <3>3 DEF TransportLost
      <4> QED
        BY <1>2, <2>1, <4>1
    <3> QED
      BY <3>2, <3>3
  <2> QED
    BY <2>2, <2>3
<1>6. CASE TransportTurn(SocketEvent)
  BY <1>5, <1>6 DEF TransportTurn
<1>7. CASE ErrorCheckRuns
  BY <1>5, <1>7 DEF ErrorCheckRuns
<1>8. CASE ReconnectAttempt
  BY <1>3, <1>8 DEF ReconnectAttempt
<1>9. CASE Continues
  <2>1. PICK w \in awaiting : Continue(w)
    BY <1>9 DEF Continues
  <2>2. intent' = intent
    BY <2>1 DEF Continue
  <2>3. CASE Superseded(w)
    BY <1>3, <2>1, <2>2, <2>3 DEF Continue
  <2>4. CASE ~Superseded(w)
    <3>1. /\ w.live
          /\ \/ ConnectSucceeds(w) \/ ConnectFails(w)
             \/ AttemptSucceeds(w) \/ AttemptFails(w)
             \/ DisconnectSettles(w)
      BY <2>1, <2>4 DEF Continue, Superseded
    <3>2. /\ w.flow = "connect" => session.phase = "connecting"
          /\ w.flow = "attempt" => session.phase = "reconnecting"
      BY <3>1, LastLive
    <3>3. CASE ConnectSucceeds(w)
      <4>1. session'.phase = "connected" /\ session.phase = "connecting"
        BY <1>1, <3>2, <3>3 DEF ConnectSucceeds
      <4> QED
        BY <1>1, <2>2, <4>1 DEF Contract!Next, Contract!GoOnline, SessionState
    <3>4. CASE ConnectFails(w)
      <4> DEFINE failed == [session EXCEPT !.phase = "idle", !.connect = FALSE]
      <4>1. /\ session.phase = "connecting" /\ failed.phase = "idle"
            /\ failed \in [phase : Phases, connect : BOOLEAN, reconnect : BOOLEAN,
                           disconnect : BOOLEAN]
        BY <1>1, <3>2, <3>4 DEF ConnectFails, Phases
      <4>2. CASE Reconnects
        <5>1. StartReconnect(failed, Orphaned("connect", awaiting \ {w}))
          BY <3>4, <4>2 DEF ConnectFails
        <5> HIDE DEF failed
        <5> QED
          BY <1>1, <1>4, <2>2, <4>1, <5>1
      <4>3. CASE ~Reconnects
        <5>1. session'.phase = "idle"
          BY <3>4, <4>1, <4>3 DEF ConnectFails
        <5> QED
          BY <1>2, <2>2, <5>1
      <4> QED
        BY <4>2, <4>3
    <3>5. CASE AttemptSucceeds(w)
      <4>1. session'.phase = "connected" /\ session.phase = "reconnecting"
        BY <1>1, <3>2, <3>5 DEF AttemptSucceeds
      <4> QED
        BY <1>1, <2>2, <4>1 DEF Contract!Next, Contract!GoOnline, SessionState
    <3>6. CASE AttemptFails(w)
      <4>1. session'.phase = "idle" \/ session' = session
        BY <1>1, <3>6 DEF AttemptFails
      <4> QED
        BY <1>2, <1>3, <2>2, <4>1
    <3>7. CASE DisconnectSettles(w)
      <4>1. session'.phase = "idle"
        BY <1>1, <3>7 DEF DisconnectSettles
      <4> QED
        BY <1>2, <2>2, <4>1
    <3> QED
      BY <3>1, <3>3, <3>4, <3>5, <3>6, <3>7
  <2> QED
    BY <2>3, <2>4
<1>10. CASE StartInitialConnect
  <2>1. /\ session.phase = "idle" /\ session'.phase = "connecting" /\ intent' = "connect"
    BY <1>1, <1>10 DEF StartInitialConnect
  <2> QED
    BY <2>1 DEF Contract!Next, Contract!Connect, SessionState
<1>11. CASE Disconnect
  <2>1. session'.phase = "disconnecting" /\ intent' = "disconnect"
    BY <1>1, <1>11 DEF Disconnect, DisconnectDuringConnect, DisconnectFromActiveSession,
                       DisconnectDuringReconnect, StartDisconnect
  <2> QED
    BY <2>1 DEF Contract!Next, Contract!Disconnect, SessionState
<1>12. CASE UNCHANGED connectionVars
  BY <1>3, <1>12 DEF connectionVars, sessionVars
<1> QED
  BY <1>6, <1>7, <1>8, <1>9, <1>10, <1>11, <1>12 DEF Next, Macrotask, Microtask

\* The session keeps its promise to the actor, for any number of attempts.
THEOREM KeepsContract == Spec => ImplementsContract
<1>1. Init => Contract!Init
  BY DEF Init, SessionInit, Contract!Init, SessionState
<1>2. IInv /\ [Next]_connectionVars => [Contract!Next]_<<SessionState, intent = "connect">>
  BY ContractStep
<1> QED
  BY <1>1, <1>2, Soundness, PTL DEF Spec, ImplementsContract, Contract!Spec

-----------------------------------------------------------------------------
(* The actor: what the session's steps mean to it. *)

\* No continuation that is live knows yet whether it is connected.
NoneSettled == \A w \in awaiting : w.live /\ w.flow # "disconnect" => w.outcome = "pending"

\* Where only a live continuation was, none is.
LEMMA NoneLiveSettles ==
    ASSUME NoneLive(awaiting)'
    PROVE  NoneSettled'
  BY DEF NoneLive, NoneSettled

\* A live continuation ends its operation, and leaves none that is live.
LEMMA LiveEffect ==
    ASSUME IInv, NEW w \in awaiting, w.live, w.outcome # "pending",
           \/ ConnectSucceeds(w) \/ ConnectFails(w)
           \/ AttemptSucceeds(w) \/ AttemptFails(w)
           \/ DisconnectSettles(w)
    PROVE  /\ NoneSettled'
           /\ session.phase \in {"connecting", "reconnecting", "disconnecting"}
           /\ session.phase = "disconnecting" => session'.phase = "idle"
           /\ session'.phase = "connected" => w.flow # "disconnect"
           /\ Unlimited /\ session.phase = "reconnecting" =>
                session'.phase \in {"reconnecting", "connected"}
<1> DEFINE S == awaiting \ {w}
<1>1. /\ S \in SUBSET Continuations /\ NoneLive(S)
      /\ w.flow = "connect" => session.phase = "connecting"
      /\ w.flow = "attempt" => session.phase = "reconnecting"
      /\ w.flow = "disconnect" => session.phase = "disconnecting"
      /\ w.flow \in {"connect", "attempt", "disconnect"}
  BY LastLive DEF IInv, SessionSound, SessionTypeOK
<1>2. session \in [phase : Phases, connect : BOOLEAN, reconnect : BOOLEAN, disconnect : BOOLEAN]
  BY DEF IInv, SessionSound, SessionTypeOK
<1>3. \A g : NoneLive(Orphaned(g, S)) /\ Orphaned(g, S) \in SUBSET Continuations
  BY <1>1, NoneLiveIs
<1> HIDE DEF S
<1>4. CASE ConnectSucceeds(w)
  <2>1. session'.phase = "connected" /\ awaiting' = Orphaned("connect", S)
    BY <1>2, <1>4 DEF ConnectSucceeds, S
  <2> QED
    BY <1>1, <1>3, <1>4, <2>1, NoneLiveSettles DEF ConnectSucceeds
<1>5. CASE ConnectFails(w)
  <2> DEFINE failed == [session EXCEPT !.phase = "idle", !.connect = FALSE]
             others == Orphaned("connect", S)
  <2>1. NoneLive(others) /\ NoneLive(Orphaned("attempt", others))
    BY <1>3, NoneLiveIs
  <2>2. failed.phase = "idle"
    BY <1>2
  <2>3. /\ awaiting' \in {others, Orphaned("attempt", others)}
        /\ session' \in {failed, [failed EXCEPT !.phase = "reconnecting", !.reconnect = TRUE],
                         [failed EXCEPT !.phase = "idle", !.reconnect = FALSE]}
    BY <1>5 DEF ConnectFails, StartReconnect, S
  <2>4. session'.phase \in {"idle", "reconnecting"}
    BY <1>2, <2>3
  <2>5. NoneSettled'
    BY <2>1, <2>3, NoneLiveSettles
  <2> QED
    BY <1>1, <1>5, <2>4, <2>5 DEF ConnectFails
<1>6. CASE AttemptSucceeds(w)
  <2>1. session'.phase = "connected" /\ awaiting' = Orphaned("attempt", S)
    BY <1>2, <1>6 DEF AttemptSucceeds, S
  <2> QED
    BY <1>1, <1>3, <1>6, <2>1, NoneLiveSettles DEF AttemptSucceeds
<1>7. CASE AttemptFails(w)
  <2>1. awaiting' \in {S, Orphaned("attempt", S)}
    BY <1>7 DEF AttemptFails, S
  <2>2. \/ session'.phase = "idle" /\ ~Unlimited
        \/ session' = session
    BY <1>2, <1>7 DEF AttemptFails
  <2> QED
    BY <1>1, <1>3, <1>7, <2>1, <2>2, NoneLiveSettles DEF AttemptFails
<1>8. CASE DisconnectSettles(w)
  <2>1. session'.phase = "idle" /\ awaiting' = Orphaned("disconnect", S)
    BY <1>2, <1>8 DEF DisconnectSettles, S
  <2> QED
    BY <1>1, <1>3, <1>8, <2>1, NoneLiveSettles DEF DisconnectSettles
<1> QED
  BY <1>4, <1>5, <1>6, <1>7, <1>8

\* A lost connection leaves a session that reconnects or is idle.
LEMMA LostEffect ==
    ASSUME IInv, session.phase = "connected", TransportLost
    PROVE  session'.phase \in {"idle", "reconnecting"} /\ NoneSettled'
<1>1. NoneLive(awaiting) /\ awaiting \in SUBSET Continuations
  BY NoneUnderWay DEF IInv, SessionSound, SessionTypeOK
<1>2. NoneLive(Orphaned("attempt", awaiting))
  BY <1>1, NoneLiveIs
<1>3. session \in [phase : Phases, connect : BOOLEAN, reconnect : BOOLEAN, disconnect : BOOLEAN]
  BY DEF IInv, SessionSound, SessionTypeOK
<1>4. awaiting' \in {awaiting, Orphaned("attempt", awaiting)}
  BY DEF TransportLost, StartReconnect
<1>5. session'.phase \in {"idle", "reconnecting"}
  BY <1>3 DEF TransportLost, StartReconnect
<1> QED
  BY <1>1, <1>2, <1>4, <1>5, NoneLiveSettles

\* What a microtask of the session does: it ends an operation whose outcome was
\* there, or finds the connection lost.
LEMMA MicrotaskEffect ==
    ASSUME IInv, Microtask
    PROVE  /\ NoneSettled => NoneSettled' /\ ~CameOnline
           /\ session' # session => NoneSettled'
           /\ session.phase = "idle" => session'.phase = "idle"
           /\ session.phase = "disconnecting" => session'.phase \in {"disconnecting", "idle"}
           /\ Unlimited /\ session.phase = "reconnecting" =>
                session'.phase \in {"reconnecting", "connected"}
<1>1. CASE Continues
  <2>1. PICK w \in awaiting : Continue(w)
    BY <1>1 DEF Continues
  <2>2. CASE Superseded(w)
    <3>1. session' = session /\ awaiting' \subseteq awaiting
      BY <2>1, <2>2 DEF Continue
    <3> QED
      BY <3>1 DEF NoneSettled, CameOnline
  <2>3. CASE ~Superseded(w)
    <3>1. /\ w.live /\ w.outcome # "pending"
          /\ \/ ConnectSucceeds(w) \/ ConnectFails(w)
             \/ AttemptSucceeds(w) \/ AttemptFails(w)
             \/ DisconnectSettles(w)
      BY <2>1, <2>3 DEF Continue, Superseded
    <3>2. /\ NoneSettled'
          /\ session.phase \in {"connecting", "reconnecting", "disconnecting"}
          /\ session.phase = "disconnecting" => session'.phase = "idle"
          /\ session'.phase = "connected" => w.flow # "disconnect"
          /\ Unlimited /\ session.phase = "reconnecting" =>
               session'.phase \in {"reconnecting", "connected"}
      BY <3>1, LiveEffect
    <3> QED
      BY <3>1, <3>2 DEF NoneSettled, CameOnline
  <2> QED
    BY <2>2, <2>3
<1>2. CASE ErrorCheckRuns
  <2>1. CASE session.phase = "connected" /\ TransportLost
    BY <2>1, LostEffect DEF CameOnline
  <2>2. CASE awaiting' = Woken(awaiting) /\ session' = session
    <3>1. SUFFICES ASSUME NoneSettled, NEW v \in awaiting', v.live, v.flow # "disconnect"
                   PROVE  v.outcome = "pending"
      BY <2>2 DEF CameOnline, NoneSettled
    <3>2. EventEffect
      BY <1>2, EventSound DEF ErrorCheckRuns, IInv
    <3>3. PICK w \in awaiting :
            /\ v.flow = w.flow /\ (v.live <=> w.live)
            /\ w.outcome = "pending" /\ w.flow # "disconnect" /\ transport.connect = "pending"
                 => v.outcome = transport'.connect
      BY <2>2, <3>2, WokenIs DEF EventEffect, IInv, SessionSound, SessionTypeOK
    <3>4. w.outcome = "pending" /\ transport.connect = "pending"
      BY <3>1, <3>3 DEF NoneSettled, IInv, SessionSound, ContinuationsTold, Told
    <3>5. transport' = transport
      BY <1>2, <3>4 DEF ErrorCheckRuns, ErrorChecked, IInv, TransportSound, TransportConsistent
    <3> QED
      BY <3>1, <3>3, <3>4, <3>5
  <2> QED
    BY <1>2, <2>1, <2>2 DEF ErrorCheckRuns, TransportReaction
<1> QED
  BY <1>1, <1>2 DEF Microtask

\* What an event does: it changes the session when a connection is lost only.
LEMMA MacrotaskEffect ==
    ASSUME IInv, Macrotask
    PROVE  \/ session' = session
           \/ /\ session.phase = "connected" /\ session'.phase \in {"idle", "reconnecting"}
              /\ NoneSettled'
<1>1. CASE TransportTurn(SocketEvent)
  <2>1. CASE session.phase = "connected" /\ TransportLost
    BY <2>1, LostEffect
  <2> QED
    BY <1>1, <2>1 DEF TransportTurn, TransportReaction
<1>2. CASE ReconnectAttempt
  BY <1>2 DEF ReconnectAttempt
<1> QED
  BY <1>1, <1>2 DEF Macrotask

\* disconnect() of a session that is connected.
LEMMA DisconnectEffect ==
    ASSUME IInv, Online, Disconnect
    PROVE  session'.phase = "disconnecting" /\ NoneSettled'
<1>1. /\ session \in [phase : Phases, connect : BOOLEAN, reconnect : BOOLEAN,
                      disconnect : BOOLEAN]
      /\ awaiting \in SUBSET Continuations /\ NoneLive(awaiting)
      /\ Told(awaiting, transport, errorCheck) /\ transport.state = "connected"
  BY NoneUnderWay DEF Online, IInv, SessionSound, SessionTypeOK, ContinuationsTold,
                      SocketFollowsSession
<1>2. DisconnectFromActiveSession
  BY DEF Online, Disconnect, DisconnectDuringConnect, DisconnectDuringReconnect
<1>3. PICK outcome \in {"pending", "resolved", "rejected"} :
        /\ TransportDisconnect(outcome)
        /\ awaiting' = Woken(Orphaned("disconnect", awaiting)) \cup {Awaits("disconnect", outcome)}
  BY <1>2 DEF DisconnectFromActiveSession, StartDisconnect
<1>4. session'.phase = "disconnecting"
  BY <1>1, <1>2 DEF DisconnectFromActiveSession, StartDisconnect
<1>5. /\ Orphaned("disconnect", awaiting) \in SUBSET Continuations
      /\ NoneLive(Orphaned("disconnect", awaiting))
  BY <1>1, NoneLiveIs
<1>6. /\ transport.connect # "pending"
      /\ transport.disconnect # "pending"
  BY <1>1 DEF IInv, TransportSound, TransportConsistent
<1>7. \A g : ~LiveIn(Woken(Orphaned("disconnect", awaiting)), g)
  BY <1>5, <1>6, WokenIs, NoneLiveIs
<1>8. NoneSettled'
  BY <1>3, <1>7 DEF NoneSettled, Awaits, LiveIn
<1> QED
  BY <1>4, <1>8

-----------------------------------------------------------------------------
(* The actor: what its invariant says. *)

AsksAt == {"boot", "replay", "report"}
LeavesAt == {"disconnect", "refused"}

Silent == ~actor.retryTimer /\ ~heartbeat.loop /\ ~heartbeat.options

\* The coroutine goes on to start the heartbeat loop or the retry timer.
Promising(flow) ==
    \/ flow.got \in {"Accepted", "Pending"}
    \/ flow.at = "replay" /\ flow.got = "ok"

Leaving == \E f \in Coroutines : flows[f].at \in LeavesAt

\* From the time a coroutine has stopped the runtime until it finds the session
\* disconnected, nothing starts the runtime again.
LeavingInv ==
    \A f \in Coroutines : flows[f].at \in LeavesAt =>
        /\ session.phase = IF flows[f].got = "none" THEN "disconnecting" ELSE "idle"
        /\ Silent
        /\ \A g \in Coroutines : ~Promising(flows[g])

\* Coroutines go on before the session does: one that has been told has been
\* told the truth, and while the session is connected no two have been
\* answered.
ToldInv ==
    \A f \in Coroutines : flows[f].got # "none" =>
        /\ NoneSettled
        /\ flows[f].at \in {"connect", "rejoin"} /\ flows[f].got = "failed" => ~Online
        /\ flows[f].at \in AsksAt /\ Online =>
              \A g \in Coroutines \ {f} : flows[g].got = "none"

\* A stopped actor that is not silent is at the reports of a startup that went
\* on after the stop: it will be running.
SilenceInv ==
    actor.status = "stopped" => Silent \/ \E f \in Coroutines : flows[f].at = "report"

\* What an await may bring: a boot is not answered with a mere success, a
\* connect with nothing else.
Fits(flow) ==
    /\ flow.at = "boot" => flow.got # "ok"
    /\ flow.at \in {"connect", "rejoin"} \cup LeavesAt => flow.got \in {"none", "ok", "failed"}

OutcomesFit == \A f \in Coroutines : Fits(flows[f])

\* The inductive invariant of the actor over its session.
ActorInv == IInv /\ ActorTypeOK /\ OutcomesFit /\ LeavingInv /\ ToldInv /\ SilenceInv

-----------------------------------------------------------------------------
(* The actor: what a coroutine hears of another's step. *)

LEMMA HeardIs ==
    ASSUME NEW flow \in Flows
    PROVE  /\ Heard(flow) \in Flows
           /\ Heard(flow).at = flow.at /\ Heard(flow).of = flow.of
           /\ session' = session => Heard(flow) = flow
           /\ Heard(flow).got # flow.got =>
                \/ /\ flow.at \in {"connect", "rejoin"}
                   /\ Heard(flow).got = IF session'.phase = "connected" THEN "ok" ELSE "failed"
                \/ /\ flow.at \in LeavesAt /\ session.disconnect /\ ~session'.disconnect
                   /\ Heard(flow).got = IF DisconnectFails THEN "failed" ELSE "ok"
                \/ flow.at \in AsksAt /\ Heard(flow).got = "failed" /\ flow.got = "none" /\ Lost
           /\ flow.at \in LeavesAt /\ session.disconnect /\ ~session'.disconnect =>
                Heard(flow).got = IF DisconnectFails THEN "failed" ELSE "ok"
<1>1. \A o \in Outcomes : /\ [flow EXCEPT !.got = o] \in Flows
                          /\ [flow EXCEPT !.got = o].at = flow.at
                          /\ [flow EXCEPT !.got = o].of = flow.of
                          /\ [flow EXCEPT !.got = o].got = o
  BY DEF Flows
<1>2. \/ Heard(flow) = flow
      \/ /\ flow.at \in {"connect", "rejoin"} /\ session' # session
         /\ Heard(flow) = [flow EXCEPT !.got =
                             IF session'.phase = "connected" THEN "ok" ELSE "failed"]
      \/ /\ flow.at \in LeavesAt /\ session.disconnect /\ ~session'.disconnect
         /\ Heard(flow) = [flow EXCEPT !.got = IF DisconnectFails THEN "failed" ELSE "ok"]
      \/ /\ flow.at \in AsksAt /\ flow.got = "none" /\ Lost
         /\ Heard(flow) = [flow EXCEPT !.got = "failed"]
  BY DEF Heard, AsksAt, LeavesAt
<1>3. flow.at \in LeavesAt /\ session.disconnect /\ ~session'.disconnect =>
        Heard(flow) = [flow EXCEPT !.got = IF DisconnectFails THEN "failed" ELSE "ok"]
  BY DEF Heard, LeavesAt
<1>4. Lost => session' # session
  BY DEF Lost
<1>5. {"ok", "failed"} \subseteq Outcomes
  BY DEF Outcomes
<1> QED
  BY ZenonT(60), <1>1, <1>2, <1>3, <1>4, <1>5

\* Whatever the actor does, the session takes a step of its own or none.
LEMMA ActorStepsSession ==
    ASSUME ActorTypeOK, OutcomesFit, ActorNext
    PROVE  [Next]_connectionVars
<1>1. CASE SessionMoves
  BY <1>1 DEF SessionMoves, Next
<1>2. ASSUME NEW f \in Coroutines, NEW a, NEW of, NEW place, NEW done, StopThen(f, a, of, place, done)
      PROVE  [Next]_connectionVars
  BY <1>2 DEF StopThen, Next
<1>3. ASSUME NEW f \in Coroutines, NEW a, NEW h, Caught(f, a, h)
      PROVE  [Next]_connectionVars
  BY <1>2, <1>3 DEF Caught, StopAfterFailure
<1>4. ASSUME NEW f \in Coroutines, NEW status \in {"Accepted", "Pending", "Rejected"},
             BootReturns(f, status)
      PROVE  [Next]_connectionVars
  BY <1>2, <1>3, <1>4 DEF BootReturns, CompleteAcceptedBoot, StopAfterFailure
<1>5. ASSUME NEW f \in Coroutines, Resume(f)
      PROVE  [Next]_connectionVars
  <2>1. CASE ConnectReturns(f)
    BY <1>3, <2>1 DEF ConnectReturns
  <2>2. CASE BootAnswered(f)
    <3>1. flows[f].got \in {"failed", "Accepted", "Pending", "Rejected"}
      BY <2>2 DEF ActorTypeOK, OutcomesFit, Fits, BootAnswered, Flows, Outcomes
    <3>2. CASE flows[f].got = "failed"
      BY <1>3, <2>2, <3>2 DEF BootAnswered
    <3>3. CASE flows[f].got # "failed" /\ BootReturns(f, flows[f].got)
      BY <1>4, <3>1, <3>3
    <3> QED
      BY <2>2, <3>2, <3>3 DEF BootAnswered
  <2>3. CASE ReplayReturns(f)
    BY <1>3, <1>4, <2>3 DEF ReplayReturns
  <2>4. CASE ReportReturns(f)
    BY <1>3, <2>4 DEF ReportReturns
  <2>5. CASE DisconnectReturns(f)
    BY <1>2, <2>5 DEF DisconnectReturns, StopAfterFailure
  <2>6. CASE DisposeFinishes(f)
    BY <2>6 DEF DisposeFinishes
  <2> QED
    BY <1>5, <2>1, <2>2, <2>3, <2>4, <2>5, <2>6 DEF Resume
<1>6. ASSUME NEW f \in Coroutines, Start(f) \/ Stop(f) \/ Dispose(f) \/ Answer(f)
      PROVE  [Next]_connectionVars
  BY <1>2, <1>6 DEF Start, Stop, Dispose, Answer, Next
<1>7. CASE TriggeredBootAnswered \/ BootRetryTimer \/ HeartbeatLoopStops
  BY <1>7 DEF TriggeredBootAnswered, BootRetryTimer, HeartbeatLoopStops
<1> QED
  BY <1>1, <1>5, <1>6, <1>7 DEF ActorNext

-----------------------------------------------------------------------------
(* The actor: its invariant is kept. *)

\* A session that stays is heard of by nobody.
LEMMA StaysUnheard ==
    ASSUME ActorTypeOK, UNCHANGED connectionVars, NEW f \in Coroutines, NEW new \in Flows,
           Advance(f, new)
    PROVE  /\ flows' = [flows EXCEPT ![f] = new]
           /\ flows' \in [Coroutines -> Flows]
           /\ UNCHANGED <<session, awaiting>>
           /\ NoneSettled' <=> NoneSettled
<1>1. session' = session /\ awaiting' = awaiting
  BY DEF connectionVars, sessionVars
<1>2. \A g \in Coroutines : flows[g] \in Flows /\ Heard(flows[g]) = flows[g]
  BY <1>1, HeardIs DEF ActorTypeOK
<1>3. flows' = [flows EXCEPT ![f] = new]
  BY <1>2 DEF Advance, ActorTypeOK
<1>4. NoneSettled' <=> NoneSettled
  BY <1>1 DEF NoneSettled
<1> QED
  BY <1>1, <1>3, <1>4 DEF ActorTypeOK

\* A coroutine goes on, or a call begins, and the session stays.
LEMMA StayKeeps ==
    ASSUME ActorInv, IInv', UNCHANGED connectionVars, NEW f \in Coroutines, NEW new \in Flows,
           Advance(f, new), ActorTypeOK',
           new.at \notin LeavesAt, Fits(new),
           new.got # "none" => flows[f].got # "none" \/ AllQuiet,
           new.got # "none" /\ Online => AllQuiet,
           new.at \in {"connect", "rejoin"} /\ new.got = "failed" => ~Online,
           Promising(new) => Online,
           Leaving => Silent', SilenceInv'
    PROVE  ActorInv'
<1>1. /\ flows' = [flows EXCEPT ![f] = new]
      /\ UNCHANGED <<session, awaiting>>
      /\ NoneSettled' <=> NoneSettled
      /\ flows \in [Coroutines -> Flows]
  BY StaysUnheard DEF ActorInv, ActorTypeOK
<1>2. \A g \in Coroutines : flows'[g] = IF g = f THEN new ELSE flows[g]
  BY <1>1
<1>3. OutcomesFit'
  BY <1>2 DEF ActorInv, OutcomesFit, Fits
<1>4. LeavingInv'
  <2>1. SUFFICES ASSUME NEW g \in Coroutines, flows'[g].at \in LeavesAt
                 PROVE  /\ session.phase = IF flows'[g].got = "none" THEN "disconnecting" ELSE "idle"
                        /\ Silent'
                        /\ \A h \in Coroutines : ~Promising(flows'[h])
    BY <1>1 DEF LeavingInv, Promising
  <2>2. g # f /\ flows[g].at \in LeavesAt /\ flows'[g] = flows[g]
    BY <1>2, <2>1
  <2>3. ~Online /\ Leaving
    BY <2>2 DEF Online, Leaving, ActorInv, LeavingInv
  <2> QED
    BY <1>2, <2>2, <2>3 DEF ActorInv, LeavingInv
<1>5. ToldInv'
  <2>1. SUFFICES ASSUME NEW g \in Coroutines, flows'[g].got # "none"
                 PROVE  /\ NoneSettled
                        /\ flows'[g].at \in {"connect", "rejoin"} /\ flows'[g].got = "failed"
                             => ~Online
                        /\ flows'[g].at \in AsksAt /\ Online =>
                              \A h \in Coroutines \ {g} : flows'[h].got = "none"
    BY <1>1 DEF ToldInv, Online
  <2>2. AllQuiet => NoneSettled /\ \A h \in Coroutines : flows[h].got = "none"
    BY DEF AllQuiet, Quiet, NoneSettled
  <2>3. NoneSettled
    BY <1>2, <2>1, <2>2 DEF ActorInv, ToldInv
  <2>4. CASE g = f
    BY <1>2, <2>1, <2>2, <2>3, <2>4
  <2>5. CASE g # f
    BY <1>2, <2>1, <2>2, <2>3, <2>5 DEF ActorInv, ToldInv
  <2> QED
    BY <2>4, <2>5
<1> QED
  BY <1>3, <1>4, <1>5 DEF ActorInv

\* A coroutine stops the runtime of a connected session and disconnects it.
LEMMA LeaveKeeps ==
    ASSUME ActorInv, IInv', Online, Disconnect, NEW f \in Coroutines, NEW new \in Flows,
           Advance(f, new), new.at \in LeavesAt, new.got = "none", Silent',
           \A g \in Coroutines \ {f} : ~Promising(flows[g]), ActorTypeOK'
    PROVE  ActorInv'
<1>1. session'.phase = "disconnecting" /\ NoneSettled'
  BY DisconnectEffect DEF ActorInv
<1>2. \A g \in Coroutines : flows[g] \in Flows /\ flows[g].at \notin LeavesAt
  BY DEF ActorInv, ActorTypeOK, LeavingInv, Online
<1>3. \A g \in Coroutines : flows'[g] = IF g = f THEN new ELSE Heard(flows[g])
  BY DEF Advance
<1>4. \A g \in Coroutines : g # f =>
         /\ flows'[g].at = flows[g].at
         /\ flows'[g].got \in {flows[g].got, "failed"}
  BY <1>1, <1>2, <1>3, HeardIs
<1>5. OutcomesFit'
  BY <1>3, <1>4 DEF ActorInv, OutcomesFit, Fits, LeavesAt
<1>6. LeavingInv'
  <2>1. \A g \in Coroutines : ~Promising(flows'[g])
    BY <1>3, <1>4 DEF Promising, LeavesAt
  <2>2. \A g \in Coroutines : flows'[g].at \in LeavesAt => flows'[g].got = "none"
    BY <1>2, <1>3, <1>4
  <2> QED
    BY <1>1, <2>1, <2>2 DEF LeavingInv, Promising
<1>7. ToldInv'
  BY <1>1 DEF ToldInv, Online
<1>8. SilenceInv'
  BY DEF SilenceInv, Silent
<1> QED
  BY <1>5, <1>6, <1>7, <1>8 DEF ActorInv

\* The session moves and its listeners run.
LEMMA MovesKeep ==
    ASSUME ActorInv, IInv', SessionMoves
    PROVE  ActorInv'
<1>1. /\ \/ session' = session
         \/ NoneSettled'
      /\ (\E f \in Coroutines : flows[f].got # "none") => NoneSettled' /\ ~CameOnline
      /\ session.phase = "idle" => session'.phase = "idle"
      /\ session.phase = "disconnecting" => session'.phase \in {"disconnecting", "idle"}
  <2>1. CASE Microtask
    BY <2>1, MicrotaskEffect DEF ActorInv, ToldInv
  <2>2. CASE AllQuiet /\ Macrotask
    <3>1. \A f \in Coroutines : flows[f].got = "none"
      BY <2>2 DEF AllQuiet
    <3> QED
      BY <2>2, <3>1, MacrotaskEffect DEF ActorInv
  <2> QED
    BY <2>1, <2>2 DEF SessionMoves
<1> DEFINE new == Asking("retry", "boot", 0)
<1>2. \/ AllHear
      \/ /\ CameOnline
         /\ \E f \in Coroutines : IsFree(f) /\ Advance(f, new)
  BY DEF SessionMoves, SessionReaction, RetryBoot
<1>3. CameOnline =>
        /\ new \in Flows /\ new.at = "boot" /\ new.got = "none"
  BY ActorAssumption DEF CameOnline, Asking, Flows, Places, Outcomes
<1> HIDE DEF new
<1>4. flows \in [Coroutines -> Flows]
  BY DEF ActorInv, ActorTypeOK
<1>5. PICK r \in SUBSET Coroutines :
        /\ \A g \in Coroutines : flows'[g] = IF g \in r THEN new ELSE Heard(flows[g])
        /\ r # {} => CameOnline
        /\ \A g \in r : flows[g].at = "free"
  <2> DEFINE R(r) == /\ \A g \in Coroutines : flows'[g] = IF g \in r THEN new ELSE Heard(flows[g])
                     /\ r # {} => CameOnline
                     /\ \A g \in r : flows[g].at = "free"
  <2>1. CASE AllHear
    <3>1. R({})
      BY <2>1 DEF AllHear
    <3> QED
      BY <3>1, {} \in SUBSET Coroutines
  <2>2. CASE CameOnline /\ \E f \in Coroutines : IsFree(f) /\ Advance(f, new)
    <3>1. PICK f \in Coroutines : IsFree(f) /\ Advance(f, new)
      BY <2>2
    <3>2. R({f})
      BY <2>2, <3>1 DEF Advance, IsFree
    <3>3. {f} \in SUBSET Coroutines
      BY <3>1
    <3> QED
      BY <3>2, <3>3
  <2> QED
    BY <1>2, <2>1, <2>2
<1>6. flows' \in [Coroutines -> Flows]
  <2>1. \A g \in Coroutines : Heard(flows[g]) \in Flows
    BY <1>4, HeardIs
  <2>2. flows' = [g \in Coroutines |-> flows'[g]]
    BY <1>2 DEF AllHear, Advance
  <2> QED
    BY <1>3, <1>5, <2>1, <2>2
<1>7. /\ actor' = actor /\ registration' = registration
      /\ heartbeat' \in [loop : BOOLEAN, options : BOOLEAN]
      /\ heartbeat'.options = heartbeat.options
      /\ ~heartbeat.options /\ ~heartbeat.loop => ~heartbeat'.loop
  BY DEF SessionMoves, SessionReaction, ActorInv, ActorTypeOK
<1>8. ActorTypeOK'
  BY <1>6, <1>7 DEF ActorInv, ActorTypeOK
<1>9. /\ OperationsNamed /\ OperationsNamed'
  BY DEF ActorInv, IInv, SessionSound
<1>10. \A g \in Coroutines : g \notin r =>
         /\ flows'[g].at = flows[g].at
         /\ session' = session => flows'[g] = flows[g]
         /\ flows[g].at \in AsksAt => flows'[g].got = flows[g].got
              \/ (flows'[g].got = "failed" /\ ~Online')
         /\ flows[g].at \notin AsksAt => flows'[g].got \in {flows[g].got, "ok", "failed"}
         /\ Online /\ Online' => flows'[g].got = flows[g].got
         /\ flows[g].at \in {"connect", "rejoin"} /\ flows'[g].got = "failed" =>
              flows[g].got = "failed" \/ ~Online'
         /\ flows[g].at \in LeavesAt /\ session.disconnect /\ ~session'.disconnect =>
              flows'[g].got # "none"
         /\ flows[g].at \in LeavesAt /\ flows'[g].got # flows[g].got =>
              session.disconnect /\ ~session'.disconnect
  <2> SUFFICES ASSUME NEW g \in Coroutines, g \notin r
               PROVE  /\ flows'[g].at = flows[g].at
                      /\ session' = session => flows'[g] = flows[g]
                      /\ flows[g].at \in AsksAt => flows'[g].got = flows[g].got
                           \/ (flows'[g].got = "failed" /\ ~Online')
                      /\ flows[g].at \notin AsksAt => flows'[g].got \in {flows[g].got, "ok", "failed"}
                      /\ Online /\ Online' => flows'[g].got = flows[g].got
                      /\ flows[g].at \in {"connect", "rejoin"} /\ flows'[g].got = "failed" =>
                           flows[g].got = "failed" \/ ~Online'
                      /\ flows[g].at \in LeavesAt /\ session.disconnect /\ ~session'.disconnect =>
                           flows'[g].got # "none"
                      /\ flows[g].at \in LeavesAt /\ flows'[g].got # flows[g].got =>
                           session.disconnect /\ ~session'.disconnect
    OBVIOUS
  <2>1. flows[g] \in Flows /\ flows'[g] = Heard(flows[g])
    BY <1>4, <1>5
  <2>2. Online => ~session.connect /\ ~session.reconnect /\ ~session.disconnect
    BY <1>9 DEF Online, OperationsNamed
  <2>3. Online /\ Online' => flows'[g] = flows[g]
    BY <2>1, <2>2 DEF Heard, Lost, Online
  <2>4. Lost => ~Online'
    BY DEF Lost, Online
  <2> QED
    BY <2>1, <2>3, <2>4, HeardIs DEF Online, AsksAt, LeavesAt
<1>11. OutcomesFit'
  BY <1>3, <1>5, <1>10 DEF ActorInv, OutcomesFit, Fits, AsksAt
<1>12. LeavingInv'
  <2>1. SUFFICES ASSUME NEW g \in Coroutines, flows'[g].at \in LeavesAt
                 PROVE  /\ session'.phase = IF flows'[g].got = "none" THEN "disconnecting" ELSE "idle"
                        /\ Silent'
                        /\ \A h \in Coroutines : ~Promising(flows'[h])
    BY DEF LeavingInv, Promising
  <2>2. g \notin r /\ flows[g].at \in LeavesAt
    BY <1>3, <1>5, <1>10, <2>1 DEF LeavesAt
  <2>3. /\ session.phase = IF flows[g].got = "none" THEN "disconnecting" ELSE "idle"
        /\ Silent /\ \A h \in Coroutines : ~Promising(flows[h])
    BY <2>2 DEF ActorInv, LeavingInv
  <2>4. session'.phase = IF flows'[g].got = "none" THEN "disconnecting" ELSE "idle"
    BY <1>1, <1>9, <1>10, <2>2, <2>3 DEF OperationsNamed
  <2>5. Silent'
    BY <1>7, <2>3 DEF Silent
  <2>6. r = {}
    BY <1>1, <1>5, <2>3 DEF CameOnline
  <2>7. \A h \in Coroutines : ~Promising(flows'[h])
    BY <1>10, <2>3, <2>6 DEF Promising, AsksAt
  <2> QED
    BY <2>4, <2>5, <2>7
<1>13. ToldInv'
  <2>1. SUFFICES ASSUME NEW g \in Coroutines, flows'[g].got # "none"
                 PROVE  /\ NoneSettled'
                        /\ flows'[g].at \in {"connect", "rejoin"} /\ flows'[g].got = "failed"
                             => ~Online'
                        /\ flows'[g].at \in AsksAt /\ Online' =>
                              \A h \in Coroutines \ {g} : flows'[h].got = "none"
    BY DEF ToldInv
  <2>2. g \notin r
    BY <1>3, <1>5, <2>1
  <2>3. NoneSettled'
    BY <1>1, <1>10, <2>1, <2>2
  <2>4. flows'[g].at \in {"connect", "rejoin"} /\ flows'[g].got = "failed" => ~Online'
    <3>1. SUFFICES ASSUME flows[g].at \in {"connect", "rejoin"}, flows[g].got = "failed", Online'
                   PROVE  FALSE
      BY <1>10, <2>2
    <3>2. ~Online
      BY <3>1 DEF ActorInv, ToldInv
    <3> QED
      BY <1>1, <3>1, <3>2 DEF Online, CameOnline
  <2>5. ASSUME flows'[g].at \in AsksAt, Online', NEW h \in Coroutines \ {g}
        PROVE  flows'[h].got = "none"
    <3>1. flows[g].at \in AsksAt /\ flows[g].got # "none"
      BY <1>10, <2>1, <2>2, <2>5
    <3>2. Online /\ r = {}
      BY <1>1, <1>5, <2>5, <3>1 DEF CameOnline, Online
    <3> QED
      BY <1>10, <2>5, <3>1, <3>2 DEF ActorInv, ToldInv
  <2> QED
    BY <2>3, <2>4, <2>5
<1>14. SilenceInv'
  <2>1. Silent => Silent'
    BY <1>7 DEF Silent
  <2>2. \A f \in Coroutines : flows[f].at = "report" => flows'[f].at = "report"
    BY <1>5, <1>10
  <2> QED
    BY <1>7, <2>1, <2>2 DEF ActorInv, SilenceInv
<1> QED
  BY <1>8, <1>11, <1>12, <1>13, <1>14 DEF ActorInv

ActorRecords == [status : Statuses, disposed : BOOLEAN, connecting : BOOLEAN, retryTimer : BOOLEAN]
Heartbeats == [loop : BOOLEAN, options : BOOLEAN]

\* Nothing but the actor's status, its timer and its loop changes.
LEMMA UnchangedKeeps ==
    ASSUME ActorInv, IInv', UNCHANGED <<connectionVars, flows>>, ActorTypeOK',
           Leaving => Silent', SilenceInv'
    PROVE  ActorInv'
<1>1. session' = session /\ awaiting' = awaiting /\ flows' = flows
  BY DEF connectionVars, sessionVars
<1>2. \A f \in Coroutines : Promising(flows[f])' <=> Promising(flows[f])
  BY <1>1 DEF Promising
<1>3. OutcomesFit' /\ LeavingInv'
  BY <1>1, <1>2 DEF ActorInv, OutcomesFit, Fits, LeavingInv, Leaving
<1>4. ToldInv'
  BY <1>1 DEF ActorInv, ToldInv, NoneSettled, Online
<1> QED
  BY <1>3, <1>4 DEF ActorInv

\* The runtime is stopped, and the session disconnected or the actor stopped.
LEMMA StopKeeps ==
    ASSUME ActorInv, IInv', NEW f \in Coroutines, NEW a \in ActorRecords,
           NEW of \in {"start", "retry", "stop", "dispose"}, NEW place \in LeavesAt,
           NEW done \in {Free, Finishing}, StopThen(f, a, of, place, done),
           flows[f].got # "none" \/ AllQuiet,
           Online => \A g \in Coroutines \ {f} : ~Promising(flows[g]),
           registration' \in {"none", "Accepted", "Pending", "Rejected"}
    PROVE  ActorInv'
<1> DEFINE waits == [of |-> of, at |-> place, got |-> "none", left |-> 0]
<1>1. waits \in Flows /\ waits.at = place /\ waits.got = "none"
  BY ActorAssumption DEF Flows, Places, Outcomes, LeavesAt
<1>2. /\ done \in Flows /\ done.at \in {"free", "finish"} /\ done.got \in {"none", "ok"}
  BY ActorAssumption DEF Flows, Places, Outcomes, Free, Finishing
<1>3. Silent' /\ heartbeat' \in Heartbeats /\ actor' \in ActorRecords
  BY DEF StopThen, RuntimeStopped, Silent, ActorRecords, Heartbeats, Statuses
<1>4. \A g \in Coroutines : Heard(flows[g]) \in Flows
  BY HeardIs DEF ActorInv, ActorTypeOK
<1>5. CASE Online
  <2>1. Disconnect /\ Advance(f, waits)
    BY <1>5 DEF StopThen
  <2> HIDE DEF waits
  <2>2. flows' \in [Coroutines -> Flows]
    BY <1>1, <1>4, <2>1 DEF Advance
  <2>3. ActorTypeOK'
    BY <1>3, <2>2 DEF ActorTypeOK, ActorRecords, Heartbeats
  <2> QED
    BY <1>1, <1>3, <1>5, <2>1, <2>3, LeaveKeeps
<1>6. CASE ~Online
  <2>1. UNCHANGED connectionVars /\ Advance(f, done)
    BY <1>6 DEF StopThen
  <2>2. flows' \in [Coroutines -> Flows]
    BY <1>2, <1>4, <2>1 DEF Advance
  <2>3. ActorTypeOK'
    BY <1>3, <2>2 DEF ActorTypeOK, ActorRecords, Heartbeats
  <2>4. SilenceInv' /\ ~Promising(done)
    BY <1>2, <1>3 DEF SilenceInv, Promising, Silent
  <2> QED
    BY <1>2, <1>3, <1>6, <2>1, <2>3, <2>4, StayKeeps DEF Fits, LeavesAt
<1> QED
  BY <1>5, <1>6

\* A coroutine goes on with flow `new', and the session stays: its type, and
\* what follows when the runtime is not started.
LEMMA GoesOnTypes ==
    ASSUME ActorTypeOK, UNCHANGED connectionVars, NEW f \in Coroutines, NEW new \in Flows,
           Advance(f, new), actor' \in ActorRecords, heartbeat' \in Heartbeats,
           registration' \in {"none", "Accepted", "Pending", "Rejected"}
    PROVE  /\ ActorTypeOK'
           /\ flows[f].at # "report" /\ SilenceInv /\ (Silent => Silent')
                /\ actor'.status = actor.status => SilenceInv'
<1>1. flows' = [flows EXCEPT ![f] = new] /\ flows' \in [Coroutines -> Flows]
  BY StaysUnheard
<1>2. ActorTypeOK'
  BY <1>1 DEF ActorTypeOK, ActorRecords, Heartbeats
<1>3. ASSUME flows[f].at # "report"
      PROVE  \A g \in Coroutines : flows[g].at = "report" => flows'[g].at = "report"
  BY <1>1, <1>3 DEF ActorTypeOK
<1> QED
  BY <1>2, <1>3 DEF SilenceInv

LEMMA AskingIs ==
    ASSUME UNCHANGED connectionVars, NEW of \in {"start", "retry", "stop", "dispose"}, NEW place \in AsksAt,
           NEW left \in 0..Connectors
    PROVE  /\ Asking(of, place, left) \in Flows
           /\ Asking(of, place, left).at = place
           /\ Asking(of, place, left).got = IF Online THEN "none" ELSE "failed"
  BY DEF connectionVars, sessionVars, Asking, Flows, Places, Outcomes, AsksAt, Online

\* Free, after a coroutine that had no part in the reports.
LEMMA DoneKeeps ==
    ASSUME ActorInv, IInv', UNCHANGED connectionVars, NEW f \in Coroutines, Done(f),
           actor' \in ActorRecords, heartbeat' \in Heartbeats,
           registration' \in {"none", "Accepted", "Pending", "Rejected"},
           Leaving => Silent',
           \/ actor'.status # "stopped"
           \/ flows[f].at # "report" /\ (Silent => Silent') /\ actor'.status = actor.status
    PROVE  ActorInv'
<1>1. Free \in Flows /\ Free.at = "free" /\ Free.got = "none"
  BY ActorAssumption DEF Free, Flows, Places, Outcomes
<1>2. ActorTypeOK' /\ SilenceInv'
  BY <1>1, GoesOnTypes DEF Done, ActorInv, SilenceInv
<1> QED
  BY <1>1, <1>2, StayKeeps DEF Fits, Done, LeavesAt, Promising

LEMMA CaughtKeeps ==
    ASSUME ActorInv, IInv', NEW f \in Coroutines, NEW a \in ActorRecords, NEW h \in Heartbeats,
           Caught(f, a, h), flows[f].got # "none",
           \/ flows[f].at \in AsksAt
           \/ flows[f].at \in {"connect", "rejoin"} /\ flows[f].got = "failed",
           registration' \in {"none", "Accepted", "Pending", "Rejected"}
    PROVE  ActorInv'
<1>1. CASE flows[f].of = "start" /\ session.phase = "reconnecting"
  <2>1. ~Leaving
    BY <1>1 DEF ActorInv, LeavingInv, Leaving
  <2>2. UNCHANGED connectionVars /\ Done(f)
        /\ actor' \in ActorRecords /\ actor'.status = "starting" /\ heartbeat' = h
    BY <1>1 DEF Caught, ActorRecords, Statuses
  <2> QED
    BY <2>1, <2>2, DoneKeeps
<1>2. CASE ~(flows[f].of = "start" /\ session.phase = "reconnecting")
  <2>1. StopThen(f, a, flows[f].of, "disconnect", Free)
    BY <1>2 DEF Caught, StopAfterFailure
  <2>2. Online => \A g \in Coroutines \ {f} : ~Promising(flows[g])
    BY DEF ActorInv, ToldInv, Promising
  <2>3. flows[f].of \in {"start", "retry", "stop", "dispose"}
    BY DEF ActorInv, ActorTypeOK, Flows
  <2> QED
    BY <2>1, <2>2, <2>3, StopKeeps DEF LeavesAt
<1> QED
  BY <1>1, <1>2

LEMMA BootReturnsKeeps ==
    ASSUME ActorInv, IInv', NEW f \in Coroutines, NEW status \in {"Accepted", "Pending", "Rejected"},
           BootReturns(f, status), flows[f].got # "none", flows[f].at \in {"boot", "replay"},
           status # "Rejected" => Promising(flows[f]),
           registration' \in {"none", "Accepted", "Pending", "Rejected"}
    PROVE  ActorInv'
<1>1. /\ actor \in ActorRecords /\ heartbeat \in Heartbeats
      /\ Leaving => Silent
      /\ status # "Rejected" => ~Leaving
      /\ flows[f].of \in {"start", "retry", "stop", "dispose"}
  BY DEF ActorInv, ActorTypeOK, ActorRecords, Heartbeats, LeavingInv, Leaving, Flows
<1>2. CASE flows[f].of = "retry" /\ (actor.status # "starting" \/ actor.disposed)
  <2>1. UNCHANGED <<connectionVars, actor, heartbeat>> /\ Done(f)
    BY <1>2 DEF BootReturns
  <2>2. Silent' <=> Silent
    BY <2>1 DEF Silent
  <2> QED
    BY <1>1, <2>1, <2>2, DoneKeeps
<1>3. CASE ~(flows[f].of = "retry" /\ (actor.status # "starting" \/ actor.disposed))
  <2>1. CASE status = "Accepted"
    <3>1. CompleteAcceptedBoot(f)
      BY <1>3, <2>1 DEF BootReturns
    <3>2. CASE registration' = "Accepted"
      <4> DEFINE new == Asking(flows[f].of, "report", Connectors)
      <4>5. heartbeat' = [loop |-> TRUE, options |-> TRUE]
        BY <3>1, <3>2 DEF CompleteAcceptedBoot
      <4>1. /\ UNCHANGED connectionVars /\ actor' = actor /\ Advance(f, new)
            /\ heartbeat' \in Heartbeats
        <5>1. heartbeat' \in Heartbeats
          BY <4>5 DEF Heartbeats
        <5> QED
          BY <3>1, <3>2, <5>1 DEF CompleteAcceptedBoot
      <4>2. /\ new \in Flows /\ new.at = "report"
            /\ new.got = IF Online THEN "none" ELSE "failed"
        BY <1>1, <4>1, AskingIs, ActorAssumption DEF AsksAt
      <4> HIDE DEF new
      <4>3. ActorTypeOK'
        BY <1>1, <4>1, <4>2, GoesOnTypes DEF ActorInv
      <4>4. flows'[f].at = "report"
        BY <4>1, <4>2 DEF Advance
      <4>6. SilenceInv'
        BY <4>4 DEF SilenceInv
      <4> QED
        BY <1>1, <2>1, <4>1, <4>2, <4>3, <4>6, StayKeeps DEF Fits, LeavesAt, Promising
    <3>3. CASE registration' # "Accepted"
      <4>1. [heartbeat EXCEPT !.options = TRUE] \in Heartbeats
        BY <1>1 DEF Heartbeats
      <4> QED
        BY <1>1, <3>1, <3>3, <4>1, CaughtKeeps DEF CompleteAcceptedBoot, AsksAt
    <3> QED
      BY <3>2, <3>3
  <2>2. CASE status = "Pending"
    <3>1. /\ UNCHANGED <<connectionVars, heartbeat>> /\ Done(f)
          /\ actor' \in ActorRecords /\ actor'.status = "starting"
      BY <1>1, <1>3, <2>2 DEF BootReturns, ActorRecords, Statuses
    <3> QED
      BY <1>1, <2>2, <3>1, DoneKeeps
  <2>3. CASE status = "Rejected"
    <3>1. CASE flows[f].of = "start"
      BY <1>1, <1>3, <2>3, <3>1, CaughtKeeps DEF BootReturns, AsksAt
    <3>2. CASE flows[f].of # "start"
      <4>1. StopThen(f, actor, flows[f].of, "refused", Free)
        BY <1>3, <2>3, <3>2 DEF BootReturns, StopAfterFailure
      <4>2. Online => \A g \in Coroutines \ {f} : ~Promising(flows[g])
        BY DEF ActorInv, ToldInv, Promising, AsksAt
      <4> QED
        BY <1>1, <4>1, <4>2, StopKeeps DEF LeavesAt
    <3> QED
      BY <3>1, <3>2
  <2> QED
    BY <2>1, <2>2, <2>3
<1> QED
  BY <1>2, <1>3

\* A coroutine goes on.
LEMMA ResumeKeeps ==
    ASSUME ActorInv, IInv', NEW f \in Coroutines, Resume(f)
    PROVE  ActorInv'
<1>1. /\ actor \in ActorRecords /\ heartbeat \in Heartbeats
      /\ registration \in {"none", "Accepted", "Pending", "Rejected"}
      /\ Leaving => Silent
      /\ flows[f] \in Flows
      /\ flows[f].of \in {"start", "retry", "stop", "dispose"}
      /\ flows[f].left \in 0..Connectors
      /\ flows[f].at = "boot" => flows[f].got # "ok"
  BY DEF ActorInv, ActorTypeOK, ActorRecords, Heartbeats, LeavingInv, Leaving, Flows, OutcomesFit,
     Fits
<1>2. CASE ConnectReturns(f)
  <2> DEFINE connected == [actor EXCEPT !.connecting = FALSE]
  <2>1. connected \in ActorRecords /\ connected.status = actor.status
        /\ connected.retryTimer = actor.retryTimer
    BY <1>1 DEF ActorRecords
  <2>2. CASE flows[f].got = "ok"
    <3> DEFINE new == Asking("start", "boot", 0)
    <3>1. UNCHANGED connectionVars /\ actor' = connected /\ Advance(f, new)
      BY <1>2, <2>2 DEF ConnectReturns
    <3>2. heartbeat' = heartbeat /\ registration' = registration
      BY <1>2, <2>2 DEF ConnectReturns
    <3>3. new \in Flows /\ new.at = "boot" /\ new.got = IF Online THEN "none" ELSE "failed"
      BY <3>1, AskingIs, ActorAssumption DEF AsksAt
    <3> HIDE DEF new, connected
    <3>4. Silent' <=> Silent
      BY <2>1, <3>1, <3>2 DEF Silent
    <3>5. flows[f].at # "report" /\ SilenceInv
      BY <1>2 DEF ConnectReturns, ActorInv
    <3>6. ActorTypeOK' /\ SilenceInv'
      BY <1>1, <2>1, <3>1, <3>2, <3>3, <3>4, <3>5, GoesOnTypes DEF ActorInv
    <3> QED
      BY <1>1, <2>2, <3>1, <3>3, <3>4, <3>6, StayKeeps DEF Fits, LeavesAt, Promising
  <2>3. CASE flows[f].got # "ok"
    <3>1. Caught(f, connected, heartbeat) /\ registration' = registration
          /\ flows[f].at \in {"connect", "rejoin"} /\ flows[f].got # "none"
      BY <1>2, <2>3 DEF ConnectReturns
    <3>2. flows[f].got = "failed"
      BY <2>3, <3>1 DEF ActorInv, OutcomesFit, Fits
    <3> HIDE DEF connected
    <3> QED
      BY <1>1, <2>1, <3>1, <3>2, CaughtKeeps
  <2> QED
    BY <2>2, <2>3
<1>3. CASE BootAnswered(f)
  <2>1. flows[f].at = "boot" /\ flows[f].got \in {"failed", "Accepted", "Pending", "Rejected"}
    BY <1>1, <1>3 DEF BootAnswered, Flows, Outcomes
  <2>2. CASE flows[f].got = "failed"
    BY <1>1, <1>3, <2>1, <2>2, CaughtKeeps DEF BootAnswered, AsksAt
  <2>3. CASE flows[f].got # "failed" /\ BootReturns(f, flows[f].got)
    BY <1>1, <1>3, <2>1, <2>3, BootReturnsKeeps DEF BootAnswered, Promising
  <2>4. CASE /\ flows[f].got = "Accepted" /\ registration' = "Accepted"
             /\ UNCHANGED <<connectionVars, actor, heartbeat>>
             /\ Advance(f, Asking(flows[f].of, "replay", 0))
    <3> DEFINE new == Asking(flows[f].of, "replay", 0)
    <3>1. Silent' <=> Silent
      BY <2>4 DEF Silent
    <3>2. new \in Flows /\ new.at = "replay" /\ new.got = IF Online THEN "none" ELSE "failed"
      BY <1>1, <2>4, AskingIs, ActorAssumption DEF AsksAt
    <3> HIDE DEF new
    <3>3. ActorTypeOK' /\ SilenceInv'
      BY <1>1, <2>1, <2>4, <3>1, <3>2, GoesOnTypes DEF ActorInv, new
    <3>4. Advance(f, new)
      BY <2>4 DEF new
    <3> QED
      BY <1>1, <2>4, <3>1, <3>2, <3>3, <3>4, StayKeeps DEF Fits, LeavesAt, Promising
  <2> QED
    BY <1>3, <2>2, <2>3, <2>4 DEF BootAnswered
<1>4. CASE ReplayReturns(f)
  <2>1. flows[f].at = "replay" /\ flows[f].got # "none" /\ registration' = registration
    BY <1>4 DEF ReplayReturns
  <2>2. CASE flows[f].got = "ok"
    BY <1>1, <1>4, <2>1, <2>2, BootReturnsKeeps DEF ReplayReturns, Promising
  <2>3. CASE flows[f].got # "ok"
    BY <1>1, <1>4, <2>1, <2>3, CaughtKeeps DEF ReplayReturns, AsksAt
  <2> QED
    BY <2>2, <2>3
<1>5. CASE ReportReturns(f)
  <2>1. flows[f].at = "report" /\ flows[f].got # "none" /\ registration' = registration
    BY <1>5 DEF ReportReturns
  <2>2. CASE flows[f].left = 0
    <3>1. /\ UNCHANGED connectionVars /\ heartbeat' = heartbeat /\ Done(f)
          /\ actor' = [actor EXCEPT !.status = "running"]
      BY <1>5, <2>2 DEF ReportReturns
    <3>2. /\ actor' \in ActorRecords /\ actor'.status = "running"
          /\ actor'.retryTimer = actor.retryTimer
      BY <1>1, <3>1 DEF ActorRecords, Statuses
    <3>3. Silent' <=> Silent
      BY <3>1, <3>2 DEF Silent
    <3> QED
      BY <1>1, <2>1, <3>1, <3>2, <3>3, DoneKeeps
  <2>3. CASE flows[f].left # 0 /\ registration = "Accepted"
    <3> DEFINE new == Asking(flows[f].of, "report", flows[f].left - 1)
    <3>1. UNCHANGED <<connectionVars, actor, heartbeat>> /\ Advance(f, new)
      BY <1>5, <2>3 DEF ReportReturns
    <3>2. flows[f].left - 1 \in 0..Connectors
      BY <1>1, <2>3, ActorAssumption
    <3>3. new \in Flows /\ new.at = "report" /\ new.got = IF Online THEN "none" ELSE "failed"
      BY <1>1, <3>1, <3>2, AskingIs DEF AsksAt
    <3> HIDE DEF new
    <3>4. ActorTypeOK'
      BY <1>1, <2>1, <3>1, <3>3, GoesOnTypes DEF ActorInv
    <3>5. flows'[f].at = "report"
      BY <3>1, <3>3 DEF Advance
    <3>6. SilenceInv' /\ (Silent' <=> Silent)
      BY <3>1, <3>5 DEF SilenceInv, Silent
    <3> QED
      BY <1>1, <2>1, <3>1, <3>3, <3>4, <3>6, StayKeeps DEF Fits, LeavesAt, Promising
  <2>4. CASE flows[f].left # 0 /\ registration # "Accepted"
    BY <1>1, <1>5, <2>1, <2>4, CaughtKeeps DEF ReportReturns, AsksAt
  <2> QED
    BY <2>2, <2>3, <2>4
<1>6. CASE DisconnectReturns(f)
  <2>1. flows[f].at \in LeavesAt /\ flows[f].got # "none" /\ registration' = registration
    BY <1>6 DEF DisconnectReturns, LeavesAt
  <2>2. Silent /\ ~Online
    BY <2>1 DEF ActorInv, LeavingInv, Online
  <2>3. CASE flows[f].got = "failed" /\ flows[f].at = "refused"
    <3>1. StopThen(f, actor, flows[f].of, "disconnect", Free)
      BY <1>6, <2>3 DEF DisconnectReturns, StopAfterFailure
    <3> QED
      BY <1>1, <2>1, <2>2, <3>1, StopKeeps DEF LeavesAt
  <2>4. CASE ~(flows[f].got = "failed" /\ flows[f].at = "refused")
    <3> DEFINE new == IF flows[f].of = "dispose" THEN Finishing ELSE Free
    <3>1. /\ UNCHANGED connectionVars /\ heartbeat' = heartbeat /\ Advance(f, new)
          /\ actor' = [actor EXCEPT !.status = IF flows[f].got = "ok" THEN "stopped" ELSE @]
      BY <1>6, <2>4 DEF DisconnectReturns
    <3>2. actor' \in ActorRecords /\ actor'.retryTimer = actor.retryTimer
      BY <1>1, <3>1 DEF ActorRecords, Statuses
    <3>3. Silent' /\ SilenceInv'
      BY <2>2, <3>1, <3>2 DEF Silent, SilenceInv
    <3>4. new \in Flows /\ new.at \in {"free", "finish"} /\ new.got \in {"none", "ok"}
      BY ActorAssumption DEF Flows, Places, Outcomes, Free, Finishing
    <3> HIDE DEF new
    <3>5. ActorTypeOK'
      BY <1>1, <2>1, <3>1, <3>2, <3>4, GoesOnTypes DEF ActorInv
    <3> QED
      BY <2>1, <2>2, <3>1, <3>3, <3>4, <3>5, StayKeeps DEF Fits, LeavesAt, Promising
  <2> QED
    BY <2>3, <2>4
<1>7. CASE DisposeFinishes(f)
  <2>1. /\ flows[f].at = "finish" /\ UNCHANGED connectionVars /\ registration' = registration
        /\ heartbeat' = [loop |-> FALSE, options |-> FALSE] /\ Done(f)
        /\ actor' = [actor EXCEPT !.disposed = TRUE]
    BY <1>7 DEF DisposeFinishes, RuntimeStopped
  <2>2. /\ heartbeat' \in Heartbeats /\ ~heartbeat'.loop /\ ~heartbeat'.options
    BY <2>1 DEF Heartbeats
  <2>3. /\ actor' \in ActorRecords /\ actor'.status = actor.status
        /\ actor'.retryTimer = actor.retryTimer
    BY <1>1, <2>1 DEF ActorRecords
  <2>4. Silent => Silent'
    BY <2>2, <2>3 DEF Silent
  <2> QED
    BY <1>1, <2>1, <2>2, <2>3, <2>4, DoneKeeps
<1> QED
  BY <1>2, <1>3, <1>4, <1>5, <1>6, <1>7 DEF Resume

\* A call of the server, or an answer of the CSMS.
LEMMA CallKeeps ==
    ASSUME ActorInv, IInv', NEW f \in Coroutines, Start(f) \/ Stop(f) \/ Dispose(f) \/ Answer(f)
    PROVE  ActorInv'
<1>1. /\ actor \in ActorRecords /\ heartbeat \in Heartbeats
      /\ registration \in {"none", "Accepted", "Pending", "Rejected"}
      /\ Leaving => Silent
      /\ flows \in [Coroutines -> Flows]
  BY DEF ActorInv, ActorTypeOK, ActorRecords, Heartbeats, LeavingInv, Leaving
<1>2. AllQuiet /\ \A g \in Coroutines : flows[g].got = "none"
  BY DEF Start, Stop, Dispose, Answer, AllQuiet
<1>3. \A g \in Coroutines : ~Promising(flows[g])
  BY <1>2 DEF Promising
<1>4. CASE Start(f)
  <2> DEFINE new == [of |-> "start", left |-> 0,
                     at |-> IF session.phase = "reconnecting" THEN "rejoin" ELSE "connect",
                     got |-> CASE session.phase = "connected"     -> "ok"
                               [] session.phase = "disconnecting" -> "failed"
                               [] OTHER                           -> "none"]
  <2>1. /\ new \in Flows /\ new.at \in {"connect", "rejoin"}
        /\ new.got = "failed" => session.phase = "disconnecting"
        /\ new.got \in {"ok", "failed", "none"}
        /\ session.phase = "idle" => new.got = "none"
    BY ActorAssumption DEF Flows, Places, Outcomes
  <2>2. /\ Advance(f, new) /\ registration' = registration /\ heartbeat' = heartbeat
        /\ actor' = [actor EXCEPT !.status = "starting", !.connecting = TRUE]
        /\ IF session.phase = "idle" THEN StartInitialConnect ELSE UNCHANGED connectionVars
    BY <1>4 DEF Start
  <2> HIDE DEF new
  <2>3. /\ actor' \in ActorRecords /\ actor'.status = "starting"
        /\ actor'.retryTimer = actor.retryTimer
    BY <1>1, <2>2 DEF ActorRecords, Statuses
  <2>4. SilenceInv' /\ (Silent' <=> Silent)
    BY <2>2, <2>3 DEF SilenceInv, Silent
  <2>5. CASE session.phase # "idle"
    <3>1. ActorTypeOK'
      BY <1>1, <2>1, <2>2, <2>3, <2>5, GoesOnTypes DEF ActorInv
    <3> QED
      BY <1>1, <1>2, <2>1, <2>2, <2>4, <2>5, <3>1, StayKeeps DEF Fits, LeavesAt, Promising, Online
  <2>6. CASE session.phase = "idle"
    <3>1. ~session.reconnect /\ ~session.disconnect /\ ~session.connect
      BY <2>6 DEF ActorInv, IInv, SessionSound, OperationsNamed
    <3>2. \A g \in Coroutines : Heard(flows[g]) = flows[g]
      BY <2>6, <3>1 DEF Heard, Lost
    <3>3. flows' = [flows EXCEPT ![f] = new]
      BY <1>1, <2>2, <3>2 DEF Advance
    <3>4. \A g \in Coroutines : flows'[g].got = "none" /\ flows'[g].at \notin LeavesAt
      <4>1. \A g \in Coroutines : flows[g].at \notin LeavesAt
        BY <1>2, <2>6 DEF ActorInv, LeavingInv
      <4> QED
        BY <1>1, <1>2, <2>1, <2>6, <3>3, <4>1 DEF LeavesAt
    <3>5. ActorTypeOK'
      BY <1>1, <2>1, <2>2, <2>3, <3>3 DEF ActorTypeOK, ActorRecords, Heartbeats
    <3> QED
      BY <2>4, <3>4, <3>5 DEF ActorInv, OutcomesFit, Fits, LeavingInv, ToldInv
  <2> QED
    BY <2>5, <2>6
<1>5. CASE Stop(f)
  BY <1>1, <1>2, <1>3, <1>5, StopKeeps DEF Stop, LeavesAt
<1>6. CASE Dispose(f)
  <2>1. CASE actor.status = "stopped"
    <3>1. /\ UNCHANGED <<connectionVars, actor, heartbeat>> /\ Advance(f, Finishing)
          /\ registration' = registration /\ flows[f].at = "free"
      BY <1>6, <2>1 DEF Dispose, IsFree
    <3>2. Finishing \in Flows /\ Finishing.at = "finish" /\ Finishing.got = "ok"
      BY ActorAssumption DEF Flows, Places, Outcomes, Finishing
    <3>3. Silent' <=> Silent
      BY <3>1 DEF Silent
    <3>4. ActorTypeOK' /\ SilenceInv'
      BY <1>1, <3>1, <3>2, <3>3, GoesOnTypes DEF ActorInv
    <3> QED
      BY <1>1, <1>2, <3>1, <3>2, <3>3, <3>4, StayKeeps DEF Fits, LeavesAt, Promising
  <2>2. CASE actor.status # "stopped"
    BY <1>1, <1>2, <1>3, <1>6, <2>2, StopKeeps DEF Dispose, LeavesAt
  <2> QED
    BY <2>1, <2>2
<1>7. CASE Answer(f)
  <2>1. /\ UNCHANGED <<connectionVars, actor, registration, heartbeat>> /\ Online
        /\ flows[f].at \in AsksAt
    BY <1>7 DEF Answer, AsksAt
  <2>2. PICK answer \in Answers(flows[f].at) : flows' = [flows EXCEPT ![f].got = answer]
    BY <1>7 DEF Answer
  <2> DEFINE new == [flows[f] EXCEPT !.got = answer]
  <2>3. /\ answer \in Outcomes
        /\ flows[f].at = "boot" => answer # "ok"
    BY DEF Answers, Outcomes
  <2>4. new \in Flows /\ new.at = flows[f].at /\ new.got = answer
    BY <1>1, <2>3 DEF Flows
  <2>5. flows' = [flows EXCEPT ![f] = new]
    BY <1>1, <2>2
  <2> HIDE DEF new
  <2>6. session' = session
    BY <2>1 DEF connectionVars, sessionVars
  <2>7. Advance(f, new)
    BY <1>1, <2>5, <2>6, HeardIs DEF Advance
  <2>8. Silent' <=> Silent
    BY <2>1 DEF Silent
  <2>9. ActorTypeOK'
    BY <1>1, <2>1, <2>4, <2>7, GoesOnTypes DEF ActorInv
  <2>10. SilenceInv'
    <3>1. \A g \in Coroutines : flows[g].at = "report" => flows'[g].at = "report"
      BY <1>1, <2>4, <2>5
    <3> QED
      BY <2>1, <2>8, <3>1 DEF ActorInv, SilenceInv
  <2> QED
    BY <1>1, <1>2, <2>1, <2>3, <2>4, <2>7, <2>8, <2>9, <2>10, StayKeeps DEF Fits, LeavesAt, AsksAt
<1> QED
  BY <1>4, <1>5, <1>6, <1>7

\* What runs with no coroutine.
LEMMA TimersKeep ==
    ASSUME ActorInv, IInv', TriggeredBootAnswered \/ BootRetryTimer \/ HeartbeatLoopStops
    PROVE  ActorInv'
<1>1. /\ actor \in ActorRecords /\ heartbeat \in Heartbeats
      /\ registration \in {"none", "Accepted", "Pending", "Rejected"}
      /\ Leaving => Silent
      /\ flows \in [Coroutines -> Flows]
  BY DEF ActorInv, ActorTypeOK, ActorRecords, Heartbeats, LeavingInv, Leaving
<1>2. CASE TriggeredBootAnswered
  <2>1. UNCHANGED <<connectionVars, flows, actor, heartbeat>>
        /\ registration' \in {"none", "Accepted", "Pending", "Rejected"}
    BY <1>2 DEF TriggeredBootAnswered
  <2>2. ActorTypeOK' /\ SilenceInv' /\ (Silent' <=> Silent)
    BY <2>1 DEF ActorInv, ActorTypeOK, SilenceInv, Silent
  <2> QED
    BY <1>1, <2>1, <2>2, UnchangedKeeps
<1>3. CASE HeartbeatLoopStops
  <2>1. UNCHANGED <<connectionVars, flows, actor, registration>>
        /\ heartbeat' = [heartbeat EXCEPT !.loop = FALSE]
    BY <1>3 DEF HeartbeatLoopStops
  <2>2. heartbeat' \in Heartbeats /\ ~heartbeat'.loop /\ heartbeat'.options = heartbeat.options
    BY <1>1, <2>1 DEF Heartbeats
  <2>3. Silent => Silent'
    BY <2>1, <2>2 DEF Silent
  <2>4. ActorTypeOK' /\ SilenceInv'
    BY <2>1, <2>2, <2>3 DEF ActorInv, ActorTypeOK, SilenceInv, Heartbeats
  <2> QED
    BY <1>1, <2>1, <2>3, <2>4, UnchangedKeeps
<1>4. CASE BootRetryTimer
  <2>1. /\ AllQuiet /\ actor.retryTimer /\ RetryBoot
        /\ UNCHANGED <<connectionVars, registration, heartbeat>>
        /\ actor' = [actor EXCEPT !.retryTimer = FALSE]
    BY <1>4 DEF BootRetryTimer
  <2>2. /\ actor' \in ActorRecords /\ actor'.status = actor.status /\ ~actor'.retryTimer
    BY <1>1, <2>1 DEF ActorRecords
  <2>3. ~Leaving /\ (Silent => Silent')
    BY <1>1, <2>1, <2>2 DEF Silent
  <2>4. CASE AllHear
    <3>1. session' = session
      BY <2>1 DEF connectionVars, sessionVars
    <3>2. flows' = flows
      BY <1>1, <2>4, <3>1, HeardIs DEF AllHear
    <3>3. ActorTypeOK' /\ SilenceInv'
      BY <2>1, <2>2, <2>3, <3>2 DEF ActorInv, ActorTypeOK, SilenceInv, ActorRecords
    <3> QED
      BY <2>1, <2>3, <3>2, <3>3, UnchangedKeeps
  <2>5. ASSUME NEW f \in Coroutines, IsFree(f), Advance(f, Asking("retry", "boot", 0))
        PROVE  ActorInv'
    <3> DEFINE new == Asking("retry", "boot", 0)
    <3>1. new \in Flows /\ new.at = "boot" /\ new.got = IF Online THEN "none" ELSE "failed"
      BY <2>1, AskingIs, ActorAssumption DEF AsksAt
    <3>2. Advance(f, new) /\ flows[f].at = "free"
      BY <2>5 DEF IsFree
    <3> HIDE DEF new
    <3>3. ActorTypeOK' /\ SilenceInv'
      BY <1>1, <2>1, <2>2, <2>3, <3>1, <3>2, GoesOnTypes DEF ActorInv
    <3> QED
      BY <2>1, <2>3, <3>1, <3>2, <3>3, StayKeeps DEF Fits, LeavesAt, Promising
  <2> QED
    BY <2>1, <2>4, <2>5 DEF RetryBoot
<1> QED
  BY <1>2, <1>3, <1>4

LEMMA ActorInitSound == ActorInitial => ActorInv
<1> SUFFICES ASSUME ActorInitial PROVE ActorInv
  OBVIOUS
<1>1. IInv
  BY InitSound DEF ActorInitial
<1>2. /\ \A f \in Coroutines : flows[f] = Free
      /\ actor.status = "stopped" /\ Silent
  BY DEF ActorInitial, ActorInit, Silent
<1>3. Free \in Flows /\ Free.at = "free" /\ Free.got = "none"
  BY ActorAssumption DEF Free, Flows, Places, Outcomes
<1>4. ActorTypeOK
  BY <1>3 DEF ActorInitial, ActorInit, ActorTypeOK, Statuses
<1> QED
  BY <1>1, <1>2, <1>3, <1>4 DEF ActorInv, OutcomesFit, Fits, LeavingInv, LeavesAt, ToldInv,
     SilenceInv

LEMMA ActorNextSound == ActorInv /\ [ActorNext]_vars => ActorInv'
<1> SUFFICES ASSUME ActorInv, [ActorNext]_vars
             PROVE  ActorInv'
  OBVIOUS
<1>1. CASE ActorNext
  <2>1. [Next]_connectionVars
    BY <1>1, ActorStepsSession DEF ActorInv
  <2>2. IInv'
    BY <2>1, NextSound DEF ActorInv
  <2>3. CASE SessionMoves
    BY <2>2, <2>3, MovesKeep
  <2>4. ASSUME NEW f \in Coroutines, Resume(f) \/ Start(f) \/ Stop(f) \/ Dispose(f) \/ Answer(f)
        PROVE  ActorInv'
    BY <2>2, <2>4, ResumeKeeps, CallKeeps
  <2>5. CASE TriggeredBootAnswered \/ BootRetryTimer \/ HeartbeatLoopStops
    BY <2>2, <2>5, TimersKeep
  <2> QED
    BY <1>1, <2>3, <2>4, <2>5 DEF ActorNext
<1>2. CASE UNCHANGED vars
  <2>1. UNCHANGED <<connectionVars, flows, actor, registration, heartbeat>>
    BY <1>2 DEF vars, actorVars
  <2>2. IInv'
    BY <2>1, NextSound DEF ActorInv
  <2>3. ActorTypeOK' /\ SilenceInv' /\ (Silent' <=> Silent)
    BY <2>1 DEF ActorInv, ActorTypeOK, SilenceInv, Silent
  <2>4. Leaving => Silent
    BY DEF ActorInv, LeavingInv, Leaving
  <2> QED
    BY <2>1, <2>2, <2>3, <2>4, UnchangedKeeps
<1> QED
  BY <1>1, <1>2

\* In every behaviour of the actor, its calls, its coroutines, its session and
\* its timers keep the inductive invariant: for any number of coroutines,
\* connectors and reconnect attempts, whether sockets refuse to close or not.
THEOREM ActorSoundness == ActorSpec => []ActorInv
  BY ActorInitSound, ActorNextSound, PTL DEF ActorSpec

\* The variables of the actor and of its session keep their types.
THEOREM ActorTypes == ActorSpec => []ActorTypeCorrect
<1>1. ActorInv => ActorTypeCorrect
  BY DEF ActorInv, IInv, TypeOK, SessionSound, TransportSound, ActorTypeCorrect
<1> QED
  BY <1>1, ActorSoundness, PTL

\* A stopped actor of which no coroutine is at work has no heartbeat loop, no
\* options from which "online" would make one, and no boot to retry: stopRuntime
\* and clearBootRetry are not undone by a startup that went on after the stop.
THEOREM StoppedSilent == ActorSpec => []StoppedIsSilent
<1>1. ActorInv => StoppedIsSilent
  BY DEF ActorInv, SilenceInv, Silent, StoppedIsSilent, AtWork, IsFree
<1> QED
  BY <1>1, ActorSoundness, PTL

-----------------------------------------------------------------------------
(* The actor: a disconnect is not refused. *)

NoneRefusedIn(S) == \A w \in S : w.flow = "disconnect" => w.outcome # "rejected"

SessionObeys == transport.disconnect # "rejected" /\ NoneRefusedIn(awaiting)

LEMMA ObeyIs ==
    ASSUME NEW S \in SUBSET Continuations, NoneRefusedIn(S)
    PROVE  /\ \A flow : Orphaned(flow, S) \in SUBSET Continuations /\ NoneRefusedIn(Orphaned(flow, S))
           /\ \A T \in SUBSET S : T \in SUBSET Continuations /\ NoneRefusedIn(T)
           /\ transport'.disconnect # "rejected" => NoneRefusedIn(Woken(S))
<1>1. ASSUME NEW flow
      PROVE  Orphaned(flow, S) \in SUBSET Continuations /\ NoneRefusedIn(Orphaned(flow, S))
  <2> DEFINE O(w) == [w EXCEPT !.live = @ /\ w.flow # flow]
  <2>1. Orphaned(flow, S) = {O(w) : w \in S}
    BY DEF Orphaned
  <2>2. ASSUME NEW w \in S
        PROVE  O(w) \in Continuations /\ O(w).flow = w.flow /\ O(w).outcome = w.outcome
    BY DEF Continuations
  <2> HIDE DEF O
  <2> QED
    BY <2>1, <2>2 DEF NoneRefusedIn
<1>2. \A T \in SUBSET S : T \in SUBSET Continuations /\ NoneRefusedIn(T)
  BY DEF NoneRefusedIn
<1>3. ASSUME transport'.disconnect # "rejected"
      PROVE  NoneRefusedIn(Woken(S))
  <2> DEFINE K(w) ==
      [w EXCEPT !.outcome =
        IF @ # "pending" THEN @
        ELSE IF w.flow = "disconnect"
             THEN IF transport.disconnect = "pending" THEN transport'.disconnect ELSE @
             ELSE IF transport.connect = "pending" THEN transport'.connect ELSE @]
  <2>1. Woken(S) = {K(w) : w \in S}
    BY DEF Woken
  <2>2. ASSUME NEW w \in S
        PROVE  /\ K(w).flow = w.flow
               /\ w.flow = "disconnect" => K(w).outcome \in {w.outcome, transport'.disconnect}
    BY DEF Continuations
  <2> HIDE DEF K
  <2> QED
    BY <1>3, <2>1, <2>2 DEF NoneRefusedIn
<1> QED
  BY <1>1, <1>2, <1>3

\* A transport whose sockets do not refuse to close never refuses to.
LEMMA TransportObeys ==
    ASSUME TransportSound, ~CloseThrows, transport.disconnect # "rejected",
           \/ SocketEvent \/ ErrorChecked
           \/ \E outcome \in {"pending", "resolved", "rejected"} :
                TransportConnect(outcome) \/ TransportDisconnect(outcome)
    PROVE  transport'.disconnect # "rejected"
<1>1. /\ transport \in [state : States, connect : Promises, disconnect : Promises]
  BY DEF TransportSound, TransportTypeOK
<1>2. CASE SocketEvent \/ ErrorChecked
  BY <1>1, <1>2 DEF SocketEvent, HandleOpen, HandleError, HandleClose, ConnectTimesOut, ErrorChecked,
                    FailConnect, SettleDisconnect
<1>3. ASSUME NEW outcome, TransportConnect(outcome)
      PROVE  transport'.disconnect # "rejected"
  BY <1>1, <1>3 DEF TransportConnect, StartConnect, transportVars
<1>4. ASSUME NEW outcome, TransportDisconnect(outcome)
      PROVE  transport'.disconnect # "rejected"
  BY <1>1, <1>4 DEF TransportDisconnect, RequestSocketClose, SettleDisconnect, InterruptConnect,
                    BeginDisconnect, transportVars
<1> QED
  BY <1>2, <1>3, <1>4

LEMMA SessionStaysObeyed ==
    ASSUME IInv, ~CloseThrows, SessionObeys, [Next]_connectionVars
    PROVE  SessionObeys'
<1>1. /\ awaiting \in SUBSET Continuations /\ NoneRefusedIn(awaiting)
      /\ TransportSound /\ TransportConsistent /\ transport.disconnect # "rejected"
  BY DEF IInv, SessionSound, SessionTypeOK, SessionObeys, TransportSound
<1>2. ASSUME transport'.disconnect # "rejected", NEW flow, NEW outcome,
             flow = "disconnect" => outcome # "rejected", NEW S \in SUBSET Continuations,
             NoneRefusedIn(S), awaiting' = Woken(S) \cup {Awaits(flow, outcome)}
      PROVE  SessionObeys'
  <2>1. NoneRefusedIn(Woken(S))
    BY <1>2, ObeyIs
  <2>2. NoneRefusedIn({Awaits(flow, outcome)})
    BY <1>2 DEF NoneRefusedIn, Awaits
  <2>3. NoneRefusedIn(awaiting')
    BY <1>2, <2>1, <2>2 DEF NoneRefusedIn
  <2> QED
    BY <1>2, <2>3 DEF SessionObeys, NoneRefusedIn
<1>3. CASE TransportLost /\ transport'.disconnect # "rejected"
  <2>1. awaiting' = awaiting \/ awaiting' = Orphaned("attempt", awaiting)
    BY <1>3 DEF TransportLost, StartReconnect
  <2>2. NoneRefusedIn(awaiting')
    BY <1>1, <2>1, ObeyIs
  <2> QED
    BY <1>3, <2>2 DEF SessionObeys, NoneRefusedIn
<1>4. CASE TransportReaction /\ transport'.disconnect # "rejected"
  <2>1. CASE awaiting' = Woken(awaiting)
    <3>1. NoneRefusedIn(awaiting')
      BY <1>1, <1>4, <2>1, ObeyIs
    <3> QED
      BY <1>4, <3>1 DEF SessionObeys, NoneRefusedIn
  <2> QED
    BY <1>3, <1>4, <2>1 DEF TransportReaction
<1>5. CASE TransportTurn(SocketEvent) \/ ErrorCheckRuns
  BY <1>1, <1>4, <1>5, TransportObeys DEF TransportTurn, ErrorCheckRuns
<1>6. CASE ReconnectAttempt
  <2>1. CASE UNCHANGED <<transportVars, awaiting>>
    BY <1>1, <2>1 DEF SessionObeys, NoneRefusedIn, transportVars
  <2>2. ASSUME NEW outcome \in {"pending", "resolved", "rejected"}, TransportConnect(outcome),
               awaiting' = Woken(awaiting) \cup {Awaits("attempt", outcome)}
        PROVE  SessionObeys'
    <3>1. transport'.disconnect # "rejected"
      BY <1>1, <2>2, TransportObeys
    <3> QED
      BY <1>1, <1>2, <2>2, <3>1
  <2> QED
    BY <1>6, <2>1, <2>2 DEF ReconnectAttempt
<1>7. CASE Continues
  <2>1. PICK w \in awaiting : Continue(w)
    BY <1>7 DEF Continues
  <2> DEFINE S == awaiting \ {w}
  <2>2. /\ S \in SUBSET Continuations /\ NoneRefusedIn(S) /\ S \subseteq awaiting
        /\ \A flow : /\ Orphaned(flow, S) \in SUBSET Continuations
                     /\ NoneRefusedIn(Orphaned(flow, S))
    <3>1. S \in SUBSET Continuations /\ NoneRefusedIn(S)
      BY <1>1 DEF NoneRefusedIn
    <3> HIDE DEF S
    <3> QED
      BY <3>1, ObeyIs DEF S
  <2>3. transport' = transport
    BY <2>1 DEF Continue, transportVars
  <2>4. \/ awaiting' = S
        \/ \E flow : awaiting' = Orphaned(flow, S)
        \/ awaiting' = Orphaned("attempt", Orphaned("connect", S))
    BY <2>1 DEF Continue, ConnectSucceeds, ConnectFails, AttemptSucceeds, AttemptFails,
       DisconnectSettles, StartReconnect
  <2> HIDE DEF S
  <2>5. NoneRefusedIn(awaiting')
    <3>1. NoneRefusedIn(Orphaned("attempt", Orphaned("connect", S)))
      BY <2>2, ObeyIs
    <3> QED
      BY <2>2, <2>4, <3>1
  <2> QED
    BY <1>1, <2>3, <2>5 DEF SessionObeys, NoneRefusedIn
<1>8. CASE StartInitialConnect
  <2>1. PICK outcome \in {"pending", "resolved", "rejected"} :
          /\ TransportConnect(outcome)
          /\ awaiting' = Woken(Orphaned("connect", awaiting)) \cup {Awaits("connect", outcome)}
    BY <1>8 DEF StartInitialConnect
  <2>2. transport'.disconnect # "rejected"
    BY <1>1, <2>1, TransportObeys
  <2>3. /\ Orphaned("connect", awaiting) \in SUBSET Continuations
        /\ NoneRefusedIn(Orphaned("connect", awaiting))
    BY <1>1, ObeyIs
  <2> QED
    BY <1>2, <2>1, <2>2, <2>3
<1>9. CASE Disconnect
  <2> DEFINE D(S) ==
        \E outcome \in {"pending", "resolved", "rejected"} :
          /\ TransportDisconnect(outcome)
          /\ awaiting' = Woken(Orphaned("disconnect", S)) \cup {Awaits("disconnect", outcome)}
  <2>1. D(awaiting) \/ D(Orphaned("connect", awaiting)) \/ D(Orphaned("attempt", awaiting))
    BY <1>9 DEF Disconnect, DisconnectDuringConnect, DisconnectFromActiveSession,
                DisconnectDuringReconnect, StartDisconnect
  <2> HIDE DEF D
  <2>7. PICK S \in {awaiting, Orphaned("connect", awaiting), Orphaned("attempt", awaiting)} : D(S)
    BY <2>1
  <2>2. PICK outcome \in {"pending", "resolved", "rejected"} :
          /\ TransportDisconnect(outcome)
          /\ awaiting' = Woken(Orphaned("disconnect", S)) \cup {Awaits("disconnect", outcome)}
    BY <2>7 DEF D
  <2>3. transport'.disconnect # "rejected"
    BY <1>1, <2>2, TransportObeys
  <2>4. outcome # "rejected"
    BY <1>1, <2>2, <2>3 DEF TransportDisconnect, Pending, TransportConsistent
  <2>5. S \in SUBSET Continuations /\ NoneRefusedIn(S)
    BY <1>1, ObeyIs
  <2>6. /\ Orphaned("disconnect", S) \in SUBSET Continuations
        /\ NoneRefusedIn(Orphaned("disconnect", S))
    BY <2>5, ObeyIs
  <2> QED
    BY <1>2, <2>2, <2>3, <2>4, <2>6
<1>10. CASE UNCHANGED connectionVars
  BY <1>1, <1>10 DEF connectionVars, transportVars, sessionVars, SessionObeys, NoneRefusedIn
<1> QED
  BY <1>5, <1>6, <1>7, <1>8, <1>9, <1>10 DEF Next, Macrotask, Microtask

-----------------------------------------------------------------------------
(* The actor: one that starts gets on. *)

NoneRefused ==
    /\ SessionObeys
    /\ \A f \in Coroutines : flows[f].at \in LeavesAt => flows[f].got # "failed"

ConnectingInv == actor.connecting => \E f \in Coroutines : flows[f].at \in {"connect", "rejoin"}

ServedInv == ActorInv /\ NoneRefused /\ ConnectingInv /\ StartingIsServed

\* What a step of the actor does to those that leave and to the start.
Serves ==
    /\ \A g \in Coroutines :
         flows'[g].at \in LeavesAt => flows'[g].got = "none" \/ flows'[g] = Heard(flows[g])
    /\ ConnectingInv'
    /\ StartingIsServed'

LEMMA AdvanceServes ==
    ASSUME ActorTypeOK, ConnectingInv, NEW f \in Coroutines, NEW new, Advance(f, new),
           new.at \in LeavesAt => new.got = "none",
           actor'.connecting =>
             \/ actor.connecting /\ flows[f].at \notin {"connect", "rejoin"}
             \/ new.at \in {"connect", "rejoin"},
           actor'.status = "starting" /\ ~actor'.disposed =>
             new.at # "free" \/ actor'.retryTimer \/ session'.phase = "reconnecting"
    PROVE  Serves
<1>1. \A g \in Coroutines : flows'[g] = IF g = f THEN new ELSE Heard(flows[g])
  BY DEF Advance
<1>2. \A g \in Coroutines : Heard(flows[g]).at = flows[g].at
  BY HeardIs DEF ActorTypeOK
<1>3. ConnectingInv'
  BY <1>1, <1>2 DEF ConnectingInv
<1>4. StartingIsServed'
  BY <1>1 DEF StartingIsServed, AtWork, IsFree
<1> QED
  BY <1>1, <1>3, <1>4 DEF Serves

\* Nobody goes on.
LEMMA HearServes ==
    ASSUME ActorTypeOK, ConnectingInv, StartingIsServed, AllHear,
           actor'.connecting = actor.connecting, actor'.status = actor.status,
           actor'.disposed = actor.disposed,
           AtWork \/ actor'.retryTimer = actor.retryTimer,
           AtWork \/ session.phase # "reconnecting" \/ session'.phase = "reconnecting"
    PROVE  Serves
<1>1. \A g \in Coroutines : flows'[g] = Heard(flows[g]) /\ flows'[g].at = flows[g].at
  BY HeardIs DEF ActorTypeOK, AllHear
<1>2. ConnectingInv' /\ (AtWork => AtWork')
  BY <1>1 DEF ConnectingInv, AtWork, IsFree
<1>3. StartingIsServed'
  BY <1>2 DEF StartingIsServed
<1> QED
  BY <1>1, <1>2, <1>3 DEF Serves

LEMMA StopServes ==
    ASSUME ActorTypeOK, ConnectingInv, NEW f \in Coroutines, NEW a \in ActorRecords, NEW of,
           NEW place \in LeavesAt, NEW done \in {Free, Finishing}, StopThen(f, a, of, place, done),
           a.connecting => actor.connecting /\ flows[f].at \notin {"connect", "rejoin"}
    PROVE  Serves
<1> DEFINE waits == [of |-> of, at |-> place, got |-> "none", left |-> 0]
<1>1. waits.at \in LeavesAt /\ waits.at # "free" /\ waits.got = "none"
  BY DEF LeavesAt
<1>2. done.at \notin LeavesAt
  BY DEF Free, Finishing, LeavesAt
<1>3. /\ actor'.connecting = a.connecting
      /\ Online => Advance(f, waits)
      /\ ~Online => Advance(f, done) /\ actor'.status = "stopped"
  BY DEF StopThen, ActorRecords, Statuses
<1> HIDE DEF waits
<1> QED
  BY <1>1, <1>2, <1>3, AdvanceServes

LEMMA CaughtServes ==
    ASSUME ActorTypeOK, ConnectingInv, NEW f \in Coroutines, NEW a \in ActorRecords, NEW h,
           Caught(f, a, h),
           a.connecting => actor.connecting /\ flows[f].at \notin {"connect", "rejoin"}
    PROVE  Serves
<1>1. CASE flows[f].of = "start" /\ session.phase = "reconnecting"
  <2>1. /\ Advance(f, Free) /\ session' = session
        /\ actor'.connecting = a.connecting
    BY <1>1 DEF Caught, Done, connectionVars, sessionVars, ActorRecords
  <2> QED
    BY <1>1, <2>1, AdvanceServes DEF Free, LeavesAt
<1>2. CASE ~(flows[f].of = "start" /\ session.phase = "reconnecting")
  BY <1>2, StopServes DEF Caught, StopAfterFailure, LeavesAt
<1> QED
  BY <1>1, <1>2

LEMMA BootReturnsServes ==
    ASSUME ActorTypeOK, ConnectingInv, NEW f \in Coroutines,
           NEW status \in {"Accepted", "Pending", "Rejected"}, BootReturns(f, status),
           flows[f].at \in {"boot", "replay"}
    PROVE  Serves
<1>1. actor \in ActorRecords
  BY DEF ActorTypeOK, ActorRecords
<1>2. CASE flows[f].of = "retry" /\ (actor.status # "starting" \/ actor.disposed)
  <2>1. actor' = actor /\ Advance(f, Free)
    BY <1>2 DEF BootReturns, Done
  <2> QED
    BY <1>2, <2>1, AdvanceServes DEF Free, LeavesAt
<1>3. CASE ~(flows[f].of = "retry" /\ (actor.status # "starting" \/ actor.disposed))
  <2>1. CASE status = "Accepted"
    <3>1. CompleteAcceptedBoot(f)
      BY <1>3, <2>1 DEF BootReturns
    <3>2. CASE registration' = "Accepted"
      <4>1. actor' = actor /\ Advance(f, Asking(flows[f].of, "report", Connectors))
        BY <3>1, <3>2 DEF CompleteAcceptedBoot
      <4>2. Asking(flows[f].of, "report", Connectors).at = "report"
        BY DEF Asking
      <4> QED
        BY <4>1, <4>2, AdvanceServes DEF LeavesAt
    <3>3. CASE registration' # "Accepted"
      BY <1>1, <3>1, <3>3, CaughtServes DEF CompleteAcceptedBoot
    <3> QED
      BY <3>2, <3>3
  <2>2. CASE status = "Pending"
    <3>1. /\ Advance(f, Free) /\ actor'.retryTimer /\ actor'.connecting = actor.connecting
      BY <1>1, <1>3, <2>2 DEF BootReturns, Done, ActorRecords
    <3> QED
      BY <3>1, AdvanceServes DEF Free, LeavesAt
  <2>3. CASE status = "Rejected"
    BY <1>1, <1>3, <2>3, CaughtServes, StopServes DEF BootReturns, StopAfterFailure, LeavesAt
  <2> QED
    BY <2>1, <2>2, <2>3
<1> QED
  BY <1>2, <1>3

LEMMA ResumeServes ==
    ASSUME ServedInv, NEW f \in Coroutines, Resume(f)
    PROVE  Serves
<1>1. /\ ActorTypeOK /\ ConnectingInv /\ actor \in ActorRecords
      /\ flows[f].at \in LeavesAt => flows[f].got \in {"none", "ok"}
      /\ flows[f].at = "boot" => flows[f].got # "ok"
      /\ flows[f].got \in Outcomes
  BY DEF ServedInv, ActorInv, ActorTypeOK, ActorRecords, NoneRefused, OutcomesFit, Fits, Flows
<1>2. \A of, place, left : Asking(of, place, left).at = place
  BY DEF Asking
<1>3. CASE ConnectReturns(f)
  <2> DEFINE connected == [actor EXCEPT !.connecting = FALSE]
  <2>1. connected \in ActorRecords /\ ~connected.connecting
    BY <1>1 DEF ActorRecords
  <2>2. \/ actor' = connected /\ Advance(f, Asking("start", "boot", 0))
        \/ Caught(f, connected, heartbeat)
    BY <1>3 DEF ConnectReturns
  <2> HIDE DEF connected
  <2> QED
    BY <1>1, <1>2, <2>1, <2>2, AdvanceServes, CaughtServes DEF LeavesAt
<1>4. CASE BootAnswered(f)
  <2>1. flows[f].at = "boot" /\ flows[f].got \in {"failed", "Accepted", "Pending", "Rejected"}
    BY <1>1, <1>4 DEF BootAnswered, Outcomes
  <2>2. \/ Caught(f, actor, heartbeat)
        \/ flows[f].got # "failed" /\ BootReturns(f, flows[f].got)
        \/ actor' = actor /\ Advance(f, Asking(flows[f].of, "replay", 0))
    BY <1>4 DEF BootAnswered
  <2>3. CASE Caught(f, actor, heartbeat)
    BY <1>1, <2>1, <2>3, CaughtServes
  <2>4. CASE flows[f].got # "failed" /\ BootReturns(f, flows[f].got)
    BY <1>1, <2>1, <2>4, BootReturnsServes
  <2>5. CASE actor' = actor /\ Advance(f, Asking(flows[f].of, "replay", 0))
    BY <1>1, <1>2, <2>1, <2>5, AdvanceServes DEF LeavesAt
  <2> QED
    BY <2>2, <2>3, <2>4, <2>5
<1>5. CASE ReplayReturns(f)
  BY <1>1, <1>5, CaughtServes, BootReturnsServes DEF ReplayReturns
<1>6. CASE ReportReturns(f)
  <2>1. flows[f].at = "report"
    BY <1>6 DEF ReportReturns
  <2>2. \/ /\ Advance(f, Free)
           /\ actor' = [actor EXCEPT !.status = "running"]
        \/ actor' = actor /\ Advance(f, Asking(flows[f].of, "report", flows[f].left - 1))
        \/ Caught(f, actor, heartbeat)
    BY <1>6 DEF ReportReturns, Done
  <2>3. CASE Advance(f, Free) /\ actor' = [actor EXCEPT !.status = "running"]
    <3>1. actor'.status = "running" /\ actor'.connecting = actor.connecting
      BY <1>1, <2>3 DEF ActorRecords
    <3> QED
      BY <1>1, <2>1, <2>3, <3>1, AdvanceServes DEF Free, LeavesAt
  <2>4. CASE actor' = actor /\ Advance(f, Asking(flows[f].of, "report", flows[f].left - 1))
    BY <1>1, <1>2, <2>1, <2>4, AdvanceServes DEF LeavesAt
  <2>5. CASE Caught(f, actor, heartbeat)
    BY <1>1, <2>1, <2>5, CaughtServes
  <2> QED
    BY <2>2, <2>3, <2>4, <2>5
<1>7. CASE DisconnectReturns(f)
  <2>1. flows[f].at \in LeavesAt /\ flows[f].got = "ok"
    BY <1>1, <1>7 DEF DisconnectReturns, LeavesAt
  <2> DEFINE new == IF flows[f].of = "dispose" THEN Finishing ELSE Free
  <2>2. Advance(f, new) /\ actor' = [actor EXCEPT !.status = "stopped"]
    BY <1>7, <2>1 DEF DisconnectReturns
  <2>3. actor'.status = "stopped" /\ actor'.connecting = actor.connecting
    BY <1>1, <2>2 DEF ActorRecords
  <2>4. new.at \notin LeavesAt
    BY DEF Free, Finishing, LeavesAt
  <2> HIDE DEF new
  <2> QED
    BY <1>1, <2>1, <2>2, <2>3, <2>4, AdvanceServes DEF LeavesAt
<1>8. CASE DisposeFinishes(f)
  <2>1. flows[f].at = "finish" /\ Advance(f, Free) /\ actor' = [actor EXCEPT !.disposed = TRUE]
    BY <1>8 DEF DisposeFinishes, Done
  <2>2. actor'.disposed /\ actor'.connecting = actor.connecting
    BY <1>1, <2>1 DEF ActorRecords
  <2> QED
    BY <1>1, <2>1, <2>2, AdvanceServes DEF Free, LeavesAt
<1> QED
  BY <1>3, <1>4, <1>5, <1>6, <1>7, <1>8 DEF Resume

LEMMA CallServes ==
    ASSUME ServedInv, NEW f \in Coroutines, Start(f) \/ Stop(f) \/ Dispose(f) \/ Answer(f)
    PROVE  Serves
<1>1. /\ ActorTypeOK /\ ConnectingInv /\ StartingIsServed /\ actor \in ActorRecords
      /\ flows \in [Coroutines -> Flows]
  BY DEF ServedInv, ActorInv, ActorTypeOK, ActorRecords
<1>2. CASE Start(f)
  <2> DEFINE new == [of |-> "start", left |-> 0,
                     at |-> IF session.phase = "reconnecting" THEN "rejoin" ELSE "connect",
                     got |-> CASE session.phase = "connected"     -> "ok"
                               [] session.phase = "disconnecting" -> "failed"
                               [] OTHER                           -> "none"]
  <2>1. Advance(f, new)
    BY <1>2 DEF Start
  <2>2. new.at \in {"connect", "rejoin"}
    OBVIOUS
  <2> HIDE DEF new
  <2> QED
    BY <1>1, <2>1, <2>2, AdvanceServes DEF LeavesAt
<1>3. CASE Stop(f)
  BY <1>1, <1>3, StopServes DEF Stop, IsFree, LeavesAt
<1>4. CASE Dispose(f)
  <2>1. CASE actor.status = "stopped"
    <3>1. actor' = actor /\ Advance(f, Finishing) /\ flows[f].at = "free"
      BY <1>4, <2>1 DEF Dispose, IsFree
    <3> QED
      BY <1>1, <2>1, <3>1, AdvanceServes DEF Finishing, LeavesAt
  <2>2. CASE actor.status # "stopped"
    BY <1>1, <1>4, <2>2, StopServes DEF Dispose, IsFree, LeavesAt
  <2> QED
    BY <2>1, <2>2
<1>5. CASE Answer(f)
  <2>1. /\ actor' = actor /\ session' = session /\ flows[f].at \in AsksAt
        /\ AtWork
    BY <1>5 DEF Answer, AsksAt, connectionVars, sessionVars, AtWork, IsFree
  <2>2. PICK answer : flows' = [flows EXCEPT ![f].got = answer]
    BY <1>5 DEF Answer
  <2>3. \A g \in Coroutines : /\ flows'[g].at = flows[g].at
                              /\ g # f => flows'[g] = flows[g] /\ Heard(flows[g]) = flows[g]
    BY <1>1, <2>1, <2>2, HeardIs DEF Flows
  <2>4. ConnectingInv' /\ AtWork'
    BY <1>1, <2>1, <2>3 DEF ConnectingInv, AtWork, IsFree
  <2> QED
    BY <2>1, <2>3, <2>4 DEF Serves, StartingIsServed, AsksAt, LeavesAt
<1> QED
  BY <1>2, <1>3, <1>4, <1>5

LEMMA TimersServe ==
    ASSUME ServedInv, TriggeredBootAnswered \/ BootRetryTimer \/ HeartbeatLoopStops
    PROVE  Serves
<1>1. /\ ActorTypeOK /\ ConnectingInv /\ StartingIsServed /\ actor \in ActorRecords
      /\ flows \in [Coroutines -> Flows]
  BY DEF ServedInv, ActorInv, ActorTypeOK, ActorRecords
<1>2. session' = session
  BY DEF TriggeredBootAnswered, BootRetryTimer, HeartbeatLoopStops, connectionVars, sessionVars
<1>3. CASE TriggeredBootAnswered \/ HeartbeatLoopStops
  <2>1. flows' = flows /\ actor' = actor
    BY <1>3 DEF TriggeredBootAnswered, HeartbeatLoopStops
  <2>2. flows = [g \in Coroutines |-> flows[g]] /\ \A g \in Coroutines : Heard(flows[g]) = flows[g]
    BY <1>1, <1>2, HeardIs
  <2>3. AllHear
    BY <2>1, <2>2 DEF AllHear
  <2> QED
    BY <1>1, <1>2, <2>1, <2>3, HearServes
<1>4. CASE BootRetryTimer
  <2>1. /\ actor.retryTimer /\ RetryBoot
        /\ actor' = [actor EXCEPT !.retryTimer = FALSE]
    BY <1>4 DEF BootRetryTimer
  <2>2. /\ actor'.status = actor.status /\ actor'.disposed = actor.disposed
        /\ actor'.connecting = actor.connecting
    BY <1>1, <2>1 DEF ActorRecords
  <2>3. CASE actor.status = "starting" /\ ~actor.disposed
    <3>1. PICK f \in Coroutines : IsFree(f) /\ Advance(f, Asking("retry", "boot", 0))
      BY <2>1, <2>3 DEF RetryBoot
    <3>2. Asking("retry", "boot", 0).at = "boot"
      BY DEF Asking
    <3> QED
      BY <1>1, <2>2, <3>1, <3>2, AdvanceServes DEF IsFree, LeavesAt
  <2>4. CASE ~(actor.status = "starting" /\ ~actor.disposed)
    <3>1. AllHear
      BY <2>1, <2>4 DEF RetryBoot
    <3>2. \A g \in Coroutines : flows'[g] = Heard(flows[g]) /\ flows'[g].at = flows[g].at
      BY <1>1, <3>1, HeardIs DEF AllHear
    <3>3. ConnectingInv' /\ StartingIsServed'
      BY <1>1, <2>2, <2>4, <3>2 DEF ConnectingInv, StartingIsServed
    <3> QED
      BY <3>2, <3>3 DEF Serves
  <2> QED
    BY <2>3, <2>4
<1> QED
  BY <1>3, <1>4

LEMMA MovesServe ==
    ASSUME Unlimited, ServedInv, SessionMoves
    PROVE  Serves
<1>1. /\ ActorTypeOK /\ ConnectingInv /\ StartingIsServed /\ actor' = actor /\ IInv
  BY DEF ServedInv, ActorInv, SessionMoves, SessionReaction
<1>2. session.phase = "reconnecting" => session'.phase \in {"reconnecting", "connected"}
  BY <1>1, MicrotaskEffect, MacrotaskEffect DEF SessionMoves
<1>3. CASE CameOnline /\ ~actor.connecting /\ actor.status = "starting" /\ ~actor.disposed
  <2>1. PICK f \in Coroutines : IsFree(f) /\ Advance(f, Asking("retry", "boot", 0))
    BY <1>3 DEF SessionMoves, SessionReaction, RetryBoot
  <2>2. Asking("retry", "boot", 0).at = "boot"
    BY DEF Asking
  <2> QED
    BY <1>1, <2>1, <2>2, AdvanceServes DEF IsFree, LeavesAt
<1>4. CASE ~(CameOnline /\ ~actor.connecting /\ actor.status = "starting" /\ ~actor.disposed)
  <2>1. AllHear
    BY <1>4 DEF SessionMoves, SessionReaction, RetryBoot
  <2>2. actor.connecting => AtWork
    BY <1>1 DEF ConnectingInv, AtWork, IsFree
  <2>3. CASE actor.status = "starting" /\ ~actor.disposed
    <3>1. AtWork \/ session.phase # "reconnecting" \/ session'.phase = "reconnecting"
      BY <1>2, <1>4, <2>2, <2>3 DEF CameOnline
    <3> QED
      BY <1>1, <2>1, <3>1, HearServes
  <2>4. CASE ~(actor.status = "starting" /\ ~actor.disposed)
    <3>1. \A g \in Coroutines : flows'[g] = Heard(flows[g]) /\ flows'[g].at = flows[g].at
      BY <1>1, <2>1, HeardIs DEF AllHear, ActorTypeOK
    <3>2. ConnectingInv' /\ StartingIsServed'
      BY <1>1, <2>4, <3>1 DEF ConnectingInv, StartingIsServed
    <3> QED
      BY <3>1, <3>2 DEF Serves
  <2> QED
    BY <2>3, <2>4
<1> QED
  BY <1>3, <1>4

LEMMA ServedNextSound ==
    ASSUME ~CloseThrows, Unlimited, ServedInv, [ActorNext]_vars
    PROVE  ServedInv'
<1>1. ActorInv'
  BY ActorNextSound DEF ServedInv
<1>2. CASE UNCHANGED vars
  <2>1. /\ session' = session /\ transport' = transport /\ awaiting' = awaiting
        /\ actor' = actor /\ flows' = flows
    BY <1>2 DEF vars, connectionVars, sessionVars, transportVars, actorVars
  <2> QED
    BY <1>1, <2>1 DEF ServedInv, NoneRefused, SessionObeys, ConnectingInv, StartingIsServed,
       AtWork, IsFree
<1>3. CASE ActorNext
  <2>1. Serves
    BY <1>3, MovesServe, ResumeServes, CallServes, TimersServe DEF ActorNext
  <2>2. SessionObeys'
    <3>1. [Next]_connectionVars
      BY <1>3, ActorStepsSession DEF ServedInv, ActorInv
    <3> QED
      BY <3>1, SessionStaysObeyed DEF ServedInv, ActorInv, NoneRefused
  <2>3. ~DisconnectFails
    BY DEF DisconnectFails, ServedInv, NoneRefused, SessionObeys, NoneRefusedIn
  <2>4. ASSUME NEW g \in Coroutines, flows'[g].at \in LeavesAt
        PROVE  flows'[g].got # "failed"
    <3>1. flows'[g].got = "none" \/ flows'[g] = Heard(flows[g])
      BY <2>1, <2>4 DEF Serves
    <3>2. flows[g] \in Flows
      BY DEF ServedInv, ActorInv, ActorTypeOK
    <3>3. Heard(flows[g]).at \in LeavesAt => Heard(flows[g]).got # "failed"
      BY <2>3, <3>2, HeardIs DEF ServedInv, NoneRefused, LeavesAt, AsksAt
    <3> QED
      BY <2>4, <3>1, <3>3
  <2> QED
    BY <1>1, <2>1, <2>2, <2>4 DEF ServedInv, Serves, NoneRefused
<1> QED
  BY <1>2, <1>3

\* An actor that is starting gets on: a coroutine is at work, the retry timer
\* runs, or the session reconnects, and its "online" will boot the point.  It
\* takes what the program provides: reconnect attempts without a limit, which
\* is the session's default, and sockets that do not refuse close(1000).
THEOREM StartIsServed ==
    ASSUME ~CloseThrows, Unlimited
    PROVE  ActorSpec => []StartingIsServed
<1>1. ActorInitial => ServedInv
  <2> SUFFICES ASSUME ActorInitial PROVE ServedInv
    OBVIOUS
  <2>1. ActorInv
    BY ActorInitSound
  <2>2. transport.disconnect # "rejected" /\ awaiting = {}
    BY DEF ActorInitial, Init, TransportInit, SessionInit
  <2>3. /\ actor.status = "stopped" /\ ~actor.connecting
        /\ \A f \in Coroutines : flows[f].at = "free"
    BY DEF ActorInitial, ActorInit, Free
  <2> QED
    BY <2>1, <2>2, <2>3 DEF ServedInv, NoneRefused, SessionObeys, NoneRefusedIn, ConnectingInv,
       StartingIsServed, LeavesAt
<1>2. ServedInv /\ [ActorNext]_vars => ServedInv'
  BY ServedNextSound
<1>3. ServedInv => StartingIsServed
  BY DEF ServedInv
<1> QED
  BY <1>1, <1>2, <1>3, PTL DEF ActorSpec

=============================================================================
