-------------------------- MODULE SessionConnection --------------------------
(***************************************************************************)
(* SessionConnectionController, SessionReconnectController and             *)
(* SessionLifecycleMachine: how a session connects, disconnects and        *)
(* reconnects over the Transport.  What a connection carries is left out.  *)
(*                                                                         *)
(* One thread runs everything.  The transport's promises wake              *)
(* continuations, which run as microtasks: before the next event of a      *)
(* socket or a timer, in an order left open here.                          *)
(***************************************************************************)
EXTENDS Transport, Naturals

CONSTANTS
    Reconnects,     \* whether the session was given reconnect options
    Unlimited,      \* maxRetries is Infinity, its default
    MaxRetries      \* else maxRetries

ASSUME SessionAssumption ==
    /\ Reconnects \in BOOLEAN /\ Unlimited \in BOOLEAN
    /\ MaxRetries \in Nat

VARIABLES
    session,        \* the lifecycle machine: its phase and its operations
    reconnectTimer, \* the reconnect timeout is running
    attempt,        \* the number of the reconnect attempt, 1 when Unlimited
    awaiting,       \* the continuations that wait for the transport
    intent          \* the last call the session accepted

sessionVars == <<session, reconnectTimer, attempt, awaiting, intent>>
connectionVars == <<transportVars, sessionVars>>

Phases == {"idle", "connecting", "connected", "reconnecting", "disconnecting"}

\* A continuation of runInitialConnect, runAttempt or runDisconnect; it is
\* live while its operation is the machine's.
Continuations ==
    [flow : {"connect", "attempt", "disconnect"}, live : BOOLEAN,
     outcome : {"pending", "resolved", "rejected"}]

SessionTypeOK ==
    /\ session \in [phase : Phases, connect : BOOLEAN, reconnect : BOOLEAN,
                    disconnect : BOOLEAN]
    /\ reconnectTimer \in BOOLEAN
    /\ attempt \in Nat
    /\ awaiting \subseteq Continuations
    /\ intent \in {"connect", "disconnect"}

TypeOK == TransportTypeOK /\ SessionTypeOK

SessionInit ==
    /\ session = [phase |-> "idle", connect |-> FALSE, reconnect |-> FALSE, disconnect |-> FALSE]
    /\ reconnectTimer = FALSE
    /\ attempt = 0
    /\ awaiting = {}
    /\ intent = "disconnect"

Init == TransportInit /\ SessionInit

-----------------------------------------------------------------------------
(* Continuations. *)

Awaits(flow, outcome) == [flow |-> flow, live |-> TRUE, outcome |-> outcome]

\* The machine has a new operation, or none, for this flow.
Orphaned(flow, waiting) ==
    {[w EXCEPT !.live = @ /\ w.flow # flow] : w \in waiting}

\* The promises of the transport that a step settled wake those that wait.
Woken(waiting) ==
    {[w EXCEPT !.outcome =
        IF @ # "pending" THEN @
        ELSE IF w.flow = "disconnect"
             THEN IF transport.disconnect = "pending" THEN transport'.disconnect ELSE @
             ELSE IF transport.connect = "pending" THEN transport'.connect ELSE @] : w \in waiting}

\* A turn of the event loop begins when no microtask is left.
Quiet == ~errorCheck /\ \A w \in awaiting : w.outcome = "pending"

-----------------------------------------------------------------------------
(* The reconnect controller. *)

\* beginReconnect and scheduleAttempt, or at once finishExhausted.
StartReconnect(s, waiting) ==
    IF Unlimited \/ MaxRetries > 0
    THEN /\ session' = [s EXCEPT !.phase = "reconnecting", !.reconnect = TRUE]
         /\ reconnectTimer' = TRUE
         /\ attempt' = 1
         /\ awaiting' = Orphaned("attempt", waiting)
    ELSE /\ session' = [s EXCEPT !.phase = "idle", !.reconnect = FALSE]
         /\ awaiting' = Orphaned("attempt", waiting)
         /\ UNCHANGED <<reconnectTimer, attempt>>

\* The timer of scheduleReconnect: runAttempt up to its await.
ReconnectAttempt ==
    /\ Quiet
    /\ reconnectTimer
    /\ reconnectTimer' = FALSE
    /\ IF session.phase = "reconnecting" /\ session.reconnect
       THEN \E outcome \in {"pending", "resolved", "rejected"} :
              /\ TransportConnect(outcome)
              /\ awaiting' = Woken(awaiting) \cup {Awaits("attempt", outcome)}
       ELSE UNCHANGED <<transportVars, awaiting>>
    /\ UNCHANGED <<session, attempt, intent>>

AttemptSucceeds(w) ==
    /\ w.flow = "attempt" /\ w.outcome = "resolved"
    /\ awaiting' = Orphaned("attempt", awaiting \ {w})
    /\ session' = [session EXCEPT !.phase = "connected", !.reconnect = FALSE]
    /\ UNCHANGED <<reconnectTimer, attempt>>

\* Mutant: a failed attempt is not followed by another.
AttemptFails_NoRetry(w) ==
    /\ w.flow = "attempt" /\ w.outcome = "rejected"
    /\ awaiting' = awaiting \ {w}
    /\ UNCHANGED <<session, reconnectTimer, attempt>>

AttemptFails(w) ==
    /\ w.flow = "attempt" /\ w.outcome = "rejected"
    /\ IF ~Unlimited /\ attempt >= MaxRetries
       THEN /\ session' = [session EXCEPT !.phase = "idle", !.reconnect = FALSE]
            /\ awaiting' = Orphaned("attempt", awaiting \ {w})
            /\ UNCHANGED <<reconnectTimer, attempt>>
       ELSE /\ reconnectTimer' = TRUE
            /\ attempt' = IF Unlimited THEN attempt ELSE attempt + 1
            /\ awaiting' = awaiting \ {w}
            /\ UNCHANGED session

-----------------------------------------------------------------------------
(* The connection controller: the other continuations. *)

ConnectSucceeds(w) ==
    /\ w.flow = "connect" /\ w.outcome = "resolved"
    /\ session' = [session EXCEPT !.phase = "connected", !.connect = FALSE]
    /\ awaiting' = Orphaned("connect", awaiting \ {w})
    /\ UNCHANGED <<reconnectTimer, attempt>>

ConnectFails(w) ==
    /\ w.flow = "connect" /\ w.outcome = "rejected"
    /\ LET failed == [session EXCEPT !.phase = "idle", !.connect = FALSE]
           others == Orphaned("connect", awaiting \ {w})
       IN IF Reconnects
          THEN StartReconnect(failed, others)
          ELSE /\ session' = failed
               /\ awaiting' = others
               /\ UNCHANGED <<reconnectTimer, attempt>>

\* completeDisconnect or failDisconnect.
DisconnectSettles(w) ==
    /\ w.flow = "disconnect"
    /\ session' = [session EXCEPT !.phase = "idle", !.disconnect = FALSE]
    /\ awaiting' = Orphaned("disconnect", awaiting \ {w})
    /\ UNCHANGED <<reconnectTimer, attempt>>

\* Mutant: the operation is not compared after the await.
Superseded_Never(w) == FALSE

\* A continuation whose operation has been replaced returns; so does a
\* success that finds the phase changed.
Superseded(w) ==
    \/ ~w.live
    \/ w.flow = "connect" /\ w.outcome = "resolved" /\ session.phase # "connecting"
    \/ w.flow = "attempt" /\ session.phase # "reconnecting"

Continue(w) ==
    /\ w.outcome # "pending"
    /\ IF Superseded(w)
       THEN awaiting' = awaiting \ {w} /\ UNCHANGED <<session, reconnectTimer, attempt>>
       ELSE \/ ConnectSucceeds(w) \/ ConnectFails(w)
            \/ AttemptSucceeds(w) \/ AttemptFails(w)
            \/ DisconnectSettles(w)
    /\ UNCHANGED <<transportVars, intent>>

Continues == \E w \in awaiting : Continue(w)

-----------------------------------------------------------------------------
(* Events of the transport. *)

\* handleTransportDisconnected, for the transport's loss of a connection.
TransportLost ==
    IF Reconnects
    THEN StartReconnect(session, awaiting)
    ELSE /\ session' = [session EXCEPT !.phase = "idle"]
         /\ UNCHANGED <<reconnectTimer, attempt, awaiting>>

\* In a session that is not connected the transport's events only wake the
\* continuations.
TransportReaction ==
    /\ IF /\ session.phase = "connected"
          /\ transport.state # "disconnected" /\ transport'.state = "disconnected"
       THEN TransportLost
       ELSE awaiting' = Woken(awaiting) /\ UNCHANGED <<session, reconnectTimer, attempt>>
    /\ UNCHANGED intent

TransportTurn(event) == Quiet /\ event /\ TransportReaction

ErrorCheckRuns == ErrorChecked /\ TransportReaction

-----------------------------------------------------------------------------
(* The calls. *)

\* connect() of an idle session: startInitialConnect.  In the other phases it
\* returns a promise there is, or is refused, and changes nothing.
StartInitialConnect ==
    /\ session.phase = "idle"
    /\ session' = [session EXCEPT !.phase = "connecting", !.connect = TRUE]
    /\ intent' = "connect"
    /\ \E outcome \in {"pending", "resolved", "rejected"} :
         /\ TransportConnect(outcome)
         /\ awaiting' = Woken(Orphaned("connect", awaiting)) \cup {Awaits("connect", outcome)}
    /\ UNCHANGED <<reconnectTimer, attempt>>

\* disconnect() of a session that is neither idle nor disconnecting: the
\* operation under way is aborted, then runDisconnect goes to its await.
StartDisconnect(s, waiting) ==
    /\ session' = [s EXCEPT !.phase = "disconnecting", !.disconnect = TRUE]
    /\ \E outcome \in {"pending", "resolved", "rejected"} :
         /\ TransportDisconnect(outcome)
         /\ awaiting' = Woken(Orphaned("disconnect", waiting)) \cup {Awaits("disconnect", outcome)}

\* Mutant: the operation of connect() is left in place.
DisconnectDuringConnect_NotAborted ==
    /\ session.phase = "connecting"
    /\ StartDisconnect(session, awaiting)
    /\ UNCHANGED reconnectTimer

\* Mutant: the connect is aborted, its socket is not closed.
DisconnectDuringConnect_LeavesSocket ==
    /\ session.phase = "connecting"
    /\ session' = [session EXCEPT !.phase = "idle", !.connect = FALSE]
    /\ awaiting' = Orphaned("connect", awaiting)
    /\ UNCHANGED <<transportVars, reconnectTimer>>

DisconnectDuringConnect ==
    /\ session.phase = "connecting"
    /\ StartDisconnect([session EXCEPT !.connect = FALSE], Orphaned("connect", awaiting))
    /\ UNCHANGED reconnectTimer

DisconnectFromActiveSession ==
    /\ session.phase = "connected"
    /\ StartDisconnect(session, awaiting)
    /\ UNCHANGED reconnectTimer

\* Mutant: the reconnect timer is left running.
DisconnectDuringReconnect_KeepsTimer ==
    /\ session.phase = "reconnecting"
    /\ StartDisconnect([session EXCEPT !.reconnect = FALSE], Orphaned("attempt", awaiting))
    /\ UNCHANGED reconnectTimer

DisconnectDuringReconnect ==
    /\ session.phase = "reconnecting"
    /\ StartDisconnect([session EXCEPT !.reconnect = FALSE], Orphaned("attempt", awaiting))
    /\ reconnectTimer' = FALSE

Disconnect ==
    /\ DisconnectDuringConnect \/ DisconnectFromActiveSession \/ DisconnectDuringReconnect
    /\ intent' = "disconnect"
    /\ UNCHANGED attempt

Macrotask == TransportTurn(SocketEvent) \/ ReconnectAttempt

Microtask == ErrorCheckRuns \/ Continues

Next == Macrotask \/ Microtask \/ StartInitialConnect \/ Disconnect

Spec == Init /\ [][Next]_connectionVars

\* Microtasks and timers run.  A connecting socket opens, errors or closes or
\* the timeout fires; one told to close closes; often enough a socket can be
\* made and opens.
Fairness ==
    /\ WF_connectionVars(Microtask)
    /\ WF_connectionVars(ReconnectAttempt)
    /\ WF_connectionVars(TransportTurn(ConnectTimesOut))
    /\ WF_connectionVars(TransportTurn(HandleClose) /\ transport.state = "disconnecting")
    /\ SF_connectionVars(ReconnectAttempt /\ transport'.state = "connecting")
    /\ SF_connectionVars(TransportTurn(HandleOpen))

LiveSpec == Spec /\ Fairness

-----------------------------------------------------------------------------

Driven(flow) == \E w \in awaiting : w.live /\ w.flow = flow

\* A phase that must end has exactly one thing that ends it: the continuation
\* of its operation or, between two attempts, the reconnect timer.
PhaseHasDriver ==
    /\ session.phase = "connecting" <=> Driven("connect")
    /\ session.phase = "disconnecting" <=> Driven("disconnect")
    /\ session.phase = "reconnecting" <=> reconnectTimer \/ Driven("attempt")
    /\ ~(reconnectTimer /\ Driven("attempt"))
    /\ \A v, w \in awaiting : v.live /\ w.live /\ v.flow = w.flow => v = w

\* The session's phase and the transport's socket do not come apart: an idle
\* session holds no socket, a session between two attempts neither, and a
\* connected one is over a connected transport.
SocketFollowsSession ==
    /\ session.phase = "idle" \/ reconnectTimer => transport.state = "disconnected"
    /\ session.phase = "connected" => transport.state = "connected"
    /\ session.phase = "disconnecting" => transport.state \in {"disconnecting", "disconnected"}
    /\ transport.state = "disconnecting" => session.phase = "disconnecting"

\* After disconnect() the session is neither connected nor on its way there
\* until connect() is called again, whatever was under way.
WishRespected ==
    intent = "disconnect" => session.phase \in {"idle", "disconnecting"}

SessionState ==
    CASE session.phase = "connected"    -> "online"
      [] session.phase = "reconnecting" -> "reconnecting"
      [] OTHER                          -> "offline"

Contract == INSTANCE ConnectionContract WITH state <- SessionState, wanted <- intent = "connect"

\* The session keeps its promise to the actor.
ImplementsContract == Contract!Spec

\* Every disconnect() ends, whether the socket closes or refuses to.
DisconnectEnds == session.phase = "disconnecting" ~> session.phase = "idle"

\* The attempts were limited and are used up.
GaveUp == ~Unlimited /\ session.phase = "idle"

\* A session that is wanted comes online, or gives up at the limit of its
\* attempts, or the wish is withdrawn.  Without a limit it never gives up.
WantedComesOnline ==
    intent = "connect" ~> session.phase = "connected" \/ GaveUp \/ intent = "disconnect"

=============================================================================
