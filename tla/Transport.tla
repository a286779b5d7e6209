------------------------------ MODULE Transport ------------------------------
(***************************************************************************)
(* WebSocketTransport with its TransportLifecycleMachine: a WebSocket made *)
(* to follow four states, whose connect() and disconnect() return promises *)
(* that the socket's events settle.  The session that calls it is in       *)
(* SessionConnection.  Frames are left out.                                *)
(***************************************************************************)

CONSTANT CloseThrows    \* whether socket.close() may throw

ASSUME CloseThrowsAssumption == CloseThrows \in BOOLEAN

VARIABLES
    transport,      \* the lifecycle machine: its state and its two deferreds
    socket,         \* the readyState of this.socket, "none" without a socket
    connectTimer,   \* the connect timeout is running
    errorCheck      \* the microtask of handleError is queued for this.socket

transportVars == <<transport, socket, connectTimer, errorCheck>>

States == {"disconnected", "connecting", "connected", "disconnecting"}

\* The last promise that connect() or disconnect() created.
Promises == {"none", "pending", "resolved", "rejected"}

SocketStates == {"none", "connecting", "open", "closing"}

TransportTypeOK ==
    /\ transport \in [state : States, connect : Promises, disconnect : Promises]
    /\ socket \in SocketStates
    /\ connectTimer \in BOOLEAN
    /\ errorCheck \in BOOLEAN

TransportInit ==
    /\ transport = [state |-> "disconnected", connect |-> "none", disconnect |-> "none"]
    /\ socket = "none"
    /\ connectTimer = FALSE
    /\ errorCheck = FALSE

-----------------------------------------------------------------------------
(* The lifecycle machine. *)

\* failConnect and failDisconnect do nothing without an operation.
FailConnect(t) ==
    IF t.connect = "pending"
    THEN [t EXCEPT !.connect = "rejected", !.state = "disconnected"]
    ELSE t

SettleDisconnect(t, outcome) ==
    IF t.disconnect = "pending"
    THEN [t EXCEPT !.disconnect = outcome, !.state = "disconnected"]
    ELSE t

BeginDisconnect(t) == [t EXCEPT !.disconnect = "pending", !.state = "disconnecting"]

InterruptConnect(t) ==
    [BeginDisconnect(t) EXCEPT
        !.connect = IF t.connect = "pending" THEN "rejected" ELSE t.connect]

-----------------------------------------------------------------------------
(* Helpers of the transport. *)

\* Mutant: the connect timeout is left running.
ReleaseSocket_KeepsTimer ==
    /\ socket' = "none"
    /\ connectTimer' = connectTimer
    /\ errorCheck' = FALSE

\* releaseSocket: the listeners go, so nothing of the old socket arrives.
ReleaseSocket ==
    /\ socket' = "none"
    /\ connectTimer' = FALSE
    /\ errorCheck' = FALSE

\* Mutant: a close that throws releases the socket and tells nobody.
RequestSocketClose_Unsettled(t) ==
    IF socket = "none"
    THEN /\ transport' = SettleDisconnect(t, "resolved")
         /\ connectTimer' = FALSE
         /\ UNCHANGED <<socket, errorCheck>>
    ELSE \/ /\ transport' = t
            /\ socket' = "closing"
            /\ connectTimer' = FALSE
            /\ UNCHANGED errorCheck
         \/ /\ CloseThrows
            /\ transport' = t
            /\ ReleaseSocket

\* requestSocketClose(1000), with the machine already at t.
RequestSocketClose(t) ==
    IF socket = "none"
    THEN /\ transport' = SettleDisconnect(t, "resolved")
         /\ connectTimer' = FALSE
         /\ UNCHANGED <<socket, errorCheck>>
    ELSE \/ /\ transport' = t
            /\ socket' \in IF socket = "connecting" THEN {"connecting", "closing"} ELSE {"closing"}
            /\ connectTimer' = FALSE
            /\ UNCHANGED errorCheck
         \/ /\ CloseThrows
            /\ transport' = SettleDisconnect(t, "rejected")
            /\ ReleaseSocket

-----------------------------------------------------------------------------
(* Calls: outcome is what the returned promise is when the call returns. *)

Pending(promise) == IF promise = "pending" THEN "pending" ELSE "rejected"

StartConnect(outcome) ==
    \/ /\ outcome = "pending"
       /\ transport' = [transport EXCEPT !.state = "connecting", !.connect = "pending"]
       /\ socket' = "connecting"
       /\ connectTimer' = TRUE
       /\ errorCheck' = FALSE
    \/ /\ outcome = "rejected"      \* the constructor of the socket throws
       /\ transport' = [transport EXCEPT !.connect = "rejected"]
       /\ connectTimer' = FALSE
       /\ UNCHANGED <<socket, errorCheck>>

TransportConnect(outcome) ==
    IF transport.state = "disconnected"
    THEN StartConnect(outcome)
    ELSE /\ outcome = CASE transport.state = "connected"     -> "resolved"
                        [] transport.state = "connecting"    -> Pending(transport.connect)
                        [] transport.state = "disconnecting" -> "rejected"
         /\ UNCHANGED transportVars

TransportDisconnect(outcome) ==
    IF transport.state \in {"disconnected", "disconnecting"}
    THEN /\ outcome = IF transport.state = "disconnected" THEN "resolved"
                      ELSE Pending(transport.disconnect)
         /\ UNCHANGED transportVars
    ELSE /\ RequestSocketClose(IF transport.state = "connecting"
                               THEN InterruptConnect(transport) ELSE BeginDisconnect(transport))
         /\ outcome = transport'.disconnect

-----------------------------------------------------------------------------
(* Events of the socket and of the timers. *)

\* handleOpen.  A socket that was told to close while it connected may still
\* open: it is told again.
HandleOpen ==
    /\ socket = "connecting"
    /\ \/ /\ transport.state = "connecting"
          /\ transport' = IF transport.connect = "pending"
                          THEN [transport EXCEPT !.state = "connected", !.connect = "resolved"]
                          ELSE transport
          /\ socket' = "open"
          /\ connectTimer' = FALSE
          /\ UNCHANGED errorCheck
       \/ /\ transport.state = "disconnecting"
          /\ connectTimer' = FALSE
          /\ \/ transport' = transport /\ socket' = "closing" /\ UNCHANGED errorCheck
             \/ /\ CloseThrows
                /\ transport' = SettleDisconnect(transport, "rejected")
                /\ socket' = "none"
                /\ errorCheck' = FALSE

\* handleError.  In a connection the error waits for the microtask, by when
\* the socket may have left OPEN.
HandleError ==
    /\ socket # "none"
    /\ \/ /\ transport.state = "connecting"
          /\ transport' = FailConnect(transport)
          /\ ReleaseSocket
       \/ /\ transport.state = "connected"
          /\ errorCheck' = TRUE
          /\ socket' \in {"open", "closing"}
          /\ UNCHANGED <<transport, connectTimer>>

\* The microtask: an error of a socket that is still open is only reported.
ErrorChecked ==
    /\ errorCheck
    /\ IF transport.state = "connected" /\ socket # "open"
       THEN /\ transport' = [transport EXCEPT !.state = "disconnected"]
            /\ ReleaseSocket
       ELSE /\ errorCheck' = FALSE
            /\ UNCHANGED <<transport, socket, connectTimer>>

\* handleClose.
HandleClose ==
    /\ socket # "none"
    /\ transport' =
         CASE transport.state = "disconnecting" -> SettleDisconnect(transport, "resolved")
           [] transport.state = "connecting"    -> FailConnect(transport)
           [] OTHER -> [transport EXCEPT !.state = "disconnected"]
    /\ ReleaseSocket

\* handleConnectTimeout.
ConnectTimesOut ==
    /\ connectTimer
    /\ IF socket # "none" /\ transport.state = "connecting"
       THEN transport' = FailConnect(transport) /\ ReleaseSocket
       ELSE connectTimer' = FALSE /\ UNCHANGED <<transport, socket, errorCheck>>

\* The events that begin a turn of the event loop.
SocketEvent == HandleOpen \/ HandleError \/ HandleClose \/ ConnectTimesOut

-----------------------------------------------------------------------------

\* Nothing of the transport is orphaned: a promise is pending exactly while a
\* socket is on its way to settle it, a socket is held in every state but
\* "disconnected", and the connect timeout guards the connecting one alone.
TransportConsistent ==
    /\ transport.connect = "pending" <=> transport.state = "connecting"
    /\ transport.disconnect = "pending" <=> transport.state = "disconnecting"
    /\ socket = "none" <=> transport.state = "disconnected"
    /\ connectTimer <=> transport.state = "connecting"
    /\ errorCheck => transport.state \in {"connected", "disconnecting"}
    /\ transport.state = "connecting" => socket = "connecting"
    /\ socket = "open" => transport.state = "connected"

=============================================================================
