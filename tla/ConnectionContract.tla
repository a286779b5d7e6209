-------------------------- MODULE ConnectionContract --------------------------
(***************************************************************************)
(* What a session promises to the actor that owns it: it is online only    *)
(* while it is wanted, it comes back by itself from "reconnecting" alone,  *)
(* and disconnect() takes it offline at once.                              *)
(***************************************************************************)
VARIABLES state, wanted

Init == state = "offline" /\ wanted = FALSE

\* connect() of a session that is offline.
Connect == state = "offline" /\ wanted' = TRUE /\ UNCHANGED state

\* disconnect(), whatever is under way.
Disconnect == wanted' = FALSE /\ state' = "offline"

GoOnline == wanted /\ state # "online" /\ state' = "online" /\ UNCHANGED wanted

\* A connection is lost, or the first one fails.
Reconnect == wanted /\ state # "reconnecting" /\ state' = "reconnecting" /\ UNCHANGED wanted

\* The attempts are exhausted, or none is made.
GoOffline == state' = "offline" /\ UNCHANGED wanted

Next == Connect \/ Disconnect \/ GoOnline \/ Reconnect \/ GoOffline

Spec == Init /\ [][Next]_<<state, wanted>>

=============================================================================
