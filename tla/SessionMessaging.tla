--------------------------- MODULE SessionMessaging ---------------------------
(***************************************************************************)
(* OutboundRequestCoordinator with PendingOutboundRequestRegistry under    *)
(* the policy "serial", and InboundRequestCoordinator with                 *)
(* InboundRequestRegistry: the requests of a session in both directions    *)
(* over the connections that SessionConnection makes and loses.            *)
(*                                                                         *)
(* The two meet where the handler of a call asks the CSMS before it        *)
(* answers: RemoteStartTransaction, which may send Authorize first.        *)
(***************************************************************************)
EXTENDS Frames, FiniteSets, SequencesExt

CONSTANTS
    Requests,       \* requests the runtime makes of its own
    Calls,          \* calls of the CSMS, by message id
    MaxConnections  \* bound: connections made

ASSUME MessagingAssumption ==
    /\ Requests \cap Calls = {}
    /\ MaxConnections \in Nat

VARIABLES
    connection,     \* whether the session is connected, and how many times it was
    queue,          \* outboundRequestQueue
    inFlight,       \* the request under way, its promise and whether the caller was told
    outbound,       \* the promise request() returned, for each request
    sentOn,         \* the connection each request was sent on, 0 if none
    inbound,        \* the registered context of each call and its handler;
                    \* "refused": a payload of it failed validation and no socket
                    \* stood in the way of its CALLERROR
    replies,        \* the replies sent
    started         \* the calls whose accepted command was run

outboundVars == <<queue, inFlight, outbound, sentOn>>
inboundVars == <<inbound, replies, started>>
messagingVars == <<connection, outboundVars, inboundVars>>

\* A call's handler makes at most one request, named after the call.
Asked == Requests \cup Calls

Idle == [request |-> "none", outcome |-> "none", told |-> TRUE]

InFlight ==
    {f \in [request : Asked, outcome : {"pending", "answered", "failed"}, told : BOOLEAN] :
        f.told => f.outcome # "pending"}

MessagingTypeOK ==
    /\ connection \in [up : BOOLEAN, number : 0..MaxConnections]
    /\ queue \in Seq(Asked)
    /\ inFlight \in InFlight \cup {Idle}
    /\ outbound \in [Asked -> {"none", "pending", "answered", "failed"}]
    /\ sentOn \in [Asked -> 0..MaxConnections]
    /\ inbound \in [Calls -> [state : {"none", "open", "settled", "invalid", "refused"},
                              on : 0..MaxConnections,
                              handler : {"none", "asking", "done"}]]
    /\ replies \subseteq
         [call : Calls, on : 1..MaxConnections, as : {"accepted", "refused", "timeout", "violation"}]
    /\ started \subseteq Calls

Init ==
    /\ connection = [up |-> FALSE, number |-> 0]
    /\ queue = <<>>
    /\ inFlight = Idle
    /\ outbound = [r \in Asked |-> "none"]
    /\ sentOn = [r \in Asked |-> 0]
    /\ inbound = [c \in Calls |-> [state |-> "none", on |-> 0, handler |-> "none"]]
    /\ replies = {}
    /\ started = {}

-----------------------------------------------------------------------------
(* Outbound requests. *)

\* dispatch of the head of q: it is registered and sent.  Without a connection,
\* or when a socket that is closing refuses the frame, the request fails.
Dispatch(q) ==
    LET r == Head(q)
    IN /\ queue' = Tail(q)
       /\ \/ /\ connection.up
             /\ inFlight' = [request |-> r, outcome |-> "pending", told |-> FALSE]
             /\ sentOn' = [sentOn EXCEPT ![r] = connection.number]
          \/ /\ inFlight' = [request |-> r, outcome |-> "failed", told |-> FALSE]
             /\ UNCHANGED sentOn

\* processQueue, with the queue at q and the request in flight at busy.
ProcessQueue(q, busy) ==
    IF q = <<>> \/ busy # Idle
    THEN queue' = q /\ inFlight' = busy /\ UNCHANGED sentOn
    ELSE Dispatch(q)

\* request().
Ask(r) ==
    IF connection.up
    THEN /\ outbound' = [outbound EXCEPT ![r] = "pending"]
         /\ ProcessQueue(Append(queue, r), inFlight)
    ELSE /\ outbound' = [outbound EXCEPT ![r] = "failed"]
         /\ UNCHANGED <<queue, inFlight, sentOn>>

Request(r) ==
    /\ outbound[r] = "none"
    /\ Ask(r)
    /\ UNCHANGED <<connection, inboundVars>>

\* The microtask of then: the caller's promise settles.
SettleInFlight ==
    /\ inFlight.outcome \in {"answered", "failed"} /\ ~inFlight.told
    /\ inFlight' = [inFlight EXCEPT !.told = TRUE]
    /\ outbound' = [outbound EXCEPT ![inFlight.request] = inFlight.outcome]
    /\ UNCHANGED <<connection, queue, sentOn, inboundVars>>

\* Mutant: the flag is reset and the queue is left alone.
FreeInFlight_Forgets ==
    /\ inFlight # Idle /\ inFlight.told
    /\ inFlight' = Idle
    /\ UNCHANGED <<connection, queue, outbound, sentOn, inboundVars>>

\* The microtask of finally: the next request goes.
FreeInFlight ==
    /\ inFlight # Idle /\ inFlight.told
    /\ ProcessQueue(queue, Idle)
    /\ UNCHANGED <<connection, outbound, inboundVars>>

-----------------------------------------------------------------------------
(* Calls of the CSMS. *)

Reply(c, as) == [call |-> c, on |-> connection.number, as |-> as]

\* send of a CALLERROR: what the codec does not encode is not sent.
Refusal(c, details, as) == IF Encode(CallError(details)) = {} THEN {} ELSE {Reply(c, as)}

\* claim does not throw: one of the handler and the timeout takes the right to
\* reply, unless the connection went first.
CanClaim(context) == context.state = "open"

\* respond(), and with "accepted" the command that follows it.  Without the
\* right to reply, or when the frame is refused, it throws; so does the reject()
\* that the listener of the runtime then tries, where nobody awaits it.
Respond(c, context, as) ==
    LET Settled(state) ==
            inbound' = [inbound EXCEPT ![c] = [context EXCEPT !.state = state, !.handler = "done"]]
        Done(sent) ==
            /\ replies' = replies \cup sent
            /\ started' = IF as = "accepted" /\ sent # {} THEN started \cup {c} ELSE started
    IN \/ CanClaim(context) /\ Settled("settled") /\ Done({Reply(c, as)})
       \/ /\ CanClaim(context)
          /\ Settled("refused")
          /\ \E verdict \in Failing : Done(Refusal(c, ErrorDetails(verdict), "violation"))
       \/ /\ Settled(IF CanClaim(context) THEN "settled" ELSE context.state)
          /\ UNCHANGED <<replies, started>>

\* What resumes a caller runs before the next event.
Resumable(c) == inbound[c].handler = "asking" /\ outbound[c] \in {"answered", "failed"}

Quiet ==
    /\ inFlight = Idle \/ inFlight.outcome = "pending"
    /\ ~\E c \in Calls : Resumable(c)

\* handleInboundRequest of a call that validates: its handler answers at once,
\* or asks first.
Receive(c) ==
    /\ Quiet /\ connection.up
    /\ inbound[c].state = "none"
    /\ LET context == [state |-> "open", on |-> connection.number, handler |-> "asking"]
       IN \/ /\ \E as \in {"accepted", "refused"} : Respond(c, context, as)
             /\ UNCHANGED outboundVars
          \/ /\ inbound' = [inbound EXCEPT ![c] = context]
             /\ Ask(c)
             /\ UNCHANGED <<replies, started>>
    /\ UNCHANGED connection

\* handleInboundRequest of a call that does not: it is never registered, and a
\* CALLERROR that is not sent is only logged.
ReceiveInvalid(c) ==
    /\ Quiet /\ connection.up
    /\ inbound[c].state = "none"
    /\ \E verdict \in Failing, taken \in BOOLEAN :
         /\ inbound' = [inbound EXCEPT ![c] =
              [state |-> IF taken THEN "refused" ELSE "settled", on |-> connection.number,
               handler |-> "done"]]
         /\ replies' = IF taken THEN replies \cup Refusal(c, ErrorDetails(verdict), "violation")
                       ELSE replies
    /\ UNCHANGED <<connection, outboundVars, started>>

\* The handler goes on after its request.
Resume(c) ==
    /\ Resumable(c)
    /\ \E as \in IF outbound[c] = "answered" THEN {"accepted", "refused"} ELSE {"refused"} :
         Respond(c, inbound[c], as)
    /\ UNCHANGED <<connection, outboundVars>>

\* Mutant: the timeout does not claim the right to reply.
CallTimesOut_NoClaim(c) ==
    /\ Quiet
    /\ CanClaim(inbound[c])
    /\ replies' = replies \cup Refusal(c, NoDetails, "timeout")
    /\ UNCHANGED <<connection, outboundVars, inbound, started>>

\* The timeout of a call claims the right to reply and sends a CALLERROR, whose
\* failure is only logged.
CallTimesOut(c) ==
    /\ Quiet
    /\ CanClaim(inbound[c])
    /\ inbound' = [inbound EXCEPT ![c].state = "settled"]
    /\ replies' \in {replies, replies \cup Refusal(c, NoDetails, "timeout")}
    /\ UNCHANGED <<connection, outboundVars, started>>

-----------------------------------------------------------------------------
(* Replies, timeouts and connections. *)

ReplyOutcomes == {ReplyOutcome(kind, verdict) : kind \in {"response", "error"}, verdict \in Verdicts}

\* A reply to the pending request, or its timeout.  A reply to another is
\* dropped and changes nothing.
RequestEnds(outcome) ==
    /\ Quiet
    /\ inFlight.outcome = "pending"
    /\ inFlight' = [inFlight EXCEPT !.outcome = outcome]
    /\ UNCHANGED <<connection, queue, outbound, sentOn, inboundVars>>

Connected ==
    /\ Quiet
    /\ ~connection.up
    /\ connection.number < MaxConnections
    /\ connection' = [up |-> TRUE, number |-> connection.number + 1]
    /\ UNCHANGED <<outboundVars, inboundVars>>

\* Mutant: the queue is kept for the next connection.
RejectOutbound_KeepsQueue ==
    /\ UNCHANGED <<queue, outbound>>
    /\ inFlight' = IF inFlight.outcome = "pending" THEN [inFlight EXCEPT !.outcome = "failed"]
                   ELSE inFlight

\* handleDisconnected of the outbound requests: the queued ones fail at once,
\* the pending one through its microtask.
RejectOutbound ==
    /\ queue' = <<>>
    /\ outbound' = [r \in Asked |-> IF r \in ToSet(queue) THEN "failed" ELSE outbound[r]]
    /\ inFlight' = IF inFlight.outcome = "pending" THEN [inFlight EXCEPT !.outcome = "failed"]
                   ELSE inFlight

\* invalidateAll.
InvalidateAll ==
    inbound' = [c \in Calls |-> IF inbound[c].state = "open"
                                THEN [inbound[c] EXCEPT !.state = "invalid"] ELSE inbound[c]]

\* The connection is lost or disconnect() is called: resetMessagingState.
Disconnected ==
    /\ connection.up
    /\ connection' = [connection EXCEPT !.up = FALSE]
    /\ RejectOutbound
    /\ InvalidateAll
    /\ UNCHANGED <<sentOn, replies, started>>

Next ==
    \/ \E r \in Requests : Request(r)
    \/ SettleInFlight \/ FreeInFlight
    \/ \E c \in Calls : Receive(c) \/ ReceiveInvalid(c) \/ Resume(c) \/ CallTimesOut(c)
    \/ \E outcome \in ReplyOutcomes \cup {"failed"} : RequestEnds(outcome)
    \/ Connected \/ Disconnected

Spec == Init /\ [][Next]_messagingVars

\* Microtasks run, and each pending request has a timer.
Fairness ==
    /\ WF_messagingVars(SettleInFlight) /\ WF_messagingVars(FreeInFlight)
    /\ WF_messagingVars(RequestEnds("failed"))
    /\ \A c \in Calls : WF_messagingVars(Resume(c))

LiveSpec == Spec /\ Fairness

-----------------------------------------------------------------------------

\* The queue never stalls and forgets nobody: a request waits exactly while it
\* is queued or in flight, once, and while one is queued another is in flight
\* that will let it go.
QueueMoves ==
    /\ queue # <<>> => inFlight # Idle
    /\ IsInjective(queue) /\ inFlight.request \notin ToSet(queue)
    /\ \A r \in Asked : outbound[r] = "pending" <=>
         r \in ToSet(queue) \/ (inFlight.request = r /\ ~inFlight.told)

\* What waits belongs to the connection that is up: when it ends no request is
\* queued or pending and no call can be answered, so that nothing of it
\* reaches the next.
NothingOutlivesItsConnection ==
    /\ queue # <<>> \/ inFlight.outcome = "pending" => connection.up
    /\ inFlight.outcome = "pending" => sentOn[inFlight.request] = connection.number
    /\ \A c \in Calls : inbound[c].state = "open" =>
         connection.up /\ inbound[c].on = connection.number

\* A call is answered at most once, by its handler or by its timeout, on the
\* connection it came on; and a command whose acceptance did not reach the wire
\* is not run, although its handler decided to accept after the timeout or the
\* connection had passed.
AnsweredOnceWhereItCame ==
    /\ \A a, b \in replies : a.call = b.call => a = b
    /\ \A a \in replies : a.on = inbound[a.call].on
    /\ \A c \in started : \E a \in replies : a.call = c /\ a.as = "accepted"

\* What the coordinator and its tests say of a payload that fails validation,
\* that of the call or that of its reply: the CSMS is answered with a CALLERROR,
\* unless the socket refuses the frame.
RefusedCallsAreAnswered ==
    \A c \in Calls : inbound[c].state = "refused" => \E a \in replies : a.call = c

\* Every request settles, however many wait before it, and with it every handler
\* that asked.
RequestsSettle == \A r \in Asked : outbound[r] = "pending" ~> outbound[r] # "pending"

=============================================================================
