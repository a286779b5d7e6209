----------------------- MODULE SessionMessagingProofs -----------------------
(***************************************************************************)
(* Proofs about SessionMessaging, for any requests, calls and number of    *)
(* connections.  The invariant has an outbound and an inbound half, which  *)
(* meet only where a handler asks.                                         *)
(***************************************************************************)
EXTENDS SessionMessaging, TLAPS

Promises == {"none", "pending", "answered", "failed"}

Contexts == [state : {"none", "open", "settled", "invalid", "refused"},
             on : 0..MaxConnections, handler : {"none", "asking", "done"}]

AllReplies == [call : Calls, on : 1..MaxConnections,
               as : {"accepted", "refused", "timeout", "violation"}]

ConnectionTyped == connection \in [up : BOOLEAN, number : 0..MaxConnections]

\* The outbound half.  Lined is what processQueue needs of a queue and of the
\* request in flight, when the promises are ob: it is QueueMoves but for the
\* request that processQueue is about to send.
OutTyped ==
    /\ ConnectionTyped
    /\ queue \in Seq(Asked)
    /\ inFlight \in InFlight \cup {Idle}
    /\ outbound \in [Asked -> Promises]
    /\ sentOn \in [Asked -> 0..MaxConnections]

Lined(q, f, ob) ==
    /\ IsInjective(q)
    /\ f # Idle => f.request \notin ToSet(q)
    /\ \A r \in Asked : ob[r] = "pending" <=> r \in ToSet(q) \/ (f.request = r /\ ~f.told)
    /\ f # Idle /\ f.told => ob[f.request] \in {"answered", "failed"}
    /\ q # <<>> \/ f.outcome = "pending" => connection.up
    /\ f.outcome = "pending" => sentOn[f.request] = connection.number

OutInv ==
    /\ OutTyped
    /\ Lined(queue, inFlight, outbound)
    /\ queue # <<>> => inFlight # Idle

\* The inbound half.
InTyped ==
    /\ ConnectionTyped
    /\ inbound \in [Calls -> Contexts]
    /\ replies \subseteq AllReplies
    /\ started \subseteq Calls

OpenHere ==
    \A c \in Calls : inbound[c].state = "open" =>
        connection.up /\ inbound[c].on = connection.number

Unanswered ==
    \A c \in Calls : inbound[c].state \in {"none", "open"} => \A a \in replies : a.call # c

Numbered == connection.up => connection.number # 0

InInv == InTyped /\ OpenHere /\ Unanswered /\ Numbered /\ AnsweredOnceWhereItCame

\* A call that has not come has not asked.
AskedOnce == \A c \in Calls : inbound[c].state = "none" => outbound[c] = "none"

MInv == OutInv /\ InInv /\ AskedOnce

-----------------------------------------------------------------------------
(* Queues. *)

LEMMA HeadAndTail ==
    ASSUME NEW S, NEW q \in Seq(S), q # <<>>, IsInjective(q)
    PROVE  /\ Head(q) \in S /\ Tail(q) \in Seq(S)
           /\ IsInjective(Tail(q))
           /\ Head(q) \notin ToSet(Tail(q))
           /\ ToSet(q) = ToSet(Tail(q)) \cup {Head(q)}
  <1>1. /\ Len(q) \in Nat \ {0} /\ DOMAIN q = 1..Len(q) /\ Head(q) = q[1] /\ q[1] \in S
        /\ Tail(q) \in Seq(S) /\ DOMAIN Tail(q) = 1..(Len(q) - 1)
        /\ \A i \in 1..(Len(q) - 1) : Tail(q)[i] = q[i + 1]
    OBVIOUS
  <1>2. IsInjective(Tail(q)) /\ Head(q) \notin ToSet(Tail(q))
    BY <1>1 DEF IsInjective, ToSet
  <1>3. ToSet(q) \subseteq ToSet(Tail(q)) \cup {Head(q)}
    <2> SUFFICES ASSUME NEW i \in 1..Len(q), i # 1
                 PROVE  q[i] \in ToSet(Tail(q))
      BY <1>1 DEF ToSet
    <2>1. i - 1 \in 1..(Len(q) - 1) /\ Tail(q)[i - 1] = q[i]
      BY <1>1
    <2> QED BY <1>1, <2>1 DEF ToSet
  <1>4. ToSet(Tail(q)) \cup {Head(q)} \subseteq ToSet(q)
    BY <1>1 DEF ToSet
  <1> QED BY <1>1, <1>2, <1>3, <1>4

LEMMA Appended ==
    ASSUME NEW S, NEW q \in Seq(S), NEW r \in S, r \notin ToSet(q), IsInjective(q)
    PROVE  /\ Append(q, r) \in Seq(S) /\ Append(q, r) # <<>>
           /\ IsInjective(Append(q, r))
           /\ ToSet(Append(q, r)) = ToSet(q) \cup {r}
  <1>1. /\ Len(q) \in Nat /\ DOMAIN q = 1..Len(q)
        /\ Append(q, r) \in Seq(S) /\ DOMAIN Append(q, r) = 1..(Len(q) + 1)
        /\ Append(q, r)[Len(q) + 1] = r
        /\ \A i \in 1..Len(q) : Append(q, r)[i] = q[i]
    OBVIOUS
  <1>2. \A i \in 1..(Len(q) + 1) : i \in 1..Len(q) \/ i = Len(q) + 1
    BY <1>1
  <1>3. IsInjective(Append(q, r))
    BY <1>1, <1>2 DEF IsInjective, ToSet
  <1>4. ToSet(Append(q, r)) = ToSet(q) \cup {r}
    BY <1>1, <1>2 DEF ToSet
  <1> QED BY <1>1, <1>3, <1>4

LEMMA EmptyQueue == IsInjective(<<>>) /\ ToSet(<<>>) = {} /\ <<>> \in Seq(Asked)
  BY DEF IsInjective, ToSet

-----------------------------------------------------------------------------
(* Outbound steps. *)

\* processQueue leaves the queue and the request in flight as they shall be.
LEMMA ProcessQueueKeeps ==
    ASSUME ConnectionTyped, UNCHANGED connection, sentOn \in [Asked -> 0..MaxConnections],
           NEW q \in Seq(Asked), NEW f \in InFlight \cup {Idle},
           outbound' \in [Asked -> Promises], Lined(q, f, outbound'), ProcessQueue(q, f)
    PROVE  OutInv'
  <1>1. CASE q = <<>> \/ f # Idle
    BY <1>1 DEF ProcessQueue, OutInv, OutTyped, ConnectionTyped, Lined
  <1>2. CASE q # <<>> /\ f = Idle
    <2> DEFINE r == Head(q)
    <2>1. Dispatch(q)
      BY <1>2 DEF ProcessQueue
    <2>2. /\ r \in Asked /\ Tail(q) \in Seq(Asked) /\ IsInjective(Tail(q))
          /\ r \notin ToSet(Tail(q)) /\ ToSet(q) = ToSet(Tail(q)) \cup {r}
      BY <1>2, HeadAndTail DEF Lined
    <2>3. PICK outcome \in {"pending", "failed"} :
            /\ inFlight' = [request |-> r, outcome |-> outcome, told |-> FALSE]
            /\ sentOn' = IF outcome = "pending" THEN [sentOn EXCEPT ![r] = connection.number]
                         ELSE sentOn
            /\ outcome = "pending" => connection.up
      BY <2>1 DEF Dispatch
    <2>4. queue' = Tail(q) /\ connection.up
      BY <1>2, <2>1 DEF Dispatch, Lined
    <2>5. inFlight' \in InFlight /\ inFlight' # Idle
      BY <2>2, <2>3 DEF InFlight, Idle
    <2>6. /\ sentOn' \in [Asked -> 0..MaxConnections]
          /\ outcome = "pending" => sentOn'[r] = connection.number
      BY <2>2, <2>3 DEF ConnectionTyped
    <2>7. OutTyped'
      BY <2>2, <2>4, <2>5, <2>6 DEF OutTyped, ConnectionTyped
    <2>8. \A x \in Asked : outbound'[x] = "pending" <=> x \in ToSet(Tail(q)) \cup {r}
      BY <1>2, <2>2 DEF Lined, Idle
    <2>9. /\ inFlight'.request = r /\ inFlight'.outcome = outcome /\ ~inFlight'.told
          /\ connection'.up
      BY <2>3, <2>4
    <2>10. Lined(queue, inFlight, outbound)'
      BY <2>2, <2>4, <2>6, <2>8, <2>9 DEF Lined
    <2> QED BY <2>5, <2>7, <2>10 DEF OutInv
  <1> QED BY <1>1, <1>2

\* request() of what has not been asked before.
LEMMA AskKeeps ==
    ASSUME OutInv, NEW r \in Asked, outbound[r] = "none", UNCHANGED connection, Ask(r)
    PROVE  /\ OutInv'
           /\ \A x \in Asked : x # r => outbound'[x] = outbound[x]
  <1> USE DEF OutInv, OutTyped
  <1>1. r \notin ToSet(queue) /\ (inFlight # Idle => inFlight.request # r)
    BY DEF Lined, InFlight
  <1>2. CASE connection.up
    <2>1. /\ outbound' = [outbound EXCEPT ![r] = "pending"]
          /\ ProcessQueue(Append(queue, r), inFlight)
      BY <1>2 DEF Ask
    <2>2. CASE inFlight # Idle
      <3>1. /\ Append(queue, r) \in Seq(Asked) /\ IsInjective(Append(queue, r))
            /\ ToSet(Append(queue, r)) = ToSet(queue) \cup {r}
        BY <1>1, Appended DEF Lined
      <3>2. inFlight.request \in Asked /\ inFlight.request # r
        BY <1>1, <2>2 DEF InFlight
      <3>3. Lined(Append(queue, r), inFlight, outbound')
        BY <1>2, <2>1, <2>2, <3>1, <3>2 DEF Lined, Promises
      <3> QED BY <2>1, <3>1, <3>3, ProcessQueueKeeps DEF Promises
    <2>3. CASE inFlight = Idle
      <3>1. queue = <<>> /\ ToSet(queue) = {}
        BY <2>3, EmptyQueue
      <3>2. /\ Append(queue, r) \in Seq(Asked) /\ IsInjective(Append(queue, r))
            /\ ToSet(Append(queue, r)) = ToSet(queue) \cup {r}
        BY <1>1, Appended DEF Lined
      <3>3. Lined(Append(queue, r), inFlight, outbound')
        BY <1>2, <2>1, <2>3, <3>1, <3>2 DEF Lined, Idle, Promises
      <3> QED BY <2>1, <3>2, <3>3, ProcessQueueKeeps DEF Promises
    <2> QED BY <2>1, <2>2, <2>3
  <1>3. CASE ~connection.up
    <2>1. outbound' = [outbound EXCEPT ![r] = "failed"] /\ UNCHANGED <<queue, inFlight, sentOn>>
      BY <1>3 DEF Ask
    <2>2. Lined(queue, inFlight, outbound)'
      BY <1>1, <2>1 DEF Lined, InFlight
    <2> QED BY <2>1, <2>2 DEF ConnectionTyped, Promises
  <1> QED BY <1>2, <1>3

\* The microtasks of the request in flight.
LEMMA SettleKeeps == ASSUME OutInv, SettleInFlight PROVE OutInv'
  <1> USE DEF OutInv, OutTyped, SettleInFlight
  <1>0. inFlight \in InFlight
    BY DEF Idle
  <1>1. inFlight' \in InFlight /\ inFlight' # Idle
    BY <1>0 DEF InFlight, Idle
  <1>2. /\ inFlight'.request = inFlight.request /\ inFlight'.told
        /\ inFlight'.outcome = inFlight.outcome /\ inFlight.outcome \in {"answered", "failed"}
        /\ inFlight.request \in Asked
    BY <1>0 DEF InFlight
  <1>3. outbound' = [outbound EXCEPT ![inFlight.request] = inFlight.outcome]
    OBVIOUS
  <1>4. Lined(queue, inFlight, outbound)'
    BY <1>1, <1>2, <1>3 DEF Lined, InFlight, Idle
  <1> QED BY <1>1, <1>2, <1>4 DEF ConnectionTyped, Promises

LEMMA FreeKeeps == ASSUME OutInv, FreeInFlight PROVE OutInv'
  <1> USE DEF OutInv, OutTyped, FreeInFlight
  <1>1. Lined(queue, Idle, outbound')
    BY DEF Lined, Idle, InFlight
  <1> QED BY <1>1, ProcessQueueKeeps

\* A reply, a FormationViolation or a timeout.
LEMMA EndsKeeps ==
    ASSUME OutInv, NEW outcome \in ReplyOutcomes \cup {"failed"}, RequestEnds(outcome)
    PROVE  OutInv'
  <1> USE DEF OutInv, OutTyped, RequestEnds
  <1>1. outcome \in {"answered", "failed"}
    BY DEF ReplyOutcomes, ReplyOutcome
  <1>2. inFlight \in InFlight /\ ~inFlight.told
    BY DEF InFlight, Idle
  <1>3. /\ inFlight' \in InFlight /\ inFlight' # Idle
        /\ inFlight'.request = inFlight.request /\ ~inFlight'.told
        /\ inFlight'.outcome # "pending"
    BY <1>1, <1>2 DEF InFlight, Idle
  <1>4. Lined(queue, inFlight, outbound)'
    BY <1>2, <1>3 DEF Lined, Idle
  <1> QED BY <1>3, <1>4 DEF ConnectionTyped

LEMMA ConnectedKeeps == ASSUME MInv, MessagingAssumption, Connected PROVE OutInv' /\ InInv'
  <1> USE DEF Connected, outboundVars, inboundVars
  <1>1. connection' \in [up : BOOLEAN, number : 0..MaxConnections] /\ connection'.up
        /\ connection'.number = connection.number + 1 /\ connection'.number # 0
    BY DEF MInv, InInv, InTyped, ConnectionTyped, MessagingAssumption
  <1>2. OutInv'
    BY <1>1 DEF MInv, OutInv, OutTyped, ConnectionTyped, Lined
  <1>3. InInv'
    BY <1>1 DEF MInv, InInv, InTyped, ConnectionTyped, OpenHere, Unanswered, Numbered,
       AnsweredOnceWhereItCame
  <1> QED BY <1>2, <1>3

\* What the end of a connection does to the requests.
LEMMA RejectKeeps ==
    ASSUME OutInv, Disconnected
    PROVE  /\ OutInv'
           /\ \A r \in Asked : outbound[r] = "none" => outbound'[r] = "none"
  <1> USE DEF OutInv, OutTyped, Disconnected, RejectOutbound
  <1>1. connection' \in [up : BOOLEAN, number : 0..MaxConnections]
    BY DEF ConnectionTyped
  <1>2. /\ inFlight' \in InFlight \cup {Idle} /\ inFlight'.outcome # "pending"
        /\ inFlight'.request = inFlight.request /\ inFlight'.told = inFlight.told
        /\ inFlight' # Idle => inFlight # Idle
    <2>1. CASE inFlight.outcome = "pending"
      <3>1. inFlight \in InFlight
        BY <2>1 DEF Idle
      <3>2. inFlight' = [inFlight EXCEPT !.outcome = "failed"]
        BY <2>1
      <3>3. inFlight # Idle
        BY <2>1 DEF Idle
      <3>4. /\ inFlight' \in InFlight /\ inFlight'.outcome = "failed"
            /\ inFlight'.request = inFlight.request /\ inFlight'.told = inFlight.told
        BY <2>1, <3>1, <3>2 DEF InFlight
      <3> QED BY <3>3, <3>4
    <2>2. CASE inFlight.outcome # "pending"
      BY <2>2
    <2> QED BY <2>1, <2>2
  <1>3. outbound' \in [Asked -> Promises]
    BY DEF Promises
  <1>4. Lined(queue, inFlight, outbound)'
    <2>1. \A r \in Asked : outbound'[r] = "pending" <=> inFlight.request = r /\ ~inFlight.told
      BY DEF Lined, InFlight, Idle
    <2>2. inFlight # Idle /\ inFlight.told => outbound'[inFlight.request] \in {"answered", "failed"}
      BY DEF Lined, InFlight
    <2> QED BY <1>2, <2>1, <2>2, EmptyQueue DEF Lined
  <1>5. \A r \in Asked : outbound[r] = "none" => outbound'[r] = "none"
    BY DEF Lined
  <1> QED BY <1>1, <1>2, <1>3, <1>4, <1>5, EmptyQueue DEF ConnectionTyped

-----------------------------------------------------------------------------
(* Inbound steps. *)

\* A CALLERROR that is sent is one reply; that for a failed validation is none.
LEMMA RefusalsAreReplies ==
    ASSUME NEW c, NEW details, NEW as
    PROVE  Refusal(c, details, as) \subseteq {Reply(c, as)}
  BY DEF Refusal

LEMMA ViolationsAreNotSent ==
    ASSUME NEW c, NEW verdict, NEW as
    PROVE  Refusal(c, ErrorDetails(verdict), as) = {}
  <1>1. ~IsPlainObject(ErrorDetails(verdict))
    BY DEF IsPlainObject, ErrorDetails, Array, Instance, PlainObject, Cycle, Value
  <1>2. EncodeProtocolFrame(CallError(ErrorDetails(verdict))) = {}
    BY <1>1 DEF EncodeProtocolFrame, CallError, AssertError
  <1>3. Encode(CallError(ErrorDetails(verdict))) = {}
    BY <1>2 DEF Encode
  <1> QED BY <1>3 DEF Refusal

\* A call c gets the context next, and with sent at most one reply, if it had
\* none and could still be answered here.
LEMMA AnswerKeeps ==
    ASSUME InInv, UNCHANGED connection, NEW c \in Calls, NEW next \in Contexts,
           NEW as \in {"accepted", "refused", "timeout", "violation"},
           NEW sent \in SUBSET {Reply(c, as)}, NEW run \in SUBSET {c},
           inbound' = [inbound EXCEPT ![c] = next],
           replies' = replies \cup sent, started' = started \cup run,
           next.state \in {"settled", "invalid", "refused"},
           sent # {} => /\ connection.up /\ next.on = connection.number
                        /\ inbound[c].state \in {"none", "open"},
           inbound[c].state = "none" \/ next.on = inbound[c].on,
           run # {} => sent # {} /\ as = "accepted"
    PROVE  InInv'
  <1> USE DEF InInv, InTyped
  <1>1. /\ inbound' \in [Calls -> Contexts] /\ inbound'[c] = next
        /\ \A x \in Calls : x # c => inbound'[x] = inbound[x]
    OBVIOUS
  <1>0. /\ Reply(c, as).call = c /\ Reply(c, as).on = connection.number
        /\ Reply(c, as).as = as
    BY DEF Reply
  <1>2. sent # {} => sent = {Reply(c, as)} /\ Reply(c, as) \in AllReplies
    <2> SUFFICES ASSUME sent # {} PROVE Reply(c, as) \in AllReplies
      OBVIOUS
    <2>1. connection.number \in 1..MaxConnections
      BY DEF Numbered, ConnectionTyped
    <2> QED BY <2>1 DEF Reply, AllReplies
  <1>3. InTyped'
    BY <1>1, <1>2 DEF ConnectionTyped
  <1>4. OpenHere' /\ Numbered'
    BY <1>1 DEF OpenHere, Numbered
  <1>5. \A a \in replies' : a \in replies \/ (a = Reply(c, as) /\ sent # {})
    BY <1>2
  <1>6. Unanswered'
    <2> SUFFICES ASSUME NEW d \in Calls, inbound'[d].state \in {"none", "open"}, NEW a \in replies'
                 PROVE a.call # d
      BY DEF Unanswered
    <2>1. CASE a \in replies
      BY <1>1, <2>1 DEF Unanswered
    <2>2. CASE a = Reply(c, as) /\ sent # {}
      BY <1>0, <1>1, <2>2
    <2> QED BY <1>5, <2>1, <2>2
  <1>7. AnsweredOnceWhereItCame'
    <2>1. \A a \in replies : a.call \in Calls /\ (sent # {} => a.call # c)
      BY DEF Unanswered, AllReplies
    <2>2. \A a, b \in replies' : a.call = b.call => a = b
      <3> SUFFICES ASSUME NEW a \in replies', NEW b \in replies', a.call = b.call PROVE a = b
        OBVIOUS
      <3>1. CASE a \in replies /\ b \in replies
        BY <3>1 DEF AnsweredOnceWhereItCame
      <3>2. CASE a \notin replies
        <4>1. a = Reply(c, as) /\ sent # {}
          BY <1>5, <3>2
        <4> QED BY <1>0, <1>5, <2>1, <4>1
      <3>3. CASE b \notin replies
        <4>1. b = Reply(c, as) /\ sent # {}
          BY <1>5, <3>3
        <4> QED BY <1>0, <1>5, <2>1, <4>1
      <3> QED BY <3>1, <3>2, <3>3
    <2>3. \A a \in replies' : a.on = inbound'[a.call].on
      <3> SUFFICES ASSUME NEW a \in replies' PROVE a.on = inbound'[a.call].on
        OBVIOUS
      <3>1. CASE a \in replies
        <4>1. a.on = inbound[a.call].on
          BY <3>1 DEF AnsweredOnceWhereItCame
        <4>2. a.call = c => inbound[c].state # "none"
          BY <3>1 DEF Unanswered
        <4> QED BY <1>1, <2>1, <3>1, <4>1, <4>2
      <3>2. CASE a \notin replies
        BY ZenonT(60), <1>0, <1>1, <1>5, <3>2
      <3> QED BY <3>1, <3>2
    <2>4. \A x \in started' : \E a \in replies' : a.call = x /\ a.as = "accepted"
      <3> SUFFICES ASSUME NEW x \in started'
                   PROVE  \E a \in replies' : a.call = x /\ a.as = "accepted"
        OBVIOUS
      <3>1. CASE x \in started
        BY <3>1 DEF AnsweredOnceWhereItCame
      <3>2. CASE x \notin started
        BY <1>0, <1>2, <3>2
      <3> QED BY <3>1, <3>2
    <2> QED BY <2>2, <2>3, <2>4 DEF AnsweredOnceWhereItCame
  <1> QED BY <1>3, <1>4, <1>6, <1>7

\* A context of c that respond() may be called with.
Answerable(c, context) ==
    /\ context \in Contexts
    /\ context.state # "none"
    /\ context.state = "open" => /\ connection.up /\ context.on = connection.number
                                /\ inbound[c].state \in {"none", "open"}
    /\ inbound[c].state = "none" \/ context.on = inbound[c].on

LEMMA RespondKeeps ==
    ASSUME InInv, UNCHANGED connection, NEW c \in Calls, NEW context, Answerable(c, context),
           NEW as \in {"accepted", "refused"}, Respond(c, context, as)
    PROVE  /\ InInv'
           /\ inbound'[c].state # "none"
           /\ \A x \in Calls : x # c => inbound'[x] = inbound[x]
  <1> DEFINE Next1(state) == [context EXCEPT !.state = state, !.handler = "done"]
             Run(sent) == IF as = "accepted" /\ sent # {} THEN {c} ELSE {}
  <1>1. PICK state \in {"settled", "invalid", "refused"},
             sent \in SUBSET {Reply(c, as)} :
          /\ inbound' = [inbound EXCEPT ![c] = Next1(state)]
          /\ replies' = replies \cup sent
          /\ started' = started \cup Run(sent)
          /\ sent # {} => context.state = "open"
    <2>1. CASE /\ CanClaim(context)
               /\ inbound' = [inbound EXCEPT ![c] = Next1("settled")]
               /\ replies' = replies \cup {Reply(c, as)}
               /\ started' = IF as = "accepted" /\ {Reply(c, as)} # {}
                             THEN started \cup {c} ELSE started
      BY <2>1 DEF CanClaim
    <2>2. CASE /\ CanClaim(context)
               /\ inbound' = [inbound EXCEPT ![c] = Next1("refused")]
               /\ \E verdict \in Failing :
                    LET sent == Refusal(c, ErrorDetails(verdict), "violation")
                    IN  /\ replies' = replies \cup sent
                        /\ started' = IF as = "accepted" /\ sent # {}
                                      THEN started \cup {c} ELSE started
      <3>1. replies' = replies \cup {} /\ started' = started \cup Run({})
        BY <2>2, ViolationsAreNotSent
      <3> QED BY <2>2, <3>1
    <2>3. CASE /\ inbound' = [inbound EXCEPT ![c] =
                       Next1(IF CanClaim(context) THEN "settled" ELSE context.state)]
               /\ UNCHANGED <<replies, started>>
      <3>1. replies' = replies \cup {} /\ started' = started \cup Run({})
        BY <2>3
      <3>2. (IF CanClaim(context) THEN "settled" ELSE context.state)
              \in {"settled", "invalid", "refused"}
        BY DEF Answerable, CanClaim, Contexts
      <3> QED BY <2>3, <3>1, <3>2
    <2> QED BY <2>1, <2>2, <2>3 DEF Respond
  <1>2. /\ Next1(state) \in Contexts /\ Next1(state).state = state
        /\ Next1(state).on = context.on
    BY DEF Answerable, Contexts
  <1>3. Run(sent) \in SUBSET {c} /\ (Run(sent) # {} => sent # {} /\ as = "accepted")
    OBVIOUS
  <1> HIDE DEF Next1, Run
  <1>4. InInv'
    BY <1>1, <1>2, <1>3, AnswerKeeps DEF Answerable
  <1> QED BY <1>1, <1>2, <1>4 DEF InInv, InTyped

\* The other ways in which a call ends.
LEMMA InvalidKeeps ==
    ASSUME InInv, NEW c \in Calls, ReceiveInvalid(c)
    PROVE  /\ InInv'
           /\ inbound'[c].state # "none"
           /\ \A x \in Calls : x # c => inbound'[x] = inbound[x]
  <1> DEFINE Next1(state) == [state |-> state, on |-> connection.number, handler |-> "done"]
  <1>1. PICK state \in {"settled", "refused"} : inbound' = [inbound EXCEPT ![c] = Next1(state)]
    BY DEF ReceiveInvalid
  <1>2. replies' = replies \cup {} /\ started' = started \cup {}
    BY ViolationsAreNotSent DEF ReceiveInvalid
  <1>3. Next1(state) \in Contexts /\ Next1(state).state = state
    BY DEF Contexts, InInv, InTyped, ConnectionTyped
  <1>4. inbound[c].state = "none" /\ UNCHANGED connection
    BY DEF ReceiveInvalid
  <1> HIDE DEF Next1
  <1>5. InInv'
    BY <1>1, <1>2, <1>3, <1>4, AnswerKeeps
  <1> QED BY <1>1, <1>3, <1>5 DEF InInv, InTyped

LEMMA TimeoutKeeps ==
    ASSUME InInv, NEW c \in Calls, CallTimesOut(c)
    PROVE  /\ InInv'
           /\ inbound'[c].state # "none"
           /\ \A x \in Calls : x # c => inbound'[x] = inbound[x]
  <1> DEFINE next == [inbound[c] EXCEPT !.state = "settled"]
  <1>1. inbound[c] \in Contexts /\ inbound[c].state = "open" /\ UNCHANGED connection
    BY DEF CallTimesOut, CanClaim, InInv, InTyped
  <1>2. next \in Contexts /\ next.state = "settled" /\ next.on = inbound[c].on
    BY <1>1 DEF Contexts
  <1>3. inbound' = [inbound EXCEPT ![c] = next] /\ started' = started \cup {}
    BY DEF CallTimesOut, InInv, InTyped
  <1>4. PICK sent \in SUBSET {Reply(c, "timeout")} : replies' = replies \cup sent
    <2>1. Refusal(c, NoDetails, "timeout") \in SUBSET {Reply(c, "timeout")}
      BY RefusalsAreReplies
    <2>2. replies' = replies \cup {} \/ replies' = replies \cup Refusal(c, NoDetails, "timeout")
      BY DEF CallTimesOut
    <2> QED BY <2>1, <2>2
  <1> HIDE DEF next
  <1>5. connection.up /\ next.on = connection.number
    BY <1>1, <1>2 DEF InInv, OpenHere
  <1>6. InInv'
    BY <1>1, <1>2, <1>3, <1>4, <1>5, AnswerKeeps
  <1> QED BY <1>2, <1>3, <1>6 DEF InInv, InTyped

\* The end of a connection leaves no call open.
LEMMA InvalidateKeeps ==
    ASSUME InInv, Disconnected
    PROVE  InInv' /\ \A c \in Calls : inbound'[c].state = "none" <=> inbound[c].state = "none"
  <1> USE DEF InInv, InTyped, Disconnected, InvalidateAll
  <1>1. connection' \in [up : BOOLEAN, number : 0..MaxConnections] /\ ~connection'.up
    BY DEF ConnectionTyped
  <1>2. \A c \in Calls : /\ inbound'[c] \in Contexts /\ inbound'[c].on = inbound[c].on
                         /\ inbound'[c].state # "open"
                         /\ inbound'[c].state = "none" <=> inbound[c].state = "none"
    <2> SUFFICES ASSUME NEW c \in Calls
                 PROVE  /\ inbound'[c] \in Contexts /\ inbound'[c].on = inbound[c].on
                        /\ inbound'[c].state # "open"
                        /\ inbound'[c].state = "none" <=> inbound[c].state = "none"
      OBVIOUS
    <2>1. inbound[c] \in Contexts
      OBVIOUS
    <2>2. CASE inbound[c].state = "open"
      <3>1. inbound'[c] = [inbound[c] EXCEPT !.state = "invalid"]
        BY <2>2
      <3> QED BY <2>1, <2>2, <3>1 DEF Contexts
    <2>3. CASE inbound[c].state # "open"
      BY <2>1, <2>3
    <2> QED BY <2>2, <2>3
  <1>3. InTyped'
    BY <1>1, <1>2 DEF ConnectionTyped
  <1>4. OpenHere' /\ Numbered' /\ Unanswered'
    BY <1>1, <1>2 DEF OpenHere, Numbered, Unanswered
  <1>5. \A a \in replies : a.call \in Calls
    BY DEF AllReplies
  <1>6. AnsweredOnceWhereItCame'
    BY <1>2, <1>5 DEF AnsweredOnceWhereItCame
  <1> QED BY <1>2, <1>3, <1>4, <1>6

-----------------------------------------------------------------------------
(* Both halves. *)

\* A call that arrives is answered at once or asks first.
LEMMA ReceiveKeeps ==
    ASSUME MInv, NEW c \in Calls, Receive(c) PROVE MInv'
  <1> DEFINE context == [state |-> "open", on |-> connection.number, handler |-> "asking"]
  <1>1. /\ connection.up /\ inbound[c].state = "none" /\ UNCHANGED connection
        /\ context \in Contexts
        /\ \/ /\ \E as \in {"accepted", "refused"} : Respond(c, context, as)
              /\ UNCHANGED outboundVars
           \/ /\ inbound' = [inbound EXCEPT ![c] = context]
              /\ Ask(c)
              /\ UNCHANGED <<replies, started>>
    BY DEF Receive, MInv, InInv, InTyped, ConnectionTyped, Contexts
  <1>2. /\ context.state = "open" /\ context.on = connection.number
        /\ c \in Asked /\ outbound[c] = "none"
    BY <1>1 DEF MInv, AskedOnce, Asked
  <1> HIDE DEF context
  <1>3. CASE UNCHANGED outboundVars /\ \E as \in {"accepted", "refused"} : Respond(c, context, as)
    <2>1. Answerable(c, context)
      BY <1>1, <1>2 DEF Answerable
    <2>2. /\ InInv' /\ inbound'[c].state # "none"
          /\ \A x \in Calls : x # c => inbound'[x] = inbound[x]
      BY <1>1, <1>3, <2>1, RespondKeeps DEF MInv
    <2>3. OutInv'
      BY <1>1, <1>3 DEF MInv, OutInv, OutTyped, Lined, ConnectionTyped, outboundVars
    <2>4. AskedOnce'
      BY <1>3, <2>2 DEF MInv, AskedOnce, outboundVars
    <2> QED BY <2>2, <2>3, <2>4 DEF MInv
  <1>4. CASE /\ inbound' = [inbound EXCEPT ![c] = context] /\ Ask(c)
             /\ UNCHANGED <<replies, started>>
    <2>1. OutInv' /\ \A x \in Asked : x # c => outbound'[x] = outbound[x]
      BY <1>1, <1>2, <1>4, AskKeeps DEF MInv
    <2>2. /\ inbound' \in [Calls -> Contexts] /\ inbound'[c] = context
          /\ \A x \in Calls : x # c => inbound'[x] = inbound[x]
      BY <1>1, <1>4 DEF MInv, InInv, InTyped
    <2>3. \A a \in replies : a.call \in Calls /\ a.call # c
      BY <1>1 DEF MInv, InInv, InTyped, Unanswered, AllReplies
    <2>4. InInv'
      BY <1>1, <1>2, <1>4, <2>2, <2>3 DEF MInv, InInv, InTyped, ConnectionTyped, OpenHere,
         Unanswered, Numbered, AnsweredOnceWhereItCame
    <2>5. AskedOnce'
      BY <1>2, <2>1, <2>2 DEF MInv, AskedOnce, Asked
    <2> QED BY <2>1, <2>4, <2>5 DEF MInv
  <1> QED BY <1>1, <1>3, <1>4

\* The promises of requests are not those of calls that have not come.
LEMMA StepsKeep == ASSUME MInv, MessagingAssumption, [Next]_messagingVars PROVE MInv'
  <1> USE DEF MInv, inboundVars, outboundVars
  <1>s. ASSUME UNCHANGED <<connection, inboundVars>> PROVE InInv'
    BY <1>s DEF InInv, InTyped, ConnectionTyped, OpenHere, Unanswered, Numbered,
       AnsweredOnceWhereItCame
  <1>o. ASSUME UNCHANGED <<connection, outboundVars>> PROVE OutInv'
    BY <1>o DEF OutInv, OutTyped, ConnectionTyped, Lined
  <1>a. ASSUME UNCHANGED inbound, \A x \in Calls : outbound[x] = "none" => outbound'[x] = "none"
        PROVE  AskedOnce'
    BY <1>a DEF AskedOnce
  <1>b. ASSUME UNCHANGED outbound,
               \A x \in Calls : inbound'[x].state = "none" => inbound[x].state = "none"
        PROVE  AskedOnce'
    BY <1>b DEF AskedOnce
  <1>1. ASSUME NEW r \in Requests, Request(r) PROVE MInv'
    <2>1. r \in Asked /\ outbound[r] = "none" /\ UNCHANGED connection /\ Ask(r)
      BY <1>1 DEF Request, Asked
    <2>2. OutInv' /\ \A x \in Asked : x # r => outbound'[x] = outbound[x]
      BY <2>1, AskKeeps
    <2>3. \A x \in Calls : outbound'[x] = outbound[x]
      BY <2>2 DEF Asked, MessagingAssumption
    <2> QED BY <1>1, <1>s, <1>a, <2>2, <2>3 DEF Request
  <1>2. CASE SettleInFlight
    <2>1. inFlight \in InFlight
      BY <1>2 DEF SettleInFlight, OutInv, OutTyped, Idle
    <2>2. \A x \in Calls : outbound[x] = "none" => outbound'[x] = "none"
      BY <1>2, <2>1 DEF SettleInFlight, OutInv, OutTyped, Lined, Asked
    <2> QED BY <1>2, <1>s, <1>a, <2>2, SettleKeeps DEF SettleInFlight
  <1>3. CASE FreeInFlight
    BY <1>3, <1>s, <1>b, FreeKeeps DEF FreeInFlight
  <1>4. ASSUME NEW c \in Calls, Receive(c) PROVE MInv'
    BY <1>4, ReceiveKeeps
  <1>5. ASSUME NEW c \in Calls, ReceiveInvalid(c) PROVE MInv'
    BY <1>5, <1>o, <1>b, InvalidKeeps DEF ReceiveInvalid
  <1>6. ASSUME NEW c \in Calls, Resume(c) PROVE MInv'
    <2>1. inbound[c].state # "none"
      BY <1>6 DEF Resume, Resumable, AskedOnce
    <2>2. Answerable(c, inbound[c])
      BY <2>1 DEF Answerable, InInv, InTyped, OpenHere
    <2>3. UNCHANGED connection /\ \E as \in {"accepted", "refused"} : Respond(c, inbound[c], as)
      BY <1>6 DEF Resume
    <2>4. /\ InInv' /\ inbound'[c].state # "none"
          /\ \A x \in Calls : x # c => inbound'[x] = inbound[x]
      BY <2>2, <2>3, RespondKeeps
    <2> QED BY <1>6, <1>o, <1>b, <2>4 DEF Resume
  <1>7. ASSUME NEW c \in Calls, CallTimesOut(c) PROVE MInv'
    BY <1>7, <1>o, <1>b, TimeoutKeeps DEF CallTimesOut
  <1>8. ASSUME NEW outcome \in ReplyOutcomes \cup {"failed"}, RequestEnds(outcome) PROVE MInv'
    BY <1>8, <1>s, <1>b, EndsKeeps DEF RequestEnds
  <1>9. CASE Connected
    BY <1>9, <1>b, ConnectedKeeps DEF Connected
  <1>10. CASE Disconnected
    <2>1. \A x \in Calls : outbound[x] = "none" => outbound'[x] = "none"
      BY <1>10, RejectKeeps DEF Asked
    <2> QED BY <1>10, <2>1, RejectKeeps, InvalidateKeeps DEF AskedOnce
  <1>11. CASE UNCHANGED messagingVars
    BY <1>11, <1>o, <1>s, <1>b DEF messagingVars
  <1> QED BY <1>1, <1>2, <1>3, <1>4, <1>5, <1>6, <1>7, <1>8, <1>9, <1>10, <1>11 DEF Next

LEMMA Initially == ASSUME Init, MessagingAssumption PROVE MInv
  <1> USE DEF Init
  <1>1. OutInv
    BY EmptyQueue, MessagingAssumption
       DEF OutInv, OutTyped, ConnectionTyped, Lined, Idle, Promises
  <1>2. InInv
    BY MessagingAssumption DEF InInv, InTyped, ConnectionTyped, Contexts, OpenHere, Unanswered,
       Numbered, AnsweredOnceWhereItCame
  <1>3. AskedOnce
    BY DEF AskedOnce, Asked
  <1> QED BY <1>1, <1>2, <1>3 DEF MInv

\* What the two halves promise is what the runs check.
LEMMA WhatItSays ==
    ASSUME MInv
    PROVE  /\ MessagingTypeOK /\ QueueMoves /\ NothingOutlivesItsConnection
           /\ AnsweredOnceWhereItCame
  <1>1. MessagingTypeOK
    BY DEF MInv, OutInv, OutTyped, InInv, InTyped, ConnectionTyped, Promises, Contexts,
       AllReplies, MessagingTypeOK
  <1>2. QueueMoves
    <2>1. inFlight.request \notin ToSet(queue)
      <3>1. CASE inFlight = Idle
        BY <3>1, EmptyQueue DEF MInv, OutInv
      <3> QED BY <3>1 DEF MInv, OutInv, Lined
    <2> QED BY <2>1 DEF MInv, OutInv, Lined, QueueMoves
  <1>3. NothingOutlivesItsConnection
    BY DEF MInv, OutInv, Lined, InInv, OpenHere, NothingOutlivesItsConnection
  <1> QED BY <1>1, <1>2, <1>3 DEF MInv, InInv

\* Requests and calls keep both halves of the invariant, however connections
\* come and go.
THEOREM MessagesSound == Spec => []MInv
  <1>1. Init => MInv
    BY Initially, MessagingAssumption
  <1>2. MInv /\ [Next]_messagingVars => MInv'
    BY StepsKeep, MessagingAssumption
  <1> QED BY <1>1, <1>2, PTL DEF Spec

\* Queue, promises, contexts and replies are of their types.
THEOREM MessagesTypeCorrect == Spec => []MessagingTypeOK
  <1>1. MInv => MessagingTypeOK
    BY WhatItSays
  <1> QED BY <1>1, MessagesSound, PTL

\* For any number of requests and handlers that ask: one waits exactly while it is
\* queued or in flight, and what is queued has one in flight before it, which
\* will let it go (processQueue of OutboundRequestCoordinator).
THEOREM QueueKeepsMoving == Spec => []QueueMoves
  <1>1. MInv => QueueMoves
    BY WhatItSays
  <1> QED BY <1>1, MessagesSound, PTL

\* Nothing that waits outlives its connection, over any number of connections
\* (handleDisconnected and invalidateAll of the coordinators).
THEOREM ConnectionsEndClean == Spec => []NothingOutlivesItsConnection
  <1>1. MInv => NothingOutlivesItsConnection
    BY WhatItSays
  <1> QED BY <1>1, MessagesSound, PTL

\* A call has one answer, where it came, and no command runs whose acceptance
\* was not sent (claim and respond of the inbound requests).  The last needs
\* ViolationsAreNotSent: a codec that took the issues of a refused reply would
\* let respond() return as if the acceptance had been sent.
THEOREM CallsAnsweredOnce == Spec => []AnsweredOnceWhereItCame
  <1>1. MInv => AnsweredOnceWhereItCame
    BY WhatItSays
  <1> QED BY <1>1, MessagesSound, PTL
=============================================================================
