---------------------------- MODULE ActorLifecycle ----------------------------
(***************************************************************************)
(* Ocpp16ChargingPointActor and Ocpp16StartupLifecycle over the session:   *)
(* start, stop and dispose, the boot and its retries, and what they do to  *)
(* the runtime.  Each call and each retry is a coroutine; between two of   *)
(* its awaits the others, the sockets and the timers take their steps.     *)
(*                                                                         *)
(* The runtime is its registration status and its heartbeat loop.  Its     *)
(* transactions are in TransactionDelivery.                                *)
(***************************************************************************)
EXTENDS SessionConnection

CONSTANTS
    Coroutines,     \* slots for the calls and retries under way
    Connectors      \* how many connectors the point has

ASSUME ActorAssumption == Connectors \in Nat

VARIABLES
    actor,          \* its status, whether it is disposed, and its startup
    flows,          \* slot -> the coroutine in it
    registration,   \* context.registrationStatus
    heartbeat       \* the heartbeat loop and its options

actorVars == <<actor, flows, registration, heartbeat>>
vars == <<connectionVars, actorVars>>

Statuses == {"stopped", "starting", "running"}

\* connect: awaits the session's connect promise; rejoin: its reconnect one;
\* boot, replay, report: await an answer of the CSMS; disconnect: awaits the
\* session's disconnect, refused when a retry was refused; finish: dispose
\* after its stop.
Places == {"free", "connect", "rejoin", "boot", "replay", "report", "disconnect", "refused",
           "finish"}

\* What a coroutine's await has brought, "none" while it waits.
Outcomes == {"none", "ok", "failed", "Accepted", "Pending", "Rejected"}

Flows == [of : {"start", "retry", "stop", "dispose"}, at : Places, got : Outcomes,
          left : 0..Connectors]

Free == [of |-> "stop", at |-> "free", got |-> "none", left |-> 0]

ActorTypeOK ==
    /\ actor \in [status : Statuses, disposed : BOOLEAN,
                  connecting : BOOLEAN, retryTimer : BOOLEAN]
    /\ flows \in [Coroutines -> Flows]
    /\ registration \in {"none", "Accepted", "Pending", "Rejected"}
    /\ heartbeat \in [loop : BOOLEAN, options : BOOLEAN]

ActorInit ==
    /\ actor = [status |-> "stopped", disposed |-> FALSE, connecting |-> FALSE, retryTimer |-> FALSE]
    /\ flows = [f \in Coroutines |-> Free]
    /\ registration = "none"
    /\ heartbeat = [loop |-> FALSE, options |-> FALSE]

Online == session.phase = "connected"

\* Nor is a microtask of the actor left.
AllQuiet == Quiet /\ \A f \in Coroutines : flows[f].got = "none"

-----------------------------------------------------------------------------
(* What a step of the session does to the actor. *)

Lost == session.phase = "connected" /\ session'.phase # "connected"
CameOnline == session.phase # "connected" /\ session'.phase = "connected"

\* The session emits "offline".
WentOffline ==
    /\ session.phase # "idle" /\ session'.phase = "idle"
    /\ session.phase = "connecting" => Reconnects

DisconnectFails ==
    \E w \in awaiting : w.live /\ w.flow = "disconnect" /\ w.outcome = "rejected"

\* The promise a coroutine awaits is settled by the step, or rejected with all
\* requests when the messaging state is reset.
Heard(flow) ==
    LET connected == IF session'.phase = "connected" THEN "ok" ELSE "failed"
    IN CASE flow.at = "connect" /\ session.connect /\ ~session'.connect ->
              [flow EXCEPT !.got = connected]
         [] flow.at = "rejoin" /\ session.reconnect /\ ~session'.reconnect ->
              [flow EXCEPT !.got = connected]
         [] flow.at \in {"disconnect", "refused"} /\ session.disconnect /\ ~session'.disconnect ->
              [flow EXCEPT !.got = IF DisconnectFails THEN "failed" ELSE "ok"]
         [] flow.at \in {"boot", "replay", "report"} /\ flow.got = "none" /\ Lost ->
              [flow EXCEPT !.got = "failed"]
         [] OTHER -> flow

AllHear == flows' = [f \in Coroutines |-> Heard(flows[f])]

\* One coroutine goes its own way.
Advance(f, flow) == flows' = [g \in Coroutines |-> IF g = f THEN flow ELSE Heard(flows[g])]

Done(f) == Advance(f, Free)

\* session.request() of a session that is not connected is rejected at once.
Asking(of, place, left) ==
    [of |-> of, at |-> place, got |-> IF session'.phase = "connected" THEN "none" ELSE "failed",
     left |-> left]

IsFree(f) == flows[f].at = "free"

\* retryBoot up to its await.
RetryBoot ==
    IF actor.status = "starting" /\ ~actor.disposed
    THEN \E f \in Coroutines : IsFree(f) /\ Advance(f, Asking("retry", "boot", 0))
    ELSE AllHear

\* Mutant: "online" does not boot a point that is starting.
SessionReaction_NoBoot ==
    /\ AllHear
    /\ UNCHANGED <<actor, registration, heartbeat>>

\* The listeners of the runtime, then handleOnline of the startup.
SessionReaction ==
    /\ IF CameOnline /\ ~actor.connecting THEN RetryBoot ELSE AllHear
    /\ heartbeat' =
         IF actor.disposed THEN heartbeat
         ELSE IF CameOnline
              THEN [heartbeat EXCEPT !.loop = @ \/ (heartbeat.options /\ registration = "Accepted")]
              ELSE [heartbeat EXCEPT !.loop = @ /\ ~WentOffline]
    /\ UNCHANGED <<actor, registration>>

SessionMoves ==
    /\ Microtask \/ (AllQuiet /\ Macrotask)
    /\ SessionReaction

-----------------------------------------------------------------------------
(* The ends of a coroutine's stretch. *)

\* Mutant: the loop is stopped, its options stay for the next "online".
RuntimeStopped_KeepsOptions == heartbeat' = [heartbeat EXCEPT !.loop = FALSE]

RuntimeStopped == heartbeat' = [loop |-> FALSE, options |-> FALSE]

\* Stops the runtime, and awaits the session's disconnect if it is connected;
\* otherwise the actor a is stopped at once and the coroutine is left at `done'.
StopThen(f, a, of, place, done) ==
    /\ RuntimeStopped
    /\ IF Online
       THEN /\ Disconnect
            /\ Advance(f, [of |-> of, at |-> place, got |-> "none", left |-> 0])
            /\ actor' = [a EXCEPT !.retryTimer = FALSE]
       ELSE /\ UNCHANGED connectionVars
            /\ Advance(f, done)
            /\ actor' = [a EXCEPT !.retryTimer = FALSE, !.status = "stopped"]

\* stopAfterFailure.
StopAfterFailure(f, a, place) == StopThen(f, a, flows[f].of, place, Free)

\* What start and retryBoot catch.  A start whose session reconnects is left to
\* the next "online"; a retry stops the actor whatever the session does.
Caught(f, a, h) ==
    IF flows[f].of = "start" /\ session.phase = "reconnecting"
    THEN /\ UNCHANGED connectionVars
         /\ Done(f)
         /\ actor' = [a EXCEPT !.status = "starting"]
         /\ heartbeat' = h
    ELSE StopAfterFailure(f, a, "disconnect")

\* completeAcceptedBoot up to its first await.  Starting the loop throws when
\* another boot has been refused meanwhile; a loop there is already stays, and
\* then it is the first report that throws.
CompleteAcceptedBoot(f) ==
    IF registration' = "Accepted"
    THEN /\ UNCHANGED <<connectionVars, actor>>
         /\ heartbeat' = [loop |-> TRUE, options |-> TRUE]
         /\ Advance(f, Asking(flows[f].of, "report", Connectors))
    ELSE Caught(f, actor, [heartbeat EXCEPT !.options = TRUE])

\* Mutant: a pending boot is not tried again.
BootReturns_NoRetry(f, status) ==
    IF flows[f].of = "retry" /\ (actor.status # "starting" \/ actor.disposed)
    THEN UNCHANGED <<connectionVars, actor, heartbeat>> /\ Done(f)
    ELSE CASE status = "Accepted" -> CompleteAcceptedBoot(f)
           [] status = "Pending"  -> UNCHANGED <<connectionVars, actor, heartbeat>> /\ Done(f)
           [] status = "Rejected" -> Caught(f, actor, heartbeat)

\* boot() returns this status to start or to retryBoot.
BootReturns(f, status) ==
    IF flows[f].of = "retry" /\ (actor.status # "starting" \/ actor.disposed)
    THEN UNCHANGED <<connectionVars, actor, heartbeat>> /\ Done(f)
    ELSE CASE status = "Accepted" -> CompleteAcceptedBoot(f)
           [] status = "Pending" ->
                /\ UNCHANGED <<connectionVars, heartbeat>>
                /\ Done(f)
                /\ actor' = [actor EXCEPT !.retryTimer = TRUE, !.status = "starting"]
           [] status = "Rejected" ->
                IF flows[f].of = "start" THEN Caught(f, actor, heartbeat)
                ELSE StopAfterFailure(f, actor, "refused")

-----------------------------------------------------------------------------
(* A coroutine goes on with what its await brought. *)

ConnectReturns(f) ==
    /\ flows[f].at \in {"connect", "rejoin"} /\ flows[f].got # "none"
    /\ LET connected == [actor EXCEPT !.connecting = FALSE]
       IN IF flows[f].got = "ok"
          THEN /\ UNCHANGED <<connectionVars, heartbeat>>
               /\ actor' = connected
               /\ Advance(f, Asking("start", "boot", 0))
          ELSE Caught(f, connected, heartbeat)
    /\ UNCHANGED registration

\* The runtime keeps the answer, whoever asked; an accepted boot first replays
\* the outbox when there is anything in it.
BootAnswered(f) ==
    /\ flows[f].at = "boot" /\ flows[f].got # "none"
    /\ IF flows[f].got = "failed"
       THEN Caught(f, actor, heartbeat) /\ UNCHANGED registration
       ELSE /\ registration' = flows[f].got
            /\ \/ BootReturns(f, flows[f].got)
               \/ /\ flows[f].got = "Accepted"
                  /\ UNCHANGED <<connectionVars, actor, heartbeat>>
                  /\ Advance(f, Asking(flows[f].of, "replay", 0))

ReplayReturns(f) ==
    /\ flows[f].at = "replay" /\ flows[f].got # "none"
    /\ UNCHANGED registration
    /\ IF flows[f].got = "ok" THEN BootReturns(f, "Accepted") ELSE Caught(f, actor, heartbeat)

\* reportStartupStatuses: the result of a report does not matter.  After the
\* last one the actor is running.
ReportReturns(f) ==
    /\ flows[f].at = "report" /\ flows[f].got # "none"
    /\ UNCHANGED registration
    /\ IF flows[f].left = 0
       THEN /\ UNCHANGED <<connectionVars, heartbeat>>
            /\ Done(f)
            /\ actor' = [actor EXCEPT !.status = "running"]
       ELSE IF registration = "Accepted"
            THEN /\ UNCHANGED <<connectionVars, actor, heartbeat>>
                 /\ Advance(f, Asking(flows[f].of, "report", flows[f].left - 1))
            ELSE Caught(f, actor, heartbeat)

Finishing == [of |-> "dispose", at |-> "finish", got |-> "ok", left |-> 0]

\* When the session cannot be disconnected start and stop throw; dispose goes
\* on; a refused retry is caught and stops the actor.
DisconnectReturns(f) ==
    /\ flows[f].at \in {"disconnect", "refused"} /\ flows[f].got # "none"
    /\ UNCHANGED registration
    /\ IF flows[f].got = "failed" /\ flows[f].at = "refused"
       THEN StopAfterFailure(f, actor, "disconnect")
       ELSE /\ UNCHANGED <<connectionVars, heartbeat>>
            /\ Advance(f, IF flows[f].of = "dispose" THEN Finishing ELSE Free)
            /\ actor' = [actor EXCEPT !.status = IF flows[f].got = "ok" THEN "stopped" ELSE @]

DisposeFinishes(f) ==
    /\ flows[f].at = "finish"
    /\ UNCHANGED <<connectionVars, registration>>
    /\ RuntimeStopped
    /\ Done(f)
    /\ actor' = [actor EXCEPT !.disposed = TRUE]

Resume(f) ==
    \/ ConnectReturns(f) \/ BootAnswered(f) \/ ReplayReturns(f)
    \/ ReportReturns(f) \/ DisconnectReturns(f) \/ DisposeFinishes(f)

-----------------------------------------------------------------------------
(* The server's calls. *)

\* start(): session.connect() makes a promise or returns one there is.
Start(f) ==
    /\ AllQuiet /\ IsFree(f)
    /\ actor.status = "stopped" /\ ~actor.disposed
    /\ actor' = [actor EXCEPT !.status = "starting", !.connecting = TRUE]
    /\ IF session.phase = "idle" THEN StartInitialConnect ELSE UNCHANGED connectionVars
    /\ Advance(f, [of |-> "start", left |-> 0,
                   at |-> IF session.phase = "reconnecting" THEN "rejoin" ELSE "connect",
                   got |-> CASE session.phase = "connected"     -> "ok"
                             [] session.phase = "disconnecting" -> "failed"
                             [] OTHER                           -> "none"])
    /\ UNCHANGED <<registration, heartbeat>>

Stop(f) ==
    /\ AllQuiet /\ IsFree(f)
    /\ actor.status # "stopped"
    /\ StopThen(f, actor, "stop", "disconnect", Free)
    /\ UNCHANGED registration

Dispose(f) ==
    /\ AllQuiet /\ IsFree(f)
    /\ ~actor.disposed
    /\ IF actor.status = "stopped"
       THEN UNCHANGED <<connectionVars, actor, heartbeat>> /\ Advance(f, Finishing)
       ELSE StopThen(f, actor, "dispose", "disconnect", Finishing)
    /\ UNCHANGED registration

-----------------------------------------------------------------------------
(* The CSMS and the timers. *)

Answers(place) ==
    IF place = "boot" THEN {"Accepted", "Pending", "Rejected", "failed"} ELSE {"ok", "failed"}

\* The CSMS answers a request, with a CALLERROR for instance, or it times out.
Answer(f) ==
    /\ AllQuiet /\ Online
    /\ flows[f].at \in {"boot", "replay", "report"}
    /\ \E answer \in Answers(flows[f].at) : flows' = [flows EXCEPT ![f].got = answer]
    /\ UNCHANGED <<connectionVars, actor, registration, heartbeat>>

\* The answer to a boot that the CSMS asked for by TriggerMessage.
TriggeredBootAnswered ==
    /\ AllQuiet /\ Online /\ ~actor.disposed
    /\ registration' \in {"Accepted", "Pending", "Rejected"}
    /\ UNCHANGED <<connectionVars, actor, flows, heartbeat>>

BootRetryTimer ==
    /\ AllQuiet
    /\ actor.retryTimer
    /\ actor' = [actor EXCEPT !.retryTimer = FALSE]
    /\ UNCHANGED <<connectionVars, registration, heartbeat>>
    /\ RetryBoot

\* Heartbeats have failed up to the threshold: the loop ends, and the actor is
\* told, which only reports it.
HeartbeatLoopStops ==
    /\ AllQuiet
    /\ heartbeat.loop
    /\ heartbeat' = [heartbeat EXCEPT !.loop = FALSE]
    /\ UNCHANGED <<connectionVars, actor, flows, registration>>

ActorInitial == Init /\ ActorInit

ActorNext ==
    \/ SessionMoves
    \/ \E f \in Coroutines : Resume(f) \/ Start(f) \/ Stop(f) \/ Dispose(f) \/ Answer(f)
    \/ TriggeredBootAnswered \/ BootRetryTimer \/ HeartbeatLoopStops

ActorSpec == ActorInitial /\ [][ActorNext]_vars

Accepting(f) == Answer(f) /\ flows'[f].got \in {"Accepted", "ok"}

\* The session's fairness, that coroutines and timers run, and a CSMS that
\* accepts boots and answers often enough while it can be reached.
ActorFairness ==
    /\ WF_vars(Microtask /\ SessionReaction)
    /\ WF_vars(AllQuiet /\ ReconnectAttempt /\ SessionReaction)
    /\ WF_vars(AllQuiet /\ TransportTurn(ConnectTimesOut) /\ SessionReaction)
    /\ WF_vars(AllQuiet /\ transport.state = "disconnecting"
                 /\ TransportTurn(HandleClose) /\ SessionReaction)
    /\ SF_vars(AllQuiet /\ ReconnectAttempt /\ transport'.state = "connecting" /\ SessionReaction)
    /\ SF_vars(AllQuiet /\ TransportTurn(HandleOpen) /\ SessionReaction)
    /\ SF_vars(BootRetryTimer)
    /\ \A f \in Coroutines : WF_vars(Resume(f)) /\ SF_vars(Accepting(f))

ActorLiveSpec == ActorSpec /\ ActorFairness

-----------------------------------------------------------------------------

AtWork == \E f \in Coroutines : ~IsFree(f)

ActorTypeCorrect == TypeOK /\ ActorTypeOK

\* An actor that is starting gets on: a coroutine is at work, or the retry
\* timer runs, or the session reconnects and its "online" will boot the point.
\* No combination of failed connects, pending boots, lost connections and
\* stops leaves it "starting" with nothing to come.
StartingIsServed ==
    actor.status = "starting" /\ ~actor.disposed =>
        AtWork \/ actor.retryTimer \/ session.phase = "reconnecting"

\* Once no coroutine is at work a stopped actor is silent: its heartbeat loop
\* has ended and will not come back with the connection, and no boot is to be
\* retried.  Startups that go on after a stop, and the listener of "online",
\* do not undo what stopRuntime did.
StoppedIsSilent ==
    actor.status = "stopped" /\ ~AtWork =>
        ~actor.retryTimer /\ ~heartbeat.loop /\ ~heartbeat.options

\* A start comes to its end, running or stopped, as long as the CSMS does not
\* answer "Pending" for ever: connections that fail and are lost, retries and
\* failed reports only delay it.
StartingEnds ==
    actor.status = "starting" /\ ~actor.disposed ~> actor.status # "starting" \/ actor.disposed

=============================================================================
