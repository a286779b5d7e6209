--------------------------- MODULE HeartbeatLoop ---------------------------
(***************************************************************************)
(* The heartbeats of one charging point: the interval that BootNotification*)
(* answers and ChangeConfiguration set, the loop that beats at it, the     *)
(* failures each loop counts in a closure of its own, and the session and  *)
(* the start-up of the actor that start and stop the loop.                 *)
(*                                                                         *)
(* A loop is named by a member of Loops, reused once nothing refers to it; *)
(* `closures` holds what its closure holds.  Requests under way are in     *)
(* `queue`, in the order they are answered; those that were accepted and   *)
(* now await the replay of offline transactions are in `replaying`: the    *)
(* first one replays, another finds a replay in progress and returns.      *)
(***************************************************************************)
EXTENDS Configuration

CONSTANTS
    Loops,              \* names of heartbeat loops, MaxUnderWay + 1 of them
    None,               \* no loop
    Intervals,          \* heartbeat intervals, 0 for one no loop can use
    ReconnectThreshold, \* heartbeatReconnectThreshold
    MaxUnderWay         \* bound: requests under way

ASSUME LoopsSuffice ==
    /\ IsFiniteSet(Loops) /\ None \notin Loops /\ Cardinality(Loops) > MaxUnderWay
    /\ MaxUnderWay \in Nat /\ MaxUnderWay >= 2
ASSUME Thresholds == Intervals \subseteq Nat /\ ReconnectThreshold \in Nat \ {0}

VARIABLES
    registration,   \* context.registrationStatus
    interval,       \* HeartbeatInterval in the configuration store
    options,        \* heartbeatLoopOptions # null
    loop,           \* heartbeatTimerId
    closures,       \* the closures of the loops that beat or are answered
    session,        \* phase of the session
    status,         \* status of the actor
    waiting,        \* start() awaits session.connect()
    retry,          \* the boot retry timer is set
    queue,          \* requests that are not answered
    replaying,      \* answered ones that await the replay
    resynced,       \* history: a boot changed the interval under the loop
    silenced        \* history: why the actor has no loop

point == <<registration, interval, options, loop, closures, resynced, silenced>>
vars == <<point, session, status, waiting, retry, queue, replaying>>

Registrations == {"Unregistered", "Accepted", "Pending", "Rejected"}
Boots == {"start", "retry", "trigger"}
Beat(l) == [kind |-> "beat", of |-> l]
Boot(by) == [kind |-> "boot", of |-> by]
Reports(by) == [kind |-> "reports", of |-> by]
Requests == [kind : {"beat"}, of : Loops \cup {None}]
              \cup [kind : {"boot", "reports"}, of : Boots]

Init ==
    /\ registration = "Unregistered"
    /\ interval \in Intervals
    /\ options = FALSE
    /\ loop = None
    /\ closures = <<>>
    /\ session = "idle"
    /\ status = "stopped"
    /\ waiting = FALSE
    /\ retry = FALSE
    /\ queue = <<>>
    /\ replaying = <<>>
    /\ resynced = FALSE
    /\ silenced = "no"

----------------------------------------------------------------------------
Under(q) == {q[i] : i \in 1..Len(q)}
UnderWay == Len(queue) + Len(replaying)
NamedBy(R) == {r.of : r \in {r \in R : r.kind = "beat"}} \ {None}
Named == NamedBy(Under(queue) \cup Under(replaying))

\* The configuration store, of which the loop reads one key.
Store == [DefaultCatalog EXCEPT !["HeartbeatInterval"].value = IntValue(interval)]
Usable == registration = "Accepted" /\ HeartbeatIntervalSec(Store) # {}

\* Closures that a loop or a heartbeat under way still refers to.
Alive(cs, l) == [c \in DOMAIN cs \cap (Named' \cup {l}) |-> cs[c]]

\* clearInterval and heartbeatTimerId = null.
StopLoop(why) ==
    /\ loop' = None
    /\ closures' = Alive(closures, None)
    /\ resynced' = FALSE
    /\ silenced' = IF loop # None THEN why ELSE silenced

\* A new interval timer whose closure counts from zero.
NewLoop ==
    LET old == Alive(closures, None)
        l == CHOOSE l \in Loops : l \notin DOMAIN old
    IN  /\ loop' = l
        /\ closures' = [c \in DOMAIN old \cup {l} |->
                          IF c = l THEN [every |-> interval', failures |-> 0]
                                   ELSE old[c]]
        /\ resynced' = FALSE
        /\ silenced' = "no"

\* startHeartbeatLoop: nothing when a loop exists; otherwise it throws,
\* without a loop, unless the point is registered and the interval usable.
LoopStarts == loop # None \/ Usable'
StartLoop ==
    /\ options' = TRUE
    /\ IF loop = None /\ Usable'
         THEN NewLoop
         ELSE /\ UNCHANGED <<loop, resynced>>
              /\ closures' = Alive(closures, loop)
              /\ silenced' = IF loop = None THEN "unusable" ELSE silenced

\* The options stay when the session goes offline.
MarkPlatformOffline == StopLoop(silenced) /\ UNCHANGED options

\* stopRuntime, also under another start-up that is at its reports.
StopRuntime ==
    /\ loop' = None
    /\ closures' = Alive(closures, None)
    /\ resynced' = FALSE
    /\ silenced' = IF \E r \in Under(queue') : r.kind = "reports"
                     THEN "overtaken" ELSE "stopped"
    /\ options' = FALSE

\* Promises settle before any timer, command, answer or change of the
\* session: a replay that finds another in progress returns, and a lost
\* connection rejects every request, those of a replay too.
Settling ==
    \/ Len(replaying) > 1
    \/ session # "online" /\ UnderWay > 0

----------------------------------------------------------------------------
(* Start-up of the actor *)

\* stopAfterFailure: the runtime stops, a connected session disconnects and
\* the actor is stopped once it has.
StopAfterFailure ==
    /\ StopRuntime
    /\ retry' = FALSE
    /\ IF session = "online"
         THEN session' = "disconnecting" /\ UNCHANGED status
         ELSE status' = "stopped" /\ UNCHANGED session

LoopGoesOn ==
    /\ closures' = Alive(closures, loop)
    /\ UNCHANGED <<options, loop, resynced, silenced>>

\* The catch of start() leaves a session that reconnects to the next online;
\* that of retryBoot() does not.  Nobody awaits a boot that was triggered.
BootFails(by) ==
    IF by = "trigger"
      THEN LoopGoesOn /\ UNCHANGED <<session, status, retry>>
      ELSE IF by = "start" /\ session = "reconnecting"
        THEN LoopGoesOn /\ status' = "starting" /\ UNCHANGED <<session, retry>>
        ELSE StopAfterFailure

\* completeAcceptedBoot up to its first report.
CompleteAccepted(by) ==
    LET completes == LoopStarts /\ registration' = "Accepted"
    IN  /\ queue' = IF completes THEN Append(queue, Reports(by)) ELSE queue
        /\ IF completes
             THEN StartLoop /\ UNCHANGED <<session, status, retry>>
             ELSE BootFails(by)

\* What start() and retryBoot() do with the answer of boot().
Awaited(by) == by = "start" \/ (by = "retry" /\ status = "starting")
BootRefuses(by, answer) ==
    IF ~Awaited(by)
      THEN LoopGoesOn /\ UNCHANGED <<session, status, retry>>
      ELSE IF answer = "Pending"
        THEN LoopGoesOn /\ retry' = TRUE /\ status' = "starting" /\ UNCHANGED session
        ELSE BootFails(by)

\* start() while the session is idle, connects again by itself or is online.
Start ==
    /\ ~Settling
    /\ UnderWay < MaxUnderWay
    /\ status = "stopped"
    /\ ~waiting
    /\ session \in {"idle", "reconnecting", "online"}
    /\ status' = "starting"
    /\ IF session = "online"
         THEN queue' = Append(queue, Boot("start")) /\ UNCHANGED <<session, waiting>>
         ELSE /\ waiting' = TRUE
              /\ session' = IF session = "idle" THEN "connecting" ELSE session
              /\ UNCHANGED queue
    /\ UNCHANGED <<point, retry, replaying>>

\* stop(): a session that is not connected is left as it is.
Stop ==
    /\ ~Settling
    /\ status # "stopped"
    /\ session # "disconnecting"
    /\ UNCHANGED <<registration, interval, waiting, queue, replaying>>
    /\ StopAfterFailure

\* The boot retry timer fires.
RetryBoot ==
    /\ ~Settling
    /\ UnderWay < MaxUnderWay
    /\ retry
    /\ retry' = FALSE
    /\ queue' = IF status = "starting" THEN Append(queue, Boot("retry")) ELSE queue
    /\ UNCHANGED <<point, session, status, waiting, replaying>>

----------------------------------------------------------------------------
(* The session *)

\* Only the actor listens.
HandleOnline_Deaf ==
    /\ queue' = IF waiting THEN <<Boot("start")>>
                ELSE IF status = "starting" THEN <<Boot("retry")>>
                ELSE <<>>
    /\ silenced' = "no"
    /\ UNCHANGED <<options, loop, closures, resynced>>

\* The runtime's "online" listener, then, unless it throws, the actor's.
\* A start() that awaits the connection boots after both.
HandleOnline ==
    LET restarts == options /\ registration = "Accepted"
        beats == IF restarts /\ LoopStarts THEN <<Beat(None)>> ELSE <<>>
        boots == IF waiting THEN <<Boot("start")>>
                 ELSE IF status = "starting" /\ (restarts => LoopStarts)
                 THEN <<Boot("retry")>> ELSE <<>>
    IN  /\ queue' = beats \o boots
        /\ IF restarts
             THEN StartLoop
             ELSE /\ silenced' = IF options /\ loop = None THEN "unregistered"
                                 ELSE silenced
                  /\ UNCHANGED <<options, loop, closures, resynced>>

Connected ==
    /\ ~Settling
    /\ session \in {"connecting", "reconnecting"}
    /\ session' = "online"
    /\ waiting' = FALSE
    /\ UNCHANGED <<registration, interval, status, retry, replaying>>
    /\ HandleOnline

\* The first attempt fails: the session reconnects behind start().
ConnectFails ==
    /\ ~Settling
    /\ session = "connecting"
    /\ session' = "reconnecting"
    /\ waiting' = FALSE
    /\ status' = IF waiting THEN "starting" ELSE status
    /\ UNCHANGED <<point, retry, queue, replaying>>

\* Attempts to reconnect are exhausted: "offline", and start() fails.
Exhausted ==
    /\ ~Settling
    /\ session = "reconnecting"
    /\ session' = "idle"
    /\ waiting' = FALSE
    /\ UNCHANGED <<registration, interval, queue, replaying>>
    /\ IF waiting
         THEN StopRuntime /\ status' = "stopped" /\ retry' = FALSE
         ELSE MarkPlatformOffline /\ UNCHANGED <<status, retry>>

\* An unexpected disconnection: requests are rejected, the loop goes on.
ConnectionLost ==
    /\ ~Settling
    /\ session = "online"
    /\ session' = "reconnecting"
    /\ UNCHANGED <<point, status, waiting, retry, queue, replaying>>

\* The disconnection that stop() or a failed start-up asked for is over.
Disconnected ==
    /\ ~Settling
    /\ session = "disconnecting"
    /\ session' = "idle"
    /\ status' = "stopped"
    /\ UNCHANGED <<registration, interval, waiting, retry, queue, replaying>>
    /\ MarkPlatformOffline

----------------------------------------------------------------------------
(* Heartbeats *)

\* The timer fires; a point that is not registered sends nothing.
Tick ==
    /\ ~Settling
    /\ loop # None
    /\ registration = "Accepted"
    /\ UnderWay < MaxUnderWay
    /\ queue' = Append(queue, Beat(loop))
    /\ UNCHANGED <<point, session, status, waiting, retry, replaying>>

\* Every failure starts the count again.
BeatFails_Resets(l) == LoopGoesOn

\* A failed heartbeat counts in the closure of its loop; the one that
\* reaches the threshold ends whatever loop there is.
BeatFails(l) ==
    LET counted == IF l = None THEN closures
                   ELSE [closures EXCEPT ![l].failures =
                           IF @ < ReconnectThreshold THEN @ + 1 ELSE @]
        over == l # None /\ counted[l].failures >= ReconnectThreshold
    IN  /\ loop' = IF over THEN None ELSE loop
        /\ closures' = Alive(counted, loop')
        /\ resynced' = (resynced /\ ~over)
        /\ silenced' = IF over /\ loop # None THEN "failures" ELSE silenced
        /\ UNCHANGED options

\* A heartbeat or a boot ends with an error.
Fails(r) ==
    IF r.kind = "beat"
      THEN BeatFails(r.of) /\ UNCHANGED <<session, status, retry>>
      ELSE BootFails(r.of)

\* The first request of the queue is answered with an error, times out or,
\* without a connection, is rejected.
RequestFails ==
    /\ Len(replaying) <= 1
    /\ queue # <<>>
    /\ Head(queue).kind # "reports"
    /\ queue' = Tail(queue)
    /\ UNCHANGED <<registration, interval, waiting, replaying>>
    /\ Fails(Head(queue))

\* reportStartupStatuses is over, its requests accepted or not; one that
\* finds the point no longer registered throws.
Reported ==
    /\ Len(replaying) <= 1
    /\ queue # <<>>
    /\ Head(queue).kind = "reports"
    /\ queue' = Tail(queue)
    /\ UNCHANGED <<registration, interval, waiting, replaying>>
    /\ \/ /\ status' = "running"
          /\ UNCHANGED <<options, loop, closures, resynced, silenced, session, retry>>
       \/ /\ registration # "Accepted"
          /\ BootFails(Head(queue).of)

\* The CSMS answers the first request of the queue.
Answers(kind) ==
    /\ ~Settling
    /\ session = "online"
    /\ queue # <<>>
    /\ Head(queue).kind = kind
    /\ queue' = Tail(queue)
    /\ UNCHANGED waiting

\* The CSMS accepts a heartbeat, which then awaits the replay.
BeatAccepted ==
    /\ Answers("beat")
    /\ replaying' = Append(replaying, Head(queue))
    /\ UNCHANGED <<point, session, status, retry>>

\* An accepted BootNotification stores its interval, also under a loop that
\* beats at another one, and awaits the replay.
BootAccepted(i) ==
    /\ Answers("boot")
    /\ SyncAccepted(Store, "HeartbeatInterval", IntValue(i))
    /\ registration' = "Accepted"
    /\ interval' = i
    /\ resynced' = (loop # None /\ (resynced \/ i # closures[loop].every))
    /\ replaying' = Append(replaying, Head(queue))
    /\ UNCHANGED <<options, loop, closures, silenced, session, status, retry>>

\* One whose interval cannot be stored registers the point and then throws.
BootThrows(i) ==
    /\ Answers("boot")
    /\ ~SyncAccepted(Store, "HeartbeatInterval", IntValue(i))
    /\ registration' = "Accepted"
    /\ UNCHANGED <<interval, replaying>>
    /\ BootFails(Head(queue).of)

\* The registration is put off or refused.
BootRefused(answer) ==
    /\ Answers("boot")
    /\ registration' = answer
    /\ UNCHANGED <<interval, replaying>>
    /\ BootRefuses(Head(queue).of, answer)

\* What an accepted boot or heartbeat awaits is the replay it began or,
\* while that one goes on, nothing.
Awaiting == replaying[Len(replaying)]
ReplayEnds ==
    /\ replaying # <<>>
    /\ replaying' = SubSeq(replaying, 1, Len(replaying) - 1)
    /\ UNCHANGED <<registration, interval, waiting>>

\* It returns, with everything replayed or an answer that stops it: the boot
\* is accepted, the heartbeat resets the count of its closure.
Replayed ==
    /\ ReplayEnds
    /\ LET r == Awaiting IN
         IF r.kind = "boot"
           THEN IF Awaited(r.of)
             THEN CompleteAccepted(r.of)
             ELSE UNCHANGED <<queue, session, status, retry>> /\ LoopGoesOn
           ELSE /\ UNCHANGED <<queue, options, loop, resynced, silenced, session,
                               status, retry>>
                /\ closures' = Alive(IF r.of = None THEN closures
                                     ELSE [closures EXCEPT ![r.of].failures = 0],
                                    loop)

\* A request of the replay times out or is rejected: so do the boot and, for
\* all its answer, the heartbeat that awaited it.
ReplayThrows ==
    /\ ReplayEnds
    /\ Len(replaying) = 1
    /\ UNCHANGED queue
    /\ Fails(Awaiting)

----------------------------------------------------------------------------
(* Commands of the CSMS *)

\* The new interval is stored and the loop goes on.
RestartLoop_Not ==
    UNCHANGED <<options, loop, closures, resynced, silenced>>

\* restartHeartbeatLoop: a loop is replaced by one at the new interval, or,
\* when the point is no longer registered, only stopped.
RestartLoop ==
    IF loop = None
      THEN UNCHANGED <<options, loop, closures, resynced, silenced>>
      ELSE /\ UNCHANGED options
           /\ IF registration = "Accepted" THEN NewLoop ELSE StopLoop("unregistered")

\* ChangeConfiguration of HeartbeatInterval.
ChangeInterval(i) ==
    LET result == ChangeConfiguration(Store, "HeartbeatInterval", IntValue(i), 1)
    IN  /\ ~Settling
        /\ session = "online"
        /\ result.applies
        /\ \E n \in HeartbeatIntervalSec(result.catalog) : interval' = n
        /\ UNCHANGED <<registration, session, status, waiting, retry, queue,
                       replaying>>
        /\ RestartLoop

\* TriggerMessage of BootNotification, or of Heartbeat when registered.
TriggerMessage(r) ==
    /\ ~Settling
    /\ session = "online"
    /\ UnderWay < MaxUnderWay
    /\ r = Beat(None) => registration = "Accepted"
    /\ queue' = Append(queue, r)
    /\ UNCHANGED <<point, session, status, waiting, retry, replaying>>

Next ==
    \/ Start \/ Stop \/ RetryBoot
    \/ Connected \/ ConnectFails \/ Exhausted \/ ConnectionLost \/ Disconnected
    \/ Tick \/ RequestFails \/ Reported \/ BeatAccepted
    \/ Replayed \/ ReplayThrows
    \/ \E i \in Intervals \cup {-1} : BootAccepted(i) \/ BootThrows(i) \/ ChangeInterval(i)
    \/ \E answer \in {"Pending", "Rejected"} : BootRefused(answer)
    \/ \E r \in {Boot("trigger"), Beat(None)} : TriggerMessage(r)

\* Requests are answered or time out, replays end, and a timer that stays
\* set fires however often the promises of other events go first.
Fairness ==
    /\ SF_vars(Tick)
    /\ WF_vars(RequestFails \/ Reported \/ BeatAccepted)
    /\ WF_vars(Replayed \/ ReplayThrows)

Spec == Init /\ [][Next]_vars /\ Fairness

----------------------------------------------------------------------------
\* Why a running actor may have no loop.
Explained == {"failures", "unregistered", "unusable", "overtaken"}

Closures == [every : Intervals \ {0}, failures : 0..ReconnectThreshold]

TypeOK ==
    /\ registration \in Registrations
    /\ interval \in Intervals
    /\ options \in BOOLEAN
    /\ loop \in Loops \cup {None}
    /\ closures \in [DOMAIN closures -> Closures]
    /\ DOMAIN closures = (Named \cup {loop}) \ {None}
    /\ session \in {"idle", "connecting", "online", "reconnecting", "disconnecting"}
    /\ status \in {"stopped", "starting", "running"}
    /\ waiting \in BOOLEAN /\ retry \in BOOLEAN
    /\ queue \in Seq(Requests) /\ replaying \in Seq(Requests)
    /\ resynced \in BOOLEAN
    /\ silenced \in Explained \cup {"no", "stopped"}

\* The loop beats at the interval that is configured, whoever set it and
\* however the change met boots and loops that were starting, except under a
\* boot that answered another one while it ran.
LoopBeatsAsConfigured ==
    loop # None /\ ~resynced => closures[loop].every = interval

\* A running, registered actor whose session is online has a heartbeat loop:
\* each reconnection brings back the one that failures or an outage ended.
\* It has none only when failures reached the threshold on this connection,
\* when it was to start or restart while the point was not registered, when
\* the CSMS gave an interval that no loop can use, or when a start-up that
\* failed stopped the runtime while another one was at its reports.
RunningActorBeats ==
    status = "running" /\ session = "online" /\ registration = "Accepted"
      /\ loop = None
    => silenced \in Explained

\* A heartbeat of the loop is accepted, or the loop is replaced.
Hears ==
    /\ replaying # <<>>
    /\ Awaiting = Beat(loop)
    /\ Replayed
Replaces == \E i \in Intervals : ChangeInterval(i)

\* A CSMS that is silent is noticed: a loop whose heartbeats are never
\* accepted again and which no command replaces comes to its end, unless
\* the point is not registered, whose ticks count nothing.
SilenceIsNoticed ==
    []<>(loop = None \/ registration # "Accepted")
      \/ []<><<Hears \/ Replaces>>_vars
============================================================================
