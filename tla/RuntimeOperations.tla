--------------------------- MODULE RuntimeOperations ---------------------------
(***************************************************************************)
(* The server's operations on one charging point: RuntimeOperationService  *)
(* over the ChargingPointActorRegistry and the ChargingPointEventStreamHub,*)
(* and the deletion of the point.  Each request is a coroutine; between    *)
(* two of its awaits the other requests and the actors take their steps.   *)
(* Points share nothing, so one is enough.                                 *)
(*                                                                         *)
(* An actor is what ActorLifecycle shows of it: its status, whether it is  *)
(* disposed, and the events it publishes.  What the hub projects of them   *)
(* is one fact, the last one told.                                         *)
(***************************************************************************)
EXTENDS Naturals, FiniteSets

CONSTANTS
    None,
    Actors,     \* the actors that may be created, a bound on the starts that create one
    Slots,      \* a bound on the requests under way
    Facts       \* what the events of an actor may say

ASSUME OperationsAssumption == None \notin Actors /\ None \notin Facts

VARIABLES
    stored,     \* the point's row is active; it has a connector
    actors,     \* Actor -> its status and whether it is disposed
    registered, \* the registry's actor
    attached,   \* the hub's actor
    projection, \* the hub's projection, None when it is empty
    ops,        \* slot -> the request in it
    robbed,     \* actors that the failed start of another removed (history)
    overlapped  \* a start found the hub at an older actor or went on after a stop, a
                \* request took another's actor from the hub, or a stop failed (history)

serverVars == <<stored, actors, registered, attached, projection, ops, robbed, overlapped>>

Statuses == {"stopped", "starting", "running"}
Kinds == {"start", "stop", "status", "delete"}

\* read: has the rows it asked for; starting, stopping, disposing: awaits
\* the actor; failed, stopped: the actor's promise has settled; deleted: the row
\* is; answered: the answer is on its way to the page.
Places == {"free", "read", "starting", "failed", "stopping", "stopped", "disposing",
           "deleted", "answered"}

\* answer: "error" stands for all that says nothing of the status.  late: the page
\* has heard a snapshot since the answer was certain (history).
Requests == [kind : Kinds, at : Places, actor : Actors \cup {None},
             answer : Statuses \cup {"error"}, page : BOOLEAN, late : BOOLEAN]

Free == [kind |-> "status", at |-> "free", actor |-> None, answer |-> "error", page |-> FALSE,
         late |-> FALSE]

ServerTypeOK ==
    /\ stored \in BOOLEAN
    /\ actors \in [Actors -> [status : Statuses \cup {"unborn"}, disposed : BOOLEAN]]
    /\ registered \in Actors \cup {None}
    /\ attached \in Actors \cup {None}
    /\ projection \in Facts \cup {None}
    /\ ops \in [Slots -> Requests]
    /\ robbed \subseteq Actors
    /\ overlapped \in BOOLEAN

ServerInit ==
    /\ stored = TRUE
    /\ actors = [a \in Actors |-> [status |-> "unborn", disposed |-> FALSE]]
    /\ registered = None
    /\ attached = None
    /\ projection = None
    /\ ops = [o \in Slots |-> Free]
    /\ robbed = {}
    /\ overlapped = FALSE

-----------------------------------------------------------------------------
(* Snapshots. *)

\* toStatusResponse and toRuntimeStatusResponse.
StatusOf(a, known) == IF a = None THEN "stopped" ELSE known[a].status

\* getRuntimeSnapshot: nothing of the projection of a stopped point.
SnapshotOf(status, facts) == [status |-> status, facts |-> IF status = "stopped" THEN None ELSE facts]

\* What GET runtime-snapshot answers now, of the registry's actor, and what the
\* hub publishes after this step, of its own.
Snapshot == SnapshotOf(StatusOf(registered, actors), projection)
Published == SnapshotOf(StatusOf(attached', actors'), projection')

-----------------------------------------------------------------------------
(* The events of an actor. *)

\* The status of a becomes status, with an event; a disposed actor has no
\* listeners.  reduceRuntimeProjection empties the projection when it is stopped.
Becomes(a, status) ==
    /\ actors' = [actors EXCEPT ![a].status = status]
    /\ projection' = IF attached' = a /\ ~actors[a].disposed /\ status = "stopped"
                     THEN None ELSE projection

Heard(a) == attached' = a /\ ~actors[a].disposed

\* Any event but a lifecycle one: a session, status or transaction event, of the
\* CSMS, of a timer or of a command that came through requireRunningActor.
Tells(a, fact) ==
    /\ attached = a /\ ~actors[a].disposed
    /\ projection' = fact
    /\ UNCHANGED <<stored, actors, registered, attached, ops, robbed, overlapped>>

\* The retries of the boot: retryBoot ends in "running", or in "stopped" by
\* stopAfterFailure, with nobody to await them.  The registry is not told.  (One
\* that a stop or another retry overtakes is in ActorLifecycle.)
Retried(a, status) ==
    /\ actors[a].status = "starting" /\ ~actors[a].disposed
    /\ ~\E o \in Slots : ops[o].actor = a /\ ops[o].at = "starting"
    /\ status \in {"running", "stopped"}
    /\ UNCHANGED attached
    /\ Becomes(a, status)
    /\ UNCHANGED <<stored, registered, ops, robbed, overlapped>>

-----------------------------------------------------------------------------
(* Requests. *)

Goes(o, at) == ops' = [ops EXCEPT ![o].at = at]

\* An answer that says what the status is, is on its way when the page asked.
Ended(o, answer) ==
    IF ops[o].page /\ answer # "error" THEN [ops[o] EXCEPT !.at = "answered", !.actor = None, !.answer = answer]
    ELSE Free

Answers(o, answer) == ops' = [ops EXCEPT ![o] = Ended(o, answer)]

\* A request, with what it reads: getOperationDetail, or requireActiveChargingPoint.
\* A deleted point is answered 404, and nothing happens.
Asks(o, kind, page) ==
    /\ ops[o].at = "free"
    /\ stored
    /\ ops' = [ops EXCEPT ![o] = [Free EXCEPT !.kind = kind, !.at = "read", !.page = page]]
    /\ UNCHANGED <<stored, actors, registered, attached, projection, robbed, overlapped>>

\* Mutant: what is registered is taken to run.
StartsAgain_Running(o) ==
    /\ ops[o].at = "read" /\ ops[o].kind = "start"
    /\ registered # None
    /\ Answers(o, "running")
    /\ UNCHANGED <<stored, actors, registered, attached, projection, robbed, overlapped>>

\* start: the registered actor's status, whatever it is.
StartsAgain(o) ==
    /\ ops[o].at = "read" /\ ops[o].kind = "start"
    /\ registered # None
    /\ Answers(o, StatusOf(registered, actors))
    /\ UNCHANGED <<stored, actors, registered, attached, projection, robbed, overlapped>>

\* start: a new actor.  attachActor does nothing while the hub listens to another.
Starts(o, a) ==
    /\ ops[o].at = "read" /\ ops[o].kind = "start"
    /\ registered = None
    /\ actors[a].status = "unborn"
    /\ registered' = a
    /\ attached' = IF attached = None THEN a ELSE attached
    /\ overlapped' = (overlapped \/ attached # None)
    /\ Becomes(a, "starting")
    /\ ops' = [ops EXCEPT ![o].at = "starting", ![o].actor = a]
    /\ UNCHANGED <<stored, robbed>>

\* actor.start() resolves, after an accepted boot or with the boot still to come.
\* It looks neither at disposal nor at the status: one that a stop has overtaken
\* is no longer "stopped".
StartResolves(o, status) ==
    /\ ops[o].at = "starting"
    /\ status \in {"starting", "running"}
    /\ UNCHANGED attached
    /\ IF actors[ops[o].actor].status = status
       THEN UNCHANGED <<actors, projection>>
       ELSE Becomes(ops[o].actor, status)
    /\ overlapped' = (overlapped \/ actors[ops[o].actor].status = "stopped")
    /\ Answers(o, status)
    /\ UNCHANGED <<stored, registered, robbed>>

\* actor.start() rejects, after stopAfterFailure.
StartRejects(o) ==
    /\ ops[o].at = "starting"
    /\ UNCHANGED attached
    /\ Becomes(ops[o].actor, "stopped")
    /\ Goes(o, "failed")
    /\ UNCHANGED <<stored, registered, robbed, overlapped>>

\* detachActor empties the projection and publishes nothing.  own: the actor
\* that the request is about.
Detaches(own) ==
    /\ attached' = None
    /\ projection' = IF attached = None THEN projection ELSE None
    /\ overlapped' = (overlapped \/ attached \notin {own, None})

\* start's catch: the registry and the hub let go of the point's actor, whichever
\* it is, and the start disposes of its own.
RollsBack(o) ==
    /\ ops[o].at = "failed"
    /\ registered' = None
    /\ robbed' = robbed \cup ({registered} \ {ops[o].actor, None})
    /\ Detaches(ops[o].actor)
    /\ Goes(o, "disposing")
    /\ UNCHANGED <<stored, actors>>

\* stop: out of the registry first.
StopsNothing(o) ==
    /\ ops[o].at = "read" /\ ops[o].kind = "stop"
    /\ registered = None
    /\ Answers(o, "stopped")
    /\ UNCHANGED <<stored, actors, registered, attached, projection, robbed, overlapped>>

\* Mutant: the registry is asked for the actor and keeps it.
Stops_Keeps(o) ==
    /\ ops[o].at = "read" /\ ops[o].kind = "stop"
    /\ registered # None
    /\ ops' = [ops EXCEPT ![o].at = "stopping", ![o].actor = registered]
    /\ UNCHANGED <<stored, actors, registered, attached, projection, robbed, overlapped>>

\* Mutant: the hub lets go of the actor before it stops.
Stops_DetachesFirst(o) ==
    /\ ops[o].at = "read" /\ ops[o].kind = "stop"
    /\ registered # None
    /\ registered' = None
    /\ Detaches(registered)
    /\ ops' = [ops EXCEPT ![o].at = "stopping", ![o].actor = registered]
    /\ UNCHANGED <<stored, actors, robbed>>

\* actor.stop() of a stopped actor returns at once.
Stops(o) ==
    /\ ops[o].at = "read" /\ ops[o].kind = "stop"
    /\ registered # None
    /\ registered' = None
    /\ ops' = [ops EXCEPT ![o] =
                 IF actors[registered].status = "stopped"
                 THEN [@ EXCEPT !.at = "stopped", !.actor = registered, !.answer = "stopped"]
                 ELSE [@ EXCEPT !.at = "stopping", !.actor = registered]]
    /\ UNCHANGED <<stored, actors, attached, projection, robbed, overlapped>>

StopResolves(o) ==
    /\ ops[o].at = "stopping"
    /\ UNCHANGED attached
    /\ Becomes(ops[o].actor, "stopped")
    /\ ops' = [ops EXCEPT ![o].at = "stopped", ![o].answer = "stopped"]
    /\ UNCHANGED <<stored, registered, robbed, overlapped>>

\* Mutant: without the finally.
StopRejects_NoFinally(o) ==
    /\ ops[o].at = "stopping"
    /\ Answers(o, "error")
    /\ overlapped' = TRUE
    /\ UNCHANGED <<stored, actors, registered, attached, projection, robbed>>

\* session.disconnect() rejects: 502, and the actor keeps its status.
StopRejects(o) ==
    /\ ops[o].at = "stopping"
    /\ Goes(o, "stopped")
    /\ overlapped' = TRUE
    /\ UNCHANGED <<stored, actors, registered, attached, projection, robbed>>

\* stop's finally.
LetsGo(o) ==
    /\ ops[o].at = "stopped"
    /\ Detaches(ops[o].actor)
    /\ Goes(o, "disposing")
    /\ UNCHANGED <<stored, actors, registered, robbed>>

\* dispose: a stop, which may fail again, and the end of its listeners.  The
\* hub has let go of the actor, or listens to another.
Disposes(o, status) ==
    /\ ops[o].at = "disposing"
    /\ LET now == actors[ops[o].actor]
       IN status \in IF now.disposed THEN {now.status} ELSE {"stopped", now.status}
    /\ actors' = [actors EXCEPT ![ops[o].actor] = [status |-> status, disposed |-> TRUE]]
    /\ Answers(o, ops[o].answer)
    /\ UNCHANGED <<stored, registered, attached, projection, robbed, overlapped>>

\* getStatus.
TellsStatus(o) ==
    /\ ops[o].at = "read" /\ ops[o].kind = "status"
    /\ Answers(o, StatusOf(registered, actors))
    /\ UNCHANGED <<stored, actors, registered, attached, projection, robbed, overlapped>>

\* softDelete: the point and its connectors in one transaction.
Deletes(o) ==
    /\ ops[o].at = "read" /\ ops[o].kind = "delete"
    /\ stored' = FALSE
    /\ Goes(o, "deleted")
    /\ UNCHANGED <<actors, registered, attached, projection, robbed, overlapped>>

\* The hub's delete.  The registry keeps the actor, and the actor goes on.
ForgetsStreams(o) ==
    /\ ops[o].at = "deleted"
    /\ attached' = None
    /\ projection' = None
    /\ Answers(o, "error")
    /\ UNCHANGED <<stored, actors, registered, robbed, overlapped>>
=============================================================================
