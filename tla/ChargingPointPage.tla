--------------------------- MODULE ChargingPointPage ---------------------------
(***************************************************************************)
(* The page of a charging point over the server's RuntimeOperations: the   *)
(* stream of server-sent events, and the requests the page makes beside    *)
(* it.  A snapshot comes on the stream and the answers come each on a      *)
(* connection of their own, so an answer may come after later snapshots.   *)
(***************************************************************************)
EXTENDS RuntimeOperations, Sequences

CONSTANT MaxInbox   \* bound on the snapshots that wait on the stream

ASSUME PageAssumption == MaxInbox \in Nat \ {0}

VARIABLE page       \* the page and its stream

vars == <<serverVars, page>>

Snapshots == [status : Statuses, facts : Facts \cup {None}]

\* read: the route has the rows; taken: it has a snapshot and has not yet
\* subscribed.  heard: the last snapshot of the stream; cache: the status in the
\* query cache, which answers write too.  History: missed, the hub published while
\* the stream was taken, and not since; late, a late answer wrote the cache last.
PageTypeOK ==
    page \in [stream : {"closed", "read", "taken", "open"}, inbox : Seq(Snapshots),
              missed : BOOLEAN, heard : Snapshots \cup {None}, cache : Statuses \cup {None},
              late : BOOLEAN]

TypeOK == ServerTypeOK /\ PageTypeOK

Init ==
    /\ ServerInit
    /\ page = [stream |-> "closed", inbox |-> <<>>, missed |-> FALSE, heard |-> None, cache |-> None,
              late |-> FALSE]

-----------------------------------------------------------------------------
(* What a step of the server sends. *)

\* publish, with the snapshot after the step, to a page that has subscribed.
Publishes(publishes) ==
    CASE publishes /\ page.stream = "open" ->
            /\ Len(page.inbox) < MaxInbox
            /\ page' = [page EXCEPT !.inbox = Append(@, Published), !.missed = FALSE]
      [] publishes /\ page.stream = "taken" -> page' = [page EXCEPT !.missed = TRUE]
      [] OTHER -> UNCHANGED page

ActorStep ==
    \E a \in Actors :
        \/ \E fact \in Facts : Tells(a, fact) /\ Publishes(TRUE)
        \/ \E status \in Statuses : Retried(a, status) /\ Publishes(Heard(a))

StartStep ==
    \E o \in Slots :
        \/ StartsAgain(o) /\ UNCHANGED page
        \/ \E a \in Actors : Starts(o, a) /\ Publishes(Heard(a))
        \/ \E status \in Statuses :
               /\ StartResolves(o, status)
               /\ Publishes(Heard(ops[o].actor) /\ actors[ops[o].actor].status # status)
        \/ StartRejects(o) /\ Publishes(Heard(ops[o].actor))
        \/ RollsBack(o) /\ UNCHANGED page

StopStep ==
    \E o \in Slots :
        \/ StopsNothing(o) /\ UNCHANGED page
        \/ Stops(o) /\ UNCHANGED page
        \/ StopResolves(o) /\ Publishes(Heard(ops[o].actor))
        \/ StopRejects(o) /\ UNCHANGED page
        \/ LetsGo(o) /\ UNCHANGED page
        \/ \E status \in Statuses \cup {"unborn"} : Disposes(o, status) /\ UNCHANGED page

\* The stream of a page that has subscribed is closed; the page knows no event
\* "deleted".  One that has its snapshot will subscribe all the same.
DeleteStep ==
    \E o \in Slots :
        \/ Deletes(o) /\ UNCHANGED page
        \/ /\ ForgetsStreams(o)
           /\ page' = CASE page.stream = "open" -> [page EXCEPT !.stream = "closed"]
                        [] page.stream = "taken" -> [page EXCEPT !.missed = TRUE]
                        [] OTHER -> page

OtherStep ==
    /\ \E o \in Slots : (\E kind \in Kinds \ {"status"} : Asks(o, kind, FALSE)) \/ TellsStatus(o)
    /\ UNCHANGED page

-----------------------------------------------------------------------------
(* The stream. *)

\* EventSource connects, and again when the connection is lost, with what was on
\* its way; the first thing it will hear is a new snapshot.  A deleted point is
\* answered 404.
Connects ==
    /\ page.stream \in {"closed", "open"}
    /\ stored
    /\ page' = [page EXCEPT !.stream = "read", !.inbox = <<>>, !.heard = None,
                            !.missed = FALSE]
    /\ UNCHANGED serverVars

\* getRuntimeSnapshot: the registry's status and the hub's projection.
TakesSnapshot ==
    /\ page.stream = "read"
    /\ page' = [page EXCEPT !.stream = "taken", !.inbox = <<Snapshot>>]
    /\ UNCHANGED serverVars

Subscribes ==
    /\ page.stream = "taken"
    /\ page' = [page EXCEPT !.stream = "open"]
    /\ UNCHANGED serverVars

\* A snapshot replaces the runtime state of the page and the cached status.
Hears ==
    /\ page.stream \in {"open", "closed"} /\ page.inbox # <<>>
    /\ page' = [page EXCEPT !.inbox = Tail(@), !.heard = Head(page.inbox),
                            !.cache = Head(page.inbox).status, !.late = FALSE]
    /\ ops' = [o \in Slots |-> [ops[o] EXCEPT !.late = ops[o].page /\ ops[o].answer # "error"]]
    /\ UNCHANGED <<stored, actors, registered, attached, projection, robbed, overlapped>>

-----------------------------------------------------------------------------
(* The requests of the page. *)

PageRequests == {o \in Slots : ops[o].page /\ ops[o].at # "free"}
Mutating == \E o \in PageRequests : ops[o].kind \in {"start", "stop"}

\* primaryAction: what the button does.
PrimaryAction == IF page.cache = "stopped" THEN "start" ELSE "stop"

Clicks(o) ==
    /\ page.cache # None
    /\ ~Mutating
    /\ Asks(o, PrimaryAction, TRUE)
    /\ UNCHANGED page

\* The query of the status, when the page opens and when it is looked at again.
Queries(o) ==
    /\ ~\E p \in PageRequests : ops[p].kind = "status"
    /\ Asks(o, "status", TRUE)
    /\ UNCHANGED page

TakesAnswer(o) ==
    /\ ops[o].at = "answered"
    /\ page' = [page EXCEPT !.cache = ops[o].answer, !.late = ops[o].late]
    /\ ops' = [ops EXCEPT ![o] = Free]
    /\ UNCHANGED <<stored, actors, registered, attached, projection, robbed, overlapped>>

PageStep ==
    \/ Connects \/ TakesSnapshot \/ Subscribes \/ Hears
    \/ \E o \in Slots : Clicks(o) \/ Queries(o) \/ TakesAnswer(o)

Next ==
    \/ ActorStep \/ StartStep \/ StopStep \/ DeleteStep \/ OtherStep
    \/ PageStep

Spec == Init /\ [][Next]_vars

-----------------------------------------------------------------------------

Live(a) == actors[a].status # "unborn" /\ ~actors[a].disposed
Holds(o, a) == ops[o].actor = a

\* Every actor that is not disposed is in the registry or in a request that will
\* dispose of it, but for those that the failed start of another took out of the
\* registry: whichever way starts, stops and their failures interleave, no actor
\* is left connected without anything that could stop it.  (start and stop of
\* RuntimeOperationService; a failed start takes out what is registered, which
\* after a stop and another start is not its own.)
OnlyFailedStartsLose ==
    \A a \in Actors :
        Live(a) =>
            \/ registered = a
            \/ \E o \in Slots : Holds(o, a) /\ ops[o].at # "starting"
            \/ a \in robbed

\* The registered actor is not disposed and no stop or failed start that is about
\* it will dispose of it: what a request finds in the registry stays usable until
\* another request takes it out.
RegisteredIsUsable ==
    registered # None =>
        /\ Live(registered)
        /\ \A o \in Slots :
               Holds(o, registered) => ops[o].at \in {"starting", "failed"}

Stopping == \E o \in Slots : ops[o].at = "stopping"

\* The page has heard all that was published, and the hub had all to publish: no
\* stop is under way, which leaves the registry before it stops; no start found
\* the hub at an older actor or went on after a stop, no request let the hub go of
\* another's actor and no stop failed; and an event between the snapshot of the
\* route and its subscription has been followed by another.
UpToDate ==
    /\ page.stream = "open" /\ page.inbox = <<>> /\ ~page.missed
    /\ stored /\ ~Stopping /\ ~overlapped

\* Such a page shows what a request for the snapshot would answer: no status, and
\* no fact of a session or connector, changes without the page being told.
PageFollows == UpToDate => page.heard = Snapshot

\* And its button acts on the status there is, unless an answer that was made
\* before the last snapshot came after it: only that can make the page offer
\* to start what runs.
ButtonFollows ==
    (UpToDate /\ ~page.late) => page.cache = Snapshot.status

\* ADR 0010: the registry keeps active actors only, and after a stop or a failed
\* start they are removed and released.
RegisteredIsActive ==
    registered # None =>
        \/ actors[registered].status # "stopped"
        \/ \E o \in Slots : Holds(o, registered)
=============================================================================
