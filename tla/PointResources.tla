--------------------------- MODULE PointResources ---------------------------
(***************************************************************************)
(* The stored resources of the server: one charging point and its          *)
(* connectors, and the requests that read and change them.  A request is a *)
(* coroutine that makes one database query after the other; every query is *)
(* a step of its own, a transaction is one step, and between two steps the *)
(* other requests take theirs.  Nothing is locked in between: what a       *)
(* request has checked may have changed when it writes, and only the       *)
(* unique indexes on active rows hold whatever happens.                    *)
(*                                                                         *)
(* Rows are in the order of their insertion, which is that of createdAt.   *)
(* The fields that no query compares are left out.                         *)
(***************************************************************************)
EXTENDS DomainModel

CONSTANTS
    Slots,      \* a bound on the requests under way
    Numbers,    \* the EVSE and connector numbers that requests give
    MaxInteger, \* the largest number an integer column holds
    MaxRows     \* a bound on the connectors ever created

ASSUME ResourcesAssumption ==
    /\ Numbers \subseteq Nat \ {0}
    /\ MaxInteger \in Nat
    /\ MaxRows \in Nat

VARIABLES
    point,      \* the row of the charging point: not there yet, active or deleted
    rows,       \* the rows of its connectors: their numbers, their place in the list, whether
                \* they are deleted, and whether another request wrote while the one that
                \* created them was under way (history)
    requests    \* slot -> the request in it

vars == <<point, rows, requests>>

Kinds == {"createConnector", "updateConnector", "deleteConnector", "getConnector",
          "listConnectors", "readPoint", "updatePoint", "deletePoint"}

\* checked: the point was active; found: the connector was; numbered: its
\* numbers were free; ordered: its place is known; written: the point is updated.
Places == {"free", "checked", "found", "numbered", "ordered", "written", "answered"}

\* What an update leaves out.
Kept == 0

\* row: the connector it names, 0 one that never was; old: the connector as it
\* was found; seen: the connectors that were read; overtaken: another request
\* wrote since its first query (history).  What is not read again is dropped.
Free == [kind |-> "readPoint", at |-> "free", row |-> 0, evse |-> Kept, number |-> Kept,
         old |-> [evse |-> Kept, number |-> Kept], sort |-> 0, seen |-> <<>>, answer |-> 0,
         overtaken |-> FALSE]

Active(rs, i) == i \in DOMAIN rs /\ ~rs[i].deleted

Init ==
    /\ point = "none"
    /\ rows = <<>>
    /\ requests = [s \in Slots |-> Free]

----------------------------------------------------------------------------
(* The address of the central system.  A URL that parses has a scheme, a   *)
(* path that begins with a slash, and a query and a fragment that are not  *)
(* there, bare (a lone "?" or "#", which reads as the empty string) or     *)
(* given.                                                                  *)

Parts == {"none", "bare", "given"}
Paths == {<<"/">>, <<"/", "a">>, <<"/", "a", "/", "/">>}
Addresses == [scheme : {"ws", "wss", "http"}, path : Paths, search : Parts, hash : Parts]

AddressAccepted(a) ==
    /\ a.scheme \in {"ws", "wss"}
    /\ a.search # "given"
    /\ a.hash # "given"

WithoutLastSlashes(path) ==
    SubSeq(path, 1, CHOOSE n \in 0 .. Len(path) :
                        /\ \A i \in n + 1 .. Len(path) : path[i] = "/"
                        /\ n = 0 \/ path[n] # "/")

IsBare(a) == "bare" \in {a.search, a.hash}

\* The path of a URL is never empty, and of the text only a last slash goes.
NormalizeCentralSystemUrl(a) ==
    LET path == WithoutLastSlashes(a.path)
    IN  [a EXCEPT !.path = IF path = <<>> /\ IsBare(a) THEN <<"/">> ELSE path]

\* The identity goes behind the whole text, where a bare fragment or query
\* takes it.
ToChargingPointConnectionUrl(a, identity) ==
    IF a.hash = "bare" THEN [a EXCEPT !.hash = "given"]
    ELSE IF a.search = "bare" THEN [a EXCEPT !.search = "given"]
    ELSE [a EXCEPT !.path = a.path \o <<"/", identity>>]

\* An address that was stored is stored unchanged when it is given again, and
\* without bare parts the identity is a segment of its own behind its path.
ASSUME AddressesAreNormal ==
    \A a \in {b \in Addresses : AddressAccepted(b)} :
        LET n == NormalizeCentralSystemUrl(a)
            path == ToChargingPointConnectionUrl(n, "cp").path
        IN  /\ AddressAccepted(n)
            /\ NormalizeCentralSystemUrl(n) = n
            /\ ~IsBare(a) => /\ path[Len(path)] = "cp"
                             /\ path[Len(path) - 1] = "/"
                             /\ \A i \in 1 .. Len(path) - 2 :
                                   path[i] = "/" => path[i + 1] # "/"

----------------------------------------------------------------------------
(* What the database does. *)

\* The members of S one after the other, in the order R.
Listing(S, R) ==
    CHOOSE f \in [1 .. Cardinality(S) -> S] :
        \A i, j \in 1 .. Cardinality(S) : i < j => <<f[i], f[j]>> \in R

Ascending(S) == {p \in S \X S : p[1] < p[2]}

\* listActiveConnectors, in the order of the list.
ActiveRows(rs) == {i \in DOMAIN rs : ~rs[i].deleted}
InListOrder(rs) ==
    {p \in ActiveRows(rs) \X ActiveRows(rs) :
        \/ rs[p[1]].sort < rs[p[2]].sort
        \/ rs[p[1]].sort = rs[p[2]].sort /\ p[1] < p[2]}
ListActiveConnectors(rs) ==
    LET order == Listing(ActiveRows(rs), InListOrder(rs))
    IN  [k \in 1 .. Cardinality(ActiveRows(rs)) |->
            [id |-> order[k], evse |-> rs[order[k]].evse, number |-> rs[order[k]].number]]

\* No row has a place behind its own index.
MaxSortOrder(rs) ==
    CHOOSE n \in 0 .. Len(rs) :
        /\ \A i \in ActiveRows(rs) : rs[i].sort <= n
        /\ n # 0 => \E i \in ActiveRows(rs) : rs[i].sort = n

TooLarge(n) == n > MaxInteger

\* Without the index on connector numbers.
IndexRefuses_Evses(rs) ==
    \E i, j \in ActiveRows(rs) : i # j /\ rs[i].evse = rs[j].evse

\* The unique indexes: no two active rows share an EVSE or a connector number.
IndexRefuses(rs) ==
    \E i, j \in ActiveRows(rs) :
        i # j /\ (rs[i].evse = rs[j].evse \/ rs[i].number = rs[j].number)

----------------------------------------------------------------------------
(* Requests. *)

Continues(s, place) == requests' = [requests EXCEPT ![s].at = place]

Answer(r, status) ==
    [Free EXCEPT !.kind = r.kind, !.at = "answered", !.answer = status,
                 !.overtaken = r.overtaken,
                 !.evse = IF status = 500 THEN r.evse ELSE Kept,
                 !.number = IF status = 500 THEN r.number ELSE Kept]

Answered(s, status) == requests' = [requests EXCEPT ![s] = Answer(requests[s], status)]

\* It writes and answers; the other writers are overtaken.
Writes(s, status) ==
    requests' = [o \in Slots |->
        IF o = s THEN Answer(requests[s], status)
        ELSE [requests[o] EXCEPT !.overtaken =
                 \/ @
                 \/ requests[o].at \in {"checked", "found", "numbered", "ordered"}
                    /\ requests[o].kind \in {"createConnector", "updateConnector"}]]

Creating == {s \in Slots : requests[s].kind = "createConnector"
                           /\ requests[s].at \notin {"free", "answered"}}

\* The point of a request to create it is one insertion; that of one that is
\* refused never is.
CreatePoint ==
    /\ point = "none"
    /\ \E a \in Addresses : AddressAccepted(a)
    /\ point' = "active"
    /\ UNCHANGED <<rows, requests>>

\* What a request may ask for.  MaxRows: a request to create a connector waits
\* while all may be used up.
Asked(kind, row, evse, number) ==
    /\ kind = "createConnector" =>
          Kept \notin {evse, number} /\ Len(rows) + Cardinality(Creating) < MaxRows
    /\ kind \notin {"createConnector", "updateConnector"} => {evse, number} = {Kept}
    /\ kind \notin {"updateConnector", "deleteConnector", "getConnector"} => row = 0

\* The first query, requireActiveChargingPoint or the row of the point itself.
CheckPoint(s) ==
    /\ requests[s].at = "free"
    /\ \E kind \in Kinds, row \in 0 .. Len(rows), evse, number \in Numbers \cup {Kept} :
          /\ Asked(kind, row, evse, number)
          /\ LET r == [Free EXCEPT !.kind = kind, !.at = "checked", !.row = row,
                                   !.evse = evse, !.number = number]
             IN  requests' = [requests EXCEPT ![s] =
                    IF point = "active" THEN r ELSE Answer(r, 404)]
    /\ UNCHANGED <<point, rows>>

\* An update of the point refuses an address before it writes.
RefuseAddress(s) ==
    /\ requests[s].kind = "updatePoint" /\ requests[s].at = "checked"
    /\ \E a \in Addresses : ~AddressAccepted(a)
    /\ Answered(s, 400)
    /\ UNCHANGED <<point, rows>>

\* requireActiveConnector.
FindConnector(s) ==
    LET r == requests[s] IN
    /\ r.at = "checked"
    /\ r.kind \in {"updateConnector", "deleteConnector", "getConnector"}
    /\ IF ~Active(rows, r.row) THEN Answered(s, 404)
       ELSE IF r.kind = "getConnector" THEN Answered(s, 200)
       ELSE requests' = [requests EXCEPT ![s].at = "found",
               ![s].old = [evse |-> rows[r.row].evse, number |-> rows[r.row].number]]
    /\ UNCHANGED <<point, rows>>

OldIfKept(value, old) == IF value = Kept THEN old ELSE value

\* Only the EVSE is compared.
NumbersTaken_Evse(rs, evse, number, excluding) ==
    \E i \in ActiveRows(rs) \ {excluding} : rs[i].evse = evse

\* ensureConnectorNumbersAvailable; excluding: the row that is updated.
NumbersTaken(rs, evse, number, excluding) ==
    \E i \in ActiveRows(rs) \ {excluding} : rs[i].evse = evse \/ rs[i].number = number

EnsureNumbersAvailable(s) ==
    LET r == requests[s] IN
    /\ <<r.kind, r.at>> \in {<<"createConnector", "checked">>, <<"updateConnector", "found">>}
    /\ IF NumbersTaken(rows, OldIfKept(r.evse, r.old.evse), OldIfKept(r.number, r.old.number), r.row)
         THEN Answered(s, 409)
         ELSE requests' = [requests EXCEPT ![s].at = "numbered", ![s].old = Free.old]
    /\ UNCHANGED <<point, rows>>

ReadSortOrder(s) ==
    /\ requests[s].kind = "createConnector" /\ requests[s].at = "numbered"
    /\ requests' = [requests EXCEPT ![s].at = "ordered", ![s].sort = MaxSortOrder(rows) + 1]
    /\ UNCHANGED <<point, rows>>

\* A statement that the database refuses is an error of no known kind.
Statement(s, changed, status) ==
    IF TooLarge(requests[s].evse) \/ TooLarge(requests[s].number) \/ IndexRefuses(changed)
      THEN Answered(s, 500) /\ UNCHANGED rows
      ELSE Writes(s, status) /\ rows' = changed

InsertConnector(s) ==
    LET r == requests[s] IN
    /\ r.kind = "createConnector" /\ r.at = "ordered"
    /\ Statement(s, Append(rows, [evse |-> r.evse, number |-> r.number, sort |-> r.sort,
                                  deleted |-> FALSE, raced |-> r.overtaken]), 201)
    /\ UNCHANGED point

UpdateConnectorRow(s) ==
    LET r == requests[s]
        changed == IF ~Active(rows, r.row) THEN rows
                   ELSE [rows EXCEPT ![r.row].evse = OldIfKept(r.evse, @),
                                     ![r.row].number = OldIfKept(r.number, @)]
    IN
    /\ r.kind = "updateConnector" /\ r.at = "numbered"
    /\ IF Active(rows, r.row) \/ TooLarge(r.evse) \/ TooLarge(r.number)
         THEN Statement(s, changed, 200)
         ELSE Answered(s, 404) /\ UNCHANGED rows
    /\ UNCHANGED point

DeleteConnector(s) ==
    LET r == requests[s] IN
    /\ r.kind = "deleteConnector" /\ r.at = "found"
    /\ rows' = IF Active(rows, r.row) THEN [rows EXCEPT ![r.row].deleted = TRUE] ELSE rows
    /\ Writes(s, 204)
    /\ UNCHANGED point

UpdatePoint(s) ==
    /\ requests[s].kind = "updatePoint" /\ requests[s].at = "checked"
    /\ IF point = "active" THEN Continues(s, "written") ELSE Answered(s, 404)
    /\ UNCHANGED <<point, rows>>

\* One transaction; a second deletion takes the connectors that are there then.
DeletePoint(s) ==
    /\ requests[s].kind = "deletePoint" /\ requests[s].at = "checked"
    /\ point' = "deleted"
    /\ rows' = [i \in DOMAIN rows |-> [rows[i] EXCEPT !.deleted = TRUE]]
    /\ Writes(s, 204)

\* The point has been read one query before.
ReadConnectors(s) ==
    /\ <<requests[s].kind, requests[s].at>> \in
          {<<"listConnectors", "checked">>, <<"readPoint", "checked">>, <<"updatePoint", "written">>}
    /\ requests' = [requests EXCEPT ![s] =
                       [Answer(@, 200) EXCEPT !.seen = ListActiveConnectors(rows)]]
    /\ UNCHANGED <<point, rows>>

Leaves(s) ==
    /\ requests[s].at = "answered"
    /\ requests' = [requests EXCEPT ![s] = Free]
    /\ UNCHANGED <<point, rows>>

Next ==
    \/ CreatePoint
    \/ \E s \in Slots :
          \/ CheckPoint(s) \/ RefuseAddress(s) \/ FindConnector(s) \/ EnsureNumbersAvailable(s)
          \/ ReadSortOrder(s) \/ InsertConnector(s) \/ UpdateConnectorRow(s)
          \/ DeleteConnector(s) \/ UpdatePoint(s) \/ DeletePoint(s)
          \/ ReadConnectors(s) \/ Leaves(s)

Spec == Init /\ [][Next]_vars

----------------------------------------------------------------------------
(* What a start makes of the connectors it has read. *)

\* toEvses: grouped by EVSE, in the order of the EVSEs.
ToEvses(seen) ==
    LET numbers == {seen[i].evse : i \in DOMAIN seen}
        Of(evse) == {i \in DOMAIN seen : seen[i].evse = evse}
        ids == Listing(numbers, Ascending(numbers))
        Connectors(evse) ==
            [k \in 1 .. Cardinality(Of(evse)) |->
                [id |-> seen[Listing(Of(evse), Ascending(Of(evse)))[k]].number,
                 ratings |-> {}]]
    IN  [k \in 1 .. Cardinality(numbers) |->
            [id |-> ids[k], connectors |-> Connectors(ids[k])]]

\* What the constructors of the device model and the runtime demand.
RuntimeAccepts(evses) ==
    /\ PointAccepted([evses |-> evses])
    /\ \A i \in DOMAIN evses :
          /\ EvseAccepted(evses[i])
          /\ \A j \in DOMAIN evses[i].connectors : ConnectorAccepted(evses[i].connectors[j])
    /\ Ocpp16Projection([evses |-> evses])

\* A start never fails because of what was stored: whatever creations, updates
\* and deletions overlap, the connectors that one query reads make a point with
\* one connector per EVSE and no number twice.
StoredPointsStart ==
    \A s \in Slots :
        requests[s].kind = "readPoint" /\ requests[s].at = "answered"
            => RuntimeAccepts(ToEvses(requests[s].seen))

\* Only a request that another one overtook goes wrong: fails with an internal
\* error although its numbers can be stored, leaves a connector behind that its
\* point has not taken along, or lists its connector before an older one.
OnlyTheOvertakenErr ==
    /\ \A s \in Slots :
          requests[s].answer = 500 =>
              \/ requests[s].overtaken
              \/ TooLarge(requests[s].evse) \/ TooLarge(requests[s].number)
    /\ point = "deleted" => \A i \in ActiveRows(rows) : rows[i].raced
    /\ \A i, j \in ActiveRows(rows) : i < j => rows[i].sort < rows[j].sort \/ rows[j].raced
=============================================================================
