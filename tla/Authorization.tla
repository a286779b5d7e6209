---------------------------- MODULE Authorization ----------------------------
(***************************************************************************)
(* Who may charge: Ocpp16AuthorizationPolicy, the action authorize with    *)
(* its review in the background, the authorization of starts, and the      *)
(* commands SendLocalList, ClearCache and ChangeConfiguration as far as    *)
(* they decide about idTags.                                               *)
(*                                                                         *)
(* Requests wait in the queue of SessionMessaging, so they are answered in *)
(* the order they were made and fail together when the connection is lost. *)
(* A microtask runs before the next event, so the continuation of a        *)
(* request is the event that settles it.  An EVSE has one connector; that  *)
(* it is plugged and in service is the subject of ConnectorOperations, and *)
(* a start or an authorization refused for that reason changes nothing     *)
(* here.  Of a status only "accepted" or not matters, and parent tags do   *)
(* not decide anything.                                                    *)
(***************************************************************************)
EXTENDS Naturals, Sequences, FiniteSets

CONSTANTS
    Tags, Evses,
    InitialSettings,   \* the configuration keys that are "true" at first
    Changeable,        \* the keys the CSMS changes
    LocalAuthListMaxLength,
    MaxTime,           \* bounds on time, list versions and requests that wait
    MaxVersion,
    MaxFlights,
    Slots,             \* transactions that are remembered
    NoSlot

SettingKeys == {"LocalAuthListEnabled", "AuthorizationCacheEnabled", "LocalAuthorizeOffline",
                "LocalPreAuthorize", "AllowOfflineTxForUnknownId", "StopTransactionOnInvalidId"}

ASSUME AuthorizationAssumption ==
    /\ IsFiniteSet(Tags)
    /\ InitialSettings \subseteq SettingKeys /\ Changeable \subseteq SettingKeys
    /\ LocalAuthListMaxLength \in Nat /\ MaxTime \in Nat /\ MaxVersion \in Nat
    /\ MaxFlights \in Nat /\ NoSlot \notin Slots

Keys == Tags \X Evses

Never == MaxTime   \* a validity without an end

\* What the CSMS or the list says of a tag; how long it refuses does not matter.
Refusal == [status |-> "refused", until |-> Never]
Answers == [status : {"accepted"}, until : 0..Never] \cup {Refusal}

NoEntry == [status |-> "none", until |-> Never]
NoGrant == [status |-> "none", until |-> Never, source |-> "none"]

Sources == {"online", "local-list", "cache", "default-policy"}

AnswerOf(grant) == [status |-> grant.status, until |-> grant.until]
GrantOf(answer, source) == [status |-> answer.status, until |-> answer.until, source |-> source]

Grants == {GrantOf(answer, source) : answer \in Answers, source \in Sources}

VARIABLES
    connected, registered,
    now,           \* context.clock()
    enabled,       \* the configuration keys that are "true"
    version,       \* localAuthorizationList
    entries,
    grants,        \* authorizationGrants
    cache,         \* authorizationCache
    flights,       \* the requests queued or in flight, and who awaits them
    transactions,  \* the transactions that run or that the CSMS does not know
    \* What a reader of the log would know:
    heard,         \* the answers given for a key since the last ClearCache
    word,          \* who spoke last about a key, and how
    overlapped     \* EVSEs on which two starts overlapped

linkVars == <<connected, registered, now>>
listVars == <<version, entries>>
storeVars == <<grants, cache, heard>>
txVars == <<transactions, word, overlapped>>
vars == <<linkVars, enabled, listVars, storeVars, flights, txVars>>

Flights == [kind : {"authorize", "review", "start", "replay"}, key : Keys, current : BOOLEAN,
            slot : Slots \cup {NoSlot}]

Flight(kind, k) == [kind |-> kind, key |-> k, current |-> TRUE, slot |-> NoSlot]

Transactions == [state : {"running", "ended"}, key : Keys, known : BOOLEAN]
NoTransaction == [state |-> "none"]

Words == {"none", "csms accepts", "csms refuses", "review refuses", "point accepts"}

TypeOK ==
    /\ connected \in BOOLEAN /\ registered \in BOOLEAN /\ now \in 0..MaxTime
    /\ enabled \subseteq SettingKeys
    /\ version \in Nat
    /\ entries \in [Tags -> Answers \cup {NoEntry}]
    /\ grants \in [Keys -> Grants \cup {NoGrant}]
    /\ cache \in [Keys -> Answers \cup {NoEntry}]
    /\ flights \in Seq(Flights)
    /\ transactions \in [Slots -> Transactions \cup {NoTransaction}]
    /\ heard \in [Keys -> SUBSET Answers]
    /\ word \in [Keys -> Words]
    /\ overlapped \subseteq Evses

Init ==
    /\ connected = FALSE /\ registered = FALSE /\ now = 0
    /\ enabled = InitialSettings
    /\ version = 0
    /\ entries = [t \in Tags |-> NoEntry]
    /\ grants = [k \in Keys |-> NoGrant]
    /\ cache = [k \in Keys |-> NoEntry]
    /\ flights = <<>>
    /\ transactions = [x \in Slots |-> NoTransaction]
    /\ heard = [k \in Keys |-> {}]
    /\ word = [k \in Keys |-> "none"]
    /\ overlapped = {}

-----------------------------------------------------------------------------
(* The policy. *)

\* isRegisteredSessionOnline.
Online == connected /\ registered

\* An answer as evaluated now: what is past its validity is refused.
AtPresent(answer) ==
    IF answer.status = "accepted" /\ answer.until < now
    THEN Refusal ELSE answer

\* findCachedAuthorizationGrant.
Cached(k) ==
    IF cache[k] # NoEntry THEN cache[k]
    ELSE IF grants[k].source = "cache" THEN AnswerOf(grants[k])
    ELSE NoEntry

\* validateStoredAuthorization: the local list decides before the cache.
Stored(k) ==
    IF "LocalAuthListEnabled" \in enabled /\ entries[k[1]] # NoEntry
    THEN GrantOf(AtPresent(entries[k[1]]), "local-list")
    ELSE IF "AuthorizationCacheEnabled" \in enabled /\ Cached(k) # NoEntry
    THEN GrantOf(AtPresent(Cached(k)), "cache")
    ELSE NoGrant

\* validateOfflineAuthorization.
OfflineDecision(k) ==
    IF "LocalAuthorizeOffline" \notin enabled THEN NoGrant
    ELSE IF Stored(k) # NoGrant THEN Stored(k)
    ELSE IF "AllowOfflineTxForUnknownId" \in enabled
    THEN [status |-> "accepted", until |-> Never, source |-> "default-policy"]
    ELSE NoGrant

\* Mutant: a local decision is cached too.
RecordGrant_CachesAny(k, grant) ==
    /\ grants' = [grants EXCEPT ![k] = grant]
    /\ cache' = IF "AuthorizationCacheEnabled" \in enabled /\ entries[k[1]] = NoEntry
                THEN [cache EXCEPT ![k] = AnswerOf(grant)] ELSE cache

\* recordAuthorizationGrant: only what the CSMS says of a tag that is not on
\* the local list is cached.
RecordGrant(k, grant) ==
    /\ grants' = [grants EXCEPT ![k] = grant]
    /\ cache' = IF /\ grant.source = "online"
                   /\ "AuthorizationCacheEnabled" \in enabled
                   /\ entries[k[1]] = NoEntry
                THEN [cache EXCEPT ![k] = AnswerOf(grant)] ELSE cache

\* The CSMS's answer for k is absorbed as its grant.
Absorb(k, answer) ==
    /\ RecordGrant(k, GrantOf(answer, "online"))
    /\ heard' = [heard EXCEPT ![k] = @ \cup {answer}]

\* The point decides for k by itself and accepts.
AcceptLocally(k, grant) ==
    /\ grant.status = "accepted"
    /\ RecordGrant(k, grant)
    /\ word' = [word EXCEPT ![k] = "point accepts"]
    /\ UNCHANGED heard

\* clearCache: the cache and the grants taken from it go, others stay.
ClearedGrants == [k \in Keys |-> IF grants[k].source = "cache" THEN NoGrant ELSE grants[k]]

-----------------------------------------------------------------------------
(* authorize. *)

RunningOf(k) == {x \in Slots : transactions[x].state = "running" /\ transactions[x].key = k}
Running(k) == RunningOf(k) # {}

\* Neither an authorization nor a start goes on where a transaction has not ended.
Free(e) == \A t \in Tags : ~Running(<<t, e>>)

\* beginAuthorizeAttempt: reviews of earlier attempts for k are superseded.
Superseded(k) ==
    [i \in DOMAIN flights |-> IF flights[i].key = k /\ flights[i].kind = "review"
                              THEN [flights[i] EXCEPT !.current = FALSE] ELSE flights[i]]

\* authorize of a point that is not online and registered.
AuthorizeOffline(k) ==
    /\ ~Online
    /\ Free(k[2])
    /\ flights' = Superseded(k)
    /\ \/ AcceptLocally(k, OfflineDecision(k))
       \/ /\ OfflineDecision(k).status # "accepted"
          /\ UNCHANGED <<grants, cache, heard, word>>
    /\ UNCHANGED <<linkVars, enabled, listVars, transactions, overlapped>>

PreAuthorizes(k) == "LocalPreAuthorize" \in enabled /\ Stored(k).status = "accepted"

\* authorize online with LocalPreAuthorize: the store accepts, the CSMS reviews
\* in the background.
PreAuthorize(k) ==
    /\ Online
    /\ Free(k[2])
    /\ PreAuthorizes(k)
    /\ Len(flights) < MaxFlights
    /\ AcceptLocally(k, Stored(k))
    /\ flights' = Append(Superseded(k), Flight("review", k))
    /\ UNCHANGED <<linkVars, enabled, listVars, transactions, overlapped>>

\* authorize online that waits for the CSMS.
AskCsms(k) ==
    /\ Online
    /\ Free(k[2])
    /\ ~PreAuthorizes(k)
    /\ Len(flights) < MaxFlights
    /\ flights' = Append(Superseded(k), Flight("authorize", k))
    /\ UNCHANGED <<linkVars, enabled, listVars, storeVars, txVars>>

-----------------------------------------------------------------------------
(* Starts and stops. *)

StartUnderWay(e) == \E i \in DOMAIN flights : flights[i].kind = "start" /\ flights[i].key[2] = e

\* validateAcceptedAuthorization.
Granted(k) == grants[k].status = "accepted" /\ now <= grants[k].until

\* startTransaction online, by the user, who needs a grant, or by the CSMS.
StartOnline(k, remote) ==
    /\ Online
    /\ Free(k[2])
    /\ remote \/ Granted(k)
    /\ Len(flights) < MaxFlights
    /\ flights' = Append(flights, Flight("start", k))
    /\ overlapped' = IF StartUnderWay(k[2]) THEN overlapped \cup {k[2]} ELSE overlapped
    /\ UNCHANGED <<linkVars, enabled, listVars, storeVars, transactions, word>>

\* createActiveTransaction.
Begin(k, known) ==
    \E x \in Slots :
        /\ transactions[x] = NoTransaction
        /\ transactions' = [transactions EXCEPT ![x] =
                              [state |-> "running", key |-> k, known |-> known]]

\* startTransaction that the point decides by itself.
StartOffline(k) ==
    /\ ~Online
    /\ Free(k[2])
    /\ AcceptLocally(k, OfflineDecision(k))
    /\ Begin(k, FALSE)
    /\ overlapped' = IF StartUnderWay(k[2]) THEN overlapped \cup {k[2]} ELSE overlapped
    /\ UNCHANGED <<linkVars, enabled, listVars, flights>>

\* A transaction that ended is remembered until the CSMS knows it.
Ended(tx) == IF tx.known THEN NoTransaction ELSE [tx EXCEPT !.state = "ended"]

Stop(x) ==
    /\ transactions[x].state = "running"
    /\ transactions' = [transactions EXCEPT ![x] = Ended(@)]
    /\ UNCHANGED <<linkVars, enabled, listVars, storeVars, flights, word, overlapped>>

Unknown == {x \in Slots : transactions[x] # NoTransaction /\ ~transactions[x].known}

\* The replay asks for one of the transactions the CSMS does not know.
Replay(x) ==
    /\ Online
    /\ x \in Unknown
    /\ \A i \in DOMAIN flights : flights[i].kind # "replay"
    /\ Len(flights) < MaxFlights
    /\ flights' = Append(flights, [Flight("replay", transactions[x].key) EXCEPT !.slot = x])
    /\ UNCHANGED <<linkVars, enabled, listVars, storeVars, txVars>>

-----------------------------------------------------------------------------
(* What the CSMS answers. *)

Said(answer) == IF answer.status = "accepted" THEN "csms accepts" ELSE "csms refuses"

\* authorizeCore after its await: the answer is absorbed whether or not another
\* attempt was made meanwhile.
AuthorizeAnswered(k, answer) ==
    /\ Absorb(k, AtPresent(answer))
    /\ word' = [word EXCEPT ![k] = Said(AtPresent(answer))]
    /\ UNCHANGED <<transactions, overlapped>>

\* Mutant: the refusal is recorded, the transaction goes on.
StopForReview_GoesOn(k) == UNCHANGED transactions

\* stopActiveTransactionForRejectedAuthorization: one of them is found and ends.
StopForReview(k) ==
    IF Running(k)
    THEN \E x \in RunningOf(k) : transactions' = [transactions EXCEPT ![x] = Ended(@)]
    ELSE UNCHANGED transactions

\* reconcileAuthorizeInBackground after its await.
ReviewAnswered(k, current, answer) ==
    IF current
    THEN /\ Absorb(k, AtPresent(answer))
         /\ IF AtPresent(answer).status = "refused"
            THEN /\ StopForReview(k)
                 /\ word' = [word EXCEPT ![k] = "review refuses"]
            ELSE /\ word' = [word EXCEPT ![k] = "csms accepts"]
                 /\ UNCHANGED transactions
         /\ UNCHANGED overlapped
    ELSE UNCHANGED <<storeVars, txVars>>

\* startTransaction after its await; here a validity that is over does not refuse.
StartAnswered(k, answer) ==
    /\ Absorb(k, answer)
    /\ word' = [word EXCEPT ![k] = Said(answer)]
    /\ \/ answer.status = "accepted" /\ Begin(k, TRUE)
       \/ answer.status = "refused" /\ UNCHANGED transactions
    /\ UNCHANGED overlapped

\* replayOfflineTransactions after StartTransaction, with recordDeauthorizedStop.
ReplayAnswered(k, x, answer) ==
    /\ Absorb(k, answer)
    /\ word' = [word EXCEPT ![k] = Said(answer)]
    /\ LET tx == [transactions[x] EXCEPT !.known = TRUE]
           stops == answer.status = "refused" /\ "StopTransactionOnInvalidId" \in enabled
       IN transactions' = [transactions EXCEPT ![x] =
            IF tx.state = "ended" \/ stops THEN NoTransaction ELSE tx]
    /\ UNCHANGED overlapped

Answered(answer) ==
    /\ connected
    /\ flights # <<>>
    /\ LET f == Head(flights)
       IN \/ f.kind = "authorize" /\ AuthorizeAnswered(f.key, answer)
          \/ f.kind = "review" /\ ReviewAnswered(f.key, f.current, answer)
          \/ f.kind = "start" /\ StartAnswered(f.key, answer)
          \/ f.kind = "replay" /\ ReplayAnswered(f.key, f.slot, answer)
    /\ flights' = Tail(flights)
    /\ UNCHANGED <<linkVars, enabled, listVars>>

\* An error or a timeout: nothing is absorbed.
RequestFails ==
    /\ flights # <<>>
    /\ flights' = Tail(flights)
    /\ UNCHANGED <<linkVars, enabled, listVars, storeVars, txVars>>

-----------------------------------------------------------------------------
(* Commands, the connection and time. *)

ClearCache ==
    /\ connected
    /\ grants' = ClearedGrants
    /\ cache' = [k \in Keys |-> NoEntry]
    /\ heard' = [k \in Keys |-> {}]
    /\ UNCHANGED <<linkVars, enabled, listVars, flights, txVars>>

Listed(list) == {t \in Tags : list[t] # NoEntry}

\* handleSendLocalList of an update that is accepted; one that is refused
\* changes nothing.  NoEntry deletes; of two entries for a tag the last counts.
SendLocalList(full, changed, update, number) ==
    /\ connected
    /\ "LocalAuthListEnabled" \in enabled
    /\ full => \A t \in changed : update[t] # NoEntry
    /\ ~full => number > version
    /\ LET list == [t \in Tags |-> IF t \in changed THEN update[t]
                                   ELSE IF full THEN NoEntry ELSE entries[t]]
       IN /\ Cardinality(Listed(list)) <= LocalAuthListMaxLength
          /\ entries' = list
    /\ version' = number
    /\ UNCHANGED <<linkVars, enabled, storeVars, flights, txVars>>

ChangeConfiguration(key) ==
    /\ connected
    /\ enabled' = IF key \in enabled THEN enabled \ {key} ELSE enabled \cup {key}
    /\ UNCHANGED <<linkVars, listVars, storeVars, flights, txVars>>

ConnectionComes ==
    /\ ~connected
    /\ connected' = TRUE
    /\ UNCHANGED <<registered, now, enabled, listVars, storeVars, flights, txVars>>

\* All requests that wait fail; their continuations change nothing.
ConnectionGoes ==
    /\ connected
    /\ connected' = FALSE
    /\ flights' = <<>>
    /\ UNCHANGED <<registered, now, enabled, listVars, storeVars, txVars>>

\* A BootNotification is answered, the first or one the CSMS triggered.
BootAnswered(accepted) ==
    /\ connected
    /\ registered' = accepted
    /\ UNCHANGED <<connected, now, enabled, listVars, storeVars, flights, txVars>>

TimePasses ==
    /\ now < MaxTime
    /\ now' = now + 1
    /\ UNCHANGED <<connected, registered, enabled, listVars, storeVars, flights, txVars>>

Next ==
    \/ \E k \in Keys : AuthorizeOffline(k) \/ PreAuthorize(k) \/ AskCsms(k) \/ StartOffline(k)
    \/ \E k \in Keys, remote \in BOOLEAN : StartOnline(k, remote)
    \/ \E x \in Slots : Stop(x) \/ Replay(x)
    \/ \E answer \in Answers : Answered(answer)
    \/ RequestFails
    \/ ClearCache
    \/ \E full \in BOOLEAN, changed \in SUBSET Tags, number \in 0..MaxVersion :
         \E update \in [changed -> Answers \cup {NoEntry}] :
           SendLocalList(full, changed, update, number)
    \/ \E key \in Changeable : ChangeConfiguration(key)
    \/ ConnectionComes \/ ConnectionGoes
    \/ \E accepted \in BOOLEAN : BootAnswered(accepted)
    \/ TimePasses

Spec == Init /\ [][Next]_vars

-----------------------------------------------------------------------------

\* Nothing but the CSMS fills the cache, and ClearCache empties it for good: what
\* the cache would say of a tag, through an entry or through a grant taken from
\* it, the CSMS said after the last ClearCache.  Local decisions, reviews under
\* way and changes of the configuration do not bring anything else in.
CacheIsWhatCsmsSaid ==
    \A k \in Keys :
        /\ cache[k] # NoEntry => cache[k] \in heard[k]
        /\ grants[k].source = "cache" => cache[k] = AnswerOf(grants[k])

\* A tag that was accepted locally and then refused by the review of that
\* decision does not charge: not until the CSMS accepts it or the point, out of
\* reach of the CSMS, accepts it again.  Two starts that overlapped on the EVSE
\* are the exception, only one of them is stopped.
ReviewRefusalStops ==
    \A k \in Keys :
        word[k] = "review refuses" /\ k[2] \notin overlapped => ~Running(k)

=============================================================================
