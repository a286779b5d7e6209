------------------------- MODULE AuthorizationProofs -------------------------
(***************************************************************************)
(* Proofs about Authorization, for any tags, EVSEs, settings and bounds.   *)
(***************************************************************************)
EXTENDS Authorization, SequenceTheorems, TLAPS

\* An answer is not the absence of one.
LEMMA AnswersFacts ==
    /\ NoEntry \notin Answers
    /\ Refusal \in Answers
    /\ Never \in 0..Never
    /\ \A a \in Answers : a = [status |-> a.status, until |-> a.until]
                          /\ a.status \in {"accepted", "refused"} /\ a.until \in 0..Never
  <1>1. Never \in Nat
    BY AuthorizationAssumption DEF Never
  <1> QED BY <1>1 DEF NoEntry, Answers, Refusal

\* A grant keeps its answer and its source apart.
LEMMA GrantsFacts ==
    /\ \A a \in Answers, s \in Sources :
         /\ GrantOf(a, s) \in Grants
         /\ AnswerOf(GrantOf(a, s)) = a
         /\ GrantOf(a, s).source = s /\ GrantOf(a, s).status = a.status
    /\ \A g \in Grants : AnswerOf(g) \in Answers /\ g.source \in Sources
    /\ NoGrant.source = "none" /\ NoGrant.status = "none" /\ "none" \notin Sources
    /\ NoGrant \notin Grants
  <1>1. ASSUME NEW a \in Answers, NEW s \in Sources
        PROVE  /\ GrantOf(a, s) \in Grants
               /\ AnswerOf(GrantOf(a, s)) = a
               /\ GrantOf(a, s).source = s /\ GrantOf(a, s).status = a.status
    <2>1. GrantOf(a, s) \in Grants
      BY DEF Grants
    <2>2. a = [status |-> a.status, until |-> a.until]
      BY AnswersFacts
    <2> QED BY <2>1, <2>2 DEF GrantOf, AnswerOf
  <1>2. ASSUME NEW g \in Grants PROVE AnswerOf(g) \in Answers /\ g.source \in Sources
    <2>1. PICK a \in Answers, s \in Sources : g = GrantOf(a, s)
      BY DEF Grants
    <2> QED BY <1>1, <2>1
  <1>3. NoGrant.source = "none" /\ NoGrant.status = "none" /\ "none" \notin Sources
    BY DEF NoGrant, Sources
  <1> QED BY <1>1, <1>2, <1>3

\* What time makes of an answer is an answer, and the same one while it is accepted.
LEMMA PresentAnswers ==
    \A a \in Answers : AtPresent(a) \in Answers
                       /\ (AtPresent(a).status = "accepted" => AtPresent(a) = a)
  BY AnswersFacts DEF AtPresent, Refusal

\* What findCachedAuthorizationGrant finds is an answer.
LEMMA CachedTyped ==
    ASSUME TypeOK, NEW k \in Keys PROVE Cached(k) \in Answers \cup {NoEntry}
  <1>1. cache[k] \in Answers \cup {NoEntry} /\ grants[k] \in Grants \cup {NoGrant}
    BY DEF TypeOK
  <1>2. grants[k].source = "cache" => grants[k] \in Grants
    BY <1>1, GrantsFacts
  <1> QED BY <1>1, <1>2, GrantsFacts DEF Cached

\* The store decides from the list or from the cache, or not at all.
LEMMA StoredFacts ==
    ASSUME TypeOK, NEW k \in Keys
    PROVE  \/ Stored(k) = NoGrant
           \/ Stored(k) \in Grants /\ Stored(k).source = "local-list"
           \/ /\ Stored(k) \in Grants /\ Stored(k).source = "cache"
              /\ Cached(k) # NoEntry
              /\ Stored(k).status = "accepted" => AnswerOf(Stored(k)) = Cached(k)
  <1>1. CASE "LocalAuthListEnabled" \in enabled /\ entries[k[1]] # NoEntry
    <2>1. entries[k[1]] \in Answers
      BY <1>1 DEF TypeOK, Keys
    <2>2. Stored(k) = GrantOf(AtPresent(entries[k[1]]), "local-list")
      BY <1>1 DEF Stored
    <2>3. "local-list" \in Sources
      BY DEF Sources
    <2> QED BY <2>1, <2>2, <2>3, PresentAnswers, GrantsFacts
  <1>2. CASE /\ ~("LocalAuthListEnabled" \in enabled /\ entries[k[1]] # NoEntry)
             /\ "AuthorizationCacheEnabled" \in enabled /\ Cached(k) # NoEntry
    <2>1. Cached(k) \in Answers
      BY <1>2, CachedTyped
    <2>2. Stored(k) = GrantOf(AtPresent(Cached(k)), "cache")
      BY <1>2 DEF Stored
    <2>3. "cache" \in Sources
      BY DEF Sources
    <2> QED BY <1>2, <2>1, <2>2, <2>3, PresentAnswers, GrantsFacts
  <1>3. CASE /\ ~("LocalAuthListEnabled" \in enabled /\ entries[k[1]] # NoEntry)
             /\ ~("AuthorizationCacheEnabled" \in enabled /\ Cached(k) # NoEntry)
    BY <1>3 DEF Stored
  <1> QED BY <1>1, <1>2, <1>3

\* So does the point offline, or by its default policy.
LEMMA OfflineFacts ==
    ASSUME TypeOK, NEW k \in Keys
    PROVE  \/ OfflineDecision(k) = NoGrant
           \/ OfflineDecision(k) = Stored(k)
           \/ OfflineDecision(k) \in Grants /\ OfflineDecision(k).source = "default-policy"
  <1>1. [status |-> "accepted", until |-> Never] \in Answers
    BY AnswersFacts DEF Answers
  <1>2. GrantOf([status |-> "accepted", until |-> Never], "default-policy")
          = [status |-> "accepted", until |-> Never, source |-> "default-policy"]
    BY DEF GrantOf
  <1>3. "default-policy" \in Sources
    BY DEF Sources
  <1>4. [status |-> "accepted", until |-> Never, source |-> "default-policy"] \in Grants
    BY <1>1, <1>2, <1>3, GrantsFacts
  <1> QED BY <1>4 DEF OfflineDecision

\* A local decision is a grant that does not come from the CSMS.
LocalGrant(k, g) == g = Stored(k) \/ g = OfflineDecision(k)

\* What the point may accept by itself.
LEMMA LocalFacts ==
    ASSUME TypeOK, NEW k \in Keys, NEW g, LocalGrant(k, g), g.status = "accepted"
    PROVE  /\ g \in Grants /\ g.source # "online"
           /\ g.source = "cache" => Cached(k) # NoEntry /\ AnswerOf(g) = Cached(k)
  BY StoredFacts, OfflineFacts, GrantsFacts DEF LocalGrant

\* Recording a grant keeps the types of the stores.
LEMMA RecordTyped ==
    ASSUME TypeOK, NEW k \in Keys, NEW g \in Grants, RecordGrant(k, g)
    PROVE  /\ grants' \in [Keys -> Grants \cup {NoGrant}]
           /\ cache' \in [Keys -> Answers \cup {NoEntry}]
  BY GrantsFacts DEF TypeOK, RecordGrant

\* Absorbing an answer keeps the types of the stores.
LEMMA AbsorbTyped ==
    ASSUME TypeOK, NEW k \in Keys, NEW a \in Answers, Absorb(k, a)
    PROVE  /\ grants' \in [Keys -> Grants \cup {NoGrant}]
           /\ cache' \in [Keys -> Answers \cup {NoEntry}]
           /\ heard' \in [Keys -> SUBSET Answers]
  <1>1. GrantOf(a, "online") \in Grants
    BY GrantsFacts DEF Sources
  <1>2. heard' \in [Keys -> SUBSET Answers]
    BY DEF Absorb, TypeOK
  <1> QED BY <1>1, <1>2, RecordTyped DEF Absorb

\* So does accepting locally, and the word stays a word.
LEMMA AcceptTyped ==
    ASSUME TypeOK, NEW k \in Keys, NEW g, LocalGrant(k, g), AcceptLocally(k, g)
    PROVE  /\ grants' \in [Keys -> Grants \cup {NoGrant}]
           /\ cache' \in [Keys -> Answers \cup {NoEntry}]
           /\ heard' \in [Keys -> SUBSET Answers]
           /\ word' \in [Keys -> Words]
  <1>1. g \in Grants
    BY LocalFacts DEF AcceptLocally
  <1>2. word' \in [Keys -> Words] /\ heard' = heard
    BY DEF AcceptLocally, TypeOK, Words
  <1> QED BY <1>1, <1>2, RecordTyped DEF AcceptLocally, TypeOK

\* Reviews that are superseded remain requests.
LEMMA SupersededTyped ==
    ASSUME flights \in Seq(Flights), NEW k
    PROVE  Superseded(k) \in Seq(Flights) /\ Len(Superseded(k)) = Len(flights)
  <1>0. \A i \in 1..Len(flights) : flights[i] \in Flights
    BY ElementOfSeq
  <1>1. \A i \in 1..Len(flights) : [flights[i] EXCEPT !.current = FALSE] \in Flights
    BY <1>0 DEF Flights
  <1>2. \A i \in 1..Len(flights) : Superseded(k)[i] \in Flights
    BY <1>0, <1>1 DEF Superseded
  <1>3. DOMAIN Superseded(k) = 1..Len(flights)
    BY DEF Superseded
  <1>4. Superseded(k) = [i \in 1..Len(flights) |-> Superseded(k)[i]]
    BY DEF Superseded
  <1> QED BY <1>2, <1>3, <1>4

\* A request that is made is one.
LEMMA FlightTyped ==
    ASSUME NEW kind \in {"authorize", "review", "start", "replay"}, NEW k \in Keys
    PROVE  Flight(kind, k) \in Flights
           /\ \A x \in Slots : [Flight(kind, k) EXCEPT !.slot = x] \in Flights
  BY DEF Flight, Flights

\* Transactions begin and end as transactions.
LEMMA TransactionsTyped ==
    ASSUME TypeOK
    PROVE  /\ \A k \in Keys, known \in BOOLEAN :
                Begin(k, known) => transactions' \in [Slots -> Transactions \cup {NoTransaction}]
           /\ \A x \in Slots : transactions[x].state = "running" =>
                /\ transactions[x] \in Transactions
                /\ Ended(transactions[x]) \in Transactions \cup {NoTransaction}
  <1>1. ASSUME NEW k \in Keys, NEW known \in BOOLEAN, Begin(k, known)
        PROVE  transactions' \in [Slots -> Transactions \cup {NoTransaction}]
    BY <1>1 DEF Begin, TypeOK, Transactions
  <1>2. ASSUME NEW x \in Slots, transactions[x].state = "running"
        PROVE  /\ transactions[x] \in Transactions
               /\ Ended(transactions[x]) \in Transactions \cup {NoTransaction}
    <2>1. transactions[x] \in Transactions
      BY <1>2 DEF TypeOK, NoTransaction
    <2> QED BY <2>1 DEF Ended, Transactions
  <1> QED BY <1>1, <1>2

\* An absent transaction does not become known.
LEMMA AbsentStaysAbsent == [NoTransaction EXCEPT !.known = TRUE] = NoTransaction
  BY DEF NoTransaction

\* What the replay makes of a transaction is a transaction or none.
LEMMA ReplayedTyped ==
    ASSUME TypeOK, NEW k, NEW x, NEW a, ReplayAnswered(k, x, a)
    PROVE  transactions' \in [Slots -> Transactions \cup {NoTransaction}]
  <1> DEFINE tx == [transactions[x] EXCEPT !.known = TRUE]
             next == IF tx.state = "ended"
                        \/ (a.status = "refused" /\ "StopTransactionOnInvalidId" \in enabled)
                     THEN NoTransaction ELSE tx
  <1>1. transactions' = [transactions EXCEPT ![x] = next]
    BY DEF ReplayAnswered
  <1>2. CASE x \in Slots
    <2>1. transactions[x] \in Transactions \cup {NoTransaction}
      BY <1>2 DEF TypeOK
    <2>2. tx \in Transactions \cup {NoTransaction}
      BY <2>1, AbsentStaysAbsent DEF Transactions
    <2>3. next \in Transactions \cup {NoTransaction}
      BY <2>2
    <2> HIDE DEF next
    <2> QED BY <1>1, <1>2, <2>3 DEF TypeOK
  <1>3. CASE x \notin Slots
    <2> HIDE DEF next
    <2> QED BY <1>1, <1>3 DEF TypeOK
  <1> QED BY <1>2, <1>3

\* Whatever the CSMS answers, the types hold.
LEMMA AnsweredTyped ==
    ASSUME TypeOK, NEW answer \in Answers, Answered(answer)
    PROVE  TypeOK'
  <1> DEFINE f == Head(flights)
  <1>1. f \in Flights /\ flights' \in Seq(Flights)
    BY HeadTailProperties DEF Answered, TypeOK
  <1>2. f.key \in Keys
    BY <1>1 DEF Flights
  <1>3. UNCHANGED <<connected, registered, now, enabled, version, entries>>
    BY DEF Answered, linkVars, listVars
  <1>4. AtPresent(answer) \in Answers
    BY PresentAnswers
  <1>5. \A a : Said(a) \in Words
    BY DEF Said, Words
  <1> HIDE DEF f
  <1>6. CASE f.kind = "authorize" /\ AuthorizeAnswered(f.key, answer)
    <2>1. Absorb(f.key, AtPresent(answer)) /\ UNCHANGED <<transactions, overlapped>>
          /\ word' = [word EXCEPT ![f.key] = Said(AtPresent(answer))]
      BY <1>6 DEF AuthorizeAnswered
    <2>2. word' \in [Keys -> Words]
      BY <2>1, <1>5 DEF TypeOK
    <2> QED BY <1>1, <1>2, <1>3, <1>4, <2>1, <2>2, AbsorbTyped DEF TypeOK
  <1>7. CASE f.kind = "review" /\ ReviewAnswered(f.key, f.current, answer)
    <2>1. CASE ~f.current
      <3>1. UNCHANGED <<grants, cache, heard, transactions, word, overlapped>>
        BY <1>7, <2>1 DEF ReviewAnswered, storeVars, txVars
      <3> QED BY <1>1, <1>3, <3>1 DEF TypeOK
    <2>2. CASE f.current
      <3>1. Absorb(f.key, AtPresent(answer)) /\ UNCHANGED overlapped
        BY <1>7, <2>2 DEF ReviewAnswered
      <3>2. \/ word' = [word EXCEPT ![f.key] = "review refuses"] /\ StopForReview(f.key)
            \/ word' = [word EXCEPT ![f.key] = "csms accepts"] /\ UNCHANGED transactions
        BY <1>7, <2>2 DEF ReviewAnswered
      <3>3. word' \in [Keys -> Words]
        BY <3>2 DEF TypeOK, Words
      <3>4. transactions' \in [Slots -> Transactions \cup {NoTransaction}]
        <4>1. \A x \in RunningOf(f.key) :
                Ended(transactions[x]) \in Transactions \cup {NoTransaction}
          BY TransactionsTyped DEF RunningOf
        <4>2. \/ UNCHANGED transactions
              \/ \E x \in RunningOf(f.key) :
                   transactions' = [transactions EXCEPT ![x] = Ended(transactions[x])]
          BY <3>2 DEF StopForReview
        <4> QED BY <4>1, <4>2 DEF RunningOf, TypeOK
      <3> QED BY <1>1, <1>2, <1>3, <1>4, <3>1, <3>3, <3>4, AbsorbTyped DEF TypeOK
    <2> QED BY <2>1, <2>2
  <1>8. CASE f.kind = "start" /\ StartAnswered(f.key, answer)
    <2>1. Absorb(f.key, answer) /\ UNCHANGED overlapped
          /\ word' = [word EXCEPT ![f.key] = Said(answer)]
          /\ (Begin(f.key, TRUE) \/ UNCHANGED transactions)
      BY <1>8 DEF StartAnswered
    <2>2. word' \in [Keys -> Words]
      BY <2>1, <1>5 DEF TypeOK
    <2>3. transactions' \in [Slots -> Transactions \cup {NoTransaction}]
      BY <1>2, <2>1, TransactionsTyped DEF TypeOK
    <2> QED BY <1>1, <1>2, <1>3, <2>1, <2>2, <2>3, AbsorbTyped DEF TypeOK
  <1>9. CASE f.kind = "replay" /\ ReplayAnswered(f.key, f.slot, answer)
    <2>1. Absorb(f.key, answer) /\ UNCHANGED overlapped
          /\ word' = [word EXCEPT ![f.key] = Said(answer)]
      BY <1>9 DEF ReplayAnswered
    <2>2. word' \in [Keys -> Words]
      BY <2>1, <1>5 DEF TypeOK
    <2>3. transactions' \in [Slots -> Transactions \cup {NoTransaction}]
      BY <1>9, ReplayedTyped
    <2> QED BY <1>1, <1>2, <1>3, <2>1, <2>2, <2>3, AbsorbTyped DEF TypeOK
  <1> QED BY <1>6, <1>7, <1>8, <1>9 DEF Answered, f

\* The types, by steps.
LEMMA TypeInductive == TypeOK /\ [Next]_vars => TypeOK'
  <1> SUFFICES ASSUME TypeOK, [Next]_vars PROVE TypeOK'
    OBVIOUS
  <1> USE DEF linkVars, listVars, storeVars, txVars
  <1>0. flights \in Seq(Flights)
    BY DEF TypeOK
  <1>1. ASSUME NEW k \in Keys, AuthorizeOffline(k) PROVE TypeOK'
    <2>1. flights' \in Seq(Flights)
      BY <1>0, <1>1, SupersededTyped DEF AuthorizeOffline
    <2>2. CASE AcceptLocally(k, OfflineDecision(k))
      BY <1>1, <2>1, <2>2, AcceptTyped DEF AuthorizeOffline, TypeOK, LocalGrant
    <2>3. CASE UNCHANGED <<grants, cache, heard, word>>
      BY <1>1, <2>1, <2>3 DEF AuthorizeOffline, TypeOK
    <2> QED BY <1>1, <2>2, <2>3 DEF AuthorizeOffline
  <1>2. ASSUME NEW k \in Keys, PreAuthorize(k) PROVE TypeOK'
    <2>1. flights' \in Seq(Flights)
      BY <1>0, <1>2, SupersededTyped, FlightTyped, AppendProperties DEF PreAuthorize
    <2> QED BY <1>2, <2>1, AcceptTyped DEF PreAuthorize, TypeOK, LocalGrant
  <1>3. ASSUME NEW k \in Keys, AskCsms(k) PROVE TypeOK'
    <2>1. flights' \in Seq(Flights)
      BY <1>0, <1>3, SupersededTyped, FlightTyped, AppendProperties DEF AskCsms
    <2> QED BY <1>3, <2>1 DEF AskCsms, TypeOK
  <1>4. ASSUME NEW k \in Keys, StartOffline(k) PROVE TypeOK'
    <2>1. transactions' \in [Slots -> Transactions \cup {NoTransaction}]
      BY <1>4, TransactionsTyped DEF StartOffline
    <2>2. overlapped' \subseteq Evses
      BY <1>4 DEF StartOffline, TypeOK, Keys
    <2> QED BY <1>4, <2>1, <2>2, AcceptTyped DEF StartOffline, TypeOK, LocalGrant
  <1>5. ASSUME NEW k \in Keys, NEW remote \in BOOLEAN, StartOnline(k, remote) PROVE TypeOK'
    <2>1. flights' \in Seq(Flights)
      BY <1>0, <1>5, FlightTyped, AppendProperties DEF StartOnline
    <2>2. overlapped' \subseteq Evses
      BY <1>5 DEF StartOnline, TypeOK, Keys
    <2> QED BY <1>5, <2>1, <2>2 DEF StartOnline, TypeOK
  <1>6. ASSUME NEW x \in Slots, Stop(x) PROVE TypeOK'
    <2>1. transactions' \in [Slots -> Transactions \cup {NoTransaction}]
      BY <1>6, TransactionsTyped DEF Stop, TypeOK
    <2> QED BY <1>6, <2>1 DEF Stop, TypeOK
  <1>7. ASSUME NEW x \in Slots, Replay(x) PROVE TypeOK'
    <2>1. transactions[x].key \in Keys
      BY <1>7 DEF Replay, Unknown, TypeOK, Transactions
    <2>2. flights' \in Seq(Flights)
      BY <1>0, <1>7, <2>1, FlightTyped, AppendProperties DEF Replay
    <2> QED BY <1>7, <2>2 DEF Replay, TypeOK
  <1>8. ASSUME NEW answer \in Answers, Answered(answer) PROVE TypeOK'
    BY <1>8, AnsweredTyped
  <1>9. ASSUME RequestFails PROVE TypeOK'
    BY <1>0, <1>9, HeadTailProperties DEF RequestFails, TypeOK
  <1>10. ASSUME ClearCache PROVE TypeOK'
    <2>1. grants' \in [Keys -> Grants \cup {NoGrant}]
      BY <1>10 DEF ClearCache, ClearedGrants, TypeOK
    <2> QED BY <1>10, <2>1 DEF ClearCache, TypeOK
  <1>11. ASSUME NEW full \in BOOLEAN, NEW changed \in SUBSET Tags, NEW number \in 0..MaxVersion,
                NEW update \in [changed -> Answers \cup {NoEntry}],
                SendLocalList(full, changed, update, number)
         PROVE  TypeOK'
    <2>1. entries' \in [Tags -> Answers \cup {NoEntry}]
      BY <1>11 DEF SendLocalList, TypeOK
    <2>2. version' \in Nat
      BY <1>11, AuthorizationAssumption DEF SendLocalList
    <2> QED BY <1>11, <2>1, <2>2 DEF SendLocalList, TypeOK
  <1>12. ASSUME NEW key \in Changeable, ChangeConfiguration(key) PROVE TypeOK'
    <2>1. enabled' \subseteq SettingKeys
      BY <1>12, AuthorizationAssumption DEF ChangeConfiguration, TypeOK
    <2> QED BY <1>12, <2>1 DEF ChangeConfiguration, TypeOK
  <1>13. ASSUME ConnectionComes PROVE TypeOK'
    BY <1>13 DEF ConnectionComes, TypeOK
  <1>14. ASSUME ConnectionGoes PROVE TypeOK'
    BY <1>14, EmptySeq DEF ConnectionGoes, TypeOK
  <1>15. ASSUME NEW accepted \in BOOLEAN, BootAnswered(accepted) PROVE TypeOK'
    BY <1>15 DEF BootAnswered, TypeOK
  <1>16. ASSUME TimePasses PROVE TypeOK'
    BY <1>16, AuthorizationAssumption DEF TimePasses, TypeOK
  <1>17. CASE UNCHANGED vars
    BY <1>17 DEF vars, TypeOK
  <1> QED
    BY <1>1, <1>2, <1>3, <1>4, <1>5, <1>6, <1>7, <1>8, <1>9, <1>10, <1>11, <1>12, <1>13, <1>14,
       <1>15, <1>16, <1>17 DEF Next

\* The types hold at the start.
LEMMA TypeInit == Init => TypeOK
  <1> SUFFICES ASSUME Init PROVE TypeOK
    OBVIOUS
  <1>1. 0 \in 0..MaxTime
    BY AuthorizationAssumption
  <1>2. enabled \subseteq SettingKeys
    BY AuthorizationAssumption DEF Init
  <1>3. flights \in Seq(Flights)
    BY EmptySeq DEF Init
  <1>4. /\ entries \in [Tags -> Answers \cup {NoEntry}]
        /\ grants \in [Keys -> Grants \cup {NoGrant}]
        /\ cache \in [Keys -> Answers \cup {NoEntry}]
        /\ transactions \in [Slots -> Transactions \cup {NoTransaction}]
        /\ heard \in [Keys -> SUBSET Answers]
    BY DEF Init
  <1>5. word \in [Keys -> Words]
    BY DEF Init, Words
  <1> QED BY <1>1, <1>2, <1>3, <1>4, <1>5 DEF Init, TypeOK

\* Every variable keeps its type, whatever is answered, sent, cleared or changed
\* in whatever order.
THEOREM AuthorizationTypes == Spec => []TypeOK
  BY TypeInit, TypeInductive, PTL DEF Spec

-----------------------------------------------------------------------------
(* The cache. *)

\* Absorbing an answer of the CSMS leaves in the cache what the CSMS said.
LEMMA AbsorbKeepsCache ==
    ASSUME TypeOK, CacheIsWhatCsmsSaid, NEW k \in Keys, NEW a \in Answers, Absorb(k, a)
    PROVE  CacheIsWhatCsmsSaid'
  <1>1. "online" \in Sources
    BY DEF Sources
  <1>2. AnswerOf(GrantOf(a, "online")) = a /\ GrantOf(a, "online").source = "online"
    BY <1>1, GrantsFacts
  <1>3. /\ grants' = [grants EXCEPT ![k] = GrantOf(a, "online")]
        /\ cache' = [cache EXCEPT ![k] = a] \/ cache' = cache
        /\ heard' = [heard EXCEPT ![k] = heard[k] \cup {a}]
    BY <1>2 DEF Absorb, RecordGrant
  <1>4. ASSUME NEW j \in Keys PROVE cache'[j] # NoEntry => cache'[j] \in heard'[j]
    BY <1>3 DEF CacheIsWhatCsmsSaid, TypeOK
  <1>5. ASSUME NEW j \in Keys, grants'[j].source = "cache" PROVE cache'[j] = AnswerOf(grants'[j])
    <2>1. j # k
      BY <1>2, <1>3, <1>5 DEF TypeOK
    <2>2. grants'[j] = grants[j] /\ cache'[j] = cache[j]
      BY <1>3, <2>1 DEF TypeOK
    <2> QED BY <1>5, <2>2 DEF CacheIsWhatCsmsSaid
  <1> QED BY <1>4, <1>5 DEF CacheIsWhatCsmsSaid

\* A local decision leaves the cache alone, and a grant taken from the cache
\* agrees with it.
LEMMA AcceptKeepsCache ==
    ASSUME TypeOK, CacheIsWhatCsmsSaid, NEW k \in Keys, NEW g, LocalGrant(k, g),
           AcceptLocally(k, g)
    PROVE  CacheIsWhatCsmsSaid'
  <1>1. /\ g \in Grants /\ g.source # "online"
        /\ g.source = "cache" => Cached(k) # NoEntry /\ AnswerOf(g) = Cached(k)
    BY LocalFacts DEF AcceptLocally
  <1>2. grants' = [grants EXCEPT ![k] = g] /\ cache' = cache /\ heard' = heard
    BY <1>1 DEF AcceptLocally, RecordGrant
  <1>3. g.source = "cache" => AnswerOf(g) = cache[k]
    <2>1. CASE cache[k] # NoEntry
      BY <1>1, <2>1 DEF Cached
    <2>2. CASE cache[k] = NoEntry
      <3>1. grants[k].source # "cache"
        <4> SUFFICES ASSUME grants[k].source = "cache" PROVE FALSE
          OBVIOUS
        <4>1. grants[k] \in Grants
          BY GrantsFacts DEF TypeOK
        <4>2. cache[k] = AnswerOf(grants[k])
          BY DEF CacheIsWhatCsmsSaid
        <4> QED BY <2>2, <4>1, <4>2, GrantsFacts, AnswersFacts
      <3> QED BY <1>1, <2>2, <3>1 DEF Cached
    <2> QED BY <2>1, <2>2
  <1>4. ASSUME NEW j \in Keys, grants'[j].source = "cache" PROVE cache'[j] = AnswerOf(grants'[j])
    <2>1. CASE j = k
      BY <1>2, <1>3, <1>4, <2>1 DEF TypeOK
    <2>2. CASE j # k
      BY <1>2, <1>4, <2>2 DEF TypeOK, CacheIsWhatCsmsSaid
    <2> QED BY <2>1, <2>2
  <1> QED BY <1>2, <1>4 DEF CacheIsWhatCsmsSaid

\* What leaves the stores alone leaves the property.
LEMMA StoresKept ==
    ASSUME CacheIsWhatCsmsSaid, UNCHANGED <<grants, cache, heard>> PROVE CacheIsWhatCsmsSaid'
  BY DEF CacheIsWhatCsmsSaid

\* An answer reaches the stores as an absorbed answer, or not at all.
LEMMA AnsweredStores ==
    ASSUME TypeOK, NEW answer \in Answers, Answered(answer)
    PROVE  \/ \E k \in Keys, a \in Answers : Absorb(k, a)
           \/ UNCHANGED <<grants, cache, heard>>
  <1>1. Head(flights).key \in Keys
    <2>1. flights \in Seq(Flights) /\ flights # <<>>
      BY DEF Answered, TypeOK
    <2>2. Head(flights) \in Flights
      BY <2>1, HeadTailProperties
    <2> QED BY <2>2 DEF Flights
  <1>2. AtPresent(answer) \in Answers
    BY PresentAnswers
  <1> QED
    BY <1>1, <1>2 DEF Answered, AuthorizeAnswered, ReviewAnswered, StartAnswered, ReplayAnswered,
                      storeVars

\* The cache, by steps.
LEMMA CacheInductive ==
    TypeOK /\ CacheIsWhatCsmsSaid /\ [Next]_vars => CacheIsWhatCsmsSaid'
  <1> SUFFICES ASSUME TypeOK, CacheIsWhatCsmsSaid, [Next]_vars PROVE CacheIsWhatCsmsSaid'
    OBVIOUS
  <1> USE DEF storeVars
  <1>1. ASSUME NEW k \in Keys, AuthorizeOffline(k) PROVE CacheIsWhatCsmsSaid'
    BY <1>1, AcceptKeepsCache, StoresKept DEF AuthorizeOffline, LocalGrant
  <1>2. ASSUME NEW k \in Keys, PreAuthorize(k) PROVE CacheIsWhatCsmsSaid'
    BY <1>2, AcceptKeepsCache DEF PreAuthorize, LocalGrant
  <1>3. ASSUME NEW k \in Keys, AskCsms(k) PROVE CacheIsWhatCsmsSaid'
    BY <1>3, StoresKept DEF AskCsms
  <1>4. ASSUME NEW k \in Keys, StartOffline(k) PROVE CacheIsWhatCsmsSaid'
    BY <1>4, AcceptKeepsCache DEF StartOffline, LocalGrant
  <1>5. ASSUME NEW k \in Keys, NEW remote \in BOOLEAN, StartOnline(k, remote)
        PROVE CacheIsWhatCsmsSaid'
    BY <1>5, StoresKept DEF StartOnline
  <1>6. ASSUME NEW x \in Slots, Stop(x) PROVE CacheIsWhatCsmsSaid'
    BY <1>6, StoresKept DEF Stop
  <1>7. ASSUME NEW x \in Slots, Replay(x) PROVE CacheIsWhatCsmsSaid'
    BY <1>7, StoresKept DEF Replay
  <1>8. ASSUME NEW answer \in Answers, Answered(answer) PROVE CacheIsWhatCsmsSaid'
    BY <1>8, AnsweredStores, AbsorbKeepsCache, StoresKept
  <1>9. ASSUME RequestFails PROVE CacheIsWhatCsmsSaid'
    BY <1>9, StoresKept DEF RequestFails
  <1>10. ASSUME ClearCache PROVE CacheIsWhatCsmsSaid'
    <2>1. \A k \in Keys : cache'[k] = NoEntry /\ grants'[k].source # "cache"
      BY <1>10, GrantsFacts DEF ClearCache, ClearedGrants
    <2> QED BY <2>1 DEF CacheIsWhatCsmsSaid
  <1>11. ASSUME NEW full \in BOOLEAN, NEW changed \in SUBSET Tags, NEW number \in 0..MaxVersion,
                NEW update \in [changed -> Answers \cup {NoEntry}],
                SendLocalList(full, changed, update, number)
         PROVE  CacheIsWhatCsmsSaid'
    BY <1>11, StoresKept DEF SendLocalList
  <1>12. ASSUME NEW key \in Changeable, ChangeConfiguration(key) PROVE CacheIsWhatCsmsSaid'
    BY <1>12, StoresKept DEF ChangeConfiguration
  <1>13. ASSUME ConnectionComes \/ ConnectionGoes \/ TimePasses PROVE CacheIsWhatCsmsSaid'
    BY <1>13, StoresKept DEF ConnectionComes, ConnectionGoes, TimePasses
  <1>14. ASSUME NEW accepted \in BOOLEAN, BootAnswered(accepted) PROVE CacheIsWhatCsmsSaid'
    BY <1>14, StoresKept DEF BootAnswered
  <1>15. CASE UNCHANGED vars
    BY <1>15, StoresKept DEF vars
  <1> QED
    BY <1>1, <1>2, <1>3, <1>4, <1>5, <1>6, <1>7, <1>8, <1>9, <1>10, <1>11, <1>12, <1>13, <1>14,
       <1>15 DEF Next

\* What the cache would say of a tag, the CSMS said after the last ClearCache:
\* no local decision, list, review under way or change of a key brings anything
\* else in, and nothing survives ClearCache in a grant.
THEOREM CacheHoldsAnswers == Spec => []CacheIsWhatCsmsSaid
  <1>1. Init => CacheIsWhatCsmsSaid
    BY GrantsFacts DEF Init, CacheIsWhatCsmsSaid
  <1> QED BY <1>1, CacheInductive, AuthorizationTypes, PTL DEF Spec

-----------------------------------------------------------------------------
(* The refusal of a review. *)

RunsOn(e) == {x \in Slots : transactions[x].state = "running" /\ transactions[x].key[2] = e}
StartsOn(e) == {i \in DOMAIN flights : flights[i].kind = "start" /\ flights[i].key[2] = e}

\* Why one stop is enough: where no starts overlapped at most one transaction
\* runs, and while one start is under way none does and no other is.
StartsDoNotOverlap ==
    \A e \in Evses \ overlapped :
        /\ \A x, y \in RunsOn(e) : x = y
        /\ StartsOn(e) # {} => RunsOn(e) = {}
        /\ \A i, j \in StartsOn(e) : i = j

RefusalInv == StartsDoNotOverlap /\ ReviewRefusalStops

\* A free EVSE is one on which nothing runs.
LEMMA FreeMeansNoRun == ASSUME TypeOK, NEW e \in Evses PROVE Free(e) <=> RunsOn(e) = {}
  <1>1. ASSUME NEW x \in RunsOn(e)
        PROVE  x \in RunningOf(<<transactions[x].key[1], e>>) /\ transactions[x].key[1] \in Tags
    <2>1. transactions[x] \in Transactions
      BY <1>1 DEF RunsOn, TypeOK, NoTransaction
    <2>2. transactions[x].key \in Tags \X Evses
      BY <2>1 DEF Transactions, Keys
    <2> QED BY <1>1, <2>2 DEF RunsOn, RunningOf
  <1>2. ASSUME NEW t \in Tags, NEW x \in RunningOf(<<t, e>>) PROVE x \in RunsOn(e)
    BY <1>2 DEF RunsOn, RunningOf
  <1> QED BY <1>1, <1>2 DEF Free, Running

\* What runs for a tag runs on its EVSE.
LEMMA RunningOfRuns == \A k \in Keys : RunningOf(k) \subseteq RunsOn(k[2])
  BY DEF RunningOf, RunsOn

\* A shift is one to one.
LEMMA ShiftOneToOne == \A i, j, d \in Nat : i + d = j + d => i = j
  OBVIOUS

\* The starts that wait are those of before, d places further on.
StartsShift(d) ==
    /\ \A i \in DOMAIN flights' : i \in Nat
    /\ \A i \in DOMAIN flights' : flights'[i].kind = "start" =>
         /\ i + d \in DOMAIN flights
         /\ flights[i + d].kind = "start" /\ flights'[i].key = flights[i + d].key

\* No transaction begins, and no review refuses.
NoneBegins ==
    \A x \in Slots : transactions'[x].state = "running" =>
        transactions[x].state = "running" /\ transactions'[x].key = transactions[x].key

NoneRefuses == \A k \in Keys : word'[k] = "review refuses" => word[k] = "review refuses"

\* Where nothing begins, starts do not overlap more than they did.
LEMMA OverlapKept ==
    ASSUME StartsDoNotOverlap, overlapped \subseteq overlapped', NoneBegins,
           NEW d \in Nat, StartsShift(d)
    PROVE  StartsDoNotOverlap'
  <1> SUFFICES ASSUME NEW e \in Evses, e \notin overlapped'
               PROVE  /\ \A x, y \in RunsOn(e)' : x = y
                      /\ StartsOn(e)' # {} => RunsOn(e)' = {}
                      /\ \A i, j \in StartsOn(e)' : i = j
    BY DEF StartsDoNotOverlap
  <1>1. /\ \A x, y \in RunsOn(e) : x = y
        /\ StartsOn(e) # {} => RunsOn(e) = {}
        /\ \A i, j \in StartsOn(e) : i = j
    BY DEF StartsDoNotOverlap
  <1>2. RunsOn(e)' \subseteq RunsOn(e)
    BY DEF RunsOn, NoneBegins
  <1>3. \A i \in StartsOn(e)' : i \in Nat /\ i + d \in StartsOn(e)
    BY DEF StartsOn, StartsShift
  <1>4. \A i, j \in StartsOn(e)' : i = j
    <2> SUFFICES ASSUME NEW i \in StartsOn(e)', NEW j \in StartsOn(e)' PROVE i = j
      OBVIOUS
    <2>1. i \in Nat /\ j \in Nat /\ d \in Nat /\ i + d = j + d
      BY <1>1, <1>3
    <2> QED BY <2>1, ShiftOneToOne
  <1>5. StartsOn(e)' # {} => RunsOn(e)' = {}
    BY <1>1, <1>2, <1>3
  <1> QED BY <1>1, <1>2, <1>4, <1>5

\* Steps that begin nothing keep the invariant.
LEMMA NothingBegins ==
    ASSUME RefusalInv, overlapped \subseteq overlapped', NoneBegins, NoneRefuses,
           NEW d \in Nat, StartsShift(d)
    PROVE  RefusalInv'
  <1>1. StartsDoNotOverlap'
    BY OverlapKept DEF RefusalInv
  <1>2. ReviewRefusalStops'
    <2> SUFFICES ASSUME NEW k \in Keys, word'[k] = "review refuses", k[2] \notin overlapped'
                 PROVE  RunningOf(k)' = {}
      BY DEF ReviewRefusalStops, Running
    <2>1. RunningOf(k) = {}
      BY DEF RefusalInv, ReviewRefusalStops, Running, NoneRefuses
    <2>2. RunningOf(k)' \subseteq RunningOf(k)
      BY DEF RunningOf, NoneBegins
    <2> QED BY <2>1, <2>2
  <1> QED BY <1>1, <1>2 DEF RefusalInv

\* A transaction begins on an EVSE where nothing ran: either no start waits there
\* any more or the EVSE is one where starts overlapped, and the word about its tag
\* is not a refusal by a review.
LEMMA OneBegins ==
    ASSUME TypeOK, RefusalInv, NEW k \in Keys, NEW known \in BOOLEAN, Begin(k, known),
           overlapped \subseteq overlapped',
           k[2] \notin overlapped' => RunsOn(k[2]) = {} /\ StartsOn(k[2])' = {},
           NEW d \in Nat, StartsShift(d),
           NEW w, word' = [word EXCEPT ![k] = w], w # "review refuses"
    PROVE  RefusalInv'
  <1>1. PICK z \in Slots : transactions' = [transactions EXCEPT ![z] =
                             [state |-> "running", key |-> k, known |-> known]]
    BY DEF Begin
  <1>2. \A x \in Slots : x # z => transactions'[x] = transactions[x]
    BY <1>1 DEF TypeOK
  <1>3. transactions'[z].state = "running" /\ transactions'[z].key = k
    BY <1>1 DEF TypeOK
  <1>4. RunsOn(k[2])' \subseteq RunsOn(k[2]) \cup {z}
    BY <1>2 DEF RunsOn
  <1>5. \A e : e # k[2] => RunsOn(e)' \subseteq RunsOn(e)
    BY <1>2, <1>3 DEF RunsOn
  <1>6. \A e : \A i \in StartsOn(e)' : i \in Nat /\ i + d \in StartsOn(e)
    BY DEF StartsOn, StartsShift
  <1>7. StartsDoNotOverlap'
    <2> SUFFICES ASSUME NEW e \in Evses, e \notin overlapped'
                 PROVE  /\ \A x, y \in RunsOn(e)' : x = y
                        /\ StartsOn(e)' # {} => RunsOn(e)' = {}
                        /\ \A i, j \in StartsOn(e)' : i = j
      BY DEF StartsDoNotOverlap
    <2>1. CASE e = k[2]
      <3>1. RunsOn(e)' \subseteq {z} /\ StartsOn(e)' = {}
        BY <1>4, <2>1
      <3> QED BY <3>1
    <2>2. CASE e # k[2]
      <3>1. /\ \A x, y \in RunsOn(e) : x = y
            /\ StartsOn(e) # {} => RunsOn(e) = {}
            /\ \A i, j \in StartsOn(e) : i = j
        BY DEF RefusalInv, StartsDoNotOverlap
      <3>2. RunsOn(e)' \subseteq RunsOn(e)
        BY <1>5, <2>2
      <3>3. \A i, j \in StartsOn(e)' : i = j
        <4> SUFFICES ASSUME NEW i \in StartsOn(e)', NEW j \in StartsOn(e)' PROVE i = j
          OBVIOUS
        <4>1. i \in Nat /\ j \in Nat /\ d \in Nat /\ i + d = j + d
          BY <1>6, <3>1
        <4> QED BY <4>1, ShiftOneToOne
      <3>4. StartsOn(e)' # {} => RunsOn(e)' = {}
        BY <1>6, <3>1, <3>2
      <3> QED BY <3>1, <3>2, <3>3, <3>4
    <2> QED BY <2>1, <2>2
  <1>8. ReviewRefusalStops'
    <2> SUFFICES ASSUME NEW j \in Keys, word'[j] = "review refuses", j[2] \notin overlapped'
                 PROVE  RunningOf(j)' = {}
      BY DEF ReviewRefusalStops, Running
    <2>1. j # k
      BY DEF TypeOK
    <2>2. word[j] = "review refuses"
      BY <2>1 DEF TypeOK
    <2>3. RunningOf(j) = {}
      BY <2>2 DEF RefusalInv, ReviewRefusalStops, Running
    <2>4. RunningOf(j)' \subseteq RunningOf(j)
      BY <1>2, <1>3, <2>1 DEF RunningOf
    <2> QED BY <2>3, <2>4
  <1> QED BY <1>7, <1>8 DEF RefusalInv

\* What the steps do to the requests that wait.
LEMMA FlightsShift ==
    ASSUME TypeOK
    PROVE  /\ flights' = flights => StartsShift(0)
           /\ flights' = <<>> => StartsShift(0)
           /\ flights # <<>> /\ flights' = Tail(flights) => StartsShift(1)
           /\ \A k \in Keys : flights' = Superseded(k) => StartsShift(0)
           /\ \A k \in Keys : flights' = Append(Superseded(k), Flight("review", k)) => StartsShift(0)
           /\ \A k \in Keys : flights' = Append(Superseded(k), Flight("authorize", k)) => StartsShift(0)
           /\ \A k \in Keys, x \in Slots : flights' = Append(flights, [Flight("replay", k) EXCEPT !.slot = x])
                              => StartsShift(0)
  <1>1. flights \in Seq(Flights)
    BY DEF TypeOK
  <1>2. flights' = flights => StartsShift(0)
    BY <1>1 DEF StartsShift
  <1>3. flights' = <<>> => StartsShift(0)
    BY DEF StartsShift
  <1>4. ASSUME flights # <<>>, flights' = Tail(flights) PROVE StartsShift(1)
    <2>1. /\ Len(flights') = Len(flights) - 1 /\ flights' \in Seq(Flights)
          /\ \A i \in 1..Len(flights') : flights'[i] = flights[i + 1]
      BY <1>1, <1>4, HeadTailProperties
    <2>2. Len(flights) \in Nat /\ DOMAIN flights = 1..Len(flights)
          /\ Len(flights') \in Nat /\ DOMAIN flights' = 1..Len(flights')
      BY <1>1, <2>1, LenProperties
    <2> QED BY <2>1, <2>2 DEF StartsShift
  <1>5. ASSUME NEW k \in Keys
        PROVE  /\ Superseded(k) \in Seq(Flights)
               /\ DOMAIN Superseded(k) = DOMAIN flights
               /\ \A i \in DOMAIN flights : Superseded(k)[i].kind = flights[i].kind
                                           /\ Superseded(k)[i].key = flights[i].key
    <2>1. \A i \in DOMAIN flights : flights[i] \in Flights
      BY <1>1
    <2>2. \A f \in Flights : [f EXCEPT !.current = FALSE].kind = f.kind
                             /\ [f EXCEPT !.current = FALSE].key = f.key
      BY DEF Flights
    <2> QED BY <1>1, <2>1, <2>2, SupersededTyped DEF Superseded
  <1>6. ASSUME NEW k \in Keys, flights' = Superseded(k) PROVE StartsShift(0)
    BY <1>1, <1>5, <1>6 DEF StartsShift
  <1>7. ASSUME NEW s \in Seq(Flights), NEW f \in Flights, f.kind # "start",
               DOMAIN s = DOMAIN flights,
               \A i \in DOMAIN flights : s[i].kind = flights[i].kind /\ s[i].key = flights[i].key,
               flights' = Append(s, f)
        PROVE  StartsShift(0)
    <2>1. /\ Len(flights') = Len(s) + 1 /\ flights' \in Seq(Flights)
          /\ flights'[Len(s) + 1] = f
          /\ \A i \in 1..Len(s) : flights'[i] = s[i]
      BY <1>7, AppendProperties
    <2>2. Len(s) \in Nat /\ DOMAIN s = 1..Len(s) /\ DOMAIN flights' = 1..(Len(s) + 1)
      BY <1>7, <2>1, LenProperties
    <2>3. ASSUME NEW i \in DOMAIN flights', flights'[i].kind = "start"
          PROVE  i \in DOMAIN flights /\ flights'[i] = s[i]
      BY <1>7, <2>1, <2>2, <2>3
    <2>4. ASSUME NEW i \in DOMAIN flights', flights'[i].kind = "start"
          PROVE  /\ i + 0 \in DOMAIN flights
                 /\ flights[i + 0].kind = "start" /\ flights'[i].key = flights[i + 0].key
      <3>1. i + 0 = i
        BY <2>2
      <3> QED BY <1>7, <2>3, <2>4, <3>1
    <2> QED BY <2>2, <2>4 DEF StartsShift
  <1>8. ASSUME NEW k \in Keys, NEW kind \in {"review", "authorize"},
               flights' = Append(Superseded(k), Flight(kind, k))
        PROVE  StartsShift(0)
    <2>1. Flight(kind, k) \in Flights /\ Flight(kind, k).kind # "start"
      BY FlightTyped DEF Flight
    <2> QED BY <1>5, <1>7, <1>8, <2>1
  <1>9. ASSUME NEW k \in Keys, NEW x \in Slots,
               flights' = Append(flights, [Flight("replay", k) EXCEPT !.slot = x])
        PROVE  StartsShift(0)
    <2>1. /\ [Flight("replay", k) EXCEPT !.slot = x] \in Flights
          /\ [Flight("replay", k) EXCEPT !.slot = x].kind # "start"
      BY FlightTyped DEF Flight
    <2> QED BY <1>1, <1>7, <1>9, <2>1
  <1> QED BY <1>2, <1>3, <1>4, <1>6, <1>8, <1>9

\* An answer to StartTransaction: the start that waited is gone from the EVSE.
LEMMA StartAnsweredKeeps ==
    ASSUME TypeOK, RefusalInv, NEW answer \in Answers, flights # <<>>,
           NEW k \in Keys, k = Head(flights).key,
           Head(flights).kind = "start", StartAnswered(k, answer),
           flights' = Tail(flights)
    PROVE  RefusalInv'
  <1>1. flights \in Seq(Flights)
    BY DEF TypeOK
  <1>2. Head(flights) \in Flights /\ Head(flights) = flights[1]
    BY <1>1, HeadTailProperties
  <1>4. StartsShift(1)
    BY FlightsShift
  <1>5. word' = [word EXCEPT ![k] = Said(answer)] /\ Said(answer) # "review refuses"
        /\ overlapped' = overlapped
    BY DEF StartAnswered, Said
  <1>6. k[2] \in Evses /\ 1 \in DOMAIN flights /\ 1 \in StartsOn(k[2])
    <2>1. Len(flights) \in Nat /\ Len(flights) # 0 /\ DOMAIN flights = 1..Len(flights)
      BY <1>1, EmptySeq, LenProperties
    <2>2. 1 \in 1..Len(flights)
      BY <2>1
    <2> QED BY <1>2, <2>1, <2>2 DEF StartsOn, Keys
  <1>7. CASE Begin(k, TRUE)
    <2>1. ASSUME k[2] \notin overlapped' PROVE RunsOn(k[2]) = {} /\ StartsOn(k[2])' = {}
      <3>1. /\ StartsOn(k[2]) # {} => RunsOn(k[2]) = {}
            /\ \A i, j \in StartsOn(k[2]) : i = j
        <4>1. k[2] \in Evses /\ k[2] \notin overlapped
          BY <1>5, <1>6, <2>1
        <4> QED BY <4>1 DEF RefusalInv, StartsDoNotOverlap
      <3>2. ASSUME NEW i \in StartsOn(k[2])' PROVE FALSE
        <4>1. i \in Nat /\ i + 1 \in StartsOn(k[2])
          BY <1>4, <3>2 DEF StartsShift, StartsOn
        <4>2. i + 1 = 1 /\ i \in DOMAIN flights'
          BY <1>6, <3>1, <3>2, <4>1 DEF StartsOn
        <4>3. flights' \in Seq(Flights)
          BY <1>1, HeadTailProperties
        <4>4. i \in 1..Len(flights') /\ Len(flights') \in Nat
          BY <4>2, <4>3, LenProperties
        <4> QED BY <4>1, <4>2, <4>4
      <3> QED BY <1>6, <3>1, <3>2
    <2> QED BY <1>4, <1>5, <1>7, <2>1, OneBegins
  <1>8. CASE UNCHANGED transactions
    <2>1. NoneBegins
      BY <1>8 DEF NoneBegins
    <2>2. NoneRefuses
      BY <1>5 DEF NoneRefuses, TypeOK
    <2> QED BY <1>4, <1>5, <2>1, <2>2, NothingBegins
  <1> QED BY <1>7, <1>8 DEF StartAnswered

\* A review that refuses leaves no transaction of the tag running.
LEMMA ReviewStopsAll ==
    ASSUME TypeOK, StartsDoNotOverlap, NEW k \in Keys, StopForReview(k)
    PROVE  NoneBegins /\ (k[2] \notin overlapped => RunningOf(k)' = {})
  <1>1. CASE ~Running(k)
    <2>1. transactions' = transactions
      BY <1>1 DEF StopForReview
    <2> QED BY <1>1, <2>1 DEF NoneBegins, Running, RunningOf
  <1>2. CASE Running(k)
    <2>1. PICK x \in RunningOf(k) :
            transactions' = [transactions EXCEPT ![x] = Ended(transactions[x])]
      BY <1>2 DEF StopForReview
    <2>2. x \in Slots /\ transactions[x] \in Transactions
      BY <2>1 DEF RunningOf, TypeOK, NoTransaction
    <2>3. Ended(transactions[x]).state # "running"
      BY <2>2 DEF Ended, NoTransaction, Transactions
    <2>4. transactions'[x].state # "running"
          /\ \A y \in Slots : y # x => transactions'[y] = transactions[y]
      BY <2>1, <2>2, <2>3 DEF TypeOK
    <2>5. ASSUME k[2] \notin overlapped PROVE RunningOf(k)' = {}
      <3>1. k[2] \in Evses
        BY DEF Keys
      <3>2. \A y, z \in RunsOn(k[2]) : y = z
        BY <2>5, <3>1 DEF StartsDoNotOverlap
      <3>3. \A y \in RunningOf(k) : y = x
        BY <2>1, <3>2, RunningOfRuns
      <3> QED BY <2>4, <3>3 DEF RunningOf
    <2> QED BY <2>4, <2>5 DEF NoneBegins
  <1> QED BY <1>1, <1>2

\* The continuation of a review.
LEMMA ReviewAnsweredKeeps ==
    ASSUME TypeOK, RefusalInv, NEW answer \in Answers, flights # <<>>,
           NEW k \in Keys, NEW current, ReviewAnswered(k, current, answer),
           flights' = Tail(flights)
    PROVE  RefusalInv'
  <1>2. StartsShift(1)
    BY FlightsShift
  <1>3. overlapped' = overlapped
    BY DEF ReviewAnswered, txVars
  <1>4. CASE UNCHANGED transactions /\ (word' = [word EXCEPT ![k] = "csms accepts"] \/ word' = word)
    <2>1. NoneBegins
      BY <1>4 DEF NoneBegins
    <2>2. NoneRefuses
      BY <1>4 DEF NoneRefuses, TypeOK
    <2> QED BY <1>2, <1>3, <2>1, <2>2, NothingBegins
  <1>5. CASE StopForReview(k) /\ word' = [word EXCEPT ![k] = "review refuses"]
    <2>1. NoneBegins /\ (k[2] \notin overlapped => RunningOf(k)' = {})
      BY <1>5, ReviewStopsAll DEF RefusalInv
    <2>2. StartsDoNotOverlap'
      BY <1>2, <1>3, <2>1, OverlapKept DEF RefusalInv
    <2>3. ReviewRefusalStops'
      <3> SUFFICES ASSUME NEW j \in Keys, word'[j] = "review refuses", j[2] \notin overlapped'
                   PROVE  RunningOf(j)' = {}
        BY DEF ReviewRefusalStops, Running
      <3>1. CASE j = k
        BY <1>3, <2>1, <3>1
      <3>2. CASE j # k
        <4>1. word[j] = "review refuses"
          BY <1>5, <3>2 DEF TypeOK
        <4>2. RunningOf(j) = {}
          BY <1>3, <4>1 DEF RefusalInv, ReviewRefusalStops, Running
        <4> QED BY <2>1, <4>2 DEF RunningOf, NoneBegins
      <3> QED BY <3>1, <3>2
    <2> QED BY <2>2, <2>3 DEF RefusalInv
  <1> QED BY <1>4, <1>5 DEF ReviewAnswered, txVars

\* Whatever the CSMS answers.
LEMMA AnsweredKeepsRefusals ==
    ASSUME TypeOK, RefusalInv, NEW answer \in Answers, Answered(answer)
    PROVE  RefusalInv'
  <1> DEFINE f == Head(flights)
  <1>1. flights # <<>> /\ flights' = Tail(flights)
    BY DEF Answered
  <1>2. StartsShift(1)
    BY <1>1, FlightsShift
  <1>k. PICK k \in Keys : k = f.key
    <2>1. flights \in Seq(Flights)
      BY DEF TypeOK
    <2>2. f \in Flights
      BY <1>1, <2>1, HeadTailProperties
    <2> QED BY <2>2 DEF Flights
  <1>3. CASE f.kind = "authorize" /\ AuthorizeAnswered(f.key, answer)
    <2>1. NoneBegins /\ overlapped' = overlapped
      BY <1>3 DEF AuthorizeAnswered, NoneBegins
    <2>2. NoneRefuses
      BY <1>3 DEF AuthorizeAnswered, NoneRefuses, Said, TypeOK
    <2> QED BY <1>2, <2>1, <2>2, NothingBegins
  <1>4. CASE f.kind = "review" /\ ReviewAnswered(f.key, f.current, answer)
    BY <1>1, <1>4, <1>k, ReviewAnsweredKeeps
  <1>5. CASE f.kind = "start" /\ StartAnswered(f.key, answer)
    BY <1>1, <1>5, <1>k, StartAnsweredKeeps
  <1>6. CASE f.kind = "replay" /\ ReplayAnswered(f.key, f.slot, answer)
    <2>1. NoneRefuses /\ overlapped' = overlapped
      BY <1>6 DEF ReplayAnswered, NoneRefuses, Said, TypeOK
    <2>2. NoneBegins
      <3> DEFINE x == f.slot
                 tx == [transactions[x] EXCEPT !.known = TRUE]
                 next == IF tx.state = "ended"
                            \/ (answer.status = "refused" /\ "StopTransactionOnInvalidId" \in enabled)
                         THEN NoTransaction ELSE tx
      <3>1. transactions' = [transactions EXCEPT ![x] = next]
        BY <1>6 DEF ReplayAnswered
      <3>2. ASSUME NEW y \in Slots, transactions'[y].state = "running"
            PROVE  transactions[y].state = "running" /\ transactions'[y].key = transactions[y].key
        <4>1. CASE y # x
          <5> HIDE DEF next
          <5> QED BY <3>1, <3>2, <4>1 DEF TypeOK
        <4>2. CASE y = x
          <5>1. transactions'[y] = next
            <6> HIDE DEF next
            <6> QED BY <3>1, <4>2 DEF TypeOK
          <5>2. transactions[y] \in Transactions \/ transactions[y] = NoTransaction
            BY DEF TypeOK
          <5>3. transactions[y] = NoTransaction => next.state # "running"
            BY <4>2, AbsentStaysAbsent DEF NoTransaction
          <5>4. transactions[y] \in Transactions => tx.state = transactions[y].state
                                                   /\ tx.key = transactions[y].key
            BY <4>2 DEF Transactions
          <5>5. next = NoTransaction \/ next = tx
            OBVIOUS
          <5> QED BY <3>2, <5>1, <5>2, <5>3, <5>4, <5>5 DEF NoTransaction
        <4> QED BY <4>1, <4>2
      <3> QED BY <3>2 DEF NoneBegins
    <2> QED BY <1>2, <2>1, <2>2, NothingBegins
  <1> QED BY <1>3, <1>4, <1>5, <1>6 DEF Answered

\* A start that waits for the CSMS: it is the only one, or the EVSE is marked.
LEMMA StartOnlineKeeps ==
    ASSUME TypeOK, RefusalInv, NEW k \in Keys, NEW remote \in BOOLEAN, StartOnline(k, remote)
    PROVE  RefusalInv'
  <1>1. /\ Free(k[2]) /\ flights' = Append(flights, Flight("start", k))
        /\ transactions' = transactions /\ word' = word /\ overlapped \subseteq overlapped'
        /\ k[2] \notin overlapped' => ~StartUnderWay(k[2])
    BY DEF StartOnline
  <1>2. /\ Flight("start", k) \in Flights /\ Flight("start", k).key = k
        /\ k[2] \in Evses /\ flights \in Seq(Flights)
    BY FlightTyped DEF Flight, Keys, TypeOK
  <1>3. /\ DOMAIN flights = 1..Len(flights) /\ DOMAIN flights' = 1..(Len(flights) + 1)
        /\ flights'[Len(flights) + 1] = Flight("start", k) /\ Len(flights) \in Nat
        /\ \A i \in 1..Len(flights) : flights'[i] = flights[i]
    BY <1>1, <1>2, AppendProperties, LenProperties
  <1>4. \A e : StartsOn(e)' \subseteq StartsOn(e) \cup {Len(flights) + 1}
    BY <1>3 DEF StartsOn
  <1>5. \A e : e # k[2] => StartsOn(e)' \subseteq StartsOn(e)
    BY <1>2, <1>3 DEF StartsOn
  <1>6. \A e : RunsOn(e)' = RunsOn(e)
    BY <1>1 DEF RunsOn
  <1>7. StartsDoNotOverlap'
    <2> SUFFICES ASSUME NEW e \in Evses, e \notin overlapped'
                 PROVE  /\ \A x, y \in RunsOn(e)' : x = y
                        /\ StartsOn(e)' # {} => RunsOn(e)' = {}
                        /\ \A i, j \in StartsOn(e)' : i = j
      BY DEF StartsDoNotOverlap
    <2>1. /\ \A x, y \in RunsOn(e) : x = y
          /\ StartsOn(e) # {} => RunsOn(e) = {}
          /\ \A i, j \in StartsOn(e) : i = j
      BY <1>1 DEF RefusalInv, StartsDoNotOverlap
    <2>2. CASE e = k[2]
      <3>1. StartsOn(e) = {}
        BY <1>1, <2>2 DEF StartUnderWay, StartsOn
      <3>2. RunsOn(e)' = {} /\ StartsOn(e)' \subseteq {Len(flights) + 1}
        BY <1>1, <1>2, <1>4, <1>6, <2>2, <3>1, FreeMeansNoRun
      <3> QED BY <3>2
    <2>3. CASE e # k[2]
      BY <1>5, <1>6, <2>1, <2>3
    <2> QED BY <2>2, <2>3
  <1>8. ReviewRefusalStops'
    BY <1>1 DEF RefusalInv, ReviewRefusalStops, Running, RunningOf
  <1> QED BY <1>7, <1>8 DEF RefusalInv

\* The refusals, by steps.
LEMMA RefusalInductive == TypeOK /\ RefusalInv /\ [Next]_vars => RefusalInv'
  <1> SUFFICES ASSUME TypeOK, RefusalInv, [Next]_vars PROVE RefusalInv'
    OBVIOUS
  <1> USE DEF txVars
  <1>a. UNCHANGED transactions => NoneBegins
    BY DEF NoneBegins
  <1>b. UNCHANGED word => NoneRefuses
    BY DEF NoneRefuses
  <1>c. \A k \in Keys : \A g : AcceptLocally(k, g) => NoneRefuses
    BY DEF NoneRefuses, AcceptLocally, TypeOK
  <1>1. ASSUME NEW k \in Keys, AuthorizeOffline(k) PROVE RefusalInv'
    <2>1. StartsShift(0) /\ NoneBegins /\ NoneRefuses
      BY <1>1, <1>a, <1>b, <1>c, FlightsShift DEF AuthorizeOffline
    <2> QED BY <1>1, <2>1, NothingBegins DEF AuthorizeOffline
  <1>2. ASSUME NEW k \in Keys, PreAuthorize(k) PROVE RefusalInv'
    <2>1. StartsShift(0) /\ NoneBegins /\ NoneRefuses
      BY <1>2, <1>a, <1>c, FlightsShift DEF PreAuthorize
    <2> QED BY <1>2, <2>1, NothingBegins DEF PreAuthorize
  <1>3. ASSUME NEW k \in Keys, AskCsms(k) PROVE RefusalInv'
    <2>1. StartsShift(0) /\ NoneBegins /\ NoneRefuses
      BY <1>3, <1>a, <1>b, FlightsShift DEF AskCsms
    <2> QED BY <1>3, <2>1, NothingBegins DEF AskCsms
  <1>4. ASSUME NEW k \in Keys, StartOffline(k) PROVE RefusalInv'
    <2>1. k[2] \in Evses /\ RunsOn(k[2]) = {}
      BY <1>4, FreeMeansNoRun DEF StartOffline, Keys
    <2>2. StartsShift(0) /\ flights' = flights
      BY <1>4, FlightsShift DEF StartOffline
    <2>3. overlapped \subseteq overlapped'
          /\ (k[2] \notin overlapped' => ~StartUnderWay(k[2]))
      BY <1>4 DEF StartOffline
    <2>4. ~StartUnderWay(k[2]) => StartsOn(k[2])' = {}
      BY <2>2 DEF StartUnderWay, StartsOn
    <2>5. word' = [word EXCEPT ![k] = "point accepts"] /\ Begin(k, FALSE)
      BY <1>4 DEF StartOffline, AcceptLocally
    <2> QED BY <2>1, <2>2, <2>3, <2>4, <2>5, OneBegins
  <1>5. ASSUME NEW k \in Keys, NEW remote \in BOOLEAN, StartOnline(k, remote) PROVE RefusalInv'
    BY <1>5, StartOnlineKeeps
  <1>6. ASSUME NEW x \in Slots, Stop(x) PROVE RefusalInv'
    <2>1. Ended(transactions[x]).state # "running"
      BY <1>6 DEF Ended, NoTransaction, Transactions, Stop, TypeOK
    <2>2. NoneBegins
      BY <1>6, <2>1 DEF NoneBegins, Stop, TypeOK
    <2>3. StartsShift(0) /\ NoneRefuses /\ overlapped' = overlapped
      BY <1>6, <1>b, FlightsShift DEF Stop
    <2> QED BY <2>2, <2>3, NothingBegins
  <1>7. ASSUME NEW x \in Slots, Replay(x) PROVE RefusalInv'
    <2>1. transactions[x].key \in Keys
      BY <1>7 DEF Replay, Unknown, TypeOK, Transactions
    <2>2. StartsShift(0) /\ NoneBegins /\ NoneRefuses /\ overlapped' = overlapped
      BY <1>7, <1>a, <1>b, <2>1, FlightsShift DEF Replay
    <2> QED BY <2>2, NothingBegins
  <1>8. ASSUME NEW answer \in Answers, Answered(answer) PROVE RefusalInv'
    BY <1>8, AnsweredKeepsRefusals
  <1>9. ASSUME RequestFails PROVE RefusalInv'
    <2>1. StartsShift(1) /\ NoneBegins /\ NoneRefuses /\ overlapped' = overlapped
      BY <1>9, <1>a, <1>b, FlightsShift DEF RequestFails
    <2> QED BY <2>1, NothingBegins
  <1>10. ASSUME UNCHANGED txVars, flights' = flights \/ flights' = <<>> PROVE RefusalInv'
    <2>1. StartsShift(0) /\ NoneBegins /\ NoneRefuses /\ overlapped' = overlapped
      BY <1>10, <1>a, <1>b, FlightsShift
    <2> QED BY <2>1, NothingBegins
  <1>11. ASSUME NEW full \in BOOLEAN, NEW changed \in SUBSET Tags, NEW number \in 0..MaxVersion,
                NEW update \in [changed -> Answers \cup {NoEntry}],
                SendLocalList(full, changed, update, number)
         PROVE  RefusalInv'
    BY <1>10, <1>11 DEF SendLocalList
  <1>12. ASSUME NEW key \in Changeable, ChangeConfiguration(key) PROVE RefusalInv'
    BY <1>10, <1>12 DEF ChangeConfiguration
  <1>13. ASSUME ClearCache \/ ConnectionComes \/ ConnectionGoes \/ TimePasses PROVE RefusalInv'
    BY <1>10, <1>13 DEF ClearCache, ConnectionComes, ConnectionGoes, TimePasses
  <1>14. ASSUME NEW accepted \in BOOLEAN, BootAnswered(accepted) PROVE RefusalInv'
    BY <1>10, <1>14 DEF BootAnswered
  <1>15. CASE UNCHANGED vars
    BY <1>10, <1>15 DEF vars
  <1> QED
    BY <1>1, <1>2, <1>3, <1>4, <1>5, <1>6, <1>7, <1>8, <1>9, <1>11, <1>12, <1>13, <1>14, <1>15
       DEF Next

\* A tag whose local acceptance the CSMS refused in its review does not charge
\* until somebody accepts it again, however reviews, starts, stops and replays
\* interleave, on every EVSE where no two starts overlapped.
THEOREM RefusedTagsDoNotCharge == Spec => []ReviewRefusalStops
  <1>1. Init => RefusalInv
    BY DEF Init, RefusalInv, StartsDoNotOverlap, ReviewRefusalStops, RunsOn, StartsOn, Running,
           RunningOf, NoTransaction
  <1>2. RefusalInv => ReviewRefusalStops
    BY DEF RefusalInv
  <1> QED BY <1>1, <1>2, RefusalInductive, AuthorizationTypes, PTL DEF Spec

=============================================================================
