------------------------- MODULE HeartbeatLoopProofs -------------------------
(***************************************************************************)
(* What changes of the configuration keep, for every catalog, and what the *)
(* heartbeat loops do whatever changes, stops and answers come in between. *)
(***************************************************************************)
EXTENDS HeartbeatLoop, FiniteSetTheorems, SequenceTheorems, TLAPS

-----------------------------------------------------------------------------
(* Configuration *)

\* Values whose text is in D, and the entries over them.
ValuesOf(D) == [form : {"text", "boolean", "integer"}, text : D, number : Int, plain : BOOLEAN]
EntriesOf(K, D, S, T) ==
    [key : K, selector : S, value : ValuesOf(D), readonly : BOOLEAN,
     valueType : {"string", "boolean", "integer"}, rebootRequired : BOOLEAN,
     minValue : SUBSET Int, maxValue : SUBSET Int, updatedAt : SUBSET T]

\* The value of an entry is one that it accepts, spelled plainly.
Stored(e) == Accepts(e, e.value) /\ NormalizeValue(e, e.value) = e.value

\* The catalog is what its constructor lets through.
Consistent(cat) ==
    /\ \A k \in DOMAIN cat : KeyOf(cat[k]) = k /\ Stored(cat[k])
    /\ CatalogAccepted(Entries(cat))

\* Everything of an entry but its value and its date.
SameEntry(e, f) ==
    /\ f.key = e.key
    /\ f.selector = e.selector
    /\ f.readonly = e.readonly
    /\ f.valueType = e.valueType
    /\ f.rebootRequired = e.rebootRequired
    /\ f.minValue = e.minValue
    /\ f.maxValue = e.maxValue

\* What a catalog becomes by replacing values.
SameKeys(cat, next) ==
    /\ DOMAIN next = DOMAIN cat
    /\ \A k \in DOMAIN cat : SameEntry(cat[k], next[k])

----------------------------------------------------------------------------
\* applyValue: the entry keeps all but value and date, takes the value that
\* was asked for, and stores an accepted one plainly.
LEMMA ApplyValueKeeps ==
    ASSUME NEW K, NEW D, NEW S, NEW T,
           NEW e \in EntriesOf(K, D, S, T), NEW v \in ValuesOf(D), NEW at \in T
    PROVE  LET next == ApplyValue(e, v, at).entry
           IN  /\ next \in EntriesOf(K, D, S, T)
               /\ SameEntry(e, next)
               /\ next.value = NormalizeValue(e, v)
               /\ Accepts(e, v) => Stored(next)
<1> DEFINE n == NormalizeValue(e, v)
<1>1. /\ n \in ValuesOf(D)
      /\ n.form = v.form /\ n.number = v.number
      /\ e.valueType # "string" => n.plain = TRUE
  BY DEF NormalizeValue, Plainly, ValuesOf, EntriesOf
<1> DEFINE f == [e EXCEPT !.value = n, !.updatedAt = {at}]
<1>2. /\ f \in EntriesOf(K, D, S, T)
      /\ SameEntry(e, f)
      /\ f.value = n
  <2>1. {at} \in SUBSET T
    OBVIOUS
  <2> QED BY <1>1, <2>1 DEF EntriesOf, SameEntry
<1>3. NormalizeValue(e, n) = n
  <2>1. CASE e.valueType = "string"
    BY <2>1 DEF NormalizeValue
  <2>2. CASE e.valueType # "string"
    <3>1. Plainly(n) = n
      BY <1>1, <2>2 DEF Plainly, ValuesOf
    <3> QED BY <2>2, <3>1 DEF NormalizeValue
  <2> QED BY <2>1, <2>2
<1>4. Accepts(e, v) => Accepts(e, n)
  BY <1>1 DEF Accepts
<1>5. ASSUME NEW g \in EntriesOf(K, D, S, T), SameEntry(e, g), g.value = n,
             Accepts(e, v)
      PROVE  Stored(g)
  <2>1. Accepts(g, g.value)
    BY <1>4, <1>5 DEF Accepts, SameEntry
  <2>2. NormalizeValue(g, g.value) = g.value
    BY <1>3, <1>5 DEF NormalizeValue, SameEntry
  <2> QED BY <2>1, <2>2 DEF Stored
<1>6. CASE n = e.value
  <2>1. ApplyValue(e, v, at).entry = e
    BY <1>6 DEF ApplyValue
  <2>2. SameEntry(e, e)
    BY DEF SameEntry
  <2> QED BY <1>5, <1>6, <2>1, <2>2
<1>7. CASE n # e.value
  <2>1. ApplyValue(e, v, at).entry = f
    BY <1>7 DEF ApplyValue
  <2> QED BY <1>2, <1>5, <2>1
<1> QED BY <1>6, <1>7

\* What a change asked for by the CSMS answers is what it did: a rejected
\* one, and every one of a read-only entry, leaves the entry as it was; an
\* accepted one stores the value that was asked for.
LEMMA ChangeEntryKeeps ==
    ASSUME NEW K, NEW D, NEW S, NEW T,
           NEW e \in EntriesOf(K, D, S, T), NEW v \in ValuesOf(D), NEW at \in T
    PROVE  LET result == ChangeEntry(e, v, at)
           IN  /\ result.entry \in EntriesOf(K, D, S, T)
               /\ SameEntry(e, result.entry)
               /\ Stored(e) => Stored(result.entry)
               /\ e.readonly => result.status = "rejected"
               /\ result.status \in {"accepted", "rejected", "reboot-required"}
               /\ result.status = "rejected" => result.entry = e
               /\ result.status # "rejected" =>
                    result.entry.value = NormalizeValue(e, v)
<1>1. CASE e.readonly \/ ~Accepts(e, v)
  <2>1. ChangeEntry(e, v, at) = [entry |-> e, status |-> "rejected"]
    BY <1>1 DEF ChangeEntry
  <2> QED BY <2>1 DEF SameEntry
<1>2. CASE ~(e.readonly \/ ~Accepts(e, v))
  <2>1. ChangeEntry(e, v, at) = ApplyValue(e, v, at)
    BY <1>2 DEF ChangeEntry
  <2>2. ApplyValue(e, v, at).status \in {"accepted", "reboot-required"}
    BY DEF ApplyValue
  <2> QED BY <1>2, <2>1, <2>2, ApplyValueKeeps
<1> QED BY <1>1, <1>2

\* replaceEntry with an entry that differs in value and date only keeps the
\* catalog consistent.
LEMMA ReplaceEntryKeeps ==
    ASSUME NEW K, NEW D, NEW S, NEW T, NEW keys,
           NEW cat \in [keys -> EntriesOf(K, D, S, T)], Consistent(cat),
           NEW key \in keys, NEW f \in EntriesOf(K, D, S, T),
           SameEntry(cat[key], f), Stored(f)
    PROVE  /\ ReplaceEntry(cat, f) \in [keys -> EntriesOf(K, D, S, T)]
           /\ ReplaceEntry(cat, f)[key] = f
           /\ \A k \in keys \ {key} : ReplaceEntry(cat, f)[k] = cat[k]
           /\ SameKeys(cat, ReplaceEntry(cat, f))
           /\ Consistent(ReplaceEntry(cat, f))
<1> DEFINE next == ReplaceEntry(cat, f)
<1>1. KeyOf(f) = key
  <2>1. KeyOf(cat[key]) = key
    BY DEF Consistent
  <2> QED BY <2>1 DEF KeyOf, SameEntry
<1>2. next = [k \in keys |-> IF k = key THEN f ELSE cat[k]]
  BY <1>1 DEF ReplaceEntry
<1>3. next \in [keys -> EntriesOf(K, D, S, T)]
  BY <1>2
<1>4. SameKeys(cat, next)
  <2>1. \A k \in keys : SameEntry(cat[k], next[k])
    BY <1>2 DEF SameEntry
  <2> QED BY <1>2, <2>1 DEF SameKeys
<1>5. \A k \in keys : /\ KeyOf(next[k]) = k
                      /\ SelectorId(next[k].selector) = SelectorId(cat[k].selector)
                      /\ Stored(next[k])
  <2> SUFFICES ASSUME NEW k \in keys
               PROVE  /\ KeyOf(next[k]) = k
                      /\ SelectorId(next[k].selector) = SelectorId(cat[k].selector)
                      /\ Stored(next[k])
    OBVIOUS
  <2>1. CASE k = key
    <3>1. next[k] = f
      BY <1>2, <2>1
    <3> QED BY <1>1, <2>1, <3>1 DEF SameEntry
  <2>2. CASE k # key
    <3>1. next[k] = cat[k]
      BY <1>2, <2>2
    <3> QED BY <3>1 DEF Consistent
  <2> QED BY <2>1, <2>2
<1>6. CatalogAccepted(Entries(next))
  <2>1. \A j, k \in keys : SelectorId(cat[j].selector) = SelectorId(cat[k].selector)
                           => j = k
    <3> SUFFICES ASSUME NEW j \in keys, NEW k \in keys,
                        SelectorId(cat[j].selector) = SelectorId(cat[k].selector)
                 PROVE  j = k
      OBVIOUS
    <3>1. cat[j] \in Entries(cat) /\ cat[k] \in Entries(cat)
      BY DEF Entries
    <3>2. cat[j] = cat[k]
      BY <3>1 DEF Consistent, CatalogAccepted
    <3>3. KeyOf(cat[j]) = j /\ KeyOf(cat[k]) = k
      BY DEF Consistent
    <3> QED BY <3>2, <3>3
  <2>2. Entries(next) = {next[k] : k \in keys}
    BY <1>2 DEF Entries
  <2> QED BY <1>5, <2>1, <2>2 DEF CatalogAccepted
<1> QED
  <2>1. next[key] = f /\ \A k \in keys \ {key} : next[k] = cat[k]
    BY <1>2
  <2>2. DOMAIN next = keys
    BY <1>2
  <2> QED BY <1>3, <1>4, <1>5, <1>6, <2>1, <2>2 DEF Consistent

\* ChangeConfiguration, whatever key and value the CSMS names: the catalog
\* stays consistent, no entry is added, lost or changed but in its value,
\* those that are read-only keep theirs, and the catalog differs only when
\* the change is answered as done.
THEOREM ChangeKeepsCatalog ==
    ASSUME NEW K, NEW D, NEW S, NEW T, NEW keys,
           NEW cat \in [keys -> EntriesOf(K, D, S, T)], Consistent(cat),
           NEW key, NEW v \in ValuesOf(D), NEW at \in T
    PROVE  LET result == ChangeValue(cat, key, v, at)
           IN  /\ result.catalog \in [keys -> EntriesOf(K, D, S, T)]
               /\ Consistent(result.catalog)
               /\ SameKeys(cat, result.catalog)
               /\ \A k \in keys : k # key \/ cat[k].readonly =>
                    result.catalog[k] = cat[k]
               /\ result.status \in {"rejected", "not-supported"} =>
                    result.catalog = cat
               /\ result.status \notin {"rejected", "not-supported"} =>
                    /\ key \in keys
                    /\ result.catalog[key].value = NormalizeValue(cat[key], v)
<1>1. SameKeys(cat, cat)
  BY DEF SameKeys, SameEntry
<1>2. CASE key \notin keys
  <2>1. ChangeValue(cat, key, v, at) = [catalog |-> cat, status |-> "not-supported"]
    BY <1>2 DEF ChangeValue
  <2> QED BY <1>1, <2>1
<1>3. CASE key \in keys
  <2> DEFINE result == ChangeEntry(cat[key], v, at)
  <2>1. cat[key] \in EntriesOf(K, D, S, T)
    BY <1>3
  <2>2. Stored(cat[key])
    BY <1>3 DEF Consistent
  <2>3. /\ result.entry \in EntriesOf(K, D, S, T)
        /\ SameEntry(cat[key], result.entry)
        /\ Stored(result.entry)
        /\ cat[key].readonly => result.status = "rejected"
        /\ result.status \in {"accepted", "rejected", "reboot-required"}
        /\ result.status = "rejected" => result.entry = cat[key]
        /\ result.status # "rejected" =>
             result.entry.value = NormalizeValue(cat[key], v)
    BY <2>1, <2>2, ChangeEntryKeeps
  <2> HIDE DEF result
  <2>4. /\ ChangeValue(cat, key, v, at).catalog =
             IF result.entry = cat[key] THEN cat ELSE ReplaceEntry(cat, result.entry)
        /\ ChangeValue(cat, key, v, at).status = result.status
    BY <1>3 DEF ChangeValue, result
  <2>5. CASE result.entry = cat[key]
    BY <1>1, <1>3, <2>3, <2>4, <2>5
  <2>6. CASE result.entry # cat[key]
    <3> DEFINE next == ReplaceEntry(cat, result.entry)
    <3>1. /\ next \in [keys -> EntriesOf(K, D, S, T)]
          /\ next[key] = result.entry
          /\ \A k \in keys \ {key} : next[k] = cat[k]
          /\ SameKeys(cat, next)
          /\ Consistent(next)
      BY <1>3, <2>3, ReplaceEntryKeeps
    <3>2. ChangeValue(cat, key, v, at).catalog = next
      BY <2>4, <2>6
    <3>3. ~cat[key].readonly /\ result.status # "rejected"
      BY <2>3, <2>6
    <3> QED BY <1>3, <2>3, <2>4, <3>1, <3>2, <3>3
  <2> QED BY <2>5, <2>6
<1> QED BY <1>2, <1>3

\* What the point learns by itself, from a boot say, is stored also in an
\* entry that is read-only, and keeps the catalog consistent.
THEOREM SyncKeepsCatalog ==
    ASSUME NEW K, NEW D, NEW S, NEW T, NEW keys,
           NEW cat \in [keys -> EntriesOf(K, D, S, T)], Consistent(cat),
           NEW key, NEW v \in ValuesOf(D), NEW at \in T, SyncAccepted(cat, key, v)
    PROVE  LET next == SyncValue(cat, key, v, at).catalog
           IN  /\ next \in [keys -> EntriesOf(K, D, S, T)]
               /\ Consistent(next)
               /\ SameKeys(cat, next)
               /\ next[key].value = NormalizeValue(cat[key], v)
<1>1. key \in keys /\ Accepts(cat[key], v)
  BY DEF SyncAccepted
<1> DEFINE f == ApplyValue(cat[key], v, at).entry
<1>2. /\ f \in EntriesOf(K, D, S, T)
      /\ SameEntry(cat[key], f)
      /\ f.value = NormalizeValue(cat[key], v)
      /\ Stored(f)
  <2>1. cat[key] \in EntriesOf(K, D, S, T)
    BY <1>1
  <2> QED BY <1>1, <2>1, ApplyValueKeeps
<1> HIDE DEF f
<1>3. SyncValue(cat, key, v, at).catalog =
        IF f = cat[key] THEN cat ELSE ReplaceEntry(cat, f)
  BY DEF SyncValue, SyncEntry, f
<1>4. CASE f = cat[key]
  <2>1. SameKeys(cat, cat)
    BY DEF SameKeys, SameEntry
  <2> QED BY <1>2, <1>3, <1>4, <2>1
<1>5. CASE f # cat[key]
  BY <1>1, <1>2, <1>3, <1>5, ReplaceEntryKeeps
<1> QED BY <1>4, <1>5

-----------------------------------------------------------------------------
(* The key that the loop reads *)

HeartbeatSelector == NormalSelector(Flat("HeartbeatInterval"), {"HeartbeatInterval"})
HeartbeatEntry(v) ==
    [key |-> {"HeartbeatInterval"}, selector |-> HeartbeatSelector,
     value |-> v, readonly |-> FALSE, valueType |-> "integer", rebootRequired |-> FALSE,
     minValue |-> {0}, maxValue |-> {}, updatedAt |-> {}]
StoreOf(n) == [DefaultCatalog EXCEPT !["HeartbeatInterval"].value = IntValue(n)]

IsHeartbeatEntry(e) ==
    /\ e.key = {"HeartbeatInterval"}
    /\ e.valueType = "integer"
    /\ e.readonly = FALSE
    /\ e.minValue = {0}
    /\ e.maxValue = {}

\* The default catalog has HeartbeatInterval, which the CSMS may change, as an
\* integer that is not negative.
LEMMA HeartbeatIsDefined ==
    /\ "HeartbeatInterval" \in DOMAIN DefaultCatalog
    /\ \E v : DefaultCatalog["HeartbeatInterval"] = HeartbeatEntry(v)
<1> DEFINE d == IntKey("HeartbeatInterval", "RW", 60, 0)
           entries == {NewEntry(EntryOptions(x)) : x \in Definitions}
           e == NewEntry(EntryOptions(d))
           v == NormalizeValue(EntryOptions(d), d.default)
<1>1. d \in Definitions
  BY DEF Definitions, CoreDefinitions
<1>2. e \in entries
  BY <1>1
<1>3. \A f, g \in entries : KeyOf(f) = KeyOf(g) => f = g
  BY DefaultsAreDefinitions DEF CatalogAccepted
<1>4. /\ d.key = "HeartbeatInterval" /\ d.access = "RW" /\ d.valueType = "integer"
      /\ d.minValue = {0}
  BY DEF IntKey
<1> HIDE DEF d
<1>5. EntryKey(HeartbeatSelector) = "HeartbeatInterval"
  BY DEF EntryKey, HeartbeatSelector, NormalSelector, Flat
<1>6. EntryOptions(d) =
        [key |-> {"HeartbeatInterval"}, selector |-> Flat("HeartbeatInterval"),
         value |-> d.default, readonly |-> FALSE, valueType |-> "integer",
         rebootRequired |-> FALSE, minValue |-> {0}, maxValue |-> {}, updatedAt |-> {}]
  BY <1>4 DEF EntryOptions
<1>7. NewEntry(EntryOptions(d)) =
        [EntryOptions(d) EXCEPT !.selector = HeartbeatSelector, !.key = {"HeartbeatInterval"}, !.value = v]
  <2>1. EntryOptions(d).selector = Flat("HeartbeatInterval")
        /\ EntryOptions(d).key = {"HeartbeatInterval"}
        /\ EntryOptions(d).value = d.default
    BY <1>6
  <2> QED BY <1>5, <2>1 DEF NewEntry, HeartbeatSelector
<1> HIDE DEF v
<1>8. e = HeartbeatEntry(v)
  <2> HIDE DEF v
  <2>1. e = [[key |-> {"HeartbeatInterval"}, selector |-> Flat("HeartbeatInterval"),
              value |-> d.default, readonly |-> FALSE, valueType |-> "integer",
              rebootRequired |-> FALSE, minValue |-> {0}, maxValue |-> {},
              updatedAt |-> {}]
             EXCEPT !.selector = HeartbeatSelector, !.key = {"HeartbeatInterval"},
                    !.value = v]
    BY <1>6, <1>7
  <2> HIDE DEF e
  <2> QED BY <2>1 DEF HeartbeatEntry
<1>9. KeyOf(e) = "HeartbeatInterval"
  BY <1>8 DEF KeyOf, HeartbeatEntry
<1> HIDE DEF e, entries
<1>10. /\ "HeartbeatInterval" \in DOMAIN DefaultCatalog
       /\ DefaultCatalog["HeartbeatInterval"] = e
  <2>1. DefaultCatalog = [k \in {KeyOf(f) : f \in entries} |->
                            CHOOSE f \in entries : KeyOf(f) = k]
    BY DEF DefaultCatalog, NewCatalog, entries
  <2>2. \A f \in entries : KeyOf(f) = "HeartbeatInterval" => f = e
    BY <1>2, <1>3, <1>9
  <2>3. (CHOOSE f \in entries : KeyOf(f) = "HeartbeatInterval") = e
    BY <1>2, <1>9, <2>2
  <2>4. "HeartbeatInterval" \in {KeyOf(f) : f \in entries}
    BY <1>2, <1>9
  <2> QED BY <2>1, <2>3, <2>4
<1> QED BY <1>8, <1>10

\* The store holds the interval in that entry, and the loop reads it when it
\* is positive.
LEMMA StoreReads ==
    ASSUME NEW n \in Int
    PROVE  /\ "HeartbeatInterval" \in DOMAIN StoreOf(n)
           /\ IsHeartbeatEntry(StoreOf(n)["HeartbeatInterval"])
           /\ HeartbeatIntervalSec(StoreOf(n)) =
                IF n > 0 /\ n <= MaxSafeInteger THEN {n} ELSE {}
<1>1. "HeartbeatInterval" \in DOMAIN StoreOf(n)
  BY HeartbeatIsDefined DEF StoreOf
<1> DEFINE e == StoreOf(n)["HeartbeatInterval"]
<1>2. IsHeartbeatEntry(e) /\ e.value = IntValue(n)
  <2>1. PICK v : DefaultCatalog["HeartbeatInterval"] = HeartbeatEntry(v)
    BY HeartbeatIsDefined
  <2>2. e = [HeartbeatEntry(v) EXCEPT !.value = IntValue(n)]
    BY <2>1, HeartbeatIsDefined DEF StoreOf
  <2> HIDE DEF e
  <2> QED BY <2>2 DEF HeartbeatEntry, IsHeartbeatEntry
<1>3. HeartbeatIntervalSec(StoreOf(n)) = PositiveInteger(IntValue(n))
  BY <1>1, <1>2 DEF HeartbeatIntervalSec, PositiveIntegerConfig
<1>4. IntValue(n).form = "integer" /\ IntValue(n).number = n
  BY DEF IntValue
<1> QED BY <1>1, <1>2, <1>3, <1>4 DEF PositiveInteger

\* A boot stores no negative interval.
LEMMA SyncedIsNatural ==
    ASSUME NEW n \in Int, NEW i \in Int,
           SyncAccepted(StoreOf(n), "HeartbeatInterval", IntValue(i))
    PROVE  i >= 0
<1>1. IntValue(i).number = i
  BY DEF IntValue
<1>2. Accepts(StoreOf(n)["HeartbeatInterval"], IntValue(i))
  BY DEF SyncAccepted
<1> DEFINE e == StoreOf(n)["HeartbeatInterval"]
<1>3. e.valueType = "integer" /\ e.minValue = {0}
  BY StoreReads DEF IsHeartbeatEntry
<1> HIDE DEF e
<1>4. \A m \in e.minValue : IntValue(i).number >= m
  BY <1>2, <1>3 DEF Accepts, e
<1> QED BY <1>1, <1>3, <1>4

\* A change of the interval that is applied is read back, and positive.
LEMMA ChangedIsRead ==
    ASSUME NEW n \in Int, NEW i \in Int, NEW at,
           ChangeConfiguration(StoreOf(n), "HeartbeatInterval", IntValue(i), at).applies
    PROVE  /\ i > 0
           /\ HeartbeatIntervalSec(ChangeConfiguration(StoreOf(n), "HeartbeatInterval",
                                                       IntValue(i), at).catalog) = {i}
<1> DEFINE cat == StoreOf(n)
           e == cat["HeartbeatInterval"]
           v == IntValue(i)
           w == NormalizeValue(e, v)
           result == ChangeConfiguration(cat, "HeartbeatInterval", v, at)
<1>1. v.form = "integer" /\ v.number = i /\ w.form = "integer" /\ w.number = i
  BY DEF IntValue, Plainly, NormalizeValue
<1>2. /\ e.valueType = "integer" /\ e.readonly = FALSE /\ e.key = {"HeartbeatInterval"}
      /\ "HeartbeatInterval" \in DOMAIN cat
  BY StoreReads DEF IsHeartbeatEntry
<1>3. result.applies
  OBVIOUS
<1> HIDE DEF e, v, cat, w
<1>4. PositiveInteger(v) # {}
  BY <1>3 DEF ChangeConfiguration
<1>5. PositiveInteger(v) = {i} /\ PositiveInteger(w) = {i} /\ i > 0
  BY <1>1, <1>4 DEF PositiveInteger
<1>6. /\ result.catalog = ChangeValue(cat, "HeartbeatInterval", v, at).catalog
      /\ ChangeValue(cat, "HeartbeatInterval", v, at).status
           \in {"accepted", "reboot-required"}
  BY <1>3, <1>4 DEF ChangeConfiguration
<1> DEFINE f == ChangeEntry(e, v, at).entry
<1>7. /\ ChangeValue(cat, "HeartbeatInterval", v, at).catalog =
           (IF f = e THEN cat ELSE ReplaceEntry(cat, f))
      /\ ChangeEntry(e, v, at).status \in {"accepted", "reboot-required"}
  BY <1>2, <1>6 DEF ChangeValue, e
<1>8. f.value = w /\ f.key = e.key
  <2>1. ChangeEntry(e, v, at) = ApplyValue(e, v, at)
    BY <1>2, <1>7 DEF ChangeEntry
  <2>2. CASE e.value = w
    BY <2>1, <2>2 DEF ApplyValue, w
  <2>3. CASE e.value # w
    <3>1. f = [e EXCEPT !.value = w, !.updatedAt = {at}]
      BY <2>1, <2>3 DEF ApplyValue, w
    <3>2. \E u : e = [HeartbeatEntry(u) EXCEPT !.value = IntValue(n)]
      BY HeartbeatIsDefined DEF e, cat, StoreOf
    <3> HIDE DEF f
    <3> QED BY <3>1, <3>2 DEF HeartbeatEntry
  <2> QED BY <2>2, <2>3
<1> HIDE DEF f
<1>9. KeyOf(f) = "HeartbeatInterval"
  BY <1>2, <1>8 DEF KeyOf
<1>10. /\ "HeartbeatInterval" \in DOMAIN result.catalog
       /\ result.catalog["HeartbeatInterval"].value = w
  <2>1. CASE f = e
    BY <1>2, <1>6, <1>7, <1>8, <2>1 DEF e
  <2>2. CASE f # e
    <3>1. result.catalog = [k \in DOMAIN cat |-> IF k = KeyOf(f) THEN f ELSE cat[k]]
      BY <1>6, <1>7, <2>2 DEF ReplaceEntry
    <3> HIDE DEF result
    <3> QED BY <1>2, <1>8, <1>9, <3>1
  <2> QED BY <2>1, <2>2
<1>11. HeartbeatIntervalSec(result.catalog) = {i}
  <2> HIDE DEF result
  <2> QED BY <1>5, <1>10 DEF HeartbeatIntervalSec, PositiveIntegerConfig
<1> QED BY <1>5, <1>11 DEF cat, v

-----------------------------------------------------------------------------
(* Requests under way and the loops they name *)

\* What is under way after the first of a queue is taken, the last of it, or
\* one is added.
LEMMA TailUnder ==
    ASSUME NEW q \in Seq(Requests), q # <<>>
    PROVE  /\ Head(q) \in Requests /\ Head(q) \in Under(q)
           /\ Tail(q) \in Seq(Requests) /\ Len(Tail(q)) = Len(q) - 1
           /\ Under(Tail(q)) \subseteq Under(q)
           /\ Under(q) = Under(Tail(q)) \cup {Head(q)}
<1>1. /\ Head(q) \in Requests /\ Tail(q) \in Seq(Requests) /\ Len(Tail(q)) = Len(q) - 1
      /\ \A i \in 1..Len(Tail(q)) : Tail(q)[i] = q[i + 1]
  BY HeadTailProperties
<1>2. Head(q) = q[1] /\ Len(q) \in Nat \ {0}
  OBVIOUS
<1>3. Under(Tail(q)) \subseteq Under(q)
  BY <1>1, <1>2 DEF Under
<1>4. Head(q) \in Under(q)
  BY <1>2 DEF Under
<1>5. ASSUME NEW i \in 1..Len(q)
      PROVE  q[i] \in Under(Tail(q)) \cup {Head(q)}
  <2>1. CASE i = 1
    BY <1>2, <2>1
  <2>2. CASE i # 1
    <3>1. i - 1 \in 1..Len(Tail(q)) /\ Tail(q)[i - 1] = q[i]
      BY <1>1, <1>2, <2>2
    <3> QED BY <3>1 DEF Under
  <2> QED BY <2>1, <2>2
<1> QED BY <1>1, <1>3, <1>4, <1>5 DEF Under

LEMMA FrontUnder ==
    ASSUME NEW q \in Seq(Requests), q # <<>>
    PROVE  /\ q[Len(q)] \in Requests /\ q[Len(q)] \in Under(q)
           /\ SubSeq(q, 1, Len(q) - 1) \in Seq(Requests)
           /\ Len(SubSeq(q, 1, Len(q) - 1)) = Len(q) - 1
           /\ Under(SubSeq(q, 1, Len(q) - 1)) \subseteq Under(q)
<1>1. Len(q) \in Nat \ {0} /\ \A i \in 1..Len(q) : q[i] \in Requests
  OBVIOUS
<1>2. /\ SubSeq(q, 1, Len(q) - 1) \in Seq(Requests)
      /\ Len(SubSeq(q, 1, Len(q) - 1)) = Len(q) - 1
      /\ \A i \in 1..Len(q) - 1 : SubSeq(q, 1, Len(q) - 1)[i] = q[i]
  <2> DEFINE n == Len(q) - 1
  <2>1. n \in Int /\ 1 \in Int /\ \A i \in 1..n : q[i] \in Requests
    BY <1>1
  <2> HIDE DEF n
  <2>2. /\ SubSeq(q, 1, n) \in Seq(Requests)
        /\ Len(SubSeq(q, 1, n)) = IF 1 <= n THEN n - 1 + 1 ELSE 0
        /\ \A i \in 1..n - 1 + 1 : SubSeq(q, 1, n)[i] = q[1 + i - 1]
    BY <2>1, SubSeqProperties
  <2>3. n - 1 + 1 = n /\ n >= 0 /\ \A i \in 1..n : 1 + i - 1 = i
    BY <1>1 DEF n
  <2> QED BY <2>2, <2>3 DEF n
<1> QED BY <1>1, <1>2 DEF Under

LEMMA AppendUnder ==
    ASSUME NEW q \in Seq(Requests), NEW r \in Requests
    PROVE  /\ Append(q, r) \in Seq(Requests)
           /\ Len(Append(q, r)) = Len(q) + 1
           /\ Under(Append(q, r)) = Under(q) \cup {r}
<1>1. /\ Append(q, r) \in Seq(Requests) /\ Len(Append(q, r)) = Len(q) + 1
      /\ \A i \in 1..Len(q) : Append(q, r)[i] = q[i]
      /\ Append(q, r)[Len(q) + 1] = r
  BY AppendProperties
<1>2. Len(q) \in Nat /\ 1..Len(q) + 1 = 1..Len(q) \cup {Len(q) + 1}
  OBVIOUS
<1> QED BY <1>1, <1>2 DEF Under

\* The loops that a set of requests names.
LEMMA NamedByIs ==
    ASSUME NEW R, NEW l
    PROVE  l \in NamedBy(R)
             <=> l # None /\ \E r \in R : r.kind = "beat" /\ r.of = l
BY DEF NamedBy

\* A loop that nothing under way names can always be had.
LEMMA FreshLoop ==
    ASSUME NEW q \in Seq(Requests), NEW r \in Seq(Requests),
           Len(q) + Len(r) <= MaxUnderWay
    PROVE  \E l \in Loops : l \notin NamedBy(Under(q) \cup Under(r))
<1> DEFINE n == Len(q) + Len(r)
           f == [i \in 1..n |-> IF i <= Len(q) THEN q[i].of ELSE r[i - Len(q)].of]
           T == {f[i] : i \in 1..n}
<1>1. Len(q) \in Nat /\ Len(r) \in Nat /\ n \in Nat
  OBVIOUS
<1>2. f \in Surjection(1..n, T)
  BY DEF Surjection
<1>3. IsFiniteSet(1..n) /\ Cardinality(1..n) = n
  BY <1>1, FS_Interval
<1> HIDE DEF n
<1>4. IsFiniteSet(T) /\ Cardinality(T) <= n
  <2> HIDE DEF f, T
  <2> QED BY <1>2, <1>3, FS_Surjection
<1>5. NamedBy(Under(q) \cup Under(r)) \subseteq T
  <2>1. SUFFICES ASSUME NEW l \in NamedBy(Under(q) \cup Under(r)) PROVE l \in T
    OBVIOUS
  <2>2. PICK x \in Under(q) \cup Under(r) : x.of = l
    BY <2>1, NamedByIs
  <2>3. CASE x \in Under(q)
    <3>1. PICK i \in 1..Len(q) : x = q[i]
      BY <2>3 DEF Under
    <3>2. i \in 1..n /\ i <= Len(q)
      BY <1>1, <3>1 DEF n
    <3>3. f[i] = l
      BY <2>2, <3>1, <3>2
    <3> QED BY <3>2, <3>3
  <2>4. CASE x \in Under(r)
    <3>1. PICK i \in 1..Len(r) : x = r[i]
      BY <2>4 DEF Under
    <3>2. i + Len(q) \in 1..n /\ ~(i + Len(q) <= Len(q)) /\ (i + Len(q)) - Len(q) = i
      BY <1>1, <3>1 DEF n
    <3>3. f[i + Len(q)] = l
      BY <2>2, <3>1, <3>2
    <3> QED BY <3>2, <3>3
  <2> QED BY <2>2, <2>3, <2>4
<1>6. CASE Loops \subseteq T
  <2>1. IsFiniteSet(T) /\ Loops \in SUBSET T
    BY <1>4, <1>6
  <2> HIDE DEF T
  <2>2. Cardinality(Loops) <= Cardinality(T)
    BY <2>1, FS_Subset
  <2>3. Cardinality(Loops) \in Nat /\ Cardinality(T) \in Nat
    BY <2>1, LoopsSuffice, FS_CardinalityType
  <2> QED BY <1>1, <1>4, <2>2, <2>3, LoopsSuffice DEF n
<1> QED BY <1>5, <1>6

\* Only heartbeats of loops matter for what is named.
LEMMA NamedSame ==
    ASSUME \A r : r.kind = "beat" /\ r.of # None =>
             (r \in (Under(queue) \cup Under(replaying))'
                <=> r \in Under(queue) \cup Under(replaying))
    PROVE  Named' = Named
<1>1. ASSUME NEW l PROVE l \in Named' <=> l \in Named
  BY NamedByIs DEF Named
<1> QED BY <1>1

LEMMA NamedFewer ==
    ASSUME (Under(queue) \cup Under(replaying))'
             \subseteq Under(queue) \cup Under(replaying)
    PROVE  Named' \subseteq Named
<1>1. ASSUME NEW l PROVE l \in Named' => l \in Named
  BY NamedByIs DEF Named
<1> QED BY <1>1

-----------------------------------------------------------------------------
(* The inductive invariant *)

ReportsUnderWay == \E r \in Under(queue) : r.kind = "reports"

\* Reports follow the start of a loop; if it is gone, there is a reason.
ReportsExplained == ReportsUnderWay => loop # None \/ silenced \in Explained

\* So does a running actor, until its session ends.
RunningExplained ==
    status = "running" /\ session \notin {"idle", "disconnecting"}
    => loop # None \/ silenced \in Explained

\* An actor whose first connection is made is not running.
ConnectingStarts == session = "connecting" => status # "running"

\* Nothing of an earlier connection is left when the session is idle or
\* connects for the first time but a boot retry, rejected at once.
OfflineAsksNothing ==
    session \in {"idle", "connecting"} => replaying = <<>> /\ ~ReportsUnderWay
Follows ==
    ReportsExplained /\ RunningExplained /\ ConnectingStarts /\ OfflineAsksNothing

\* The part of the state that is the runtime's loop.
LoopOK ==
    /\ options \in BOOLEAN
    /\ loop \in Loops \cup {None}
    /\ closures \in [DOMAIN closures -> Closures]
    /\ DOMAIN closures = (Named \cup {loop}) \ {None}
    /\ resynced \in BOOLEAN
    /\ silenced \in Explained \cup {"no", "stopped"}
    /\ LoopBeatsAsConfigured

QueueOK ==
    /\ queue \in Seq(Requests) /\ replaying \in Seq(Requests)
    /\ UnderWay <= MaxUnderWay

ActorOK ==
    /\ registration \in Registrations
    /\ interval \in Intervals
    /\ session \in {"idle", "connecting", "online", "reconnecting", "disconnecting"}
    /\ status \in {"stopped", "starting", "running"}
    /\ waiting \in BOOLEAN /\ retry \in BOOLEAN

IInv == LoopOK /\ QueueOK /\ ActorOK /\ Follows

Excused == loop # None \/ silenced \in Explained

\* Nothing under way names a loop but those that have a closure.
Inherits == Named' \subseteq DOMAIN closures

-----------------------------------------------------------------------------
(* What stops, starts and failures of loops keep *)

LEMMA AliveIs ==
    ASSUME Inherits, NEW cs, cs \in [DOMAIN cs -> Closures], DOMAIN cs = DOMAIN closures,
           NEW l \in DOMAIN closures \cup {None}, None \notin DOMAIN closures
    PROVE  LET next == Alive(cs, l)
           IN  /\ DOMAIN next = (Named' \cup {l}) \ {None}
               /\ next \in [DOMAIN next -> Closures]
               /\ \A c \in DOMAIN next : next[c] = cs[c]
<1> DEFINE N == Named'
<1>1. N \subseteq DOMAIN cs /\ None \notin N
  BY DEF Inherits
<1>2. Alive(cs, l) = [c \in DOMAIN cs \cap (N \cup {l}) |-> cs[c]]
  BY DEF Alive
<1> HIDE DEF N
<1>3. DOMAIN cs \cap (N \cup {l}) = (N \cup {l}) \ {None}
  BY <1>1
<1> QED BY <1>2, <1>3 DEF N

\* The loop goes on and beats as before.
LEMMA GoesOnKeeps ==
    ASSUME LoopOK, Inherits, LoopGoesOn, interval' = interval
    PROVE  LoopOK' /\ loop' = loop /\ silenced' = silenced
<1>1. /\ DOMAIN closures' = (Named' \cup {loop}) \ {None}
      /\ closures' \in [DOMAIN closures' -> Closures]
      /\ \A c \in DOMAIN closures' : closures'[c] = closures[c]
  BY ZenonT(60), AliveIs DEF LoopOK, LoopGoesOn
<1>2. loop # None => loop \in DOMAIN closures'
  BY <1>1
<1> QED BY <1>1, <1>2 DEF LoopOK, LoopGoesOn, LoopBeatsAsConfigured

\* No loop is left.
LEMMA StopKeeps ==
    ASSUME LoopOK, Inherits, loop' = None, closures' = Alive(closures, None),
           resynced' = FALSE, options' \in BOOLEAN,
           silenced' \in Explained \cup {"no", "stopped"}
    PROVE  LoopOK'
<1>1. /\ DOMAIN closures' = (Named' \cup {None}) \ {None}
      /\ closures' \in [DOMAIN closures' -> Closures]
  BY AliveIs DEF LoopOK
<1> QED BY <1>1 DEF LoopOK, LoopBeatsAsConfigured

LEMMA StopLoopKeeps ==
    ASSUME LoopOK, Inherits, NEW why \in Explained \cup {"no", "stopped"},
           StopLoop(why), UNCHANGED options
    PROVE  LoopOK' /\ loop' = None
BY StopKeeps DEF StopLoop, LoopOK

LEMMA StopRuntimeKeeps ==
    ASSUME LoopOK, Inherits, StopRuntime
    PROVE  LoopOK' /\ (ReportsUnderWay' => Excused')
<1>1. silenced' \in {"overtaken", "stopped"}
      /\ (ReportsUnderWay' => silenced' = "overtaken")
  BY DEF StopRuntime, ReportsUnderWay
<1>2. LoopOK'
  BY <1>1, StopKeeps DEF StopRuntime, Explained
<1> QED BY <1>1, <1>2 DEF Excused, Explained

\* A new loop has a name of its own and beats at the interval there is.
LEMMA NewLoopKeeps ==
    ASSUME LoopOK, Inherits, QueueOK', NewLoop, interval' \in Intervals \ {0},
           options' \in BOOLEAN
    PROVE  LoopOK' /\ loop' # None
<1> DEFINE old == Alive(closures, None)
           l == CHOOSE l \in Loops : l \notin DOMAIN old
           fresh == [every |-> interval', failures |-> 0]
<1>1. DOMAIN old = Named' /\ old \in [DOMAIN old -> Closures] /\ None \notin Named'
  <2>1. None \notin DOMAIN closures /\ None \notin Named'
    BY DEF LoopOK, Inherits
  <2>2. DOMAIN old = (Named' \cup {None}) \ {None} /\ old \in [DOMAIN old -> Closures]
    BY <2>1, AliveIs DEF LoopOK
  <2> HIDE DEF old
  <2> QED BY <2>1, <2>2
<1>2. \E x \in Loops : x \notin DOMAIN old
  BY <1>1, FreshLoop DEF QueueOK, UnderWay, Named
<1> HIDE DEF old
<1>3. l \in Loops /\ l \notin DOMAIN old
  BY <1>2
<1>4. /\ loop' = l
      /\ closures' = [c \in DOMAIN old \cup {l} |-> IF c = l THEN fresh ELSE old[c]]
      /\ resynced' = FALSE
      /\ silenced' = "no"
  BY DEF NewLoop, old
<1>5. fresh \in Closures
  BY Thresholds DEF Closures
<1> HIDE DEF l, fresh
<1>7. /\ DOMAIN closures' = {l} \cup DOMAIN old
      /\ closures' \in [DOMAIN closures' -> Closures]
      /\ closures'[l] = fresh
  BY <1>1, <1>4, <1>5
<1>8. l # None /\ None \notin DOMAIN old
  BY <1>1, <1>3, LoopsSuffice
<1>9. DOMAIN closures' = (Named' \cup {loop'}) \ {None}
  BY <1>1, <1>4, <1>7, <1>8
<1>10. fresh.every = interval'
  BY DEF fresh
<1> QED BY <1>3, <1>4, <1>7, <1>8, <1>9, <1>10
    DEF LoopOK, LoopBeatsAsConfigured

LEMMA UsableIs ==
    ASSUME interval' \in Intervals, Usable'
    PROVE  registration' = "Accepted" /\ interval' \in Intervals \ {0}
<1>1. interval' \in Int
  BY Thresholds
<1>2. HeartbeatIntervalSec(StoreOf(interval')) # {}
  BY DEF Usable, Store, StoreOf
<1>3. interval' > 0
  BY <1>1, <1>2, StoreReads
<1> QED BY <1>3 DEF Usable

\* startHeartbeatLoop leaves a loop, or none because of the interval or the
\* registration.
LEMMA StartLoopKeeps ==
    ASSUME LoopOK, Inherits, QueueOK', StartLoop, interval' \in Intervals,
           loop # None => interval' = interval
    PROVE  LoopOK' /\ Excused'
<1>1. CASE loop = None /\ Usable'
  <2>1. NewLoop /\ options' = TRUE
    BY <1>1 DEF StartLoop
  <2> QED BY <1>1, <2>1, NewLoopKeeps, UsableIs DEF Excused
<1>2. CASE ~(loop = None /\ Usable')
  <2>1. /\ loop' = loop /\ resynced' = resynced /\ options' = TRUE
        /\ closures' = Alive(closures, loop)
        /\ silenced' = IF loop = None THEN "unusable" ELSE silenced
    BY <1>2 DEF StartLoop
  <2>2. /\ DOMAIN closures' = (Named' \cup {loop}) \ {None}
        /\ closures' \in [DOMAIN closures' -> Closures]
        /\ \A c \in DOMAIN closures' : closures'[c] = closures[c]
    BY ZenonT(60), <2>1, AliveIs DEF LoopOK
  <2>3. loop # None => loop \in DOMAIN closures'
    BY <2>2
  <2>4. silenced' \in Explained \cup {"no", "stopped"}
    BY <2>1 DEF LoopOK, Explained
  <2>5. Excused'
    BY <2>1 DEF Excused, Explained
  <2>6. LoopBeatsAsConfigured'
    BY <2>1, <2>2, <2>3 DEF LoopOK, LoopBeatsAsConfigured
  <2> QED BY <2>1, <2>2, <2>4, <2>5, <2>6 DEF LoopOK
<1> QED BY <1>1, <1>2

\* A failure counts in its closure; the loop that it ends has a reason.
LEMMA BeatFailsKeeps ==
    ASSUME LoopOK, Inherits, NEW l \in DOMAIN closures \cup {None}, BeatFails(l),
           interval' = interval
    PROVE  LoopOK' /\ (Excused => Excused')
<1> DEFINE counted == IF l = None THEN closures
                      ELSE [closures EXCEPT ![l].failures =
                              IF @ < ReconnectThreshold THEN @ + 1 ELSE @]
           over == l # None /\ counted[l].failures >= ReconnectThreshold
<1>1. /\ counted \in [DOMAIN counted -> Closures]
      /\ DOMAIN counted = DOMAIN closures
      /\ \A c \in DOMAIN closures : counted[c].every = closures[c].every
  <2>1. CASE l = None
    BY <2>1 DEF LoopOK
  <2>2. CASE l # None
    <3> DEFINE n == IF closures[l].failures < ReconnectThreshold
                      THEN closures[l].failures + 1 ELSE closures[l].failures
               r == [closures[l] EXCEPT !.failures = n]
    <3>1. closures[l] \in Closures
      BY <2>2 DEF LoopOK
    <3>2. n \in 0..ReconnectThreshold
      BY <3>1, Thresholds DEF Closures
    <3> HIDE DEF n
    <3>3. r \in Closures /\ r.every = closures[l].every
      BY <3>1, <3>2 DEF Closures
    <3> HIDE DEF r
    <3>4. counted = [closures EXCEPT ![l] = r]
      BY <2>2 DEF n, r
    <3> HIDE DEF counted
    <3> QED BY <2>2, <3>3, <3>4 DEF LoopOK
  <2> QED BY <2>1, <2>2
<1>2. /\ loop' = IF over THEN None ELSE loop
      /\ closures' = Alive(counted, loop')
      /\ resynced' = (resynced /\ ~over)
      /\ silenced' = IF over /\ loop # None THEN "failures" ELSE silenced
      /\ options' = options
  BY DEF BeatFails
<1> HIDE DEF counted, over
<1>3. loop' \in DOMAIN closures \cup {None} /\ None \notin DOMAIN closures
  BY <1>2 DEF LoopOK
<1>4. /\ DOMAIN closures' = (Named' \cup {loop'}) \ {None}
      /\ closures' \in [DOMAIN closures' -> Closures]
      /\ \A c \in DOMAIN closures' : closures'[c] = counted[c]
  BY ZenonT(60), <1>1, <1>2, <1>3, AliveIs
<1>5. Excused => Excused'
  BY <1>2 DEF Excused, Explained
<1>6. silenced' \in Explained \cup {"no", "stopped"}
  BY <1>2 DEF LoopOK, Explained
<1>7. loop' \in Loops \cup {None} /\ resynced' \in BOOLEAN /\ options' \in BOOLEAN
  BY <1>2 DEF LoopOK, over
<1>8. LoopBeatsAsConfigured'
  <2>1. SUFFICES ASSUME loop' # None, ~resynced'
                 PROVE  closures'[loop'].every = interval'
    BY DEF LoopBeatsAsConfigured
  <2>2. loop' = loop /\ ~resynced
    BY <1>2, <2>1
  <2>3. closures'[loop'].every = closures[loop].every
    BY <1>1, <1>3, <1>4, <2>1, <2>2
  <2> QED BY <2>1, <2>2, <2>3 DEF LoopOK, LoopBeatsAsConfigured
<1> QED BY <1>4, <1>5, <1>6, <1>7, <1>8 DEF LoopOK

\* However a start-up fails, the actor that stays has its loop or a reason.
LEMMA BootFailsKeeps ==
    ASSUME IInv, Inherits, NEW by, BootFails(by), interval' = interval,
           ReportsUnderWay' => ReportsUnderWay, replaying = <<>> => replaying' = <<>>
    PROVE  /\ LoopOK'
           /\ Follows'
           /\ session' \in {"idle", "connecting", "online", "reconnecting", "disconnecting"}
           /\ status' \in {"stopped", "starting", "running"}
           /\ retry' \in BOOLEAN
<1>1. CASE LoopGoesOn /\ status' \in {status, "starting"} /\ UNCHANGED <<session, retry>>
  <2>1. LoopOK' /\ loop' = loop /\ silenced' = silenced
    BY <1>1, GoesOnKeeps DEF IInv
  <2> QED
    BY <1>1, <2>1 DEF IInv, ActorOK, Follows, ReportsExplained, RunningExplained,
       ConnectingStarts, OfflineAsksNothing
<1>2. CASE StopAfterFailure
  <2>1. LoopOK' /\ (ReportsUnderWay' => Excused')
    BY <1>2, StopRuntimeKeeps DEF IInv, StopAfterFailure
  <2>2. /\ retry' = FALSE
        /\ \/ session' = "disconnecting" /\ status' = status
           \/ session' = session /\ status' = "stopped"
    BY <1>2 DEF StopAfterFailure
  <2> QED
    BY <2>1, <2>2 DEF IInv, ActorOK, Follows, ReportsExplained, RunningExplained,
       ConnectingStarts, OfflineAsksNothing, Excused
<1> QED BY <1>1, <1>2 DEF BootFails

-----------------------------------------------------------------------------
(* The steps *)

LEMMA FewerInherits ==
    ASSUME LoopOK,
           \A r : r.kind = "beat" /\ r.of # None =>
             (r \in (Under(queue) \cup Under(replaying))'
                => r \in Under(queue) \cup Under(replaying))
    PROVE  Inherits
<1>1. ASSUME NEW l \in Named' PROVE l \in DOMAIN closures
  <2>1. l # None /\ \E r \in (Under(queue) \cup Under(replaying))' :
          r.kind = "beat" /\ r.of = l
    BY <1>1, NamedByIs DEF Named
  <2>2. l \in Named
    BY <2>1, NamedByIs DEF Named
  <2> QED BY <2>1, <2>2 DEF LoopOK
<1> QED BY <1>1 DEF Inherits

\* Steps that leave the loop alone and add or remove no heartbeat of one.
LEMMA PointUnchanged ==
    ASSUME LoopOK, UNCHANGED <<options, loop, closures, resynced, silenced, interval>>,
           Named' = Named
    PROVE  LoopOK'
BY DEF LoopOK, LoopBeatsAsConfigured

LEMMA InitInvariant == ASSUME Init PROVE IInv
<1>1. Under(queue) = {} /\ Under(replaying) = {} /\ Len(queue) = 0 /\ Len(replaying) = 0
  BY DEF Init, Under
<1>2. Named = {}
  BY <1>1, NamedByIs DEF Named
<1>3. DOMAIN closures = {} /\ closures \in [DOMAIN closures -> Closures]
  BY DEF Init
<1>4. LoopOK
  BY <1>2, <1>3 DEF Init, LoopOK, LoopBeatsAsConfigured
<1>5. QueueOK
  BY <1>1, LoopsSuffice DEF Init, QueueOK, UnderWay
<1> QED
  BY <1>1, <1>4, <1>5 DEF Init, IInv, ActorOK, Registrations, Follows, ReportsUnderWay,
     ReportsExplained, RunningExplained, ConnectingStarts, OfflineAsksNothing

\* A boot or a heartbeat is asked for.
LEMMA AskedKeeps ==
    ASSUME IInv, NEW r \in Requests, r.kind # "reports",
           r.kind = "beat" => r.of \in {loop, None},
           UnderWay < MaxUnderWay, queue' = Append(queue, r), UNCHANGED replaying,
           UNCHANGED <<options, loop, closures, resynced, silenced, interval>>
    PROVE  LoopOK' /\ QueueOK' /\ (ReportsUnderWay' <=> ReportsUnderWay)
<1>1. /\ queue' \in Seq(Requests) /\ Len(queue') = Len(queue) + 1
      /\ Under(queue') = Under(queue) \cup {r}
  BY AppendUnder DEF IInv, QueueOK
<1>2. QueueOK'
  <2>1. Len(queue) \in Nat /\ Len(replaying) \in Nat /\ MaxUnderWay \in Nat
    BY LoopsSuffice DEF IInv, QueueOK
  <2> QED BY <1>1, <2>1 DEF IInv, QueueOK, UnderWay
<1>3. (Named' \cup {loop}) \ {None} = (Named \cup {loop}) \ {None}
  <2>1. ASSUME NEW l, l # None, l # loop PROVE l \in Named' <=> l \in Named
    BY <1>1, <2>1, NamedByIs DEF Named
  <2> QED BY <2>1
<1>4. LoopOK'
  BY <1>3 DEF IInv, LoopOK, LoopBeatsAsConfigured
<1> QED BY <1>1, <1>2, <1>4 DEF ReportsUnderWay

LEMMA RequestsAre ==
    /\ \A by \in Boots : /\ Boot(by) \in Requests /\ Boot(by).kind = "boot"
                         /\ Reports(by) \in Requests /\ Reports(by).kind = "reports"
    /\ \A l \in Loops \cup {None} :
         Beat(l) \in Requests /\ Beat(l).kind = "beat" /\ Beat(l).of = l
    /\ \A r \in Requests : /\ r.kind \in {"beat", "boot", "reports"}
                           /\ r.kind = "beat" => r.of \in Loops \cup {None}
                           /\ r.kind # "beat" => r.of \in Boots
BY DEF Boot, Beat, Reports, Requests

LEMMA StartKeeps == ASSUME IInv, Start PROVE IInv'
<1>1. CASE session = "online"
  <2>1. /\ queue' = Append(queue, Boot("start")) /\ UnderWay < MaxUnderWay
        /\ UNCHANGED <<registration, interval, options, loop, closures, resynced,
                       silenced, session, waiting, retry, replaying>>
        /\ status' = "starting"
    BY <1>1 DEF Start, point
  <2>2. LoopOK' /\ QueueOK' /\ (ReportsUnderWay' <=> ReportsUnderWay)
    <3>1. Boot("start") \in Requests /\ Boot("start").kind = "boot"
      BY RequestsAre DEF Boots
    <3> QED BY <2>1, <3>1, AskedKeeps
  <2> QED
    BY <2>1, <2>2 DEF IInv, ActorOK, Follows, ReportsExplained, RunningExplained,
       ConnectingStarts, OfflineAsksNothing
<1>2. CASE session # "online"
  <2>1. /\ UNCHANGED <<registration, interval, options, loop, closures, resynced,
                       silenced, queue, retry, replaying>>
        /\ status' = "starting" /\ waiting' = TRUE
        /\ session' = IF session = "idle" THEN "connecting" ELSE session
    BY <1>2 DEF Start, point
  <2>2. Named' = Named
    BY <2>1 DEF Named
  <2>3. LoopOK'
    BY <2>1, <2>2, PointUnchanged DEF IInv
  <2>4. QueueOK' /\ ReportsUnderWay' = ReportsUnderWay
    BY <2>1 DEF IInv, QueueOK, UnderWay, ReportsUnderWay
  <2> QED
    BY <2>1, <2>3, <2>4 DEF IInv, ActorOK, Follows, ReportsExplained, RunningExplained,
       ConnectingStarts, OfflineAsksNothing
<1> QED BY <1>1, <1>2

LEMMA StopStepKeeps == ASSUME IInv, Stop PROVE IInv'
<1>1. /\ UNCHANGED <<registration, interval, waiting, queue, replaying>>
      /\ StopAfterFailure
  BY DEF Stop
<1>2. Inherits
  BY <1>1, FewerInherits DEF IInv
<1>3. LoopOK' /\ (ReportsUnderWay' => Excused')
  BY <1>1, <1>2, StopRuntimeKeeps DEF IInv, StopAfterFailure
<1>4. QueueOK' /\ ReportsUnderWay' = ReportsUnderWay
  BY <1>1 DEF IInv, QueueOK, UnderWay, ReportsUnderWay
<1>5. /\ retry' = FALSE
      /\ \/ session' = "disconnecting" /\ status' = status
         \/ session' = session /\ status' = "stopped"
  BY <1>1 DEF StopAfterFailure
<1> QED
  BY <1>1, <1>3, <1>4, <1>5 DEF IInv, ActorOK, Follows, ReportsExplained,
     RunningExplained, ConnectingStarts, OfflineAsksNothing, Excused

LEMMA RetryBootKeeps == ASSUME IInv, RetryBoot PROVE IInv'
<1>1. /\ UnderWay < MaxUnderWay /\ retry' = FALSE
      /\ queue' = IF status = "starting" THEN Append(queue, Boot("retry")) ELSE queue
      /\ UNCHANGED <<registration, interval, options, loop, closures, resynced,
                     silenced, session, status, waiting, replaying>>
  BY DEF RetryBoot, point
<1>2. LoopOK' /\ QueueOK' /\ (ReportsUnderWay' <=> ReportsUnderWay)
  <2>1. CASE status = "starting"
    <3>1. Boot("retry") \in Requests /\ Boot("retry").kind = "boot"
      BY RequestsAre DEF Boots
    <3> QED BY <1>1, <2>1, <3>1, AskedKeeps
  <2>2. CASE status # "starting"
    <3>1. Named' = Named
      BY <1>1, <2>2 DEF Named
    <3> QED BY <1>1, <2>2, <3>1, PointUnchanged DEF IInv, QueueOK, UnderWay, ReportsUnderWay
  <2> QED BY <2>1, <2>2
<1> QED
  BY <1>1, <1>2 DEF IInv, ActorOK, Follows, ReportsExplained, RunningExplained,
     ConnectingStarts, OfflineAsksNothing

\* Nothing is under way when a session that is not online changes.
LEMMA NothingLeft ==
    ASSUME IInv, ~Settling, session # "online"
    PROVE  /\ queue = <<>> /\ replaying = <<>>
           /\ Under(queue) = {} /\ Under(replaying) = {}
<1>1. Len(queue) \in Nat /\ Len(replaying) \in Nat
  BY DEF IInv, QueueOK
<1>2. Len(queue) = 0 /\ Len(replaying) = 0
  BY <1>1 DEF Settling, UnderWay
<1>3. queue = <<>> /\ replaying = <<>>
  BY <1>2 DEF IInv, QueueOK
<1> QED BY <1>2, <1>3 DEF Under

LEMMA AtMostOneEach ==
    ASSUME NEW S, NEW a, NEW b,
           a = <<>> \/ \E x \in S : a = <<x>>, b = <<>> \/ \E x \in S : b = <<x>>
    PROVE  a \o b \in Seq(S) /\ Len(a \o b) <= 2 /\ Under(a \o b) \subseteq S
<1>1. ASSUME NEW c, c = <<>> \/ \E x \in S : c = <<x>>
      PROVE  c \in Seq(S) /\ Len(c) <= 1
  <2>1. CASE c = <<>>
    BY <2>1
  <2>2. ASSUME NEW x \in S, c = <<x>> PROVE c \in Seq(S) /\ Len(c) <= 1
    BY <2>2
  <2> QED BY <1>1, <2>1, <2>2
<1>2. a \o b \in Seq(S) /\ Len(a \o b) = Len(a) + Len(b)
  BY <1>1
<1> QED BY <1>1, <1>2 DEF Under

\* The connection brings the loop back, or there is a reason.
LEMMA ConnectedKeeps == ASSUME IInv, Connected PROVE IInv'
<1>1. queue = <<>> /\ replaying = <<>> /\ Under(queue) = {} /\ Under(replaying) = {}
  BY NothingLeft DEF Connected
<1> DEFINE S == {Beat(None)} \cup {Boot(by) : by \in Boots}
           restarts == options /\ registration = "Accepted"
           beats == IF restarts /\ LoopStarts THEN <<Beat(None)>> ELSE <<>>
           boots == IF waiting THEN <<Boot("start")>>
                    ELSE IF status = "starting" /\ (restarts => LoopStarts)
                    THEN <<Boot("retry")>> ELSE <<>>
<1>2. /\ session \in {"connecting", "reconnecting"}
      /\ session' = "online"
      /\ waiting' = FALSE
      /\ UNCHANGED <<registration, interval, status, retry, replaying>>
      /\ queue' = beats \o boots
      /\ IF restarts
            THEN StartLoop
            ELSE /\ silenced' = IF options /\ loop = None THEN "unregistered" ELSE silenced
                 /\ UNCHANGED <<options, loop, closures, resynced>>
  BY DEF Connected, HandleOnline
<1>3. S \subseteq Requests /\ \A r \in S : r.kind # "reports" /\ (r.kind = "beat" => r.of = None)
  BY RequestsAre DEF Beat, Boot, Boots
<1>4. queue' \in Seq(S) /\ Len(queue') <= 2 /\ Under(queue') \subseteq S
  <2>1. beats = <<>> \/ \E x \in S : beats = <<x>>
    OBVIOUS
  <2>2. boots = <<>> \/ \E x \in S : boots = <<x>>
    BY DEF Boots
  <2> HIDE DEF S, beats, boots
  <2> QED BY <1>2, <2>1, <2>2, AtMostOneEach
<1> HIDE DEF S, beats, boots
<1>5. QueueOK'
  <2>1. queue' \in Seq(Requests)
    BY <1>3, <1>4
  <2>2. replaying' = <<>> /\ Len(replaying') = 0
    BY <1>1, <1>2
  <2> QED BY <1>4, <2>1, <2>2, LoopsSuffice DEF QueueOK, UnderWay
<1>6. Named = {} /\ Named' = {} /\ ~ReportsUnderWay'
  <2>1. Under(replaying') = {}
    BY <1>1, <1>2
  <2>2. Named = {} /\ Named' = {}
    BY <1>1, <1>3, <1>4, <2>1, NamedByIs DEF Named
  <2> QED BY <1>3, <1>4, <2>2 DEF ReportsUnderWay
<1>7. LoopOK' /\ (status = "running" => Excused')
  <2>1. CASE restarts
    <3>1. Inherits
      BY <1>6 DEF Inherits
    <3>2. interval' \in Intervals /\ interval' = interval
      BY <1>2 DEF IInv, ActorOK
    <3> QED BY <1>2, <1>5, <2>1, <3>1, <3>2, StartLoopKeeps DEF IInv
  <2>2. CASE ~restarts
    <3>1. status = "running" => Excused
      BY <1>2 DEF IInv, Follows, ConnectingStarts, RunningExplained, Excused
    <3>2. /\ UNCHANGED <<options, loop, closures, resynced, interval>>
          /\ silenced' \in {silenced, "unregistered"}
      BY <1>2, <2>2
    <3>3. LoopOK'
      BY <1>6, <3>2 DEF IInv, LoopOK, LoopBeatsAsConfigured, Explained
    <3> QED BY <3>1, <3>2, <3>3 DEF Excused, Explained
  <2> QED BY <2>1, <2>2
<1> QED
  BY <1>2, <1>5, <1>6, <1>7 DEF IInv, ActorOK, Follows, ReportsExplained,
     RunningExplained, ConnectingStarts, OfflineAsksNothing, Excused

LEMMA ConnectFailsKeeps == ASSUME IInv, ConnectFails PROVE IInv'
<1>1. /\ UNCHANGED <<registration, interval, options, loop, closures, resynced,
                     silenced, retry, queue, replaying>>
      /\ session = "connecting" /\ session' = "reconnecting" /\ waiting' = FALSE
      /\ status' = IF waiting THEN "starting" ELSE status
  BY DEF ConnectFails, point
<1>2. Named' = Named
  BY <1>1 DEF Named
<1>3. LoopOK'
  BY <1>1, <1>2, PointUnchanged DEF IInv
<1>4. QueueOK' /\ ReportsUnderWay' = ReportsUnderWay
  BY <1>1 DEF IInv, QueueOK, UnderWay, ReportsUnderWay
<1> QED
  BY <1>1, <1>3, <1>4 DEF IInv, ActorOK, Follows, ReportsExplained, RunningExplained,
     ConnectingStarts, OfflineAsksNothing

LEMMA SessionEndsKeeps ==
    ASSUME IInv, ~Settling, session # "online", session' = "idle",
           UNCHANGED <<registration, interval, queue, replaying>>, waiting' \in BOOLEAN,
           retry' \in BOOLEAN, status' \in {"stopped", "starting", "running"},
           StopRuntime \/ MarkPlatformOffline
    PROVE  IInv'
<1>1. queue = <<>> /\ replaying = <<>> /\ Under(queue) = {} /\ Under(replaying) = {}
  BY NothingLeft
<1>2. Inherits
  BY FewerInherits DEF IInv
<1>3. LoopOK'
  BY <1>2, StopRuntimeKeeps, StopLoopKeeps DEF IInv, LoopOK, MarkPlatformOffline
<1>4. QueueOK' /\ ~ReportsUnderWay'
  BY <1>1 DEF IInv, QueueOK, UnderWay, ReportsUnderWay
<1> QED
  BY <1>1, <1>3, <1>4 DEF IInv, ActorOK, Follows, ReportsExplained, RunningExplained,
     ConnectingStarts, OfflineAsksNothing

LEMMA ExhaustedKeeps == ASSUME IInv, Exhausted PROVE IInv'
<1>1. /\ ~Settling /\ session = "reconnecting" /\ session' = "idle" /\ waiting' = FALSE
      /\ UNCHANGED <<registration, interval, queue, replaying>>
      /\ StopRuntime \/ MarkPlatformOffline
      /\ status' \in {status, "stopped"} /\ retry' \in {retry, FALSE}
  BY DEF Exhausted
<1> QED BY <1>1, SessionEndsKeeps DEF IInv, ActorOK

LEMMA DisconnectedKeeps == ASSUME IInv, Disconnected PROVE IInv'
<1>1. /\ ~Settling /\ session = "disconnecting" /\ session' = "idle"
      /\ UNCHANGED <<registration, interval, waiting, retry, queue, replaying>>
      /\ MarkPlatformOffline /\ status' = "stopped"
  BY DEF Disconnected
<1> QED BY <1>1, SessionEndsKeeps DEF IInv, ActorOK

LEMMA ConnectionLostKeeps == ASSUME IInv, ConnectionLost PROVE IInv'
<1>1. /\ UNCHANGED <<registration, interval, options, loop, closures, resynced,
                     silenced, status, waiting, retry, queue, replaying>>
      /\ session = "online" /\ session' = "reconnecting"
  BY DEF ConnectionLost, point
<1>2. Named' = Named
  BY <1>1 DEF Named
<1>3. LoopOK'
  BY <1>1, <1>2, PointUnchanged DEF IInv
<1>4. QueueOK' /\ ReportsUnderWay' = ReportsUnderWay
  BY <1>1 DEF IInv, QueueOK, UnderWay, ReportsUnderWay
<1> QED
  BY <1>1, <1>3, <1>4 DEF IInv, ActorOK, Follows, ReportsExplained, RunningExplained,
     ConnectingStarts, OfflineAsksNothing

LEMMA TickKeeps == ASSUME IInv, Tick PROVE IInv'
<1>1. /\ UnderWay < MaxUnderWay /\ queue' = Append(queue, Beat(loop))
      /\ UNCHANGED <<registration, interval, options, loop, closures, resynced,
                     silenced, session, status, waiting, retry, replaying>>
  BY DEF Tick, point
<1>2. Beat(loop) \in Requests /\ Beat(loop).kind = "beat" /\ Beat(loop).of = loop
  BY RequestsAre DEF IInv, LoopOK
<1>3. LoopOK' /\ QueueOK' /\ (ReportsUnderWay' <=> ReportsUnderWay)
  BY <1>1, <1>2, AskedKeeps
<1> QED
  BY <1>1, <1>3 DEF IInv, ActorOK, Follows, ReportsExplained, RunningExplained, ConnectingStarts,
     OfflineAsksNothing

LEMMA TriggerMessageKeeps ==
    ASSUME IInv, NEW r \in {Boot("trigger"), Beat(None)}, TriggerMessage(r) PROVE IInv'
<1>1. /\ UnderWay < MaxUnderWay /\ queue' = Append(queue, r)
      /\ UNCHANGED <<registration, interval, options, loop, closures, resynced,
                     silenced, session, status, waiting, retry, replaying>>
  BY DEF TriggerMessage, point
<1>2. r \in Requests /\ r.kind # "reports" /\ (r.kind = "beat" => r.of = None)
  BY RequestsAre DEF Boots
<1>3. LoopOK' /\ QueueOK' /\ (ReportsUnderWay' <=> ReportsUnderWay)
  BY <1>1, <1>2, AskedKeeps
<1> QED
  BY <1>1, <1>3 DEF IInv, ActorOK, Follows, ReportsExplained, RunningExplained, ConnectingStarts,
     OfflineAsksNothing

\* What a request that ends or is answered leaves under way.
LEMMA TakenFirst ==
    ASSUME IInv, queue # <<>>, queue' = Tail(queue),
           \/ replaying' = replaying
           \/ replaying' = Append(replaying, Head(queue)) /\ Head(queue).kind # "reports"
    PROVE  /\ QueueOK'
           /\ Inherits
           /\ ReportsUnderWay' => ReportsUnderWay
           /\ Head(queue) \in Requests /\ Head(queue) \in Under(queue)
<1>1. /\ Head(queue) \in Requests /\ Head(queue) \in Under(queue)
      /\ queue' \in Seq(Requests) /\ Len(queue') = Len(queue) - 1
      /\ Under(queue') \subseteq Under(queue)
  BY TailUnder DEF IInv, QueueOK
<1>2. /\ replaying' \in Seq(Requests) /\ Len(replaying') <= Len(replaying) + 1
      /\ Under(replaying') \subseteq Under(replaying) \cup {Head(queue)}
      /\ \A r \in Under(replaying') : r.kind = "reports" => r \in Under(replaying)
  <2>1. CASE replaying' = replaying
    BY <2>1 DEF IInv, QueueOK
  <2>2. CASE replaying' = Append(replaying, Head(queue)) /\ Head(queue).kind # "reports"
    BY <1>1, <2>2, AppendUnder DEF IInv, QueueOK
  <2> QED BY <2>1, <2>2
<1>3. QueueOK'
  <2>1. Len(queue) \in Nat /\ Len(replaying) \in Nat /\ Len(replaying') \in Nat
        /\ Len(queue') \in Nat /\ MaxUnderWay \in Nat
    BY <1>1, <1>2, LoopsSuffice DEF IInv, QueueOK
  <2> QED BY <1>1, <1>2, <2>1 DEF IInv, QueueOK, UnderWay
<1>4. Inherits
  BY <1>1, <1>2, FewerInherits DEF IInv
<1> QED BY <1>1, <1>3, <1>4 DEF ReportsUnderWay

LEMMA TakenLast ==
    ASSUME IInv, ReplayEnds, queue' = queue
    PROVE  /\ QueueOK'
           /\ Inherits
           /\ ReportsUnderWay' <=> ReportsUnderWay
           /\ Awaiting \in Requests /\ Awaiting \in Under(replaying)
<1>1. /\ Awaiting \in Requests /\ Awaiting \in Under(replaying)
      /\ replaying' \in Seq(Requests) /\ Len(replaying') = Len(replaying) - 1
      /\ Under(replaying') \subseteq Under(replaying)
  BY FrontUnder DEF IInv, QueueOK, ReplayEnds, Awaiting
<1>2. QueueOK'
  <2>1. Len(queue) \in Nat /\ Len(replaying) \in Nat /\ MaxUnderWay \in Nat
    BY LoopsSuffice DEF IInv, QueueOK
  <2> QED BY <1>1, <2>1 DEF IInv, QueueOK, UnderWay
<1>3. Inherits
  BY <1>1, FewerInherits DEF IInv
<1> QED BY <1>1, <1>2, <1>3 DEF ReportsUnderWay

LEMMA BootFailsStep ==
    ASSUME IInv, Inherits, QueueOK', NEW by, BootFails(by), interval' = interval,
           registration' \in Registrations, waiting' = waiting,
           ReportsUnderWay' => ReportsUnderWay, replaying = <<>> => replaying' = <<>>
    PROVE  IInv'
BY BootFailsKeeps DEF IInv, ActorOK

LEMMA FailsStep ==
    ASSUME IInv, Inherits, QueueOK', interval' = interval,
           registration' \in Registrations, waiting' = waiting,
           ReportsUnderWay' => ReportsUnderWay, replaying = <<>> => replaying' = <<>>,
           NEW r \in Under(queue) \cup Under(replaying), Fails(r)
    PROVE  IInv'
<1>1. CASE r.kind = "beat"
  <2>1. BeatFails(r.of) /\ UNCHANGED <<session, status, retry>>
    BY <1>1 DEF Fails
  <2>2. r.of \in DOMAIN closures \cup {None}
    BY <1>1, NamedByIs DEF Named, IInv, LoopOK
  <2>3. LoopOK' /\ (Excused => Excused')
    BY <2>1, <2>2, BeatFailsKeeps DEF IInv
  <2> QED
    BY <2>1, <2>3 DEF IInv, ActorOK, Follows, ReportsExplained, RunningExplained,
       ConnectingStarts, OfflineAsksNothing, Excused
<1>2. CASE r.kind # "beat"
  BY <1>2, BootFailsStep DEF Fails
<1> QED BY <1>1, <1>2

LEMMA RequestFailsKeeps == ASSUME IInv, RequestFails PROVE IInv'
<1>1. /\ queue # <<>> /\ queue' = Tail(queue) /\ Fails(Head(queue))
      /\ UNCHANGED <<registration, interval, waiting, replaying>>
  BY DEF RequestFails
<1>2. QueueOK' /\ Inherits /\ (ReportsUnderWay' => ReportsUnderWay)
      /\ Head(queue) \in Under(queue)
  BY <1>1, TakenFirst
<1> QED BY <1>1, <1>2, FailsStep DEF IInv, ActorOK

\* The actor runs after its reports, which followed the start of a loop.
LEMMA ReportedKeeps == ASSUME IInv, Reported PROVE IInv'
<1>1. /\ queue # <<>> /\ queue' = Tail(queue) /\ Head(queue).kind = "reports"
      /\ UNCHANGED <<registration, interval, waiting, replaying>>
  BY DEF Reported
<1>2. QueueOK' /\ Inherits /\ (ReportsUnderWay' => ReportsUnderWay)
      /\ Head(queue) \in Under(queue)
  BY <1>1, TakenFirst
<1>3. CASE /\ status' = "running"
           /\ UNCHANGED <<options, loop, closures, resynced, silenced, session, retry>>
  <2>1. ReportsUnderWay
    BY <1>1, <1>2 DEF ReportsUnderWay
  <2>2. Named' = Named
    <3>1. Under(queue) = Under(queue') \cup {Head(queue)}
      BY <1>1, TailUnder DEF IInv, QueueOK
    <3> QED BY <1>1, <3>1, NamedSame
  <2>3. LoopOK'
    BY <1>1, <1>3, <2>2, PointUnchanged DEF IInv
  <2> QED
    BY <1>1, <1>2, <1>3, <2>1, <2>3 DEF IInv, ActorOK, Follows, ReportsExplained,
       RunningExplained, ConnectingStarts, OfflineAsksNothing
<1>4. CASE BootFails(Head(queue).of)
  BY <1>1, <1>2, <1>4, BootFailsStep DEF IInv, ActorOK
<1> QED BY <1>3, <1>4 DEF Reported

LEMMA BeatAcceptedKeeps == ASSUME IInv, BeatAccepted PROVE IInv'
<1>1. /\ queue # <<>> /\ queue' = Tail(queue) /\ Head(queue).kind = "beat"
      /\ replaying' = Append(replaying, Head(queue)) /\ session = "online"
      /\ UNCHANGED <<registration, interval, options, loop, closures, resynced,
                     silenced, session, status, waiting, retry>>
  BY DEF BeatAccepted, Answers, point
<1>2. QueueOK' /\ (ReportsUnderWay' => ReportsUnderWay) /\ Head(queue) \in Requests
  BY <1>1, TakenFirst
<1>3. Named' = Named
  <2>1. Under(queue) = Under(queue') \cup {Head(queue)}
        /\ Under(replaying') = Under(replaying) \cup {Head(queue)}
    BY <1>1, <1>2, TailUnder, AppendUnder DEF IInv, QueueOK
  <2> QED BY <2>1, NamedSame
<1>4. LoopOK'
  BY <1>1, <1>3, PointUnchanged DEF IInv
<1> QED
  BY <1>1, <1>2, <1>4 DEF IInv, ActorOK, Follows, ReportsExplained, RunningExplained,
     ConnectingStarts, OfflineAsksNothing

LEMMA BootAcceptedKeeps ==
    ASSUME IInv, NEW i \in Intervals \cup {-1}, BootAccepted(i) PROVE IInv'
<1>1. /\ queue # <<>> /\ queue' = Tail(queue) /\ Head(queue).kind = "boot"
      /\ replaying' = Append(replaying, Head(queue)) /\ session = "online"
      /\ SyncAccepted(Store, "HeartbeatInterval", IntValue(i))
      /\ registration' = "Accepted" /\ interval' = i
      /\ resynced' = (loop # None /\ (resynced \/ i # closures[loop].every))
      /\ UNCHANGED <<options, loop, closures, silenced, session, status, waiting, retry>>
  BY DEF BootAccepted, Answers
<1>2. i \in Intervals
  <2>1. interval \in Int /\ i \in Int
    BY Thresholds DEF IInv, ActorOK
  <2>2. i >= 0
    BY <1>1, <2>1, SyncedIsNatural DEF Store, StoreOf
  <2> QED BY <2>2
<1>3. QueueOK' /\ (ReportsUnderWay' => ReportsUnderWay) /\ Head(queue) \in Requests
  BY <1>1, TakenFirst
<1>4. Named' = Named
  <2>1. Under(queue) = Under(queue') \cup {Head(queue)}
        /\ Under(replaying') = Under(replaying) \cup {Head(queue)}
    BY <1>1, <1>3, TailUnder, AppendUnder DEF IInv, QueueOK
  <2> QED BY <1>1, <2>1, NamedSame
<1>5. LoopOK'
  BY <1>1, <1>4 DEF IInv, LoopOK, LoopBeatsAsConfigured
<1> QED
  BY <1>1, <1>2, <1>3, <1>5 DEF IInv, ActorOK, Registrations, Follows, ReportsExplained,
     RunningExplained, ConnectingStarts, OfflineAsksNothing

LEMMA BootThrowsKeeps ==
    ASSUME IInv, NEW i, BootThrows(i) PROVE IInv'
<1>1. /\ queue # <<>> /\ queue' = Tail(queue) /\ BootFails(Head(queue).of)
      /\ registration' = "Accepted" /\ UNCHANGED <<interval, replaying, waiting>>
  BY DEF BootThrows, Answers
<1>2. QueueOK' /\ Inherits /\ (ReportsUnderWay' => ReportsUnderWay)
  BY <1>1, TakenFirst
<1> QED BY <1>1, <1>2, BootFailsStep DEF Registrations

\* A start-up that goes on or is nobody's leaves the loop as it is.
LEMMA GoesOnStep ==
    ASSUME IInv, Inherits, QueueOK', LoopGoesOn, interval' = interval,
           registration' \in Registrations, waiting' = waiting,
           status' \in {status, "starting"}, retry' \in BOOLEAN, session' = session,
           ReportsUnderWay' => ReportsUnderWay, replaying = <<>> => replaying' = <<>>
    PROVE  IInv'
<1>1. LoopOK' /\ loop' = loop /\ silenced' = silenced
  BY GoesOnKeeps DEF IInv
<1> QED
  BY <1>1 DEF IInv, ActorOK, Follows, ReportsExplained, RunningExplained, ConnectingStarts,
     OfflineAsksNothing

LEMMA BootRefusedKeeps ==
    ASSUME IInv, NEW answer \in {"Pending", "Rejected"}, BootRefused(answer) PROVE IInv'
<1>1. /\ queue # <<>> /\ queue' = Tail(queue)
      /\ registration' = answer /\ UNCHANGED <<interval, replaying, waiting>>
      /\ BootRefuses(Head(queue).of, answer)
  BY DEF BootRefused, Answers
<1>2. QueueOK' /\ Inherits /\ (ReportsUnderWay' => ReportsUnderWay)
  BY <1>1, TakenFirst
<1>3. \/ BootFails(Head(queue).of)
      \/ /\ LoopGoesOn /\ session' = session /\ status' \in {status, "starting"}
         /\ retry' \in {retry, TRUE}
  BY <1>1 DEF BootRefuses
<1> QED BY <1>1, <1>2, <1>3, BootFailsStep, GoesOnStep DEF Registrations, IInv, ActorOK

LEMMA ReplayThrowsKeeps == ASSUME IInv, ReplayThrows PROVE IInv'
<1>1. ReplayEnds /\ queue' = queue /\ Fails(Awaiting)
  BY DEF ReplayThrows
<1>2. QueueOK' /\ Inherits /\ (ReportsUnderWay' <=> ReportsUnderWay)
      /\ Awaiting \in Under(replaying)
  BY <1>1, TakenLast
<1>3. UNCHANGED <<registration, interval, waiting>> /\ replaying # <<>>
  BY <1>1 DEF ReplayEnds
<1> QED BY <1>1, <1>2, <1>3, FailsStep DEF IInv, ActorOK

\* The reports of an accepted boot follow the start of a loop.
LEMMA CompleteAcceptedKeeps ==
    ASSUME IInv, ReplayEnds, NEW by \in Boots, CompleteAccepted(by) PROVE IInv'
<1> DEFINE completes == LoopStarts /\ registration' = "Accepted"
<1>1. /\ queue' = IF completes THEN Append(queue, Reports(by)) ELSE queue
      /\ IF completes
            THEN StartLoop /\ UNCHANGED <<session, status, retry>>
            ELSE BootFails(by)
  BY DEF CompleteAccepted
<1>2. UNCHANGED <<registration, interval, waiting>> /\ replaying # <<>>
  BY DEF ReplayEnds
<1>3. CASE ~completes
  <2>1. queue' = queue /\ BootFails(by)
    BY <1>1, <1>3
  <2>2. QueueOK' /\ Inherits /\ (ReportsUnderWay' <=> ReportsUnderWay)
    BY <2>1, TakenLast
  <2> QED BY <1>2, <2>1, <2>2, BootFailsStep DEF IInv, ActorOK
<1>4. CASE completes
  <2>1. queue' = Append(queue, Reports(by)) /\ StartLoop
        /\ UNCHANGED <<session, status, retry>>
    BY <1>1, <1>4
  <2>2. Reports(by) \in Requests /\ Reports(by).kind = "reports"
    BY RequestsAre
  <2>3. /\ queue' \in Seq(Requests) /\ Len(queue') = Len(queue) + 1
        /\ Under(queue') = Under(queue) \cup {Reports(by)}
    BY <2>1, <2>2, AppendUnder DEF IInv, QueueOK
  <2>4. /\ replaying' \in Seq(Requests) /\ Len(replaying') = Len(replaying) - 1
        /\ Under(replaying') \subseteq Under(replaying)
    BY FrontUnder DEF IInv, QueueOK, ReplayEnds
  <2>5. QueueOK'
    <3>1. Len(queue) \in Nat /\ Len(replaying) \in Nat /\ MaxUnderWay \in Nat
      BY LoopsSuffice DEF IInv, QueueOK
    <3> QED BY <2>3, <2>4, <3>1 DEF IInv, QueueOK, UnderWay
  <2>6. Inherits
    BY <2>2, <2>3, <2>4, FewerInherits DEF IInv
  <2>7. LoopOK' /\ Excused'
    BY <1>2, <2>1, <2>5, <2>6, StartLoopKeeps DEF IInv, ActorOK
  <2>8. session \notin {"idle", "connecting"}
    BY <1>2 DEF IInv, Follows, OfflineAsksNothing
  <2> QED
    BY <1>2, <2>1, <2>5, <2>7, <2>8 DEF IInv, ActorOK, Follows, ReportsExplained,
       RunningExplained, ConnectingStarts, OfflineAsksNothing, Excused
<1> QED BY <1>3, <1>4

LEMMA ReplayedKeeps == ASSUME IInv, Replayed PROVE IInv'
<1> DEFINE r == Awaiting
<1>1. ReplayEnds /\ UNCHANGED <<registration, interval, waiting>> /\ replaying # <<>>
  BY DEF Replayed, ReplayEnds
<1>2. r \in Requests
  BY FrontUnder, <1>1 DEF IInv, QueueOK, Awaiting
<1>3. CASE r.kind = "boot" /\ Awaited(r.of)
  <2>1. CompleteAccepted(r.of) /\ r.of \in Boots
    BY <1>2, <1>3, RequestsAre DEF Replayed
  <2> QED BY <1>1, <2>1, CompleteAcceptedKeeps
<1>4. CASE r.kind = "boot" /\ ~Awaited(r.of)
  <2>1. UNCHANGED <<queue, session, status, retry>> /\ LoopGoesOn
    BY <1>4 DEF Replayed
  <2>2. QueueOK' /\ Inherits /\ (ReportsUnderWay' <=> ReportsUnderWay)
    BY <1>1, <2>1, TakenLast
  <2> QED BY <1>1, <2>1, <2>2, GoesOnStep DEF IInv, ActorOK
<1>5. CASE r.kind # "boot"
  <2> DEFINE cs == IF r.of = None THEN closures ELSE [closures EXCEPT ![r.of].failures = 0]
  <2>1. /\ UNCHANGED <<queue, options, loop, resynced, silenced, session, status, retry>>
        /\ closures' = Alive(cs, loop)
    BY <1>5 DEF Replayed
  <2>2. QueueOK' /\ Inherits /\ (ReportsUnderWay' <=> ReportsUnderWay)
        /\ r \in Under(replaying)
    BY <1>1, <2>1, TakenLast
  <2>3. r.of = None \/ r.kind = "reports" \/ r.of \in DOMAIN closures
    BY <1>2, <1>5, <2>2, RequestsAre, NamedByIs DEF Named, IInv, LoopOK
  <2>4. /\ cs \in [DOMAIN cs -> Closures] /\ DOMAIN cs = DOMAIN closures
        /\ \A c \in DOMAIN closures : cs[c].every = closures[c].every
    <3>1. CASE r.of = None \/ r.of \notin DOMAIN closures
      BY <3>1 DEF IInv, LoopOK
    <3>2. CASE r.of # None /\ r.of \in DOMAIN closures
      <4> DEFINE x == [closures[r.of] EXCEPT !.failures = 0]
      <4>1. closures[r.of] \in Closures
        BY <3>2 DEF IInv, LoopOK
      <4>2. x \in Closures /\ x.every = closures[r.of].every
        BY <4>1, Thresholds DEF Closures
      <4> HIDE DEF x
      <4>3. cs = [closures EXCEPT ![r.of] = x]
        BY <3>2 DEF x
      <4> HIDE DEF cs, r
      <4> QED BY <3>2, <4>2, <4>3 DEF IInv, LoopOK
    <3> QED BY <3>1, <3>2
  <2> HIDE DEF cs
  <2>5. /\ DOMAIN closures' = (Named' \cup {loop}) \ {None}
        /\ closures' \in [DOMAIN closures' -> Closures]
        /\ \A c \in DOMAIN closures' : closures'[c] = cs[c]
    <3>1. loop \in DOMAIN closures \cup {None} /\ None \notin DOMAIN closures
      BY DEF IInv, LoopOK
    <3>2. LET next == Alive(cs, loop)
          IN  /\ DOMAIN next = (Named' \cup {loop}) \ {None}
              /\ next \in [DOMAIN next -> Closures]
              /\ \A c \in DOMAIN next : next[c] = cs[c]
      BY <2>2, <2>4, <3>1, AliveIs
    <3> QED BY <2>1, <3>2
  <2>6. LoopBeatsAsConfigured'
    <3>1. SUFFICES ASSUME loop # None, ~resynced
                   PROVE  closures'[loop].every = interval
      BY <1>1, <2>1 DEF LoopBeatsAsConfigured
    <3>2. loop \in DOMAIN closures /\ loop \in DOMAIN closures'
      BY <2>5, <3>1 DEF IInv, LoopOK
    <3> QED BY <2>4, <2>5, <3>1, <3>2 DEF IInv, LoopOK, LoopBeatsAsConfigured
  <2>7. LoopOK'
    BY <2>1, <2>5, <2>6 DEF IInv, LoopOK
  <2> QED
    BY <1>1, <2>1, <2>2, <2>7 DEF IInv, ActorOK, Follows, ReportsExplained, RunningExplained,
       ConnectingStarts, OfflineAsksNothing
<1> QED BY <1>3, <1>4, <1>5

\* A change that is applied is the interval of the loop that follows it.
LEMMA ChangeIntervalKeeps ==
    ASSUME IInv, NEW i \in Intervals \cup {-1}, ChangeInterval(i) PROVE IInv'
<1> DEFINE result == ChangeConfiguration(Store, "HeartbeatInterval", IntValue(i), 1)
<1>1. /\ result.applies
      /\ \E n \in HeartbeatIntervalSec(result.catalog) : interval' = n
      /\ UNCHANGED <<registration, session, status, waiting, retry, queue, replaying>>
      /\ RestartLoop
  BY DEF ChangeInterval
<1>2. i \in Int /\ interval \in Int /\ Store = StoreOf(interval)
  BY Thresholds DEF IInv, ActorOK, Store, StoreOf
<1>3. i > 0 /\ HeartbeatIntervalSec(result.catalog) = {i}
  <2>1. ChangeConfiguration(StoreOf(interval), "HeartbeatInterval", IntValue(i), 1).applies
    BY <1>1, <1>2
  <2> QED BY <1>2, <2>1, ChangedIsRead
<1> HIDE DEF result
<1>4. interval' = i /\ interval' \in Intervals \ {0}
  BY <1>1, <1>3
<1>5. QueueOK' /\ ReportsUnderWay' = ReportsUnderWay /\ Inherits /\ Named' = Named
  BY <1>1, FewerInherits DEF IInv, QueueOK, UnderWay, ReportsUnderWay, Named
<1>6. LoopOK' /\ (Excused => Excused')
  <2>1. CASE loop = None
    <3>1. UNCHANGED <<options, loop, closures, resynced, silenced>>
      BY <1>1, <2>1 DEF RestartLoop
    <3> QED BY <1>5, <2>1, <3>1 DEF IInv, LoopOK, LoopBeatsAsConfigured, Excused
  <2>2. CASE loop # None /\ registration = "Accepted"
    <3>1. NewLoop /\ options' = options
      BY <1>1, <2>2 DEF RestartLoop
    <3> QED BY <1>4, <1>5, <3>1, NewLoopKeeps DEF IInv, LoopOK, Excused
  <2>3. CASE loop # None /\ registration # "Accepted"
    <3>1. StopLoop("unregistered") /\ options' = options
      BY <1>1, <2>3 DEF RestartLoop
    <3>2. silenced' = "unregistered"
      BY <2>3, <3>1 DEF StopLoop
    <3>3. LoopOK'
      BY <1>5, <3>1, StopLoopKeeps DEF IInv, Explained
    <3> QED BY <3>2, <3>3 DEF Excused, Explained
  <2> QED BY <2>1, <2>2, <2>3
<1> QED
  BY <1>1, <1>4, <1>5, <1>6 DEF IInv, ActorOK, Follows, ReportsExplained, RunningExplained,
     ConnectingStarts, OfflineAsksNothing, Excused

LEMMA StutterKeeps == ASSUME IInv, UNCHANGED vars PROVE IInv'
<1>1. UNCHANGED <<registration, interval, options, loop, closures, resynced, silenced,
                  session, status, waiting, retry, queue, replaying>>
  BY DEF vars, point
<1>2. Named' = Named
  BY <1>1 DEF Named
<1> QED
  BY <1>1, <1>2, PointUnchanged DEF IInv, ActorOK, QueueOK, UnderWay, Follows, ReportsUnderWay,
     ReportsExplained, RunningExplained, ConnectingStarts, OfflineAsksNothing

LEMMA StepInvariant == ASSUME IInv, [Next]_vars PROVE IInv'
<1>1. CASE UNCHANGED vars
  BY <1>1, StutterKeeps
<1>2. CASE Start \/ Stop \/ RetryBoot
  BY <1>2, StartKeeps, StopStepKeeps, RetryBootKeeps
<1>3. CASE Connected \/ ConnectFails \/ Exhausted \/ ConnectionLost \/ Disconnected
  BY <1>3, ConnectedKeeps, ConnectFailsKeeps, ExhaustedKeeps, ConnectionLostKeeps,
     DisconnectedKeeps
<1>4. CASE Tick \/ RequestFails \/ Reported \/ BeatAccepted
  BY <1>4, TickKeeps, RequestFailsKeeps, ReportedKeeps, BeatAcceptedKeeps
<1>5. CASE Replayed \/ ReplayThrows
  BY <1>5, ReplayedKeeps, ReplayThrowsKeeps
<1>6. CASE \E i \in Intervals \cup {-1} :
             BootAccepted(i) \/ BootThrows(i) \/ ChangeInterval(i)
  BY <1>6, BootAcceptedKeeps, BootThrowsKeeps, ChangeIntervalKeeps
<1>7. CASE \E answer \in {"Pending", "Rejected"} : BootRefused(answer)
  BY <1>7, BootRefusedKeeps
<1>8. CASE \E r \in {Boot("trigger"), Beat(None)} : TriggerMessage(r)
  BY <1>8, TriggerMessageKeeps
<1> QED BY <1>1, <1>2, <1>3, <1>4, <1>5, <1>6, <1>7, <1>8 DEF Next

THEOREM HeartbeatInvariant == Spec => []IInv
<1>1. Init => IInv
  BY InitInvariant
<1>2. IInv /\ [Next]_vars => IInv'
  BY StepInvariant
<1> QED BY <1>1, <1>2, PTL DEF Spec

\* The heartbeats of a loop come at the interval that is configured, for any
\* number of loops, requests under way and intervals.
THEOREM BeatsAsConfigured == Spec => []LoopBeatsAsConfigured
<1>1. IInv => LoopBeatsAsConfigured
  BY DEF IInv, LoopOK
<1> QED BY <1>1, HeartbeatInvariant, PTL

\* A registered actor that runs online without a heartbeat loop has lost it
\* to one of the four events that the code has for it: connections that come
\* and go, start-ups that overlap and replays that fail end it in no other way.
THEOREM RunningBeats == Spec => []RunningActorBeats
<1>1. IInv => RunningActorBeats
  BY DEF IInv, Follows, RunningExplained, RunningActorBeats
<1> QED BY <1>1, HeartbeatInvariant, PTL
=============================================================================
