--------------------------- MODULE Configuration ---------------------------
(***************************************************************************)
(* The configuration of a charging point: entries with a type, a range and *)
(* a selector, the catalog that holds them, the store that OCPP 1.6 lays   *)
(* over it with the keys it defines, and the commands that read and change *)
(* it.                                                                     *)
(*                                                                         *)
(* A value is text; what the code tells apart is whether it spells a       *)
(* boolean, an integer or neither, and whether it is spelled plainly:      *)
(* " TRUE " and "007" are not.  What may be undefined is a set of at most  *)
(* one member.  A catalog is a function from keys to entries; an operation *)
(* that throws has a guard that says when it does not.  "none" stands for  *)
(* the empty text.                                                         *)
(***************************************************************************)
EXTENDS Integers, Sequences, FiniteSets

CONSTANT MaxSafeInteger     \* Number.MAX_SAFE_INTEGER

ASSUME SafeIntegers == MaxSafeInteger \in Nat /\ MaxSafeInteger >= 100

TextValue(t) == [form |-> "text", text |-> t, number |-> 0, plain |-> TRUE]
BoolValue(b) == [form |-> "boolean", text |-> IF b THEN "true" ELSE "false",
                 number |-> 0, plain |-> TRUE]
IntValue(n) == [form |-> "integer", text |-> "integer", number |-> n, plain |-> TRUE]
Plainly(v) == [v EXCEPT !.plain = TRUE]

----------------------------------------------------------------------------
(* Selectors *)

Flat(key) == [key |-> {key}, component |-> {}, variable |-> {}, attribute |-> {}]

Structured(s) == s.component # {} \/ s.variable # {} \/ s.attribute # {}

\* A component names a connector only together with its EVSE.
ComponentAccepted(c) ==
    /\ \A id \in c.evseId \cup c.connectorId : id > 0
    /\ c.connectorId # {} => c.evseId # {}

\* normalizeSelector throws on other selectors.  fallback is the key of the
\* entry, if it has one.
SelectorAccepted(s, fallback) ==
    /\ \A c \in s.component : ComponentAccepted(c)
    /\ s.key = {} \/ fallback = {} \/ s.key = fallback
    /\ IF Structured(s)
         THEN s.component # {} /\ s.variable # {}
         ELSE s.key \cup fallback # {}

NormalSelector(s, fallback) ==
    [s EXCEPT !.key = IF s.key # {} THEN s.key ELSE fallback]

\* createStructuredSelectorKey: an attribute left out is the actual one.
StructuredKey(s) ==
    [component |-> s.component, variable |-> s.variable,
     attribute |-> IF s.attribute = {} THEN {"Actual"} ELSE s.attribute]

\* Two entries of one selector id are the same variable.
SelectorId(s) ==
    IF s.component # {} /\ s.variable # {}
      THEN StructuredKey(s)
      ELSE [key |-> s.key]

EntryKey(s) == IF s.key # {} THEN CHOOSE k \in s.key : TRUE ELSE StructuredKey(s)

----------------------------------------------------------------------------
(* Entries *)

\* normalizeValue throws on other values.
Accepts(e, v) ==
    \/ e.valueType = "string"
    \/ e.valueType = "boolean" /\ v.form = "boolean"
    \/ /\ e.valueType = "integer" /\ v.form = "integer"
       /\ -MaxSafeInteger <= v.number /\ v.number <= MaxSafeInteger
       /\ \A m \in e.minValue : v.number >= m
       /\ \A m \in e.maxValue : v.number <= m

NormalizeValue(e, v) == IF e.valueType = "string" THEN v ELSE Plainly(v)

\* The constructor: it normalizes selector and value, and throws unless the
\* value is accepted and the range is one.
EntryAccepted(o) ==
    /\ SelectorAccepted(o.selector, o.key)
    /\ Accepts(o, o.value)
    /\ \A low \in o.minValue : \A high \in o.maxValue : low <= high
NewEntry(o) ==
    LET s == NormalSelector(o.selector, o.key)
    IN  [o EXCEPT !.selector = s, !.key = {EntryKey(s)},
                  !.value = NormalizeValue(o, o.value)]

KeyOf(e) == CHOOSE k \in e.key : TRUE

\* applyValue: an entry that has the value stays as it is, its date too.
ApplyValue(e, v, at) ==
    IF NormalizeValue(e, v) = e.value
      THEN [entry |-> e, status |-> "accepted"]
      ELSE [entry |-> [e EXCEPT !.value = NormalizeValue(e, v), !.updatedAt = {at}],
            status |-> IF e.rebootRequired THEN "reboot-required" ELSE "accepted"]

\* What the CSMS asks for respects readonly, the type and the range.
ChangeEntry(e, v, at) ==
    IF e.readonly \/ ~Accepts(e, v)
      THEN [entry |-> e, status |-> "rejected"]
      ELSE ApplyValue(e, v, at)

\* What the point learns is stored whether or not the entry is read-only.
SyncEntry(e, v, at) ==
    [entry |-> ApplyValue(e, v, at).entry,
     changed |-> NormalizeValue(e, v) # e.value]

----------------------------------------------------------------------------
(* The catalog *)

\* The constructor throws when two entries share a key or a selector id.
CatalogAccepted(entries) ==
    \A e, f \in entries :
        (KeyOf(e) = KeyOf(f) \/ SelectorId(e.selector) = SelectorId(f.selector))
        => e = f
NewCatalog(entries) ==
    [k \in {KeyOf(e) : e \in entries} |-> CHOOSE e \in entries : KeyOf(e) = k]
Entries(cat) == {cat[k] : k \in DOMAIN cat}

\* replaceEntry keeps every other entry, and its place.
ReplaceEntry(cat, e) ==
    [k \in DOMAIN cat |-> IF k = KeyOf(e) THEN e ELSE cat[k]]

ChangeValue(cat, key, v, at) ==
    IF key \notin DOMAIN cat
      THEN [catalog |-> cat, status |-> "not-supported"]
      ELSE LET result == ChangeEntry(cat[key], v, at)
           IN  [catalog |-> IF result.entry = cat[key] THEN cat
                            ELSE ReplaceEntry(cat, result.entry),
                status |-> result.status]

\* getEntryBySelector and changeValueBySelector: the key of the entry that
\* has the selector, if there is one.
KeyBySelector(cat, s) ==
    {k \in DOMAIN cat : SelectorId(cat[k].selector) = SelectorId(NormalSelector(s, {}))}
ChangeValueBySelector(cat, s, v, at) ==
    IF KeyBySelector(cat, s) = {}
      THEN [catalog |-> cat, status |-> "not-supported"]
      ELSE ChangeValue(cat, CHOOSE k \in KeyBySelector(cat, s) : TRUE, v, at)

\* syncValue throws when there is no such entry or it does not take the value.
SyncAccepted(cat, key, v) == key \in DOMAIN cat /\ Accepts(cat[key], v)
SyncValue(cat, key, v, at) ==
    LET result == SyncEntry(cat[key], v, at)
    IN  [catalog |-> IF result.entry = cat[key] THEN cat
                     ELSE ReplaceEntry(cat, result.entry),
         changed |-> result.changed]

----------------------------------------------------------------------------
(* The keys of OCPP 1.6 *)

TextKey(key, access, default) ==
    [key |-> key, access |-> access, valueType |-> "string",
     default |-> TextValue(default), minValue |-> {}]
BoolKey(key, access, default) ==
    [key |-> key, access |-> access, valueType |-> "boolean",
     default |-> BoolValue(default), minValue |-> {}]
IntKey(key, access, default, min) ==
    [key |-> key, access |-> access, valueType |-> "integer",
     default |-> IntValue(default), minValue |-> {min}]

\* The first keys of configurationDefinitions, up to MeterValueSampleInterval.
CoreDefinitions == {
    BoolKey("AllowOfflineTxForUnknownId", "RW", FALSE),
    BoolKey("AuthorizationCacheEnabled", "RW", TRUE),
    BoolKey("AuthorizeRemoteTxRequests", "R/RW", FALSE),
    IntKey("BlinkRepeat", "RW", 0, 0),
    IntKey("ClockAlignedDataInterval", "RW", 0, 0),
    IntKey("ConnectionTimeOut", "RW", 60, 0),
    TextKey("ConnectorPhaseRotation", "RW", "none"),
    IntKey("ConnectorPhaseRotationMaxLength", "R", 1, 0),
    IntKey("GetConfigurationMaxKeys", "R", 20, 1),
    IntKey("HeartbeatInterval", "RW", 60, 0),
    IntKey("LightIntensity", "RW", 100, 0),
    BoolKey("LocalAuthorizeOffline", "RW", TRUE),
    BoolKey("LocalPreAuthorize", "RW", FALSE),
    IntKey("MaxEnergyOnInvalidId", "RW", 0, 0),
    TextKey("MeterValuesAlignedData", "RW", "none"),
    IntKey("MeterValuesAlignedDataMaxLength", "R", 10, 0),
    TextKey("MeterValuesSampledData", "RW", "measurands"),
    IntKey("MeterValuesSampledDataMaxLength", "R", 10, 0),
    IntKey("MeterValueSampleInterval", "RW", 60, 0)}

\* The keys from MinimumStatusDuration to StopTransactionMaxMeterValues.
ReportDefinitions == {
    IntKey("MinimumStatusDuration", "RW", 0, 0),
    IntKey("NumberOfConnectors", "R", 1, 1),
    IntKey("ResetRetries", "RW", 3, 0),
    BoolKey("StopTransactionOnEVSideDisconnect", "RW", TRUE),
    BoolKey("StopTransactionOnInvalidId", "RW", TRUE),
    TextKey("StopTxnAlignedData", "RW", "none"),
    IntKey("StopTxnAlignedDataMaxLength", "R", 10, 0),
    TextKey("StopTxnSampledData", "RW", "measurands"),
    IntKey("StopTxnSampledDataMaxLength", "R", 10, 0),
    TextKey("SupportedFeatureProfiles", "R", "Core"),
    IntKey("SupportedFeatureProfilesMaxLength", "R", 1, 0),
    IntKey("TransactionMessageAttempts", "RW", 3, 1),
    IntKey("TransactionMessageRetryInterval", "RW", 60, 0),
    BoolKey("UnlockConnectorOnEVSideDisconnect", "RW", TRUE),
    IntKey("WebSocketPingInterval", "RW", 0, 0),
    IntKey("StopTransactionMaxMeterValues", "R", 10, 0)}

\* The keys of the other feature profiles.
ProfileDefinitions == {
    BoolKey("LocalAuthListEnabled", "RW", TRUE),
    IntKey("LocalAuthListMaxLength", "R", 99, 0),
    IntKey("SendLocalListMaxLength", "R", 99, 0),
    BoolKey("ReserveConnectorZeroSupported", "R", FALSE),
    IntKey("ChargeProfileMaxStackLevel", "R", 0, 0),
    TextKey("ChargingScheduleAllowedChargingRateUnit", "R", "none"),
    IntKey("ChargingScheduleMaxPeriods", "R", 0, 0),
    BoolKey("ConnectorSwitch3to1PhaseSupported", "R", FALSE),
    IntKey("MaxChargingProfilesInstalled", "R", 0, 0),
    TextKey("SupportedFileTransferProtocols", "R", "none")}

Definitions == CoreDefinitions \cup ReportDefinitions \cup ProfileDefinitions

\* createEntryOptions: no definition asks for a reboot or has a maximum.
EntryOptions(d) ==
    [key |-> {d.key}, selector |-> Flat(d.key), value |-> d.default,
     readonly |-> d.access = "R", valueType |-> d.valueType,
     rebootRequired |-> FALSE, minValue |-> d.minValue, maxValue |-> {},
     updatedAt |-> {}]
DefaultCatalog == NewCatalog({NewEntry(EntryOptions(d)) : d \in Definitions})

\* assertEntryMatchesDefinition.
Matches(e, d) ==
    /\ e.valueType = d.valueType
    /\ e.minValue = d.minValue
    /\ e.maxValue = {}
    /\ d.access = "R" => e.readonly

\* ensureConfigurationDefinitions throws when an entry does not match, and
\* adds the entries that are missing.
DefinitionsAccepted(cat) ==
    \A d \in Definitions : d.key \in DOMAIN cat => Matches(cat[d.key], d)
EnsureDefinitions(cat) ==
    LET missing == {d \in Definitions : d.key \notin DOMAIN cat}
    IN  IF missing = {} THEN cat
        ELSE NewCatalog(Entries(cat) \cup {NewEntry(EntryOptions(d)) : d \in missing})

\* A store takes the catalog of its own point and of OCPP 1.6 only.
StoreAccepted(point, catalogOf, protocol, cat) ==
    catalogOf = point /\ protocol = "OCPP16J" /\ DefinitionsAccepted(cat)

\* The store of a runtime knows how many EVSEs, and so connectors, the point
\* has; that of a point without one throws.
RuntimeStore(cat, evses, at) ==
    SyncValue(EnsureDefinitions(cat), "NumberOfConnectors", IntValue(evses), at).catalog

----------------------------------------------------------------------------
(* What the runtime reads, and the commands *)

IsEnabled(cat, key) == key \in DOMAIN cat /\ cat[key].value = BoolValue(TRUE)

\* Members are the usable value, if there is one.
PositiveInteger(v) ==
    IF v.form = "integer" /\ v.number > 0 /\ v.number <= MaxSafeInteger THEN {v.number} ELSE {}
PositiveIntegerConfig(cat, key) ==
    IF key \in DOMAIN cat THEN PositiveInteger(cat[key].value) ELSE {}

\* getHeartbeatIntervalSec throws, without a member, on others.
HeartbeatIntervalSec(cat) == PositiveIntegerConfig(cat, "HeartbeatInterval")

SupportsLocalAuthorizationList(cat) ==
    /\ IsEnabled(cat, "LocalAuthListEnabled")
    /\ PositiveIntegerConfig(cat, "LocalAuthListMaxLength") # {}

ConfigurationMaxKeys(cat) ==
    IF PositiveIntegerConfig(cat, "GetConfigurationMaxKeys") = {} THEN 0
    ELSE CHOOSE n \in PositiveIntegerConfig(cat, "GetConfigurationMaxKeys") : TRUE

KeyResponse(e) == [key |-> KeyOf(e), readonly |-> e.readonly, value |-> e.value]

\* handleGetConfiguration: all entries when no key is named; too many keys,
\* repeated ones included, are refused; a repeated key is answered once.
GetConfiguration(cat, keys) ==
    LET named == {keys[i] : i \in 1..Len(keys)}
    IN  IF keys = <<>>
          THEN [kind |-> "response", unknown |-> {},
                entries |-> {KeyResponse(e) : e \in Entries(cat)}]
        ELSE IF Len(keys) > ConfigurationMaxKeys(cat)
          THEN [kind |-> "OccurrenceConstraintViolation"]
        ELSE [kind |-> "response", unknown |-> named \ DOMAIN cat,
              entries |-> {KeyResponse(cat[k]) : k \in named \cap DOMAIN cat}]

\* changeStatusByModelStatus.
OcppChangeStatus(status) ==
    CASE status = "accepted" -> "Accepted"
      [] status = "rejected" -> "Rejected"
      [] status = "reboot-required" -> "RebootRequired"
      [] status = "not-supported" -> "NotSupported"

\* handleChangeConfiguration: a heartbeat interval must be usable besides.
\* `applies` says whether the loop that reads the key is restarted, also by
\* a value that was there already.
ChangeConfiguration(cat, key, v, at) ==
    IF key = "HeartbeatInterval" /\ PositiveInteger(v) = {}
      THEN [catalog |-> cat, status |-> "Rejected", applies |-> FALSE]
      ELSE LET result == ChangeValue(cat, key, v, at)
           IN  [catalog |-> result.catalog,
                status |-> OcppChangeStatus(result.status),
                applies |->
                    /\ result.status \in {"accepted", "reboot-required"}
                    /\ key \in {"HeartbeatInterval", "MeterValueSampleInterval"}]

----------------------------------------------------------------------------
(* Checked by TLC whenever a module that extends this one is *)

SampleValues ==
    {TextValue("none"), BoolValue(TRUE), [BoolValue(FALSE) EXCEPT !.plain = FALSE]}
      \cup {IntValue(n) : n \in {-1, 0, 1, 20, MaxSafeInteger, MaxSafeInteger + 1}}
      \cup {[IntValue(1) EXCEPT !.plain = FALSE]}

\* Every definition accepts its own default, no key is defined twice, and a
\* catalog that has all definitions is left as it is.
ASSUME DefaultsAreDefinitions ==
    /\ \A d \in Definitions : EntryAccepted(EntryOptions(d))
    /\ CatalogAccepted({NewEntry(EntryOptions(d)) : d \in Definitions})
    /\ Cardinality(DOMAIN DefaultCatalog) = Cardinality(Definitions)
    /\ DefinitionsAccepted(DefaultCatalog)
    /\ EnsureDefinitions(DefaultCatalog) = DefaultCatalog

\* A catalog that misses any part of the definitions is completed to the
\* defaults.
ASSUME MissingKeysAreAdded ==
    \A missing \in {CoreDefinitions, ReportDefinitions, ProfileDefinitions, Definitions} :
        EnsureDefinitions([k \in {d.key : d \in Definitions \ missing}
                             |-> DefaultCatalog[k]]) = DefaultCatalog

\* The value that is read is the one accepted, however it was spelled, and
\* no accepted heartbeat interval stops the heartbeats.
ASSUME AcceptedIsRead ==
    \A k \in {"HeartbeatInterval", "LocalPreAuthorize", "TransactionMessageAttempts",
               "GetConfigurationMaxKeys", "StopTxnSampledData", "Unknown"} :
      \A v \in SampleValues :
        LET result == ChangeConfiguration(DefaultCatalog, k, v, 1)
        IN  IF result.status = "Accepted"
              THEN /\ Plainly(result.catalog[k].value) = Plainly(v)
                   /\ HeartbeatIntervalSec(result.catalog) # {}
              ELSE result.catalog = DefaultCatalog

\* The number of connectors is told to the CSMS, which cannot change it.
ASSUME ConnectorsAreCounted ==
    \A n \in 1..3 :
        LET store == RuntimeStore(DefaultCatalog, n, 1)
        IN  /\ ChangeConfiguration(store, "NumberOfConnectors", IntValue(1), 2)
                 = [catalog |-> store, status |-> "Rejected", applies |-> FALSE]
            /\ GetConfiguration(store, <<"NumberOfConnectors", "NumberOfConnectors">>)
                 = [kind |-> "response", unknown |-> {},
                    entries |-> {[key |-> "NumberOfConnectors", readonly |-> TRUE,
                                  value |-> IntValue(n)]}]

\* Entries with selectors: a selector that names the variable of another
\* entry is refused, and the attribute that is left out is the actual one.
ASSUME SelectorsAreUnique ==
    LET of(attribute) == [key |-> {}, variable |-> {"Interval"},
                          attribute |-> attribute,
                          component |-> {[name |-> "Heartbeat", evseId |-> {1},
                                          connectorId |-> {}]}]
        entry(key, attribute) ==
            NewEntry([EntryOptions(IntKey(key, "RW", 1, 0))
                        EXCEPT !.selector = of(attribute)])
        two == NewCatalog({entry("a", {}), entry("b", {"Target"})})
    IN  /\ SelectorAccepted(of({}), {"a"})
        /\ ~CatalogAccepted({entry("a", {}), entry("b", {"Actual"})})
        /\ CatalogAccepted({entry("a", {}), entry("b", {"Target"})})
        /\ ChangeValueBySelector(two, of({"Actual"}), IntValue(2), 1).catalog["a"].value
             = IntValue(2)
============================================================================
