--------------------------- MODULE ProtocolClock ----------------------------
(***************************************************************************)
(* The clock of the OCPP 1.6 runtime, which the answers to its             *)
(* BootNotifications and Heartbeats set, and how the answers of the CSMS   *)
(* are read.  The protocol clock is the clock of the process and an        *)
(* offset; times are integers, a time that cannot be read and a threshold  *)
(* that is null are empty sets.                                            *)
(***************************************************************************)
EXTENDS Integers, Sequences, Records

LOCAL INSTANCE SequencesExt

\* createProtocolClock
NewClock == [offset |-> 0, synced |-> FALSE]
Now(clock, base) == base + clock.offset
Sync(currentTime, base) == [offset |-> currentTime - base, synced |-> TRUE]

Distance(a, b) == IF a < b THEN b - a ELSE a - b

\* parseHeartbeatCurrentTime: raw is missing, unreadable or a time.
ParseHeartbeatCurrentTime(raw, localTime, threshold, checkDrift) ==
    CASE raw.kind = "missing" -> [currentTime |-> {}, timeStatus |-> "missing"]
      [] raw.kind = "unreadable" -> [currentTime |-> {}, timeStatus |-> "invalid"]
      [] OTHER ->
           IF checkDrift /\ \E t \in threshold : Distance(raw.time, localTime) > t
           THEN [currentTime |-> {}, timeStatus |-> "drifted"]
           ELSE [currentTime |-> {raw.time}, timeStatus |-> "valid"]

\* recordHeartbeatSuccess, of an answer that arrives at base.
HeartbeatSets(clock, base, raw, threshold) ==
    LET check == ParseHeartbeatCurrentTime(raw, Now(clock, base), threshold, clock.synced)
    IN  IF check.currentTime = {} THEN clock
        ELSE Sync(CHOOSE t \in check.currentTime : TRUE, base)

\* shouldSyncProtocolClock
ShouldSync(clock, base, currentTime, threshold) ==
    \/ ~clock.synced
    \/ \A t \in threshold : Distance(currentTime, Now(clock, base)) <= t

\* bootCore; the session has checked that currentTime is a time.
BootSets(clock, base, currentTime, threshold) ==
    IF ShouldSync(clock, base, currentTime, threshold) THEN Sync(currentTime, base) ELSE clock

KnownStatuses == {"Accepted", "Blocked", "Expired", "Invalid", "ConcurrentTx"}

\* parseStopTransactionResponse: payload is a record, or none if it is no object;
\* so is its idTagInfo.
ParseStopTransactionResponse(payload) ==
    IF payload = {} THEN [idTagInfoStatus |-> {}, responseIssue |-> TRUE, unexpected |-> {}]
    ELSE LET r == CHOOSE x \in payload : TRUE
             unexpected == DOMAIN r \ {"idTagInfo"}
             Read(status, issue) == [idTagInfoStatus |-> status, responseIssue |-> issue,
                                     unexpected |-> unexpected]
             valid == {info.status : info \in {x \in r.idTagInfo : Has(x, "status")}}
                         \cap KnownStatuses
         IN  IF ~Has(r, "idTagInfo") THEN Read({}, FALSE) ELSE Read(valid, valid = {})

\* toRequestErrorInfo: only the errors of the session have a code of their own.
ToRequestErrorCode(cause) == IF cause.of = "session" THEN cause.code ELSE "INTERNAL_ERROR"

\* getUnexpectedResponseFields, of an answer that should be empty.
GetUnexpectedResponseFields(payload) ==
    IF payload = {} THEN {} ELSE DOMAIN (CHOOSE x \in payload : TRUE)

----------------------------------------------------------------------------
(* Every three answers, one time unit after the other. *)

Times == -4..4
Threshold == 1
CsmsAnswers == {[action |-> "boot", kind |-> "time", time |-> t] : t \in Times}
           \cup {[action |-> "heartbeat", kind |-> "time", time |-> t] : t \in Times}
           \cup {[action |-> "heartbeat", kind |-> k] : k \in {"missing", "unreadable"}}

After(clock, base, answer) ==
    IF answer.action = "boot" THEN BootSets(clock, base, answer.time, {Threshold})
    ELSE HeartbeatSets(clock, base, answer, {Threshold})

ClockAfter(answers) ==
    LET Step(run, answer) == [clock |-> After(run.clock, run.base, answer), base |-> run.base + 1]
    IN  FoldLeft(Step, [clock |-> NewClock, base |-> 0], answers)

\* The first time that can be read sets the clock however far off it is; from
\* then on no answer moves it by more than the threshold, so a CSMS whose time
\* has jumped is never followed again: neither by the heartbeats nor by the
\* BootNotification after a reconnection (state.ts:139).
ASSUME ClockStaysClose ==
    \A a, b, c \in CsmsAnswers :
        LET before == ClockAfter(<<a, b>>)
            after == After(before.clock, before.base, c)
        IN  IF before.clock.synced
            THEN /\ after.synced
                 /\ Distance(Now(after, before.base), Now(before.clock, before.base)) <= Threshold
                 /\ c.kind = "time" /\ Distance(c.time, Now(before.clock, before.base)) > Threshold
                       => after = before.clock
            ELSE /\ c.kind = "time" <=> after.synced
                 /\ c.kind = "time" => Now(after, before.base) = c.time

\* Booting and beating agree on the times they accept.
ASSUME BootAndHeartbeatAgree ==
    \A a, b \in CsmsAnswers : \A t \in Times : \A threshold \in {{}, {0}, {Threshold}} :
        LET run == ClockAfter(<<a, b>>)
        IN  BootSets(run.clock, run.base, t, threshold)
              = HeartbeatSets(run.clock, run.base, [kind |-> "time", time |-> t], threshold)

\* The answer to a StopTransaction gives a status or an issue, or says nothing
\* of the card; a status it gives is one of OCPP's.
Infos == {{}} \cup {{<<>>}} \cup {{[status |-> s]} : s \in {"Accepted", "Blocked", "Odd"}}
ASSUME StopAnswersAreRead ==
    \A payload \in {{}, {<<>>}, {[other |-> 1]}} \cup {{[idTagInfo |-> i, other |-> 1]} : i \in Infos} :
        LET r == ParseStopTransactionResponse(payload)
        IN  /\ r.idTagInfoStatus \subseteq KnownStatuses
            /\ r.responseIssue => r.idTagInfoStatus = {}
            /\ (\A x \in payload : Has(x, "idTagInfo")) =>
                  (r.responseIssue <=> r.idTagInfoStatus = {})
            /\ r.unexpected = GetUnexpectedResponseFields(payload) \ {"idTagInfo"}
=============================================================================
