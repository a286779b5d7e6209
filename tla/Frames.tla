-------------------------------- MODULE Frames --------------------------------
(***************************************************************************)
(* OcppJsonCodec and SchemaRegistryValidator: what becomes of a message on *)
(* its way to the wire and of a raw message on its way to a coordinator,   *)
(* and what validation says of a payload.  A result that may be absent is  *)
(* a set of at most one element.                                           *)
(*                                                                         *)
(* A value is what JavaScript has at run time, whatever the types promise: *)
(* its kind, and the length of a text or the number itself.                *)
(***************************************************************************)
EXTENDS Naturals, Sequences

Value(kind, size) == [is |-> kind, size |-> size]

Text(length) == Value("text", length)
Number(n) == Value("number", n)
Undefined == Value("undefined", 0)
Null == Value("null", 0)
PlainObject == Value("object", 0)
Array == Value("array", 0)

\* An object of a class, an Error for instance, and one that contains itself.
Instance == Value("instance", 0)
Cycle == Value("cycle", 0)

MaxMessageIdLength == 36
MaxActionLength == 50

IsStringField(v, maxLength) == v.is = "text" /\ v.size \in 1..maxLength

IsPlainObject(v) == v \in {PlainObject, Cycle}

-----------------------------------------------------------------------------
(* From a message to a raw message. *)

AssertRequest(m) ==
    /\ m.payload # Undefined
    /\ IsStringField(m.messageId, MaxMessageIdLength)
    /\ IsStringField(m.action, MaxActionLength)

AssertResponse(m) ==
    /\ m.payload # Undefined
    /\ IsStringField(m.messageId, MaxMessageIdLength)

AssertError(m) ==
    /\ m.errorCode.is = "text" /\ m.errorMessage.is = "text"
    /\ IsStringField(m.messageId, MaxMessageIdLength)
    /\ IsPlainObject(m.errorDetails)

\* encodeProtocolFrame, which throws unless the message meets its assertions.
EncodeProtocolFrame(m) ==
    CASE m.kind = "request" ->
           {f \in {<<Number(2), m.messageId, m.action, m.payload>>} : AssertRequest(m)}
      [] m.kind = "response" ->
           {f \in {<<Number(3), m.messageId, m.payload>>} : AssertResponse(m)}
      [] m.kind = "error" ->
           {f \in {<<Number(4), m.messageId, m.errorCode, m.errorMessage, m.errorDetails>>} :
              AssertError(m)}

\* What JSON keeps of a value.
InJson(v) == CASE v = Undefined -> Null
               [] v = Instance  -> PlainObject
               [] OTHER         -> v

Raw(frame) == [utf8 |-> TRUE, json |-> TRUE, array |-> TRUE, frame |-> frame]

\* encode.
Encode(m) ==
    {Raw([i \in DOMAIN frame |-> InJson(frame[i])]) :
       frame \in {f \in EncodeProtocolFrame(m) : \A i \in DOMAIN f : f[i] # Cycle}}

-----------------------------------------------------------------------------
(* From a raw message to a message. *)

DecodeRequestFrame(frame) ==
    {[kind |-> "request", messageId |-> f[2], action |-> f[3], payload |-> f[4]] :
       f \in {g \in {frame} : /\ Len(g) = 4
                              /\ IsStringField(g[2], MaxMessageIdLength)
                              /\ IsStringField(g[3], MaxActionLength)}}

DecodeResponseFrame(frame) ==
    {[kind |-> "response", messageId |-> f[2], payload |-> f[3]] :
       f \in {g \in {frame} : Len(g) = 3 /\ IsStringField(g[2], MaxMessageIdLength)}}

DecodeErrorFrame(frame) ==
    {[kind |-> "error", messageId |-> f[2], errorCode |-> f[3], errorMessage |-> f[4],
      errorDetails |-> f[5]] :
       f \in {g \in {frame} : /\ Len(g) = 5
                              /\ IsStringField(g[2], MaxMessageIdLength)
                              /\ g[3].is = "text" /\ g[4].is = "text"
                              /\ IsPlainObject(g[5])}}

DecodeProtocolFrame(frame) ==
    IF frame = <<>> THEN {}
    ELSE CASE frame[1] = Number(2) -> DecodeRequestFrame(frame)
           [] frame[1] = Number(3) -> DecodeResponseFrame(frame)
           [] frame[1] = Number(4) -> DecodeErrorFrame(frame)
           [] OTHER                -> {}

\* decode: the bytes are text, the text is JSON, and that an array.
Decode(raw) ==
    IF raw.utf8 /\ raw.json /\ raw.array THEN DecodeProtocolFrame(raw.frame) ELSE {}

\* handleTransportMessage of a session that is connected, or not.
Route(connected, raw) ==
    IF ~connected THEN {"ignored"}
    ELSE IF Decode(raw) = {} THEN {"logged"}
    ELSE {IF m.kind = "request" THEN "inbound" ELSE "outbound" : m \in Decode(raw)}

-----------------------------------------------------------------------------
(* Validation. *)

\* validate: the schema that the catalog, an ordinary object, has under the name
\* of the action; a name that every object has leads to no schema, which throws.
Names == {"action", "unknown", "inherited"}

\* runValidation.
Validation(name, fits) ==
    CASE name = "inherited" -> "internal_error"
      [] name = "unknown"   -> "invalid"
      [] name = "action"    -> IF fits THEN "valid" ELSE "invalid"

Verdicts == {Validation(name, fits) : name \in Names, fits \in BOOLEAN}

Failing == Verdicts \ {"valid"}

\* The details of the CALLERROR that sendCallError makes of a payload that did
\* not validate: the issues, or what was thrown; and of a timeout.
ErrorDetails(verdict) == IF verdict = "invalid" THEN Array ELSE Instance

NoDetails == PlainObject

\* sendCallError, with an id, a code and a message that the codec takes.
CallError(details) ==
    [kind |-> "error", messageId |-> Text(MaxMessageIdLength), errorCode |-> Text(1),
     errorMessage |-> Text(1), errorDetails |-> details]

\* handleInboundReply of the outbound requests: an error resolves the request,
\* and so does a response that fails its schema, as a FormationViolation.
ReplyOutcome(kind, verdict) ==
    IF kind = "response" /\ verdict = "internal_error" THEN "failed" ELSE "answered"

-----------------------------------------------------------------------------
(* What the codec promises, over the values at its boundaries. *)

LengthsAround(max) == {Text(0), Text(1), Text(max), Text(max + 1)}

SomePayloads == {Undefined, Null, Number(0), Text(0), PlainObject, Array, Instance, Cycle}

SomeIds == LengthsAround(MaxMessageIdLength) \cup {Undefined, Number(1)}

SomeMessages ==
    [kind : {"request"}, messageId : SomeIds, action : LengthsAround(MaxActionLength) \cup {Null},
     payload : SomePayloads]
    \cup [kind : {"response"}, messageId : SomeIds, payload : SomePayloads]
    \cup [kind : {"error"}, messageId : SomeIds, errorCode : {Text(0), Text(1), Undefined},
          errorMessage : {Text(0), Text(MaxActionLength + 1), Number(0)},
          errorDetails : SomePayloads]

ReceivedValues == {Null, Number(0), Text(0), Text(1), Text(MaxMessageIdLength),
                   Text(MaxMessageIdLength + 1), PlainObject, Array}

SomeHeads == {Number(n) : n \in 1..5} \cup {Text(1)}

FramesOf(n) == {<<head>> \o rest : head \in SomeHeads, rest \in [1..n - 1 -> ReceivedValues]}

AsSent(m) == [x \in DOMAIN m |-> IF x = "kind" THEN m.kind ELSE InJson(m[x])]

\* What is encoded is decoded to itself at the other end, and at most once.
ASSUME SentIsReceived ==
    \A m \in SomeMessages : \A raw \in Encode(m) : Decode(raw) = {AsSent(m)}

\* What is decoded could have been sent: encoding it gives the frame that came,
\* so that no frame means two messages and none is taken that the other end of
\* the same codec would not write.
ASSUME ReceivedCouldBeSent ==
    \A n \in 1..5 : \A frame \in FramesOf(n) :
       \A m \in Decode(Raw(frame)) : Encode(m) = {Raw(frame)}

\* A message that leaves reaches the right coordinator of the other end, however
\* long its fields are.
ASSUME SentIsRouted ==
    \A m \in SomeMessages : \A raw \in Encode(m) :
       Route(TRUE, raw) = {IF m.kind = "request" THEN "inbound" ELSE "outbound"}

=============================================================================
