------------------------------ MODULE Requests ------------------------------
(***************************************************************************)
(* The HTTP edge: what a request says (dto/send-message.dto.ts and the     *)
(* controllers), and the status an error becomes                           *)
(* (domain-error.filter.ts).  Pure functions of what arrives.              *)
(*                                                                         *)
(* A JSON value is a tuple that starts with its type:                      *)
(*   <<"str", text>>  <<"num", n>>  <<"frac">>  <<"null">>  <<"undefined">> *)
(*   <<"arr", <<value, ...>>>>  <<"obj", <<<<key, value>>, ...>>>>         *)
(* with the keys of an object in the order they were written.              *)
(***************************************************************************)
EXTENDS Integers, Sequences

CONSTANTS
    UuidTexts,          \* texts that UUID_PATTERN accepts
    BlankTexts,         \* texts that trim() empties
    LengthOf,           \* [texts -> Nat]
    MAX_BODY_LENGTH,
    MAX_CLIENT_MESSAGE_ID_LENGTH,
    MAX_IDEMPOTENCY_KEY_LENGTH,
    MAX_SAFE_INTEGER,
    SendRequests,       \* [key, conversationId, body]
    ResyncBodies

VARIABLE given      \* what has just arrived: <<kind, value, ...>>

Undefined == <<"undefined">>
Str(text) == <<"str", text>>
Num(n) == <<"num", n>>
Obj(entries) == <<"obj", entries>>

Type(v) == v[1]

-----------------------------------------------------------------------------
(* Parsing.  JSON.parse has no integers: it rounds a number above          *)
(* MAX_SAFE_INTEGER to a multiple of two, and the last of two equal keys   *)
(* wins.                                                                   *)

Rounded(v) ==
    IF Type(v) = "num" /\ v[2] > MAX_SAFE_INTEGER THEN Num(v[2] - (v[2] % 2)) ELSE v

Field(raw, name) ==
    LET at == {i \in DOMAIN raw[2] : raw[2][i][1] = name}
    IN  IF at = {} THEN Undefined ELSE Rounded(raw[2][CHOOSE i \in at : \A j \in at : j <= i][2])

IsObject(raw) == Type(raw) = "obj"

IsWhole(v) == v = Num(v[2]) /\ v[2] \in Int

(* What JSON.parse makes of a body: a list of fields, whose numbers are    *)
(* integers unless they have a fraction.                                   *)
IsParsed(raw) ==
    IsObject(raw) =>
        /\ raw[2] \in Seq({raw[2][i] : i \in DOMAIN raw[2]})
        /\ \A i \in DOMAIN raw[2] :
            LET v == raw[2][i][2] IN Type(v) = "num" => IsWhole(v)

(* 2^53 - 1 is odd: the number above it is one that doubles have.          *)
ASSUME RequestsAssumption ==
    /\ MAX_SAFE_INTEGER \in Nat /\ MAX_SAFE_INTEGER % 2 = 1
    /\ \A r \in SendRequests : IsParsed(r.body)
    /\ \A raw \in ResyncBodies : IsParsed(raw)

IsUuid(v) == Type(v) = "str" /\ v[2] \in UuidTexts

IsText(v, max) == Type(v) = "str" /\ v[2] \notin BlankTexts /\ LengthOf[v[2]] <= max

IsBody(v) == Type(v) = "str" /\ LengthOf[v[2]] \in 1..MAX_BODY_LENGTH

(* Mutant of IsSequence: Number.isInteger alone, which rounding satisfies. *)
IsInteger(v) == Type(v) = "num" /\ v[2] >= 1

IsSequence(v) == Type(v) = "num" /\ v[2] \in 1..MAX_SAFE_INTEGER

parseUuidParam(v) == IsUuid(v)

parseIdempotencyKey(v) == IsText(v, MAX_IDEMPOTENCY_KEY_LENGTH)

parseSendMessageBody(raw) ==
    /\ IsObject(raw)
    /\ IsUuid(Field(raw, "senderId"))
    /\ IsUuid(Field(raw, "senderDeviceId"))
    /\ IsText(Field(raw, "clientMessageId"), MAX_CLIENT_MESSAGE_ID_LENGTH)
    /\ IsSequence(Field(raw, "clientSequence"))
    /\ IsBody(Field(raw, "body"))

parseResyncBody(raw) == IsObject(raw) /\ IsSequence(Field(raw, "fromClientSequence"))

EffectFields == <<"conversationId", "senderId", "senderDeviceId",
                  "clientMessageId", "clientSequence", "body">>

(* MessagesController.send: accepted, and the effect it asks for.          *)
Accepts(request) ==
    /\ parseIdempotencyKey(request.key)
    /\ parseUuidParam(request.conversationId)
    /\ parseSendMessageBody(request.body)

EffectOf(request) ==
    [f \in {EffectFields[i] : i \in DOMAIN EffectFields} |->
        IF f = "conversationId" THEN request.conversationId ELSE Field(request.body, f)]

-----------------------------------------------------------------------------
(* Errors: what each endpoint's service throws, by class.                  *)

Unhandled == "a database error"

StreamErrors == {"SenderNotInConversation", "ClientSequenceConflict", "StreamResyncRequired"}

Thrown(endpoint) ==
    CASE endpoint = "send" ->
            {"IdempotencyKeyReused", "IdempotencyInProgress", "IdempotencyLeaseLost", Unhandled}
            \cup StreamErrors
      [] endpoint = "getMessage" -> {"MessageNotFound"}
      [] endpoint = "getOperation" -> {"OperationNotFound"}
      [] endpoint = "getStream" -> {"StreamNotFound"}
      [] endpoint = "resync" -> {"StreamNotFound", "InvalidResync", Unhandled}
      [] endpoint = "ack" -> {"MessageNotFound", "DeviceNotInSnapshot", Unhandled}
      [] endpoint = "getReceipt" -> {"DeviceNotInSnapshot"}

Endpoints == {"send", "getMessage", "getOperation", "getStream", "resync", "ack", "getReceipt"}

Conflicts == {"IdempotencyKeyReused", "IdempotencyInProgress", "ClientSequenceConflict",
              "StreamResyncRequired", "InvalidResync", "IdempotencyLeaseLost"}

Absences == {"SenderNotInConversation", "MessageNotFound", "OperationNotFound",
             "StreamNotFound", "DeviceNotInSnapshot"}

statusFor(error) ==
    IF error \in Conflicts THEN 409 ELSE IF error \in Absences THEN 404 ELSE 500

-----------------------------------------------------------------------------
(* A request, or the error a service throws for one.                       *)
RequestArrives ==
    \/ \E r \in SendRequests : given = <<"send", r>>
    \/ \E raw \in ResyncBodies : given = <<"resync", raw>>
    \/ \E e \in Endpoints : \E error \in Thrown(e) : given = <<"error", error>>

Wire(raw, name) ==
    raw[2][CHOOSE i \in DOMAIN raw[2] :
            raw[2][i][1] = name /\ \A j \in DOMAIN raw[2] : raw[2][j][1] = name => j <= i][2]

(* What the client wrote, digit by digit.                                  *)
Intent(r) ==
    [f \in {EffectFields[i] : i \in DOMAIN EffectFields} |->
        IF f = "conversationId" THEN r.conversationId ELSE Wire(r.body, f)]

(* A position is never moved by the edge: what send and resync work with   *)
(* is the number on the wire.  I5 would not notice the difference.         *)
PositionsAreExact ==
    /\ given[1] = "send" /\ Accepts(given[2]) =>
        Field(given[2].body, "clientSequence") = Wire(given[2].body, "clientSequence")
    /\ given[1] = "resync" /\ parseResyncBody(given[2]) =>
        Field(given[2], "fromClientSequence") = Wire(given[2], "fromClientSequence")

(* What the services refuse on purpose reaches the client as a refusal,    *)
(* never as the 500 of an error nobody foresaw.                            *)
RefusalsAreExplained ==
    given[1] = "error" /\ given[2] # Unhandled => statusFor(given[2]) \in 400..499
=============================================================================
