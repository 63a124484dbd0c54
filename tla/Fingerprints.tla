---------------------------- MODULE Fingerprints ----------------------------
(***************************************************************************)
(* The fingerprint the content of a request is compared by                 *)
(* (fingerprint.ts), and the one the panel shows.  sha256 is taken as      *)
(* injective, so a fingerprint is the canonical text itself.  Every field  *)
(* of a MessageEffect is a string or a number, so its text needs one level *)
(* of canonicalize; the other levels are in CanonicalJson.                 *)
(***************************************************************************)
EXTENDS Requests, SequencesExt

CONSTANT KeyOrder       \* the keys, in the order of JavaScript's <

-----------------------------------------------------------------------------
(* canonicalize.  A text is a sequence of tokens; JSON quotes strings, so  *)
(* no token can be taken for another.                                      *)

Rank(key) == CHOOSE i \in DOMAIN KeyOrder : KeyOrder[i] = key

OrderedFields == <<"body", "clientMessageId", "clientSequence",
                   "conversationId", "senderDeviceId", "senderId">>

ASSUME FingerprintsAssumption ==
    /\ DOMAIN KeyOrder \subseteq Nat
    /\ \A i \in 1..6 : \E n \in DOMAIN KeyOrder : KeyOrder[n] = OrderedFields[i]
    /\ \A i, j \in 1..6 : i < j => Rank(OrderedFields[i]) < Rank(OrderedFields[j])

Defined(entries) == {i \in DOMAIN entries : entries[i][2] # Undefined}

(* Mutant of InOrder: the keys stay as they were written.                  *)
AsWritten(entries) == SelectSeq(entries, LAMBDA e : e[2] # Undefined)

(* The defined entries, each after those whose keys come before its own.   *)
InOrder(entries) ==
    LET Before(i) == {j \in Defined(entries) : Rank(entries[j][1]) < Rank(entries[i][1])}
    IN  [k \in 1..Cardinality(Defined(entries)) |->
            entries[CHOOSE i \in Defined(entries) : Cardinality(Before(i)) = k - 1]]

JoinedWithCommas(texts) ==
    FlattenSeq([i \in DOMAIN texts |-> IF i = 1 THEN texts[i] ELSE <<<<",">>>> \o texts[i]])

(* JSON has no text for undefined, nor for NaN.                            *)
ScalarText(v) == IF Type(v) \in {"undefined", "nan"} THEN <<<<"null">>>> ELSE <<v>>

(* Of pairs of a key and the text of its value.                            *)
ObjectText(pairs) ==
    <<<<"{">>>>
    \o JoinedWithCommas([i \in DOMAIN pairs |-> <<Str(pairs[i][1]), <<":">>>> \o pairs[i][2]])
    \o <<<<"}">>>>

(* Mutant of FingerprintFields: the message id is taken for a mere label.  *)
FieldsWithoutMessageId == <<"conversationId", "senderId", "senderDeviceId", "clientSequence", "body">>

FingerprintFields == EffectFields

FieldsOf(effect) ==
    [i \in DOMAIN FingerprintFields |-> <<FingerprintFields[i], effect[FingerprintFields[i]]>>]

fingerprintOf(effect) ==
    LET entries == InOrder(FieldsOf(effect))
    IN  ObjectText([i \in DOMAIN entries |-> <<entries[i][1], ScalarText(entries[i][2])>>])

-----------------------------------------------------------------------------
(* LabController.fingerprint: String(x ?? '') and Number(x ?? 0).          *)

AsString(v) ==
    CASE Type(v) = "str" -> v
      [] Type(v) \in {"undefined", "null"} -> Str("")
      [] OTHER -> Str("[converted]")

AsNumber(v) ==
    CASE Type(v) \in {"num", "frac"} -> v
      [] Type(v) \in {"undefined", "null"} -> Num(0)
      [] v = Str("1") -> Num(1)
      [] OTHER -> <<"nan">>

LabEffect(raw) ==
    [f \in {EffectFields[i] : i \in DOMAIN EffectFields} |->
        IF f = "clientSequence" THEN AsNumber(Field(raw, f)) ELSE AsString(Field(raw, f))]

-----------------------------------------------------------------------------
AcceptedSends == {r \in SendRequests : Accepts(r)}

Stored == {<<fingerprintOf(EffectOf(r)), Intent(r)>> : r \in AcceptedSends}

(* fingerprint.ts:9-10: among accepted requests, equal fingerprints mean   *)
(* that the clients wrote the same six fields, and the reverse; neither    *)
(* the order of the fields, nor fields the effect does not have, nor the   *)
(* rounding of large numbers come in between.  lab.controller.ts:65, "el   *)
(* valor de verdad": and the panel shows the fingerprint that is stored.   *)
FingerprintIffSameIntent ==
    given[1] = "send" /\ Accepts(given[2]) =>
        LET r == given[2]
            form == Obj(r.body[2] \o <<<<"conversationId", r.conversationId>>>>)
            print == fingerprintOf(EffectOf(r))
        IN  /\ \A q \in Stored : print = q[1] <=> Intent(r) = q[2]
            /\ fingerprintOf(LabEffect(form)) = print
=============================================================================
