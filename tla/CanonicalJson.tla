---------------------------- MODULE CanonicalJson ----------------------------
(***************************************************************************)
(* canonicalize at every depth (fingerprint.ts:31-47): the values inside   *)
(* arrays and objects, beside the one level of Fingerprints.               *)
(***************************************************************************)
EXTENDS Fingerprints

CONSTANT Values         \* JSON values to compare

RECURSIVE canonicalize(_)
canonicalize(v) ==
    CASE Type(v) = "arr" ->
            <<<<"[">>>>
            \o JoinedWithCommas([i \in DOMAIN v[2] |-> canonicalize(v[2][i])])
            \o <<<<"]">>>>
      [] Type(v) = "obj" ->
            LET entries == InOrder(v[2])
            IN  ObjectText([i \in DOMAIN entries |-> <<entries[i][1], canonicalize(entries[i][2])>>])
      [] OTHER -> ScalarText(v)

-----------------------------------------------------------------------------
(* A value to hash, a request, or an error.                                *)
Arrives == RequestArrives \/ \E v \in Values : given = <<"value", v>>

RECURSIVE Meaning(_)
Meaning(v) ==
    CASE Type(v) = "arr" -> <<"arr", [i \in DOMAIN v[2] |-> Meaning(v[2][i])]>>
      [] Type(v) = "obj" ->
            <<"obj", {<<v[2][i][1], Meaning(v[2][i][2])>> : i \in Defined(v[2])}>>
      [] Type(v) = "undefined" -> <<"null">>
      [] OTHER -> v

Texts == [v \in Values |-> canonicalize(v)]
Meanings == [v \in Values |-> Meaning(v)]

(* fingerprint.ts:14 and 18, stable and without ambiguity: two values have *)
(* one canonical text exactly when they are the same JSON value, whatever  *)
(* the order their keys were written in, at every depth; and the           *)
(* fingerprint of an effect is its canonical text.                         *)
CanonicalIffSameValue ==
    /\ given[1] = "value" =>
        \A w \in Values : Texts[given[2]] = Texts[w] <=> Meanings[given[2]] = Meanings[w]
    /\ given[1] = "send" /\ Accepts(given[2]) =>
        LET effect == EffectOf(given[2])
        IN  fingerprintOf(effect) = canonicalize(Obj(FieldsOf(effect)))
=============================================================================
