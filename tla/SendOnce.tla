------------------------------ MODULE SendOnce ------------------------------
(***************************************************************************)
(* What the idempotent send promises to its callers: every key takes       *)
(* effect at most once, for one command, and every successful answer given *)
(* for the key, now or at any later retry, is that one effect's response,  *)
(* given to a caller that asked for that command.                          *)
(***************************************************************************)
CONSTANTS
    Callers,        \* call sites that send and resend one request
    Keys,
    Commands,
    KeyOf,          \* the idempotency key each caller uses
    CommandOf,      \* the command each caller sends
    NoResponse      \* the key has had no effect yet

VARIABLES
    effect,         \* per key: the response of its effect
    intent,         \* per key: the command it was first claimed for
    answers         \* successful answers given: [caller, response]

vars == <<effect, intent, answers>>

Init ==
    /\ effect = [k \in Keys |-> NoResponse]
    /\ intent \in [Keys -> {NoResponse}]
    /\ answers = {}

Claim(k) ==
    /\ intent[k] = NoResponse
    /\ \E r \in Callers :
        KeyOf[r] = k /\ intent' = [intent EXCEPT ![k] = CommandOf[r]]
    /\ UNCHANGED <<effect, answers>>

(* The effect may be answered at once, or its answer be lost.              *)
TakeEffect(k) ==
    /\ intent[k] # NoResponse
    /\ effect[k] = NoResponse
    /\ effect'[k] # NoResponse
    /\ effect' = [effect EXCEPT ![k] = effect'[k]]
    /\ \/ UNCHANGED answers
       \/ \E r \in Callers :
            /\ KeyOf[r] = k /\ CommandOf[r] = intent[k]
            /\ answers' = answers \cup {[caller |-> r, response |-> effect'[k]]}
    /\ UNCHANGED intent

Answer(r) ==
    /\ effect[KeyOf[r]] # NoResponse
    /\ CommandOf[r] = intent[KeyOf[r]]
    /\ answers' = answers \cup {[caller |-> r, response |-> effect[KeyOf[r]]]}
    /\ UNCHANGED <<effect, intent>>

Next ==
    \/ \E k \in Keys : Claim(k) \/ TakeEffect(k)
    \/ \E r \in Callers : Answer(r)

Spec == Init /\ [][Next]_vars
=============================================================================
