----------------------- MODULE MCIdempotencyOperations -----------------------
(***************************************************************************)
(* The operations table alone, with callers that pass any attempt at any   *)
(* time: what the WHERE clauses guarantee without help from the service.   *)
(* Beside it the pure functions that make the fingerprints it stores, over *)
(* bounded JSON values and requests, and the audit of the final state, over *)
(* small databases, whole and broken.                                      *)
(***************************************************************************)
EXTENDS IdempotencyOperations, CanonicalJson, Audit

CONSTANTS k1, k2, f1, f2, p1, p2, none

MCKeyOrder == <<"a", "b", "body", "clientMessageId", "clientSequence", "conversationId",
                "flag", "fromClientSequence", "senderDeviceId", "senderId">>

(* Texts by their role: two UUIDs, a blank one, one beyond every limit.    *)
MCLengthOf == [t \in {"u1", "u2", "1", "x", " ", "", "long"} |->
                CASE t = "" -> 0 [] t = "long" -> 3 [] OTHER -> 1]

Scalars == {Str("x"), Str("1"), Num(1), <<"null">>, Undefined}

Over(vs) ==
    {<<"arr", s>> : s \in {<<>>} \cup {<<v>> : v \in vs} \cup (vs \X vs)}
    \cup {Obj(s) : s \in {<<>>} \cup {<<<<k, v>>>> : k \in {"a", "b"}, v \in vs}
                        \cup {<<<<"a", v>>, <<"b", w>>>> : v \in vs, w \in vs}
                        \cup {<<<<"b", v>>, <<"a", w>>>> : v \in vs, w \in vs}}

(* Two levels, the second over some of the first.                          *)
MCValues ==
    Scalars \cup Over(Scalars)
        \cup Over({Num(1), Obj(<<<<"a", Num(1)>>, <<"b", Str("x")>>>>),
                  Obj(<<<<"b", Str("x")>>, <<"a", Num(1)>>>>), <<"arr", <<Num(1)>>>>})

(* MAX_SAFE_INTEGER is 9: 10 and 11 are written apart and read as one.     *)
MCNumbers == {Num(0), Num(1), Num(2), Num(9), Num(10), Num(11), <<"frac">>, Str("1"), Undefined}

Entries(sender, id, n, text) ==
    <<<<"senderId", sender>>, <<"senderDeviceId", Str("u1")>>, <<"clientMessageId", id>>,
      <<"clientSequence", n>>, <<"body", text>>>>

Shapes(entries) == {entries, Reverse(entries), entries \o <<<<"flag", Num(1)>>>>}

MCSendRequests ==
    [key : {Str("x"), Str(" ")}, conversationId : {Str("u1"), Str("u2"), Str("x")},
     body : {Obj(s) : s \in UNION {Shapes(Entries(sender, id, n, text)) :
                sender \in {Str("u1"), Str("u2"), Str("x")}, id \in {Str("x"), Str("1"), Str("long")},
                n \in MCNumbers, text \in {Str("x"), Str("1"), Str(""), Num(1)}}}]

MCResyncBodies == {Obj(<<<<"fromClientSequence", n>>>>) : n \in MCNumbers} \cup {<<"null">>}

-----------------------------------------------------------------------------
(* Three messages of two conversations and two devices, of which the first *)
(* writes the first message; two operations; a batch of up to three        *)
(* recipients, with every progress and every reason of cleaning, and with  *)
(* its receipts or without any.                                            *)
EmptyDatabase == [messages |-> {}, operations |-> {}, batches |-> {}, receipts |-> {}]

FromTheFirst == {device \in [1..3 -> {1, 2}] : device[1] = 1}

MessageTables ==
    {{[id |-> i, conversation_id |-> where[i], sender_device_id |-> device[i],
       client_sequence |-> at[i], server_sequence |-> number[i]] : i \in 1..3} :
        where \in [1..3 -> {1, 2}], device \in FromTheFirst, at \in [1..3 -> {1, 2}],
        number \in [1..3 -> {none} \cup 1..4]}

OperationTables ==
    {{[id |-> i, key |-> key[i], fingerprint |-> f[i], status |-> status[i],
       resource_id |-> resource[i], response_body |-> response[i]] : i \in 1..2} :
        key \in [1..2 -> Keys], f \in [1..2 -> Fingerprints],
        status \in [1..2 -> {"completed", "failed"}],
        resource \in [1..2 -> {none, 1, 2}], response \in [1..2 -> {1, 2}]}

DeliveryTables ==
    {[batch |-> [message_id |-> 1, expected_count |-> n,
                 delivered_count |-> count, cleanup_reason |-> reason],
      receipts |-> {[message_id |-> 1, device_id |-> d, state |-> state[d]] :
                        d \in {e \in 1..n : whole}}] :
        n \in 1..3, whole \in BOOLEAN, state \in [1..3 -> {"pending", "delivered", "read"}],
        count \in 0..4, reason \in {none, "completed", "expired"}}

MCDatabases ==
    {[EmptyDatabase EXCEPT !.messages = t] : t \in MessageTables}
    \cup {[EmptyDatabase EXCEPT !.operations = t] : t \in OperationTables}
    \cup {[EmptyDatabase EXCEPT !.batches = {t.batch}, !.receipts = t.receipts] : t \in DeliveryTables}

-----------------------------------------------------------------------------
(* One question at a time: the operations table at work, something that    *)
(* arrives, or a database to audit.                                        *)
Nothing == <<"nothing">>

MCInit ==
    /\ Init
    /\ \/ given = Nothing /\ database = EmptyDatabase
       \/ Arrives /\ database = EmptyDatabase
       \/ given = Nothing /\ database \in Databases

MCNext ==
    /\ given = Nothing /\ database = EmptyDatabase
    /\ Next
    /\ UNCHANGED <<given, database>>

MCSpec == MCInit /\ [][MCNext]_<<operations, given, database>>
=============================================================================
