-------------------------------- MODULE Audit --------------------------------
(***************************************************************************)
(* `npm run verify` and the panel's check: what the queries of             *)
(* invariants.repository.ts say about the final state of the database.     *)
(* Pure functions of a database, a record of tables, each a set of rows.   *)
(***************************************************************************)
EXTENDS Naturals, FiniteSets, FiniteSetsExt

CONSTANTS
    Databases,          \* the databases the audit is tried on
    Null

VARIABLE database       \* the one it looks at

(* GROUP BY *)
Groups(rows, columns) == {{r \in rows : \A c \in columns : r[c] = s[c]} : s \in rows}

Repeated(rows, columns) == {g \in Groups(rows, columns) : Cardinality(g) > 1}

VisibleRows(db) == {m \in db.messages : m.server_sequence # Null}

(* I1: two operations name one message.                                    *)
SharedResources(db) ==
    Repeated({o \in db.operations : o.resource_id # Null}, {"resource_id"})

(* I2 *)
KeysWithTwoFingerprints(db) ==
    {g \in Groups(db.operations, {"key"}) : Cardinality({o.fingerprint : o \in g}) > 1}

(* I3 *)
DivergentResponses(db) ==
    {o \in db.operations : /\ o.status = "completed"
                           /\ o.resource_id # Null
                           /\ o.response_body # o.resource_id}

(* I4 *)
RepeatedPositions(db) ==
    Repeated(db.messages, {"conversation_id", "sender_device_id", "client_sequence"})

(* I5 *)
RepeatedNumbers(db) == Repeated(VisibleRows(db), {"conversation_id", "server_sequence"})

Numbers(g) == {m.server_sequence : m \in g}

(* Mutant of ConversationsWithHoles: only the first number is looked at.   *)
ConversationsWithoutStart(db) ==
    {g \in Groups(VisibleRows(db), {"conversation_id"}) : Min(Numbers(g)) # 1}

ConversationsWithHoles(db) ==
    {g \in Groups(VisibleRows(db), {"conversation_id"}) :
        Max(Numbers(g)) # Cardinality(g) \/ Min(Numbers(g)) # 1}

(* I8 *)
Overcounted(db) == {b \in db.batches : b.delivered_count > b.expected_count}

ReceiptsOf(db, b) == {r \in db.receipts : r.message_id = b.message_id}

(* I9; a JOIN, so a batch without receipts is in no group.                 *)
PrematureCleanups(db) ==
    {b \in db.batches :
        /\ b.cleanup_reason = "completed"
        /\ ReceiptsOf(db, b) # {}
        /\ Cardinality({r \in ReceiptsOf(db, b) : r.state \in {"delivered", "read"}}) < b.expected_count}

(* Rows as the columns and createDeliveries make them: a batch expects one *)
(* receipt of each of its recipients; or its receipts are lost.            *)
IsDatabase(db) ==
    /\ \A table \in {db.messages, db.operations, db.batches, db.receipts} : IsFiniteSet(table)
    /\ \A m \in db.messages : m.server_sequence \in Nat \cup {Null}
    /\ \A r \in db.receipts : r.state \in {"pending", "delivered", "read"}
    /\ \A b \in db.batches :
        /\ b.delivered_count \in Nat /\ b.expected_count \in Nat \ {0}
        /\ Cardinality(ReceiptsOf(db, b)) \in {0, b.expected_count}

ASSUME AuditAssumption == \A db \in Databases : IsDatabase(db)

auditInvariants(db) ==
    {"I1" : g \in SharedResources(db)} \cup {"I2" : g \in KeysWithTwoFingerprints(db)}
    \cup {"I3" : o \in DivergentResponses(db)} \cup {"I4" : g \in RepeatedPositions(db)}
    \cup {"I5" : g \in RepeatedNumbers(db)} \cup {"I5" : g \in ConversationsWithHoles(db)}
    \cup {"I8" : b \in Overcounted(db)} \cup {"I9" : b \in PrematureCleanups(db)}

(* The panel asks four of the eight questions.                             *)
invariantViolations(db) ==
    {"I4" : g \in RepeatedPositions(db)} \cup {"I5" : g \in RepeatedNumbers(db)}
    \cup {"I8" : b \in Overcounted(db)} \cup {"I9" : b \in PrematureCleanups(db)}

verifyFails(db) == auditInvariants(db) # {}

-----------------------------------------------------------------------------
(* What a clean audit ought to mean.                                       *)

(* The messages of every conversation can be listed in their visible order, *)
(* the i-th under the number i.                                            *)
IsHistory(messages) ==
    \A c \in {m.conversation_id : m \in messages} :
        LET visible == {m \in messages : m.conversation_id = c /\ m.server_sequence # Null}
        IN  \E list \in [1..Cardinality(visible) -> visible] :
                /\ \A i \in DOMAIN list : list[i].server_sequence = i
                /\ \A m \in visible : \E i \in DOMAIN list : list[i] = m

OneMessagePerPosition(messages) ==
    \A m, n \in messages :
        /\ m.conversation_id = n.conversation_id /\ m.sender_device_id = n.sender_device_id
        /\ m.client_sequence = n.client_sequence
        => m = n

(* Nobody was still to be reached when the work of the message was freed.  *)
NobodyWasDropped(db) ==
    \A b \in db.batches, r \in db.receipts :
        b.cleanup_reason = "completed" /\ r.message_id = b.message_id => r.state # "pending"

(* verify-invariants.ts:42, of I4, I5 and I9: verify is silent exactly on   *)
(* the databases in which every conversation can be listed without holes   *)
(* and ties, no stream position is there twice and no batch was freed as   *)
(* completed while a receipt of it was pending; a batch without receipts   *)
(* is never found.  The panel is silent on the same ones, but for holes.   *)
OrderAndDeliveryAudited ==
    LET ordered == IsHistory(database.messages) /\ OneMessagePerPosition(database.messages)
        delivered == NobodyWasDropped(database)
        panel == invariantViolations(database) \cap {"I4", "I5", "I9"}
    IN  /\ auditInvariants(database) \cap {"I4", "I5"} = {} <=> ordered
        /\ "I9" \notin auditInvariants(database) <=> delivered
        /\ panel = {} /\ ConversationsWithHoles(database) = {} <=> ordered /\ delivered
=============================================================================
