--------------------------- MODULE DeliveryProofs ---------------------------
(***************************************************************************)
(* Proofs about acks and cleanups, for any number of messages, recipients, *)
(* clients and runs of the CronJob and every setting.                      *)
(***************************************************************************)
EXTENDS Delivery, FiniteSetTheorems, TLAPS

Msg(p) == AckOf[p].message
Dev(p) == AckOf[p].device

(* Every table has its rows and every process its locks.                   *)
Shapes ==
    /\ receipts = [m \in Messages |-> receipts[m]]
    /\ envelopes = [m \in Messages |-> envelopes[m]]
    /\ batches = [m \in Messages |-> batches[m]]
    /\ held = [p \in Processes |-> held[p]]

(* ack.service.ts:131: what an ack decided when it locked a row is still   *)
(* true when it commits, and it holds every row it is about to write.      *)
HoldsWhatItWrites(p) ==
    /\ pc[p] \in {"envelope", "batch", "delete", "commit"} =>
        ReceiptRow(Msg(p), Dev(p)) \in held[p]
    /\ pc[p] \in {"envelope", "batch", "delete"} => Crosses(p)
    /\ pc[p] \in {"batch", "delete", "commit"} /\ Crosses(p) /\ Envelope(p) = "pending" =>
        EnvelopeRow(Msg(p), Dev(p)) \in held[p]
    /\ pc[p] \in {"delete", "commit"} /\ Crosses(p) => BatchRow(Msg(p)) \in held[p]
    /\ pc[p] = "delete" => CleansUp(p)
    /\ pc[p] = "commit" /\ CleansUp(p) => Envelopes(Msg(p)) \subseteq held[p]

AcksHoldWhatTheyWrite == \A p \in Ackers : HoldsWhatItWrites(p)

(* cleanup.repository.ts:79-86: a batch a run has claimed stays eligible.  *)
StaysEligible(p) ==
    /\ pc[p] \in {"idle", "delete"}
    /\ \A m \in ClaimedBy(p) : Eligible(m)

ClaimsStayEligible == \A p \in Sweepers : StaysEligible(p)

IdleHoldsNothing == \A p \in Processes : pc[p] = "idle" => held[p] = {}

(* acks.repository.ts:153-159: counted and completed by one statement,     *)
(* which looks at nothing else, not at a cleanup either.                   *)
CountsMatch ==
    \A m \in Messages :
        /\ batches[m].delivered = Cardinality(AtTerminal(m))
        /\ batches[m].completed <=> AtTerminal(m) = Recipients[m]

LocksOK == AcksHoldWhatTheyWrite /\ ClaimsStayEligible /\ IdleHoldsNothing

IInv == TypeOK /\ Shapes /\ LocksOK /\ CountsMatch /\ WorkIsKept

-----------------------------------------------------------------------------
(* States, ranks and rows *)

LEMMA Ranks == rankOf("pending") = 1 /\ rankOf("delivered") = 2 /\ rankOf("read") = 3
<1>1. States = <<"pending", "delivered", "read">>
  BY DEF States
<1>2. ASSUME NEW i \in 1..3 PROVE rankOf(States[i]) = i
  <2>1. \A j \in 1..3 : States[j] = States[i] => j = i
    BY <1>1
  <2>2. QED
    BY <2>1 DEF rankOf
<1>3. QED
  BY <1>1, <1>2

LEMMA AckIsAck ==
    ASSUME NEW p \in Ackers
    PROVE  /\ p \in Processes
           /\ Msg(p) \in Messages
           /\ Dev(p) \in Recipients[Msg(p)]
           /\ AckOf[p].state \in {"delivered", "read"}
BY DeliveryAssumption DEF Msg, Dev, Processes

LEMMA TerminalIsReached ==
    /\ \A m \in Messages : \A d \in Recipients[m] :
        d \in AtTerminal(m) <=> reachesTerminal(receipts[m][d])
    /\ \A m \in Messages : AtTerminal(m) \subseteq Recipients[m]
BY DEF AtTerminal, reachesTerminal

LEMMA CountsAreFinite ==
    ASSUME NEW m \in Messages, NEW S \in SUBSET Recipients[m]
    PROVE  /\ IsFiniteSet(S)
           /\ Cardinality(S) \in Nat
           /\ Cardinality(Recipients[m]) \in Nat
           /\ Cardinality(S) <= Cardinality(Recipients[m])
           /\ Cardinality(S) = Cardinality(Recipients[m]) => S = Recipients[m]
<1>1. IsFiniteSet(Recipients[m])
  BY DeliveryAssumption
<1>2. QED
  BY <1>1, FS_Subset, FS_CardinalityType

(* Rows of different kinds, messages or recipients are different rows.     *)
LEMMA RowsDiffer ==
    /\ \A m, n, d, e : ReceiptRow(m, d) = ReceiptRow(n, e) <=> m = n /\ d = e
    /\ \A m, n, d, e : EnvelopeRow(m, d) = EnvelopeRow(n, e) <=> m = n /\ d = e
    /\ \A m, n : BatchRow(m) = BatchRow(n) <=> m = n
    /\ \A m, n, d, e : ReceiptRow(m, d) # EnvelopeRow(n, e)
    /\ \A m, n, d : ReceiptRow(m, d) # BatchRow(n)
    /\ \A m, n, d : EnvelopeRow(m, d) # BatchRow(n)
BY DEF ReceiptRow, EnvelopeRow, BatchRow

LEMMA EnvelopesAreRows ==
    ASSUME NEW m \in Messages, NEW row
    PROVE  row \in Envelopes(m) <=>
                \E d \in Recipients[m] : row = EnvelopeRow(m, d) /\ envelopes[m][d] # "none"
BY DEF Envelopes

-----------------------------------------------------------------------------
(* What the committing steps write *)

CommitAckWrites(p) ==
    /\ \A m \in Messages : \A d \in Recipients[m] :
        /\ receipts'[m][d] =
            IF m = Msg(p) /\ d = Dev(p) /\ Advances(p) THEN AckOf[p].state ELSE receipts[m][d]
        /\ envelopes'[m][d] =
            IF m = Msg(p) /\ CleansUp(p) THEN "none"
            ELSE IF m = Msg(p) /\ d = Dev(p) /\ Crosses(p) /\ envelopes[m][d] = "pending"
                 THEN "delivered"
                 ELSE envelopes[m][d]
    /\ \A m \in Messages :
        /\ batches'[m].delivered =
            IF m = Msg(p) /\ Crosses(p) THEN batches[m].delivered + 1 ELSE batches[m].delivered
        /\ batches'[m].completed = (batches[m].completed \/ (m = Msg(p) /\ Completes(p)))
        /\ batches'[m].cleanup =
            IF m = Msg(p) /\ CleansUp(p) THEN "completed" ELSE batches[m].cleanup
        /\ batches'[m].expired = batches[m].expired

LEMMA OrIsBoolean == ASSUME NEW a, NEW b PROVE (a \/ b) \in BOOLEAN
BY Zenon

LEMMA AckCommits ==
    ASSUME TypeOK, Shapes, NEW p \in Ackers, CommitAck(p)
    PROVE  CommitAckWrites(p) /\ TypeOK' /\ Shapes'
<1> USE AckIsAck DEF Msg, Dev
<1>1. \A m \in Messages : batches[m] \in Batch
  BY DEF TypeOK
<1>2. CleansUp(p) => Completes(p)
  BY DEF CleansUp
<1>3. Completes(p) => Crosses(p)
  BY DEF Completes
<1>4. Crosses(p) => Advances(p)
  BY DEF Crosses
<1>5. \A m \in Messages : \A d \in Recipients[m] :
        receipts'[m][d] =
            IF m = Msg(p) /\ d = Dev(p) /\ Advances(p) THEN AckOf[p].state ELSE receipts[m][d]
  BY DEF TypeOK, Shapes, CommitAck
<1>6. \A m \in Messages : \A d \in Recipients[m] :
        envelopes'[m][d] =
            IF m = Msg(p) /\ CleansUp(p) THEN "none"
            ELSE IF m = Msg(p) /\ d = Dev(p) /\ Crosses(p) /\ envelopes[m][d] = "pending"
                 THEN "delivered"
                 ELSE envelopes[m][d]
  BY DEF TypeOK, Shapes, CommitAck, Envelope, NoEnvelopes
<1>7. \A m \in Messages :
        /\ batches'[m].delivered =
            IF m = Msg(p) /\ Crosses(p) THEN batches[m].delivered + 1 ELSE batches[m].delivered
        /\ batches'[m].completed = (batches[m].completed \/ (m = Msg(p) /\ Completes(p)))
        /\ batches'[m].cleanup =
            IF m = Msg(p) /\ CleansUp(p) THEN "completed" ELSE batches[m].cleanup
        /\ batches'[m].expired = batches[m].expired
        /\ batches'[m] \in Batch
  <2>1. ASSUME ~Crosses(p) PROVE batches' = batches
    BY <2>1 DEF CommitAck
  <2>2. ASSUME Crosses(p), NEW m \in Messages, m # Msg(p) PROVE batches'[m] = batches[m]
    BY <2>2 DEF CommitAck, Shapes
  <2>3. ASSUME Crosses(p)
        PROVE  batches'[Msg(p)] =
                [batches[Msg(p)] EXCEPT
                    !.delivered = batches[Msg(p)].delivered + 1,
                    !.completed = batches[Msg(p)].completed \/ Completes(p),
                    !.cleanup = IF CleansUp(p) THEN "completed" ELSE batches[Msg(p)].cleanup]
    BY <2>3 DEF CommitAck, Shapes
  <2> DEFINE n == batches[Msg(p)].delivered + 1
             completed == batches[Msg(p)].completed \/ Completes(p)
             reason == IF CleansUp(p) THEN "completed" ELSE batches[Msg(p)].cleanup
  <2>4. n \in Nat /\ completed \in BOOLEAN /\ reason \in {"none", "completed", "expired"}
    <3>1. n \in Nat /\ reason \in {"none", "completed", "expired"}
      BY <1>1 DEF Batch
    <3>2. completed \in BOOLEAN
      BY OrIsBoolean, Zenon
    <3>3. QED
      BY <3>1, <3>2
  <2>5. ASSUME Crosses(p)
        PROVE  /\ batches'[Msg(p)] \in Batch
               /\ batches'[Msg(p)].delivered = n
               /\ batches'[Msg(p)].completed = completed
               /\ batches'[Msg(p)].cleanup = reason
               /\ batches'[Msg(p)].expired = batches[Msg(p)].expired
    <3>1. batches'[Msg(p)] =
            [batches[Msg(p)] EXCEPT !.delivered = n, !.completed = completed, !.cleanup = reason]
      BY <2>3, <2>5
    <3> HIDE DEF n, completed, reason
    <3>2. batches[Msg(p)] \in Batch
      BY <1>1
    <3>3. QED
      <4> DEFINE b == batches[Msg(p)]
                 c == batches'[Msg(p)]
      <4>1. c = [b EXCEPT !.delivered = n, !.completed = completed, !.cleanup = reason]
        BY <3>1
      <4>2. b \in Batch
        BY <3>2
      <4> HIDE DEF b, c
      <4>3. /\ c \in Batch
            /\ c.delivered = n /\ c.completed = completed /\ c.cleanup = reason
            /\ c.expired = b.expired
        BY <4>1, <4>2, <2>4 DEF Batch
      <4>4. QED
        BY <4>3 DEF b, c
  <2>6. ASSUME NEW m \in Messages
        PROVE  /\ batches'[m].delivered =
                    IF m = Msg(p) /\ Crosses(p) THEN n ELSE batches[m].delivered
               /\ batches'[m].completed =
                    (batches[m].completed \/ (m = Msg(p) /\ Completes(p)))
               /\ batches'[m].cleanup =
                    IF m = Msg(p) /\ CleansUp(p) THEN "completed" ELSE batches[m].cleanup
               /\ batches'[m].expired = batches[m].expired
               /\ batches'[m] \in Batch
    <3>1. CASE ~Crosses(p)
      <4>1. ~Completes(p) /\ ~CleansUp(p) /\ batches'[m] = batches[m] /\ batches[m] \in Batch
        BY <3>1, <1>1, <1>2, <1>3, <2>1
      <4>2. batches[m].completed \in BOOLEAN
        BY <4>1 DEF Batch
      <4>3. QED
        BY <3>1, <4>1, <4>2
    <3>2. CASE Crosses(p) /\ m # Msg(p)
      <4>1. batches'[m] = batches[m] /\ batches[m] \in Batch
        BY <3>2, <1>1, <2>2
      <4>2. batches[m].completed \in BOOLEAN
        BY <4>1 DEF Batch
      <4>3. QED
        BY <3>2, <4>1, <4>2
    <3>3. CASE Crosses(p) /\ m = Msg(p)
      <4> HIDE DEF Msg
      <4>1. m = Msg(p) /\ Crosses(p)
        BY <3>3
      <4>2. batches'[m].completed = (batches[m].completed \/ (m = Msg(p) /\ Completes(p)))
        BY <4>1, <2>5, Zenon
      <4>3. QED
        BY <4>1, <4>2, <2>5
    <3>4. QED
      BY <3>1, <3>2, <3>3
  <2>7. QED
    BY <2>6, Zenon
<1>8. Shapes'
  BY DEF Shapes, CommitAck, EndTransaction
<1>9. TypeOK'
  <2>1. \A m \in Messages : receipts'[m] \in [Recipients[m] -> {"pending", "delivered", "read"}]
    BY DEF TypeOK, Shapes, CommitAck
  <2>2. \A m \in Messages : envelopes'[m] \in [Recipients[m] -> {"none", "pending", "delivered"}]
    BY DEF TypeOK, Shapes, CommitAck, NoEnvelopes
  <2>3. pc' \in [Processes -> {"idle", "receipt", "envelope", "batch", "delete", "commit"}]
    BY DEF TypeOK, CommitAck, EndTransaction, Goto
  <2>4. \A q, r \in Processes : q # r => held'[q] \cap held'[r] = {}
    BY DEF TypeOK, Shapes, CommitAck, EndTransaction
  <2>5. QED
    BY <2>1, <2>2, <2>3, <2>4, <1>7 DEF TypeOK
<1>10. QED
  BY <1>5, <1>6, <1>7, <1>8, <1>9 DEF CommitAckWrites

CommitSweepWrites(p) ==
    /\ \A m \in Messages : \A d \in Recipients[m] :
        envelopes'[m][d] = IF m \in ClaimedBy(p) THEN "none" ELSE envelopes[m][d]
    /\ \A m \in Messages :
        /\ batches'[m].delivered = batches[m].delivered
        /\ batches'[m].completed = batches[m].completed
        /\ batches'[m].expired = batches[m].expired
        /\ batches'[m].cleanup =
            IF m \in ClaimedBy(p)
            THEN IF batches[m].completed THEN "completed" ELSE "expired"
            ELSE batches[m].cleanup

LEMMA SweepCommits ==
    ASSUME TypeOK, Shapes, NEW p \in Sweepers, CommitSweep(p)
    PROVE  CommitSweepWrites(p) /\ TypeOK' /\ Shapes'
<1>1. p \in Processes
  BY DEF Processes
<1>2. \A m \in Messages : batches[m] \in Batch
  BY DEF TypeOK
<1>3. \A m \in Messages : \A d \in Recipients[m] :
        envelopes'[m][d] = IF m \in ClaimedBy(p) THEN "none" ELSE envelopes[m][d]
  BY DEF TypeOK, Shapes, CommitSweep, NoEnvelopes
<1>4. \A m \in Messages :
        /\ batches'[m].delivered = batches[m].delivered
        /\ batches'[m].completed = batches[m].completed
        /\ batches'[m].expired = batches[m].expired
        /\ batches'[m].cleanup =
            IF m \in ClaimedBy(p)
            THEN IF batches[m].completed THEN "completed" ELSE "expired"
            ELSE batches[m].cleanup
        /\ batches'[m] \in Batch
  BY <1>2 DEF CommitSweep, Batch
<1>5. Shapes'
  BY DEF Shapes, CommitSweep, EndTransaction
<1>6. TypeOK'
  <2>1. \A m \in Messages : receipts'[m] \in [Recipients[m] -> {"pending", "delivered", "read"}]
    BY DEF TypeOK, CommitSweep
  <2>2. \A m \in Messages : envelopes'[m] \in [Recipients[m] -> {"none", "pending", "delivered"}]
    BY DEF TypeOK, CommitSweep, NoEnvelopes
  <2>3. pc' \in [Processes -> {"idle", "receipt", "envelope", "batch", "delete", "commit"}]
    BY <1>1 DEF TypeOK, CommitSweep, EndTransaction, Goto
  <2>4. \A q, r \in Processes : q # r => held'[q] \cap held'[r] = {}
    BY DEF TypeOK, Shapes, CommitSweep, EndTransaction
  <2>5. QED
    BY <2>1, <2>2, <2>3, <2>4, <1>4 DEF TypeOK
<1>7. QED
  BY <1>3, <1>4, <1>5, <1>6 DEF CommitSweepWrites


LEMMA ExpiryCommits ==
    ASSUME TypeOK, Shapes, NEW m \in Messages, Expire(m)
    PROVE  /\ \A n \in Messages :
                /\ batches'[n].delivered = batches[n].delivered
                /\ batches'[n].completed = batches[n].completed
                /\ batches'[n].cleanup = batches[n].cleanup
                /\ batches[n].expired => batches'[n].expired
           /\ UNCHANGED <<receipts, envelopes, pc, held>>
           /\ TypeOK' /\ Shapes'
<1>1. \A n \in Messages : batches[n] \in Batch
  BY DEF TypeOK
<1>2. UNCHANGED <<receipts, envelopes, pc, held>>
  BY DEF Expire
<1>3. ASSUME NEW n \in Messages
      PROVE  /\ batches'[n].delivered = batches[n].delivered
             /\ batches'[n].completed = batches[n].completed
             /\ batches'[n].cleanup = batches[n].cleanup
             /\ batches[n].expired => batches'[n].expired
             /\ batches'[n] \in Batch
  <2>1. CASE n # m
    BY <2>1, <1>1 DEF Expire, Shapes
  <2>2. CASE n = m
    <3>1. batches'[n] = [batches[n] EXCEPT !.expired = TRUE]
      BY <2>2 DEF Expire, Shapes
    <3>2. batches[n] \in Batch
      BY <1>1
    <3>3. QED
      BY <3>1, <3>2 DEF Batch
  <2>3. QED
    BY <2>1, <2>2
<1>4. Shapes'
  BY <1>2 DEF Shapes, Expire
<1>5. TypeOK'
  BY <1>2, <1>3 DEF TypeOK
<1>6. QED
  BY <1>2, <1>3, <1>4, <1>5

-----------------------------------------------------------------------------
(* Locks *)

OthersWait(p) == \A q \in Processes \ {p} : pc'[q] = pc[q] /\ held'[q] = held[q]

Steps == {"idle", "receipt", "envelope", "batch", "delete", "commit"}

LEMMA GotoMoves ==
    ASSUME TypeOK, NEW p \in Processes, NEW step \in Steps, Goto(p, step)
    PROVE  /\ pc'[p] = step
           /\ \A q \in Processes \ {p} : pc'[q] = pc[q]
           /\ pc' \in [Processes -> Steps]
BY DEF TypeOK, Goto, Steps

LEMMA LocksAreExclusive ==
    ASSUME TypeOK, Shapes, NEW p \in Processes, NEW rows,
           held' = [held EXCEPT ![p] = rows],
           \A row \in rows : row \in held[p] \/ Free(row, p)
    PROVE  /\ held'[p] = rows
           /\ \A q \in Processes \ {p} : held'[q] = held[q]
           /\ held' = [q \in Processes |-> held'[q]]
           /\ \A q, r \in Processes : q # r => held'[q] \cap held'[r] = {}
<1>1. held'[p] = rows /\ (\A q \in Processes \ {p} : held'[q] = held[q])
      /\ held' = [q \in Processes |-> held'[q]]
  BY DEF Shapes
<1>2. \A q \in Processes \ {p} : rows \cap held[q] = {}
  BY DEF TypeOK, Free
<1>3. QED
  BY <1>1, <1>2 DEF TypeOK

LEMMA LockLocks ==
    ASSUME TypeOK, Shapes, NEW p \in Processes, NEW row, Lock(p, row)
    PROVE  /\ held'[p] = held[p] \cup {row}
           /\ \A q \in Processes \ {p} : held'[q] = held[q]
           /\ held' = [q \in Processes |-> held'[q]]
           /\ \A q, r \in Processes : q # r => held'[q] \cap held'[r] = {}
<1>1. held' = [held EXCEPT ![p] = held[p] \cup {row}]
  BY DEF Lock
<1>2. \A r \in held[p] \cup {row} : r \in held[p] \/ Free(r, p)
  BY DEF Lock
<1>3. QED
  BY <1>1, <1>2, LocksAreExclusive

LEMMA EndEnds ==
    ASSUME TypeOK, Shapes, NEW p \in Processes, EndTransaction(p)
    PROVE  /\ pc'[p] = "idle" /\ held'[p] = {}
           /\ OthersWait(p)
           /\ pc' \in [Processes -> Steps]
           /\ held' = [q \in Processes |-> held'[q]]
           /\ \A q, r \in Processes : q # r => held'[q] \cap held'[r] = {}
<1>1. "idle" \in Steps
  BY DEF Steps
<1>2. held' = [held EXCEPT ![p] = {}] /\ Goto(p, "idle")
  BY DEF EndTransaction
<1>3. /\ pc'[p] = "idle" /\ pc' \in [Processes -> Steps]
      /\ \A q \in Processes \ {p} : pc'[q] = pc[q]
  BY <1>1, <1>2, GotoMoves
<1>4. /\ held'[p] = {} /\ held' = [q \in Processes |-> held'[q]]
      /\ \A q \in Processes \ {p} : held'[q] = held[q]
  BY <1>2 DEF Shapes
<1>5. \A q, r \in Processes : q # r => held'[q] \cap held'[r] = {}
  BY <1>4 DEF TypeOK
<1>6. QED
  BY <1>3, <1>4, <1>5 DEF OthersWait

(* A step that leaves the tables alone keeps their types.                  *)
LEMMA TablesKept ==
    ASSUME TypeOK, Shapes, UNCHANGED tables,
           pc' \in [Processes -> Steps],
           held' = [q \in Processes |-> held'[q]],
           \A q, r \in Processes : q # r => held'[q] \cap held'[r] = {}
    PROVE  TypeOK' /\ Shapes'
<1>1. receipts' = receipts /\ envelopes' = envelopes /\ batches' = batches
  BY DEF tables
<1>2. TypeOK'
  BY <1>1 DEF TypeOK, Steps
<1>3. Shapes'
  BY <1>1 DEF Shapes
<1>4. QED
  BY <1>2, <1>3

-----------------------------------------------------------------------------
(* Writers hold what they write *)

(* A step that changes the tables at these rows only; what else it does,   *)
(* it does in one direction: envelopes are delivered or deleted, batches   *)
(* are completed and expire.                                               *)
WritesOnly(rows) ==
    \A m \in Messages :
        /\ \A d \in Recipients[m] :
            /\ receipts'[m][d] = receipts[m][d] \/ ReceiptRow(m, d) \in rows
            /\ envelopes'[m][d] = "pending" => envelopes[m][d] = "pending"
            /\ envelopes[m][d] = "none" => envelopes'[m][d] = "none"
        /\ \/ BatchRow(m) \in rows
           \/ /\ batches'[m].delivered = batches[m].delivered
              /\ batches'[m].cleanup = batches[m].cleanup
        /\ batches[m].completed => batches'[m].completed
        /\ batches[m].expired => batches'[m].expired

LEMMA AckWritesItsLocks ==
    ASSUME TypeOK, Shapes, NEW p \in Ackers, HoldsWhatItWrites(p), CommitAck(p)
    PROVE  WritesOnly(held[p])
<1>1. CommitAckWrites(p)
  BY AckCommits
<1>2. pc[p] = "commit"
  BY DEF CommitAck
<1>3. ReceiptRow(Msg(p), Dev(p)) \in held[p] /\ (Crosses(p) => BatchRow(Msg(p)) \in held[p])
  BY <1>2 DEF HoldsWhatItWrites
<1>4. CleansUp(p) => Crosses(p)
  BY DEF CleansUp, Completes
<1>5. \A m \in Messages : \A d \in Recipients[m] :
        envelopes[m][d] = "none" => envelopes'[m][d] = "none"
  BY <1>1 DEF CommitAckWrites
<1>6. \A m \in Messages : \A d \in Recipients[m] :
        /\ receipts'[m][d] = receipts[m][d] \/ ReceiptRow(m, d) \in held[p]
        /\ envelopes'[m][d] = "pending" => envelopes[m][d] = "pending"
  BY <1>1, <1>3 DEF CommitAckWrites
<1>7. \A m \in Messages :
        \/ BatchRow(m) \in held[p]
        \/ /\ batches'[m].delivered = batches[m].delivered
           /\ batches'[m].cleanup = batches[m].cleanup
  BY <1>1, <1>3, <1>4 DEF CommitAckWrites
<1>8. \A m \in Messages :
        /\ batches[m].completed => batches'[m].completed
        /\ batches[m].expired => batches'[m].expired
  BY <1>1, Zenon DEF CommitAckWrites
<1>9. QED
  BY <1>5, <1>6, <1>7, <1>8 DEF WritesOnly

LEMMA SweepWritesItsLocks ==
    ASSUME TypeOK, Shapes, NEW p \in Sweepers, CommitSweep(p)
    PROVE  WritesOnly(held[p])
<1>1. CommitSweepWrites(p) /\ receipts' = receipts
  BY SweepCommits DEF CommitSweep
<1>2. \A m \in Messages : m \in ClaimedBy(p) <=> BatchRow(m) \in held[p]
  BY DEF ClaimedBy
<1>3. QED
  BY <1>1, <1>2 DEF WritesOnly, CommitSweepWrites

LEMMA ExpiryWritesNothingLocked ==
    ASSUME TypeOK, Shapes, NEW m \in Messages, Expire(m)
    PROVE  WritesOnly({})
BY ExpiryCommits DEF WritesOnly

LEMMA QuietStepsWriteNothing ==
    ASSUME UNCHANGED tables, NEW rows
    PROVE  WritesOnly(rows)
BY DEF WritesOnly, tables

(* A process that does not move keeps its locks, and what it knows of the  *)
(* rows it holds: nobody else writes them.                                 *)
LEMMA AckUndisturbed ==
    ASSUME TypeOK, NEW q \in Ackers, NEW rows, rows \cap held[q] = {}, WritesOnly(rows),
           pc'[q] = pc[q], held'[q] = held[q], HoldsWhatItWrites(q)
    PROVE  HoldsWhatItWrites(q)'
<1>1. Msg(q) \in Messages /\ Dev(q) \in Recipients[Msg(q)]
  BY AckIsAck
<1>2. ASSUME ReceiptRow(Msg(q), Dev(q)) \in held[q] PROVE Crosses(q)' <=> Crosses(q)
  <2>1. Receipt(q)' = Receipt(q)
    BY <1>1, <1>2 DEF WritesOnly, Receipt, Msg, Dev
  <2>2. QED
    BY <2>1 DEF Crosses, Advances, advances, reachesTerminal
<1>3. Envelope(q)' = "pending" => Envelope(q) = "pending"
  BY <1>1 DEF WritesOnly, Envelope, Msg, Dev
<1>4. ASSUME ReceiptRow(Msg(q), Dev(q)) \in held[q], BatchRow(Msg(q)) \in held[q]
      PROVE  CleansUp(q)' <=> CleansUp(q)
  <2>1. AckBatch(q)'.delivered = AckBatch(q).delivered /\ AckBatch(q)'.cleanup = AckBatch(q).cleanup
    BY <1>1, <1>4 DEF WritesOnly, AckBatch, Msg
  <2>2. QED
    BY <2>1, <1>2, <1>4 DEF CleansUp, Completes
<1>5. Envelopes(Msg(q))' \subseteq Envelopes(Msg(q))
  BY <1>1 DEF WritesOnly, Envelopes, Msg
<1>6. /\ pc'[q] \in {"envelope", "batch", "delete", "commit"} =>
            ReceiptRow(Msg(q), Dev(q)) \in held'[q]
      /\ pc'[q] \in {"envelope", "batch", "delete"} => Crosses(q)'
      /\ pc'[q] \in {"batch", "delete", "commit"} /\ Crosses(q)' /\ Envelope(q)' = "pending" =>
            EnvelopeRow(Msg(q), Dev(q)) \in held'[q]
  BY <1>2, <1>3 DEF HoldsWhatItWrites
<1>7. /\ pc'[q] \in {"delete", "commit"} /\ Crosses(q)' => BatchRow(Msg(q)) \in held'[q]
      /\ pc'[q] = "delete" => CleansUp(q)'
  BY <1>2, <1>4 DEF HoldsWhatItWrites
<1>8. ASSUME pc'[q] = "commit", CleansUp(q)' PROVE Envelopes(Msg(q))' \subseteq held'[q]
  <2>1. Crosses(q)'
    BY <1>8 DEF CleansUp, Completes
  <2>2. CleansUp(q)
    BY <2>1, <1>2, <1>4, <1>8 DEF HoldsWhatItWrites
  <2>3. QED
    BY <2>2, <1>5, <1>8 DEF HoldsWhatItWrites
<1>9. QED
  BY <1>6, <1>7, <1>8 DEF HoldsWhatItWrites, ReceiptRow, EnvelopeRow, BatchRow, Msg, Dev

LEMMA SweepUndisturbed ==
    ASSUME TypeOK, NEW q \in Sweepers, NEW rows, rows \cap held[q] = {}, WritesOnly(rows),
           pc'[q] = pc[q], held'[q] = held[q], StaysEligible(q)
    PROVE  StaysEligible(q)'
<1>1. ClaimedBy(q)' = ClaimedBy(q)
  BY DEF ClaimedBy, BatchRow
<1>2. ASSUME NEW m \in ClaimedBy(q) PROVE Eligible(m)'
  <2>1. m \in Messages /\ BatchRow(m) \in held[q] /\ Eligible(m)
    BY DEF ClaimedBy, StaysEligible
  <2>2. batches'[m].cleanup = batches[m].cleanup
    BY <2>1 DEF WritesOnly
  <2>3. (batches[m].completed => batches'[m].completed)
        /\ (batches[m].expired => batches'[m].expired)
    BY <2>1, Zenon DEF WritesOnly
  <2>4. QED
    BY <2>1, <2>2, <2>3 DEF Eligible
<1>3. QED
  BY <1>1, <1>2 DEF StaysEligible

-----------------------------------------------------------------------------
(* One step of one process *)

LockedStep(p) ==
    /\ TypeOK' /\ Shapes'
    /\ OthersWait(p)
    /\ WritesOnly(held[p])
    /\ pc'[p] = "idle" => held'[p] = {}

LEMMA QuietStep ==
    ASSUME TypeOK, Shapes, NEW p \in Processes, NEW step \in Steps \ {"idle"},
           pc'[p] = step, \A q \in Processes \ {p} : pc'[q] = pc[q], pc' \in [Processes -> Steps],
           UNCHANGED tables,
           held' = held \/ \E row : Lock(p, row)
    PROVE  LockedStep(p)
<1>1. /\ \A q \in Processes \ {p} : held'[q] = held[q]
      /\ held' = [q \in Processes |-> held'[q]]
      /\ \A q, r \in Processes : q # r => held'[q] \cap held'[r] = {}
  <2>1. CASE held' = held
    BY <2>1 DEF TypeOK, Shapes
  <2>2. CASE \E row : Lock(p, row)
    BY <2>2, LockLocks
  <2>3. QED
    BY <2>1, <2>2
<1>2. TypeOK' /\ Shapes'
  BY <1>1, TablesKept
<1>3. WritesOnly(held[p])
  BY QuietStepsWriteNothing
<1>4. QED
  BY <1>1, <1>2, <1>3 DEF LockedStep, OthersWait

LEMMA AbortStep ==
    ASSUME TypeOK, Shapes, NEW p \in Processes, Abort(p)
    PROVE  LockedStep(p) /\ pc'[p] = "idle" /\ held'[p] = {}
<1>1. EndTransaction(p) /\ UNCHANGED tables
  BY DEF Abort
<1>2. TypeOK' /\ Shapes'
  BY <1>1, EndEnds, TablesKept
<1>3. WritesOnly(held[p])
  BY <1>1, QuietStepsWriteNothing
<1>4. QED
  BY <1>1, <1>2, <1>3, EndEnds DEF LockedStep

(* What an ack decides depends on the tables only.                         *)
LEMMA DecisionsKept ==
    ASSUME UNCHANGED tables, NEW p
    PROVE  /\ Crosses(p)' <=> Crosses(p)
           /\ CleansUp(p)' <=> CleansUp(p)
           /\ Envelope(p)' = Envelope(p)
           /\ Envelopes(Msg(p))' = Envelopes(Msg(p))
<1>1. receipts' = receipts /\ envelopes' = envelopes /\ batches' = batches
  BY DEF tables
<1>2. (Crosses(p)' <=> Crosses(p)) /\ (Completes(p)' <=> Completes(p))
  BY <1>1 DEF Crosses, Completes, Advances, advances, reachesTerminal, Receipt, AckBatch
<1>3. CleansUp(p)' <=> CleansUp(p)
  BY <1>1, <1>2 DEF CleansUp, AckBatch
<1>4. Envelope(p)' = Envelope(p) /\ Envelopes(Msg(p))' = Envelopes(Msg(p))
  BY <1>1 DEF Envelope, Envelopes, Msg, EnvelopeRow
<1>5. QED
  BY <1>2, <1>3, <1>4

LEMMA AckSteps ==
    ASSUME TypeOK, Shapes, NEW p \in Ackers, HoldsWhatItWrites(p),
           BeginAck(p) \/ AckStep(p)
    PROVE  LockedStep(p) /\ HoldsWhatItWrites(p)'
<1> p \in Processes
  BY DEF Processes
<1>1. ASSUME NEW step \in Steps \ {"idle"}, Goto(p, step), UNCHANGED tables,
             held' = held \/ \E row : Lock(p, row)
      PROVE  /\ LockedStep(p) /\ pc'[p] = step
             /\ held[p] \subseteq held'[p]
             /\ \A row : Lock(p, row) => row \in held'[p]
  <2>1. /\ pc'[p] = step /\ pc' \in [Processes -> Steps]
        /\ \A q \in Processes \ {p} : pc'[q] = pc[q]
    BY <1>1, GotoMoves
  <2>2. LockedStep(p)
    BY <1>1, <2>1, QuietStep
  <2>3. held[p] \subseteq held'[p] /\ \A row : Lock(p, row) => row \in held'[p]
    BY <1>1, LockLocks
  <2>4. QED
    BY <2>1, <2>2, <2>3
<1>2. CASE BeginAck(p)
  <2>1. LockedStep(p) /\ pc'[p] = "receipt"
    BY <1>1, <1>2 DEF BeginAck, Steps
  <2>2. QED
    BY <2>1 DEF HoldsWhatItWrites
<1>3. CASE LockReceipt(p)
  <2> DEFINE step == IF Crosses(p) THEN "envelope" ELSE "commit"
  <2>1. Goto(p, step) /\ UNCHANGED tables /\ Lock(p, ReceiptRow(Msg(p), Dev(p)))
    BY <1>3 DEF LockReceipt, Msg, Dev
  <2>2. step \in Steps \ {"idle"}
    BY DEF Steps
  <2>3. LockedStep(p) /\ pc'[p] = step /\ ReceiptRow(Msg(p), Dev(p)) \in held'[p]
    BY <1>1, <2>1, <2>2
  <2>4. CleansUp(p) => Crosses(p)
    BY DEF CleansUp, Completes
  <2>5. HoldsWhatItWrites(p)'
    BY <2>1, <2>3, <2>4, DecisionsKept DEF HoldsWhatItWrites, ReceiptRow, Msg, Dev
  <2>6. QED
    BY <2>3, <2>5
<1>4. CASE MarkEnvelopeDelivered(p)
  <2>1. /\ pc[p] = "envelope" /\ Goto(p, "batch") /\ UNCHANGED tables
        /\ held' = held \/ \E row : Lock(p, row)
        /\ Envelope(p) = "pending" => Lock(p, EnvelopeRow(Msg(p), Dev(p)))
    BY <1>4 DEF MarkEnvelopeDelivered, Msg, Dev
  <2>2. /\ LockedStep(p) /\ pc'[p] = "batch" /\ held[p] \subseteq held'[p]
        /\ Envelope(p) = "pending" => EnvelopeRow(Msg(p), Dev(p)) \in held'[p]
    BY <1>1, <2>1 DEF Steps
  <2>3. ReceiptRow(Msg(p), Dev(p)) \in held[p] /\ Crosses(p)
    BY <2>1 DEF HoldsWhatItWrites
  <2>4. HoldsWhatItWrites(p)'
    BY <2>1, <2>2, <2>3, DecisionsKept DEF HoldsWhatItWrites, ReceiptRow, EnvelopeRow, Msg, Dev
  <2>5. QED
    BY <2>2, <2>4
<1>5. CASE IncrementDeliveredCount(p)
  <2> DEFINE step == IF CleansUp(p) THEN "delete" ELSE "commit"
  <2>1. pc[p] = "batch" /\ Goto(p, step) /\ UNCHANGED tables /\ Lock(p, BatchRow(Msg(p)))
    BY <1>5 DEF IncrementDeliveredCount, Msg
  <2>2. step \in Steps \ {"idle"}
    BY DEF Steps
  <2>3. /\ LockedStep(p) /\ pc'[p] = step /\ BatchRow(Msg(p)) \in held'[p]
        /\ held[p] \subseteq held'[p]
    BY <1>1, <2>1, <2>2
  <2>4. /\ ReceiptRow(Msg(p), Dev(p)) \in held[p] /\ Crosses(p)
        /\ Envelope(p) = "pending" => EnvelopeRow(Msg(p), Dev(p)) \in held[p]
    BY <2>1 DEF HoldsWhatItWrites
  <2>5. HoldsWhatItWrites(p)'
    BY <2>1, <2>3, <2>4, DecisionsKept
       DEF HoldsWhatItWrites, ReceiptRow, EnvelopeRow, BatchRow, Msg, Dev
  <2>6. QED
    BY <2>3, <2>5
<1>6. ASSUME NEW d, DeleteEnvelope(p, {Msg(p)}, EnvelopeRow(Msg(p), d))
      PROVE  LockedStep(p) /\ HoldsWhatItWrites(p)'
  <2>1. /\ pc[p] = "delete" /\ pc' = pc /\ UNCHANGED tables
        /\ Lock(p, EnvelopeRow(Msg(p), d))
    BY <1>6 DEF DeleteEnvelope
  <2>2. /\ pc'[p] = "delete" /\ "delete" \in Steps \ {"idle"} /\ pc' \in [Processes -> Steps]
        /\ \A q \in Processes \ {p} : pc'[q] = pc[q]
    BY <2>1 DEF Steps, TypeOK
  <2>3. LockedStep(p) /\ held[p] \subseteq held'[p]
    BY <2>1, <2>2, QuietStep, LockLocks
  <2>4. HoldsWhatItWrites(p)'
    BY <2>1, <2>2, <2>3, DecisionsKept
       DEF HoldsWhatItWrites, ReceiptRow, EnvelopeRow, BatchRow, Msg, Dev
  <2>5. QED
    BY <2>3, <2>4
<1>7. CASE CleanupBatchDone(p)
  <2>1. /\ pc[p] = "delete" /\ Goto(p, "commit") /\ UNCHANGED tables /\ held' = held
        /\ Envelopes(Msg(p)) \subseteq held[p]
    BY <1>7 DEF CleanupBatchDone, Msg
  <2>2. LockedStep(p) /\ pc'[p] = "commit"
    BY <1>1, <2>1 DEF Steps
  <2>3. HoldsWhatItWrites(p)'
    BY <2>1, <2>2, DecisionsKept
       DEF HoldsWhatItWrites, ReceiptRow, EnvelopeRow, BatchRow, Msg, Dev
  <2>4. QED
    BY <2>2, <2>3
<1>8. CASE CommitAck(p)
  <2>1. EndTransaction(p)
    BY <1>8 DEF CommitAck
  <2>2. LockedStep(p) /\ pc'[p] = "idle"
    BY <1>8, <2>1, EndEnds, AckCommits, AckWritesItsLocks DEF LockedStep
  <2>3. QED
    BY <2>2 DEF HoldsWhatItWrites
<1>9. QED
  BY <1>2, <1>3, <1>4, <1>5, <1>6, <1>7, <1>8 DEF AckStep, Msg

LEMMA SweepSteps ==
    ASSUME TypeOK, Shapes, NEW p \in Sweepers, StaysEligible(p),
           ClaimEligibleBatches(p) \/ SweepStep(p)
    PROVE  LockedStep(p) /\ StaysEligible(p)'
<1> p \in Processes
  BY DEF Processes
<1>1. CASE ClaimEligibleBatches(p)
  <2>1. PICK ms \in SUBSET {m \in Messages : Claimable(m, p)} :
            held' = [held EXCEPT ![p] = {BatchRow(m) : m \in ms}]
    BY <1>1 DEF ClaimEligibleBatches
  <2> DEFINE rows == {BatchRow(m) : m \in ms}
  <2>2. Goto(p, "delete") /\ UNCHANGED tables /\ "delete" \in Steps
    BY <1>1 DEF ClaimEligibleBatches, Steps
  <2>3. \A row \in rows : row \in held[p] \/ Free(row, p)
    BY DEF Claimable
  <2>4. /\ held'[p] = rows
        /\ \A q \in Processes \ {p} : held'[q] = held[q]
        /\ held' = [q \in Processes |-> held'[q]]
        /\ \A q, r \in Processes : q # r => held'[q] \cap held'[r] = {}
    <3> HIDE DEF rows
    <3>1. held' = [held EXCEPT ![p] = rows]
      BY <2>1 DEF rows
    <3>2. QED
      BY <3>1, <2>3, LocksAreExclusive
  <2>5. /\ pc'[p] = "delete" /\ pc' \in [Processes -> Steps]
        /\ \A q \in Processes \ {p} : pc'[q] = pc[q]
    BY <2>2, GotoMoves
  <2>6. TypeOK' /\ Shapes'
    BY <2>2, <2>4, <2>5, TablesKept
  <2>7. LockedStep(p)
    BY <2>2, <2>4, <2>5, <2>6, QuietStepsWriteNothing DEF LockedStep, OthersWait
  <2>8. ClaimedBy(p)' \subseteq ms
    BY <2>4, RowsDiffer DEF ClaimedBy, BatchRow
  <2>9. \A m \in ms : Eligible(m)'
    BY <2>2 DEF Claimable, Eligible, tables
  <2>10. QED
    BY <2>5, <2>7, <2>8, <2>9 DEF StaysEligible
<1>2. ASSUME NEW m, NEW d, DeleteEnvelope(p, ClaimedBy(p), EnvelopeRow(m, d))
      PROVE  LockedStep(p) /\ StaysEligible(p)'
  <2>1. pc[p] = "delete" /\ pc' = pc /\ UNCHANGED tables /\ Lock(p, EnvelopeRow(m, d))
    BY <1>2 DEF DeleteEnvelope
  <2>2. /\ pc'[p] = "delete" /\ "delete" \in Steps \ {"idle"} /\ pc' \in [Processes -> Steps]
        /\ \A q \in Processes \ {p} : pc'[q] = pc[q]
    BY <2>1 DEF Steps, TypeOK
  <2>3. LockedStep(p) /\ held'[p] = held[p] \cup {EnvelopeRow(m, d)}
    BY <2>1, <2>2, QuietStep, LockLocks
  <2>4. ClaimedBy(p)' = ClaimedBy(p)
    BY <2>3 DEF ClaimedBy, BatchRow, EnvelopeRow
  <2>5. StaysEligible(p)'
    BY <2>1, <2>2, <2>4 DEF StaysEligible, Eligible, tables
  <2>6. QED
    BY <2>3, <2>5
<1>3. CASE CommitSweep(p)
  <2>1. EndTransaction(p)
    BY <1>3 DEF CommitSweep
  <2>2. LockedStep(p) /\ pc'[p] = "idle" /\ held'[p] = {}
    BY <1>3, <2>1, EndEnds, SweepCommits, SweepWritesItsLocks DEF LockedStep
  <2>3. ClaimedBy(p)' = {}
    BY <2>2 DEF ClaimedBy
  <2>4. QED
    BY <2>2, <2>3 DEF StaysEligible
<1>4. QED
  BY <1>1, <1>2, <1>3 DEF SweepStep

-----------------------------------------------------------------------------
(* The lock discipline is kept by every step *)

LEMMA LocksKept ==
    ASSUME TypeOK, Shapes, LocksOK, [Next]_vars
    PROVE  TypeOK' /\ Shapes' /\ LocksOK'
<1>1. Ackers \cap Sweepers = {} /\ Processes = Ackers \cup Sweepers
  BY DeliveryAssumption DEF Processes
<1>2. /\ \A q \in Ackers : HoldsWhatItWrites(q)
      /\ \A q \in Sweepers : StaysEligible(q)
      /\ \A q \in Processes : pc[q] = "idle" => held[q] = {}
  BY DEF LocksOK, AcksHoldWhatTheyWrite, ClaimsStayEligible, IdleHoldsNothing
<1>3. ASSUME NEW p \in Processes, LockedStep(p),
             p \in Ackers => HoldsWhatItWrites(p)', p \in Sweepers => StaysEligible(p)'
      PROVE  TypeOK' /\ Shapes' /\ LocksOK'
  <2>1. OthersWait(p) /\ WritesOnly(held[p])
    BY <1>3 DEF LockedStep
  <2>2. ASSUME NEW q \in Processes, q # p
        PROVE  held[p] \cap held[q] = {} /\ pc'[q] = pc[q] /\ held'[q] = held[q]
    BY <2>1, <2>2 DEF TypeOK, OthersWait
  <2>3. ASSUME NEW q \in Ackers PROVE HoldsWhatItWrites(q)'
    <3>1. CASE q = p
      BY <3>1, <1>3
    <3>2. CASE q # p
      BY <3>2, <1>1, <1>2, <2>1, <2>2, AckUndisturbed
    <3>3. QED
      BY <3>1, <3>2
  <2>4. ASSUME NEW q \in Sweepers PROVE StaysEligible(q)'
    <3>1. CASE q = p
      BY <3>1, <1>3
    <3>2. CASE q # p
      BY <3>2, <1>1, <1>2, <2>1, <2>2, SweepUndisturbed
    <3>3. QED
      BY <3>1, <3>2
  <2>5. ASSUME NEW q \in Processes, pc'[q] = "idle" PROVE held'[q] = {}
    BY <2>5, <1>2, <1>3, <2>2 DEF LockedStep
  <2>6. QED
    BY <1>3, <2>3, <2>4, <2>5
       DEF LockedStep, LocksOK, AcksHoldWhatTheyWrite, ClaimsStayEligible, IdleHoldsNothing
<1>4. ASSUME WritesOnly({}), UNCHANGED <<pc, held>>
      PROVE  LocksOK'
  <2>1. \A q \in Ackers : HoldsWhatItWrites(q)'
    BY <1>2, <1>4, AckUndisturbed
  <2>2. \A q \in Sweepers : StaysEligible(q)'
    BY <1>2, <1>4, SweepUndisturbed
  <2>3. QED
    BY <1>2, <1>4, <2>1, <2>2 DEF LocksOK, AcksHoldWhatTheyWrite, ClaimsStayEligible, IdleHoldsNothing
<1>5. ASSUME NEW p \in Ackers, BeginAck(p) \/ AckStep(p)
      PROVE  TypeOK' /\ Shapes' /\ LocksOK'
  BY <1>1, <1>2, <1>3, <1>5, AckSteps
<1>6. ASSUME NEW p \in Sweepers, ClaimEligibleBatches(p) \/ SweepStep(p)
      PROVE  TypeOK' /\ Shapes' /\ LocksOK'
  BY <1>1, <1>2, <1>3, <1>6, SweepSteps
<1>7. ASSUME NEW p \in Processes, Abort(p)
      PROVE  TypeOK' /\ Shapes' /\ LocksOK'
  <2>1. LockedStep(p) /\ pc'[p] = "idle" /\ held'[p] = {}
    BY <1>7, AbortStep
  <2>2. HoldsWhatItWrites(p)' /\ StaysEligible(p)'
    BY <2>1 DEF HoldsWhatItWrites, StaysEligible, ClaimedBy
  <2>3. QED
    BY <1>3, <2>1, <2>2
<1>8. ASSUME NEW m \in Messages, Expire(m)
      PROVE  TypeOK' /\ Shapes' /\ LocksOK'
  BY <1>4, <1>8, ExpiryCommits, ExpiryWritesNothingLocked
<1>9. CASE UNCHANGED vars
  <2>1. UNCHANGED tables /\ pc' = pc /\ held' = held
    BY <1>9 DEF vars, tables
  <2>2. TypeOK' /\ Shapes'
    BY <2>1 DEF TypeOK, Shapes, tables
  <2>3. LocksOK'
    BY <1>4, <2>1, QuietStepsWriteNothing
  <2>4. QED
    BY <2>2, <2>3
<1>10. QED
  BY <1>5, <1>6, <1>7, <1>8, <1>9 DEF Next

-----------------------------------------------------------------------------
(* What the tables say of each other *)

Answers == {"pending", "delivered", "read"}

LEMMA RanksAreNumbers ==
    ASSUME NEW from \in Answers
    PROVE  rankOf(from) \in Nat /\ rankOf(Terminal) \in Nat
BY Ranks, DeliveryAssumption DEF Answers

(* An ack that crosses adds its recipient to those at the terminal state,  *)
(* any other ack adds none.                                                *)
LEMMA AckCounts ==
    ASSUME TypeOK, Shapes, NEW p \in Ackers, CommitAck(p), NEW m \in Messages
    PROVE  /\ m = Msg(p) /\ Crosses(p) =>
                AtTerminal(m)' = AtTerminal(m) \cup {Dev(p)} /\ Dev(p) \notin AtTerminal(m)
           /\ ~(m = Msg(p) /\ Crosses(p)) => AtTerminal(m)' = AtTerminal(m)
<1>1. CommitAckWrites(p)
  BY AckCommits
<1>2. \A d \in Recipients[m] : receipts[m][d] \in Answers
  BY DEF TypeOK, Answers
<1>3. Msg(p) \in Messages /\ Dev(p) \in Recipients[Msg(p)] /\ AckOf[p].state \in Answers
  BY AckIsAck DEF Answers
<1>4. Receipt(p) = receipts[Msg(p)][Dev(p)]
  BY DEF Receipt, Msg, Dev
<1>5. ASSUME NEW d \in Recipients[m]
      PROVE  /\ m = Msg(p) /\ d = Dev(p) /\ Crosses(p) =>
                    d \in AtTerminal(m)' /\ d \notin AtTerminal(m)
             /\ ~(m = Msg(p) /\ d = Dev(p) /\ Crosses(p)) =>
                    (d \in AtTerminal(m)' <=> d \in AtTerminal(m))
  <2>1. /\ d \in AtTerminal(m)' <=> reachesTerminal(receipts'[m][d])
        /\ d \in AtTerminal(m) <=> reachesTerminal(receipts[m][d])
    BY DEF AtTerminal, reachesTerminal, rankOf, States
  <2>2. receipts'[m][d] =
            IF m = Msg(p) /\ d = Dev(p) /\ Advances(p) THEN AckOf[p].state ELSE receipts[m][d]
    BY <1>1 DEF CommitAckWrites
  <2>3. CASE ~(m = Msg(p) /\ d = Dev(p) /\ Advances(p))
    BY <2>1, <2>2, <2>3 DEF Crosses
  <2>4. CASE m = Msg(p) /\ d = Dev(p) /\ Advances(p)
    <3>1. receipts'[m][d] = AckOf[p].state /\ receipts[m][d] = Receipt(p)
      BY <1>4, <2>2, <2>4
    <3>2. rankOf(AckOf[p].state) > rankOf(Receipt(p))
      BY <2>4 DEF Advances, advances
    <3>3. rankOf(AckOf[p].state) \in Nat /\ rankOf(Receipt(p)) \in Nat /\ rankOf(Terminal) \in Nat
      BY <1>2, <1>3, <3>1, RanksAreNumbers
    <3>4. reachesTerminal(Receipt(p)) => reachesTerminal(AckOf[p].state)
      BY <3>2, <3>3 DEF reachesTerminal
    <3>5. QED
      BY <2>1, <2>4, <3>1, <3>4 DEF Crosses
  <2>5. QED
    BY <2>3, <2>4
<1>6. AtTerminal(m)' \subseteq Recipients[m] /\ AtTerminal(m) \subseteq Recipients[m]
  BY DEF AtTerminal
<1>7. QED
  BY <1>3, <1>5, <1>6

LEMMA AckKeepsProgress ==
    ASSUME IInv, NEW p \in Ackers, CommitAck(p)
    PROVE  CountsMatch'
<1>1. TypeOK /\ Shapes /\ CountsMatch
  BY DEF IInv
<1>2. CommitAckWrites(p)
  BY <1>1, AckCommits
<1>3. Completes(p) => Crosses(p)
  BY DEF Completes
<1>4. SUFFICES ASSUME NEW m \in Messages
               PROVE  /\ batches'[m].delivered = Cardinality(AtTerminal(m)')
                      /\ batches'[m].completed <=> AtTerminal(m)' = Recipients[m]
  BY DEF CountsMatch
<1>5. /\ batches[m].delivered = Cardinality(AtTerminal(m))
      /\ batches[m].completed <=> AtTerminal(m) = Recipients[m]
  BY <1>1 DEF CountsMatch
<1>6. CASE ~(m = Msg(p) /\ Crosses(p))
  <2>1. AtTerminal(m)' = AtTerminal(m)
    BY <1>1, <1>6, AckCounts
  <2>2. batches'[m].delivered = batches[m].delivered
    BY <1>2, <1>6 DEF CommitAckWrites
  <2>3. batches'[m].completed <=> batches[m].completed
    BY <1>2, <1>3, <1>6, Zenon DEF CommitAckWrites
  <2>4. QED
    BY <1>5, <2>1, <2>2, <2>3
<1>7. CASE m = Msg(p) /\ Crosses(p)
  <2>1. AtTerminal(m)' = AtTerminal(m) \cup {Dev(p)} /\ Dev(p) \notin AtTerminal(m)
    BY <1>1, <1>7, AckCounts
  <2>2. AtTerminal(m) \subseteq Recipients[m] /\ Dev(p) \in Recipients[m]
    BY <1>7, AckIsAck DEF AtTerminal
  <2>3. /\ IsFiniteSet(AtTerminal(m)) /\ Cardinality(AtTerminal(m)) \in Nat
        /\ Cardinality(AtTerminal(m)') = Cardinality(AtTerminal(m)) + 1
    BY <2>1, <2>2, CountsAreFinite, FS_AddElement
  <2>4. batches'[m].delivered = batches[m].delivered + 1
    BY <1>2, <1>7 DEF CommitAckWrites
  <2>5. batches'[m].completed <=> batches[m].completed \/ Completes(p)
    BY <1>2, <1>7, Zenon DEF CommitAckWrites
  <2>6. ~batches[m].completed
    BY <1>5, <2>1, <2>2
  <2>7. Completes(p) <=> AtTerminal(m)' = Recipients[m]
    <3>1. AtTerminal(m)' \in SUBSET Recipients[m]
      BY <2>1, <2>2
    <3>2. Completes(p) <=> Cardinality(AtTerminal(m)') >= Cardinality(Recipients[m])
      BY <1>5, <1>7, <2>3 DEF Completes, AckBatch, Msg
    <3>3. /\ Cardinality(AtTerminal(m)') \in Nat /\ Cardinality(Recipients[m]) \in Nat
          /\ Cardinality(AtTerminal(m)') <= Cardinality(Recipients[m])
          /\ Cardinality(AtTerminal(m)') = Cardinality(Recipients[m]) =>
                AtTerminal(m)' = Recipients[m]
      BY <3>1, CountsAreFinite
    <3>4. QED
      BY <3>2, <3>3
  <2>8. QED
    BY <1>5, <2>3, <2>4, <2>5, <2>6, <2>7
<1>8. QED
  BY <1>6, <1>7

LEMMA AckKeepsWork ==
    ASSUME IInv, NEW p \in Ackers, CommitAck(p)
    PROVE  WorkIsKept'
<1>1. TypeOK /\ Shapes /\ CountsMatch /\ WorkIsKept
  BY DEF IInv
<1>2. CommitAckWrites(p)
  BY <1>1, AckCommits
<1>3. (CleansUp(p) => Completes(p)) /\ (Completes(p) => Crosses(p))
  BY DEF CleansUp, Completes
<1>4. SUFFICES ASSUME NEW m \in Messages
               PROVE  /\ batches'[m].cleanup = "none" =>
                            \A d \in Recipients[m] :
                                /\ envelopes'[m][d] # "none"
                                /\ envelopes'[m][d] = "delivered" <=> d \in AtTerminal(m)'
                      /\ batches'[m].cleanup # "none" =>
                            \A d \in Recipients[m] : envelopes'[m][d] = "none"
                      /\ batches'[m].cleanup = "completed" => AtTerminal(m)' = Recipients[m]
                      /\ batches'[m].cleanup = "expired" => batches'[m].expired
  BY DEF WorkIsKept
<1>5. /\ batches[m].cleanup = "none" =>
            \A d \in Recipients[m] :
                /\ envelopes[m][d] # "none"
                /\ envelopes[m][d] = "delivered" <=> d \in AtTerminal(m)
      /\ batches[m].cleanup # "none" => \A d \in Recipients[m] : envelopes[m][d] = "none"
      /\ batches[m].cleanup = "completed" => AtTerminal(m) = Recipients[m]
      /\ batches[m].cleanup = "expired" => batches[m].expired
  BY <1>1 DEF WorkIsKept
<1>6. batches'[m].cleanup = IF m = Msg(p) /\ CleansUp(p) THEN "completed" ELSE batches[m].cleanup
  BY <1>2 DEF CommitAckWrites
<1>7. batches'[m].expired = batches[m].expired
  BY <1>2 DEF CommitAckWrites
<1>8. \A d \in Recipients[m] :
        envelopes'[m][d] =
            IF m = Msg(p) /\ CleansUp(p) THEN "none"
            ELSE IF m = Msg(p) /\ d = Dev(p) /\ Crosses(p) /\ envelopes[m][d] = "pending"
                 THEN "delivered"
                 ELSE envelopes[m][d]
  BY <1>2 DEF CommitAckWrites
<1>9. \A d \in Recipients[m] : envelopes[m][d] \in {"none", "pending", "delivered"}
  BY <1>1 DEF TypeOK
<1>10. CASE m = Msg(p) /\ CleansUp(p)
  <2>1. AtTerminal(m)' = Recipients[m]
    <3>1. CountsMatch'
      BY AckKeepsProgress
    <3>2. batches'[m].completed
      BY <1>2, <1>3, <1>10, Zenon DEF CommitAckWrites
    <3>3. QED
      BY <3>1, <3>2 DEF CountsMatch
  <2>2. QED
    BY <1>6, <1>8, <1>10, <2>1
<1>11. CASE ~(m = Msg(p) /\ Crosses(p))
  BY <1>1, <1>3, <1>5, <1>6, <1>7, <1>8, <1>11, AckCounts
<1>12. CASE m = Msg(p) /\ Crosses(p) /\ ~CleansUp(p)
  <2>1. AtTerminal(m)' = AtTerminal(m) \cup {Dev(p)} /\ Dev(p) \notin AtTerminal(m)
    BY <1>1, <1>12, AckCounts
  <2>2. AtTerminal(m) \subseteq Recipients[m] /\ Dev(p) \in Recipients[m]
    BY <1>12, AckIsAck DEF AtTerminal
  <2>3. batches'[m].cleanup = batches[m].cleanup
    BY <1>6, <1>12
  <2>4. \A d \in Recipients[m] :
            envelopes'[m][d] =
                IF d = Dev(p) /\ envelopes[m][d] = "pending" THEN "delivered" ELSE envelopes[m][d]
    BY <1>8, <1>12
  <2>5. QED
    BY <1>5, <1>7, <1>9, <2>1, <2>2, <2>3, <2>4
<1>13. QED
  BY <1>10, <1>11, <1>12

LEMMA TerminalKept ==
    ASSUME UNCHANGED receipts, NEW m
    PROVE  AtTerminal(m)' = AtTerminal(m)
BY DEF AtTerminal, rankOf, States

LEMMA SweepKeepsTables ==
    ASSUME IInv, NEW p \in Sweepers, CommitSweep(p)
    PROVE  CountsMatch' /\ WorkIsKept'
<1>1. TypeOK /\ Shapes /\ CountsMatch /\ WorkIsKept /\ StaysEligible(p)
  BY DEF IInv, LocksOK, ClaimsStayEligible
<1>2. CommitSweepWrites(p) /\ UNCHANGED receipts
  BY <1>1, SweepCommits DEF CommitSweep
<1>3. \A m \in Messages : AtTerminal(m)' = AtTerminal(m)
  BY <1>2, TerminalKept
<1>4. CountsMatch'
  BY <1>1, <1>2, <1>3 DEF CountsMatch, CommitSweepWrites
<1>5. ASSUME NEW m \in ClaimedBy(p)
      PROVE  /\ m \in Messages /\ batches[m].cleanup = "none"
             /\ ~batches[m].completed => batches[m].expired
             /\ batches[m].completed => AtTerminal(m) = Recipients[m]
  BY <1>1 DEF StaysEligible, Eligible, ClaimedBy, CountsMatch
<1>6. WorkIsKept'
  BY <1>1, <1>2, <1>3, <1>5 DEF WorkIsKept, CommitSweepWrites
<1>7. QED
  BY <1>4, <1>6

LEMMA ExpiryKeepsTables ==
    ASSUME IInv, NEW m \in Messages, Expire(m)
    PROVE  CountsMatch' /\ WorkIsKept'
<1>1. TypeOK /\ Shapes /\ CountsMatch /\ WorkIsKept
  BY DEF IInv
<1>2. /\ \A n \in Messages :
            /\ batches'[n].delivered = batches[n].delivered
            /\ batches'[n].completed = batches[n].completed
            /\ batches'[n].cleanup = batches[n].cleanup
            /\ batches[n].expired => batches'[n].expired
      /\ UNCHANGED receipts /\ UNCHANGED envelopes
  BY <1>1, ExpiryCommits
<1>3. \A n \in Messages : AtTerminal(n)' = AtTerminal(n)
  BY <1>2, TerminalKept
<1>4. CountsMatch'
  BY <1>1, <1>2, <1>3 DEF CountsMatch
<1>5. WorkIsKept'
  BY <1>1, <1>2, <1>3 DEF WorkIsKept
<1>6. QED
  BY <1>4, <1>5

(* Only the two COMMITs and the passing of time change a table.            *)
LEMMA WhoWrites ==
    ASSUME [Next]_vars
    PROVE  \/ UNCHANGED tables
           \/ \E p \in Ackers : CommitAck(p)
           \/ \E p \in Sweepers : CommitSweep(p)
           \/ \E m \in Messages : Expire(m)
<1>1. ASSUME NEW p \in Ackers, BeginAck(p) \/ AckStep(p)
      PROVE  UNCHANGED tables \/ CommitAck(p)
  BY <1>1 DEF BeginAck, AckStep, LockReceipt, MarkEnvelopeDelivered, IncrementDeliveredCount,
              DeleteEnvelope, CleanupBatchDone
<1>2. ASSUME NEW p \in Sweepers, ClaimEligibleBatches(p) \/ SweepStep(p)
      PROVE  UNCHANGED tables \/ CommitSweep(p)
  BY <1>2 DEF ClaimEligibleBatches, SweepStep, DeleteEnvelope
<1>3. ASSUME NEW p \in Processes, Abort(p)
      PROVE  UNCHANGED tables
  BY <1>3 DEF Abort
<1>4. CASE UNCHANGED vars
  BY <1>4 DEF vars, tables
<1>5. QED
  BY <1>1, <1>2, <1>3, <1>4 DEF Next

-----------------------------------------------------------------------------
(* The invariant *)

LEMMA InitHolds == Init => IInv
<1> SUFFICES ASSUME Init PROVE IInv
  OBVIOUS
<1>1. /\ \A m \in Messages : \A d \in Recipients[m] :
            receipts[m][d] = "pending" /\ envelopes[m][d] = "pending"
      /\ \A m \in Messages :
            batches[m] = [delivered |-> 0, completed |-> FALSE, expired |-> FALSE,
                          cleanup |-> "none"]
      /\ \A p \in Processes : pc[p] = "idle" /\ held[p] = {}
  BY DEF Init
<1>2. TypeOK
  BY DEF Init, TypeOK, Batch
<1>3. Shapes
  BY DEF Init, Shapes
<1>4. LocksOK
  BY <1>1, DeliveryAssumption
     DEF LocksOK, AcksHoldWhatTheyWrite, HoldsWhatItWrites, ClaimsStayEligible, StaysEligible,
         ClaimedBy, IdleHoldsNothing, Processes
<1>5. \A m \in Messages : AtTerminal(m) = {} /\ Recipients[m] # {}
  <2>1. rankOf("pending") < rankOf(Terminal)
    BY Ranks, DeliveryAssumption
  <2>2. rankOf("pending") \in Nat /\ rankOf(Terminal) \in Nat
    BY Ranks, DeliveryAssumption
  <2>3. QED
    BY <1>1, <2>1, <2>2, DeliveryAssumption DEF AtTerminal
<1>6. CountsMatch
  <2>1. ASSUME NEW m \in Messages
        PROVE  /\ batches[m].delivered = Cardinality(AtTerminal(m))
               /\ batches[m].completed <=> AtTerminal(m) = Recipients[m]
    <3>1. batches[m].delivered = 0 /\ ~batches[m].completed
      BY <1>1
    <3>2. AtTerminal(m) = {} /\ Recipients[m] # {} /\ Cardinality({}) = 0
      BY <1>5, FS_EmptySet
    <3>3. QED
      BY <3>1, <3>2
  <2>2. QED
    BY <2>1 DEF CountsMatch
<1>7. WorkIsKept
  BY <1>1, <1>5 DEF WorkIsKept
<1>8. QED
  BY <1>2, <1>3, <1>4, <1>6, <1>7 DEF IInv

LEMMA StepKeeps == IInv /\ [Next]_vars => IInv'
<1> SUFFICES ASSUME IInv, [Next]_vars PROVE IInv'
  OBVIOUS
<1>1. TypeOK' /\ Shapes' /\ LocksOK'
  BY LocksKept DEF IInv
<1>2. CASE UNCHANGED tables
  <2>1. CountsMatch' /\ WorkIsKept'
    BY <1>2, TerminalKept DEF IInv, CountsMatch, WorkIsKept, tables
  <2>2. QED
    BY <1>1, <2>1 DEF IInv
<1>3. CASE \E p \in Ackers : CommitAck(p)
  BY <1>1, <1>3, AckKeepsProgress, AckKeepsWork DEF IInv
<1>4. CASE \E p \in Sweepers : CommitSweep(p)
  BY <1>1, <1>4, SweepKeepsTables DEF IInv
<1>5. CASE \E m \in Messages : Expire(m)
  BY <1>1, <1>5, ExpiryKeepsTables DEF IInv
<1>6. QED
  BY <1>2, <1>3, <1>4, <1>5, WhoWrites

(* The inductive invariant of acks and cleanups together.                  *)
THEOREM DeliveryInvariant == Spec => []IInv
<1>1. Init => IInv
  BY InitHolds
<1>2. IInv /\ [Next]_vars => IInv'
  BY StepKeeps
<1>3. QED
  BY <1>1, <1>2, PTL DEF Spec

(* ack.service.ts:82-165 and cleanup.repository.ts:79-107: the             *)
(* model may apply a transaction's writes at its COMMIT, because a         *)
(* transaction that is past a statement holds every row it has decided to  *)
(* write, and a claimed batch stays eligible until its sweep ends.         *)
THEOREM WritersHoldTheirRows == Spec => [](AcksHoldWhatTheyWrite /\ ClaimsStayEligible)
<1>1. IInv => AcksHoldWhatTheyWrite /\ ClaimsStayEligible
  BY DEF IInv, LocksOK
<1>2. QED
  BY <1>1, DeliveryInvariant, PTL

(* acks.repository.ts:154-160, for any number of devices that              *)
(* ack, each as often as it likes and in any order: delivered_count is the *)
(* number of recipients at the terminal state, completed_at is set only    *)
(* when that is all, and is set then unless the batch expired before.      *)
THEOREM ProgressIsExact == Spec => []ProgressMatchesReceipts
<1>1. IInv => ProgressMatchesReceipts
  BY DEF IInv, CountsMatch, ProgressMatchesReceipts
<1>2. QED
  BY <1>1, DeliveryInvariant, PTL

(* ack.service.ts:141-149 and cleanup.repository.ts:33-122: no interleaving*)
(* of acks and any number of sweeps frees the work of a batch early or in  *)
(* part.                                                                   *)
THEOREM WorkIsNeverLost == Spec => []WorkIsKept
<1>1. IInv => WorkIsKept
  BY DEF IInv
<1>2. QED
  BY <1>1, DeliveryInvariant, PTL

(* acks.repository.ts:62-105 and the gate cleanup_at IS NULL of both       *)
(* cleanups: receipts advance only, and a batch is cleaned once.           *)
THEOREM DeliveryNeverGoesBack == Spec => NothingGoesBack
<1> DEFINE Forward ==
        \A m \in Messages :
            /\ \A d \in Recipients[m] :
                receipts'[m][d] # receipts[m][d] =>
                    rankOf(receipts'[m][d]) > rankOf(receipts[m][d])
            /\ batches[m].cleanup # "none" => batches'[m].cleanup = batches[m].cleanup
            /\ batches[m].completed => batches'[m].completed
<1>1. ASSUME IInv, [Next]_vars PROVE Forward
  <2>1. TypeOK /\ Shapes
    BY <1>1 DEF IInv
  <2>2. CASE UNCHANGED tables
    BY <2>2 DEF tables
  <2>3. ASSUME NEW p \in Ackers, CommitAck(p) PROVE Forward
    <3>1. CommitAckWrites(p)
      BY <2>1, <2>3, AckCommits
    <3>2. \A m \in Messages : \A d \in Recipients[m] :
            receipts'[m][d] # receipts[m][d] =>
                rankOf(receipts'[m][d]) > rankOf(receipts[m][d])
      BY <3>1 DEF CommitAckWrites, Advances, advances, Receipt, Msg, Dev
    <3>3. \A m \in Messages :
            batches[m].cleanup # "none" => batches'[m].cleanup = batches[m].cleanup
      BY <3>1 DEF CommitAckWrites, CleansUp, AckBatch, Msg
    <3>4. \A m \in Messages : batches[m].completed => batches'[m].completed
      BY <3>1, Zenon DEF CommitAckWrites
    <3>5. QED
      BY <3>2, <3>3, <3>4
  <2>4. ASSUME NEW p \in Sweepers, CommitSweep(p) PROVE Forward
    <3>1. CommitSweepWrites(p) /\ UNCHANGED receipts
      BY <2>1, <2>4, SweepCommits DEF CommitSweep
    <3>2. \A m \in ClaimedBy(p) : batches[m].cleanup = "none"
      BY <1>1 DEF IInv, LocksOK, ClaimsStayEligible, StaysEligible, Eligible
    <3>3. QED
      BY <3>1, <3>2 DEF CommitSweepWrites
  <2>5. ASSUME NEW m \in Messages, Expire(m) PROVE Forward
    BY <2>1, <2>5, ExpiryCommits
  <2>6. QED
    BY <1>1, <2>2, <2>3, <2>4, <2>5, WhoWrites
<1>2. IInv /\ [Next]_vars => [Forward]_vars
  BY <1>1
<1>3. QED
  BY <1>2, DeliveryInvariant, PTL DEF Spec, NothingGoesBack

-----------------------------------------------------------------------------
(* Deadlocks *)

(* acks.repository.ts:62-160 and cleanup.repository.ts:33-122: the rows a  *)
(* transaction can hold at each statement.                                 *)
AckHoldsOnly(p) ==
    /\ pc[p] \in {"idle", "receipt"} => held[p] = {}
    /\ pc[p] = "envelope" => held[p] \subseteq {ReceiptRow(Msg(p), Dev(p))}
    /\ pc[p] = "batch" =>
        held[p] \subseteq {ReceiptRow(Msg(p), Dev(p)), EnvelopeRow(Msg(p), Dev(p))}
    /\ held[p] \subseteq {ReceiptRow(Msg(p), Dev(p)), BatchRow(Msg(p))}
                            \cup {EnvelopeRow(Msg(p), d) : d \in Recipients[Msg(p)]}

SweepHoldsOnly(p) ==
    \A row \in held[p] : \E m \in ClaimedBy(p) :
        row = BatchRow(m) \/ \E d \in Recipients[m] : row = EnvelopeRow(m, d)

NoStrayLocks ==
    /\ \A p \in Ackers : AckHoldsOnly(p)
    /\ \A p \in Sweepers : SweepHoldsOnly(p)

LEMMA HoldsOnlyUndisturbed ==
    ASSUME NEW q \in Processes, pc'[q] = pc[q], held'[q] = held[q]
    PROVE  /\ AckHoldsOnly(q) => AckHoldsOnly(q)'
           /\ SweepHoldsOnly(q) => SweepHoldsOnly(q)'
BY DEF AckHoldsOnly, SweepHoldsOnly, ClaimedBy, BatchRow, EnvelopeRow, ReceiptRow, Msg, Dev

LEMMA EmptyHandsHoldOnly ==
    ASSUME NEW q \in Processes, pc'[q] = "idle", held'[q] = {}
    PROVE  AckHoldsOnly(q)' /\ SweepHoldsOnly(q)'
BY DEF AckHoldsOnly, SweepHoldsOnly

(* Each statement of an ack locks a row of its own message, in the order   *)
(* receipt, envelope, batch, envelopes.                                    *)
LEMMA AckLocksItsRows ==
    ASSUME TypeOK, Shapes, NEW p \in Ackers, AckHoldsOnly(p), BeginAck(p) \/ AckStep(p)
    PROVE  AckHoldsOnly(p)' /\ OthersWait(p)
<1>1. p \in Processes /\ Msg(p) \in Messages /\ Dev(p) \in Recipients[Msg(p)]
  BY AckIsAck
<1>2. Steps = {"idle", "receipt", "envelope", "batch", "delete", "commit"}
  BY DEF Steps
<1>3. CASE BeginAck(p)
  <2>1. held' = held /\ pc[p] = "idle" /\ Goto(p, "receipt")
    BY <1>3 DEF BeginAck
  <2>2. pc'[p] = "receipt" /\ \A q \in Processes \ {p} : pc'[q] = pc[q]
    BY <1>1, <1>2, <2>1, GotoMoves
  <2>3. QED
    BY <2>1, <2>2 DEF AckHoldsOnly, OthersWait, Msg, Dev, ReceiptRow, EnvelopeRow, BatchRow
<1>4. CASE LockReceipt(p)
  <2>1. PICK step \in {"envelope", "commit"} : Goto(p, step)
    BY <1>4 DEF LockReceipt
  <2>2. pc'[p] = step /\ \A q \in Processes \ {p} : pc'[q] = pc[q]
    BY <1>1, <1>2, <2>1, GotoMoves
  <2>3. Lock(p, ReceiptRow(Msg(p), Dev(p))) /\ pc[p] = "receipt"
    BY <1>4 DEF LockReceipt, Msg, Dev
  <2>4. /\ held'[p] = held[p] \cup {ReceiptRow(Msg(p), Dev(p))}
        /\ \A q \in Processes \ {p} : held'[q] = held[q]
    BY <1>1, <2>3, LockLocks
  <2>5. held[p] = {}
    BY <2>3 DEF AckHoldsOnly
  <2>6. QED
    BY <2>2, <2>4, <2>5 DEF AckHoldsOnly, OthersWait, Msg, Dev, ReceiptRow, EnvelopeRow, BatchRow
<1>5. CASE MarkEnvelopeDelivered(p)
  <2>1. pc[p] = "envelope" /\ Goto(p, "batch")
    BY <1>5 DEF MarkEnvelopeDelivered
  <2>2. pc'[p] = "batch" /\ \A q \in Processes \ {p} : pc'[q] = pc[q]
    BY <1>1, <1>2, <2>1, GotoMoves
  <2>3. held' = held \/ Lock(p, EnvelopeRow(Msg(p), Dev(p)))
    BY <1>5 DEF MarkEnvelopeDelivered, Msg, Dev
  <2>4. /\ held'[p] \subseteq held[p] \cup {EnvelopeRow(Msg(p), Dev(p))}
        /\ \A q \in Processes \ {p} : held'[q] = held[q]
    BY <1>1, <2>3, LockLocks
  <2>5. held[p] \subseteq {ReceiptRow(Msg(p), Dev(p))}
    BY <2>1 DEF AckHoldsOnly
  <2>6. QED
    BY <1>1, <2>2, <2>4, <2>5
       DEF AckHoldsOnly, OthersWait, Msg, Dev, ReceiptRow, EnvelopeRow, BatchRow
<1>6. CASE IncrementDeliveredCount(p)
  <2>1. PICK step \in {"delete", "commit"} : Goto(p, step)
    BY <1>6 DEF IncrementDeliveredCount
  <2>2. pc'[p] = step /\ \A q \in Processes \ {p} : pc'[q] = pc[q]
    BY <1>1, <1>2, <2>1, GotoMoves
  <2>3. Lock(p, BatchRow(Msg(p))) /\ pc[p] = "batch"
    BY <1>6 DEF IncrementDeliveredCount, Msg
  <2>4. /\ held'[p] = held[p] \cup {BatchRow(Msg(p))}
        /\ \A q \in Processes \ {p} : held'[q] = held[q]
    BY <1>1, <2>3, LockLocks
  <2>5. QED
    BY <2>2, <2>4 DEF AckHoldsOnly, OthersWait, Msg, Dev, ReceiptRow, EnvelopeRow, BatchRow
<1>7. ASSUME NEW d \in Recipients[AckOf[p].message],
             DeleteEnvelope(p, {AckOf[p].message}, EnvelopeRow(AckOf[p].message, d))
      PROVE  AckHoldsOnly(p)' /\ OthersWait(p)
  <2>1. /\ pc' = pc /\ pc[p] = "delete" /\ Lock(p, EnvelopeRow(Msg(p), d))
        /\ d \in Recipients[Msg(p)]
    BY <1>7 DEF DeleteEnvelope, Msg
  <2>2. /\ held'[p] = held[p] \cup {EnvelopeRow(Msg(p), d)}
        /\ \A q \in Processes \ {p} : held'[q] = held[q]
    BY <1>1, <2>1, LockLocks
  <2>3. QED
    BY <2>1, <2>2 DEF AckHoldsOnly, OthersWait, Msg, Dev, ReceiptRow, EnvelopeRow, BatchRow
<1>8. CASE CleanupBatchDone(p)
  <2>1. held' = held /\ Goto(p, "commit")
    BY <1>8 DEF CleanupBatchDone
  <2>2. pc'[p] = "commit" /\ \A q \in Processes \ {p} : pc'[q] = pc[q]
    BY <1>1, <1>2, <2>1, GotoMoves
  <2>3. QED
    BY <2>1, <2>2 DEF AckHoldsOnly, OthersWait, Msg, Dev, ReceiptRow, EnvelopeRow, BatchRow
<1>9. CASE CommitAck(p)
  <2>1. EndTransaction(p)
    BY <1>9 DEF CommitAck
  <2>2. QED
    BY <1>1, <2>1, EndEnds, EmptyHandsHoldOnly
<1>10. QED
  BY <1>3, <1>4, <1>5, <1>6, <1>7, <1>8, <1>9 DEF AckStep

(* A sweep locks batches, then envelopes of the batches it has claimed.    *)
LEMMA SweepLocksItsRows ==
    ASSUME TypeOK, Shapes, NEW p \in Sweepers, SweepHoldsOnly(p),
           ClaimEligibleBatches(p) \/ SweepStep(p)
    PROVE  SweepHoldsOnly(p)' /\ OthersWait(p)
<1>1. p \in Processes
  BY DEF Processes
<1>2. CASE ClaimEligibleBatches(p)
  <2>1. PICK ms \in SUBSET Messages : held' = [held EXCEPT ![p] = {BatchRow(m) : m \in ms}]
    BY <1>2 DEF ClaimEligibleBatches
  <2>2. Goto(p, "delete") /\ "delete" \in Steps
    BY <1>2 DEF ClaimEligibleBatches, Steps
  <2>3. \A q \in Processes \ {p} : pc'[q] = pc[q]
    BY <1>1, <2>2, GotoMoves
  <2>4. held'[p] = {BatchRow(m) : m \in ms} /\ \A q \in Processes \ {p} : held'[q] = held[q]
    BY <1>1, <2>1 DEF Shapes
  <2>5. \A m \in ms : m \in ClaimedBy(p)'
    BY <2>4 DEF ClaimedBy, BatchRow
  <2>6. QED
    BY <2>3, <2>4, <2>5 DEF SweepHoldsOnly, OthersWait, BatchRow
<1>3. ASSUME NEW m \in ClaimedBy(p), NEW d \in Recipients[m],
             DeleteEnvelope(p, ClaimedBy(p), EnvelopeRow(m, d))
      PROVE  SweepHoldsOnly(p)' /\ OthersWait(p)
  <2>1. pc' = pc /\ Lock(p, EnvelopeRow(m, d))
    BY <1>3 DEF DeleteEnvelope
  <2>2. /\ held'[p] = held[p] \cup {EnvelopeRow(m, d)}
        /\ \A q \in Processes \ {p} : held'[q] = held[q]
    BY <1>1, <2>1, LockLocks
  <2>3. ClaimedBy(p) \subseteq ClaimedBy(p)'
    BY <2>2 DEF ClaimedBy, BatchRow
  <2>4. QED
    BY <2>1, <2>2, <2>3 DEF SweepHoldsOnly, OthersWait, BatchRow, EnvelopeRow
<1>4. CASE CommitSweep(p)
  <2>1. EndTransaction(p)
    BY <1>4 DEF CommitSweep
  <2>2. QED
    BY <1>1, <2>1, EndEnds, EmptyHandsHoldOnly
<1>5. QED
  BY <1>2, <1>3, <1>4 DEF SweepStep

LEMMA NoStrayLocksKept ==
    ASSUME IInv, NoStrayLocks, [Next]_vars
    PROVE  NoStrayLocks'
<1>1. TypeOK /\ Shapes
  BY DEF IInv
<1>2. \A p \in Processes : p \in Ackers \/ p \in Sweepers
  BY DEF Processes
<1>3. \A p \in Ackers : p \in Processes /\ p \notin Sweepers
  BY DeliveryAssumption DEF Processes
<1>4. \A p \in Sweepers : p \in Processes /\ p \notin Ackers
  BY DeliveryAssumption DEF Processes
<1>5. ASSUME NEW p \in Processes, OthersWait(p),
             p \in Ackers => AckHoldsOnly(p)', p \in Sweepers => SweepHoldsOnly(p)'
      PROVE  NoStrayLocks'
  <2>1. ASSUME NEW q \in Ackers PROVE AckHoldsOnly(q)'
    <3>1. CASE q = p
      BY <1>5, <3>1
    <3>2. CASE q # p
      <4>1. q \in Processes /\ pc'[q] = pc[q] /\ held'[q] = held[q] /\ AckHoldsOnly(q)
        BY <1>3, <1>5, <3>2 DEF OthersWait, NoStrayLocks
      <4>2. QED
        BY <4>1, HoldsOnlyUndisturbed
    <3>3. QED
      BY <3>1, <3>2
  <2>2. ASSUME NEW q \in Sweepers PROVE SweepHoldsOnly(q)'
    <3>1. CASE q = p
      BY <1>5, <3>1
    <3>2. CASE q # p
      <4>1. q \in Processes /\ pc'[q] = pc[q] /\ held'[q] = held[q] /\ SweepHoldsOnly(q)
        BY <1>4, <1>5, <3>2 DEF OthersWait, NoStrayLocks
      <4>2. QED
        BY <4>1, HoldsOnlyUndisturbed
    <3>3. QED
      BY <3>1, <3>2
  <2>3. QED
    BY <2>1, <2>2 DEF NoStrayLocks
<1>6. ASSUME NEW p \in Ackers, BeginAck(p) \/ AckStep(p) PROVE NoStrayLocks'
  <2>1. AckHoldsOnly(p)' /\ OthersWait(p)
    BY <1>1, <1>6, AckLocksItsRows DEF NoStrayLocks
  <2>2. QED
    BY <1>3, <1>5, <2>1
<1>7. ASSUME NEW p \in Sweepers, ClaimEligibleBatches(p) \/ SweepStep(p) PROVE NoStrayLocks'
  <2>1. SweepHoldsOnly(p)' /\ OthersWait(p)
    BY <1>1, <1>7, SweepLocksItsRows DEF NoStrayLocks
  <2>2. QED
    BY <1>4, <1>5, <2>1
<1>8. ASSUME NEW p \in Processes, Abort(p) PROVE NoStrayLocks'
  <2>1. pc'[p] = "idle" /\ held'[p] = {} /\ OthersWait(p)
    BY <1>1, <1>8, EndEnds DEF Abort
  <2>2. QED
    BY <1>5, <2>1, EmptyHandsHoldOnly
<1>9. ASSUME pc' = pc, held' = held PROVE NoStrayLocks'
  BY <1>3, <1>4, <1>9, HoldsOnlyUndisturbed DEF NoStrayLocks
<1>10. CASE UNCHANGED vars
  BY <1>9, <1>10 DEF vars
<1>11. ASSUME NEW m \in Messages, Expire(m) PROVE NoStrayLocks'
  BY <1>9, <1>11 DEF Expire
<1>12. QED
  BY <1>6, <1>7, <1>8, <1>10, <1>11 DEF Next

(* When an ack completes a batch no other ack is about to count on it.     *)
LEMMA CleanerIsAlone ==
    ASSUME IInv, NEW p \in Ackers, NEW q \in Ackers, q # p, Msg(p) = Msg(q),
           pc[p] \in {"envelope", "batch"}, pc[q] = "delete"
    PROVE  FALSE
<1>1. /\ TypeOK /\ HoldsWhatItWrites(p) /\ HoldsWhatItWrites(q) /\ CountsMatch
  BY DEF IInv, LocksOK, AcksHoldWhatTheyWrite
<1>2. Crosses(p) /\ Completes(q)
  BY <1>1 DEF HoldsWhatItWrites, CleansUp
<1>3. /\ p \in Processes /\ q \in Processes
      /\ Msg(p) \in Messages /\ Dev(p) \in Recipients[Msg(p)] /\ Dev(q) \in Recipients[Msg(p)]
  BY AckIsAck
<1>4. Dev(p) # Dev(q)
  <2>1. ReceiptRow(Msg(p), Dev(p)) \in held[p] /\ ReceiptRow(Msg(q), Dev(q)) \in held[q]
    BY <1>1 DEF HoldsWhatItWrites
  <2>2. held[p] \cap held[q] = {}
    BY <1>1, <1>3 DEF TypeOK
  <2>3. QED
    BY <2>1, <2>2
<1>5. Dev(p) \notin AtTerminal(Msg(p)) /\ Dev(q) \notin AtTerminal(Msg(p))
  BY <1>2, <1>3, TerminalIsReached DEF Completes, Crosses, Receipt, Msg, Dev
<1>6. batches[Msg(p)].delivered = Cardinality(AtTerminal(Msg(p)))
  BY <1>1, <1>3 DEF CountsMatch
<1>7. Cardinality(AtTerminal(Msg(p))) + 1 >= Cardinality(Recipients[Msg(p)])
  BY <1>2, <1>6 DEF Completes, AckBatch, Msg
<1> DEFINE S == AtTerminal(Msg(p)) \cup {Dev(q)}
<1>8. AtTerminal(Msg(p)) \in SUBSET Recipients[Msg(p)] /\ S \in SUBSET Recipients[Msg(p)]
  BY <1>3, TerminalIsReached
<1>9. Cardinality(S) = Cardinality(AtTerminal(Msg(p))) + 1
  BY <1>3, <1>5, <1>8, CountsAreFinite, FS_AddElement
<1>10. S = Recipients[Msg(p)]
  <2> HIDE DEF S
  <2>1. /\ Cardinality(S) \in Nat /\ Cardinality(Recipients[Msg(p)]) \in Nat
        /\ Cardinality(S) <= Cardinality(Recipients[Msg(p)])
        /\ Cardinality(S) = Cardinality(Recipients[Msg(p)]) => S = Recipients[Msg(p)]
    BY <1>3, <1>8, CountsAreFinite
  <2>2. QED
    BY <1>7, <1>9, <2>1
<1>11. QED
  BY <1>3, <1>4, <1>5, <1>10

(* An ack that holds a row another ack waits for is not waiting for one.   *)
LEMMA AcksDoNotWaitInARow ==
    ASSUME IInv, NoStrayLocks, NEW p \in Ackers, NEW q \in Ackers, NEW r \in Ackers,
           WaitsFor(p, q), WaitsFor(q, r), Wanted(r) # {}
    PROVE  FALSE
<1>1. /\ TypeOK /\ AckHoldsOnly(p) /\ AckHoldsOnly(q) /\ AckHoldsOnly(r)
      /\ HoldsWhatItWrites(q) /\ HoldsWhatItWrites(r)
  BY DEF IInv, NoStrayLocks, LocksOK, AcksHoldWhatTheyWrite
<1>2. /\ q \in Processes /\ r \in Processes /\ q # r
      /\ held[q] # {} /\ held[r] # {} /\ Wanted(q) # {}
      /\ pc[q] \in Steps /\ pc[r] \in Steps
  BY AckIsAck, <1>1 DEF WaitsFor, TypeOK, Steps
<1>3. pc[q] \in {"envelope", "batch", "delete"} /\ pc[r] \in {"envelope", "batch", "delete"}
  BY <1>1, <1>2 DEF AckHoldsOnly, Wanted, Steps
<1>4. PICK row \in Wanted(q) : row \in held[r]
  BY DEF WaitsFor
<1>5. \/ pc[q] = "envelope" /\ row = EnvelopeRow(Msg(q), Dev(q))
      \/ pc[q] = "batch" /\ row = BatchRow(Msg(q))
      \/ pc[q] = "delete" /\ row \in Envelopes(Msg(q))
  BY <1>3, <1>4 DEF Wanted, Msg, Dev
<1>6. \/ \E d : row = EnvelopeRow(Msg(q), d)
      \/ pc[q] = "batch" /\ row = BatchRow(Msg(q))
  BY <1>5, AckIsAck, EnvelopesAreRows
<1>7. Msg(r) = Msg(q)
  BY <1>1, <1>4, <1>6, RowsDiffer DEF AckHoldsOnly
<1>8. CASE pc[r] = "delete"
  <2>1. CASE pc[q] = "delete"
    <3>1. BatchRow(Msg(q)) \in held[q] /\ BatchRow(Msg(r)) \in held[r]
      BY <1>1, <1>8, <2>1 DEF HoldsWhatItWrites
    <3>2. held[q] \cap held[r] = {}
      BY <1>1, <1>2 DEF TypeOK
    <3>3. QED
      BY <1>7, <3>1, <3>2
  <2>2. QED
    BY <1>2, <1>3, <1>7, <1>8, <2>1, CleanerIsAlone
<1>9. CASE pc[r] \in {"envelope", "batch"}
  <2>1. row \in {ReceiptRow(Msg(r), Dev(r)), EnvelopeRow(Msg(r), Dev(r))}
    BY <1>1, <1>4, <1>9 DEF AckHoldsOnly
  <2>2. CASE pc[q] = "delete"
    BY <1>2, <1>7, <1>9, <2>2, CleanerIsAlone
  <2>3. CASE pc[q] = "batch"
    BY <1>5, <2>1, <2>3, RowsDiffer
  <2>4. CASE pc[q] = "envelope"
    <3>1. Dev(q) = Dev(r)
      BY <1>5, <2>1, <2>4, RowsDiffer
    <3>2. ReceiptRow(Msg(q), Dev(q)) \in held[q] /\ ReceiptRow(Msg(r), Dev(r)) \in held[r]
      BY <1>1, <1>9, <2>4 DEF HoldsWhatItWrites
    <3>3. held[q] \cap held[r] = {}
      BY <1>1, <1>2 DEF TypeOK
    <3>4. QED
      BY <1>7, <3>1, <3>2, <3>3
  <2>5. QED
    BY <1>3, <2>2, <2>3, <2>4
<1>10. QED
  BY <1>3, <1>8, <1>9

(* A sweep waits only for an ack that is about to count on a batch the     *)
(* sweep has claimed.                                                      *)
LEMMA SweepsWaitForCounters ==
    ASSUME IInv, NoStrayLocks, NEW s \in Sweepers, NEW q \in Processes,
           WaitsFor(s, q), Wanted(q) # {}
    PROVE  /\ q \in Ackers /\ pc[q] = "batch" /\ Msg(q) \in ClaimedBy(s)
           /\ WaitsFor(q, s)
<1>1. TypeOK /\ StaysEligible(s) /\ s \in Processes /\ s \notin Ackers
  BY DeliveryAssumption DEF IInv, LocksOK, ClaimsStayEligible, Processes
<1>2. PICK row \in Wanted(s) : row \in held[q] /\ q # s
  BY DEF WaitsFor
<1>3. pc[s] = "delete"
  BY <1>1, <1>2 DEF StaysEligible, Wanted
<1>4. PICK m \in ClaimedBy(s) : row \in Envelopes(m)
  BY <1>1, <1>2, <1>3 DEF Wanted
<1>5. m \in Messages /\ BatchRow(m) \in held[s] /\ held[s] \cap held[q] = {}
  BY <1>1, <1>2 DEF ClaimedBy, TypeOK
<1>6. BatchRow(m) \notin held[q]
  BY <1>5
<1>7. PICK d \in Recipients[m] : row = EnvelopeRow(m, d)
  BY <1>4, <1>5, EnvelopesAreRows
<1>8. q \in Ackers
  <2>1. ASSUME q \in Sweepers PROVE FALSE
    <3>1. PICK n \in ClaimedBy(q) :
            row = BatchRow(n) \/ \E e \in Recipients[n] : row = EnvelopeRow(n, e)
      BY <1>2, <2>1 DEF NoStrayLocks, SweepHoldsOnly
    <3>2. n = m
      BY <1>7, <3>1, RowsDiffer
    <3>3. QED
      BY <1>6, <3>1, <3>2 DEF ClaimedBy
  <2>2. QED
    BY <2>1 DEF Processes
<1>9. AckHoldsOnly(q) /\ HoldsWhatItWrites(q) /\ pc[q] \in Steps
  BY <1>1, <1>8, AckIsAck DEF NoStrayLocks, IInv, LocksOK, AcksHoldWhatTheyWrite, TypeOK, Steps
<1>10. Msg(q) = m
  BY <1>2, <1>7, <1>9, RowsDiffer DEF AckHoldsOnly
<1>11. pc[q] = "batch"
  <2>1. pc[q] \notin {"idle", "receipt"}
    BY <1>2, <1>9 DEF AckHoldsOnly
  <2>2. pc[q] # "envelope"
    BY <1>2, <1>7, <1>9, RowsDiffer DEF AckHoldsOnly
  <2>3. pc[q] # "delete"
    BY <1>6, <1>9, <1>10 DEF HoldsWhatItWrites
  <2>4. pc[q] # "commit"
    BY DEF Wanted
  <2>5. QED
    BY <1>9, <2>1, <2>2, <2>3, <2>4 DEF Steps
<1>12. Wanted(q) = {BatchRow(m)}
  BY <1>10, <1>11 DEF Wanted, Msg
<1>13. QED
  BY <1>2, <1>5, <1>8, <1>10, <1>11, <1>12 DEF WaitsFor

LEMMA CirclesNeedASweep ==
    ASSUME IInv, NoStrayLocks
    PROVE  OnlySweepsDeadlockAcks
<1> SUFFICES ASSUME NEW S \in SUBSET Processes, Circle(S)
             PROVE  \E p \in S \cap Ackers, q \in S \cap Sweepers :
                        /\ pc[p] = "batch"
                        /\ AckOf[p].message \in ClaimedBy(q)
                        /\ WaitsFor(p, q) /\ WaitsFor(q, p)
  BY DEF OnlySweepsDeadlockAcks
<1>1. \A p \in S : p \in Processes /\ Wanted(p) # {} /\ \E q \in S : WaitsFor(p, q)
  BY DEF Circle, WaitsFor
<1>2. CASE \E s \in S : s \in Sweepers
  <2>1. PICK s \in S : s \in Sweepers
    BY <1>2
  <2>2. PICK p \in S : WaitsFor(s, p)
    BY <1>1
  <2>3. p \in Ackers /\ pc[p] = "batch" /\ Msg(p) \in ClaimedBy(s) /\ WaitsFor(p, s)
    BY <1>1, <2>1, <2>2, SweepsWaitForCounters
  <2>4. QED
    BY <2>1, <2>2, <2>3 DEF Msg
<1>3. CASE \A p \in S : p \in Ackers
  <2>1. PICK p \in S : TRUE
    BY DEF Circle
  <2>2. PICK q \in S : WaitsFor(p, q)
    BY <1>1
  <2>3. PICK r \in S : WaitsFor(q, r)
    BY <1>1
  <2>4. QED
    BY <1>1, <1>3, <2>2, <2>3, AcksDoNotWaitInARow
<1>4. QED
  BY <1>1, <1>2, <1>3 DEF Processes

(* acks.repository.ts:62-160 and cleanup.repository.ts:33-122: whatever the*)
(* number of acks, sweeps, messages and recipients, the only deadlock among*)
(* them is between an ack that holds its envelope and a sweep that holds   *)
(* that envelope's batch.                                                  *)
THEOREM OneDeadlock == Spec => []OnlySweepsDeadlockAcks
<1>1. Init => IInv /\ NoStrayLocks
  <2>1. Init => NoStrayLocks
    BY DEF Init, NoStrayLocks, AckHoldsOnly, SweepHoldsOnly, Processes
  <2>2. QED
    BY <2>1, InitHolds
<1>2. IInv /\ NoStrayLocks /\ [Next]_vars => (IInv /\ NoStrayLocks)'
  BY StepKeeps, NoStrayLocksKept
<1>3. IInv /\ NoStrayLocks => OnlySweepsDeadlockAcks
  BY CirclesNeedASweep
<1>4. QED
  BY <1>1, <1>2, <1>3, PTL DEF Spec

-----------------------------------------------------------------------------
(* Refinement: acks and cleanups one at a time *)

Progress == [m \in Messages |-> batches[m].delivered]
Work     == [m \in Messages |-> {d \in Recipients[m] : envelopes[m][d] # "none"}]
Expired  == {m \in Messages : batches[m].expired}

LEMMA RankIsRankOf ==
    \A state \in {"pending", "delivered", "read"} : Promise!Rank[state] = rankOf(state)
BY Ranks DEF Promise!Rank

LEMMA AnsweredAtTerminal ==
    ASSUME NEW m \in Messages, NEW states \in [Recipients[m] -> {"pending", "delivered", "read"}]
    PROVE  Promise!Answered(m, states) =
                {d \in Recipients[m] : rankOf(states[d]) >= rankOf(Terminal)}
<1>1. Terminal \in {"pending", "delivered", "read"}
  BY DeliveryAssumption
<1>2. \A d \in Recipients[m] : states[d] \in {"pending", "delivered", "read"}
  OBVIOUS
<1>3. QED
  BY <1>1, <1>2, RankIsRankOf DEF Promise!Answered

LEMMA AnsweredIsAtTerminal ==
    ASSUME TypeOK
    PROVE  \A m \in Messages : Promise!Answered(m, receipts[m]) = AtTerminal(m)
BY AnsweredAtTerminal DEF TypeOK, AtTerminal

LEMMA UntouchedIsSilent ==
    ASSUME UNCHANGED tables
    PROVE  UNCHANGED Promise!vars
BY DEF tables, Promise!vars

(* An ack that advances its receipt is one Acknowledge.                    *)
LEMMA AckAcknowledges ==
    ASSUME IInv, IInv', NEW p \in Ackers, CommitAck(p), Advances(p)
    PROVE  Promise!Acknowledge(Msg(p), Dev(p), AckOf[p].state)
<1> DEFINE m == Msg(p)
           states == [receipts[m] EXCEPT ![Dev(p)] = AckOf[p].state]
<1>1. /\ TypeOK /\ Shapes /\ CountsMatch /\ WorkIsKept
      /\ TypeOK' /\ Shapes' /\ CountsMatch' /\ WorkIsKept'
  BY DEF IInv
<1>2. /\ m \in Messages /\ Dev(p) \in Recipients[m]
      /\ AckOf[p].state \in {"pending", "delivered", "read"}
  BY AckIsAck
<1>3. CommitAckWrites(p)
  BY <1>1, AckCommits
<1>4. CleansUp(p) => Crosses(p) /\ Completes(p)
  BY DEF CleansUp, Completes
<1>5. Promise!Rank[AckOf[p].state] > Promise!Rank[receipts[m][Dev(p)]]
  <2>1. receipts[m][Dev(p)] \in {"pending", "delivered", "read"}
    BY <1>1, <1>2 DEF TypeOK
  <2>2. rankOf(AckOf[p].state) > rankOf(receipts[m][Dev(p)])
    BY DEF Advances, advances, Receipt, Msg, Dev
  <2>3. QED
    BY <1>2, <2>1, <2>2, RankIsRankOf
<1>6. receipts' = [receipts EXCEPT ![m] = states]
  BY DEF CommitAck, Msg, Dev
<1>7. receipts'[m] = states /\ states \in [Recipients[m] -> {"pending", "delivered", "read"}]
  BY <1>1, <1>2, <1>6 DEF Shapes, TypeOK
<1>8. Promise!Answered(m, states) = AtTerminal(m)'
  <2>1. Promise!Answered(m, states) =
            {d \in Recipients[m] : rankOf(states[d]) >= rankOf(Terminal)}
    BY <1>2, <1>7, AnsweredAtTerminal
  <2>2. AtTerminal(m)' = {d \in Recipients[m] : rankOf(states[d]) >= rankOf(Terminal)}
    BY <1>7 DEF AtTerminal, rankOf, States
  <2>3. QED
    BY <2>1, <2>2
<1>9. Progress' = [Progress EXCEPT ![m] = Promise!Cardinality(Promise!Answered(m, states))]
  <2>1. batches'[m].delivered = Cardinality(AtTerminal(m)')
    BY <1>1, <1>2 DEF CountsMatch
  <2>5. Promise!Cardinality(AtTerminal(m)') = Cardinality(AtTerminal(m)')
    BY DEF Promise!Cardinality, Cardinality
  <2>2. \A n \in Messages : n # m => batches'[n].delivered = batches[n].delivered
    BY <1>3 DEF CommitAckWrites
  <2>3. Progress' = [n \in Messages |-> batches'[n].delivered]
    BY DEF Progress
  <2> HIDE DEF m, states
  <2>4. QED
    BY <1>8, <2>1, <2>5, <2>2, <2>3 DEF Progress
<1>10. \A n \in Messages : \A d \in Recipients[n] :
        IF n = m /\ CleansUp(p) THEN envelopes'[n][d] = "none"
        ELSE envelopes'[n][d] # "none" <=> envelopes[n][d] # "none"
  BY <1>3 DEF CommitAckWrites
<1>11. \/ Work' = Work
       \/ /\ Promise!Complete(m, states) /\ ~Promise!Complete(m, receipts[m])
          /\ Work' = [Work EXCEPT ![m] = {}]
  <2>1. Work' = [n \in Messages |-> {d \in Recipients[n] : envelopes'[n][d] # "none"}]
    BY DEF Work
  <2>2. CASE ~CleansUp(p)
    <3>1. ASSUME NEW n \in Messages
          PROVE  {d \in Recipients[n] : envelopes'[n][d] # "none"}
                    = {d \in Recipients[n] : envelopes[n][d] # "none"}
      BY <1>10, <2>2
    <3>2. QED
      BY <2>1, <3>1 DEF Work
  <2>3. CASE CleansUp(p)
    <3>1. ASSUME NEW n \in Messages, n # m
          PROVE  {d \in Recipients[n] : envelopes'[n][d] # "none"}
                    = {d \in Recipients[n] : envelopes[n][d] # "none"}
      BY <1>10, <3>1
    <3>2. {d \in Recipients[m] : envelopes'[m][d] # "none"} = {}
      BY <1>2, <1>10, <2>3
    <3>3. Work' = [Work EXCEPT ![m] = {}]
      <4> HIDE DEF m
      <4>1. QED
        BY <2>1, <3>1, <3>2 DEF Work
    <3>4. AtTerminal(m)' = Recipients[m]
      <4>1. batches'[m].completed
        BY <1>2, <1>3, <1>4, <2>3, Zenon DEF CommitAckWrites
      <4>2. QED
        BY <1>1, <1>2, <4>1 DEF CountsMatch
    <3>5. AtTerminal(m) # Recipients[m]
      <4>1. ~reachesTerminal(receipts[m][Dev(p)])
        BY <1>4, <2>3 DEF Crosses, Receipt, Msg, Dev
      <4>2. QED
        BY <1>2, <4>1, TerminalIsReached
    <3>6. Promise!Answered(m, receipts[m]) = AtTerminal(m)
      BY <1>1, <1>2, AnsweredIsAtTerminal
    <3>7. QED
      BY <1>8, <3>3, <3>4, <3>5, <3>6 DEF Promise!Complete
  <2>4. QED
    BY <2>2, <2>3
<1>12. Expired' = Expired
  BY <1>3 DEF Expired, CommitAckWrites
<1>13. QED
  BY <1>5, <1>6, <1>9, <1>11, <1>12 DEF Promise!Acknowledge, Progress, Work, Expired

(* A sweep is one Clean of the batches it has claimed.                     *)
LEMMA SweepCleans ==
    ASSUME IInv, NEW p \in Sweepers, CommitSweep(p)
    PROVE  \E ms \in SUBSET Messages : Promise!Clean(ms)
<1>1. TypeOK /\ Shapes /\ CountsMatch /\ WorkIsKept /\ StaysEligible(p)
  BY DEF IInv, LocksOK, ClaimsStayEligible
<1>2. CommitSweepWrites(p) /\ receipts' = receipts
  BY <1>1, SweepCommits DEF CommitSweep
<1>3. PICK ms \in SUBSET Messages : ms = ClaimedBy(p)
  BY DEF ClaimedBy
<1>4. ASSUME NEW m \in ms
      PROVE  /\ Work[m] = Recipients[m]
             /\ m \in Expired \/ Promise!Complete(m, receipts[m])
  <2>1. m \in Messages /\ batches[m].cleanup = "none"
        /\ (batches[m].completed \/ batches[m].expired)
    BY <1>1, <1>3 DEF StaysEligible, Eligible
  <2>2. \A d \in Recipients[m] : envelopes[m][d] # "none"
    BY <1>1, <2>1 DEF WorkIsKept
  <2>3. batches[m].completed => AtTerminal(m) = Recipients[m]
    BY <1>1, <2>1 DEF CountsMatch
  <2>4. Promise!Answered(m, receipts[m]) = AtTerminal(m)
    BY <1>1, <2>1, AnsweredIsAtTerminal
  <2>5. QED
    BY <2>1, <2>2, <2>3, <2>4 DEF Work, Expired, Promise!Complete
<1>5. Work' = [m \in Messages |-> IF m \in ms THEN {} ELSE Work[m]]
  <2>1. Work' = [m \in Messages |-> {d \in Recipients[m] : envelopes'[m][d] # "none"}]
    BY DEF Work
  <2>2. ASSUME NEW m \in Messages
        PROVE  {d \in Recipients[m] : envelopes'[m][d] # "none"}
                    = IF m \in ms THEN {} ELSE Work[m]
    BY <1>2, <1>3 DEF CommitSweepWrites, Work
  <2>3. QED
    BY <2>1, <2>2
<1>6. Progress' = Progress /\ Expired' = Expired
  BY <1>2 DEF Progress, Expired, CommitSweepWrites
<1>7. QED
  BY <1>2, <1>3, <1>4, <1>5, <1>6 DEF Promise!Clean, Progress, Work, Expired

LEMMA ExpiryExpires ==
    ASSUME IInv, NEW m \in Messages, Expire(m)
    PROVE  Promise!Expire(m)
<1>1. TypeOK /\ Shapes
  BY DEF IInv
<1>2. batches' = [batches EXCEPT ![m].expired = TRUE]
      /\ receipts' = receipts /\ envelopes' = envelopes
  BY DEF Expire
<1>3. /\ batches'[m].expired /\ batches'[m].delivered = batches[m].delivered
      /\ \A n \in Messages : n # m => batches'[n] = batches[n]
  BY <1>1, <1>2 DEF TypeOK, Shapes, Batch
<1>4. Expired' = Expired \cup {m} /\ Progress' = Progress
  BY <1>3 DEF Expired, Progress
<1>5. QED
  BY <1>2, <1>4 DEF Promise!Expire, Progress, Work, Expired

(* ack.service.ts:82-165 and cleanup.repository.ts:33-122: whatever the    *)
(* number of concurrent transactions, what they commit is what acks and    *)
(* cleanups would do one at a time.                                        *)
THEOREM DeliveryImplementsPromise == Spec => ImplementsDeliveryPromise
<1>1. Init => Promise!Init
  <2> SUFFICES ASSUME Init PROVE Promise!Init
    OBVIOUS
  <2>1. /\ receipts = [m \in Messages |-> [d \in Recipients[m] |-> "pending"]]
        /\ Progress = [m \in Messages |-> 0] /\ Expired = {}
    BY DEF Init, Progress, Expired
  <2>2. Work = [m \in Messages |-> Recipients[m]]
    BY DEF Init, Work
  <2>3. QED
    BY <2>1, <2>2 DEF Promise!Init, Progress, Work, Expired
<1>2. IInv /\ IInv' /\ [Next]_vars => [Promise!Next]_(Promise!vars)
  <2> SUFFICES ASSUME IInv, IInv', [Next]_vars
               PROVE  Promise!Next \/ UNCHANGED Promise!vars
    OBVIOUS
  <2>1. CASE UNCHANGED tables
    BY <2>1, UntouchedIsSilent
  <2>2. ASSUME NEW p \in Ackers, CommitAck(p) PROVE Promise!Next \/ UNCHANGED Promise!vars
    <3>1. CASE Advances(p)
      <4>1. Promise!Acknowledge(Msg(p), Dev(p), AckOf[p].state)
        BY <2>2, <3>1, AckAcknowledges
      <4>2. QED
        BY <4>1, AckIsAck DEF Promise!Next
    <3>2. CASE ~Advances(p)
      <4>1. ~Crosses(p) /\ ~CleansUp(p)
        BY <3>2 DEF Crosses, CleansUp, Completes
      <4>2. UNCHANGED tables
        BY <2>2, <3>2, <4>1 DEF CommitAck, tables
      <4>3. QED
        BY <4>2, UntouchedIsSilent
    <3>3. QED
      BY <3>1, <3>2
  <2>3. ASSUME NEW p \in Sweepers, CommitSweep(p) PROVE Promise!Next
    BY <2>3, SweepCleans DEF Promise!Next
  <2>4. ASSUME NEW m \in Messages, Expire(m) PROVE Promise!Next
    BY <2>4, ExpiryExpires DEF Promise!Next
  <2>5. QED
    BY <2>1, <2>2, <2>3, <2>4, WhoWrites
<1>3. QED
  BY <1>1, <1>2, DeliveryInvariant, PTL DEF Spec, ImplementsDeliveryPromise, Promise!Spec
=============================================================================
