------------------------------ MODULE Delivery ------------------------------
(***************************************************************************)
(* Delivery of published messages: the tables delivery_batches,            *)
(* delivery_envelopes and delivery_receipts from the COMMIT of             *)
(* createDeliveries on, the transaction of AckService.ack and the one of   *)
(* the deliveries-cleanup CronJob, statement by statement.                 *)
(*                                                                         *)
(* A statement that locks rows is a step; it waits while another           *)
(* transaction holds one of them.  What a transaction writes is visible to *)
(* the others at COMMIT, and until then nobody else can change the rows it *)
(* holds, so all its writes are applied by the step that commits.          *)
(*                                                                         *)
(* Abstractions: a receipt's version and timestamps (the version is a      *)
(* compare-and-set under FOR UPDATE, its source calls it redundant); an    *)
(* envelope's id; metrics; an ack of a device outside the snapshot, which  *)
(* reads, rolls back and answers 404.                                      *)
(***************************************************************************)
EXTENDS Integers, FiniteSets

CONSTANTS
    Messages,           \* published messages, each with its batch
    Recipients,         \* [Messages -> sets of devices], the frozen snapshots
    Terminal,           \* DELIVERY_TERMINAL_STATE, "delivered" or "read"
    CleanupOnComplete,  \* CLEANUP_ON_COMPLETE
    Ackers,             \* clients that send, and resend, one ack each
    AckOf,              \* per acker: [message, device, state]
    Sweepers,           \* runs of the CronJob
    SweepLimit          \* batches one run may claim

States == <<"pending", "delivered", "read">>
rankOf(state) == CHOOSE i \in 1..3 : States[i] = state

(* Mutants: any other state advances a receipt; the terminal state is      *)
(* taken for delivered whatever the settings say.                          *)
advancesToAny(from, to) == to # from
reachesDelivered(state) == rankOf(state) >= rankOf("delivered")

advances(from, to) == rankOf(to) > rankOf(from)
reachesTerminal(state) == rankOf(state) >= rankOf(Terminal)

ASSUME DeliveryAssumption ==
    /\ \A m \in Messages : IsFiniteSet(Recipients[m]) /\ Recipients[m] # {}
    /\ Terminal \in {"delivered", "read"}
    /\ CleanupOnComplete \in BOOLEAN
    /\ \A p \in Ackers :
        /\ AckOf[p].message \in Messages
        /\ AckOf[p].device \in Recipients[AckOf[p].message]
        /\ AckOf[p].state \in {"delivered", "read"}
    /\ Ackers \cap Sweepers = {}
    /\ SweepLimit \in Nat \ {0}

Processes == Ackers \cup Sweepers

VARIABLES
    receipts,   \* state per message and recipient
    envelopes,  \* per message and recipient: "none" once deleted
    batches,    \* [delivered, completed, expired, cleanup] per message
    pc,         \* the statement each transaction runs next
    held        \* the row locks it holds

tables == <<receipts, envelopes, batches>>
vars == <<receipts, envelopes, batches, pc, held>>

ReceiptRow(m, d)  == <<"receipt", m, d>>
EnvelopeRow(m, d) == <<"envelope", m, d>>
BatchRow(m)       == <<"batch", m>>

Envelopes(m) == {EnvelopeRow(m, d) : d \in {e \in Recipients[m] : envelopes[m][e] # "none"}}

Batch == [delivered : Nat, completed : BOOLEAN, expired : BOOLEAN,
          cleanup : {"none", "completed", "expired"}]

TypeOK ==
    /\ \A m \in Messages :
        /\ receipts[m] \in [Recipients[m] -> {"pending", "delivered", "read"}]
        /\ envelopes[m] \in [Recipients[m] -> {"none", "pending", "delivered"}]
        /\ batches[m] \in Batch
    /\ pc \in [Processes -> {"idle", "receipt", "envelope", "batch", "delete", "commit"}]
    /\ \A p, q \in Processes : p # q => held[p] \cap held[q] = {}

Init ==
    /\ receipts = [m \in Messages |-> [d \in Recipients[m] |-> "pending"]]
    /\ envelopes = [m \in Messages |-> [d \in Recipients[m] |-> "pending"]]
    /\ batches = [m \in Messages |->
            [delivered |-> 0, completed |-> FALSE, expired |-> FALSE, cleanup |-> "none"]]
    /\ pc = [p \in Processes |-> "idle"]
    /\ held = [p \in Processes |-> {}]

-----------------------------------------------------------------------------
(* Row locks *)

Free(row, p) == \A q \in Processes \ {p} : row \notin held[q]

Goto(p, step) == pc' = [pc EXCEPT ![p] = step]
Lock(p, row)  == Free(row, p) /\ held' = [held EXCEPT ![p] = @ \cup {row}]
EndTransaction(p) == Goto(p, "idle") /\ held' = [held EXCEPT ![p] = {}]

-----------------------------------------------------------------------------
(* AckService.ack *)

Receipt(p)  == receipts[AckOf[p].message][AckOf[p].device]
Envelope(p) == envelopes[AckOf[p].message][AckOf[p].device]
AckBatch(p) == batches[AckOf[p].message]

Advances(p) == advances(Receipt(p), AckOf[p].state)

(* cruzoElUmbral: this ack takes the receipt across the terminal state.    *)
Crosses(p) ==
    /\ Advances(p)
    /\ ~reachesTerminal(Receipt(p))
    /\ reachesTerminal(AckOf[p].state)

(* Mutant of Completes: off by one.                                        *)
CompletesEarly(p) ==
    /\ Crosses(p)
    /\ AckBatch(p).delivered + 2 >= Cardinality(Recipients[AckOf[p].message])

(* With this ack the batch is complete.                                    *)
Completes(p) ==
    /\ Crosses(p)
    /\ AckBatch(p).delivered + 1 >= Cardinality(Recipients[AckOf[p].message])

(* ... and cleanupBatch finds its door open.                               *)
CleansUp(p) ==
    /\ Completes(p)
    /\ CleanupOnComplete
    /\ AckBatch(p).cleanup = "none"

(* A request arrives: BEGIN.                                               *)
BeginAck(p) ==
    /\ pc[p] = "idle"
    /\ Goto(p, "receipt")
    /\ UNCHANGED <<tables, held>>

(* lockReceipt; a duplicate or late ack has nothing more to lock.          *)
LockReceipt(p) ==
    /\ pc[p] = "receipt"
    /\ Lock(p, ReceiptRow(AckOf[p].message, AckOf[p].device))
    /\ Goto(p, IF Crosses(p) THEN "envelope" ELSE "commit")
    /\ UNCHANGED tables

(* markEnvelopeDelivered: WHERE state = 'pending'; after a cleanup there   *)
(* is no row left to lock.                                                 *)
MarkEnvelopeDelivered(p) ==
    LET row == EnvelopeRow(AckOf[p].message, AckOf[p].device)
    IN  /\ pc[p] = "envelope"
        /\ \/ Envelope(p) = "pending" /\ Lock(p, row)
           \/ Envelope(p) # "pending" /\ Free(row, p) /\ UNCHANGED held
        /\ Goto(p, "batch")
        /\ UNCHANGED tables

(* incrementDeliveredCount, and the UPDATE of cleanupBatch on the same row.*)
IncrementDeliveredCount(p) ==
    /\ pc[p] = "batch"
    /\ Lock(p, BatchRow(AckOf[p].message))
    /\ Goto(p, IF CleansUp(p) THEN "delete" ELSE "commit")
    /\ UNCHANGED tables

(* The DELETE of cleanupBatch: one envelope row after the other.           *)
DeleteEnvelope(p, ms, row) ==
    /\ pc[p] = "delete"
    /\ row \in (UNION {Envelopes(m) : m \in ms}) \ held[p]
    /\ Lock(p, row)
    /\ UNCHANGED <<tables, pc>>

(* All of them are locked, and deleted.                                    *)
CleanupBatchDone(p) ==
    /\ pc[p] = "delete"
    /\ Envelopes(AckOf[p].message) \subseteq held[p]
    /\ Goto(p, "commit")
    /\ UNCHANGED <<tables, held>>

NoEnvelopes(m) == [d \in Recipients[m] |-> "none"]

CommitAck(p) ==
    LET m == AckOf[p].message
        d == AckOf[p].device
    IN  /\ pc[p] = "commit"
        /\ receipts' = IF Advances(p) THEN [receipts EXCEPT ![m][d] = AckOf[p].state]
                                      ELSE receipts
        /\ batches' = IF Crosses(p)
                      THEN [batches EXCEPT
                            ![m].delivered = @ + 1,
                            ![m].completed = @ \/ Completes(p),
                            ![m].cleanup = IF CleansUp(p) THEN "completed" ELSE @]
                      ELSE batches
        /\ envelopes' = IF CleansUp(p) THEN [envelopes EXCEPT ![m] = NoEnvelopes(m)]
                        ELSE IF Crosses(p) /\ Envelope(p) = "pending"
                        THEN [envelopes EXCEPT ![m][d] = "delivered"]
                        ELSE envelopes
        /\ EndTransaction(p)

-----------------------------------------------------------------------------
(* CleanupDeliveriesService.run *)

(* Mutants of Eligible: too early, and never for lack of answers.          *)
EligibleAlways(m) == batches[m].cleanup = "none"
EligibleOnceCompleted(m) == batches[m].cleanup = "none" /\ batches[m].completed

Eligible(m) == batches[m].cleanup = "none" /\ (batches[m].completed \/ batches[m].expired)

Claimable(m, p) == Eligible(m) /\ Free(BatchRow(m), p)

ClaimedBy(p) == {m \in Messages : BatchRow(m) \in held[p]}

(* FOR UPDATE SKIP LOCKED LIMIT n: as many as allowed of the eligible      *)
(* batches nobody holds, the oldest in the code, any of them here.         *)
ClaimEligibleBatches(p) ==
    LET open == {m \in Messages : Claimable(m, p)}
    IN  /\ pc[p] = "idle"
        /\ \E ms \in (SUBSET open) \ {{}} :
            /\ Cardinality(ms) <= SweepLimit
            /\ Cardinality(ms) = SweepLimit \/ ms = open
            /\ held' = [held EXCEPT ![p] = {BatchRow(m) : m \in ms}]
        /\ Goto(p, "delete")
        /\ UNCHANGED tables

(* COMMIT of the gate and the DELETE together.                             *)
CommitSweep(p) ==
    LET ms == ClaimedBy(p)
    IN  /\ pc[p] = "delete"
        /\ \A m \in ms : Envelopes(m) \subseteq held[p]
        /\ batches' = [m \in Messages |->
                IF m \in ms
                THEN [batches[m] EXCEPT !.cleanup =
                        IF batches[m].completed THEN "completed" ELSE "expired"]
                ELSE batches[m]]
        /\ envelopes' = [m \in Messages |-> IF m \in ms THEN NoEnvelopes(m) ELSE envelopes[m]]
        /\ EndTransaction(p)
        /\ UNCHANGED receipts

-----------------------------------------------------------------------------
(* ROLLBACK: a fault, a process that dies, or a deadlock's victim.         *)
Abort(p) ==
    /\ pc[p] # "idle"
    /\ EndTransaction(p)
    /\ UNCHANGED tables

(* External: expires_at passes.                                            *)
Expire(m) ==
    /\ ~batches[m].expired
    /\ batches' = [batches EXCEPT ![m].expired = TRUE]
    /\ UNCHANGED <<receipts, envelopes, pc, held>>

AckStep(p) ==
    \/ LockReceipt(p)
    \/ MarkEnvelopeDelivered(p)
    \/ IncrementDeliveredCount(p)
    \/ \E d \in Recipients[AckOf[p].message] :
        DeleteEnvelope(p, {AckOf[p].message}, EnvelopeRow(AckOf[p].message, d))
    \/ CleanupBatchDone(p)
    \/ CommitAck(p)

SweepStep(p) ==
    \/ \E m \in ClaimedBy(p) : \E d \in Recipients[m] :
        DeleteEnvelope(p, ClaimedBy(p), EnvelopeRow(m, d))
    \/ CommitSweep(p)

Next ==
    \/ \E p \in Ackers : BeginAck(p) \/ AckStep(p)
    \/ \E p \in Sweepers : ClaimEligibleBatches(p) \/ SweepStep(p)
    \/ \E p \in Processes : Abort(p)
    \/ \E m \in Messages : Expire(m)

Spec == Init /\ [][Next]_vars

-----------------------------------------------------------------------------
(* Waiting *)

(* The row a transaction is about to lock, if its next statement locks.    *)
Wanted(p) ==
    CASE pc[p] = "receipt"  -> {ReceiptRow(AckOf[p].message, AckOf[p].device)}
      [] pc[p] = "envelope" -> {EnvelopeRow(AckOf[p].message, AckOf[p].device)}
      [] pc[p] = "batch"    -> {BatchRow(AckOf[p].message)}
      [] pc[p] = "delete"   ->
            (UNION {Envelopes(m) : m \in IF p \in Ackers THEN {AckOf[p].message}
                                                         ELSE ClaimedBy(p)}) \ held[p]
      [] OTHER -> {}

(* p needs a row that q holds until it ends.                               *)
WaitsFor(p, q) == q # p /\ Wanted(p) \cap held[q] # {}

(* Every row p may lock next is held by another.                           *)
Stuck(p) == Wanted(p) # {} /\ \A row \in Wanted(p) : ~Free(row, p)

(* Two transactions that wait for each other: PostgreSQL kills one of them.*)
Deadlocked(p, q) == WaitsFor(p, q) /\ WaitsFor(q, p) /\ Stuck(p) /\ Stuck(q)

(* A deadlock of any size: none of them can end before another of them.    *)
Circle(S) == S # {} /\ \A p \in S : \E q \in S : WaitsFor(p, q)

(* Every statement ends, a lock that is queued for is granted, a deadlock  *)
(* is broken, the CronJob keeps coming and sooner or later meets the batch *)
(* unlocked, and time passes.                                              *)
FairSpec ==
    /\ Spec
    /\ \A p \in Ackers : WF_vars(AckStep(p))
    /\ \A p \in Sweepers : SF_vars(ClaimEligibleBatches(p)) /\ SF_vars(SweepStep(p))
    /\ \A p \in Ackers, q \in Sweepers :
        WF_vars(Deadlocked(p, q) /\ (Abort(p) \/ Abort(q)))
    /\ \A m \in Messages : WF_vars(Expire(m))

-----------------------------------------------------------------------------
(* Safety *)

AtTerminal(m) == {d \in Recipients[m] : rankOf(receipts[m][d]) >= rankOf(Terminal)}

(* I8, the progress counter is the number of recipients at the terminal    *)
(* state, however many acks each sent and in whatever order.  A batch is   *)
(* complete only if that is all of them, and at the latest then as long as *)
(* its time has not run out: acks of an expired batch are counted, and the *)
(* code lets them complete it, where ADR 0003 (line 66) would have         *)
(* completed_at stay NULL; of that nothing is asked here.                  *)
ProgressMatchesReceipts ==
    \A m \in Messages :
        /\ batches[m].delivered = Cardinality(AtTerminal(m))
        /\ batches[m].completed => AtTerminal(m) = Recipients[m]
        /\ AtTerminal(m) = Recipients[m] /\ batches[m].cleanup # "expired"
            => batches[m].completed

(* I9, the work of delivery is never freed early, and is freed whole: while*)
(* a batch is not cleaned every recipient's envelope is there, delivered   *)
(* exactly if its receipt says so; once it is cleaned none is left, and it *)
(* was cleaned because all had answered or its time was over.              *)
WorkIsKept ==
    \A m \in Messages :
        LET b == batches[m]
        IN  /\ b.cleanup = "none" =>
                \A d \in Recipients[m] :
                    /\ envelopes[m][d] # "none"
                    /\ envelopes[m][d] = "delivered" <=> d \in AtTerminal(m)
            /\ b.cleanup # "none" => \A d \in Recipients[m] : envelopes[m][d] = "none"
            /\ b.cleanup = "completed" => AtTerminal(m) = Recipients[m]
            /\ b.cleanup = "expired" => b.expired

(* I7 and I10, no transaction takes back what another committed: a receipt *)
(* only advances, a batch is cleaned once, for one reason, and completion  *)
(* is not undone.                                                          *)
NothingGoesBack ==
    [][\A m \in Messages :
        /\ \A d \in Recipients[m] :
            receipts'[m][d] # receipts[m][d] =>
                rankOf(receipts'[m][d]) > rankOf(receipts[m][d])
        /\ batches[m].cleanup # "none" => batches'[m].cleanup = batches[m].cleanup
        /\ batches[m].completed => batches'[m].completed]_vars

(* acks.controller.ts: 200 whenever the device is in the snapshot.  False: *)
(* an ack and the CronJob lock envelope and batch in opposite orders.      *)
AckNeverDeadlocks ==
    \A p \in Ackers, q \in Processes : ~Deadlocked(p, q)

(* ack.service.ts:125-149: the disagreement between an ack and the CronJob *)
(* is the only one.  Acks lock envelope, batch and envelopes, in no fixed  *)
(* order of rows, and two of them still never wait for each other, nor do  *)
(* two sweeps; every deadlock, of any number of transactions, is broken by *)
(* an ack about to count on a batch some sweep has claimed.                *)
OnlySweepsDeadlockAcks ==
    \A S \in SUBSET Processes :
        Circle(S) =>
            \E p \in S \cap Ackers, q \in S \cap Sweepers :
                /\ pc[p] = "batch"
                /\ AckOf[p].message \in ClaimedBy(q)
                /\ WaitsFor(p, q) /\ WaitsFor(q, p)

-----------------------------------------------------------------------------
(* Refinement *)

Promise == INSTANCE DeliveryPromise
    WITH progress <- [m \in Messages |-> batches[m].delivered],
         work <- [m \in Messages |-> {d \in Recipients[m] : envelopes[m][d] # "none"}],
         expired <- {m \in Messages : batches[m].expired}

(* Acks and sweeps that interleave statement by statement, wait, deadlock  *)
(* and roll back change the tables as if each ran alone at its COMMIT: an  *)
(* ack moves its one receipt and the progress with it, and the work of a   *)
(* batch is freed whole, by the ack that completes it or by a sweep.       *)
ImplementsDeliveryPromise == Promise!Spec

-----------------------------------------------------------------------------
(* Liveness *)

(* No work of delivery is kept for ever: complete or expired, every batch  *)
(* is cleaned in the end even if acks keep arriving, unless every sweep is *)
(* rolled back.                                                            *)
SweepsKeepFailing == []<><<\E p \in Sweepers : Abort(p)>>_vars

EveryBatchIsCleaned ==
    \/ SweepsKeepFailing
    \/ \A m \in Messages : <>(batches[m].cleanup # "none")
=============================================================================
