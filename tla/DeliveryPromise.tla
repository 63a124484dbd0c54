--------------------------- MODULE DeliveryPromise ---------------------------
(***************************************************************************)
(* What the delivery of published messages promises, with no transactions  *)
(* and no locks: acks and cleanups that happen one at a time.              *)
(*                                                                         *)
(* An ack moves one receipt forward and, in the same step, the progress of *)
(* its message; the ack that makes the message complete may free its work  *)
(* with it.  A cleanup frees the work of messages that are complete or     *)
(* whose time is over.  Work is freed whole.                               *)
(*                                                                         *)
(* Delivery implements this module.                                        *)
(***************************************************************************)
EXTENDS Integers, FiniteSets

CONSTANTS
    Messages,
    Recipients,     \* [Messages -> sets of devices]
    Terminal        \* the state at which a recipient has answered

VARIABLES
    receipts,       \* state per message and recipient
    progress,       \* how many recipients of each message have answered
    work,           \* the recipients whose envelope is still there
    expired         \* the messages whose time is over

vars == <<receipts, progress, work, expired>>

Rank == [pending |-> 1, delivered |-> 2, read |-> 3]

(* The recipients of m that have answered, given its receipts.             *)
Answered(m, states) == {d \in Recipients[m] : Rank[states[d]] >= Rank[Terminal]}

Complete(m, states) == Answered(m, states) = Recipients[m]

Init ==
    /\ receipts = [m \in Messages |-> [d \in Recipients[m] |-> "pending"]]
    /\ progress = [m \in Messages |-> 0]
    /\ work = [m \in Messages |-> Recipients[m]]
    /\ expired = {}

Acknowledge(m, d, state) ==
    LET states == [receipts[m] EXCEPT ![d] = state]
    IN  /\ Rank[state] > Rank[receipts[m][d]]
        /\ receipts' = [receipts EXCEPT ![m] = states]
        /\ progress' = [progress EXCEPT ![m] = Cardinality(Answered(m, states))]
        /\ \/ UNCHANGED work
           \/ /\ Complete(m, states) /\ ~Complete(m, receipts[m])
              /\ work' = [work EXCEPT ![m] = {}]
        /\ UNCHANGED expired

Clean(ms) ==
    /\ \A m \in ms : work[m] = Recipients[m]
    /\ \A m \in ms : m \in expired \/ Complete(m, receipts[m])
    /\ work' = [m \in Messages |-> IF m \in ms THEN {} ELSE work[m]]
    /\ UNCHANGED <<receipts, progress, expired>>

Expire(m) ==
    /\ expired' = expired \cup {m}
    /\ UNCHANGED <<receipts, progress, work>>

Next ==
    \/ \E m \in Messages : \E d \in Recipients[m], state \in {"delivered", "read"} :
        Acknowledge(m, d, state)
    \/ \E ms \in SUBSET Messages : Clean(ms)
    \/ \E m \in Messages : Expire(m)

Spec == Init /\ [][Next]_vars
=============================================================================
