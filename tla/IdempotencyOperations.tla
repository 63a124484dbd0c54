------------------------ MODULE IdempotencyOperations ------------------------
(***************************************************************************)
(* The table idempotency_operations and the statements that write it.      *)
(* Each is one conditional UPDATE or INSERT, so each is one action; a      *)
(* statement that touches no row is a call that returns null or false, and *)
(* no step.  Callers pass the attempt they believe they own.               *)
(*                                                                         *)
(* A key stands for (actor_id, route, key).  lease_until is kept as what   *)
(* PostgreSQL's clock says of it.                                          *)
(***************************************************************************)
EXTENDS Integers

CONSTANTS
    Keys,           \* idempotency keys
    Fingerprints,   \* hashes of the request content
    Responses,      \* what a completed operation stores
    NoResponse,     \* response_body IS NULL
    NoFingerprint,  \* of a key that was never claimed
    MaxAttempt      \* bound on the attempts of an operation, for model checking

ASSUME OperationsAssumption ==
    /\ MaxAttempt \in Nat \ {0}
    /\ NoResponse \notin Responses
    /\ NoFingerprint \notin Fingerprints

VARIABLE operations

Operation == [status : {"none", "in_progress", "completed", "failed"},
              fingerprint : Fingerprints \cup {NoFingerprint},
              attempt : 0..MaxAttempt,
              lease : {"none", "alive", "expired"},
              response : Responses \cup {NoResponse}]

NoOperation == [status |-> "none", fingerprint |-> NoFingerprint, attempt |-> 0,
                lease |-> "none", response |-> NoResponse]

TypeOK == operations \in [Keys -> Operation]

Init == operations = [k \in Keys |-> NoOperation]

(* The row is in progress and still carries attempt a: the fencing guard.  *)
OwnedBy(k, a) ==
    /\ operations[k].status = "in_progress"
    /\ operations[k].attempt = a

-----------------------------------------------------------------------------
(* INSERT; a second claim violates the unique key and returns null.        *)
ClaimOperation(k, f) ==
    /\ operations[k].status = "none"
    /\ operations' = [operations EXCEPT ![k] =
            [NoOperation EXCEPT !.status = "in_progress", !.fingerprint = f,
                                !.attempt = 1, !.lease = "alive"]]

(* Mutants of CanTakeOver: without the fence, and with a lease that never  *)
(* counts as over.                                                         *)
CanTakeOverUnfenced(k, a) ==
    operations[k].status = "in_progress" /\ operations[k].lease # "alive"
CanTakeOverNever(k, a) == OwnedBy(k, a) /\ operations[k].lease = "none"

(* Only the holder of the attempt just read wins the expired lease.        *)
CanTakeOver(k, a) == OwnedBy(k, a) /\ operations[k].lease # "alive"

TakeOverExpiredLease(k, a) ==
    /\ CanTakeOver(k, a)
    /\ a < MaxAttempt
    /\ operations' = [operations EXCEPT ![k] =
            [@ EXCEPT !.attempt = a + 1, !.lease = "alive"]]

CanComplete(k, a) == OwnedBy(k, a)

CompleteOperation(k, a, response) ==
    /\ CanComplete(k, a)
    /\ operations' = [operations EXCEPT ![k] =
            [@ EXCEPT !.status = "completed", !.lease = "none", !.response = response]]

(* Mutant of CanFail: the operation may be completed already.              *)
CanFailCompleted(k, a) == operations[k].attempt = a

CanFail(k, a) == OwnedBy(k, a)

FailOperation(k, a) ==
    /\ CanFail(k, a)
    /\ operations' = [operations EXCEPT ![k] =
            [@ EXCEPT !.status = "failed", !.lease = "none"]]

CanRetry(k, a) ==
    /\ operations[k].status = "failed"
    /\ operations[k].attempt = a

RetryFailedOperation(k, a) ==
    /\ CanRetry(k, a)
    /\ a < MaxAttempt
    /\ operations' = [operations EXCEPT ![k] =
            [@ EXCEPT !.status = "in_progress", !.attempt = a + 1, !.lease = "alive"]]

(* External: lease_until passes.  The last attempt of the bound keeps its  *)
(* lease, so that the bound never strands an operation.                    *)
LeaseExpires(k) ==
    /\ operations[k].lease = "alive"
    /\ operations[k].attempt < MaxAttempt
    /\ operations' = [operations EXCEPT ![k].lease = "expired"]

Next ==
    \E k \in Keys :
        \/ \E f \in Fingerprints : ClaimOperation(k, f)
        \/ \E a \in 1..MaxAttempt :
            \/ TakeOverExpiredLease(k, a)
            \/ \E r \in Responses : CompleteOperation(k, a, r)
            \/ FailOperation(k, a)
            \/ RetryFailedOperation(k, a)
        \/ LeaseExpires(k)

Spec == Init /\ [][Next]_operations

-----------------------------------------------------------------------------
(* The row stays coherent whatever the callers pass: a lease exactly while *)
(* in progress, a response exactly when completed.                         *)
Coherent(k) ==
    /\ operations[k].lease # "none" <=> operations[k].status = "in_progress"
    /\ operations[k].response # NoResponse <=> operations[k].status = "completed"
    /\ operations[k].attempt = 0 <=> operations[k].status = "none"

RowCoherent == \A k \in Keys : Coherent(k)

(* I1 and I2 at the level of the row: ownership changes hands only by      *)
(* raising the attempt, nothing lowers it, the fingerprint of a claimed    *)
(* key never changes and a completed row never changes at all.             *)
Fenced(old, new) ==
    /\ new.attempt >= old.attempt
    /\ old.status # "none" => new.fingerprint = old.fingerprint
    /\ old.status = "completed" => new = old
    /\ new.lease = "alive" /\ old.lease # "alive" => new.attempt > old.attempt

OwnershipIsFenced ==
    [][\A k \in Keys : Fenced(operations[k], operations'[k])]_operations
=============================================================================
