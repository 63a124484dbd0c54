---------------------------- MODULE ReplicaProofs ----------------------------
(***************************************************************************)
(* Proofs about one API process: row locks, connections and the drain, for *)
(* any number of requests and streams, any pool and any times the          *)
(* assumption allows.                                                      *)
(***************************************************************************)
EXTENDS Replica, FiniteSetTheorems, TLAPS

Steps == {"idle", "done"} \cup Asking \cup Running
SendSteps == {"ask_claim", "ask_effect", "ask_fail", "claim", "fail"}
AckSteps == {"ask_receipt", "ask_message", "receipt", "message"}
InEffect == {"first_lock", "second_lock", "commit"}

(* A request at its step: whose step it is, the transaction, the rows and  *)
(* the connections it has there, and how it cannot have ended.             *)
StepOfKind(r) ==
    /\ pc[r] \in SendSteps => Kind[r] = "send"
    /\ pc[r] \in AckSteps => Kind[r] = "ack"
    /\ pc[r] = "ask_resync" => Kind[r] = "resync"
    /\ pc[r] \in InEffect => Kind[r] \in {"send", "resync"}
    /\ pc[r] = "sweep" => Kind[r] = "sweep"

LocksAtStep(r) ==
    /\ r \in open => pc[r] \in InEffect \cup {"receipt", "sweep"}
    /\ pc[r] \notin {"second_lock", "commit", "sweep"} => locks[r] = {}
    /\ pc[r] \in {"second_lock", "sweep"} => Counter \notin locks[r]

ConnectionsAtStep(r) ==
    /\ <<r, 1>> \in conns => pc[r] \in Running \cup {"ask_message"}
    /\ <<r, 2>> \in conns => pc[r] = "message"

RequestOK(r) ==
    /\ StepOfKind(r) /\ LocksAtStep(r) /\ ConnectionsAtStep(r)
    /\ answer[r] \in {"none", "answered", "cut"}

(* The life of the process: what has to have happened before what.         *)
LifeOK ==
    /\ shutdown \in {"none", "delay", "closing", "ended"}
    /\ listener = "none" => ~started
    /\ listener = "closed" <=> shutdown \in {"closing", "ended"}
    /\ listener \in {"none", "open", "closed"}
    /\ shutdown # "none" => draining
    /\ elapsed > 0 => draining
    /\ elapsed > EndpointLag => ~routed
    /\ routed => listener = "open"
    /\ shutdown = "ended" => InFlight = {}
    /\ process = "exited" => shutdown = "ended"

IInv ==
    /\ TypeOK
    /\ IsFiniteSet(conns)
    /\ \A r \in Requests : RequestOK(r)
    /\ LifeOK

-----------------------------------------------------------------------------
(* What a request's own step may change *)

Moves(r, step, rows, how) ==
    /\ pc' = [pc EXCEPT ![r] = step]
    /\ locks' = [locks EXCEPT ![r] = rows]
    /\ answer' = [answer EXCEPT ![r] = how]
    /\ open' \in SUBSET (open \cup {r})
    /\ \A q \in open \ {r} : q \in open'
    /\ \A q \in Requests \ {r} : \A n \in {1, 2} : <<q, n>> \in conns' => <<q, n>> \in conns
    /\ UNCHANGED life

PoolKept(r) ==
    \/ conns' \subseteq conns
    \/ PoolHasRoom /\ \E n \in {1, 2} : conns' = conns \cup {<<r, n>>}

LEMMA PoolIsBounded ==
    ASSUME TypeOK, IsFiniteSet(conns), NEW r \in Requests, PoolKept(r)
    PROVE  /\ conns' \subseteq Requests \X {1, 2}
           /\ IsFiniteSet(conns')
           /\ InUse' <= MaxConnections
<1>1. MaxConnections \in Nat /\ Cardinality(conns) <= MaxConnections /\ Cardinality(conns) \in Nat
  BY ReplicaAssumption, FS_CardinalityType DEF TypeOK, InUse
<1> DEFINE card == Cardinality(conns)
           grown == Cardinality(conns')
<1>2. conns' \subseteq Requests \X {1, 2}
  <2>1. \A n \in {1, 2} : <<r, n>> \in Requests \X {1, 2}
    OBVIOUS
  <2>2. conns \subseteq Requests \X {1, 2}
    BY DEF TypeOK
  <2>3. QED
    BY <2>1, <2>2 DEF PoolKept
<1>3. IsFiniteSet(conns') /\ grown \in Nat /\ grown <= MaxConnections
  <2>1. CASE conns' \subseteq conns
    <3>1. IsFiniteSet(conns') /\ grown <= card
      BY <2>1, FS_Subset
    <3>2. grown \in Nat
      BY <3>1, FS_CardinalityType
    <3> HIDE DEF card, grown
    <3>3. QED
      BY <1>1, <3>1, <3>2 DEF card
  <2>2. CASE PoolHasRoom /\ \E n \in {1, 2} : conns' = conns \cup {<<r, n>>}
    <3>1. PICK n \in {1, 2} : conns' = conns \cup {<<r, n>>}
      BY <2>2
    <3>2. IsFiniteSet(conns') /\ (grown = card \/ grown = card + 1)
      BY <3>1, FS_AddElement
    <3>3. grown \in Nat
      BY <3>2, FS_CardinalityType
    <3>4. card < MaxConnections
      BY <2>2 DEF PoolHasRoom, InUse
    <3> HIDE DEF card, grown
    <3>5. QED
      BY <1>1, <3>2, <3>3, <3>4 DEF card
  <2>3. QED
    BY <2>1, <2>2 DEF PoolKept
<1>4. QED
  BY <1>2, <1>3 DEF InUse


LEMMA MovesKeep ==
    ASSUME IInv, NEW r \in Requests, NEW step \in Steps, NEW rows \in SUBSET Rows,
           NEW how \in {"none", "answered", "refused", "pool_ended", "cut"},
           Moves(r, step, rows, how), PoolKept(r),
           \A row \in rows : row \in locks[r] \/ RowFree(row),
           r \in Local => \/ step \in {"idle", "done"}
                          \/ pc[r] \notin {"idle", "done"}
                          \/ listener = "open",
           RequestOK(r)'
    PROVE  IInv'
<1>1. TypeOK /\ LifeOK /\ (\A q \in Requests : RequestOK(q)) /\ IsFiniteSet(conns)
  BY DEF IInv
<1>2. UNCHANGED life
  BY DEF Moves
<1>3. /\ pc'[r] = step /\ locks'[r] = rows
      /\ \A q \in Requests \ {r} : pc'[q] = pc[q] /\ locks'[q] = locks[q] /\ answer'[q] = answer[q]
  BY <1>1 DEF Moves, TypeOK
<1>4. conns' \subseteq Requests \X {1, 2} /\ IsFiniteSet(conns') /\ InUse' <= MaxConnections
  BY <1>1, PoolIsBounded
<1>5. TypeOK'
  <2>1. pc' \in [Requests -> Steps] /\ locks' \in [Requests -> SUBSET Rows]
    BY <1>1 DEF Moves, TypeOK, Steps
  <2>2. answer' \in [Requests -> {"none", "answered", "refused", "pool_ended", "cut"}]
    BY <1>1 DEF Moves, TypeOK
  <2>3. open' \subseteq Requests
    BY <1>1 DEF Moves, TypeOK
  <2>4. \A q, u \in Requests : q # u => locks'[q] \cap locks'[u] = {}
    <3>1. \A q \in Requests \ {r} : rows \cap locks[q] = {}
      BY <1>1 DEF TypeOK, RowFree
    <3>2. QED
      BY <1>1, <1>3, <3>1 DEF TypeOK
  <2>5. {started', draining', routed'} \subseteq BOOLEAN /\ elapsed' \in 0..Grace
    BY <1>1, <1>2 DEF TypeOK, life
  <2>6. QED
    BY <1>4, <2>1, <2>2, <2>3, <2>4, <2>5 DEF TypeOK, Steps
<1>6. \A q \in Requests : RequestOK(q)'
  <2>1. ASSUME NEW q \in Requests, q # r PROVE RequestOK(q)'
    <3>1. RequestOK(q) /\ pc'[q] = pc[q] /\ locks'[q] = locks[q] /\ answer'[q] = answer[q]
      BY <1>1, <1>3, <2>1
    <3>2. (q \in open' => q \in open) /\ \A n \in {1, 2} : <<q, n>> \in conns' => <<q, n>> \in conns
      BY <2>1 DEF Moves
    <3>3. QED
      BY <3>1, <3>2 DEF RequestOK, StepOfKind, LocksAtStep, ConnectionsAtStep
  <2>2. QED
    BY <2>1
<1>7. LifeOK'
  <2>1. InFlight = {} /\ listener # "open" => InFlight' = {}
    BY <1>3 DEF InFlight, Local
  <2>2. UNCHANGED <<started, draining, listener, shutdown, process, routed, elapsed>>
    BY <1>2 DEF life
  <2>3. shutdown' = "ended" => InFlight' = {}
    BY <1>1, <2>1, <2>2 DEF LifeOK
  <2>4. QED
    BY <1>1, <2>2, <2>3 DEF LifeOK
<1>8. QED
  BY <1>4, <1>5, <1>6, <1>7 DEF IInv


-----------------------------------------------------------------------------
(* The steps of a request *)

LEMMA Facts ==
    ASSUME IInv, NEW r \in Requests
    PROVE  /\ pc[r] \in Steps /\ locks[r] \in SUBSET Rows
           /\ locks = [locks EXCEPT ![r] = locks[r]]
           /\ answer[r] \in {"none", "answered", "cut"}
           /\ answer = [answer EXCEPT ![r] = answer[r]]
           /\ StepOfKind(r) /\ LocksAtStep(r) /\ ConnectionsAtStep(r)
           /\ Kind[r] \in {"send", "resync", "ack", "sweep"}
           /\ StreamOf[r] \in Streams /\ StreamOf[r] # Counter
           /\ open \subseteq Requests
           /\ pc[r] \in Asking => r \in Local
<1>1. TypeOK /\ RequestOK(r)
  BY DEF IInv
<1>2. /\ Kind[r] \in {"send", "resync", "ack", "sweep"}
      /\ StreamOf[r] \in Streams /\ StreamOf[r] # Counter
  BY ReplicaAssumption
<1>3. pc[r] \in Asking => Kind[r] # "sweep"
  BY <1>1 DEF RequestOK, StepOfKind, Asking, SendSteps, AckSteps
<1>4. /\ pc[r] \in Steps /\ locks[r] \in SUBSET Rows /\ open \subseteq Requests
      /\ locks = [locks EXCEPT ![r] = locks[r]]
      /\ answer = [answer EXCEPT ![r] = answer[r]]
  BY <1>1 DEF TypeOK, Steps
<1>5. QED
  BY <1>1, <1>2, <1>3, <1>4 DEF RequestOK, Local

LEMMA QuietMoveKeeps ==
    ASSUME IInv, NEW r \in Requests, NEW step \in Steps,
           Moves(r, step, locks[r], answer[r]), PoolKept(r),
           \/ r \notin Local
           \/ pc[r] \notin {"idle", "done"}
           \/ listener = "open",
           RequestOK(r)'
    PROVE  IInv'
<1> DEFINE rows == locks[r]
           how == answer[r]
<1>1. rows \in SUBSET Rows /\ \A row \in rows : row \in locks[r] \/ RowFree(row)
  BY Facts
<1>2. how \in {"none", "answered", "refused", "pool_ended", "cut"}
  BY Facts
<1>3. Moves(r, step, rows, how)
  OBVIOUS
<1> HIDE DEF rows, how
<1>4. QED
  BY <1>1, <1>2, <1>3, MovesKeep

LEMMA ArriveKeeps ==
    ASSUME IInv, NEW r \in Requests, Arrive(r)
    PROVE  IInv'
<1>1. r \in Local /\ pc[r] = "idle" /\ routed /\ UNCHANGED <<conns, open, locks, life>>
  BY DEF Arrive
<1>2. listener = "open"
  BY <1>1 DEF IInv, LifeOK
<1>3. Goto(r, FirstStep(r)) /\ UNCHANGED answer
  BY <1>2 DEF Arrive
<1>4. Kind[r] # "sweep"
  BY <1>1 DEF Local
<1>5. /\ FirstStep(r) \in {"ask_claim", "ask_resync", "ask_receipt"}
      /\ FirstStep(r) = "ask_claim" => Kind[r] = "send"
      /\ FirstStep(r) = "ask_resync" => Kind[r] = "resync"
      /\ FirstStep(r) = "ask_receipt" => Kind[r] = "ack"
  BY <1>4, Facts DEF FirstStep
<1>6. Moves(r, FirstStep(r), locks[r], answer[r]) /\ PoolKept(r)
  BY <1>1, <1>3, Facts DEF Moves, PoolKept, Goto
<1>7. pc'[r] = FirstStep(r) /\ locks'[r] = locks[r] /\ answer'[r] = answer[r]
  BY <1>1, <1>3 DEF Goto, IInv, TypeOK
<1>8. r \notin open /\ locks[r] = {} /\ <<r, 1>> \notin conns /\ <<r, 2>> \notin conns
  BY <1>1, Facts DEF LocksAtStep, ConnectionsAtStep, InEffect, Running
<1>9. RequestOK(r)'
  BY <1>1, <1>5, <1>7, <1>8, Facts
     DEF RequestOK, StepOfKind, LocksAtStep, ConnectionsAtStep, SendSteps, AckSteps, InEffect
<1>10. FirstStep(r) \in Steps
  BY <1>5 DEF Steps, Asking
<1>11. QED
  BY <1>2, <1>6, <1>9, <1>10, QuietMoveKeeps

LEMMA BeginSweepKeeps ==
    ASSUME IInv, NEW r \in Requests, BeginSweep(r)
    PROVE  IInv'
<1>1. /\ Kind[r] = "sweep" /\ pc[r] = "idle" /\ open' = open \cup {r} /\ Goto(r, "sweep")
      /\ UNCHANGED <<conns, locks, answer, life>>
  BY DEF BeginSweep
<1>2. Moves(r, "sweep", locks[r], answer[r]) /\ PoolKept(r)
  BY <1>1, Facts DEF Moves, PoolKept, Goto
<1>3. pc'[r] = "sweep" /\ locks'[r] = locks[r] /\ answer'[r] = answer[r]
  BY <1>1 DEF Goto, IInv, TypeOK
<1>4. locks[r] = {} /\ <<r, 1>> \notin conns /\ <<r, 2>> \notin conns
  BY <1>1, Facts DEF LocksAtStep, ConnectionsAtStep, InEffect, Running
<1>5. RequestOK(r)'
  BY <1>1, <1>3, <1>4, Facts
     DEF RequestOK, StepOfKind, LocksAtStep, ConnectionsAtStep, SendSteps, AckSteps, InEffect
<1>6. "sweep" \in Steps /\ r \notin Local
  BY <1>1 DEF Steps, Running, Local
<1>7. QED
  BY <1>2, <1>5, <1>6, QuietMoveKeeps

LEMMA ConnectKeeps ==
    ASSUME IInv, NEW r \in Requests, Connect(r)
    PROVE  IInv'
<1> DEFINE n == Cardinality(ConnsOf(r)) + 1
<1>1. /\ pc[r] \in Asking /\ PoolHasRoom /\ Goto(r, Granted(r))
      /\ conns' = conns \cup {<<r, n>>}
      /\ open' = IF OpensTransaction(r) THEN open \cup {r} ELSE open
      /\ UNCHANGED <<locks, answer, life>>
  BY DEF Connect
<1>2. locks[r] = {} /\ r \notin open /\ <<r, 2>> \notin conns
      /\ (pc[r] # "ask_message" => <<r, 1>> \notin conns)
  BY <1>1, Facts DEF LocksAtStep, ConnectionsAtStep, InEffect, Running, Asking
<1>3. n \in {1, 2} /\ (pc[r] # "ask_message" => n = 1)
  <2>1. conns \subseteq Requests \X {1, 2}
    BY DEF IInv, TypeOK
  <2>2. ASSUME NEW c \in ConnsOf(r)
        PROVE  c = <<r, 1>> /\ <<r, 1>> \in conns
    <3>1. c \in conns /\ c[1] = r /\ c \in Requests \X {1, 2}
      BY <2>1 DEF ConnsOf
    <3>2. c = <<r, 1>> \/ c = <<r, 2>>
      BY <3>1
    <3>3. QED
      BY <1>2, <3>1, <3>2
  <2>3. CASE ConnsOf(r) = {}
    BY <2>3, FS_EmptySet
  <2>4. CASE ConnsOf(r) # {}
    <3>1. ConnsOf(r) = {<<r, 1>>} /\ pc[r] = "ask_message"
      BY <1>2, <2>2, <2>4
    <3>2. Cardinality(ConnsOf(r)) = 1
      BY <3>1, FS_Singleton
    <3>3. QED
      BY <3>1, <3>2
  <2>5. QED
    BY <2>3, <2>4
<1> HIDE DEF n
<1>4. /\ Granted(r) \in {"claim", "first_lock", "fail", "receipt", "message"}
      /\ Granted(r) \in {"claim", "fail"} => Kind[r] = "send" /\ ~OpensTransaction(r)
      /\ Granted(r) = "first_lock" => Kind[r] \in {"send", "resync"}
      /\ Granted(r) = "receipt" => Kind[r] = "ack"
      /\ Granted(r) = "message" => Kind[r] = "ack" /\ ~OpensTransaction(r)
      /\ pc[r] = "ask_message" => Granted(r) = "message"
  BY <1>1, Facts DEF Granted, Asking, OpensTransaction, StepOfKind, SendSteps, AckSteps
<1>5. Moves(r, Granted(r), locks[r], answer[r]) /\ PoolKept(r)
  <2>1. \A q \in Requests \ {r} : \A k \in {1, 2} : <<q, k>> \in conns' => <<q, k>> \in conns
    BY <1>1
  <2>2. pc' = [pc EXCEPT ![r] = Granted(r)]
        /\ locks' = [locks EXCEPT ![r] = locks[r]]
        /\ answer' = [answer EXCEPT ![r] = answer[r]]
    BY <1>1, Facts DEF Goto
  <2>3. open' \in SUBSET (open \cup {r}) /\ \A q \in open \ {r} : q \in open'
    BY <1>1
  <2>4. PoolKept(r)
    BY <1>1, <1>3 DEF PoolKept
  <2>5. QED
    BY <1>1, <2>1, <2>2, <2>3, <2>4 DEF Moves
<1>6. pc'[r] = Granted(r) /\ locks'[r] = locks[r] /\ answer'[r] = answer[r]
  BY <1>1 DEF Goto, IInv, TypeOK
<1>7. StepOfKind(r)' /\ LocksAtStep(r)'
  BY <1>1, <1>2, <1>4, <1>6 DEF StepOfKind, LocksAtStep, SendSteps, AckSteps, InEffect
<1>8. ConnectionsAtStep(r)'
  <2>1. Granted(r) \in Running
    BY <1>4 DEF Running
  <2>2. <<r, 2>> \in conns' => n = 2
    BY <1>1, <1>2
  <2>3. <<r, 2>> \in conns' => Granted(r) = "message"
    <3>1. n = 2 => pc[r] = "ask_message"
      BY <1>3
    <3>2. QED
      BY <1>4, <2>2, <3>1
  <2>4. QED
    BY <1>6, <2>1, <2>3 DEF ConnectionsAtStep
<1>9. RequestOK(r)'
  BY <1>6, <1>7, <1>8, Facts DEF RequestOK
<1>10. Granted(r) \in Steps /\ pc[r] \notin {"idle", "done"}
  BY <1>1, <1>4 DEF Steps, Running, Asking
<1>11. QED
  BY <1>5, <1>9, <1>10, QuietMoveKeeps


(* Whoever ends his transaction gives back all he has.                     *)
LEMMA ReleaseKeeps ==
    ASSUME IInv, NEW r \in Requests, pc[r] \in Asking \cup Running,
           NEW step \in {"done", "ask_fail"}, step = "ask_fail" => Kind[r] = "send",
           Goto(r, step), Answered(r, "answered"),
           conns' = conns \ ConnsOf(r), open' = open \ {r},
           locks' = [locks EXCEPT ![r] = {}], UNCHANGED life
    PROVE  IInv'
<1> DEFINE how == IF answer[r] = "none" THEN "answered" ELSE answer[r]
           rows == {}
<1>1. how \in {"none", "answered", "refused", "pool_ended", "cut"} /\ how \in {"none", "answered", "cut"}
  BY Facts
<1>2. \A n \in {1, 2} : <<r, n>> \notin conns'
  BY DEF ConnsOf
<1>3. Moves(r, step, rows, how)
  <2>1. answer' = [answer EXCEPT ![r] = how] /\ pc' = [pc EXCEPT ![r] = step]
    BY DEF Answered, Goto
  <2>2. open' \in SUBSET (open \cup {r}) /\ \A q \in open \ {r} : q \in open'
    OBVIOUS
  <2>3. QED
    BY <2>1, <2>2 DEF Moves
<1>4. PoolKept(r)
  BY DEF PoolKept
<1>5. pc'[r] = step /\ answer'[r] = how /\ locks'[r] = {} /\ r \notin open'
  BY DEF Goto, Answered, IInv, TypeOK
<1>6. RequestOK(r)'
  BY <1>1, <1>2, <1>5
     DEF RequestOK, StepOfKind, LocksAtStep, ConnectionsAtStep, SendSteps, AckSteps, InEffect
<1>7. step \in Steps /\ pc[r] \notin {"idle", "done"}
  BY DEF Steps, Asking, Running
<1>8. rows \in SUBSET Rows /\ \A row \in rows : row \in locks[r] \/ RowFree(row)
  OBVIOUS
<1> HIDE DEF how, rows
<1>9. QED
  BY <1>1, <1>3, <1>4, <1>6, <1>7, <1>8, MovesKeep

LEMMA AbortKeeps ==
    ASSUME IInv, NEW r \in Requests, pc[r] \in Asking \cup Running, Abort(r, "answered")
    PROVE  IInv'
<1> DEFINE step == IF Kind[r] = "send"
                      /\ pc[r] \in {"ask_effect", "first_lock", "second_lock", "commit"}
                   THEN "ask_fail" ELSE "done"
<1>1. Goto(r, step)
  BY DEF Abort
<1>2. /\ Answered(r, "answered") /\ conns' = conns \ ConnsOf(r) /\ open' = open \ {r}
      /\ locks' = [locks EXCEPT ![r] = {}] /\ UNCHANGED life
  BY DEF Abort, ReleasedOnError
<1>3. step \in {"done", "ask_fail"} /\ (step = "ask_fail" => Kind[r] = "send")
  OBVIOUS
<1> HIDE DEF step
<1>4. QED
  BY <1>1, <1>2, <1>3, ReleaseKeeps

LEMMA EndKeeps ==
    ASSUME IInv, NEW r \in Requests, pc[r] \in Running, End(r)
    PROVE  IInv'
<1>1. /\ Goto(r, "done") /\ Answered(r, "answered") /\ conns' = conns \ ConnsOf(r)
      /\ open' = open \ {r} /\ locks' = [locks EXCEPT ![r] = {}] /\ UNCHANGED life
  BY DEF End
<1>2. QED
  BY <1>1, ReleaseKeeps

(* Nobody asks for a connection once the pool is ended.                    *)
LEMMA RefusedKeeps ==
    ASSUME IInv, NEW r \in Requests, ConnectionRefused(r)
    PROVE  IInv'
<1>1. pc[r] \in Asking
  BY DEF ConnectionRefused
<1>2. shutdown # "ended"
  <2>1. r \in InFlight
    BY <1>1, Facts DEF InFlight, Asking
  <2>2. QED
    BY <2>1 DEF IInv, LifeOK
<1>3. Abort(r, "answered")
  BY <1>2 DEF ConnectionRefused
<1>4. QED
  BY <1>1, <1>3, AbortKeeps

LEMMA ClaimKeeps ==
    ASSUME IInv, NEW r \in Requests, Claim(r)
    PROVE  IInv'
<1>1. pc[r] = "claim" /\ conns' = conns \ ConnsOf(r) /\ UNCHANGED <<open, locks, life>>
  BY DEF Claim
<1>2. locks[r] = {} /\ r \notin open /\ Kind[r] = "send"
  BY <1>1, Facts DEF LocksAtStep, StepOfKind, InEffect, SendSteps
<1>3. CASE Goto(r, "done") /\ Answered(r, "answered")
  <2>1. open' = open \ {r} /\ locks' = [locks EXCEPT ![r] = {}]
    BY <1>1, <1>2, Facts
  <2>2. QED
    BY <1>1, <1>3, <2>1, ReleaseKeeps DEF Running
<1>4. CASE Goto(r, "ask_effect") /\ UNCHANGED answer
  <2>1. \A n \in {1, 2} : <<r, n>> \notin conns'
    BY <1>1 DEF ConnsOf
  <2>2. Moves(r, "ask_effect", locks[r], answer[r]) /\ PoolKept(r)
    BY <1>1, <1>4, Facts DEF Moves, PoolKept, Goto
  <2>3. pc'[r] = "ask_effect" /\ locks'[r] = locks[r] /\ answer'[r] = answer[r] /\ r \notin open'
    BY <1>1, <1>2, <1>4 DEF Goto, IInv, TypeOK
  <2>4. RequestOK(r)'
    BY <1>2, <2>1, <2>3, Facts
       DEF RequestOK, StepOfKind, LocksAtStep, ConnectionsAtStep, SendSteps, AckSteps, InEffect
  <2>5. "ask_effect" \in Steps /\ pc[r] \notin {"idle", "done"}
    BY <1>1 DEF Steps, Asking
  <2>6. QED
    BY <2>2, <2>4, <2>5, QuietMoveKeeps
<1>5. QED
  BY <1>3, <1>4 DEF Claim

(* A lock is granted; the request that holds a stream goes on to the       *)
(* counter or to its COMMIT.                                               *)
LEMMA LockKeeps ==
    ASSUME IInv, NEW r \in Requests, LockFirst(r) \/ LockSecond(r) \/ SweepLock(r)
    PROVE  IInv'
<1>1. PICK row \in RowsNeeded(r) : RowFree(row) /\ locks' = [locks EXCEPT ![r] = locks[r] \cup {row}]
  BY DEF LockFirst, LockSecond, SweepLock, LockRow
<1>2. /\ pc[r] \in {"first_lock", "second_lock", "sweep"}
      /\ UNCHANGED <<conns, open, answer, life>>
  BY DEF LockFirst, LockSecond, SweepLock
<1>3. PICK step \in {"second_lock", "commit", "sweep"} :
        /\ pc' = [pc EXCEPT ![r] = step]
        /\ step = "second_lock" => pc[r] = "first_lock"
        /\ step = "sweep" <=> pc[r] = "sweep"
  <2>1. CASE LockFirst(r)
    BY <2>1 DEF LockFirst, Goto
  <2>2. CASE LockSecond(r)
    BY <2>2 DEF LockSecond, Goto
  <2>3. CASE SweepLock(r)
    <3>1. pc[r] = "sweep" /\ pc' = [pc EXCEPT ![r] = "sweep"]
      BY <2>3, Facts DEF SweepLock, IInv, TypeOK
    <3>2. QED
      BY <3>1
  <2>4. QED
    BY <2>1, <2>2, <2>3
<1>4. row \in Rows /\ (pc[r] \in {"first_lock", "sweep"} => row # Counter)
  BY <1>2, Facts, ReplicaAssumption DEF RowsNeeded, LockOrder, Rows
<1> DEFINE rows == locks[r] \cup {row}
<1>5. /\ rows \in SUBSET Rows
      /\ \A e \in rows : e \in locks[r] \/ RowFree(e)
      /\ step \in {"second_lock", "sweep"} => Counter \notin rows
  BY <1>1, <1>3, <1>4, Facts DEF LocksAtStep, InEffect
<1>6. locks' = [locks EXCEPT ![r] = rows]
  BY <1>1
<1> HIDE DEF rows
<1>7. Moves(r, step, rows, answer[r]) /\ PoolKept(r)
  BY <1>2, <1>3, <1>6, Facts DEF Moves, PoolKept
<1>8. pc'[r] = step /\ locks'[r] = rows /\ answer'[r] = answer[r]
  BY <1>2, <1>3, <1>6 DEF IInv, TypeOK
<1>9. StepOfKind(r)' /\ ConnectionsAtStep(r)'
  BY <1>2, <1>3, <1>8, Facts
     DEF StepOfKind, ConnectionsAtStep, SendSteps, AckSteps, InEffect, Running
<1>10. LocksAtStep(r)'
  BY <1>2, <1>3, <1>5, <1>8 DEF LocksAtStep, InEffect
<1>11. RequestOK(r)'
  BY <1>8, <1>9, <1>10, Facts DEF RequestOK
<1>12. step \in Steps /\ pc[r] \notin {"idle", "done"}
  BY <1>2 DEF Steps, Running
<1>13. answer[r] \in {"none", "answered", "refused", "pool_ended", "cut"}
  BY Facts
<1>14. QED
  BY <1>5, <1>7, <1>11, <1>12, <1>13, MovesKeep

LEMMA ReceiptKeeps ==
    ASSUME IInv, NEW r \in Requests, Receipt(r)
    PROVE  IInv'
<1>1. pc[r] = "receipt" /\ pc[r] \in Running
  BY DEF Receipt, Running
<1>2. CASE End(r)
  BY <1>1, <1>2, EndKeeps
<1>3. CASE open' = RolledBack(r) /\ Goto(r, "ask_message") /\ UNCHANGED <<conns, locks, answer, life>>
  <2>1. /\ locks[r] = {} /\ Kind[r] = "ack" /\ <<r, 2>> \notin conns
        /\ open' = open \ {r}
    BY <1>1, <1>3, Facts
       DEF LocksAtStep, ConnectionsAtStep, StepOfKind, AckSteps, InEffect, RolledBack
  <2>2. Moves(r, "ask_message", locks[r], answer[r]) /\ PoolKept(r)
    BY <1>3, <2>1, Facts DEF Moves, PoolKept, Goto
  <2>3. pc'[r] = "ask_message" /\ locks'[r] = locks[r] /\ answer'[r] = answer[r]
    BY <1>3 DEF Goto, IInv, TypeOK
  <2>4. RequestOK(r)'
    BY <1>3, <2>1, <2>3, Facts
       DEF RequestOK, StepOfKind, LocksAtStep, ConnectionsAtStep, SendSteps, AckSteps, InEffect
  <2>5. "ask_message" \in Steps /\ pc[r] \notin {"idle", "done"}
    BY <1>1 DEF Steps, Asking
  <2>6. QED
    BY <2>2, <2>4, <2>5, QuietMoveKeeps
<1>4. QED
  BY <1>2, <1>3 DEF Receipt

LEMMA StepKeeps ==
    ASSUME IInv, NEW r \in Requests, Step(r)
    PROVE  IInv'
<1>1. CASE StatementFails(r)
  BY <1>1, AbortKeeps DEF StatementFails
<1>2. CASE Complete(r)
  BY <1>2, EndKeeps DEF Complete, Running
<1>3. CASE SweepCommit(r)
  BY <1>3, EndKeeps DEF SweepCommit, Running
<1>4. QED
  BY <1>1, <1>2, <1>3, ConnectKeeps, RefusedKeeps, ClaimKeeps, LockKeeps, ReceiptKeeps DEF Step

-----------------------------------------------------------------------------
(* The steps of the process *)

LEMMA LifeStepKeeps ==
    ASSUME IInv, UNCHANGED request, LifeOK',
           {started', draining', routed'} \subseteq BOOLEAN, elapsed' \in 0..Grace
    PROVE  IInv'
<1>1. UNCHANGED <<pc, conns, open, locks, answer>>
  BY DEF request
<1>2. TypeOK'
  BY <1>1 DEF IInv, TypeOK, InUse
<1>3. \A r \in Requests : RequestOK(r)'
  BY <1>1 DEF IInv, RequestOK, StepOfKind, LocksAtStep, ConnectionsAtStep
<1>4. IsFiniteSet(conns')
  BY <1>1 DEF IInv
<1>5. QED
  BY <1>2, <1>3, <1>4 DEF IInv

LEMMA ProcessKeeps ==
    ASSUME IInv,
           Listen \/ Route \/ Unroute \/ Signal \/ Tick \/ Close \/ EndPool \/ Exit
    PROVE  IInv'
<1>1. /\ LifeOK /\ {started, draining, routed} \subseteq BOOLEAN /\ elapsed \in 0..Grace
      /\ EndpointLag \in Nat /\ DrainDelay \in Nat /\ Grace \in Nat /\ EndpointLag < DrainDelay
  BY ReplicaAssumption DEF IInv, TypeOK
<1>2. UNCHANGED request
  BY DEF Listen, Route, Unroute, Signal, Tick, Close, EndPool, Exit
<1>3. InFlight' = InFlight
  BY <1>2 DEF InFlight, Local, request
<1>4. /\ LifeOK' /\ {started', draining', routed'} \subseteq BOOLEAN /\ elapsed' \in 0..Grace
  <2>1. CASE Listen
    BY <1>1, <1>3, <2>1 DEF Listen, LifeOK
  <2>2. CASE Route
    BY <1>1, <1>3, <2>2 DEF Route, IsReady, LifeOK
  <2>3. CASE Unroute
    BY <1>1, <1>3, <2>3 DEF Unroute, LifeOK
  <2>4. CASE Signal
    BY <1>1, <1>3, <2>4 DEF Signal, LifeOK
  <2>5. CASE Tick
    BY <1>1, <1>3, <2>5 DEF Tick, LifeOK
  <2>6. CASE Close
    BY <1>1, <1>3, <2>6 DEF Close, DelayOver, LifeOK
  <2>7. CASE EndPool
    BY <1>1, <1>3, <2>7 DEF EndPool, ServerClosed, LifeOK
  <2>8. CASE Exit
    BY <1>1, <1>3, <2>8 DEF Exit, CloseReturned, LifeOK
  <2>9. QED
    BY <2>1, <2>2, <2>3, <2>4, <2>5, <2>6, <2>7, <2>8
<1>5. QED
  BY <1>2, <1>4, LifeStepKeeps

LEMMA KillKeeps ==
    ASSUME IInv, Kill
    PROVE  IInv'
<1>1. TypeOK /\ LifeOK /\ IsFiniteSet(conns)
  BY DEF IInv
<1>2. \A r \in Requests :
        /\ pc'[r] = IF r \in InFlight THEN "done" ELSE pc[r]
        /\ locks'[r] = IF r \in Local THEN {} ELSE locks[r]
        /\ answer'[r] = IF r \in InFlight THEN "cut" ELSE answer[r]
  BY DEF Kill
<1>3. /\ conns' = {} /\ open' = open \ Local /\ process' = "killed"
      /\ UNCHANGED <<started, draining, listener, shutdown, routed, elapsed>>
  BY DEF Kill
<1>4. TypeOK'
  <2>1. pc' \in [Requests -> Steps]
        /\ answer' \in [Requests -> {"none", "answered", "refused", "pool_ended", "cut"}]
    BY <1>1 DEF Kill, TypeOK, Steps
  <2>2. locks' \in [Requests -> SUBSET Rows]
    BY <1>1 DEF Kill, TypeOK
  <2>3. \A r, q \in Requests : r # q => locks'[r] \cap locks'[q] = {}
    BY <1>1, <1>2 DEF TypeOK
  <2>4. InUse' <= MaxConnections
    BY <1>3, FS_EmptySet, ReplicaAssumption DEF InUse
  <2>5. QED
    BY <1>1, <1>3, <2>1, <2>2, <2>3, <2>4 DEF TypeOK, Steps
<1>5. ASSUME NEW r \in Requests PROVE RequestOK(r)'
  <2>1. StepOfKind(r) /\ LocksAtStep(r) /\ answer[r] \in {"none", "answered", "cut"}
    BY Facts
  <2>2. /\ StepOfKind(r)' /\ answer'[r] \in {"none", "answered", "cut"}
    BY <1>2, <2>1 DEF StepOfKind, SendSteps, AckSteps, InEffect
  <2>3. ConnectionsAtStep(r)'
    BY <1>3 DEF ConnectionsAtStep
  <2>4. LocksAtStep(r)'
    BY <1>2, <1>3, <2>1 DEF LocksAtStep, InFlight, Local, InEffect
  <2>5. QED
    BY <2>2, <2>3, <2>4 DEF RequestOK
<1>6. InFlight' = {}
  BY <1>2 DEF InFlight, Local
<1>7. LifeOK'
  BY <1>1, <1>3, <1>6 DEF LifeOK
<1>8. IsFiniteSet(conns')
  BY <1>3, FS_EmptySet
<1>9. QED
  BY <1>4, <1>5, <1>7, <1>8 DEF IInv

-----------------------------------------------------------------------------
(* The invariant *)

LEMMA InitHolds == Init => IInv
<1> SUFFICES ASSUME Init PROVE IInv
  OBVIOUS
<1>1. TypeOK
  <2>1. InUse <= MaxConnections
    <3>1. InUse = 0
      BY FS_EmptySet DEF Init, InUse
    <3>2. QED
      BY <3>1, ReplicaAssumption
  <2>2. /\ pc \in [Requests -> Steps] /\ locks \in [Requests -> SUBSET Rows]
        /\ answer \in [Requests -> {"none", "answered", "refused", "pool_ended", "cut"}]
    BY DEF Init, Steps
  <2>3. /\ conns \subseteq Requests \X {1, 2} /\ open \subseteq Requests
        /\ \A r, q \in Requests : r # q => locks[r] \cap locks[q] = {}
    BY DEF Init
  <2>4. {started, draining, routed} \subseteq BOOLEAN
    BY DEF Init
  <2>5. elapsed \in 0..Grace
    BY ReplicaAssumption DEF Init
  <2>6. QED
    BY <2>1, <2>2, <2>3, <2>4, <2>5 DEF TypeOK, Steps
<1>2. IsFiniteSet(conns)
  BY FS_EmptySet DEF Init
<1>3. \A r \in Requests : RequestOK(r)
  BY DEF Init, RequestOK, StepOfKind, LocksAtStep, ConnectionsAtStep, SendSteps, AckSteps, InEffect
<1>4. LifeOK
  BY ReplicaAssumption DEF Init, LifeOK
<1>5. QED
  BY <1>1, <1>2, <1>3, <1>4 DEF IInv

LEMMA NextKeeps == IInv /\ [Next]_vars => IInv'
<1> SUFFICES ASSUME IInv, [Next]_vars PROVE IInv'
  OBVIOUS
<1>1. CASE UNCHANGED vars
  BY <1>1, LifeStepKeeps DEF vars, request, life, IInv, TypeOK, LifeOK, InFlight, Local
<1>2. CASE Next
  BY <1>2, ArriveKeeps, BeginSweepKeeps, StepKeeps, ProcessKeeps, KillKeeps DEF Next
<1>3. QED
  BY <1>1, <1>2


(* The inductive invariant of requests, pool and drain together.           *)
THEOREM ReplicaInvariant == Spec => []IInv
<1>1. Init => IInv
  BY InitHolds
<1>2. IInv /\ [Next]_vars => IInv'
  BY NextKeeps
<1>3. QED
  BY <1>1, <1>2, PTL DEF Spec

(* Types, one owner per row, and the bound of the pool.                    *)
THEOREM ReplicaTypes == Spec => []TypeOK
<1>1. IInv => TypeOK
  BY DEF IInv
<1>2. QED
  BY <1>1, ReplicaInvariant, PTL

-----------------------------------------------------------------------------
(* Deadlock *)

(* Transactions that all wait for one another.                             *)
Circle(S) ==
    /\ S # {}
    /\ \A r \in S : RowsNeeded(r) # {} /\ \E q \in S : WaitsFor(r, q)

TwoSweepsIn(S) == \E p, q \in S : p # q /\ pc[p] = "sweep" /\ pc[q] = "sweep"

CirclesAreOfSweeps == \A S \in SUBSET Requests : Circle(S) => TwoSweepsIn(S)

LEMMA CirclesNeedTwoSweeps == IInv => CirclesAreOfSweeps
<1> SUFFICES ASSUME IInv, NEW S \in SUBSET Requests, Circle(S) PROVE TwoSweepsIn(S)
  BY DEF CirclesAreOfSweeps
<1>1. \A r \in S : pc[r] \in {"first_lock", "second_lock", "sweep"}
  BY DEF Circle, RowsNeeded
<1>2. \A r \in S : Counter \notin locks[r] /\ (locks[r] # {} => pc[r] \in {"second_lock", "sweep"})
  BY <1>1, Facts DEF LocksAtStep
<1>3. \A r \in S : pc[r] # "second_lock"
  <2>1. SUFFICES ASSUME NEW r \in S, pc[r] = "second_lock" PROVE FALSE
    OBVIOUS
  <2>2. RowsNeeded(r) = {Counter}
    BY <2>1 DEF RowsNeeded, LockOrder
  <2>3. QED
    BY <1>2, <2>2 DEF Circle, WaitsFor
<1>4. \A r \in S : \E q \in S : q # r /\ pc[q] = "sweep"
  BY <1>2, <1>3 DEF Circle, WaitsFor
<1>5. QED
  BY <1>4 DEF Circle, TwoSweepsIn

(* send-message.service.ts:331: whatever sends, resyncs and sweeps are     *)
(* under way, a circle of transactions that wait for one another needs two *)
(* sweeps, whose UPDATE (device-sequences.repository.ts:177) prescribes no *)
(* order of its rows.                                                      *)
THEOREM DeadlocksAreOfSweeps == Spec => []CirclesAreOfSweeps
<1>1. QED
  BY CirclesNeedTwoSweeps, ReplicaInvariant, PTL

(* 50-cronjobs.yaml:29, concurrencyPolicy: Forbid.                         *)
OneSweepAtATime ==
    \A p, q \in Requests : pc[p] = "sweep" /\ pc[q] = "sweep" => p = q

(* With that schedule nothing ever deadlocks, whatever the number of       *)
(* requests and streams.                                                   *)
THEOREM NeverDeadlock == Spec /\ []OneSweepAtATime => []TransactionsNeverDeadlock
<1>1. IInv /\ OneSweepAtATime => TransactionsNeverDeadlock
  <2> SUFFICES ASSUME IInv, OneSweepAtATime,
                      NEW S \in SUBSET {r \in Requests : RowsNeeded(r) # {}}, S # {},
                      \A r \in S : \E q \in S : WaitsFor(r, q)
               PROVE  FALSE
    BY DEF TransactionsNeverDeadlock
  <2>1. S \in SUBSET Requests /\ Circle(S)
    BY DEF Circle
  <2>2. TwoSweepsIn(S)
    BY <2>1, CirclesNeedTwoSweeps DEF CirclesAreOfSweeps
  <2>3. QED
    BY <2>1, <2>2 DEF TwoSweepsIn, OneSweepAtATime
<1>2. QED
  BY <1>1, ReplicaInvariant, PTL

-----------------------------------------------------------------------------
(* Pool and drain *)

(* ack.service.ts:96: the rollback before the second connection, for any   *)
(* number of acks and any pool.                                            *)
THEOREM WaitersBlockNobody == Spec => []PoolWaitersBlockNobody
<1>1. IInv => PoolWaitersBlockNobody
  <2> SUFFICES ASSUME IInv PROVE PoolWaitersBlockNobody
    OBVIOUS
  <2>1. ASSUME NEW r \in Requests, pc[r] \in Asking PROVE r \notin open /\ locks[r] = {}
    BY <2>1, Facts DEF LocksAtStep, InEffect, Asking
  <2>2. ASSUME NEW c \in conns, pc[c[1]] \in Asking PROVE Kind[c[1]] = "ack"
    <3>1. c[1] \in Requests /\ (c = <<c[1], 1>> \/ c = <<c[1], 2>>)
      BY DEF IInv, TypeOK
    <3>2. pc[c[1]] = "ask_message"
      BY <2>2, <3>1, Facts DEF ConnectionsAtStep, Running, Asking
    <3>3. QED
      BY <3>1, <3>2, Facts DEF StepOfKind, AckSteps
  <2>3. QED
    BY <2>1, <2>2 DEF PoolWaitersBlockNobody
<1>2. QED
  BY <1>1, ReplicaInvariant, PTL

(* bootstrap.ts:149-190 and database.module.ts:32: whatever the pool, the  *)
(* delays in their order and the requests under way, a drain refuses none, *)
(* ends the pool under none and leaves none behind.                        *)
THEOREM DrainIsSafe == Spec => []DrainLosesNothing
<1>1. IInv => DrainLosesNothing
  <2> SUFFICES ASSUME IInv PROVE DrainLosesNothing
    OBVIOUS
  <2>1. NobodyRefused /\ NobodyMeetsEndedPool
    BY Facts DEF NobodyRefused, NobodyMeetsEndedPool
  <2>2. process = "exited" => InFlight = {}
    BY DEF IInv, LifeOK
  <2>3. InFlight = {} => open \cap Local = {}
    <3>1. ASSUME NEW r \in open \cap Local PROVE r \in InFlight
      <4>1. r \in Requests
        BY DEF IInv, TypeOK
      <4>2. pc[r] \in InEffect \cup {"receipt", "sweep"}
        BY <4>1, Facts DEF LocksAtStep
      <4>3. QED
        BY <4>2 DEF InFlight, InEffect
    <3>2. QED
      BY <3>1
  <2>4. QED
    BY <2>1, <2>2, <2>3 DEF DrainLosesNothing, ExitIsClean
<1>2. QED
  BY <1>1, ReplicaInvariant, PTL
=============================================================================
