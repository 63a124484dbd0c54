------------------------------ MODULE Replica ------------------------------
(***************************************************************************)
(* One API process: its bounded pool of connections, the requests that ask *)
(* for them and for row locks, and its life from listen() to SIGTERM,      *)
(* drain and exit.                                                         *)
(*                                                                         *)
(* What a statement does to the tables is left to the other modules; here  *)
(* it needs a connection, may have to wait for a row lock, and may fail.   *)
(* Requests are:                                                           *)
(*   send     a claim, the transaction of the effect and, if that fails,   *)
(*            a statement that marks the operation failed                  *)
(*   resync   one transaction                                              *)
(*   ack      one transaction; when the device is not in the snapshot, a   *)
(*            read of the message that takes a second connection           *)
(*   sweep    gaps-expire, of another process: locks one stream after the  *)
(*            other in one statement, in any order                         *)
(*                                                                         *)
(* External: Nest's app.close() stops the listener, waits for the requests *)
(* under way and then calls onApplicationShutdown; the pg pool; Kubernetes *)
(* routing and its SIGKILL.  Time is counted from SIGTERM.                 *)
(***************************************************************************)
EXTENDS Integers, FiniteSets

CONSTANTS
    Requests,
    Kind,           \* [Requests -> {"send", "resync", "ack", "sweep"}]
    StreamOf,       \* [Requests -> Streams]: the sender's device_sequences row
    Streams,
    MaxConnections, \* connections of the pool
    EndpointLag,    \* ticks until a pod that ends is out of every endpoint list
    DrainDelay,     \* DRAIN_DELAY_MS
    Grace           \* terminationGracePeriodSeconds

Counter == "conversation_sequences"
Rows == Streams \cup {Counter}

ASSUME ReplicaAssumption ==
    /\ Counter \notin Streams
    /\ Kind \in [Requests -> {"send", "resync", "ack", "sweep"}]
    /\ StreamOf \in [Requests -> Streams]
    /\ MaxConnections \in Nat \ {0}
    /\ EndpointLag \in Nat /\ DrainDelay \in Nat /\ Grace \in Nat
    /\ EndpointLag < DrainDelay /\ DrainDelay < Grace

Asking == {"ask_claim", "ask_effect", "ask_fail", "ask_resync", "ask_receipt", "ask_message"}
Running == {"claim", "first_lock", "second_lock", "commit", "fail", "receipt", "message", "sweep"}

VARIABLES
    pc,         \* [Requests -> "idle", Asking, Running or "done"]
    conns,      \* connections out: <<request, n>>, its first or its second
    open,       \* requests with a transaction open
    locks,      \* [Requests -> rows it has locked]
    answer,     \* [Requests -> "none", or how it ended]
    started, draining,      \* Lifecycle
    listener,   \* "none", "open", "closed"
    shutdown,   \* "none", "delay", "closing", "ended"
    process,    \* "up", "exited", "killed"
    routed,     \* a balancer sends requests here
    elapsed     \* ticks since SIGTERM

request == <<pc, conns, open, locks, answer>>
life == <<started, draining, listener, shutdown, process, routed, elapsed>>
vars == <<request, life>>

Local == {r \in Requests : Kind[r] # "sweep"}
InFlight == {r \in Local : pc[r] \notin {"idle", "done"}}
InUse == Cardinality(conns)

(* Types; a row has one owner, and no more than max connections are out.   *)
TypeOK ==
    /\ pc \in [Requests -> {"idle", "done"} \cup Asking \cup Running]
    /\ conns \subseteq Requests \X {1, 2}
    /\ open \subseteq Requests
    /\ locks \in [Requests -> SUBSET Rows]
    /\ \A r, q \in Requests : r # q => locks[r] \cap locks[q] = {}
    /\ answer \in [Requests -> {"none", "answered", "refused", "pool_ended", "cut"}]
    /\ {started, draining, routed} \subseteq BOOLEAN
    /\ elapsed \in 0..Grace
    /\ InUse <= MaxConnections

Init ==
    /\ pc = [r \in Requests |-> "idle"]
    /\ conns = {}
    /\ open = {}
    /\ locks = [r \in Requests |-> {}]
    /\ answer = [r \in Requests |-> "none"]
    /\ started = FALSE /\ draining = FALSE
    /\ listener = "none" /\ shutdown = "none" /\ process = "up"
    /\ routed = FALSE /\ elapsed = 0

-----------------------------------------------------------------------------
(* Requests *)

Goto(r, step) == pc' = [pc EXCEPT ![r] = step]
ConnsOf(r) == {c \in conns : c[1] = r}
Answered(r, how) == answer' = [answer EXCEPT ![r] = IF @ = "none" THEN how ELSE @]

FirstStep(r) ==
    CASE Kind[r] = "send"   -> "ask_claim"
      [] Kind[r] = "resync" -> "ask_resync"
      [] Kind[r] = "ack"    -> "ask_receipt"

Arrive(r) ==
    /\ r \in Local /\ pc[r] = "idle"
    /\ process = "up" /\ routed
    /\ IF listener = "open"
       THEN Goto(r, FirstStep(r)) /\ UNCHANGED answer
       ELSE Goto(r, "done") /\ Answered(r, "refused")
    /\ UNCHANGED <<conns, open, locks, life>>

(* Whether the step that waits for this connection opens a transaction.    *)
OpensTransaction(r) == pc[r] \in {"ask_effect", "ask_resync", "ask_receipt"}

Granted(r) ==
    CASE pc[r] = "ask_claim"   -> "claim"
      [] pc[r] = "ask_fail"    -> "fail"
      [] pc[r] = "ask_receipt" -> "receipt"
      [] pc[r] = "ask_message" -> "message"
      [] OTHER                 -> "first_lock"

PoolHasRoom == InUse < MaxConnections

(* Any of those that wait: pg serves them in order, nothing depends on it. *)
Connect(r) ==
    /\ pc[r] \in Asking /\ shutdown # "ended" /\ PoolHasRoom
    /\ conns' = conns \cup {<<r, Cardinality(ConnsOf(r)) + 1>>}
    /\ open' = IF OpensTransaction(r) THEN open \cup {r} ELSE open
    /\ Goto(r, Granted(r))
    /\ UNCHANGED <<locks, answer, life>>

ReleasedOnError(r) == ConnsOf(r)

(* ROLLBACK, release; a send goes on to mark its operation failed.         *)
Abort(r, how) ==
    /\ conns' = conns \ ReleasedOnError(r)
    /\ open' = open \ {r}
    /\ locks' = [locks EXCEPT ![r] = {}]
    /\ IF Kind[r] = "send" /\ pc[r] \in {"ask_effect", "first_lock", "second_lock", "commit"}
       THEN Goto(r, "ask_fail") ELSE Goto(r, "done")
    /\ Answered(r, how)
    /\ UNCHANGED life

(* Mutant of ConnectTimesOut: connectionTimeoutMillis 0, wait for ever.    *)
ConnectNeverTimesOut == FALSE

ConnectTimesOut == InUse >= MaxConnections

ConnectionRefused(r) ==
    /\ pc[r] \in Asking
    /\ \/ shutdown = "ended" /\ Abort(r, "pool_ended")
       \/ shutdown # "ended" /\ ConnectTimesOut /\ Abort(r, "answered")

(* A statement fails: a lock waited for past statement_timeout, a lost     *)
(* connection, a row that is not there.                                    *)
StatementFails(r) == pc[r] \in Running /\ Abort(r, "answered")

(* claimOperation and what follows up to the answer or the execution.      *)
Claim(r) ==
    /\ pc[r] = "claim"
    /\ conns' = conns \ ConnsOf(r)
    /\ \/ Goto(r, "ask_effect") /\ UNCHANGED answer
       \/ Goto(r, "done") /\ Answered(r, "answered")
    /\ UNCHANGED <<open, locks, life>>

(* Mutant of LockOrder: the resync starts with the counter.                *)
ResyncCounterFirst(r) ==
    IF Kind[r] = "resync" THEN <<Counter, StreamOf[r]>> ELSE <<StreamOf[r], Counter>>

LockOrder(r) == <<StreamOf[r], Counter>>

RowsNeeded(r) ==
    CASE pc[r] = "first_lock"  -> {LockOrder(r)[1]}
      [] pc[r] = "second_lock" -> {LockOrder(r)[2]}
      [] pc[r] = "sweep"       -> Streams \ locks[r]
      [] OTHER                 -> {}

RowFree(row) == \A q \in Requests : row \notin locks[q]

LockRow(r) ==
    \E row \in RowsNeeded(r) :
        /\ RowFree(row)
        /\ locks' = [locks EXCEPT ![r] = locks[r] \cup {row}]

(* With the first row comes the decision whether anything is published.    *)
LockFirst(r) ==
    /\ pc[r] = "first_lock" /\ LockRow(r)
    /\ \E step \in {"second_lock", "commit"} : Goto(r, step)
    /\ UNCHANGED <<conns, open, answer, life>>

LockSecond(r) ==
    /\ pc[r] = "second_lock" /\ LockRow(r)
    /\ Goto(r, "commit")
    /\ UNCHANGED <<conns, open, answer, life>>

End(r) ==
    /\ conns' = conns \ ConnsOf(r)
    /\ open' = open \ {r}
    /\ locks' = [locks EXCEPT ![r] = {}]
    /\ Goto(r, "done")
    /\ Answered(r, "answered")
    /\ UNCHANGED life

(* The COMMIT, the UPDATE of failOperation, or the read of the message.    *)
Complete(r) == pc[r] \in {"commit", "fail", "message"} /\ End(r)

(* Mutant of RolledBack: the message looked up before the ROLLBACK.        *)
RolledBackLater(r) == open

RolledBack(r) == open \ {r}

(* ack: all of its transaction, or, without a receipt, ROLLBACK and a read *)
(* through the pool while the connection is not released yet.              *)
Receipt(r) ==
    /\ pc[r] = "receipt"
    /\ \/ End(r)
       \/ /\ open' = RolledBack(r)
          /\ Goto(r, "ask_message")
          /\ UNCHANGED <<conns, locks, answer, life>>

BeginSweep(r) ==
    /\ Kind[r] = "sweep" /\ pc[r] = "idle"
    /\ open' = open \cup {r}
    /\ Goto(r, "sweep")
    /\ UNCHANGED <<conns, locks, answer, life>>

(* Some of the streams are overdue.                                        *)
SweepLock(r) ==
    /\ pc[r] = "sweep" /\ LockRow(r)
    /\ UNCHANGED <<pc, conns, open, answer, life>>

SweepCommit(r) == pc[r] = "sweep" /\ End(r)

Step(r) ==
    \/ Connect(r) \/ ConnectionRefused(r) \/ StatementFails(r)
    \/ Claim(r) \/ LockFirst(r) \/ LockSecond(r) \/ Complete(r) \/ Receipt(r)
    \/ SweepLock(r) \/ SweepCommit(r)

-----------------------------------------------------------------------------
(* The process *)

IsReady == started /\ ~draining

(* main: listen, then markStarted before any request can be read.          *)
Listen ==
    /\ listener = "none" /\ process = "up"
    /\ listener' = "open" /\ started' = TRUE
    /\ UNCHANGED <<request, draining, shutdown, process, routed, elapsed>>

(* External: the kubelet's probe of /health/ready.                         *)
Route ==
    /\ IsReady /\ ~routed
    /\ routed' = TRUE
    /\ UNCHANGED <<request, started, draining, listener, shutdown, process, elapsed>>

Unroute ==
    /\ ~IsReady /\ routed
    /\ routed' = FALSE
    /\ UNCHANGED <<request, started, draining, listener, shutdown, process, elapsed>>

(* The first signal, which may come before listen has returned; those that *)
(* follow find shuttingDown set.                                           *)
Signal ==
    /\ process = "up" /\ shutdown = "none"
    /\ shutdown' = "delay" /\ draining' = TRUE
    /\ UNCHANGED <<request, started, listener, process, routed, elapsed>>

(* External: time passes; endpoints are up to date after EndpointLag.      *)
Tick ==
    /\ draining /\ process = "up" /\ elapsed < Grace
    /\ elapsed >= EndpointLag => ~routed
    /\ elapsed' = elapsed + 1
    /\ UNCHANGED <<request, started, draining, listener, shutdown, process, routed>>

(* The configured delay is longer than EndpointLag.                        *)
DelayOver == elapsed >= DrainDelay

(* app.close() *)
Close ==
    /\ shutdown = "delay" /\ process = "up" /\ DelayOver
    /\ shutdown' = "closing" /\ listener' = "closed"
    /\ UNCHANGED <<request, started, draining, process, routed, elapsed>>

(* Mutant of ServerClosed: the pool ended in an earlier hook of Nest.      *)
HookRunsFirst == TRUE

ServerClosed == InFlight = {}

(* onApplicationShutdown: pool.end()                                       *)
EndPool ==
    /\ shutdown = "closing" /\ process = "up" /\ ServerClosed
    /\ shutdown' = "ended"
    /\ UNCHANGED <<request, started, draining, listener, process, routed, elapsed>>

(* pool.end() waits for the connections that are out.                      *)
CloseReturned == shutdown = "ended" /\ InUse = 0

Exit ==
    /\ process = "up" /\ CloseReturned
    /\ process' = "exited"
    /\ UNCHANGED <<request, started, draining, listener, shutdown, routed, elapsed>>

(* SIGKILL: PostgreSQL rolls back what it cut.                             *)
Kill ==
    /\ process = "up" /\ elapsed = Grace
    /\ process' = "killed"
    /\ pc' = [r \in Requests |-> IF r \in InFlight THEN "done" ELSE pc[r]]
    /\ conns' = {}
    /\ open' = open \ Local
    /\ locks' = [r \in Requests |-> IF r \in Local THEN {} ELSE locks[r]]
    /\ answer' = [r \in Requests |-> IF r \in InFlight THEN "cut" ELSE answer[r]]
    /\ UNCHANGED <<started, draining, listener, shutdown, routed, elapsed>>

Next ==
    \/ \E r \in Requests : Arrive(r) \/ BeginSweep(r)
    \/ \E r \in Requests : Step(r)
    \/ Listen \/ Route \/ Unroute \/ Signal \/ Tick
    \/ Close \/ EndPool \/ Exit \/ Kill

Spec == Init /\ [][Next]_vars

(* Connections and locks are waited for at most for their timeouts, and    *)
(* timers fire.  Nothing says that a signal arrives, nor that time is up.  *)
FairSpec ==
    /\ Spec
    /\ \A r \in Requests : WF_vars(Step(r))
    /\ WF_vars(Unroute) /\ WF_vars(Tick)
    /\ WF_vars(Close) /\ WF_vars(EndPool) /\ WF_vars(Exit)

-----------------------------------------------------------------------------
WaitsFor(r, q) == r # q /\ RowsNeeded(r) \cap locks[q] # {}

(* send-message.service.ts:331, "always in that order": no set of          *)
(* transactions waits for one another, whichever streams and counters they *)
(* lock and whatever a sweep has locked already.                           *)
TransactionsNeverDeadlock ==
    LET waiting == {r \in Requests : RowsNeeded(r) # {}}
    IN  ~\E S \in SUBSET waiting : S # {} /\ \A r \in S : \E q \in S : WaitsFor(r, q)

(* ack.service.ts:96: who waits for a connection of the pool, for as long  *)
(* as connectionTimeoutMillis, keeps no transaction open and no row locked *)
(* in the meantime; and the only request that waits for a connection while *)
(* it has one is an ack outside the snapshot, so no send or resync can use *)
(* the pool up among themselves.                                           *)
PoolWaitersBlockNobody ==
    LET holders == {c[1] : c \in conns}
    IN  /\ \A r \in Requests : pc[r] \in Asking => r \notin open /\ locks[r] = {}
        /\ InUse = MaxConnections /\ (\A r \in holders : pc[r] \in Asking)
                => \A r \in holders : Kind[r] = "ack"

(* bootstrap.ts:149: while an endpoint list may still name this replica,   *)
(* it listens, so no request is refused because of a deployment.           *)
NobodyRefused == \A r \in Requests : answer[r] # "refused"

(* database.module.ts:32, "without cutting queries under way": no request  *)
(* finds the pool ended, not even for its second or third statement.       *)
NobodyMeetsEndedPool == \A r \in Requests : answer[r] # "pool_ended"

(* bootstrap.ts:178: exit code 0 means that every request that came in has *)
(* its answer and no transaction was left to PostgreSQL to roll back.      *)
ExitIsClean == process = "exited" => InFlight = {} /\ open \cap Local = {}

(* A drain loses nothing: the three together, over every order of signal,  *)
(* probes, arrivals, hooks and answers that end before the grace period.   *)
DrainLosesNothing == NobodyRefused /\ NobodyMeetsEndedPool /\ ExitIsClean

(* database.ts:24, "a bounded timeout, not an endless queue": acks that    *)
(* have used up the pool included, every request ends, and a replica that  *)
(* got SIGTERM does too, by itself or killed.                              *)
EverythingEnds ==
    /\ \A r \in Requests : pc[r] \notin {"idle", "done"} ~> pc[r] = "done"
    /\ draining ~> process # "up"
=============================================================================
