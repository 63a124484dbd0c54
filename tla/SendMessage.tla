----------------------------- MODULE SendMessage -----------------------------
(***************************************************************************)
(* SendMessageService.send: the idempotency protocol (Tx1) around the one  *)
(* transaction that does the whole effect (Tx2).                           *)
(*                                                                         *)
(* A caller is a client that sends one request, with its idempotency key,  *)
(* as often as it likes; each execution runs in some replica.  Nothing is  *)
(* shared by executions but the database: IdempotencyOperations (Ops) and  *)
(* MessageStream (Stream).  Between two of its statements an execution     *)
(* holds only what it read: the attempt it saw, or the one it owns.        *)
(*                                                                         *)
(* Tx2 is one action: it locks the stream first and its last statement,    *)
(* completeOperation, locks the operation until COMMIT.  A fault (a        *)
(* replica dies, a connection breaks) may hit every step.                  *)
(***************************************************************************)
EXTENDS Integers, FiniteSets

CONSTANTS
    Devices, Members, Contents, NoContent, Commands, MaxClientSequence, GapTimeout,
    Keys, NoResponse, MaxAttempt,
    Callers,        \* clients that send, and resend, one request each
    KeyOf,          \* [Callers -> Keys]
    CommandOf       \* [Callers -> Commands]

VARIABLES
    active, stream, nextServer, messages,   \* MessageStream
    operations,                             \* IdempotencyOperations
    pc,             \* where each caller's current request is
    attempt,        \* the attempt it read, or owns
    answers,        \* history: successful answers, [caller, response]
    inserted        \* history: <<key, device, seq>> of each message inserted

streamVars  == <<active, stream, nextServer, messages>>
requestVars == <<pc, attempt>>
historyVars == <<answers, inserted>>
vars == <<streamVars, operations, requestVars, historyVars>>

(* The stored response_body: the message and its visible order then.       *)
Responses == [device : Devices, seq : 1..MaxClientSequence, server : Nat]

Stream == INSTANCE MessageStream
Ops == INSTANCE IdempotencyOperations
        WITH Fingerprints <- Commands, NoFingerprint <- NoResponse

ASSUME SendMessageAssumption ==
    /\ Members \subseteq Devices
    /\ NoContent \notin Contents
    /\ MaxClientSequence \in Nat \ {0}
    /\ GapTimeout \in Nat
    /\ MaxAttempt \in Nat \ {0}
    /\ Commands \subseteq [device : Devices, seq : 1..MaxClientSequence, content : Contents]
    /\ KeyOf \in [Callers -> Keys]
    /\ CommandOf \in [Callers -> Commands]
    /\ NoResponse \notin Commands
    /\ NoResponse \notin Responses

Steps == {"idle", "claim", "find", "retry", "takeover", "effect", "release"}

TypeOK ==
    /\ Stream!TypeOK
    /\ Ops!TypeOK
    /\ pc \in [Callers -> Steps]
    /\ attempt \in [Callers -> 0..MaxAttempt]
    /\ answers \subseteq [caller : Callers, response : Responses]
    /\ inserted \subseteq (Keys \X Devices \X (1..MaxClientSequence))

Init ==
    /\ Stream!Init
    /\ Ops!Init
    /\ pc = [r \in Callers |-> "idle"]
    /\ attempt = [r \in Callers |-> 0]
    /\ answers = {}
    /\ inserted = {}

Operation(r) == operations[KeyOf[r]]

-----------------------------------------------------------------------------
(* The bound: an execution raises the attempt of its key at most once, and *)
(* faults leave room for one more execution.                               *)

Undecided(k) == {r \in Callers : KeyOf[r] = k /\ pc[r] \in {"claim", "find", "retry", "takeover"}}

Room(k) == operations[k].attempt + Cardinality(Undecided(k)) < MaxAttempt

-----------------------------------------------------------------------------
Goto(r, step) == pc' = [pc EXCEPT ![r] = step]

Own(r, a) == Goto(r, "effect") /\ attempt' = [attempt EXCEPT ![r] = a]

Finish(r) == Goto(r, "idle") /\ attempt' = [attempt EXCEPT ![r] = 0]

AnswerWith(r, response) ==
    answers' = answers \cup {[caller |-> r, response |-> response]}

(* A client sends its request, for the first time or again.                *)
Send(r) ==
    /\ pc[r] = "idle"
    /\ Room(KeyOf[r]) \/ Operation(r).status = "completed"
    /\ Goto(r, "claim")
    /\ UNCHANGED <<streamVars, operations, attempt, historyVars>>

(* Tx1: the INSERT that claims the key.                                    *)
Claim(r) ==
    /\ pc[r] = "claim"
    /\ Ops!ClaimOperation(KeyOf[r], CommandOf[r])
    /\ Own(r, 1)
    /\ UNCHANGED <<streamVars, historyVars>>

(* The key has an owner already: resolveExistingOperation will read it.    *)
LoseClaim(r) ==
    /\ pc[r] = "claim"
    /\ Operation(r).status # "none"
    /\ Goto(r, "find")
    /\ UNCHANGED <<streamVars, operations, attempt, historyVars>>

(* Mutant of SameFingerprint: only the key is compared.                    *)
AnyFingerprint(r) == TRUE

SameFingerprint(r) == Operation(r).fingerprint = CommandOf[r]

(* 409: the key was used for another content, whatever came of it, or its  *)
(* owner's lease is alive.                                                 *)
FindConflict(r) ==
    /\ pc[r] = "find"
    /\ \/ ~SameFingerprint(r)
       \/ Operation(r).status = "in_progress" /\ Operation(r).lease = "alive"
    /\ Finish(r)
    /\ UNCHANGED <<streamVars, operations, historyVars>>

(* 200: the stored response.                                               *)
FindReplay(r) ==
    /\ pc[r] = "find"
    /\ SameFingerprint(r)
    /\ Operation(r).status = "completed"
    /\ AnswerWith(r, Operation(r).response)
    /\ Finish(r)
    /\ UNCHANGED <<streamVars, operations, inserted>>

(* A failed operation, or one whose lease is over: try to take it with the *)
(* attempt just read.                                                      *)
FindAvailable(r) ==
    /\ pc[r] = "find"
    /\ SameFingerprint(r)
    /\ \/ Operation(r).status = "failed" /\ Goto(r, "retry")
       \/ /\ Operation(r).status = "in_progress"
          /\ Operation(r).lease # "alive"
          /\ Goto(r, "takeover")
    /\ attempt' = [attempt EXCEPT ![r] = Operation(r).attempt]
    /\ UNCHANGED <<streamVars, operations, historyVars>>

RetryFailed(r) ==
    /\ pc[r] = "retry"
    /\ Ops!RetryFailedOperation(KeyOf[r], attempt[r])
    /\ Own(r, attempt[r] + 1)
    /\ UNCHANGED <<streamVars, historyVars>>

TakeOver(r) ==
    /\ pc[r] = "takeover"
    /\ Ops!TakeOverExpiredLease(KeyOf[r], attempt[r])
    /\ Own(r, attempt[r] + 1)
    /\ UNCHANGED <<streamVars, historyVars>>

(* 409: somebody else moved the operation since it was read.               *)
LoseRace(r) ==
    /\ \/ pc[r] = "retry" /\ ~Ops!CanRetry(KeyOf[r], attempt[r])
       \/ pc[r] = "takeover" /\ ~Ops!CanTakeOver(KeyOf[r], attempt[r])
    /\ Finish(r)
    /\ UNCHANGED <<streamVars, operations, historyVars>>

-----------------------------------------------------------------------------
(* Tx2 *)

(* Mutant of ResponseFor: the counter read after it was advanced.          *)
ResponseForNext(c, server) ==
    [device |-> c.device, seq |-> c.seq, server |-> IF server = 0 THEN 0 ELSE server + 1]

ResponseFor(c, server) == [device |-> c.device, seq |-> c.seq, server |-> server]

(* The insert of r's transaction commits with the completion or not at all. *)
Inserts(r) ==
    LET c == CommandOf[r]
    IN  inserted' = inserted \cup {<<KeyOf[r], c.device, c.seq>>}

Completes(r, server) ==
    Ops!CompleteOperation(KeyOf[r], attempt[r], ResponseFor(CommandOf[r], server))

(* publish(), closed by completeOperation and assertStillOwner.            *)
Effect(r) ==
    LET c == CommandOf[r]
    IN  \/ Stream!PublishAndDrain(c) /\ Completes(r, nextServer) /\ Inserts(r)
        \/ Stream!BufferMessage(c) /\ Completes(r, 0) /\ Inserts(r)
        \/ /\ Stream!Adopts(c)
           /\ Completes(r, messages[c.device][c.seq].server)
           /\ UNCHANGED <<streamVars, inserted>>

(* COMMIT, answered with 201, 202 or 200.                                  *)
Commit(r) ==
    /\ pc[r] = "effect"
    /\ Effect(r)
    /\ AnswerWith(r, operations'[KeyOf[r]].response)
    /\ Finish(r)

(* COMMIT reaches the database and its acknowledgement does not come back. *)
CommitUnacknowledged(r) ==
    /\ pc[r] = "effect"
    /\ Effect(r)
    /\ Goto(r, "release")
    /\ UNCHANGED <<attempt, answers>>

(* publish() throws: a domain error, or the insert of a batch for nobody.  *)
Rejected(c) ==
    /\ ~Stream!Adopts(c)
    /\ \/ ~Stream!Insertable(c)
       \/ c.seq = stream[c.device].next /\ active = {}

(* ROLLBACK: rejected, the lease lost, or a fault of the connection.       *)
Rollback(r) ==
    /\ pc[r] = "effect"
    /\ \/ Rejected(CommandOf[r])
       \/ ~Ops!CanComplete(KeyOf[r], attempt[r])
       \/ Room(KeyOf[r])
    /\ Goto(r, "release")
    /\ UNCHANGED <<streamVars, operations, attempt, historyVars>>

(* failOperation, then the error goes to the client.  The statement may    *)
(* touch no row, or fail itself: its error is swallowed.                   *)
Release(r) ==
    /\ pc[r] = "release"
    /\ Ops!FailOperation(KeyOf[r], attempt[r]) \/ UNCHANGED operations
    /\ Finish(r)
    /\ UNCHANGED <<streamVars, historyVars>>

(* The replica dies, or is drained, with the request in it.                *)
Crash(r) ==
    /\ pc[r] # "idle"
    /\ Room(KeyOf[r])
    /\ Finish(r)
    /\ UNCHANGED <<streamVars, operations, historyVars>>

-----------------------------------------------------------------------------
LeaseExpires(k) ==
    /\ Ops!LeaseExpires(k)
    /\ UNCHANGED <<streamVars, requestVars, historyVars>>

(* The rest of the system works on the same streams meanwhile.             *)
OthersMoveStream ==
    /\ \/ \E d \in Devices, from \in 1..MaxClientSequence : Stream!Resync(d, from)
       \/ Stream!ExpireOverdueGaps
       \/ Stream!Tick
    /\ UNCHANGED <<operations, requestVars, historyVars>>

Execute(r) ==
    \/ Claim(r) \/ LoseClaim(r)
    \/ FindConflict(r) \/ FindReplay(r) \/ FindAvailable(r)
    \/ RetryFailed(r) \/ TakeOver(r) \/ LoseRace(r)
    \/ Commit(r) \/ CommitUnacknowledged(r) \/ Rollback(r) \/ Release(r)

Next ==
    \/ \E r \in Callers : Send(r) \/ Execute(r) \/ Crash(r)
    \/ \E k \in Keys : LeaseExpires(k)
    \/ OthersMoveStream

Spec == Init /\ [][Next]_vars

(* Replicas run what they started, time ends leases, and clients resend    *)
(* until they are answered (the contract of every 409 with Retry-After).   *)
(* Strong for Send: only the bound Room withholds it, now and then.        *)
FairSpec ==
    /\ Spec
    /\ \A r \in Callers : WF_vars(Execute(r)) /\ SF_vars(Send(r))
    /\ \A k \in Keys : WF_vars(LeaseExpires(k))

-----------------------------------------------------------------------------
(* Safety *)

(* The fence: among the executions that believe to own a key, at most one  *)
(* carries the operation's current attempt, so at most one can complete it *)
(* or fail it.  Every claim, retry and takeover races with every other.    *)
OneOwner ==
    \A r, s \in Callers :
        /\ KeyOf[r] = KeyOf[s]
        /\ pc[r] \in {"effect", "release"} /\ pc[s] \in {"effect", "release"}
        /\ attempt[r] = attempt[s]
        => r = s

(* I1 and I11, all or nothing: a message exists for a key only together    *)
(* with the completed operation that names it, whatever died in between.   *)
EffectOnlyIfCompleted ==
    \A e \in inserted :
        LET op == operations[e[1]]
        IN  /\ op.status = "completed"
            /\ op.response.device = e[2] /\ op.response.seq = e[3]
            /\ messages[e[2]][e[3]].content = op.fingerprint.content

(* I3, what a client was told stays true: the message of every successful  *)
(* answer exists, with the content that caller sent, and where it was      *)
(* told to be visible it is.                                               *)
AnswersAreDurable ==
    \A a \in answers :
        LET row == messages[a.response.device][a.response.seq]
        IN  /\ row.content = CommandOf[a.caller].content
            /\ a.response.server # 0 => row.server = a.response.server

(* What clients were told of the visible order, by whatever key, replica   *)
(* and resend, is one order: two answers give one server sequence exactly  *)
(* if they are about one message, and of two messages of a device the one  *)
(* it numbered lower comes first.                                          *)
AnswersAgreeOnOrder ==
    \A a, b \in answers :
        LET x == a.response
            y == b.response
        IN  x.server # 0 /\ y.server # 0 =>
                /\ x.server = y.server <=> x.device = y.device /\ x.seq = y.seq
                /\ x.device = y.device /\ x.seq < y.seq => x.server < y.server

Named(k, d, n) ==
    /\ operations[k].status = "completed"
    /\ operations[k].response.device = d /\ operations[k].response.seq = n

(* ALCANCE S3, the scenario of the two keys: when two completed operations *)
(* name one message (what the audit of I1 takes for a violation) they were *)
(* asked for the same content, and one key inserted the message while the  *)
(* others adopted it, whoever of them was first and wherever it waited.    *)
SharedMessageIsAdopted ==
    \A d \in Devices, n \in 1..MaxClientSequence :
        LET keys == {k \in Keys : Named(k, d, n)}
        IN  keys # {} =>
            /\ Cardinality({operations[k].fingerprint : k \in keys}) = 1
            /\ Cardinality({e \in inserted : e[2] = d /\ e[3] = n}) = 1
            /\ \A e \in inserted : e[2] = d /\ e[3] = n => e[1] \in keys

-----------------------------------------------------------------------------
(* Refinement *)

Once == INSTANCE SendOnce
        WITH effect <- [k \in Keys |-> operations[k].response],
             intent <- [k \in Keys |-> operations[k].fingerprint]

(* Callers see at most one effect per key, and one response.               *)
ImplementsSendOnce == Once!Spec

-----------------------------------------------------------------------------
(* Liveness *)

ReplicasKeepDying == []<><<\E r \in Callers : Crash(r)>>_vars

(* Clients that keep resending are answered with success in the end.       *)
EveryKeyCompletes ==
    \/ ReplicasKeepDying
    \/ \A k \in Keys : <>(operations[k].status = "completed")
=============================================================================
