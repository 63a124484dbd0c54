---------------------------- MODULE LabDatabase ----------------------------
(***************************************************************************)
(* What rewrites the tables under the traffic: the lab reset of the panel  *)
(* (LabService.reset, a TRUNCATE), the seed (seedFixtures) and its --fresh *)
(* form, which first deletes the traffic of its conversations              *)
(* (resetTraffic).  Sends are here statement by statement, with the locks  *)
(* PostgreSQL takes: of a table, shared by statements and exclusive for    *)
(* TRUNCATE, and of the rows of a stream and of a counter.                 *)
(*                                                                         *)
(* A conversation has one device, and each of its positions one message    *)
(* with one key; sends come in any order.  A statement sees what is        *)
(* committed when it starts; a transaction applies what it collected at    *)
(* COMMIT.  The expiry of gaps and the resync are MessageStream's.         *)
(***************************************************************************)
EXTENDS Integers, FiniteSets

CONSTANTS
    Clients, Seeders, Resetter,
    Seeded,         \* conversations of the seed's plan: deterministic ids
    Made,           \* conversations a lab reset makes: random ids
    MaxPosition,
    MaxSends, MaxSeeds      \* bounds: [Clients -> Nat], and for each seeder

Conversations == Seeded \cup Made
Positions == 1..MaxPosition
Actors == Clients \cup Seeders \cup {Resetter}

(* Three different programs; a load that names a position, and a plan or a *)
(* lab to send to.                                                         *)
ASSUME LabAssumption ==
    /\ Clients \cap Seeders = {} /\ Resetter \notin Clients \cup Seeders
    /\ Conversations # {} /\ IsFiniteSet(Made)
    /\ MaxPosition \in Nat \ {0}
    /\ MaxSends \in [Clients -> Nat] /\ MaxSeeds \in Nat

(* In the order the TRUNCATE names them; deliveries stands for receipts,   *)
(* envelopes and batches, population for members, devices, conversations.  *)
TableOrder == <<"deliveries", "messages", "operations", "streams", "counters", "population">>
Tables == {TableOrder[i] : i \in DOMAIN TableOrder}

VARIABLES
    population,     \* conversations with their devices and members
    counter,        \* [Conversations -> next_server_sequence, 0 without row]
    next,           \* [Conversations -> next_client_sequence, 0 without row]
    messages,       \* set of [conv, pos, server], server 0 while buffered
    deliveries,     \* set of [conv, pos]
    operations,     \* [Keys -> status], a key for each position
    lease,          \* [Keys -> whose claim is the id and attempt of the row]
    held,           \* [Actors -> tables it has locked]
    rowLocks,       \* [Actors -> rows it has locked]
    pc,
    input,          \* [Actors -> the conversation and position being sent]
    deleted,        \* [Seeders -> what its open resetTraffic has deleted]
    budget,         \* [Actors -> requests left]
    quiet,          \* history: [Seeders -> no send touched its plan since it began]
    overlapped      \* history: the last deletion of traffic was not quiet

rows == <<population, counter, next, messages, deliveries, operations, lease>>
locks == <<held, rowLocks>>
history == <<quiet, overlapped>>
vars == <<rows, locks, pc, input, deleted, budget, history>>

NoInput == [conv |-> CHOOSE c \in Conversations : TRUE, pos |-> 1]
NothingDeleted == [deliveries |-> {}, messages |-> {}, streams |-> {}, operations |-> {}]

Sends == [conv : Conversations, pos : Positions]
Messages == [conv : Conversations, pos : Positions, server : Nat]
Keys == Conversations \X Positions
Statuses == {"none", "in_progress", "failed", "completed"}
LockableRows == {"streams", "counters"} \X Conversations
Steps == {"idle", "claim", "find", "reclaim", "stream", "pointer", "counter", "insert",
          "adopt", "buffer", "publish", "release", "truncate", "conversations", "counters",
          "delete_deliveries", "delete_messages", "delete_streams", "delete_operations", "reset_counters", "commit_traffic"}

(* Types, and no connection goes back to the pool with a transaction open: *)
(* whoever is idle holds no lock.                                          *)
TypeOK ==
    /\ population \subseteq Conversations
    /\ counter \in [Conversations -> Nat]
    /\ next \in [Conversations -> 0..(MaxPosition + 1)]
    /\ messages \subseteq Messages /\ deliveries \subseteq Sends
    /\ operations \in [Keys -> Statuses] /\ lease \in [Keys -> SUBSET Clients]
    /\ held \in [Actors -> SUBSET Tables]
    /\ rowLocks \in [Actors -> SUBSET LockableRows]
    /\ pc \in [Actors -> Steps]
    /\ input \in [Clients -> Sends]
    /\ budget \in [Actors -> Nat]
    /\ quiet \in [Seeders -> BOOLEAN]
    /\ overlapped \in BOOLEAN
    /\ \A a \in Actors : pc[a] = "idle" => held[a] = {} /\ rowLocks[a] = {}

Init ==
    /\ population \in {{}, Seeded}
    /\ counter = [c \in Conversations |-> IF c \in population THEN 1 ELSE 0]
    /\ next = [c \in Conversations |-> 0]
    /\ messages = {} /\ deliveries = {}
    /\ operations = [k \in Keys |-> "none"] /\ lease = [k \in Keys |-> {}]
    /\ held = [a \in Actors |-> {}]
    /\ rowLocks = [a \in Actors |-> {}]
    /\ pc = [a \in Actors |-> "idle"]
    /\ input = [a \in Clients |-> NoInput]
    /\ deleted = [s \in Seeders |-> NothingDeleted]
    /\ budget = [a \in Actors |-> IF a \in Clients THEN MaxSends[a]
                                  ELSE IF a \in Seeders THEN MaxSeeds ELSE Cardinality(Made)]
    /\ quiet = [s \in Seeders |-> TRUE]
    /\ overlapped = FALSE

-----------------------------------------------------------------------------
(* Locks *)

Goto(a, step) == pc' = [pc EXCEPT ![a] = step]

(* TRUNCATE excludes everybody; the others exclude only TRUNCATE.          *)
TableFree(a, t) ==
    \A b \in Actors \ {a} : Resetter \in {a, b} => t \notin held[b]

TakeTables(a, ts) == held' = [held EXCEPT ![a] = held[a] \cup ts]

CanTakeTables(a, ts) == \A t \in ts : TableFree(a, t)

CanTakeRows(a, rs) == \A b \in Actors \ {a} : rowLocks[b] \cap rs = {}

TakeRows(a, rs) == rowLocks' = [rowLocks EXCEPT ![a] = rowLocks[a] \cup rs]

ReleaseLocks(a) ==
    /\ held' = [held EXCEPT ![a] = {}]
    /\ rowLocks' = [rowLocks EXCEPT ![a] = {}]

Finish(r) == Goto(r, "idle") /\ input' = [input EXCEPT ![r] = NoInput]

Begin(a, step) ==
    /\ pc[a] = "idle" /\ budget[a] > 0
    /\ budget' = [budget EXCEPT ![a] = budget[a] - 1]
    /\ Goto(a, step)

-----------------------------------------------------------------------------
(* send *)

Key(r) == <<input[r].conv, input[r].pos>>
Status(r) == operations[Key(r)]

SetOperation(r, status, owners) ==
    /\ operations' = [operations EXCEPT ![Key(r)] = status]
    /\ lease' = [lease EXCEPT ![Key(r)] = owners]

Acquire(r) == SetOperation(r, "in_progress", {r}) /\ Goto(r, "stream")

(* The row has the id and the attempt that this request claimed: nobody    *)
(* has taken it over, or deleted it and claimed the key again.             *)
Owns(r) == Status(r) = "in_progress" /\ r \in lease[Key(r)]

Send(r) ==
    \E send \in Sends :
        /\ Begin(r, "claim")
        /\ input' = [input EXCEPT ![r] = send]
        /\ quiet' = [s \in Seeders |-> quiet[s] /\ send.conv \notin Seeded]
        /\ UNCHANGED <<rows, locks, deleted, overlapped>>

(* A row that an open transaction has deleted makes a writer wait.         *)
NobodyDeletesKey(r) == \A s \in Seeders : Key(r) \notin deleted[s].operations

(* claimOperation: one INSERT, which commits alone.                        *)
ClaimKey(r, step, otherwise) ==
    /\ pc[r] = step
    /\ CanTakeTables(r, {"operations"}) /\ NobodyDeletesKey(r)
    /\ IF Status(r) = "none" THEN Acquire(r) /\ UNCHANGED input
                             ELSE otherwise /\ UNCHANGED <<operations, lease>>
    /\ UNCHANGED <<population, counter, next, messages, deliveries, locks, deleted, budget, history>>

Claim(r) == ClaimKey(r, "claim", Goto(r, "find") /\ UNCHANGED input)

(* resolveExistingOperation: the row may be gone since the claim failed,   *)
(* and the key is claimed once more.  A failed row, and one whose lease is *)
(* over, change hands by a conditional UPDATE.  A completed row is         *)
(* repeated; a lease that is alive, or a row that changed between the      *)
(* SELECT and the UPDATE, is the 409.                                      *)
Find(r) ==
    /\ pc[r] = "find"
    /\ CanTakeTables(r, {"operations"})
    /\ \/ /\ Status(r) = "none"
          /\ Goto(r, "reclaim")
          /\ UNCHANGED <<operations, lease, input>>
       \/ /\ Status(r) \in {"failed", "in_progress"} /\ NobodyDeletesKey(r)
          /\ Acquire(r)
          /\ UNCHANGED input
       \/ /\ Status(r) # "none"
          /\ Finish(r)
          /\ UNCHANGED <<operations, lease>>
    /\ UNCHANGED <<population, counter, next, messages, deliveries, locks, deleted, budget, history>>

(* claimOrFail.                                                            *)
Reclaim(r) == ClaimKey(r, "reclaim", Finish(r))

StreamTables == {"streams", "population"}

Expected(c) == IF next[c] = 0 THEN 1 ELSE next[c]

Fail(r) == ReleaseLocks(r) /\ Goto(r, "release")

(* The stream is this transaction's.  Only a publication goes on to lock   *)
(* the counter.                                                            *)
HoldStream(r) ==
    /\ TakeRows(r, {<<"streams", input[r].conv>>})
    /\ Goto(r, IF input[r].pos = Expected(input[r].conv) THEN "counter" ELSE "insert")

(* lockStream, the INSERT: without the member row it violates the foreign  *)
(* key; a row that is being inserted or deleted makes it wait.             *)
InsertStream(r) ==
    LET c == input[r].conv
        row == {<<"streams", c>>}
    IN  /\ pc[r] = "stream"
        /\ CanTakeTables(r, StreamTables)
        /\ \A s \in Seeders : rowLocks[s] \cap row = {}
        /\ \/ c \notin population /\ Fail(r)
           \/ /\ c \in population /\ next[c] = 0
              /\ CanTakeRows(r, row)
              /\ TakeTables(r, StreamTables) /\ HoldStream(r)
           \/ /\ c \in population /\ next[c] # 0
              /\ TakeTables(r, StreamTables) /\ Goto(r, "pointer")
              /\ UNCHANGED rowLocks
        /\ UNCHANGED <<rows, input, deleted, budget, history>>

(* lockStream, the SELECT FOR UPDATE: a row deleted since is a 404.        *)
LockStream(r) ==
    LET c == input[r].conv
    IN  /\ pc[r] = "pointer"
        /\ \/ next[c] = 0 /\ Fail(r)
           \/ /\ next[c] # 0 /\ CanTakeRows(r, {<<"streams", c>>})
              /\ HoldStream(r)
              /\ UNCHANGED held
        /\ UNCHANGED <<rows, input, deleted, budget, history>>

LockCounter(r) ==
    LET row == {<<"counters", input[r].conv>>}
    IN  /\ pc[r] = "counter"
        /\ CanTakeTables(r, {"counters"}) /\ CanTakeRows(r, row)
        /\ TakeTables(r, {"counters"}) /\ TakeRows(r, row)
        /\ Goto(r, "insert")
        /\ UNCHANGED <<rows, input, deleted, budget, history>>

At(set, c, p) == {m \in set : m.conv = c /\ m.pos = p}

Taken(r) == At(messages, input[r].conv, input[r].pos) # {}

(* Nobody else has the numbers: messages_server_order_unique.              *)
NumbersFree(c, n) == \A m \in messages : m.conv = c => m.server \notin counter[c]..(counter[c] + n)

(* An INSERT waits while a message in its place is being deleted; the      *)
(* SELECT of a position already passed does not.                           *)
MustWait(r) ==
    LET c == input[r].conv
    IN  /\ input[r].pos >= Expected(c)
        /\ \E s \in Seeders : At(deleted[s].messages, c, input[r].pos) # {}

(* Where publish goes: to adopt what has the position, to buffer what came *)
(* ahead, or to publish with the number of the counter.                    *)
Outcome(r) ==
    LET ahead == input[r].pos > Expected(input[r].conv)
        expected == input[r].pos = Expected(input[r].conv)
    IN  CASE Taken(r) -> "adopt"
          [] ~Taken(r) /\ ahead -> "buffer"
          [] ~Taken(r) /\ expected /\ NumbersFree(input[r].conv, 0) -> "publish"
          [] OTHER -> "release"

Insert(r) ==
    /\ pc[r] = "insert"
    /\ CanTakeTables(r, {"messages"})
    /\ ~MustWait(r)
    /\ IF Outcome(r) = "release"
       THEN Fail(r)
       ELSE TakeTables(r, {"messages"}) /\ Goto(r, Outcome(r)) /\ UNCHANGED rowLocks
    /\ UNCHANGED <<rows, input, deleted, budget, history>>

(* What is left of the transaction, with completeOperation and COMMIT.  An *)
(* operation that is another's by now, or gone, completes nothing: the     *)
(* lease is lost, and RollBack is all that is left.                        *)
Complete(r, step) ==
    /\ pc[r] = step
    /\ CanTakeTables(r, {"deliveries", "operations"}) /\ NobodyDeletesKey(r)
    /\ Owns(r)
    /\ SetOperation(r, "completed", {})
    /\ ReleaseLocks(r)
    /\ Finish(r)
    /\ UNCHANGED <<population, deleted, budget, history>>

(* lockStream inserted the row of a new stream, and adoption leaves it so. *)
Adopt(r) ==
    /\ Taken(r)
    /\ next' = [next EXCEPT ![input[r].conv] = Expected(input[r].conv)]
    /\ UNCHANGED <<counter, messages, deliveries>>
    /\ Complete(r, "adopt")

Buffer(r) ==
    /\ messages' = messages \cup {[conv |-> input[r].conv, pos |-> input[r].pos, server |-> 0]}
    /\ next' = [next EXCEPT ![input[r].conv] = Expected(input[r].conv)]
    /\ UNCHANGED <<counter, deliveries>>
    /\ Complete(r, "buffer")

Waiting(c, p) == \E m \in At(messages, c, p) : m.server = 0

(* The cascade takes the positions p+1..last: it ends at the first that    *)
(* nobody waits at.                                                        *)
CascadeEnds(c, p, last) ==
    /\ \A q \in (p + 1)..last : Waiting(c, q)
    /\ ~Waiting(c, last + 1)

(* The UPDATE of a buffered message waits while it is being deleted.       *)
NobodyDeletesMessages(c, from, to) ==
    \A s \in Seeders : \A m \in deleted[s].messages : m.conv = c => m.pos \notin from..to

Publish(r) ==
    LET c == input[r].conv
        p == input[r].pos
    IN  \E last \in p..MaxPosition :
            /\ CascadeEnds(c, p, last)
            /\ NobodyDeletesMessages(c, p, last)
            /\ NumbersFree(c, last - p)
            /\ messages' = {m \in messages : m.conv = c => m.pos \notin p..last}
                              \cup {[conv |-> c, pos |-> q, server |-> counter[c] + (q - p)] :
                                       q \in p..last}
            /\ deliveries' = deliveries \cup {[conv |-> c, pos |-> q] : q \in p..last}
            /\ counter' = [counter EXCEPT ![c] = counter[c] + (last - p) + 1]
            /\ next' = [next EXCEPT ![c] = last + 1]
            /\ Complete(r, "publish")

Effect == {"stream", "pointer", "counter", "insert", "adopt", "buffer", "publish"}

(* failOperation, with the id and the attempt of the claim.                *)
Release(r) ==
    /\ pc[r] = "release"
    /\ CanTakeTables(r, {"operations"}) /\ NobodyDeletesKey(r)
    /\ IF Owns(r) THEN SetOperation(r, "failed", {}) ELSE UNCHANGED <<operations, lease>>
    /\ Finish(r)
    /\ UNCHANGED <<population, counter, next, messages, deliveries, locks, deleted, budget, history>>

(* The replica dies, or a statement that runs alone is cancelled.          *)
Abandon(r) ==
    /\ pc[r] # "idle"
    /\ ReleaseLocks(r)
    /\ Finish(r)
    /\ UNCHANGED <<rows, deleted, budget, history>>

-----------------------------------------------------------------------------
(* LabService.reset *)

BeginReset ==
    /\ Begin(Resetter, "truncate")
    /\ UNCHANGED <<rows, locks, input, deleted, history>>

LockedByReset == Cardinality(held[Resetter])

LockTable ==
    LET t == TableOrder[LockedByReset + 1]
    IN  /\ pc[Resetter] = "truncate"
        /\ LockedByReset < Cardinality(Tables)
        /\ TableFree(Resetter, t)
        /\ TakeTables(Resetter, {t})
        /\ UNCHANGED <<rows, rowLocks, pc, input, deleted, budget, history>>

(* Mutant of TruncatedOperations: the table is not in the TRUNCATE's list, *)
(* and no foreign key makes CASCADE reach it.                              *)
OperationsKept == operations

TruncatedOperations == [k \in Keys |-> "none"]

(* The TRUNCATE has every lock; the inserts of one new conversation and    *)
(* its devices, and COMMIT.                                                *)
CommitReset ==
    /\ pc[Resetter] = "truncate"
    /\ LockedByReset = Cardinality(Tables)
    /\ \E c \in Made :
        /\ c \notin population
        /\ population' = {c}
        /\ counter' = [d \in Conversations |-> IF d = c THEN 1 ELSE 0]
    /\ next' = [c \in Conversations |-> 0]
    /\ messages' = {} /\ deliveries' = {}
    /\ operations' = TruncatedOperations /\ lease' = [k \in Keys |-> {}]
    /\ ReleaseLocks(Resetter)
    /\ Goto(Resetter, "idle")
    /\ overlapped' = FALSE
    /\ UNCHANGED <<input, deleted, budget, quiet>>

-----------------------------------------------------------------------------
(* seed.ts, with and without --fresh *)

BeginSeed(s) ==
    /\ \/ Begin(s, "conversations")
       \/ Begin(s, "delete_deliveries")
    /\ quiet' = [quiet EXCEPT ![s] = \A r \in Clients : pc[r] = "idle" \/ input[r].conv \notin Seeded]
    /\ UNCHANGED <<rows, locks, input, deleted, overlapped>>

OfPlan(set) == {m \in set : m.conv \in Seeded}

Collect(s, field, what) == deleted' = [deleted EXCEPT ![s][field] = what]

(* The other seeder's deletions of the same rows make a statement wait.    *)
NobodyElseDeletes(s) == \A t \in Seeders \ {s} : deleted[t] = NothingDeleted

DeleteDeliveries(s) ==
    /\ pc[s] = "delete_deliveries"
    /\ NobodyElseDeletes(s)
    /\ CanTakeTables(s, {"deliveries", "messages"})
    /\ TakeTables(s, {"deliveries", "messages"})
    /\ Collect(s, "deliveries", OfPlan(deliveries))
    /\ Goto(s, "delete_messages")
    /\ UNCHANGED <<rows, rowLocks, input, budget, history>>

(* Mutant of StillReferenced: delivery_batches has no foreign key.         *)
NeverReferenced(s) == FALSE

(* A message delivered since the statement before is still referenced.     *)
StillReferenced(s) ==
    \E d \in deliveries \ deleted[s].deliveries : d.conv \in Seeded

DeleteMessages(s) ==
    /\ pc[s] = "delete_messages"
    /\ NobodyElseDeletes(s)
    /\ IF StillReferenced(s)
       THEN /\ ReleaseLocks(s) /\ Goto(s, "idle")
            /\ deleted' = [deleted EXCEPT ![s] = NothingDeleted]
       ELSE /\ Collect(s, "messages", OfPlan(messages))
            /\ Goto(s, "delete_streams")
            /\ UNCHANGED locks
    /\ UNCHANGED <<rows, input, budget, history>>

(* Only a committed row is there to delete, and to wait for.               *)
DeleteStreams(s) ==
    LET streams == {c \in Seeded : next[c] # 0}
        rs == {"streams"} \X streams
    IN  /\ pc[s] = "delete_streams"
        /\ CanTakeTables(s, {"streams"}) /\ CanTakeRows(s, rs)
        /\ TakeTables(s, {"streams"}) /\ TakeRows(s, rs)
        /\ Collect(s, "streams", streams)
        /\ Goto(s, "delete_operations")
        /\ UNCHANGED <<rows, input, budget, history>>

(* Mutant of DeletedOperations: the keys are kept, "they do no harm".      *)
NoOperations(s) == {}

DeletedOperations(s) == {k \in Seeded \X Positions : operations[k] # "none"}

DeleteOperations(s) ==
    /\ pc[s] = "delete_operations"
    /\ NobodyElseDeletes(s)
    /\ CanTakeTables(s, {"operations"})
    /\ TakeTables(s, {"operations"})
    /\ Collect(s, "operations", DeletedOperations(s))
    /\ Goto(s, "reset_counters")
    /\ UNCHANGED <<rows, rowLocks, input, budget, history>>

LockCounters(s) ==
    LET rs == {"counters"} \X {c \in Seeded : counter[c] # 0}
    IN  /\ pc[s] = "reset_counters"
        /\ CanTakeTables(s, {"counters"}) /\ CanTakeRows(s, rs)
        /\ TakeTables(s, {"counters"}) /\ TakeRows(s, rs)
        /\ Goto(s, "commit_traffic")
        /\ UNCHANGED <<rows, input, deleted, budget, history>>

(* Mutant of KeptMessages: the DELETE of the messages left out.            *)
AllMessages(s) == messages

KeptMessages(s) == messages \ deleted[s].messages

CommitTraffic(s) ==
    /\ pc[s] = "commit_traffic"
    /\ deliveries' = deliveries \ deleted[s].deliveries
    /\ messages' = KeptMessages(s)
    /\ next' = [c \in Conversations |-> IF c \in deleted[s].streams THEN 0 ELSE next[c]]
    /\ operations' = [k \in Keys |->
                        IF k \in deleted[s].operations THEN "none" ELSE operations[k]]
    /\ lease' = [k \in Keys |-> IF k \in deleted[s].operations THEN {} ELSE lease[k]]
    /\ counter' = [c \in Conversations |->
                        IF c \in Seeded /\ counter[c] # 0 THEN 1 ELSE counter[c]]
    /\ deleted' = [deleted EXCEPT ![s] = NothingDeleted]
    /\ ReleaseLocks(s)
    /\ Goto(s, "conversations")
    /\ overlapped' = ~quiet[s]
    /\ UNCHANGED <<population, input, budget, quiet>>

(* seedFixtures locks the tables in the order of its inserts.              *)
SeedConversations(s) ==
    /\ pc[s] = "conversations"
    /\ CanTakeTables(s, {"population"})
    /\ TakeTables(s, {"population"})
    /\ Goto(s, "counters")
    /\ UNCHANGED <<rows, rowLocks, input, deleted, budget, history>>

SeededPopulation == population \cup Seeded

SeededCounters == [c \in Conversations |-> IF c \in Seeded /\ counter[c] = 0 THEN 1 ELSE counter[c]]

CommitSeed(s) ==
    /\ pc[s] = "counters"
    /\ CanTakeTables(s, {"counters"})
    /\ population' = SeededPopulation
    /\ counter' = SeededCounters
    /\ ReleaseLocks(s)
    /\ Goto(s, "idle")
    /\ UNCHANGED <<next, messages, deliveries, operations, lease, input, deleted, budget, history>>

-----------------------------------------------------------------------------
(* An open transaction may fail at any statement: an error, a deadlock     *)
(* that PostgreSQL breaks, a wait that statement_timeout ends.             *)
RollBack(a) ==
    /\ pc[a] \in IF a \in Clients THEN Effect ELSE Steps \ {"idle"}
    /\ ReleaseLocks(a)
    /\ Goto(a, IF a \in Clients THEN "release" ELSE "idle")
    /\ deleted' = IF a \in Seeders THEN [deleted EXCEPT ![a] = NothingDeleted] ELSE deleted
    /\ UNCHANGED <<rows, input, budget, history>>

ClientStep(r) ==
    \/ Send(r) \/ Claim(r) \/ Find(r) \/ Reclaim(r)
    \/ InsertStream(r) \/ LockStream(r) \/ LockCounter(r) \/ Insert(r)
    \/ Adopt(r) \/ Buffer(r) \/ Publish(r)
    \/ Release(r) \/ Abandon(r)

SeederStep(s) ==
    \/ BeginSeed(s) \/ SeedConversations(s) \/ CommitSeed(s)
    \/ DeleteDeliveries(s) \/ DeleteMessages(s) \/ DeleteStreams(s)
    \/ DeleteOperations(s) \/ LockCounters(s) \/ CommitTraffic(s)

Next ==
    \/ \E r \in Clients : ClientStep(r)
    \/ \E s \in Seeders : SeederStep(s)
    \/ BeginReset \/ LockTable \/ CommitReset
    \/ \E a \in Actors : RollBack(a)

Spec == Init /\ [][Next]_vars

-----------------------------------------------------------------------------
(* seed.repository.ts:185: no conversation without its counter, or with a  *)
(* counter and nothing else, whoever seeds and truncates at once.          *)
PopulationIsWhole == \A c \in Conversations : c \in population <=> counter[c] > 0

(* lab.service.ts:75: the truncation leaves a whole population or none,    *)
(* and a request that was under way meanwhile leaves no message, stream or *)
(* delivery of a conversation that is gone; nor does a --fresh leave a     *)
(* delivery without its published message.                                 *)
NothingOutlivesReset ==
    /\ PopulationIsWhole
    /\ \A c \in Conversations : next[c] # 0 => c \in population
    /\ \A m \in messages : m.conv \in population
    /\ \A d \in deliveries : \E m \in At(messages, d.conv, d.pos) : m.server > 0

(* A published message is behind its stream and its counter; a buffered    *)
(* one is ahead of its stream, with a gap before it.                       *)
Agrees(m) ==
    IF m.server > 0 THEN m.server < counter[m.conv] /\ m.pos < next[m.conv]
                    ELSE next[m.conv] > 0 /\ m.pos > next[m.conv]

(* seed.repository.ts:164: with counter and stream back at the start no    *)
(* message may be left: a number would make later publications fail, a     *)
(* position would be adopted, a buffered message would wait for nothing.   *)
(* One is left only when a send to the plan overlapped the last --fresh,   *)
(* and no lab reset came after it.                                         *)
OnlyOverlapPoisons == ~overlapped => \A m \in messages : Agrees(m)

(* send-message.service.ts:202 repeats a completed answer for as long as   *)
(* the row is there: whatever a --fresh and a lab reset delete, and in     *)
(* whatever order the statements of sends fall between theirs, the message *)
(* that the answer names is there too.                                     *)
AnsweredIsThere ==
    \A k \in Keys : operations[k] = "completed" => At(messages, k[1], k[2]) # {}

(* seed.repository.ts:122 and 159, "streams virgenes": once --fresh has    *)
(* deleted the traffic and no send was under way, nothing of it is left,   *)
(* so no key of the next load run is answered with a replay.               *)
FreshIsFresh ==
    [][\A s \in Seeders :
        pc[s] = "commit_traffic" /\ pc'[s] = "conversations" /\ quiet[s] =>
            /\ OfPlan(messages') = {} /\ OfPlan(deliveries') = {}
            /\ \A c \in Seeded : next'[c] = 0 /\ counter'[c] \in {0, 1}
            /\ \A k \in Seeded \X Positions : operations'[k] = "none"]_vars
=============================================================================
