------------------------- MODULE LabDatabaseProofs -------------------------
(***************************************************************************)
(* Proofs about LabDatabase: what a TRUNCATE, a --fresh and a send leave   *)
(* behind when their statements interleave, for any number of clients,     *)
(* seeders, conversations and positions.                                   *)
(*                                                                         *)
(* The argument is of locks.  A client between its stream and its COMMIT   *)
(* and a seeder between its first DELETE and its COMMIT hold tables that   *)
(* the TRUNCATE needs, so the reset commits with nobody half way; a stream *)
(* belongs to whoever holds its row; and what a seeder has collected to    *)
(* delete stays there, whole, until it commits.                            *)
(***************************************************************************)
EXTENDS LabDatabase, FiniteSetTheorems, TLAPS

-----------------------------------------------------------------------------
(* The inductive invariant *)

Deletions ==
    [deliveries : SUBSET Sends, messages : SUBSET Messages,
     streams : SUBSET Conversations, operations : SUBSET Keys]

LabTypes == TypeOK /\ deleted \in [Seeders -> Deletions]

(* The steps of an open transaction that has rows to lose, and of a send   *)
(* those where the stream is its own.                                      *)
Owning == {"counter", "insert", "adopt", "buffer", "publish"}
Sending == {"pointer"} \cup Owning
Deleting == {"delete_messages", "delete_streams", "delete_operations",
             "reset_counters", "commit_traffic"}

(* TRUNCATE shares no table with anybody, and nobody shares a row.         *)
ResetIsAlone == \A a \in Actors \ {Resetter} : held[a] \cap held[Resetter] = {}

RowsAreAlone == \A a, b \in Actors : a # b => rowLocks[a] \cap rowLocks[b] = {}

(* A send past its stream holds the member row that it read and the stream *)
(* that it locked, and before and after that nothing.                      *)
SendersHold ==
    \A r \in Clients :
        /\ pc[r] \in Sending => StreamTables \subseteq held[r] /\ input[r].conv \in population
        /\ pc[r] \in Owning => <<"streams", input[r].conv>> \in rowLocks[r]
        /\ pc[r] \notin Sending => held[r] = {} /\ rowLocks[r] = {}

(* A seeder holds what it deletes, and deletes only what is of its plan.   *)
DeletersHold ==
    \A s \in Seeders :
        /\ pc[s] \in Deleting => {"deliveries", "messages"} \subseteq held[s]
        /\ pc[s] \notin Deleting => deleted[s] = NothingDeleted
        /\ \A c \in deleted[s].streams : c \in Seeded /\ <<"streams", c>> \in rowLocks[s]
        /\ \A m \in deleted[s].messages : m.conv \in Seeded

(* What is collected is still there, with all the deliveries it has.       *)
DeletesWhatIsThere ==
    \A s \in Seeders : \A m \in deleted[s].messages :
        /\ m \in messages
        /\ \A d \in deliveries :
            d.conv = m.conv /\ d.pos = m.pos => d \in deleted[s].deliveries

OneDeleter ==
    \A s, t \in Seeders :
        s # t => deleted[s].messages = {} \/ deleted[t].messages = {}

(* What a send decided under the lock of its stream is so until it commits.*)
DecisionsStand ==
    \A r \in Clients :
        /\ pc[r] = "buffer" => input[r].pos > Expected(input[r].conv) /\ ~Taken(r)
        /\ pc[r] = "publish" => input[r].pos = Expected(input[r].conv) /\ ~Taken(r)

LocksInv == LabTypes /\ ResetIsAlone /\ RowsAreAlone /\ SendersHold /\ DeletersHold

RowsInv == DeletesWhatIsThere /\ OneDeleter /\ DecisionsStand /\ NothingOutlivesReset

(* While a seeder is quiet nobody is sending to its plan ...               *)
QuietIsQuiet ==
    \A s \in Seeders :
        quiet[s] /\ pc[s] # "idle" =>
            \A r \in Clients : pc[r] = "idle" \/ input[r].conv \notin Seeded

(* ... so that what its statements saw is all there is.                    *)
QuietSawAll ==
    \A s \in Seeders : quiet[s] =>
        /\ pc[s] \in Deleting =>
            OfPlan(deliveries) \subseteq deleted[s].deliveries
        /\ pc[s] \in Deleting \ {"delete_messages"} =>
            OfPlan(messages) \subseteq deleted[s].messages
        /\ pc[s] \in Deleting \ {"delete_messages", "delete_streams"} =>
            {c \in Seeded : next[c] # 0} \subseteq deleted[s].streams
        /\ pc[s] \in {"reset_counters", "commit_traffic"} =>
            {k \in Seeded \X Positions : operations[k] # "none"} \subseteq deleted[s].operations

QuietInv == QuietIsQuiet /\ QuietSawAll

(* Messages of other conversations agree with them in any case.            *)
AgreeWhereQuiet ==
    \A m \in messages : m.conv \notin Seeded \/ ~overlapped => Agrees(m)

(* Past its DELETE of the streams a seeder has the stream of each message  *)
(* that it deletes, or the stream, if there is one, has yet to get there.  *)
StreamsComeLater ==
    \A s \in Seeders : pc[s] \in {"delete_operations", "reset_counters", "commit_traffic"} =>
        \A m \in deleted[s].messages :
            <<"streams", m.conv>> \in rowLocks[s] \/ Expected(m.conv) <= m.pos

(* Nobody is answered with a message whose key its deleter did not see.    *)
AnswersGoToo ==
    \A s \in Seeders : pc[s] \in {"reset_counters", "commit_traffic"} =>
        \A m \in deleted[s].messages :
            \/ <<m.conv, m.pos>> \in deleted[s].operations
            \/ /\ operations[<<m.conv, m.pos>>] # "completed"
               /\ \A r \in Clients : pc[r] = "adopt" /\ Key(r) = <<m.conv, m.pos>> => ~Owns(r)

AnswersInv == StreamsComeLater /\ AnswersGoToo /\ AnsweredIsThere

LabInv == LocksInv /\ RowsInv /\ QuietInv /\ AgreeWhereQuiet /\ AnswersInv

-----------------------------------------------------------------------------
(* What the operators of the locks come to *)


LEMMA ActorsAreOfAKind ==
    /\ \A r \in Clients : r \in Actors /\ r \notin Seeders /\ r # Resetter
    /\ \A s \in Seeders : s \in Actors /\ s \notin Clients /\ s # Resetter
    /\ Resetter \in Actors
BY LabAssumption DEF Actors

LEMMA StepsAreNamed ==
    \A step \in {"idle", "claim", "find", "reclaim", "stream", "pointer", "counter", "insert",
                "adopt", "buffer", "publish", "release",
                "truncate", "conversations", "counters", "delete_deliveries", "delete_messages",
                "delete_streams", "delete_operations", "reset_counters", "commit_traffic"} :
        step \in Steps
BY DEF Steps

LEMMA StatusesAreNamed == \A status \in {"none", "in_progress", "failed", "completed"} : status \in Statuses
BY DEF Statuses

LEMMA InputsExist == NoInput \in Sends /\ NothingDeleted \in Deletions
<1>1. PICK c \in Conversations : TRUE
  BY LabAssumption
<1>2. (CHOOSE d \in Conversations : TRUE) \in Conversations
  BY <1>1
<1>3. 1 \in Positions
  BY LabAssumption DEF Positions
<1>4. NoInput \in Sends
  BY <1>2, <1>3 DEF NoInput, Sends
<1>5. NothingDeleted \in Deletions
  BY DEF NothingDeleted, Deletions
<1>6. QED
  BY <1>4, <1>5

LEMMA NothingIsDeleted ==
    /\ NothingDeleted.deliveries = {} /\ NothingDeleted.messages = {}
    /\ NothingDeleted.streams = {} /\ NothingDeleted.operations = {}
BY DEF NothingDeleted

LEMMA TablesAreSix ==
    /\ DOMAIN TableOrder = 1..6
    /\ IsFiniteSet(Tables)
    /\ Cardinality(Tables) \in Nat /\ Cardinality(Tables) <= 6
<1>1. DOMAIN TableOrder = 1..6
  BY DEF TableOrder
<1>2. IsFiniteSet(1..6) /\ Cardinality(1..6) = 6
  <2>1. ASSUME NEW a \in Int, NEW b \in Int
        PROVE  IsFiniteSet(a..b) /\ Cardinality(a..b) = IF a > b THEN 0 ELSE b - a + 1
    BY FS_Interval, Zenon
  <2>2. IsFiniteSet(1..6) /\ Cardinality(1..6) = IF 1 > 6 THEN 0 ELSE 6 - 1 + 1
    BY ONLY <2>1, 1 \in Int, 6 \in Int, Zenon
  <2>3. QED
    BY ONLY <2>2
<1>3. Tables = {TableOrder[i] : i \in 1..6}
  BY <1>1 DEF Tables
<1> DEFINE F == [i \in 1..6 |-> TableOrder[i]]
<1>4. F \in Surjection(1..6, Tables)
  BY <1>3 DEF Surjection
<1>5. QED
  BY <1>1, <1>2, <1>4, FS_Surjection, FS_CardinalityType

(* The TRUNCATE takes a table of the list at a time, and when it counts as *)
(* many as there are it has them all.                                      *)
LEMMA ResetCountsItsTables ==
    ASSUME held[Resetter] \subseteq Tables
    PROVE  /\ LockedByReset \in Nat
           /\ LockedByReset < Cardinality(Tables) => TableOrder[LockedByReset + 1] \in Tables
           /\ LockedByReset = Cardinality(Tables) => held[Resetter] = Tables
<1>1. /\ IsFiniteSet(held[Resetter])
      /\ LockedByReset <= Cardinality(Tables)
      /\ LockedByReset = Cardinality(Tables) => held[Resetter] = Tables
  BY TablesAreSix, FS_Subset DEF LockedByReset
<1>2. LockedByReset \in Nat
  BY <1>1, FS_CardinalityType DEF LockedByReset
<1>3. ASSUME LockedByReset < Cardinality(Tables)
      PROVE  TableOrder[LockedByReset + 1] \in Tables
  <2>1. LockedByReset + 1 \in DOMAIN TableOrder
    BY <1>2, <1>3, TablesAreSix
  <2>2. QED
    BY <2>1 DEF Tables
<1>4. QED
  BY <1>1, <1>2, <1>3

-----------------------------------------------------------------------------
(* Types and locks *)

LEMMA LocksInit == Init => LocksInv
<1> SUFFICES ASSUME Init PROVE LocksInv
  OBVIOUS
<1>1. TypeOK
  <2>1. Cardinality(Made) \in Nat
    BY LabAssumption, FS_CardinalityType
  <2>2. budget \in [Actors -> Nat]
    BY <2>1, LabAssumption DEF Init, Actors
  <2>3. population \subseteq Conversations
    BY DEF Init, Conversations
  <2>4. /\ counter \in [Conversations -> Nat]
        /\ next \in [Conversations -> 0..(MaxPosition + 1)]
        /\ operations \in [Keys -> Statuses] /\ lease \in [Keys -> SUBSET Clients]
    BY LabAssumption, StatusesAreNamed DEF Init
  <2>5. pc \in [Actors -> Steps] /\ input \in [Clients -> Sends]
    BY InputsExist, StepsAreNamed DEF Init
  <2>6. QED
    BY <2>2, <2>3, <2>4, <2>5 DEF Init, TypeOK
<1>2. LabTypes
  BY <1>1, InputsExist DEF Init, LabTypes
<1>3. ResetIsAlone /\ RowsAreAlone
  BY ActorsAreOfAKind DEF Init, ResetIsAlone, RowsAreAlone
<1>4. SendersHold /\ DeletersHold
  BY ActorsAreOfAKind DEF Init, SendersHold, DeletersHold, Sending, Owning, Deleting, NothingDeleted
<1>5. QED
  BY <1>2, <1>3, <1>4 DEF LocksInv

LockTypes ==
    /\ held \in [Actors -> SUBSET Tables]
    /\ rowLocks \in [Actors -> SUBSET LockableRows]
    /\ pc \in [Actors -> Steps]
    /\ \A a \in Actors : pc[a] = "idle" => held[a] = {} /\ rowLocks[a] = {}

Alone == LockTypes /\ ResetIsAlone /\ RowsAreAlone

(* The tables that an actor may still take are not with the reset, the     *)
(* reset takes what is with nobody, and so is every row that is taken.     *)
LEMMA TakingLocks ==
    ASSUME Alone,
           NEW a \in Actors, NEW ts \in SUBSET Tables, NEW rs \in SUBSET LockableRows,
           NEW step \in Steps \ {"idle"},
           CanTakeTables(a, ts), TakeTables(a, ts), Goto(a, step),
           (CanTakeRows(a, rs) /\ TakeRows(a, rs)) \/ UNCHANGED rowLocks
    PROVE  Alone'
<1> USE DEF Alone, LockTypes
<1>1. held' \in [Actors -> SUBSET Tables]
  BY DEF TakeTables
<1>2. rowLocks' \in [Actors -> SUBSET LockableRows]
  BY DEF TakeRows
<1>3. pc' \in [Actors -> Steps]
  BY DEF Goto
<1>4. \A b \in Actors : pc'[b] = "idle" => held'[b] = {} /\ rowLocks'[b] = {}
  BY DEF TakeTables, TakeRows, Goto
<1>5. ASSUME NEW b \in Actors \ {Resetter}
      PROVE  held'[b] \cap held'[Resetter] = {}
  BY ActorsAreOfAKind DEF TakeTables, CanTakeTables, TableFree, ResetIsAlone
<1>6. ASSUME NEW b \in Actors, NEW d \in Actors, b # d
      PROVE  rowLocks'[b] \cap rowLocks'[d] = {}
  <2>1. CASE UNCHANGED rowLocks
    BY <1>6, <2>1 DEF RowsAreAlone
  <2>2. CASE CanTakeRows(a, rs) /\ TakeRows(a, rs)
    <3>1. \A x \in Actors : rowLocks'[x] = IF x = a THEN rowLocks[a] \cup rs ELSE rowLocks[x]
      BY <2>2 DEF TakeRows
    <3>2. \A x \in Actors : x # a => rowLocks[x] \cap rs = {} /\ rowLocks[x] \cap rowLocks[a] = {}
      BY <2>2 DEF CanTakeRows, RowsAreAlone
    <3>3. rowLocks[b] \cap rowLocks[d] = {}
      BY <1>6 DEF RowsAreAlone
    <3>4. QED
      BY <1>6, <3>1, <3>2, <3>3
  <2>3. QED
    BY <2>1, <2>2
<1>7. QED
  BY <1>1, <1>2, <1>3, <1>4, <1>5, <1>6 DEF ResetIsAlone, RowsAreAlone

LEMMA ReleasingLocks ==
    ASSUME Alone, NEW a \in Actors, NEW step \in Steps, ReleaseLocks(a), Goto(a, step)
    PROVE  Alone'
<1> USE DEF Alone, LockTypes
<1>1. LockTypes' /\ ResetIsAlone'
  BY ActorsAreOfAKind DEF ReleaseLocks, Goto, ResetIsAlone
<1>2. \A b \in Actors : rowLocks'[b] = IF b = a THEN {} ELSE rowLocks[b]
  BY DEF ReleaseLocks
<1>3. RowsAreAlone'
  BY <1>2 DEF RowsAreAlone
<1>4. QED
  BY <1>1, <1>3

LEMMA LockTypesAreTypes ==
    /\ LocksInv => Alone
    /\ LockTypes' /\ LabTypes /\ UNCHANGED <<rows, input, deleted, budget, history>> => LabTypes'
<1>1. LocksInv => Alone
  BY DEF LocksInv, LabTypes, TypeOK, LockTypes, Alone
<1>2. LockTypes' /\ LabTypes /\ UNCHANGED <<rows, input, deleted, budget, history>> => LabTypes'
  BY DEF LabTypes, TypeOK, LockTypes, rows, history
<1>3. QED
  BY <1>1, <1>2

LEMMA KeysAndRowsOfASend ==
    ASSUME LabTypes, NEW r \in Clients
    PROVE  /\ input[r] \in Sends /\ Key(r) \in Keys
           /\ input[r].conv \in Conversations /\ input[r].pos \in Positions
           /\ {<<"streams", input[r].conv>>} \in SUBSET LockableRows
           /\ {<<"counters", input[r].conv>>} \in SUBSET LockableRows
BY DEF LabTypes, TypeOK, Key, Keys, Sends, LockableRows

(* A statement of a send that goes on takes its tables and rows.           *)
LEMMA SendingLocksKept ==
    ASSUME LocksInv, NEW r \in Clients,
           NEW ts \in SUBSET Tables, NEW rs \in SUBSET LockableRows, NEW step \in Sending,
           CanTakeTables(r, ts), TakeTables(r, ts), Goto(r, step),
           (CanTakeRows(r, rs) /\ TakeRows(r, rs)) \/ UNCHANGED rowLocks,
           StreamTables \subseteq held[r] \cup ts, input[r].conv \in population,
           step \in Owning => <<"streams", input[r].conv>> \in rowLocks'[r],
           UNCHANGED <<rows, input, deleted, budget, history>>
    PROVE  LocksInv'
<1> USE ActorsAreOfAKind
<1>1. step \in Steps \ {"idle"}
  BY DEF Sending, Owning, Steps
<1>2. Alone'
  BY <1>1, LockTypesAreTypes, TakingLocks
<1>3. LabTypes'
  BY <1>2, LockTypesAreTypes DEF LocksInv, Alone
<1>4. /\ \A a \in Actors \ {r} : pc'[a] = pc[a] /\ held'[a] = held[a] /\ rowLocks'[a] = rowLocks[a]
      /\ held'[r] = held[r] \cup ts /\ pc'[r] = step
      /\ population' = population /\ input' = input /\ deleted' = deleted
  BY DEF LocksInv, LabTypes, TypeOK, TakeTables, TakeRows, Goto, rows
<1>5. SendersHold'
  BY <1>4 DEF LocksInv, SendersHold, Owning, Sending
<1>6. DeletersHold'
  BY <1>4 DEF LocksInv, DeletersHold
<1>7. QED
  BY <1>2, <1>3, <1>5, <1>6 DEF LocksInv, Alone

(* A send that has ended its transaction holds nothing.                    *)
LEMMA EndingLocksKept ==
    ASSUME LocksInv, NEW r \in Clients, NEW step \in {"idle", "release"},
           ReleaseLocks(r), Goto(r, step), LabTypes',
           \A q \in Clients \ {r} : input'[q] = input[q],
           UNCHANGED <<population, deleted>>
    PROVE  LocksInv'
<1> USE ActorsAreOfAKind
<1>1. step \in Steps /\ step \notin Sending /\ step \notin Owning
  BY DEF Sending, Owning, Steps
<1>2. Alone'
  BY <1>1, LockTypesAreTypes, ReleasingLocks
<1>3. /\ \A a \in Actors \ {r} : pc'[a] = pc[a] /\ held'[a] = held[a] /\ rowLocks'[a] = rowLocks[a]
      /\ held'[r] = {} /\ rowLocks'[r] = {} /\ pc'[r] = step
  BY DEF LocksInv, LabTypes, TypeOK, ReleaseLocks, Goto
<1>4. SendersHold'
  BY <1>1, <1>3 DEF LocksInv, SendersHold
<1>5. DeletersHold'
  BY <1>3 DEF LocksInv, DeletersHold
<1>6. QED
  BY <1>2, <1>4, <1>5 DEF LocksInv, Alone

(* Statements outside of a transaction lock for themselves alone.          *)
LEMMA LoneLocksKept ==
    ASSUME LocksInv, NEW r \in Clients, NEW step \in {"claim", "idle", "find", "reclaim", "stream"},
           pc[r] \notin Sending, Goto(r, step), LabTypes',
           \A q \in Clients \ {r} : input'[q] = input[q],
           UNCHANGED <<population, deleted, locks>>
    PROVE  LocksInv'
<1> USE ActorsAreOfAKind
<1>1. step \notin Sending /\ step \notin Owning
  BY DEF Sending, Owning
<1>2. /\ \A a \in Actors \ {r} : pc'[a] = pc[a]
      /\ pc'[r] = step /\ held' = held /\ rowLocks' = rowLocks
  BY DEF LocksInv, LabTypes, TypeOK, Goto, locks
<1>3. SendersHold'
  BY <1>1, <1>2 DEF LocksInv, SendersHold
<1>4. DeletersHold'
  BY <1>2 DEF LocksInv, DeletersHold
<1>5. QED
  BY <1>2, <1>3, <1>4 DEF LocksInv, ResetIsAlone, RowsAreAlone

LEMMA OperationsKeepTheirTypes ==
    ASSUME LabTypes, NEW r \in Clients, NEW status \in Statuses, NEW owners \in SUBSET Clients
    PROVE  SetOperation(r, status, owners) =>
                operations' \in [Keys -> Statuses] /\ lease' \in [Keys -> SUBSET Clients]
BY KeysAndRowsOfASend DEF LabTypes, TypeOK, SetOperation

LEMMA LoneStatementsKeepLocks ==
    ASSUME LocksInv, NEW r \in Clients,
           Claim(r) \/ Find(r) \/ Reclaim(r) \/ Release(r)
    PROVE  LocksInv'
<1> USE ActorsAreOfAKind, StepsAreNamed, InputsExist
<1>1. /\ UNCHANGED <<population, counter, next, messages, deliveries, locks, deleted, budget, history>>
      /\ pc[r] \in {"claim", "find", "reclaim", "release"}
  BY DEF Claim, Reclaim, ClaimKey, Find, Release
<1>2. \/ UNCHANGED <<operations, lease>>
      \/ SetOperation(r, "in_progress", {r})
      \/ SetOperation(r, "failed", {})
  BY DEF Claim, Reclaim, ClaimKey, Find, Release, Acquire
<1>3. /\ operations' \in [Keys -> Statuses] /\ lease' \in [Keys -> SUBSET Clients]
  BY <1>2, StatusesAreNamed, OperationsKeepTheirTypes DEF LocksInv, LabTypes, TypeOK
<1>4. \/ Goto(r, "find") /\ UNCHANGED input
      \/ Goto(r, "reclaim") /\ UNCHANGED input
      \/ Goto(r, "stream") /\ UNCHANGED input
      \/ Goto(r, "idle") /\ input' = [input EXCEPT ![r] = NoInput]
  BY DEF Claim, Reclaim, ClaimKey, Find, Release, Acquire, Finish
<1>5. PICK step \in {"idle", "find", "reclaim", "stream"} : Goto(r, step)
  BY <1>4
<1>6. /\ input' \in [Clients -> Sends]
      /\ \A q \in Clients \ {r} : input'[q] = input[q]
  BY <1>4 DEF LocksInv, LabTypes, TypeOK
<1>7. pc[r] \notin Sending /\ held[r] = {} /\ rowLocks[r] = {}
  BY <1>1 DEF LocksInv, SendersHold, Sending, Owning
<1>8. LabTypes'
  BY <1>1, <1>3, <1>5, <1>6, <1>7 DEF LocksInv, LabTypes, TypeOK, Goto, locks, history
<1>9. QED
  BY <1>1, <1>5, <1>6, <1>7, <1>8, LoneLocksKept

LEMMA SendKeepsLocks ==
    ASSUME LocksInv, NEW r \in Clients, Send(r)
    PROVE  LocksInv'
<1> USE ActorsAreOfAKind, StepsAreNamed
<1>1. PICK send \in Sends :
          /\ Begin(r, "claim")
          /\ input' = [input EXCEPT ![r] = send]
          /\ quiet' = [s \in Seeders |-> quiet[s] /\ send.conv \notin Seeded]
          /\ UNCHANGED <<rows, locks, deleted, overlapped>>
  BY DEF Send
<1>2. pc[r] \notin Sending /\ held[r] = {} /\ rowLocks[r] = {}
  BY <1>1 DEF Begin, LocksInv, SendersHold, Sending, Owning
<1>3. LabTypes'
  BY <1>1, <1>2 DEF Begin, Goto, rows, locks, LocksInv, LabTypes, TypeOK
<1>4. QED
  BY <1>1, <1>2, <1>3, LoneLocksKept DEF Begin, rows, LocksInv, LabTypes, TypeOK

LEMMA TablesOfASend ==
    /\ StreamTables \in SUBSET Tables /\ {"messages"} \in SUBSET Tables
    /\ {"counters"} \in SUBSET Tables /\ {} \in SUBSET Tables
    /\ \A step \in Owning : step \in Sending
    /\ \A step \in {"counter", "insert", "adopt", "buffer", "publish"} : step \in Owning
BY TablesAreSix DEF StreamTables, Tables, TableOrder, Sending, Owning

LEMMA FailingKeepsLocks ==
    ASSUME LocksInv, NEW r \in Clients, Fail(r),
           UNCHANGED <<rows, input, deleted, budget, history>>
    PROVE  LocksInv'
<1>1. Alone'
  BY ActorsAreOfAKind, StepsAreNamed, LockTypesAreTypes, ReleasingLocks DEF Fail
<1>2. LabTypes'
  BY <1>1, LockTypesAreTypes DEF LocksInv, Alone
<1>3. QED
  BY <1>2, EndingLocksKept DEF Fail, rows

(* HoldStream goes on with the stream of the send.                         *)
LEMMA HoldingStreamKeepsLocks ==
    ASSUME LocksInv, NEW r \in Clients, NEW ts \in SUBSET Tables,
           CanTakeTables(r, ts), TakeTables(r, ts),
           CanTakeRows(r, {<<"streams", input[r].conv>>}), HoldStream(r),
           StreamTables \subseteq held[r] \cup ts, input[r].conv \in population,
           UNCHANGED <<rows, input, deleted, budget, history>>
    PROVE  LocksInv'
<1> DEFINE rs == {<<"streams", input[r].conv>>}
<1>1. PICK step \in {"counter", "insert"} : Goto(r, step)
  BY DEF HoldStream
<1>2. step \in Sending /\ rs \in SUBSET LockableRows
  BY TablesOfASend, KeysAndRowsOfASend DEF LocksInv
<1>3. CanTakeRows(r, rs) /\ TakeRows(r, rs)
  BY DEF HoldStream
<1>4. <<"streams", input[r].conv>> \in rowLocks'[r]
  BY <1>3, ActorsAreOfAKind DEF TakeRows, LocksInv, LabTypes, TypeOK
<1> HIDE DEF rs
<1>5. QED
  BY <1>1, <1>2, <1>3, <1>4, SendingLocksKept

LEMMA StreamStatementsKeepLocks ==
    ASSUME LocksInv, NEW r \in Clients, InsertStream(r) \/ LockStream(r)
    PROVE  LocksInv'
<1> USE ActorsAreOfAKind, TablesOfASend
<1> DEFINE c == input[r].conv
           row == {<<"streams", c>>}
<1>u. UNCHANGED <<rows, input, deleted, budget, history>>
  BY DEF InsertStream, LockStream
<1>0. CASE Fail(r)
  BY <1>u, <1>0, FailingKeepsLocks
<1>1. CASE InsertStream(r) /\ ~Fail(r)
  <2>1. /\ CanTakeTables(r, StreamTables) /\ TakeTables(r, StreamTables) /\ c \in population
        /\ \/ CanTakeRows(r, row) /\ HoldStream(r)
           \/ Goto(r, "pointer") /\ UNCHANGED rowLocks
    BY <1>1 DEF InsertStream
  <2>2. CASE CanTakeRows(r, row) /\ HoldStream(r)
    BY <1>u, <2>1, <2>2, HoldingStreamKeepsLocks
  <2>3. CASE Goto(r, "pointer") /\ UNCHANGED rowLocks
    <3>1. "pointer" \in Sending /\ "pointer" \notin Owning
      BY DEF Sending, Owning
    <3>2. QED
      BY <1>u, <2>1, <2>3, <3>1, SendingLocksKept
  <2>4. QED
    BY <2>1, <2>2, <2>3
<1>2. CASE LockStream(r) /\ ~Fail(r)
  <2>1. pc[r] = "pointer" /\ CanTakeRows(r, row) /\ HoldStream(r) /\ UNCHANGED held
    BY <1>2 DEF LockStream
  <2>2. CanTakeTables(r, {}) /\ TakeTables(r, {})
    BY <2>1 DEF CanTakeTables, TakeTables, LocksInv, LabTypes, TypeOK
  <2>3. StreamTables \subseteq held[r] /\ c \in population
    BY <2>1 DEF LocksInv, SendersHold, Sending
  <2>4. QED
    BY <1>u, <2>1, <2>2, <2>3, HoldingStreamKeepsLocks
<1>3. QED
  BY <1>0, <1>1, <1>2

LEMMA EffectStatementsKeepLocks ==
    ASSUME LocksInv, NEW r \in Clients, LockCounter(r) \/ Insert(r)
    PROVE  LocksInv'
<1> USE ActorsAreOfAKind, TablesOfASend
<1>u. UNCHANGED <<rows, input, deleted, budget, history>>
  BY DEF LockCounter, Insert
<1>h. /\ StreamTables \subseteq held[r] /\ input[r].conv \in population
      /\ <<"streams", input[r].conv>> \in rowLocks[r]
  BY DEF LockCounter, Insert, LocksInv, SendersHold, Sending, Owning
<1>0. CASE Fail(r)
  BY <1>u, <1>0, FailingKeepsLocks
<1>1. CASE LockCounter(r)
  <2> DEFINE rs == {<<"counters", input[r].conv>>}
  <2>1. /\ CanTakeTables(r, {"counters"}) /\ TakeTables(r, {"counters"})
        /\ CanTakeRows(r, rs) /\ TakeRows(r, rs) /\ Goto(r, "insert")
    BY <1>1 DEF LockCounter
  <2>2. rs \in SUBSET LockableRows
    BY KeysAndRowsOfASend DEF LocksInv
  <2>3. <<"streams", input[r].conv>> \in rowLocks'[r]
    BY <1>h, <2>1 DEF TakeRows, LocksInv, LabTypes, TypeOK
  <2> HIDE DEF rs
  <2>4. QED
    BY <1>u, <1>h, <2>1, <2>2, <2>3, SendingLocksKept
<1>2. CASE Insert(r) /\ ~Fail(r)
  <2>1. /\ CanTakeTables(r, {"messages"}) /\ TakeTables(r, {"messages"})
        /\ Goto(r, Outcome(r)) /\ UNCHANGED rowLocks /\ Outcome(r) # "release"
    BY <1>2 DEF Insert
  <2>2. PICK step \in {"adopt", "buffer", "publish"} : Goto(r, step)
    <3>1. Outcome(r) \in {"adopt", "buffer", "publish", "release"}
      BY DEF Outcome
    <3>2. QED
      BY <2>1, <3>1
  <2>3. <<"streams", input[r].conv>> \in rowLocks'[r]
    BY <1>h, <2>1
  <2>4. {} \in SUBSET LockableRows /\ step \in Sending
    BY TablesOfASend
  <2>5. QED
    BY <1>u, <1>h, <2>1, <2>2, <2>3, <2>4, SendingLocksKept
<1>3. QED
  BY <1>0, <1>1, <1>2

(* The pointer of a stream that is a send's to move.                       *)
LEMMA PointersOfASend ==
    ASSUME LabTypes, NEW r \in Clients
    PROVE  /\ input[r].pos \in Nat /\ 1 <= input[r].pos /\ input[r].pos <= MaxPosition
           /\ counter[input[r].conv] \in Nat
           /\ next[input[r].conv] \in Nat
           /\ Expected(input[r].conv) \in 1..(MaxPosition + 1)
<1> DEFINE c == input[r].conv
<1>1. input[r].pos \in Positions /\ c \in Conversations /\ MaxPosition \in Nat
  BY LabAssumption, KeysAndRowsOfASend
<1>2. input[r].pos \in Nat /\ 1 <= input[r].pos /\ input[r].pos <= MaxPosition
  BY <1>1 DEF Positions
<1>3. counter[c] \in Nat /\ next[c] \in 0..(MaxPosition + 1)
  BY <1>1 DEF LabTypes, TypeOK
<1> HIDE DEF c
<1>4. next[c] \in Nat /\ Expected(c) \in 1..(MaxPosition + 1)
  BY <1>1, <1>3 DEF Expected
<1>5. QED
  BY <1>2, <1>3, <1>4 DEF c

LEMMA CompletingTypes ==
    ASSUME LabTypes, NEW r \in Clients, Adopt(r) \/ Buffer(r) \/ Publish(r)
    PROVE  /\ counter' \in [Conversations -> Nat]
           /\ next' \in [Conversations -> 0..(MaxPosition + 1)]
           /\ messages' \subseteq Messages /\ deliveries' \subseteq Sends
<1> DEFINE c == input[r].conv
           p == input[r].pos
<1>1. /\ c \in Conversations /\ p \in Positions /\ MaxPosition \in Nat
      /\ p \in Nat /\ 1 <= p /\ counter[c] \in Nat
      /\ Expected(c) \in 0..(MaxPosition + 1)
  <2>1. Expected(c) \in 1..(MaxPosition + 1) /\ MaxPosition \in Nat
    BY LabAssumption, PointersOfASend
  <2>2. Expected(c) \in 0..(MaxPosition + 1)
    BY ONLY <2>1
  <2>3. QED
    BY <2>1, <2>2, KeysAndRowsOfASend, PointersOfASend
<1> USE DEF LabTypes, TypeOK
<1>2. CASE Adopt(r)
  BY <1>1, <1>2 DEF Adopt
<1>3. CASE Buffer(r)
  <2>1. [conv |-> c, pos |-> p, server |-> 0] \in Messages
    BY <1>1 DEF Messages
  <2>2. QED
    BY <1>1, <1>3, <2>1 DEF Buffer
<1>4. CASE Publish(r)
  <2>1. PICK last \in p..MaxPosition :
            /\ messages' = {m \in messages : m.conv = c => m.pos \notin p..last}
                              \cup {[conv |-> c, pos |-> q, server |-> counter[c] + (q - p)] :
                                       q \in p..last}
            /\ deliveries' = deliveries \cup {[conv |-> c, pos |-> q] : q \in p..last}
            /\ counter' = [counter EXCEPT ![c] = counter[c] + (last - p) + 1]
            /\ next' = [next EXCEPT ![c] = last + 1]
    BY <1>4 DEF Publish
  <2>2. last \in Nat /\ p <= last /\ last <= MaxPosition
    BY <1>1, <2>1
  <2>3. \A q \in p..last : q \in Positions /\ counter[c] + (q - p) \in Nat
    BY <1>1, <2>2 DEF Positions
  <2>4. \A q \in p..last : /\ [conv |-> c, pos |-> q, server |-> counter[c] + (q - p)] \in Messages
                           /\ [conv |-> c, pos |-> q] \in Sends
    BY <1>1, <2>3 DEF Messages, Sends
  <2>5. messages' \subseteq Messages
    BY <2>1, <2>4
  <2>6. deliveries' \subseteq Sends
    BY <2>1, <2>4
  <2>7. counter' \in [Conversations -> Nat] /\ next' \in [Conversations -> 0..(MaxPosition + 1)]
    BY <1>1, <2>1, <2>2
  <2>8. QED
    BY <2>5, <2>6, <2>7
<1>5. QED
  BY <1>2, <1>3, <1>4

LEMMA CompletingKeepsLocks ==
    ASSUME LocksInv, NEW r \in Clients, Adopt(r) \/ Buffer(r) \/ Publish(r)
    PROVE  LocksInv'
<1> USE ActorsAreOfAKind, StepsAreNamed, InputsExist
<1>1. PICK step \in Steps : Complete(r, step)
  BY DEF Adopt, Buffer, Publish
<1>2. /\ SetOperation(r, "completed", {}) /\ ReleaseLocks(r)
      /\ Goto(r, "idle") /\ input' = [input EXCEPT ![r] = NoInput]
      /\ UNCHANGED <<population, deleted, budget, history>>
  BY <1>1 DEF Complete, Finish
<1>3. operations' \in [Keys -> Statuses] /\ lease' \in [Keys -> SUBSET Clients]
  BY <1>2, StatusesAreNamed, OperationsKeepTheirTypes DEF LocksInv
<1>4. Alone'
  BY <1>2, LockTypesAreTypes, ReleasingLocks
<1>5. input' \in [Clients -> Sends] /\ \A q \in Clients \ {r} : input'[q] = input[q]
  BY <1>2 DEF LocksInv, LabTypes, TypeOK
<1>6. LabTypes'
  BY <1>2, <1>3, <1>4, <1>5, CompletingTypes DEF LocksInv, LabTypes, TypeOK, Alone, LockTypes, history
<1>7. QED
  BY <1>2, <1>5, <1>6, EndingLocksKept

LEMMA AbandonKeepsLocks ==
    ASSUME LocksInv, NEW r \in Clients, Abandon(r)
    PROVE  LocksInv'
<1> USE ActorsAreOfAKind, StepsAreNamed, InputsExist
<1>1. /\ ReleaseLocks(r) /\ Goto(r, "idle") /\ input' = [input EXCEPT ![r] = NoInput]
      /\ UNCHANGED <<rows, deleted, budget, history>>
  BY DEF Abandon, Finish
<1>2. Alone'
  BY <1>1, LockTypesAreTypes, ReleasingLocks
<1>3. input' \in [Clients -> Sends] /\ \A q \in Clients \ {r} : input'[q] = input[q]
  BY <1>1 DEF LocksInv, LabTypes, TypeOK
<1>4. LabTypes'
  BY <1>1, <1>2, <1>3 DEF LocksInv, LabTypes, TypeOK, Alone, LockTypes, history, rows
<1>5. QED
  BY <1>1, <1>3, <1>4, EndingLocksKept DEF rows

LEMMA ClientLocksKept ==
    ASSUME LocksInv, NEW r \in Clients, ClientStep(r)
    PROVE  LocksInv'
BY SendKeepsLocks, LoneStatementsKeepLocks, StreamStatementsKeepLocks, EffectStatementsKeepLocks,
   CompletingKeepsLocks, AbandonKeepsLocks DEF ClientStep

LEMMA ResetHasEveryTable ==
    ASSUME LocksInv, CommitReset
    PROVE  /\ \A r \in Clients : pc[r] \notin Sending
           /\ \A s \in Seeders : pc[s] \notin Deleting /\ deleted[s] = NothingDeleted
<1> USE ActorsAreOfAKind DEF LocksInv, LabTypes, TypeOK
<1>1. held[Resetter] = Tables
  BY ResetCountsItsTables DEF CommitReset
<1>2. \A a \in Actors \ {Resetter} : held[a] = {}
  BY <1>1 DEF ResetIsAlone
<1>3. \A r \in Clients : pc[r] \notin Sending
  BY <1>2 DEF SendersHold, StreamTables
<1>4. QED
  BY <1>2, <1>3 DEF DeletersHold

LEMMA ResetLocksKept ==
    ASSUME LocksInv, BeginReset \/ LockTable \/ CommitReset
    PROVE  LocksInv'
<1> USE ActorsAreOfAKind, StepsAreNamed, StatusesAreNamed DEF LocksInv, LabTypes
<1>1. CASE BeginReset
  <2>1. LabTypes'
    BY <1>1 DEF BeginReset, Begin, Goto, rows, locks, history, TypeOK
  <2>2. QED
    BY <1>1, <2>1 DEF BeginReset, Begin, Goto, rows, locks, TypeOK, ResetIsAlone, RowsAreAlone,
       SendersHold, DeletersHold
<1>2. CASE LockTable
  <2> DEFINE t == TableOrder[LockedByReset + 1]
  <2>1. /\ pc[Resetter] = "truncate" /\ t \in Tables /\ TableFree(Resetter, t)
        /\ TakeTables(Resetter, {t})
        /\ UNCHANGED <<rows, rowLocks, pc, input, deleted, budget, history>>
    BY <1>2, ResetCountsItsTables DEF LockTable, TypeOK
  <2>2. CanTakeTables(Resetter, {t}) /\ {t} \in SUBSET Tables /\ {} \in SUBSET LockableRows
    BY <2>1 DEF CanTakeTables
  <2>3. Goto(Resetter, "truncate")
    BY <2>1 DEF Goto, TypeOK
  <2> HIDE DEF t
  <2>4. Alone'
    BY <2>1, <2>2, <2>3, LockTypesAreTypes, TakingLocks
  <2>5. LabTypes'
    BY <2>1, <2>4, LockTypesAreTypes DEF Alone
  <2>6. SendersHold' /\ DeletersHold'
    BY <2>1 DEF rows, TakeTables, TypeOK, SendersHold, DeletersHold
  <2>7. QED
    BY <2>4, <2>5, <2>6 DEF Alone
<1>3. CASE CommitReset
  <2>1. \A r \in Clients : pc[r] \notin Sending
    BY <1>3, ResetHasEveryTable
  <2>2. PICK c \in Made : /\ population' = {c}
                         /\ counter' = [d \in Conversations |-> IF d = c THEN 1 ELSE 0]
    BY <1>3 DEF CommitReset
  <2>3. /\ population' \subseteq Conversations
        /\ counter' \in [Conversations -> Nat]
        /\ next' \in [Conversations -> 0..(MaxPosition + 1)]
        /\ messages' \subseteq Messages /\ deliveries' \subseteq Sends
        /\ operations' \in [Keys -> Statuses] /\ lease' \in [Keys -> SUBSET Clients]
    BY <1>3, <2>2, LabAssumption DEF CommitReset, TruncatedOperations, Conversations
  <2>4. Alone'
    BY <1>3, LockTypesAreTypes, ReleasingLocks DEF CommitReset
  <2>5. LabTypes'
    BY <1>3, <2>3, <2>4 DEF CommitReset, TypeOK, Alone, LockTypes
  <2>6. /\ \A a \in Actors \ {Resetter} :
              pc'[a] = pc[a] /\ held'[a] = held[a] /\ rowLocks'[a] = rowLocks[a]
        /\ deleted' = deleted
    BY <1>3 DEF CommitReset, ReleaseLocks, Goto, TypeOK
  <2>7. SendersHold' /\ DeletersHold'
    BY <2>1, <2>6 DEF SendersHold, DeletersHold, Sending
  <2>8. QED
    BY <2>4, <2>5, <2>7 DEF Alone
<1>4. QED
  BY <1>1, <1>2, <1>3

LEMMA SeedLocksKept ==
    ASSUME LocksInv, NEW s \in Seeders,
           BeginSeed(s) \/ SeedConversations(s) \/ CommitSeed(s)
    PROVE  LocksInv'
<1> USE ActorsAreOfAKind, StepsAreNamed DEF LocksInv, LabTypes
<1>1. CASE BeginSeed(s)
  <2>1. /\ \/ Begin(s, "conversations")
           \/ Begin(s, "delete_deliveries")
        /\ UNCHANGED <<rows, locks, input, deleted, overlapped>>
        /\ quiet' \in [Seeders -> BOOLEAN]
    BY <1>1 DEF BeginSeed, TypeOK
  <2>2. LabTypes'
    BY <2>1 DEF Begin, Goto, rows, locks, TypeOK
  <2>3. /\ \A a \in Actors \ {s} : pc'[a] = pc[a]
        /\ pc[s] = "idle" /\ pc'[s] \notin Deleting
        /\ UNCHANGED <<population, held, rowLocks, input, deleted>>
    BY <2>1 DEF Begin, Goto, rows, locks, TypeOK, Deleting
  <2>4. deleted[s] = NothingDeleted
    BY <2>3 DEF DeletersHold, Deleting
  <2>5. SendersHold'
    BY <2>3 DEF SendersHold
  <2>6. DeletersHold'
    BY <2>3, <2>4 DEF DeletersHold
  <2>7. QED
    BY <2>2, <2>3, <2>5, <2>6 DEF ResetIsAlone, RowsAreAlone
<1>2. CASE SeedConversations(s)
  <2>1. /\ CanTakeTables(s, {"population"}) /\ TakeTables(s, {"population"})
        /\ Goto(s, "counters") /\ pc[s] = "conversations"
        /\ UNCHANGED <<rows, rowLocks, input, deleted, budget, history>>
    BY <1>2 DEF SeedConversations
  <2>2. {"population"} \in SUBSET Tables /\ {} \in SUBSET LockableRows
    BY TablesAreSix DEF Tables, TableOrder
  <2>3. Alone'
    BY <2>1, <2>2, LockTypesAreTypes, TakingLocks
  <2>4. LabTypes'
    BY <2>1, <2>3, LockTypesAreTypes DEF Alone
  <2>5. SendersHold' /\ DeletersHold'
    BY <2>1 DEF rows, TakeTables, Goto, TypeOK, SendersHold, DeletersHold, Deleting
  <2>6. QED
    BY <2>3, <2>4, <2>5 DEF Alone
<1>3. CASE CommitSeed(s)
  <2>1. /\ pc[s] = "counters" /\ ReleaseLocks(s) /\ Goto(s, "idle")
        /\ population' = SeededPopulation /\ counter' = SeededCounters
        /\ UNCHANGED <<next, messages, deliveries, operations, lease, input, deleted, budget, history>>
    BY <1>3 DEF CommitSeed
  <2>2. Alone'
    BY <2>1, LockTypesAreTypes, ReleasingLocks
  <2>3. population' \subseteq Conversations /\ counter' \in [Conversations -> Nat]
    BY <2>1 DEF SeededPopulation, SeededCounters, Conversations, TypeOK
  <2>4. LabTypes'
    BY <2>1, <2>2, <2>3 DEF history, TypeOK, Alone, LockTypes
  <2>5. deleted[s] = NothingDeleted
    BY <2>1 DEF DeletersHold, Deleting
  <2>6. /\ \A a \in Actors \ {s} :
              pc'[a] = pc[a] /\ held'[a] = held[a] /\ rowLocks'[a] = rowLocks[a]
        /\ pc'[s] = "idle"
    BY <2>1 DEF ReleaseLocks, Goto, TypeOK
  <2>7. SendersHold'
    BY <2>1, <2>6 DEF SeededPopulation, SendersHold
  <2>8. DeletersHold'
    BY <2>1, <2>5, <2>6 DEF DeletersHold, Deleting, NothingDeleted
  <2>9. QED
    BY <2>2, <2>4, <2>7, <2>8 DEF Alone
<1>4. QED
  BY <1>1, <1>2, <1>3

(* A statement of resetTraffic: it takes its tables and rows and adds to   *)
(* what will be deleted at the COMMIT.                                     *)
LEMMA DeletionLocksKept ==
    ASSUME LocksInv, NEW s \in Seeders,
           NEW ts \in SUBSET Tables, NEW rs \in SUBSET LockableRows, NEW step \in Deleting,
           CanTakeTables(s, ts), TakeTables(s, ts),
           (CanTakeRows(s, rs) /\ TakeRows(s, rs)) \/ UNCHANGED rowLocks,
           Goto(s, step), {"deliveries", "messages"} \subseteq held[s] \cup ts,
           deleted' \in [Seeders -> Deletions],
           \A t \in Seeders \ {s} : deleted'[t] = deleted[t],
           \A c \in deleted'[s].streams : c \in Seeded /\ <<"streams", c>> \in rowLocks'[s],
           \A m \in deleted'[s].messages : m.conv \in Seeded,
           UNCHANGED <<rows, input, budget, history>>
    PROVE  LocksInv'
<1> USE ActorsAreOfAKind DEF LocksInv, LabTypes
<1>1. step \in Steps \ {"idle"}
  BY DEF Deleting, Steps
<1>2. Alone'
  BY <1>1, LockTypesAreTypes, TakingLocks
<1>3. LabTypes'
  BY <1>2 DEF rows, history, TypeOK, Alone, LockTypes
<1>4. /\ \A a \in Actors \ {s} : pc'[a] = pc[a] /\ held'[a] = held[a] /\ rowLocks'[a] = rowLocks[a]
      /\ pc'[s] = step /\ held'[s] = held[s] \cup ts
  BY DEF TypeOK, TakeTables, TakeRows, Goto
<1>5. SendersHold'
  BY <1>4 DEF rows, SendersHold
<1>6. DeletersHold'
  BY <1>4 DEF DeletersHold
<1>7. QED
  BY <1>2, <1>3, <1>5, <1>6 DEF Alone

LEMMA FreshLocksKept ==
    ASSUME LocksInv, NEW s \in Seeders,
           DeleteDeliveries(s) \/ DeleteMessages(s) \/ DeleteStreams(s)
             \/ DeleteOperations(s) \/ LockCounters(s)
    PROVE  LocksInv'
<1> USE ActorsAreOfAKind, StepsAreNamed DEF LocksInv, LabTypes
<1>t. /\ {"deliveries", "messages"} \in SUBSET Tables /\ {} \in SUBSET Tables
      /\ {"streams"} \in SUBSET Tables /\ {"operations"} \in SUBSET Tables
      /\ {"counters"} \in SUBSET Tables
  BY TablesAreSix DEF Tables, TableOrder
<1>r. \A which \in SUBSET Seeded :
        /\ {"streams"} \X which \in SUBSET LockableRows
        /\ {"counters"} \X which \in SUBSET LockableRows
  BY DEF LockableRows, Conversations
<1>e. {} \in SUBSET LockableRows
  OBVIOUS
<1>d. /\ OfPlan(deliveries) \in SUBSET Sends /\ OfPlan(messages) \in SUBSET Messages
      /\ {c \in Seeded : next[c] # 0} \in SUBSET Conversations
      /\ DeletedOperations(s) \in SUBSET Keys
  BY DEF OfPlan, DeletedOperations, Keys, Conversations, TypeOK
<1>f. /\ \A what \in SUBSET Sends : Collect(s, "deliveries", what) => deleted' \in [Seeders -> Deletions]
      /\ \A what \in SUBSET Messages : Collect(s, "messages", what) => deleted' \in [Seeders -> Deletions]
      /\ \A what \in SUBSET Conversations : Collect(s, "streams", what) => deleted' \in [Seeders -> Deletions]
      /\ \A what \in SUBSET Keys : Collect(s, "operations", what) => deleted' \in [Seeders -> Deletions]
  BY DEF Collect, Deletions
<1>g. \A field, what : Collect(s, field, what) => \A t \in Seeders \ {s} : deleted'[t] = deleted[t]
  BY DEF Collect
<1>n. /\ \A step \in {"delete_messages", "delete_streams", "delete_operations",
                     "reset_counters", "commit_traffic"} : step \in Deleting
      /\ pc[s] \in Deleting => {"deliveries", "messages"} \subseteq held[s]
  BY DEF Deleting, DeletersHold
<1>o. /\ \A c \in deleted[s].streams : c \in Seeded /\ <<"streams", c>> \in rowLocks[s]
      /\ \A m \in deleted[s].messages : m.conv \in Seeded
  BY DEF DeletersHold
<1>m. \A field, what : Collect(s, field, what) =>
        /\ field # "streams" => deleted'[s].streams = deleted[s].streams
        /\ field # "messages" => deleted'[s].messages = deleted[s].messages
  BY DEF Collect, Deletions
<1>l. \A rs : TakeRows(s, rs) => rowLocks'[s] = rowLocks[s] \cup rs
  BY DEF TakeRows, TypeOK
<1>1. CASE DeleteDeliveries(s)
  <2>1. /\ CanTakeTables(s, {"deliveries", "messages"}) /\ TakeTables(s, {"deliveries", "messages"})
        /\ Collect(s, "deliveries", OfPlan(deliveries)) /\ Goto(s, "delete_messages")
        /\ UNCHANGED <<rows, rowLocks, input, budget, history>>
    BY <1>1 DEF DeleteDeliveries
  <2>2. deleted' \in [Seeders -> Deletions] /\ \A t \in Seeders \ {s} : deleted'[t] = deleted[t]
    BY <2>1, <1>d, <1>f, <1>g
  <2>3. /\ \A c \in deleted'[s].streams : c \in Seeded /\ <<"streams", c>> \in rowLocks'[s]
        /\ \A m \in deleted'[s].messages : m.conv \in Seeded
    BY <2>1, <1>o, <1>m
  <2>4. QED
    BY <2>1, <2>2, <2>3, <1>t, <1>e, <1>n, DeletionLocksKept
<1>2. CASE DeleteMessages(s)
  <2>1. CASE StillReferenced(s)
    <3>1. /\ ReleaseLocks(s) /\ Goto(s, "idle")
          /\ deleted' = [deleted EXCEPT ![s] = NothingDeleted]
          /\ UNCHANGED <<rows, input, budget, history>>
      BY <1>2, <2>1 DEF DeleteMessages
    <3>2. Alone'
      BY <3>1, LockTypesAreTypes, ReleasingLocks
    <3>3. LabTypes'
      BY <3>1, <3>2, InputsExist DEF rows, history, TypeOK, Alone, LockTypes
    <3>4. /\ \A a \in Actors \ {s} :
                pc'[a] = pc[a] /\ held'[a] = held[a] /\ rowLocks'[a] = rowLocks[a]
          /\ pc'[s] = "idle" /\ deleted'[s] = NothingDeleted
          /\ \A t \in Seeders \ {s} : deleted'[t] = deleted[t]
      BY <3>1 DEF ReleaseLocks, Goto, TypeOK
    <3>5. SendersHold'
      BY <3>1, <3>4 DEF rows, SendersHold
    <3>6. DeletersHold'
      BY <3>4, NothingIsDeleted DEF DeletersHold, Deleting
    <3>7. QED
      BY <3>2, <3>3, <3>5, <3>6 DEF Alone
  <2>2. CASE ~StillReferenced(s)
    <3>1. /\ pc[s] = "delete_messages" /\ Collect(s, "messages", OfPlan(messages))
          /\ Goto(s, "delete_streams") /\ UNCHANGED <<rows, locks, input, budget, history>>
      BY <1>2, <2>2 DEF DeleteMessages
    <3>2. CanTakeTables(s, {}) /\ TakeTables(s, {}) /\ UNCHANGED rowLocks
      BY <3>1 DEF CanTakeTables, TakeTables, locks, TypeOK
    <3>3. deleted' \in [Seeders -> Deletions] /\ \A t \in Seeders \ {s} : deleted'[t] = deleted[t]
      BY <3>1, <1>d, <1>f, <1>g
    <3>4. \A c \in deleted'[s].streams : c \in Seeded /\ <<"streams", c>> \in rowLocks'[s]
      BY <3>1, <3>2, <1>o, <1>m
    <3>5. \A m \in deleted'[s].messages : m.conv \in Seeded
      BY <3>1 DEF Collect, Deletions, OfPlan
    <3>6. QED
      BY <3>1, <3>2, <3>3, <3>4, <3>5, <1>t, <1>e, <1>n, DeletionLocksKept
  <2>3. QED
    BY <2>1, <2>2
<1>3. CASE DeleteStreams(s)
  <2> DEFINE streams == {c \in Seeded : next[c] # 0}
             rs == {"streams"} \X streams
  <2>1. /\ CanTakeTables(s, {"streams"}) /\ TakeTables(s, {"streams"})
        /\ CanTakeRows(s, rs) /\ TakeRows(s, rs)
        /\ Collect(s, "streams", streams)
        /\ pc[s] = "delete_streams" /\ Goto(s, "delete_operations")
        /\ UNCHANGED <<rows, input, budget, history>>
    BY <1>3 DEF DeleteStreams
  <2>2. rs \in SUBSET LockableRows
    BY <1>r
  <2>3. deleted'[s].streams = streams /\ \A c \in streams : c \in Seeded /\ <<"streams", c>> \in rs
    BY <2>1 DEF Collect, Deletions
  <2>4. streams \in SUBSET Conversations
    BY <1>d
  <2> HIDE DEF rs, streams
  <2>5. deleted' \in [Seeders -> Deletions] /\ \A t \in Seeders \ {s} : deleted'[t] = deleted[t]
    BY <2>1, <2>4, <1>f, <1>g
  <2>6. \A c \in deleted'[s].streams : c \in Seeded /\ <<"streams", c>> \in rowLocks'[s]
    BY <2>1, <2>3, <1>l
  <2>7. \A m \in deleted'[s].messages : m.conv \in Seeded
    BY <2>1, <1>o, <1>m
  <2>8. QED
    BY <2>1, <2>2, <2>5, <2>6, <2>7, <1>t, <1>n, DeletionLocksKept
<1>4. CASE DeleteOperations(s)
  <2>1. /\ CanTakeTables(s, {"operations"}) /\ TakeTables(s, {"operations"})
        /\ Collect(s, "operations", DeletedOperations(s))
        /\ pc[s] = "delete_operations" /\ Goto(s, "reset_counters")
        /\ UNCHANGED <<rows, rowLocks, input, budget, history>>
    BY <1>4 DEF DeleteOperations
  <2>2. deleted' \in [Seeders -> Deletions] /\ \A t \in Seeders \ {s} : deleted'[t] = deleted[t]
    BY <2>1, <1>d, <1>f, <1>g
  <2>3. /\ \A c \in deleted'[s].streams : c \in Seeded /\ <<"streams", c>> \in rowLocks'[s]
        /\ \A m \in deleted'[s].messages : m.conv \in Seeded
    BY <2>1, <1>o, <1>m
  <2>4. QED
    BY <2>1, <2>2, <2>3, <1>t, <1>e, <1>n, DeletionLocksKept
<1>5. CASE LockCounters(s)
  <2> DEFINE rs == {"counters"} \X {c \in Seeded : counter[c] # 0}
  <2>1. /\ CanTakeTables(s, {"counters"}) /\ TakeTables(s, {"counters"})
        /\ CanTakeRows(s, rs) /\ TakeRows(s, rs)
        /\ pc[s] = "reset_counters" /\ Goto(s, "commit_traffic")
        /\ UNCHANGED <<rows, input, deleted, budget, history>>
    BY <1>5 DEF LockCounters
  <2>2. rs \in SUBSET LockableRows
    BY <1>r
  <2> HIDE DEF rs
  <2>3. /\ \A c \in deleted'[s].streams : c \in Seeded /\ <<"streams", c>> \in rowLocks'[s]
        /\ \A m \in deleted'[s].messages : m.conv \in Seeded
        /\ deleted' \in [Seeders -> Deletions] /\ \A t \in Seeders \ {s} : deleted'[t] = deleted[t]
    BY <2>1, <1>o, <1>l
  <2>4. QED
    BY <2>1, <2>2, <2>3, <1>t, <1>n, DeletionLocksKept
<1>6. QED
  BY <1>1, <1>2, <1>3, <1>4, <1>5

LEMMA CommitTrafficLocksKept ==
    ASSUME LocksInv, NEW s \in Seeders, CommitTraffic(s)
    PROVE  LocksInv'
<1> USE ActorsAreOfAKind, StepsAreNamed, StatusesAreNamed DEF LocksInv, LabTypes
<1>1. Alone'
  BY LockTypesAreTypes, ReleasingLocks DEF CommitTraffic
<1>2. /\ deliveries' \subseteq Sends /\ messages' \subseteq Messages
  BY DEF CommitTraffic, KeptMessages, TypeOK
<1>3. /\ next' \in [Conversations -> 0..(MaxPosition + 1)]
      /\ counter' \in [Conversations -> Nat]
  BY LabAssumption DEF CommitTraffic, TypeOK
<1>4. operations' \in [Keys -> Statuses] /\ lease' \in [Keys -> SUBSET Clients]
  BY DEF CommitTraffic, TypeOK
<1>5. overlapped' \in BOOLEAN
  BY DEF CommitTraffic, TypeOK
<1>6. LabTypes'
  BY <1>1, <1>2, <1>3, <1>4, <1>5, InputsExist DEF CommitTraffic, TypeOK, Alone, LockTypes
<1>7. /\ \A a \in Actors \ {s} :
            pc'[a] = pc[a] /\ held'[a] = held[a] /\ rowLocks'[a] = rowLocks[a]
      /\ pc'[s] = "conversations" /\ deleted'[s] = NothingDeleted
      /\ \A t \in Seeders \ {s} : deleted'[t] = deleted[t]
      /\ UNCHANGED <<population, input>>
  BY DEF CommitTraffic, ReleaseLocks, Goto, TypeOK
<1>8. SendersHold'
  BY <1>7 DEF SendersHold
<1>9. DeletersHold'
  BY <1>7, NothingIsDeleted DEF DeletersHold, Deleting
<1>10. QED
  BY <1>1, <1>6, <1>8, <1>9 DEF Alone

LEMMA RollBackLocksKept ==
    ASSUME LocksInv, NEW a \in Actors, RollBack(a)
    PROVE  LocksInv'
<1> USE ActorsAreOfAKind, StepsAreNamed DEF LocksInv, LabTypes
<1> DEFINE step == IF a \in Clients THEN "release" ELSE "idle"
<1>1. /\ ReleaseLocks(a) /\ Goto(a, step)
      /\ deleted' = IF a \in Seeders THEN [deleted EXCEPT ![a] = NothingDeleted] ELSE deleted
      /\ UNCHANGED <<rows, input, budget, history>>
  BY DEF RollBack
<1>2. Alone'
  BY <1>1, LockTypesAreTypes, ReleasingLocks
<1>3. LabTypes'
  BY <1>1, <1>2, InputsExist DEF rows, history, TypeOK, Alone, LockTypes
<1>4. /\ \A b \in Actors \ {a} :
            pc'[b] = pc[b] /\ held'[b] = held[b] /\ rowLocks'[b] = rowLocks[b]
      /\ pc'[a] = step /\ held'[a] = {} /\ rowLocks'[a] = {}
      /\ \A t \in Seeders : deleted'[t] = IF t = a THEN NothingDeleted ELSE deleted[t]
  BY <1>1 DEF ReleaseLocks, Goto, TypeOK
<1>5. SendersHold'
  BY <1>1, <1>4 DEF rows, SendersHold, Sending, Owning
<1>6. DeletersHold'
  BY <1>4, NothingIsDeleted DEF DeletersHold, Deleting
<1>7. QED
  BY <1>2, <1>3, <1>5, <1>6 DEF Alone

LEMMA LocksKept == LocksInv /\ [Next]_vars => LocksInv'
<1> SUFFICES ASSUME LocksInv, [Next]_vars PROVE LocksInv'
  OBVIOUS
<1>1. CASE UNCHANGED vars
  BY <1>1 DEF vars, rows, locks, history, LocksInv, LabTypes, TypeOK, ResetIsAlone, RowsAreAlone,
     SendersHold, DeletersHold
<1>2. CASE Next
  BY <1>2, ClientLocksKept, ResetLocksKept, SeedLocksKept, FreshLocksKept,
     CommitTrafficLocksKept, RollBackLocksKept DEF Next, SeederStep
<1>3. QED
  BY <1>1, <1>2

-----------------------------------------------------------------------------
(* What a step of a client may touch *)

LEMMA ClientsMoveAlone ==
    ASSUME LocksInv, NEW r \in Clients, ClientStep(r), ~Send(r)
    PROVE  /\ pc[r] # "idle"
           /\ \A a \in Actors \ {r} : pc'[a] = pc[a]
           /\ \A q \in Clients \ {r} : input'[q] = input[q]
           /\ pc'[r] = "idle" \/ input'[r] = input[r]
           /\ UNCHANGED <<population, deleted, quiet, overlapped>>
           /\ \A k \in Keys : k # Key(r) => operations'[k] = operations[k] /\ lease'[k] = lease[k]
<1> USE ActorsAreOfAKind DEF LocksInv, LabTypes, TypeOK, history, rows
<1>1. CASE Claim(r) \/ Find(r) \/ Reclaim(r) \/ Release(r)
  BY <1>1 DEF Claim, Reclaim, ClaimKey, Find, Release, Acquire, SetOperation, Goto, Finish
<1>2. CASE InsertStream(r) \/ LockStream(r) \/ LockCounter(r) \/ Insert(r)
  <2>1. /\ UNCHANGED <<rows, input, deleted, budget, history>> /\ pc[r] # "idle"
        /\ \E step \in Steps : Goto(r, step)
    BY <1>2, StepsAreNamed DEF InsertStream, LockStream, LockCounter, Insert, HoldStream, Outcome, Fail
  <2>2. QED
    BY <2>1 DEF Goto
<1>3. CASE Adopt(r) \/ Buffer(r) \/ Publish(r)
  <2>1. PICK step \in {"adopt", "buffer", "publish"} : Complete(r, step)
    BY <1>3 DEF Adopt, Buffer, Publish
  <2>2. QED
    BY <2>1 DEF Complete, SetOperation, Goto, Finish
<1>4. CASE Abandon(r)
  BY <1>4 DEF Abandon, Goto, Finish
<1>5. QED
  BY <1>1, <1>2, <1>3, <1>4 DEF ClientStep

(* Only the last statements of a transaction of sends change its tables.   *)
LEMMA ClientsWriteLast ==
    ASSUME NEW r \in Clients, ClientStep(r), ~(Adopt(r) \/ Buffer(r) \/ Publish(r))
    PROVE  UNCHANGED <<counter, next, messages, deliveries>>
BY DEF ClientStep, Send, Claim, Reclaim, ClaimKey, Find, Release, InsertStream, LockStream,
   LockCounter, Insert, Abandon, rows

(* ... and what they change is of a conversation whose stream they hold.   *)
LEMMA ClientsWriteWhatTheyHold ==
    ASSUME LocksInv, NEW r \in Clients, ClientStep(r), NEW c \in Conversations,
           pc[r] \notin Owning \/ c # input[r].conv
    PROVE  /\ next'[c] = next[c] /\ counter'[c] = counter[c]
           /\ \A m : m.conv = c => (m \in messages' <=> m \in messages)
           /\ \A d : d.conv = c => (d \in deliveries' <=> d \in deliveries)
<1> USE DEF LocksInv, LabTypes, TypeOK
<1>1. CASE ~(Adopt(r) \/ Buffer(r) \/ Publish(r))
  BY <1>1, ClientsWriteLast
<1>2. CASE Adopt(r) \/ Buffer(r) \/ Publish(r)
  <2>1. c # input[r].conv
    BY <1>2 DEF Adopt, Buffer, Publish, Complete, Owning
  <2>2. CASE Adopt(r)
    BY <2>1, <2>2 DEF Adopt
  <2>3. CASE Buffer(r)
    BY <2>1, <2>3 DEF Buffer
  <2>4. CASE Publish(r)
    <3>1. PICK last \in input[r].pos..MaxPosition :
            /\ messages' = {m \in messages : m.conv = input[r].conv => m.pos \notin input[r].pos..last}
                              \cup {[conv |-> input[r].conv, pos |-> q,
                                     server |-> counter[input[r].conv] + (q - input[r].pos)] :
                                       q \in input[r].pos..last}
            /\ deliveries' = deliveries \cup {[conv |-> input[r].conv, pos |-> q] :
                                                q \in input[r].pos..last}
            /\ counter' = [counter EXCEPT ![input[r].conv] = counter[input[r].conv] + (last - input[r].pos) + 1]
            /\ next' = [next EXCEPT ![input[r].conv] = last + 1]
      BY <2>4 DEF Publish
    <3>2. QED
      BY <2>1, <3>1
  <2>5. QED
    BY <1>2, <2>2, <2>3, <2>4
<1>3. QED
  BY <1>1, <1>2

(* So a stream is nobody else's to change.                                 *)
LEMMA OthersStreamsStay ==
    ASSUME LocksInv, NEW r \in Clients, NEW q \in Clients, q # r, ClientStep(r), pc[q] \in Owning
    PROVE  /\ next'[input[q].conv] = next[input[q].conv]
           /\ \A m : m.conv = input[q].conv => (m \in messages' <=> m \in messages)
<1>1. <<"streams", input[q].conv>> \in rowLocks[q]
  BY DEF LocksInv, SendersHold
<1>2. pc[r] \in Owning => input[r].conv # input[q].conv
  BY <1>1, ActorsAreOfAKind DEF LocksInv, SendersHold, RowsAreAlone
<1>3. input[q].conv \in Conversations
  BY KeysAndRowsOfASend DEF LocksInv
<1>4. QED
  BY <1>2, <1>3, ClientsWriteWhatTheyHold

-----------------------------------------------------------------------------
(* Rows: nothing outlives the reset *)

LEMMA RowsInit == Init => RowsInv
<1> SUFFICES ASSUME Init PROVE RowsInv
  OBVIOUS
<1>1. DeletesWhatIsThere /\ OneDeleter
  BY NothingIsDeleted DEF Init, DeletesWhatIsThere, OneDeleter
<1>2. DecisionsStand
  BY ActorsAreOfAKind DEF Init, DecisionsStand
<1>3. NothingOutlivesReset
  BY DEF Init, NothingOutlivesReset, PopulationIsWhole
<1>4. QED
  BY <1>1, <1>2, <1>3 DEF RowsInv

LEMMA DecisionsOutliveOthers ==
    ASSUME LocksInv, DecisionsStand,
           \A r \in Clients : pc'[r] \in {"buffer", "publish"} =>
                /\ pc'[r] = pc[r] /\ input'[r] = input[r]
                /\ next'[input[r].conv] = next[input[r].conv]
                /\ \A m \in messages' : m.conv = input[r].conv => m \in messages
    PROVE  DecisionsStand'
<1> SUFFICES ASSUME NEW r \in Clients, pc'[r] \in {"buffer", "publish"}
             PROVE  /\ pc'[r] = "buffer" => input'[r].pos > Expected(input[r].conv)' /\ ~Taken(r)'
                    /\ pc'[r] = "publish" => input'[r].pos = Expected(input[r].conv)' /\ ~Taken(r)'
  BY DEF DecisionsStand
<1>1. /\ pc'[r] = pc[r] /\ input'[r] = input[r]
      /\ next'[input[r].conv] = next[input[r].conv]
      /\ \A m \in messages' : m.conv = input[r].conv => m \in messages
  OBVIOUS
<1>2. Expected(input[r].conv)' = Expected(input[r].conv)
  BY <1>1 DEF Expected
<1>3. Taken(r)' => Taken(r)
  BY <1>1 DEF Taken, At
<1>4. QED
  BY <1>1, <1>2, <1>3 DEF DecisionsStand

LEMMA ClientsKeepDecisions ==
    ASSUME LocksInv, DecisionsStand, NEW r \in Clients, ClientStep(r)
    PROVE  DecisionsStand'
<1> USE ActorsAreOfAKind
<1>1. CASE Insert(r) /\ pc'[r] \in {"buffer", "publish"}
  <2>1. /\ UNCHANGED <<next, messages, input>>
        /\ pc' = [pc EXCEPT ![r] = Outcome(r)]
    BY <1>1 DEF Insert, Fail, Goto, rows, LocksInv, LabTypes, TypeOK
  <2>2. /\ Outcome(r) = "buffer" => ~Taken(r) /\ input[r].pos > Expected(input[r].conv)
        /\ Outcome(r) = "publish" => ~Taken(r) /\ input[r].pos = Expected(input[r].conv)
    BY DEF Outcome
  <2>3. /\ pc'[r] = Outcome(r)
        /\ \A q \in Clients \ {r} : pc'[q] = pc[q]
    BY <2>1 DEF LocksInv, LabTypes, TypeOK
  <2>4. QED
    BY <2>1, <2>2, <2>3 DEF DecisionsStand, Taken, At, Expected
<1>2. CASE pc'[r] \notin {"buffer", "publish"}
  <2>1. \A q \in Clients \ {r} : pc'[q] = pc[q] /\ input'[q] = input[q]
    <3>1. CASE Send(r)
      BY <3>1 DEF Send, Begin, Goto, LocksInv, LabTypes, TypeOK
    <3>2. CASE ~Send(r)
      BY <3>2, ClientsMoveAlone
    <3>3. QED
      BY <3>1, <3>2
  <2>2. \A q \in Clients \ {r} : pc[q] \in {"buffer", "publish"} => pc[q] \in Owning
    BY DEF Owning
  <2>3. QED
    BY <1>2, <2>1, <2>2, OthersStreamsStay, DecisionsOutliveOthers
<1>3. CASE ~Insert(r) /\ pc'[r] \in {"buffer", "publish"}
  <2>1. pc[r] \in Steps /\ pc' \in [Actors -> Steps]
    BY ClientLocksKept DEF LocksInv, LabTypes, TypeOK
  <2>2. FALSE
    BY <1>3, <2>1 DEF ClientStep, Send, Begin, Claim, Reclaim, ClaimKey, Find, Acquire, Release, InsertStream,
       LockStream, LockCounter, HoldStream, Fail, Adopt, Buffer, Publish, Complete, Abandon, Goto, Finish,
       LocksInv, LabTypes, TypeOK
  <2>3. QED
    BY <2>2
<1>4. QED
  BY <1>1, <1>2, <1>3

(* A publication, with what it writes.                                     *)
LEMMA Publishing ==
    ASSUME LabTypes, NEW r \in Clients, Publish(r)
    PROVE  \E last \in Nat :
             /\ input[r].pos <= last /\ last <= MaxPosition
             /\ CascadeEnds(input[r].conv, input[r].pos, last)
             /\ NobodyDeletesMessages(input[r].conv, input[r].pos, last)
             /\ \A m : m \in messages' <=>
                    \/ m \in messages /\ (m.conv = input[r].conv => m.pos \notin input[r].pos..last)
                    \/ \E q \in input[r].pos..last :
                        m = [conv |-> input[r].conv, pos |-> q,
                             server |-> counter[input[r].conv] + (q - input[r].pos)]
             /\ \A d : d \in deliveries' <=>
                    \/ d \in deliveries
                    \/ \E q \in input[r].pos..last : d = [conv |-> input[r].conv, pos |-> q]
             /\ counter' = [counter EXCEPT
                    ![input[r].conv] = counter[input[r].conv] + (last - input[r].pos) + 1]
             /\ next' = [next EXCEPT ![input[r].conv] = last + 1]
<1> DEFINE c == input[r].conv
           p == input[r].pos
<1>1. PICK last \in p..MaxPosition :
        /\ CascadeEnds(c, p, last)
        /\ NobodyDeletesMessages(c, p, last)
        /\ messages' = {m \in messages : m.conv = c => m.pos \notin p..last}
                          \cup {[conv |-> c, pos |-> q, server |-> counter[c] + (q - p)] :
                                   q \in p..last}
        /\ deliveries' = deliveries \cup {[conv |-> c, pos |-> q] : q \in p..last}
        /\ counter' = [counter EXCEPT ![c] = counter[c] + (last - p) + 1]
        /\ next' = [next EXCEPT ![c] = last + 1]
  BY DEF Publish
<1>2. last \in Nat /\ p <= last /\ last <= MaxPosition
  BY <1>1, LabAssumption, PointersOfASend
<1> HIDE DEF c, p
<1>3. /\ \A m : m \in messages' <=>
                    \/ m \in messages /\ (m.conv = c => m.pos \notin p..last)
                    \/ \E q \in p..last : m = [conv |-> c, pos |-> q, server |-> counter[c] + (q - p)]
      /\ \A d : d \in deliveries' <=>
                    \/ d \in deliveries
                    \/ \E q \in p..last : d = [conv |-> c, pos |-> q]
  BY <1>1
<1>4. QED
  BY <1>1, <1>2, <1>3 DEF c, p

(* A send commits with the member row it locked, so its conversation is    *)
(* there; and what it replaces is not what a seeder collected.             *)
LEMMA PublishKeepsRows ==
    ASSUME LocksInv, RowsInv, NEW r \in Clients, Publish(r)
    PROVE  DeletesWhatIsThere' /\ NothingOutlivesReset'
<1> DEFINE c == input[r].conv
           p == input[r].pos
<1>1. PICK last \in Nat :
             /\ p <= last /\ last <= MaxPosition
             /\ NobodyDeletesMessages(c, p, last)
             /\ \A m : m \in messages' <=>
                    \/ m \in messages /\ (m.conv = c => m.pos \notin p..last)
                    \/ \E q \in p..last : m = [conv |-> c, pos |-> q, server |-> counter[c] + (q - p)]
             /\ \A d : d \in deliveries' <=>
                    \/ d \in deliveries
                    \/ \E q \in p..last : d = [conv |-> c, pos |-> q]
             /\ counter' = [counter EXCEPT ![c] = counter[c] + (last - p) + 1]
             /\ next' = [next EXCEPT ![c] = last + 1]
  BY Publishing DEF LocksInv
<1>2. UNCHANGED <<population, deleted>>
  BY DEF Publish, Complete
<1>3. c \in Conversations /\ p \in Nat /\ counter[c] \in Nat
  BY KeysAndRowsOfASend, PointersOfASend DEF LocksInv
<1>4. c \in population
  BY DEF Publish, Complete, LocksInv, SendersHold, Sending, Owning
<1> HIDE DEF c, p
<1>5. counter[c] > 0
  BY <1>3, <1>4 DEF RowsInv, NothingOutlivesReset, PopulationIsWhole
<1>6. DeletesWhatIsThere'
  <2>1. \A s \in Seeders : \A m \in deleted[s].messages : m.conv = c => m.pos \notin p..last
    BY <1>1 DEF NobodyDeletesMessages
  <2>2. \A s \in Seeders : \A m \in deleted'[s].messages : m \in messages'
    BY <1>1, <1>2, <2>1 DEF RowsInv, DeletesWhatIsThere
  <2>3. ASSUME NEW s \in Seeders, NEW m \in deleted'[s].messages, NEW d \in deliveries',
               d.conv = m.conv, d.pos = m.pos
        PROVE  d \in deleted'[s].deliveries
    <3>1. d \in deliveries
      BY <1>1, <1>2, <2>1, <2>3
    <3>2. QED
      BY <1>2, <2>3, <3>1 DEF RowsInv, DeletesWhatIsThere
  <2>4. QED
    BY <2>2, <2>3 DEF DeletesWhatIsThere
<1>7. PopulationIsWhole'
  <2>1. counter'[c] > 0 /\ \A d \in Conversations : d # c => counter'[d] = counter[d]
    BY <1>1, <1>3 DEF LocksInv, LabTypes, TypeOK
  <2>2. QED
    BY <1>2, <1>4, <2>1 DEF RowsInv, NothingOutlivesReset, PopulationIsWhole
<1>8. \A d \in Conversations : next'[d] # 0 => d \in population'
  <2>1. \A d \in Conversations : d # c => next'[d] = next[d]
    BY <1>1
  <2>2. QED
    BY <1>2, <1>4, <2>1 DEF RowsInv, NothingOutlivesReset
<1>9. ASSUME NEW m \in messages'
      PROVE  m.conv \in population'
  BY <1>1, <1>2, <1>4 DEF RowsInv, NothingOutlivesReset
<1>10. ASSUME NEW d \in deliveries'
       PROVE  \E m \in At(messages, d.conv, d.pos)' : m.server > 0
  <2>1. CASE d.conv = c /\ d.pos \in p..last
    <3> DEFINE new == [conv |-> c, pos |-> d.pos, server |-> counter[c] + (d.pos - p)]
    <3>1. new \in messages' /\ new.conv = d.conv /\ new.pos = d.pos
      BY <1>1, <2>1
    <3>2. new.server > 0
      BY <1>3, <1>5, <2>1
    <3>3. QED
      BY <3>1, <3>2 DEF At
  <2>2. CASE ~(d.conv = c /\ d.pos \in p..last)
    <3>1. d \in deliveries
      BY <1>1, <2>2
    <3>2. PICK m \in messages : m.conv = d.conv /\ m.pos = d.pos /\ m.server > 0
      BY <3>1 DEF RowsInv, NothingOutlivesReset, At
    <3>3. m \in messages'
      BY <1>1, <2>2, <3>2
    <3>4. QED
      BY <3>2, <3>3 DEF At
  <2>3. QED
    BY <2>1, <2>2
<1>11. QED
  BY <1>6, <1>7, <1>8, <1>9, <1>10 DEF NothingOutlivesReset

LEMMA ClientsKeepRows ==
    ASSUME LocksInv, RowsInv, NEW r \in Clients, ClientStep(r)
    PROVE  RowsInv'
<1> DEFINE c == input[r].conv
<1>1. DecisionsStand'
  BY ClientsKeepDecisions DEF RowsInv
<1>2. UNCHANGED <<population, deleted>>
  <2>1. CASE Send(r)
    BY <2>1 DEF Send, rows
  <2>2. CASE ~Send(r)
    BY <2>2, ClientsMoveAlone
  <2>3. QED
    BY <2>1, <2>2
<1>3. OneDeleter'
  BY <1>2 DEF RowsInv, OneDeleter
<1>4. CASE ~(Adopt(r) \/ Buffer(r) \/ Publish(r))
  <2>1. UNCHANGED <<counter, next, messages, deliveries>>
    BY <1>4, ClientsWriteLast
  <2>2. DeletesWhatIsThere' /\ NothingOutlivesReset'
    BY <1>2, <2>1 DEF RowsInv, DeletesWhatIsThere, NothingOutlivesReset, PopulationIsWhole, At
  <2>3. QED
    BY <1>1, <1>3, <2>2 DEF RowsInv
<1>5. CASE Publish(r)
  BY <1>1, <1>3, <1>5, PublishKeepsRows DEF RowsInv
<1>6. CASE Adopt(r) \/ Buffer(r)
  <2>1. c \in population
    BY <1>6 DEF Adopt, Buffer, Complete, LocksInv, SendersHold, Sending, Owning
  <2>2. /\ messages \subseteq messages' /\ UNCHANGED <<counter, deliveries>>
        /\ \A m \in messages' : m \in messages \/ m.conv = c
        /\ next' = [next EXCEPT ![c] = Expected(c)]
    BY <1>6 DEF Adopt, Buffer
  <2>3. \A d \in Conversations : d # c => next'[d] = next[d]
    BY <2>2
  <2> HIDE DEF c
  <2>4. DeletesWhatIsThere'
    BY <1>2, <2>2 DEF RowsInv, DeletesWhatIsThere
  <2>5. NothingOutlivesReset'
    <3>1. PopulationIsWhole' /\ \A m \in messages' : m.conv \in population'
      BY <1>2, <2>1, <2>2 DEF RowsInv, NothingOutlivesReset, PopulationIsWhole
    <3>2. \A d \in Conversations : next'[d] # 0 => d \in population'
      BY <1>2, <2>1, <2>3 DEF RowsInv, NothingOutlivesReset
    <3>3. \A d \in deliveries' : \E m \in At(messages, d.conv, d.pos)' : m.server > 0
      BY <2>2 DEF RowsInv, NothingOutlivesReset, At
    <3>4. QED
      BY <3>1, <3>2, <3>3 DEF NothingOutlivesReset
  <2>6. QED
    BY <1>1, <1>3, <2>4, <2>5 DEF RowsInv
<1>7. QED
  BY <1>4, <1>5, <1>6

(* With every table the reset finds nobody who has begun to delete.        *)
LEMMA CommitResetKeepsRows ==
    ASSUME LocksInv, RowsInv, CommitReset
    PROVE  RowsInv'
<1>1. PICK c \in Made : /\ population' = {c}
                       /\ counter' = [d \in Conversations |-> IF d = c THEN 1 ELSE 0]
  BY DEF CommitReset
<1>2. NothingOutlivesReset'
  BY <1>1 DEF CommitReset, NothingOutlivesReset, PopulationIsWhole, Conversations
<1>3. DeletesWhatIsThere' /\ OneDeleter'
  BY ResetHasEveryTable, NothingIsDeleted DEF CommitReset, DeletesWhatIsThere, OneDeleter
<1>4. \A r \in Clients : pc'[r] \notin {"buffer", "publish"}
  BY ResetHasEveryTable, ActorsAreOfAKind DEF CommitReset, Goto, Sending, Owning, LocksInv, LabTypes, TypeOK
<1>5. DecisionsStand'
  BY <1>4 DEF DecisionsStand
<1>6. QED
  BY <1>2, <1>3, <1>5 DEF RowsInv

LEMMA CommitSeedKeepsRows ==
    ASSUME LocksInv, RowsInv, NEW s \in Seeders, CommitSeed(s)
    PROVE  RowsInv'
<1>1. /\ population' = SeededPopulation /\ counter' = SeededCounters
      /\ UNCHANGED <<next, messages, deliveries, deleted, input>>
      /\ \A r \in Clients : pc'[r] = pc[r]
  BY ActorsAreOfAKind DEF CommitSeed, Goto, LocksInv, LabTypes, TypeOK
<1>2. PopulationIsWhole'
  BY <1>1 DEF SeededPopulation, SeededCounters, RowsInv, NothingOutlivesReset, PopulationIsWhole,
     LocksInv, LabTypes, TypeOK
<1>3. NothingOutlivesReset'
  BY <1>1, <1>2 DEF SeededPopulation, RowsInv, NothingOutlivesReset, At
<1>4. DeletesWhatIsThere' /\ OneDeleter'
  BY <1>1 DEF RowsInv, DeletesWhatIsThere, OneDeleter
<1>5. DecisionsStand'
  BY <1>1, DecisionsOutliveOthers DEF RowsInv
<1>6. QED
  BY <1>3, <1>4, <1>5 DEF RowsInv

(* What is deleted goes with its deliveries, and is nobody else's.         *)
LEMMA CommitTrafficKeepsRows ==
    ASSUME LocksInv, RowsInv, NEW s \in Seeders, CommitTraffic(s)
    PROVE  RowsInv'
<1>1. /\ deliveries' = deliveries \ deleted[s].deliveries
      /\ messages' = messages \ deleted[s].messages
      /\ deleted' = [deleted EXCEPT ![s] = NothingDeleted]
      /\ next' = [c \in Conversations |-> IF c \in deleted[s].streams THEN 0 ELSE next[c]]
      /\ counter' = [c \in Conversations |->
                        IF c \in Seeded /\ counter[c] # 0 THEN 1 ELSE counter[c]]
      /\ UNCHANGED <<population, input>>
  BY DEF CommitTraffic, KeptMessages
<1>2. PopulationIsWhole'
  BY <1>1 DEF RowsInv, NothingOutlivesReset, PopulationIsWhole, LocksInv, LabTypes, TypeOK
<1>3. \A c \in Conversations : next'[c] # 0 => c \in population'
  BY <1>1 DEF RowsInv, NothingOutlivesReset
<1>4. \A m \in messages' : m.conv \in population'
  BY <1>1 DEF RowsInv, NothingOutlivesReset
<1>5. ASSUME NEW d \in deliveries'
      PROVE  \E m \in At(messages, d.conv, d.pos)' : m.server > 0
  <2>1. d \in deliveries /\ d \notin deleted[s].deliveries
    BY <1>1
  <2>2. PICK m \in messages : m.conv = d.conv /\ m.pos = d.pos /\ m.server > 0
    BY <2>1 DEF RowsInv, NothingOutlivesReset, At
  <2>3. m \notin deleted[s].messages
    BY <2>1, <2>2 DEF RowsInv, DeletesWhatIsThere
  <2>4. QED
    BY <1>1, <2>2, <2>3 DEF At
<1>6. ASSUME NEW t \in Seeders, NEW m \in deleted'[t].messages
      PROVE  /\ m \in messages'
             /\ \A d \in deliveries' :
                    d.conv = m.conv /\ d.pos = m.pos => d \in deleted'[t].deliveries
  <2>1. t # s /\ deleted'[t] = deleted[t]
    BY <1>1, <1>6, NothingIsDeleted DEF LocksInv, LabTypes
  <2>2. deleted[s].messages = {}
    BY <1>6, <2>1 DEF RowsInv, OneDeleter
  <2>3. QED
    BY <1>1, <1>6, <2>1, <2>2 DEF RowsInv, DeletesWhatIsThere
<1>7. OneDeleter'
  BY <1>1, NothingIsDeleted DEF RowsInv, OneDeleter, LocksInv, LabTypes
<1>8. DecisionsStand'
  <2>1. ASSUME NEW r \in Clients, pc[r] \in {"buffer", "publish"}
        PROVE  input[r].conv \in Conversations /\ input[r].conv \notin deleted[s].streams
    <3>1. <<"streams", input[r].conv>> \in rowLocks[r]
      BY <2>1 DEF LocksInv, SendersHold, Owning
    <3>2. <<"streams", input[r].conv>> \notin rowLocks[s]
      BY <3>1, ActorsAreOfAKind DEF LocksInv, RowsAreAlone
    <3>3. QED
      BY <3>2, KeysAndRowsOfASend DEF LocksInv, DeletersHold
  <2>2. \A r \in Clients : pc'[r] = pc[r]
    BY ActorsAreOfAKind DEF CommitTraffic, Goto, LocksInv, LabTypes, TypeOK
  <2>3. QED
    BY <1>1, <2>1, <2>2, DecisionsOutliveOthers DEF RowsInv
<1>9. QED
  BY <1>2, <1>3, <1>4, <1>5, <1>6, <1>7, <1>8 DEF RowsInv, DeletesWhatIsThere, NothingOutlivesReset

(* What a statement of resetTraffic collects.                              *)
LEMMA FreshKeepsRows ==
    ASSUME LocksInv, RowsInv, NEW s \in Seeders,
           DeleteDeliveries(s) \/ DeleteMessages(s) \/ DeleteStreams(s)
             \/ DeleteOperations(s) \/ LockCounters(s)
    PROVE  RowsInv'
<1>1. UNCHANGED rows
  BY DEF DeleteDeliveries, DeleteMessages, DeleteStreams, DeleteOperations, LockCounters
<1>2. deleted \in [Seeders -> Deletions]
  BY DEF LocksInv, LabTypes
<1>3. NothingOutlivesReset'
  BY <1>1 DEF rows, RowsInv, NothingOutlivesReset, PopulationIsWhole, At
<1>d. DecisionsStand'
  <2>1. UNCHANGED input /\ \A r \in Clients : pc'[r] = pc[r]
    BY ActorsAreOfAKind DEF DeleteDeliveries, DeleteMessages, DeleteStreams, DeleteOperations,
       LockCounters, Goto, LocksInv, LabTypes, TypeOK
  <2>2. QED
    BY <1>1, <2>1, DecisionsOutliveOthers DEF RowsInv, rows
<1>4. CASE DeleteDeliveries(s)
  <2>1. deleted[s].messages = {}
    BY <1>4, NothingIsDeleted DEF DeleteDeliveries, LocksInv, DeletersHold, Deleting
  <2>2. deleted'[s].messages = {} /\ \A t \in Seeders \ {s} : deleted'[t] = deleted[t]
    BY <1>2, <1>4, <2>1 DEF DeleteDeliveries, Collect, Deletions
  <2>3. QED
    BY <1>1, <1>3, <1>d, <2>2 DEF rows, RowsInv, DeletesWhatIsThere, OneDeleter
<1>5. CASE DeleteMessages(s)
  <2>1. CASE StillReferenced(s)
    <3>1. deleted' = [deleted EXCEPT ![s] = NothingDeleted]
      BY <1>5, <2>1 DEF DeleteMessages
    <3>2. deleted'[s].messages = {} /\ \A t \in Seeders \ {s} : deleted'[t] = deleted[t]
      BY <1>2, <3>1, NothingIsDeleted
    <3>3. QED
      BY <1>1, <1>3, <1>d, <3>2 DEF rows, RowsInv, DeletesWhatIsThere, OneDeleter
  <2>2. CASE ~StillReferenced(s)
    <3>1. Collect(s, "messages", OfPlan(messages)) /\ NobodyElseDeletes(s)
      BY <1>5, <2>2 DEF DeleteMessages
    <3>2. /\ deleted'[s].messages = OfPlan(messages)
          /\ deleted'[s].deliveries = deleted[s].deliveries
          /\ \A t \in Seeders \ {s} : deleted'[t] = deleted[t]
      BY <1>2, <3>1 DEF Collect, Deletions
    <3>3. \A t \in Seeders \ {s} : deleted'[t].messages = {}
      BY <3>1, <3>2, NothingIsDeleted DEF NobodyElseDeletes
    <3>4. \A d \in deliveries : d.conv \in Seeded => d \in deleted[s].deliveries
      BY <2>2 DEF StillReferenced
    <3>5. DeletesWhatIsThere'
      BY <1>1, <3>2, <3>3, <3>4 DEF rows, OfPlan, DeletesWhatIsThere
    <3>6. OneDeleter'
      BY <3>3 DEF OneDeleter
    <3>7. QED
      BY <1>3, <1>d, <3>5, <3>6 DEF RowsInv
  <2>3. QED
    BY <2>1, <2>2
<1>6. CASE DeleteStreams(s) \/ DeleteOperations(s) \/ LockCounters(s)
  <2>1. \A t \in Seeders : /\ deleted'[t].messages = deleted[t].messages
                           /\ deleted'[t].deliveries = deleted[t].deliveries
    BY <1>2, <1>6 DEF DeleteStreams, DeleteOperations, LockCounters, Collect, Deletions
  <2>2. QED
    BY <1>1, <1>3, <1>d, <2>1 DEF rows, RowsInv, DeletesWhatIsThere, OneDeleter
<1>7. QED
  BY <1>4, <1>5, <1>6

LEMMA RollBackKeepsRows ==
    ASSUME LocksInv, RowsInv, NEW a \in Actors, RollBack(a)
    PROVE  RowsInv'
<1>1. /\ UNCHANGED rows /\ UNCHANGED input
      /\ deleted' = IF a \in Seeders THEN [deleted EXCEPT ![a] = NothingDeleted] ELSE deleted
      /\ \A r \in Clients : pc'[r] = pc[r] \/ pc'[r] = "release"
  BY ActorsAreOfAKind DEF RollBack, Goto, LocksInv, LabTypes, TypeOK
<1>2. \A t \in Seeders : deleted'[t] = deleted[t] \/ deleted'[t].messages = {}
  BY <1>1, NothingIsDeleted DEF LocksInv, LabTypes
<1>3. DeletesWhatIsThere' /\ OneDeleter'
  BY <1>1, <1>2 DEF rows, RowsInv, DeletesWhatIsThere, OneDeleter
<1>4. DecisionsStand'
  BY <1>1, DecisionsOutliveOthers DEF rows, RowsInv
<1>5. NothingOutlivesReset'
  BY <1>1 DEF rows, RowsInv, NothingOutlivesReset, PopulationIsWhole, At
<1>6. QED
  BY <1>3, <1>4, <1>5 DEF RowsInv

LEMMA RowsKept == LocksInv /\ RowsInv /\ [Next]_vars => RowsInv'
<1> SUFFICES ASSUME LocksInv, RowsInv, [Next]_vars PROVE RowsInv'
  OBVIOUS
<1>1. ASSUME UNCHANGED <<population, counter, next, messages, deliveries, deleted, input>>,
             \A r \in Clients : pc'[r] = pc[r]
      PROVE  RowsInv'
  <2>1. DecisionsStand'
    BY <1>1, DecisionsOutliveOthers DEF RowsInv
  <2>2. QED
    BY <1>1, <2>1 DEF RowsInv, DeletesWhatIsThere, OneDeleter, NothingOutlivesReset,
       PopulationIsWhole, At
<1>2. CASE UNCHANGED vars
  BY <1>1, <1>2 DEF vars, rows
<1>3. CASE BeginReset \/ LockTable
  BY <1>1, <1>3, ActorsAreOfAKind DEF BeginReset, LockTable, Begin, Goto, rows, LocksInv, LabTypes, TypeOK
<1>4. ASSUME NEW s \in Seeders, BeginSeed(s) \/ SeedConversations(s)
      PROVE  RowsInv'
  BY <1>1, <1>4, ActorsAreOfAKind DEF BeginSeed, SeedConversations, Begin, Goto, rows,
     LocksInv, LabTypes, TypeOK
<1>5. QED
  BY <1>2, <1>3, <1>4, ClientsKeepRows, CommitResetKeepsRows, CommitSeedKeepsRows,
     CommitTrafficKeepsRows, FreshKeepsRows, RollBackKeepsRows DEF Next, SeederStep

-----------------------------------------------------------------------------
(* A quiet --fresh sees all there is *)

LEMMA QuietInit == Init => QuietInv
BY ActorsAreOfAKind DEF Init, QuietInv, QuietIsQuiet, QuietSawAll, Deleting

(* Whoever takes a step is under way, and keeps its input until it ends.   *)
LEMMA SendsStayQuiet ==
    ASSUME LocksInv, QuietIsQuiet, NEW r \in Clients, pc[r] # "idle",
           \A a \in Actors \ {r} : pc'[a] = pc[a],
           \A q \in Clients \ {r} : input'[q] = input[q],
           pc'[r] = "idle" \/ input'[r] = input[r],
           UNCHANGED quiet
    PROVE  QuietIsQuiet'
BY ActorsAreOfAKind DEF QuietIsQuiet

LEMMA ClientsKeepQuietIsQuiet ==
    ASSUME LocksInv, QuietIsQuiet, NEW r \in Clients, ClientStep(r)
    PROVE  QuietIsQuiet'
<1> USE ActorsAreOfAKind
<1>1. CASE Send(r)
  <2> USE DEF LocksInv, LabTypes, TypeOK
  <2>1. PICK send \in Sends :
            /\ pc' = [pc EXCEPT ![r] = "claim"]
            /\ input' = [input EXCEPT ![r] = send]
            /\ quiet' = [s \in Seeders |-> quiet[s] /\ send.conv \notin Seeded]
    BY <1>1 DEF Send, Begin, Goto
  <2>2. ASSUME NEW s \in Seeders, quiet'[s], pc'[s] # "idle", NEW q \in Clients, pc'[q] # "idle"
        PROVE  input'[q].conv \notin Seeded
    <3>1. quiet[s] /\ send.conv \notin Seeded /\ pc[s] # "idle"
      BY <2>1, <2>2
    <3>2. CASE q = r
      BY <2>1, <3>1, <3>2
    <3>3. CASE q # r
      BY <2>1, <2>2, <3>1, <3>3 DEF QuietIsQuiet
    <3>4. QED
      BY <3>2, <3>3
  <2>3. QED
    BY <2>2 DEF QuietIsQuiet
<1>2. CASE ~Send(r)
  BY <1>2, ClientsMoveAlone, SendsStayQuiet
<1>3. QED
  BY <1>1, <1>2

LEMMA QuietIsQuietKept == LocksInv /\ QuietIsQuiet /\ [Next]_vars => QuietIsQuiet'
<1> SUFFICES ASSUME LocksInv, QuietIsQuiet, [Next]_vars PROVE QuietIsQuiet'
  OBVIOUS
<1> USE ActorsAreOfAKind DEF LocksInv, LabTypes, TypeOK
<1>1. CASE UNCHANGED vars
  BY <1>1 DEF vars, history, QuietIsQuiet
<1>2. CASE BeginReset \/ LockTable \/ CommitReset
  <2>1. /\ \A a \in Actors \ {Resetter} : pc'[a] = pc[a]
        /\ UNCHANGED <<quiet, input>>
    BY <1>2 DEF BeginReset, LockTable, CommitReset, Begin, Goto, history
  <2>2. QED
    BY <2>1 DEF QuietIsQuiet
<1>3. ASSUME NEW s \in Seeders, BeginSeed(s)
      PROVE  QuietIsQuiet'
  <2>1. /\ \A a \in Actors \ {s} : pc'[a] = pc[a]
        /\ UNCHANGED input
        /\ quiet' = [quiet EXCEPT ![s] = \A r \in Clients : pc[r] = "idle" \/ input[r].conv \notin Seeded]
    BY <1>3 DEF BeginSeed, Begin, Goto
  <2>2. \A r \in Clients : pc'[r] = pc[r] /\ input'[r] = input[r]
    BY <2>1
  <2>3. ASSUME NEW t \in Seeders, quiet'[t], pc'[t] # "idle", NEW r \in Clients
        PROVE  pc'[r] = "idle" \/ input'[r].conv \notin Seeded
    <3>1. CASE t = s
      BY <2>1, <2>2, <2>3, <3>1
    <3>2. CASE t # s
      BY <2>1, <2>2, <2>3, <3>2 DEF QuietIsQuiet
    <3>3. QED
      BY <3>1, <3>2
  <2>4. QED
    BY <2>3 DEF QuietIsQuiet
<1>4. ASSUME NEW s \in Seeders,
             \/ SeedConversations(s) \/ CommitSeed(s)
             \/ DeleteDeliveries(s) \/ DeleteMessages(s) \/ DeleteStreams(s)
             \/ DeleteOperations(s) \/ LockCounters(s) \/ CommitTraffic(s)
      PROVE  QuietIsQuiet'
  <2>1. pc[s] # "idle" /\ (\A a \in Actors \ {s} : pc'[a] = pc[a]) /\ UNCHANGED <<quiet, input>>
    BY <1>4 DEF SeedConversations, CommitSeed, DeleteDeliveries, DeleteMessages, DeleteStreams,
       DeleteOperations, LockCounters, CommitTraffic, Goto, history
  <2>2. QED
    BY <2>1 DEF QuietIsQuiet
<1>5. ASSUME NEW a \in Actors, RollBack(a)
      PROVE  QuietIsQuiet'
  <2>1. /\ \A b \in Actors \ {a} : pc'[b] = pc[b]
        /\ UNCHANGED <<quiet, input>>
        /\ a \in Seeders => pc'[a] = "idle"
    BY <1>5 DEF RollBack, Goto, history
  <2>2. CASE a \in Clients
    <3>1. pc[a] # "idle"
      BY <1>5, <2>2 DEF RollBack, Effect
    <3>2. QED
      BY <2>1, <2>2, <3>1, SendsStayQuiet
  <2>3. CASE a \notin Clients
    BY <2>1, <2>3 DEF QuietIsQuiet
  <2>4. QED
    BY <2>2, <2>3
<1>6. QED
  BY <1>1, <1>2, <1>3, <1>4, <1>5, ClientsKeepQuietIsQuiet DEF Next, SeederStep

-----------------------------------------------------------------------------
(* What a client may add while somebody is quiet is of other plans.        *)
LEMMA ClientsKeepQuietSawAll ==
    ASSUME LocksInv, QuietInv, NEW r \in Clients, ClientStep(r)
    PROVE  QuietSawAll'
<1> SUFFICES ASSUME NEW s \in Seeders, quiet'[s], pc'[s] \in Deleting
             PROVE  /\ OfPlan(deliveries') \subseteq deleted'[s].deliveries
                    /\ pc'[s] \in Deleting \ {"delete_messages"} =>
                         OfPlan(messages') \subseteq deleted'[s].messages
                    /\ pc'[s] \in Deleting \ {"delete_messages", "delete_streams"} =>
                         {c \in Seeded : next'[c] # 0} \subseteq deleted'[s].streams
                    /\ pc'[s] \in {"reset_counters", "commit_traffic"} =>
                         {k \in Seeded \X Positions : operations'[k] # "none"}
                            \subseteq deleted'[s].operations
  BY DEF QuietSawAll, OfPlan, Deleting
<1> USE ActorsAreOfAKind
<1>1. CASE Send(r)
  <2>1. quiet[s] /\ pc[s] = pc'[s] /\ UNCHANGED <<rows, deleted>>
    BY <1>1 DEF Send, Begin, Goto, LocksInv, LabTypes, TypeOK
  <2>2. QED
    BY <2>1 DEF rows, QuietInv, QuietSawAll, OfPlan
<1>2. CASE ~Send(r)
  <2>1. /\ quiet[s] /\ pc[s] = pc'[s] /\ deleted' = deleted /\ pc[r] # "idle" /\ pc[s] # "idle"
    BY <1>2, ClientsMoveAlone DEF Deleting
  <2>2. input[r].conv \notin Seeded /\ Key(r) \in Keys /\ input[r].conv \in Conversations
    BY <2>1, KeysAndRowsOfASend DEF QuietInv, QuietIsQuiet, LocksInv
  <2>3. \A k \in Seeded \X Positions : operations'[k] = operations[k]
    <3>1. \A k \in Seeded \X Positions : k # Key(r) /\ k \in Keys
      BY <2>2 DEF Key, Keys, Conversations
    <3>2. QED
      BY <1>2, <3>1, ClientsMoveAlone
  <2>4. \A c \in Seeded : /\ next'[c] = next[c]
                          /\ \A m : m.conv = c => (m \in messages' <=> m \in messages)
                          /\ \A d : d.conv = c => (d \in deliveries' <=> d \in deliveries)
    BY <2>2, ClientsWriteWhatTheyHold DEF Conversations
  <2>5. OfPlan(messages') \subseteq OfPlan(messages) /\ OfPlan(deliveries') \subseteq OfPlan(deliveries)
    BY <2>4 DEF OfPlan
  <2>6. QED
    BY <2>1, <2>3, <2>4, <2>5 DEF QuietInv, QuietSawAll, Deleting
<1>3. QED
  BY <1>1, <1>2

(* Each statement of the seeder itself sees all that is committed.         *)
LEMMA FreshSeesAll ==
    ASSUME LocksInv, QuietInv, NEW s \in Seeders,
           DeleteDeliveries(s) \/ DeleteMessages(s) \/ DeleteStreams(s)
             \/ DeleteOperations(s) \/ LockCounters(s)
    PROVE  QuietSawAll'
<1> USE DEF LocksInv, LabTypes, TypeOK
<1>1. UNCHANGED rows /\ UNCHANGED quiet
  BY DEF DeleteDeliveries, DeleteMessages, DeleteStreams, DeleteOperations, LockCounters, history
<1>2. \A t \in Seeders \ {s} : pc'[t] = pc[t] /\ deleted'[t] = deleted[t]
  BY ActorsAreOfAKind DEF DeleteDeliveries, DeleteMessages, DeleteStreams, DeleteOperations,
     LockCounters, Goto, Collect
<1> DEFINE Saw(t) ==
        quiet'[t] =>
        /\ pc'[t] \in Deleting =>
            OfPlan(deliveries') \subseteq deleted'[t].deliveries
        /\ pc'[t] \in Deleting \ {"delete_messages"} =>
            OfPlan(messages') \subseteq deleted'[t].messages
        /\ pc'[t] \in Deleting \ {"delete_messages", "delete_streams"} =>
            {c \in Seeded : next'[c] # 0} \subseteq deleted'[t].streams
        /\ pc'[t] \in {"reset_counters", "commit_traffic"} =>
            {k \in Seeded \X Positions : operations'[k] # "none"} \subseteq deleted'[t].operations
<1>3. \A t \in Seeders \ {s} : Saw(t)
  BY <1>1, <1>2 DEF rows, QuietInv, QuietSawAll, OfPlan
<1>s. s \in Actors
  BY ActorsAreOfAKind
<1>4. CASE DeleteDeliveries(s)
  <2>1. pc'[s] = "delete_messages" /\ deleted'[s].deliveries = OfPlan(deliveries)
    BY <1>s, <1>4 DEF DeleteDeliveries, Goto, Collect, Deletions
  <2>2. Saw(s)
    BY <1>1, <2>1 DEF rows, OfPlan
  <2>3. QED
    BY <1>3, <2>2 DEF QuietSawAll, OfPlan
<1>5. CASE DeleteMessages(s)
  <2>1. CASE StillReferenced(s)
    <3>1. pc'[s] = "idle"
      BY <1>s, <1>5, <2>1 DEF DeleteMessages, Goto
    <3>2. Saw(s)
      BY <3>1 DEF Deleting
    <3>3. QED
      BY <1>3, <3>2 DEF QuietSawAll, OfPlan
  <2>2. CASE ~StillReferenced(s)
    <3>1. /\ pc'[s] = "delete_streams" /\ deleted'[s].deliveries = deleted[s].deliveries
          /\ deleted'[s].messages = OfPlan(messages)
      BY <1>s, <1>5, <2>2 DEF DeleteMessages, Goto, Collect, Deletions
    <3>2. OfPlan(deliveries) \subseteq deleted[s].deliveries
      BY <2>2 DEF StillReferenced, OfPlan
    <3>3. Saw(s)
      BY <1>1, <3>1, <3>2 DEF rows, OfPlan
    <3>4. QED
      BY <1>3, <3>3 DEF QuietSawAll, OfPlan
  <2>3. QED
    BY <2>1, <2>2
<1>6. CASE DeleteStreams(s)
  <2>1. /\ pc[s] = "delete_streams" /\ pc'[s] = "delete_operations"
        /\ deleted'[s].deliveries = deleted[s].deliveries
        /\ deleted'[s].messages = deleted[s].messages
        /\ deleted'[s].streams = {c \in Seeded : next[c] # 0}
    BY <1>s, <1>6 DEF DeleteStreams, Goto, Collect, Deletions
  <2>2. Saw(s)
    BY <1>1, <2>1 DEF rows, OfPlan, QuietInv, QuietSawAll, Deleting
  <2>3. QED
    BY <1>3, <2>2 DEF QuietSawAll, OfPlan
<1>7. CASE DeleteOperations(s)
  <2>1. /\ pc[s] = "delete_operations" /\ pc'[s] = "reset_counters"
        /\ deleted'[s].deliveries = deleted[s].deliveries
        /\ deleted'[s].messages = deleted[s].messages
        /\ deleted'[s].streams = deleted[s].streams
        /\ deleted'[s].operations = DeletedOperations(s)
    BY <1>s, <1>7 DEF DeleteOperations, Goto, Collect, Deletions
  <2>2. Saw(s)
    BY <1>1, <2>1 DEF rows, OfPlan, QuietInv, QuietSawAll, Deleting, DeletedOperations
  <2>3. QED
    BY <1>3, <2>2 DEF QuietSawAll, OfPlan
<1>8. CASE LockCounters(s)
  <2>1. /\ pc[s] = "reset_counters" /\ pc'[s] = "commit_traffic" /\ deleted' = deleted
    BY <1>s, <1>8 DEF LockCounters, Goto
  <2>2. Saw(s)
    BY <1>1, <2>1 DEF rows, OfPlan, QuietInv, QuietSawAll, Deleting
  <2>3. QED
    BY <1>3, <2>2 DEF QuietSawAll, OfPlan
<1>9. QED
  BY <1>4, <1>5, <1>6, <1>7, <1>8

LEMMA QuietSawAllKept == LocksInv /\ QuietInv /\ [Next]_vars => QuietSawAll'
<1> SUFFICES ASSUME LocksInv, QuietInv, [Next]_vars PROVE QuietSawAll'
  OBVIOUS
<1> USE ActorsAreOfAKind DEF LocksInv, LabTypes, TypeOK
<1>f. ASSUME UNCHANGED <<next, messages, deliveries, operations>>,
             NEW a \in Actors, \A t \in Seeders \ {a} : /\ pc'[t] = pc[t]
                                                     /\ deleted'[t] = deleted[t]
                                                     /\ quiet'[t] = quiet[t],
             a \in Seeders => pc'[a] \notin Deleting
      PROVE  QuietSawAll'
  BY <1>f DEF QuietInv, QuietSawAll, OfPlan, Deleting
<1>1. CASE UNCHANGED vars
  BY <1>1 DEF vars, rows, history, QuietInv, QuietSawAll, OfPlan
<1>2. CASE BeginReset \/ LockTable
  BY <1>2, <1>f DEF BeginReset, LockTable, Begin, Goto, rows, history
<1>3. CASE CommitReset
  <2>1. held[Resetter] = Tables
    BY <1>3, ResetCountsItsTables DEF CommitReset
  <2>2. \A s \in Seeders : pc[s] \notin Deleting /\ pc'[s] = pc[s]
    BY <1>3, <2>1 DEF CommitReset, Goto, ResetIsAlone, DeletersHold
  <2>3. QED
    BY <2>2 DEF QuietSawAll, Deleting
<1>4. ASSUME NEW s \in Seeders, BeginSeed(s) \/ SeedConversations(s) \/ CommitSeed(s)
      PROVE  QuietSawAll'
  <2>1. /\ pc'[s] \notin Deleting
        /\ UNCHANGED <<next, messages, deliveries, operations>>
        /\ \A t \in Seeders \ {s} : /\ pc'[t] = pc[t] /\ deleted'[t] = deleted[t]
                                  /\ quiet'[t] = quiet[t]
    BY <1>4 DEF BeginSeed, SeedConversations, CommitSeed, Begin, Goto, rows, history, Deleting
  <2>2. QED
    BY <2>1, <1>f
<1>5. ASSUME NEW a \in Actors, RollBack(a)
      PROVE  QuietSawAll'
  <2>1. /\ a \in Seeders => pc'[a] \notin Deleting
        /\ UNCHANGED <<next, messages, deliveries, operations>>
        /\ \A t \in Seeders \ {a} : /\ pc'[t] = pc[t] /\ deleted'[t] = deleted[t]
                                  /\ quiet'[t] = quiet[t]
    BY <1>5 DEF RollBack, Goto, rows, history, Deleting
  <2>2. QED
    BY <2>1, <1>f
<1>6. ASSUME NEW s \in Seeders, CommitTraffic(s)
      PROVE  QuietSawAll'
  <2>1. /\ pc'[s] \notin Deleting
        /\ \A t \in Seeders \ {s} : /\ pc'[t] = pc[t] /\ deleted'[t] = deleted[t]
                                  /\ quiet'[t] = quiet[t]
    BY <1>6 DEF CommitTraffic, Goto, Deleting
  <2>2. /\ OfPlan(deliveries') \subseteq OfPlan(deliveries)
        /\ OfPlan(messages') \subseteq OfPlan(messages)
        /\ {c \in Seeded : next'[c] # 0} \subseteq {c \in Seeded : next[c] # 0}
        /\ {k \in Seeded \X Positions : operations'[k] # "none"}
             \subseteq {k \in Seeded \X Positions : operations[k] # "none"}
    BY <1>6 DEF CommitTraffic, KeptMessages, OfPlan, Keys, Conversations
  <2>3. ASSUME NEW t \in Seeders, quiet'[t], t # s
        PROVE  /\ pc'[t] \in Deleting =>
                    OfPlan(deliveries') \subseteq deleted'[t].deliveries
               /\ pc'[t] \in Deleting \ {"delete_messages"} =>
                    OfPlan(messages') \subseteq deleted'[t].messages
               /\ pc'[t] \in Deleting \ {"delete_messages", "delete_streams"} =>
                    {c \in Seeded : next'[c] # 0} \subseteq deleted'[t].streams
               /\ pc'[t] \in {"reset_counters", "commit_traffic"} =>
                    {k \in Seeded \X Positions : operations'[k] # "none"}
                        \subseteq deleted'[t].operations
    BY <2>1, <2>2, <2>3 DEF QuietInv, QuietSawAll
  <2>4. QED
    BY <2>1, <2>3 DEF QuietSawAll, OfPlan, Deleting
<1>7. QED
  BY <1>1, <1>2, <1>3, <1>4, <1>5, <1>6, ClientsKeepQuietSawAll, FreshSeesAll DEF Next, SeederStep

-----------------------------------------------------------------------------
(* Messages agree with their pointer and their counter *)

LEMMA AgreesInit == Init => AgreeWhereQuiet
BY DEF Init, AgreeWhereQuiet

LEMMA MessagesAreTyped ==
    ASSUME LabTypes, NEW m \in messages
    PROVE  /\ m.conv \in Conversations /\ m.pos \in Nat /\ m.pos >= 1 /\ m.server \in Nat
           /\ counter[m.conv] \in Nat /\ next[m.conv] \in Nat
<1>1. m \in Messages /\ MaxPosition \in Nat
  BY LabAssumption DEF LabTypes, TypeOK
<1>2. m.conv \in Conversations /\ m.pos \in Nat /\ m.pos >= 1 /\ m.server \in Nat
  BY <1>1 DEF Messages, Positions
<1>3. counter[m.conv] \in Nat /\ next[m.conv] \in 0..(MaxPosition + 1)
  BY <1>2 DEF LabTypes, TypeOK
<1>4. QED
  BY <1>1, <1>2, <1>3

(* A message that agrees has a stream.                                     *)
LEMMA AgreeingHasAStream ==
    ASSUME LabTypes, NEW m \in messages, Agrees(m)
    PROVE  next[m.conv] > 0 /\ Expected(m.conv) = next[m.conv]
BY MessagesAreTyped DEF Agrees, Expected

LEMMA AgreementStays ==
    ASSUME LabTypes, LabTypes', NEW m \in messages, Agrees(m), next'[m.conv] = next[m.conv],
           counter'[m.conv] = counter[m.conv] \/ counter[m.conv] = 0
    PROVE  Agrees(m)'
<1>1. counter'[m.conv] \in Nat
  BY MessagesAreTyped DEF LabTypes, TypeOK
<1>2. QED
  BY <1>1, MessagesAreTyped DEF Agrees

(* A publication takes the pointer past the messages of its cascade, and   *)
(* the first that it leaves has a gap before it.                           *)
LEMMA PublishKeepsAgreement ==
    ASSUME LocksInv, RowsInv, AgreeWhereQuiet, NEW r \in Clients, Publish(r)
    PROVE  AgreeWhereQuiet'
<1> DEFINE c == input[r].conv
           p == input[r].pos
<1>1. PICK last \in Nat :
             /\ p <= last /\ last <= MaxPosition
             /\ CascadeEnds(c, p, last)
             /\ \A m : m \in messages' <=>
                    \/ m \in messages /\ (m.conv = c => m.pos \notin p..last)
                    \/ \E q \in p..last : m = [conv |-> c, pos |-> q, server |-> counter[c] + (q - p)]
             /\ counter' = [counter EXCEPT ![c] = counter[c] + (last - p) + 1]
             /\ next' = [next EXCEPT ![c] = last + 1]
  BY Publishing DEF LocksInv
<1>2. c \in Conversations /\ p \in Nat /\ p >= 1 /\ counter[c] \in Nat /\ p = Expected(c)
  BY KeysAndRowsOfASend, PointersOfASend DEF LocksInv, RowsInv, DecisionsStand, Publish, Complete
<1>3. c \in population
  BY DEF Publish, Complete, LocksInv, SendersHold, Sending, Owning
<1>4. UNCHANGED overlapped
  BY DEF Publish, Complete, history
<1> HIDE DEF c, p
<1>5. counter[c] > 0
  BY <1>2, <1>3 DEF RowsInv, NothingOutlivesReset, PopulationIsWhole
<1>6. counter'[c] = counter[c] + (last - p) + 1 /\ next'[c] = last + 1
  BY <1>1, <1>2 DEF LocksInv, LabTypes, TypeOK
<1>7. SUFFICES ASSUME NEW m \in messages', m.conv \notin Seeded \/ ~overlapped
               PROVE  Agrees(m)'
  BY <1>4 DEF AgreeWhereQuiet
<1>8. CASE \E q \in p..last : m = [conv |-> c, pos |-> q, server |-> counter[c] + (q - p)]
  <2>1. PICK q \in p..last : m = [conv |-> c, pos |-> q, server |-> counter[c] + (q - p)]
    BY <1>8
  <2>2. m.conv = c /\ m.pos = q /\ m.server = counter[c] + (q - p)
    BY <2>1
  <2>3. q \in Nat /\ p <= q /\ q <= last
    BY <1>2
  <2>4. m.server > 0 /\ m.server < counter'[c] /\ m.pos < next'[c]
    BY <1>2, <1>5, <1>6, <2>2, <2>3
  <2>5. QED
    BY <2>2, <2>4 DEF Agrees
<1>9. CASE m \in messages /\ (m.conv = c => m.pos \notin p..last)
  <2>1. Agrees(m)
    BY <1>7, <1>9 DEF AgreeWhereQuiet
  <2>2. CASE m.conv # c
    BY <1>1, <1>9, <2>1, <2>2, MessagesAreTyped DEF Agrees, LocksInv, LabTypes, TypeOK
  <2>3. CASE m.conv = c
    <3>1. next[c] = p
      BY <1>2, <1>9, <2>1, <2>3, AgreeingHasAStream DEF LocksInv
    <3>2. m.pos \in Nat /\ m.server \in Nat /\ m.pos \notin p..last
      BY <1>9, <2>3, MessagesAreTyped DEF LocksInv
    <3>3. m.pos # last + 1 \/ m.server # 0
      BY <1>1, <1>9, <2>3 DEF CascadeEnds, Waiting, At
    <3>4. CASE m.server > 0
      <4>1. m.server < counter[c] /\ m.pos < p
        BY <2>1, <2>3, <3>1, <3>4 DEF Agrees
      <4>2. m.server < counter'[c] /\ m.pos < next'[c]
        BY <1>1, <1>2, <1>6, <3>2, <4>1
      <4>3. QED
        BY <2>3, <3>4, <4>2 DEF Agrees
    <3>5. CASE ~(m.server > 0)
      <4>1. m.pos > p /\ m.server = 0
        BY <2>1, <2>3, <3>1, <3>2, <3>5 DEF Agrees
      <4>2. m.pos > last + 1
        BY <1>1, <1>2, <3>2, <3>3, <4>1
      <4>3. QED
        BY <1>1, <1>6, <2>3, <3>5, <4>2 DEF Agrees
    <3>6. QED
      BY <3>4, <3>5
  <2>4. QED
    BY <2>2, <2>3
<1>10. QED
  BY <1>1, <1>8, <1>9

LEMMA ClientsKeepAgreement ==
    ASSUME LocksInv, RowsInv, AgreeWhereQuiet, NEW r \in Clients, ClientStep(r)
    PROVE  AgreeWhereQuiet'
<1> DEFINE c == input[r].conv
<1>1. UNCHANGED overlapped
  BY ClientsMoveAlone DEF Send
<1>2. CASE ~(Adopt(r) \/ Buffer(r) \/ Publish(r))
  <2>1. UNCHANGED <<counter, next, messages>>
    BY <1>2, ClientsWriteLast
  <2>2. QED
    BY <1>1, <2>1 DEF AgreeWhereQuiet, Agrees
<1>3. CASE Adopt(r) \/ Buffer(r)
  <2>1. /\ UNCHANGED counter /\ next' = [next EXCEPT ![c] = Expected(c)]
        /\ \A m \in messages' : \/ m \in messages
                                \/ m.conv = c /\ m.server = 0 /\ m.pos > Expected(c)
    BY <1>3 DEF Adopt, Buffer, Complete, RowsInv, DecisionsStand
  <2>2. c \in Conversations /\ Expected(c) >= 1 /\ Expected(c) \in Nat /\ next'[c] = Expected(c)
    <3>1. c \in Conversations /\ Expected(c) \in 1..(MaxPosition + 1)
      BY KeysAndRowsOfASend, PointersOfASend DEF LocksInv
    <3>2. QED
      BY <2>1, <3>1, LabAssumption DEF LocksInv, LabTypes, TypeOK
  <2> HIDE DEF c
  <2>3. LabTypes'
    BY ClientLocksKept DEF LocksInv
  <2>4. ASSUME NEW m \in messages', m.conv \notin Seeded \/ ~overlapped
        PROVE  Agrees(m)'
    <3>1. CASE m \in messages
      <4>1. Agrees(m) /\ Expected(m.conv) = next[m.conv]
        BY <2>4, <3>1, AgreeingHasAStream DEF AgreeWhereQuiet, LocksInv
      <4>2. next'[m.conv] = next[m.conv]
        BY <2>1, <2>2, <4>1
      <4>3. QED
        BY <2>1, <2>3, <3>1, <4>1, <4>2, AgreementStays DEF LocksInv
    <3>2. CASE m.conv = c /\ m.server = 0 /\ m.pos > Expected(c)
      BY <2>2, <3>2 DEF Agrees
    <3>3. QED
      BY <2>1, <3>1, <3>2
  <2>5. QED
    BY <1>1, <2>4 DEF AgreeWhereQuiet
<1>4. QED
  BY <1>2, <1>3, PublishKeepsAgreement

LEMMA AgreementKept == LocksInv /\ RowsInv /\ QuietInv /\ AgreeWhereQuiet /\ [Next]_vars => AgreeWhereQuiet'
<1> SUFFICES ASSUME LocksInv, RowsInv, QuietInv, AgreeWhereQuiet, [Next]_vars PROVE AgreeWhereQuiet'
  OBVIOUS
<1>t. LabTypes /\ LabTypes'
  BY LocksKept DEF LocksInv
<1>f. ASSUME UNCHANGED <<messages, counter, next, overlapped>>
      PROVE  AgreeWhereQuiet'
  BY <1>f DEF AgreeWhereQuiet, Agrees
<1>1. CASE UNCHANGED vars
  BY <1>1, <1>f DEF vars, rows, history
<1>2. CASE BeginReset \/ LockTable
  BY <1>2, <1>f DEF BeginReset, LockTable, rows, history
<1>3. CASE CommitReset
  BY <1>3 DEF CommitReset, AgreeWhereQuiet
<1>4. ASSUME NEW s \in Seeders,
             \/ BeginSeed(s) \/ SeedConversations(s)
             \/ DeleteDeliveries(s) \/ DeleteMessages(s) \/ DeleteStreams(s)
             \/ DeleteOperations(s) \/ LockCounters(s)
      PROVE  AgreeWhereQuiet'
  BY <1>4, <1>f DEF BeginSeed, SeedConversations, DeleteDeliveries, DeleteMessages, DeleteStreams,
     DeleteOperations, LockCounters, rows, history
<1>5. ASSUME NEW s \in Seeders, CommitSeed(s)
      PROVE  AgreeWhereQuiet'
  <2>1. UNCHANGED <<messages, next, overlapped>> /\ counter' = SeededCounters
    BY <1>5 DEF CommitSeed, history
  <2>2. \A c \in Conversations : counter'[c] = counter[c] \/ counter[c] = 0
    BY <2>1 DEF SeededCounters
  <2>3. ASSUME NEW m \in messages, Agrees(m)
        PROVE  Agrees(m)'
    BY <1>t, <2>1, <2>2, <2>3, MessagesAreTyped, AgreementStays
  <2>4. QED
    BY <2>1, <2>3 DEF AgreeWhereQuiet
<1>6. ASSUME NEW s \in Seeders, CommitTraffic(s)
      PROVE  AgreeWhereQuiet'
  <2>1. /\ messages' = messages \ deleted[s].messages /\ overlapped' = ~quiet[s]
        /\ \A c \in Conversations : c \notin Seeded => counter'[c] = counter[c] /\ next'[c] = next[c]
    BY <1>6 DEF CommitTraffic, KeptMessages, LocksInv, DeletersHold
  <2>2. ASSUME NEW m \in messages', m.conv \notin Seeded
        PROVE  Agrees(m)'
    <3>1. m \in messages /\ Agrees(m)
      BY <2>1, <2>2 DEF AgreeWhereQuiet
    <3>2. QED
      BY <1>t, <2>1, <2>2, <3>1, MessagesAreTyped, AgreementStays
  <2>3. quiet[s] => OfPlan(messages) \subseteq deleted[s].messages
    BY <1>6 DEF CommitTraffic, QuietInv, QuietSawAll, Deleting
  <2>4. quiet[s] => \A m \in messages' : m.conv \notin Seeded
    BY <2>1, <2>3 DEF OfPlan
  <2>5. QED
    BY <2>1, <2>2, <2>4 DEF AgreeWhereQuiet
<1>7. ASSUME NEW a \in Actors, RollBack(a)
      PROVE  AgreeWhereQuiet'
  BY <1>7, <1>f DEF RollBack, rows, history
<1>8. QED
  BY <1>1, <1>2, <1>3, <1>4, <1>5, <1>6, <1>7, ClientsKeepAgreement DEF Next, SeederStep

-----------------------------------------------------------------------------
(* Answers stay true *)

LEMMA AnswersInit == Init => AnswersInv
BY ActorsAreOfAKind DEF Init, AnswersInv, StreamsComeLater, AnswersGoToo, AnsweredIsThere

(* A claim is of its client alone, and only the end of a transaction       *)
(* answers.                                                                *)
LEMMA OperationsOfAClient ==
    ASSUME LocksInv, NEW r \in Clients, ClientStep(r), NEW k \in Keys
    PROVE  \/ operations'[k] = operations[k] /\ lease'[k] = lease[k]
           \/ k = Key(r) /\ operations'[k] = "in_progress" /\ lease'[k] = {r}
           \/ k = Key(r) /\ operations'[k] = "failed" /\ lease'[k] = {}
           \/ /\ k = Key(r) /\ operations'[k] = "completed" /\ lease'[k] = {}
              /\ Adopt(r) \/ Buffer(r) \/ Publish(r)
<1> USE DEF LocksInv, LabTypes, TypeOK, rows
<1>1. CASE Claim(r) \/ Find(r) \/ Reclaim(r) \/ Release(r)
  BY <1>1 DEF Claim, Reclaim, ClaimKey, Find, Release, Acquire, SetOperation
<1>2. CASE Send(r) \/ InsertStream(r) \/ LockStream(r) \/ LockCounter(r) \/ Insert(r) \/ Abandon(r)
  BY <1>2 DEF Send, InsertStream, LockStream, LockCounter, Insert, Abandon
<1>3. CASE Adopt(r) \/ Buffer(r) \/ Publish(r)
  <2>1. SetOperation(r, "completed", {})
    BY <1>3 DEF Adopt, Buffer, Publish, Complete
  <2>2. QED
    BY <1>3, <2>1 DEF SetOperation
<1>4. QED
  BY <1>1, <1>2, <1>3 DEF ClientStep

LEMMA DeletedMessagesAreTyped ==
    ASSUME LabTypes, NEW s \in Seeders, NEW m \in deleted[s].messages
    PROVE  m.conv \in Conversations /\ m.pos \in Positions /\ m.pos \in Nat /\ m.pos >= 1
           /\ <<m.conv, m.pos>> \in Keys
<1>1. m \in Messages /\ MaxPosition \in Nat
  BY LabAssumption DEF LabTypes, Deletions
<1>2. QED
  BY <1>1 DEF Messages, Positions, Keys

(* A send that holds a stream leaves it behind what is being deleted ahead.*)
LEMMA ClientsKeepStreamsComeLater ==
    ASSUME LocksInv, RowsInv, StreamsComeLater, NEW r \in Clients, ClientStep(r)
    PROVE  StreamsComeLater'
<1> DEFINE c == input[r].conv
           p == input[r].pos
<1>1. /\ UNCHANGED deleted
      /\ \A s \in Seeders : pc'[s] = pc[s] /\ rowLocks'[s] = rowLocks[s]
  <2>1. UNCHANGED deleted /\ \A s \in Seeders : pc'[s] = pc[s]
    BY ClientsMoveAlone, ActorsAreOfAKind DEF Send, Begin, Goto, LocksInv, LabTypes, TypeOK
  <2>2. \A s \in Seeders : rowLocks'[s] = rowLocks[s]
    BY ActorsAreOfAKind DEF ClientStep, Send, Claim, Reclaim, ClaimKey, Find, Release, InsertStream,
       LockStream, LockCounter, Insert, Adopt, Buffer, Publish, Complete, Abandon, HoldStream, Fail,
       TakeRows, ReleaseLocks, locks, LocksInv, LabTypes, TypeOK
  <2>3. QED
    BY <2>1, <2>2
<1>2. SUFFICES ASSUME NEW s \in Seeders,
                      pc[s] \in {"delete_operations", "reset_counters", "commit_traffic"},
                      NEW m \in deleted[s].messages,
                      <<"streams", m.conv>> \notin rowLocks[s]
               PROVE  Expected(m.conv)' <= m.pos
  BY <1>1 DEF StreamsComeLater
<1>3. Expected(m.conv) <= m.pos
  BY <1>2 DEF StreamsComeLater
<1>4. m.conv \in Conversations /\ m.pos \in Nat
  BY DeletedMessagesAreTyped DEF LocksInv
<1>5. CASE ~(Adopt(r) \/ Buffer(r) \/ Publish(r)) \/ m.conv # c
  <2>1. next'[m.conv] = next[m.conv]
    BY <1>4, <1>5, ClientsWriteLast, ClientsWriteWhatTheyHold
  <2>2. QED
    BY <1>3, <2>1 DEF Expected
<1>6. CASE (Adopt(r) \/ Buffer(r)) /\ m.conv = c
  <2>1. next'[m.conv] = Expected(m.conv)
    BY <1>4, <1>6 DEF Adopt, Buffer, LocksInv, LabTypes, TypeOK
  <2>2. Expected(m.conv) # 0
    <3>1. Expected(m.conv) \in 1..(MaxPosition + 1) /\ MaxPosition \in Nat
      BY <1>6, PointersOfASend, LabAssumption DEF LocksInv
    <3>2. QED
      BY ONLY <3>1
  <2>3. Expected(m.conv)' = Expected(m.conv)
    BY <2>1, <2>2 DEF Expected
  <2>4. QED
    BY <1>3, <2>3
<1>7. CASE Publish(r) /\ m.conv = c
  <2>1. PICK last \in Nat :
             /\ p <= last /\ last <= MaxPosition
             /\ NobodyDeletesMessages(c, p, last)
             /\ next' = [next EXCEPT ![c] = last + 1]
    BY <1>7, Publishing DEF LocksInv
  <2>2. p = Expected(c) /\ p \in Nat
    BY <1>7, PointersOfASend DEF LocksInv, RowsInv, DecisionsStand, Publish, Complete
  <2>3. next'[m.conv] = last + 1
    BY <1>4, <1>7, <2>1 DEF LocksInv, LabTypes, TypeOK
  <2>4. m.pos \notin p..last
    BY <1>7, <2>1 DEF NobodyDeletesMessages
  <2> HIDE DEF c, p
  <2>5. last + 1 <= m.pos
    BY <1>3, <1>4, <1>7, <2>1, <2>2, <2>4
  <2>6. Expected(m.conv)' = last + 1
    <3>1. last + 1 # 0
      BY <2>1
    <3>2. QED
      BY <2>3, <3>1 DEF Expected
  <2>7. QED
    BY <2>5, <2>6
<1>8. QED
  BY <1>5, <1>6, <1>7

(* Whoever adopts what is being deleted would have had to wait for it, or  *)
(* to hold a stream that its deleter holds.                                *)
LEMMA NobodyAdoptsWhatGoes ==
    ASSUME LocksInv, StreamsComeLater, NEW r \in Clients, Insert(r), NEW s \in Seeders,
           pc[s] \in {"delete_operations", "reset_counters", "commit_traffic"},
           NEW m \in deleted[s].messages
    PROVE  <<m.conv, m.pos>> # Key(r)
<1> SUFFICES ASSUME m.conv = input[r].conv, m.pos = input[r].pos
             PROVE  FALSE
  BY DEF Key
<1>1. ~(input[r].pos >= Expected(input[r].conv))
  BY DEF Insert, MustWait, At
<1>2. <<"streams", input[r].conv>> \in rowLocks[r]
  BY DEF Insert, LocksInv, SendersHold, Owning
<1>3. <<"streams", input[r].conv>> \notin rowLocks[s]
  BY <1>2, ActorsAreOfAKind DEF LocksInv, RowsAreAlone
<1>4. Expected(input[r].conv) <= input[r].pos
  BY <1>3 DEF StreamsComeLater
<1>5. input[r].pos \in Nat /\ Expected(input[r].conv) \in 1..(MaxPosition + 1) /\ MaxPosition \in Nat
  BY PointersOfASend, LabAssumption DEF LocksInv
<1>6. QED
  BY <1>1, <1>4, <1>5

LEMMA ClientsKeepAnswersGoToo ==
    ASSUME LocksInv, RowsInv, AnswersInv, NEW r \in Clients, ClientStep(r)
    PROVE  AnswersGoToo'
<1>1. /\ UNCHANGED deleted
      /\ \A a \in Actors \ {r} : pc'[a] = pc[a]
      /\ \A q \in Clients \ {r} : input'[q] = input[q]
  <2>1. CASE Send(r)
    BY <2>1 DEF Send, Begin, Goto, LocksInv, LabTypes, TypeOK
  <2>2. CASE ~Send(r)
    BY <2>2, ClientsMoveAlone
  <2>3. QED
    BY <2>1, <2>2
<1>2. SUFFICES ASSUME NEW s \in Seeders, pc[s] \in {"reset_counters", "commit_traffic"},
                      NEW m \in deleted[s].messages,
                      <<m.conv, m.pos>> \notin deleted[s].operations
               PROVE  /\ operations'[<<m.conv, m.pos>>] # "completed"
                      /\ \A q \in Clients : pc'[q] = "adopt" /\ Key(q)' = <<m.conv, m.pos>> => ~Owns(q)'
  BY <1>1, ActorsAreOfAKind DEF AnswersGoToo
<1> DEFINE k == <<m.conv, m.pos>>
<1>3. /\ operations[k] # "completed"
      /\ \A q \in Clients : pc[q] = "adopt" /\ Key(q) = k => ~Owns(q)
  BY <1>2 DEF AnswersInv, AnswersGoToo
<1>4. k \in Keys
  BY DeletedMessagesAreTyped DEF LocksInv
<1>5. k = Key(r) => ~(Adopt(r) \/ Buffer(r) \/ Publish(r))
  <2>1. k = Key(r) => ~Adopt(r)
    BY <1>3 DEF Adopt, Complete
  <2>2. k = Key(r) => Taken(r)
    BY DEF Key, Taken, At, RowsInv, DeletesWhatIsThere
  <2>3. QED
    BY <2>1, <2>2 DEF Buffer, Publish, Complete, RowsInv, DecisionsStand
<1>6. operations'[k] # "completed"
  BY <1>3, <1>4, <1>5, OperationsOfAClient
<1>7. ASSUME NEW q \in Clients, pc'[q] = "adopt", Key(q)' = k, Owns(q)'
      PROVE  FALSE
  <2>1. operations'[k] = "in_progress" /\ q \in lease'[k]
    BY <1>7 DEF Owns, Status
  <2>2. CASE q # r
    <3>1. pc[q] = "adopt" /\ Key(q) = k
      BY <1>1, <1>7, <2>2, ActorsAreOfAKind DEF Key
    <3>2. operations[k] = "in_progress" /\ q \in lease[k]
      BY <1>4, <2>1, <2>2, OperationsOfAClient
    <3>3. QED
      BY <1>3, <3>1, <3>2 DEF Owns, Status
  <2>3. CASE q = r
    <3>1. Insert(r) /\ input' = input
      <4>1. pc'[r] = "adopt"
        BY <1>7, <2>3
      <4>2. Insert(r)
        BY <4>1, ActorsAreOfAKind DEF ClientStep, Send, Begin, Claim, Reclaim, ClaimKey, Find, Acquire, Release,
           InsertStream, LockStream, LockCounter, HoldStream, Fail, Adopt, Buffer, Publish, Complete,
           Abandon, Goto, Finish, LocksInv, LabTypes, TypeOK
      <4>3. QED
        BY <4>2 DEF Insert
    <3>2. Key(r) = k
      BY <1>7, <2>3, <3>1 DEF Key
    <3>3. QED
      BY <1>2, <3>1, <3>2, NobodyAdoptsWhatGoes DEF AnswersInv
  <2>4. QED
    BY <2>2, <2>3
<1>8. QED
  BY <1>6, <1>7

(* Nothing that a send replaces leaves its position empty.                 *)
LEMMA ClientsKeepAnswers ==
    ASSUME LocksInv, AnsweredIsThere, NEW r \in Clients, ClientStep(r)
    PROVE  AnsweredIsThere'
<1>1. ASSUME NEW k \in Keys, At(messages, k[1], k[2]) # {}
      PROVE  At(messages, k[1], k[2])' # {}
  <2>1. PICK m \in messages : m.conv = k[1] /\ m.pos = k[2]
    BY <1>1 DEF At
  <2>2. \E n \in messages' : n.conv = m.conv /\ n.pos = m.pos
    <3>1. CASE Publish(r)
      <4>1. PICK last \in Nat :
                \A n : n \in messages' <=>
                    \/ n \in messages /\ (n.conv = input[r].conv => n.pos \notin input[r].pos..last)
                    \/ \E q \in input[r].pos..last :
                        n = [conv |-> input[r].conv, pos |-> q,
                             server |-> counter[input[r].conv] + (q - input[r].pos)]
        BY <3>1, Publishing DEF LocksInv
      <4>2. CASE m \in messages'
        BY <4>2
      <4>3. CASE m \notin messages'
        <5> DEFINE new == [conv |-> input[r].conv, pos |-> m.pos,
                           server |-> counter[input[r].conv] + (m.pos - input[r].pos)]
        <5>1. m.conv = input[r].conv /\ m.pos \in input[r].pos..last
          BY <4>1, <4>3
        <5>2. new \in messages' /\ new.conv = m.conv /\ new.pos = m.pos
          BY <4>1, <5>1
        <5>3. QED
          BY <5>2
      <4>4. QED
        BY <4>2, <4>3
    <3>2. CASE ~Publish(r)
      BY <2>1, <3>2, ClientsWriteLast DEF Adopt, Buffer
    <3>3. QED
      BY <3>1, <3>2
  <2>3. QED
    BY <2>1, <2>2 DEF At
<1>2. ASSUME Adopt(r) \/ Buffer(r) \/ Publish(r)
      PROVE  \E m \in messages' : m.conv = input[r].conv /\ m.pos = input[r].pos
  <2>1. CASE Adopt(r)
    BY <2>1 DEF Adopt, Taken, At
  <2>2. CASE Buffer(r)
    <3>1. [conv |-> input[r].conv, pos |-> input[r].pos, server |-> 0] \in messages'
      BY <2>2 DEF Buffer
    <3>2. QED
      BY <3>1
  <2>3. CASE Publish(r)
    <3>1. PICK last \in Nat :
              /\ input[r].pos <= last
              /\ \A n : n \in messages' <=>
                    \/ n \in messages /\ (n.conv = input[r].conv => n.pos \notin input[r].pos..last)
                    \/ \E q \in input[r].pos..last :
                        n = [conv |-> input[r].conv, pos |-> q,
                             server |-> counter[input[r].conv] + (q - input[r].pos)]
      BY <2>3, Publishing DEF LocksInv
    <3> DEFINE new == [conv |-> input[r].conv, pos |-> input[r].pos,
                       server |-> counter[input[r].conv] + (input[r].pos - input[r].pos)]
    <3>2. input[r].pos \in input[r].pos..last
      BY <3>1, PointersOfASend DEF LocksInv
    <3>3. new \in messages'
      BY <3>1, <3>2
    <3>4. QED
      BY <3>3
  <2>4. QED
    BY <1>2, <2>1, <2>2, <2>3
<1>3. SUFFICES ASSUME NEW k \in Keys, operations'[k] = "completed"
               PROVE  At(messages, k[1], k[2])' # {}
  BY DEF AnsweredIsThere
<1>4. CASE operations[k] = "completed"
  BY <1>1, <1>4 DEF AnsweredIsThere
<1>5. CASE operations[k] # "completed"
  <2>1. k = Key(r) /\ (Adopt(r) \/ Buffer(r) \/ Publish(r))
    BY <1>3, <1>5, OperationsOfAClient
  <2>2. QED
    BY <1>2, <2>1 DEF Key, At
<1>6. QED
  BY <1>4, <1>5

LEMMA FreshKeepsStreamsComeLater ==
    ASSUME LocksInv, StreamsComeLater, NEW s \in Seeders,
           DeleteDeliveries(s) \/ DeleteMessages(s) \/ DeleteStreams(s)
             \/ DeleteOperations(s) \/ LockCounters(s)
    PROVE  StreamsComeLater'
<1> USE ActorsAreOfAKind DEF LocksInv, LabTypes
<1>1. UNCHANGED rows
  BY DEF DeleteDeliveries, DeleteMessages, DeleteStreams, DeleteOperations, LockCounters
<1>2. \A t \in Seeders \ {s} : pc'[t] = pc[t] /\ deleted'[t] = deleted[t] /\ rowLocks'[t] = rowLocks[t]
  BY DEF DeleteDeliveries, DeleteMessages, DeleteStreams, DeleteOperations, LockCounters,
     Goto, Collect, TakeRows, ReleaseLocks, locks, TypeOK
<1>3. SUFFICES ASSUME pc'[s] \in {"delete_operations", "reset_counters", "commit_traffic"},
                      NEW m \in deleted'[s].messages
               PROVE  <<"streams", m.conv>> \in rowLocks'[s] \/ Expected(m.conv)' <= m.pos
  BY <1>1, <1>2 DEF rows, StreamsComeLater, Expected
<1>4. CASE DeleteDeliveries(s) \/ DeleteMessages(s)
  BY <1>3, <1>4 DEF DeleteDeliveries, DeleteMessages, Goto, TypeOK
<1>5. CASE DeleteStreams(s)
  <2>1. /\ deleted'[s].messages = deleted[s].messages
        /\ rowLocks'[s] = rowLocks[s] \cup ({"streams"} \X {c \in Seeded : next[c] # 0})
    BY <1>5 DEF DeleteStreams, Collect, TakeRows, Deletions, TypeOK
  <2>2. m.conv \in Seeded /\ m.pos \in Nat /\ m.pos >= 1
    BY <2>1, DeletedMessagesAreTyped DEF DeletersHold
  <2>3. CASE next[m.conv] # 0
    BY <2>1, <2>2, <2>3
  <2>4. CASE next[m.conv] = 0
    BY <1>1, <2>2, <2>4 DEF Expected, rows
  <2>5. QED
    BY <2>3, <2>4
<1>6. CASE DeleteOperations(s) \/ LockCounters(s)
  <2>1. /\ deleted'[s].messages = deleted[s].messages /\ rowLocks[s] \subseteq rowLocks'[s]
        /\ pc[s] \in {"delete_operations", "reset_counters"}
    BY <1>6 DEF DeleteOperations, LockCounters, Collect, TakeRows, Deletions, TypeOK
  <2>2. QED
    BY <1>1, <2>1 DEF StreamsComeLater, Expected, rows
<1>7. QED
  BY <1>4, <1>5, <1>6

LEMMA FreshKeepsAnswersGoToo ==
    ASSUME LocksInv, AnswersGoToo, NEW s \in Seeders,
           DeleteDeliveries(s) \/ DeleteMessages(s) \/ DeleteStreams(s)
             \/ DeleteOperations(s) \/ LockCounters(s)
    PROVE  AnswersGoToo'
<1> USE ActorsAreOfAKind DEF LocksInv, LabTypes
<1>1. UNCHANGED <<rows, input>>
  BY DEF DeleteDeliveries, DeleteMessages, DeleteStreams, DeleteOperations, LockCounters
<1>2. /\ \A a \in Actors \ {s} : pc'[a] = pc[a]
      /\ \A t \in Seeders \ {s} : deleted'[t] = deleted[t]
  BY DEF DeleteDeliveries, DeleteMessages, DeleteStreams, DeleteOperations, LockCounters,
     Goto, Collect, TypeOK
<1>u. /\ operations' = operations
      /\ \A r \in Clients : pc'[r] = pc[r] /\ Key(r)' = Key(r) /\ Owns(r)' = Owns(r)
  BY <1>1, <1>2 DEF rows, Key, Owns, Status
<1>3. SUFFICES ASSUME pc'[s] \in {"reset_counters", "commit_traffic"},
                      NEW m \in deleted'[s].messages,
                      <<m.conv, m.pos>> \notin deleted'[s].operations
               PROVE  /\ operations[<<m.conv, m.pos>>] # "completed"
                      /\ \A r \in Clients : pc[r] = "adopt" /\ Key(r) = <<m.conv, m.pos>> => ~Owns(r)
  <2>1. ASSUME NEW t \in Seeders, pc'[t] \in {"reset_counters", "commit_traffic"},
               NEW m \in deleted'[t].messages, <<m.conv, m.pos>> \notin deleted'[t].operations
        PROVE  /\ operations'[<<m.conv, m.pos>>] # "completed"
               /\ \A r \in Clients : pc'[r] = "adopt" /\ Key(r)' = <<m.conv, m.pos>> => ~Owns(r)'
    <3>1. CASE t = s
      BY <1>3, <1>u, <2>1, <3>1
    <3>2. CASE t # s
      BY <1>2, <1>u, <2>1, <3>2 DEF AnswersGoToo
    <3>3. QED
      BY <3>1, <3>2
  <2>2. QED
    BY <2>1 DEF AnswersGoToo
<1>4. CASE DeleteDeliveries(s) \/ DeleteMessages(s) \/ DeleteStreams(s)
  BY <1>3, <1>4 DEF DeleteDeliveries, DeleteMessages, DeleteStreams, Goto, TypeOK
<1>5. CASE DeleteOperations(s)
  <2>1. /\ deleted'[s].messages = deleted[s].messages
        /\ deleted'[s].operations = DeletedOperations(s)
    BY <1>5 DEF DeleteOperations, Collect, Deletions
  <2>2. m.conv \in Seeded /\ m.pos \in Positions
    BY <2>1, DeletedMessagesAreTyped DEF DeletersHold
  <2>3. operations[<<m.conv, m.pos>>] = "none"
    BY <1>3, <2>1, <2>2 DEF DeletedOperations
  <2>4. QED
    BY <2>3 DEF Owns, Status
<1>6. CASE LockCounters(s)
  <2>1. deleted' = deleted /\ pc[s] = "reset_counters"
    BY <1>6 DEF LockCounters
  <2>2. QED
    BY <1>3, <2>1 DEF AnswersGoToo
<1>7. QED
  BY <1>4, <1>5, <1>6

(* What one --fresh deletes leaves to the other what it does not have.     *)
LEMMA CommitTrafficKeepsAnswers ==
    ASSUME LocksInv, RowsInv, AnswersInv, NEW s \in Seeders, CommitTraffic(s)
    PROVE  AnswersInv'
<1> USE ActorsAreOfAKind DEF LocksInv, LabTypes
<1>1. /\ messages' = messages \ deleted[s].messages
      /\ next' = [c \in Conversations |-> IF c \in deleted[s].streams THEN 0 ELSE next[c]]
      /\ operations' = [k \in Keys |->
                          IF k \in deleted[s].operations THEN "none" ELSE operations[k]]
      /\ lease' = [k \in Keys |-> IF k \in deleted[s].operations THEN {} ELSE lease[k]]
      /\ deleted'[s] = NothingDeleted /\ UNCHANGED input
      /\ pc[s] = "commit_traffic" /\ pc'[s] = "conversations"
  BY DEF CommitTraffic, KeptMessages, Goto, TypeOK
<1>2. \A t \in Seeders \ {s} : deleted'[t] = deleted[t] /\ rowLocks'[t] = rowLocks[t]
  BY DEF CommitTraffic, ReleaseLocks, TypeOK
<1>3. \A a \in Actors \ {s} : pc'[a] = pc[a]
  BY DEF CommitTraffic, Goto, TypeOK
<1>4. StreamsComeLater'
  <2>1. SUFFICES ASSUME NEW t \in Seeders \ {s},
                        pc[t] \in {"delete_operations", "reset_counters", "commit_traffic"},
                        NEW m \in deleted[t].messages
                 PROVE  <<"streams", m.conv>> \in rowLocks[t] \/ Expected(m.conv)' <= m.pos
    BY <1>1, <1>2, <1>3, NothingIsDeleted DEF StreamsComeLater
  <2>2. m.conv \in Conversations /\ m.pos \in Nat /\ m.pos >= 1
    BY DeletedMessagesAreTyped
  <2>3. Expected(m.conv)' = Expected(m.conv) \/ Expected(m.conv)' = 1
    BY <1>1, <2>2 DEF Expected
  <2>4. QED
    BY <2>1, <2>2, <2>3 DEF AnswersInv, StreamsComeLater
<1>5. AnswersGoToo'
  <2>1. SUFFICES ASSUME NEW t \in Seeders \ {s}, pc[t] \in {"reset_counters", "commit_traffic"},
                        NEW m \in deleted[t].messages,
                        <<m.conv, m.pos>> \notin deleted[t].operations
                 PROVE  /\ operations'[<<m.conv, m.pos>>] # "completed"
                        /\ \A r \in Clients : pc[r] = "adopt" /\ Key(r) = <<m.conv, m.pos>> => ~Owns(r)'
    <3>1. \A t \in Seeders : pc'[t] \in {"reset_counters", "commit_traffic"} =>
                                t # s /\ pc'[t] = pc[t] /\ deleted'[t] = deleted[t]
      BY <1>1, <1>2, <1>3
    <3>2. \A r \in Clients : pc'[r] = pc[r] /\ Key(r)' = Key(r)
      BY <1>1, <1>3 DEF Key
    <3>3. ASSUME NEW t \in Seeders, pc'[t] \in {"reset_counters", "commit_traffic"},
                 NEW m \in deleted'[t].messages, <<m.conv, m.pos>> \notin deleted'[t].operations
          PROVE  /\ operations'[<<m.conv, m.pos>>] # "completed"
                 /\ \A r \in Clients : pc'[r] = "adopt" /\ Key(r)' = <<m.conv, m.pos>> => ~Owns(r)'
      BY <2>1, <3>1, <3>2, <3>3
    <3>4. QED
      BY <3>3 DEF AnswersGoToo
  <2> DEFINE k == <<m.conv, m.pos>>
  <2>2. k \in Keys
    BY DeletedMessagesAreTyped
  <2>3. /\ operations[k] # "completed"
        /\ \A r \in Clients : pc[r] = "adopt" /\ Key(r) = k => ~Owns(r)
    BY <2>1 DEF AnswersInv, AnswersGoToo
  <2>4. operations'[k] = "none" \/ (operations'[k] = operations[k] /\ lease'[k] = lease[k])
    BY <1>1, <2>2
  <2>5. \A r \in Clients : Key(r)' = Key(r)
    BY <1>1 DEF Key
  <2>6. QED
    BY <2>3, <2>4, <2>5 DEF Owns, Status
<1>6. AnsweredIsThere'
  <2>1. SUFFICES ASSUME NEW k \in Keys, operations'[k] = "completed"
                 PROVE  At(messages, k[1], k[2])' # {}
    BY DEF AnsweredIsThere
  <2>2. k \notin deleted[s].operations /\ operations[k] = "completed"
    BY <1>1, <2>1
  <2>3. PICK m \in messages : m.conv = k[1] /\ m.pos = k[2]
    BY <2>2 DEF AnswersInv, AnsweredIsThere, At
  <2>4. k = <<m.conv, m.pos>>
    BY <2>3 DEF Keys
  <2>5. m \notin deleted[s].messages
    BY <1>1, <2>2, <2>4 DEF AnswersInv, AnswersGoToo
  <2>6. QED
    BY <1>1, <2>3, <2>5 DEF At
<1>7. QED
  BY <1>4, <1>5, <1>6 DEF AnswersInv

LEMMA AnswersKept == LocksInv /\ RowsInv /\ AnswersInv /\ [Next]_vars => AnswersInv'
<1> SUFFICES ASSUME LocksInv, RowsInv, AnswersInv, [Next]_vars PROVE AnswersInv'
  OBVIOUS
<1> USE ActorsAreOfAKind DEF LocksInv, LabTypes, TypeOK
<1>f. ASSUME UNCHANGED <<next, messages, operations, lease, input>>,
             \A r \in Clients : pc'[r] = "adopt" => pc[r] = "adopt",
             \A s \in Seeders :
                \/ pc'[s] \notin {"delete_operations", "reset_counters", "commit_traffic"}
                \/ pc'[s] = pc[s] /\ deleted'[s] = deleted[s] /\ rowLocks'[s] = rowLocks[s]
      PROVE  AnswersInv'
  BY <1>f DEF AnswersInv, StreamsComeLater, AnswersGoToo, AnsweredIsThere, At, Expected, Key, Owns, Status
<1>1. CASE UNCHANGED vars
  BY <1>1, <1>f DEF vars, rows, locks
<1>2. CASE BeginReset \/ LockTable
  BY <1>2, <1>f DEF BeginReset, LockTable, Begin, Goto, rows, locks
<1>3. CASE CommitReset
  <2>1. /\ \A s \in Seeders : pc'[s] = pc[s] /\ pc[s] \notin Deleting
        /\ \A k \in Keys : operations'[k] = "none"
    BY <1>3, ResetHasEveryTable DEF CommitReset, TruncatedOperations, Goto
  <2>2. QED
    BY <2>1 DEF AnswersInv, StreamsComeLater, AnswersGoToo, AnsweredIsThere, Deleting
<1>4. ASSUME NEW s \in Seeders, BeginSeed(s) \/ SeedConversations(s) \/ CommitSeed(s)
      PROVE  AnswersInv'
  <2>1. /\ UNCHANGED <<next, messages, operations, lease, input, deleted>>
        /\ pc'[s] \notin {"delete_operations", "reset_counters", "commit_traffic"}
        /\ \A a \in Actors \ {s} : pc'[a] = pc[a] /\ rowLocks'[a] = rowLocks[a]
    BY <1>4 DEF BeginSeed, SeedConversations, CommitSeed, Begin, Goto, ReleaseLocks, rows, locks
  <2>2. QED
    BY <2>1, <1>f
<1>5. ASSUME NEW a \in Actors, RollBack(a)
      PROVE  AnswersInv'
  <2>1. /\ UNCHANGED <<next, messages, operations, lease, input>>
        /\ pc'[a] \in {"idle", "release"}
        /\ \A b \in Actors \ {a} : pc'[b] = pc[b] /\ rowLocks'[b] = rowLocks[b]
        /\ \A t \in Seeders \ {a} : deleted'[t] = deleted[t]
    BY <1>5 DEF RollBack, Goto, ReleaseLocks, rows
  <2>2. QED
    BY <2>1, <1>f
<1>6. ASSUME NEW r \in Clients, ClientStep(r)
      PROVE  AnswersInv'
  BY <1>6, ClientsKeepStreamsComeLater, ClientsKeepAnswersGoToo, ClientsKeepAnswers DEF AnswersInv
<1>7. ASSUME NEW s \in Seeders,
             DeleteDeliveries(s) \/ DeleteMessages(s) \/ DeleteStreams(s)
               \/ DeleteOperations(s) \/ LockCounters(s)
      PROVE  AnswersInv'
  <2>1. UNCHANGED rows
    BY <1>7 DEF DeleteDeliveries, DeleteMessages, DeleteStreams, DeleteOperations, LockCounters
  <2>2. AnsweredIsThere'
    BY <2>1 DEF rows, AnswersInv, AnsweredIsThere, At
  <2>3. QED
    BY <1>7, <2>2, FreshKeepsStreamsComeLater, FreshKeepsAnswersGoToo DEF AnswersInv
<1>8. QED
  BY <1>1, <1>2, <1>3, <1>4, <1>5, <1>6, <1>7, CommitTrafficKeepsAnswers DEF Next, SeederStep

-----------------------------------------------------------------------------
(* Theorems *)

(* Locks and rows fit together in every reachable state: the TRUNCATE is   *)
(* alone with its tables (lab.service.ts:76), a send under way has its     *)
(* conversation and its stream, what it decided under that stream's lock   *)
(* stays so (send-message.service.ts:366), and what a --fresh collected is *)
(* there, whole, and its own (seed.repository.ts:129-171).                 *)
THEOREM LabInvariant == Spec => []LabInv
<1>1. Init => LabInv
  BY LocksInit, RowsInit, QuietInit, AgreesInit, AnswersInit DEF LabInv
<1>2. LabInv /\ [Next]_vars => LabInv'
  BY LocksKept, RowsKept, QuietIsQuietKept, QuietSawAllKept, AgreementKept, AnswersKept
     DEF LabInv, QuietInv
<1>3. QED
  BY <1>1, <1>2, PTL DEF Spec

(* NothingOutlivesReset: however many clients, resets and seeders run at   *)
(* once, and though a request claims its key again when its operation has  *)
(* vanished (send-message.service.ts:184), no stream, message or delivery  *)
(* of a truncated conversation (lab.service.ts:75) appears, and no         *)
(* delivery loses its message to a --fresh (seed.repository.ts:129-154).   *)
THEOREM NothingOutlivesTheReset == Spec => []NothingOutlivesReset
<1>1. LabInv => NothingOutlivesReset
  BY DEF LabInv, RowsInv
<1>2. QED
  BY <1>1, LabInvariant, PTL

(* OnlyOverlapPoisons: a published message that is not behind its counter  *)
(* and its stream, or a buffered one that is not ahead of its stream, is   *)
(* left only by a --fresh that a send overlapped (seed.repository.ts:164). *)
THEOREM OnlyOverlapsPoison == Spec => []OnlyOverlapPoisons
<1>1. LabInv => OnlyOverlapPoisons
  BY DEF LabInv, AgreeWhereQuiet, OnlyOverlapPoisons
<1>2. QED
  BY <1>1, LabInvariant, PTL

(* AnsweredIsThere: an answer that the rows of the operations still repeat *)
(* (send-message.service.ts:202) names a message that is there, even of a  *)
(* send that ran between the DELETEs of a --fresh.                         *)
THEOREM AnswersStayTrue == Spec => []AnsweredIsThere
<1>1. LabInv => AnsweredIsThere
  BY DEF LabInv, AnswersInv
<1>2. QED
  BY <1>1, LabInvariant, PTL

(* FreshIsFresh: the COMMIT of a --fresh that no send overlapped leaves    *)
(* nothing of its conversations but the population, whatever other seeders *)
(* and lab resets do (seed.repository.ts:122-171).                         *)
THEOREM FreshLeavesNothing == Spec => FreshIsFresh
<1>1. ASSUME LabInv, [Next]_vars, NEW s \in Seeders,
             pc[s] = "commit_traffic", pc'[s] = "conversations", quiet[s]
      PROVE  /\ OfPlan(messages') = {} /\ OfPlan(deliveries') = {}
             /\ \A c \in Seeded : next'[c] = 0 /\ counter'[c] \in {0, 1}
             /\ \A k \in Seeded \X Positions : operations'[k] = "none"
  <2>t. LocksInv /\ QuietInv
    BY <1>1 DEF LabInv
  <2> USE <2>t, ActorsAreOfAKind DEF LocksInv, LabTypes, TypeOK
  <2>1. CommitTraffic(s)
    <3>1. ASSUME NEW r \in Clients, ClientStep(r)
          PROVE  pc'[s] = pc[s]
      <4>1. CASE Send(r)
        BY <4>1 DEF Send, Begin, Goto
      <4>2. CASE ~Send(r)
        BY <3>1, <4>2, ClientsMoveAlone
      <4>3. QED
        BY <4>1, <4>2
    <3>2. ASSUME BeginReset \/ LockTable \/ CommitReset
          PROVE  pc'[s] = pc[s]
      <4>1. \A a \in Actors \ {Resetter} : pc'[a] = pc[a]
        BY <3>2 DEF BeginReset, LockTable, CommitReset, Begin, Goto, history
      <4>2. QED
        BY <4>1
    <3>3. ASSUME NEW t \in Seeders,
                 \/ BeginSeed(t) \/ SeedConversations(t) \/ CommitSeed(t)
                 \/ DeleteDeliveries(t) \/ DeleteMessages(t) \/ DeleteStreams(t)
                 \/ DeleteOperations(t) \/ LockCounters(t)
          PROVE  FALSE
      BY <1>1, <3>3 DEF BeginSeed, SeedConversations, CommitSeed, DeleteDeliveries, DeleteMessages,
         DeleteStreams, DeleteOperations, LockCounters, Begin, Goto
    <3>4. ASSUME NEW t \in Seeders, CommitTraffic(t), t # s
          PROVE  pc'[s] = pc[s]
      BY <3>4 DEF CommitTraffic, Goto
    <3>5. ASSUME NEW a \in Actors, RollBack(a)
          PROVE  pc'[s] \in {pc[s], "idle"}
      BY <3>5 DEF RollBack, Goto
    <3>6. CASE UNCHANGED vars
      BY <1>1, <3>6 DEF vars
    <3>7. QED
      BY <1>1, <3>1, <3>2, <3>3, <3>4, <3>5, <3>6 DEF Next, SeederStep
  <2>2. /\ OfPlan(deliveries) \subseteq deleted[s].deliveries
        /\ OfPlan(messages) \subseteq deleted[s].messages
        /\ {c \in Seeded : next[c] # 0} \subseteq deleted[s].streams
        /\ {k \in Seeded \X Positions : operations[k] # "none"} \subseteq deleted[s].operations
    BY <1>1 DEF QuietInv, QuietSawAll, Deleting
  <2>3. OfPlan(messages') = {} /\ OfPlan(deliveries') = {}
    BY <2>1, <2>2 DEF CommitTraffic, KeptMessages, OfPlan
  <2>4. \A c \in Seeded : next'[c] = 0 /\ counter'[c] \in {0, 1}
    BY <2>1, <2>2 DEF CommitTraffic, Conversations
  <2>5. \A k \in Seeded \X Positions : operations'[k] = "none"
    BY <2>1, <2>2 DEF CommitTraffic, Keys, Conversations
  <2>6. QED
    BY <2>3, <2>4, <2>5
<1>2. LabInv /\ [Next]_vars =>
        [\A s \in Seeders :
            pc[s] = "commit_traffic" /\ pc'[s] = "conversations" /\ quiet[s] =>
                /\ OfPlan(messages') = {} /\ OfPlan(deliveries') = {}
                /\ \A c \in Seeded : next'[c] = 0 /\ counter'[c] \in {0, 1}
                /\ \A k \in Seeded \X Positions : operations'[k] = "none"]_vars
  BY <1>1
<1>3. QED
  BY <1>2, LabInvariant, PTL DEF Spec, FreshIsFresh
=============================================================================
