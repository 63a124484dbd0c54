------------------------- MODULE NaiveServiceProofs -------------------------
(***************************************************************************)
(* Proofs about NaiveService: what the panel may tell of the wrong variant *)
(* holds for any number of clients, keys and requests.                     *)
(*                                                                         *)
(* The argument is of windows.  Two executions of one key that are past    *)
(* their SELECT at one time are a race by definition; what is shown is     *)
(* that a message which a SELECT did not see belongs to an execution that  *)
(* is still in its window or that died there.                              *)
(***************************************************************************)
EXTENDS NaiveService, FiniteSetTheorems, TLAPS

-----------------------------------------------------------------------------
(* The inductive invariant *)

Inputs == {Nothing} \cup Sends \cup Publications \cup Acks

NaiveTypes ==
    /\ TypeOK
    /\ input \in [Clients -> Inputs]
    /\ read \in [Clients -> Nat \cup {Nothing}]
    /\ naiveBatches \in [DOMAIN naiveBatches -> Nat]
    /\ \A c \in Clients : pc[c] # "idle" => run[c] > 0
    /\ cut \subseteq Ids
    /\ IsFiniteSet(naiveReceipts)

(* There is always a highest number to read.                               *)
Numbers == {0} \cup {m.server : m \in naiveMessages}
HighestExists == \E n \in Numbers : \A k \in Numbers : k <= n

Begun(id) == id[2] <= run[id[1]]

(* Every trace of an execution has its number, and an execution that has   *)
(* not inserted has left none.                                             *)
TracesAreBegun ==
    /\ \A m \in naiveMessages : Begun(m.id)
    /\ \A o \in naiveOperations : Begun(o.resource)
    /\ \A r \in naiveReceipts : Begun(r.id)
    /\ \A a \in answers : Begun(a.id)
    /\ \A id \in cut : Begun(id)

NotYet ==
    \A c \in Clients :
        /\ pc[c] \in {"select", "message", "max", "publish", "receipt", "update"} =>
            \A m \in naiveMessages : m.id # Me(c)
        /\ pc[c] \notin {"batch", "idle"} => \A o \in naiveOperations : o.resource # Me(c)
        /\ pc[c] \notin {"update", "idle"} => \A r \in naiveReceipts : r.id # Me(c)
        /\ pc[c] # "idle" => Me(c) \notin cut /\ \A a \in answers : a.id # Me(c)

(* An execution inserts one message, and the row of its own key.           *)
OneEach ==
    /\ \A m, n \in naiveMessages : m.id = n.id => m = n
    /\ \A m \in Sent : \A o \in naiveOperations : o.resource = m.id => o.key = m.key
    /\ \A c \in Clients : \A m \in naiveMessages :
        pc[c] = "operation" /\ m.id = Me(c) => m.key = input[c].key

(* A message without its operation row is of somebody about to insert it,  *)
(* or of somebody who died.                                                *)
UnrecordedIsInWindow ==
    \A m \in Sent :
        \/ Recorded(m) \/ m.id \in cut
        \/ \E c \in Clients : m.id = Me(c) /\ pc[c] = "operation" /\ input[c].key = m.key

SendersRace ==
    \A c, e \in Clients :
        /\ c # e /\ pc[c] \in SendWindow /\ pc[e] \in SendWindow
        /\ input[c].key = input[e].key
        => {Me(c), Me(e)} \in raced

(* Whoever is past its SELECT raced with every other message of its key.   *)
UnseenMessagesRace ==
    \A c \in Clients : \A m \in Sent :
        pc[c] \in SendWindow /\ m.key = input[c].key /\ m.id # Me(c) =>
            {Me(c), m.id} \in raced \/ (m.id \in cut /\ ~Recorded(m))

PublishersRace ==
    \A c, e \in Clients :
        c # e /\ pc[c] = "publish" /\ pc[e] = "publish" => {Me(c), Me(e)} \in raced

UnseenNumbersRace ==
    \A c \in Clients : \A m \in naiveMessages :
        pc[c] = "publish" /\ m.key = Nothing /\ m.server = read[c] => {Me(c), m.id} \in raced

TracesInv == NaiveTypes /\ HighestExists /\ TracesAreBegun /\ NotYet /\ OneEach

RaceInv ==
    /\ UnrecordedIsInWindow /\ SendersRace /\ UnseenMessagesRace /\ DuplicatesNeedARace
    /\ PublishersRace /\ UnseenNumbersRace /\ NumbersCollideOnlyInARace

Created == {a.id : a \in {b \in answers : b.created}}

(* The rows of an execution that has not answered, at their step.          *)
UnansweredAt(id, steps) == \E c \in Clients : id = Me(c) /\ pc[c] \in steps

(* The row of the progress is written with the answer that says created.   *)
BatchesAnswered == Created = DOMAIN naiveBatches

RowsAnswer ==
    ~disturbed /\ cut = {} =>
        /\ \A id \in Created :
            (\E m \in Sent : m.id = id) /\ (\E o \in naiveOperations : o.resource = id)
        /\ \A c \in Clients : pc[c] \in {"operation", "batch"} => \E m \in Sent : m.id = Me(c)
        /\ \A c \in Clients : pc[c] = "batch" => \E o \in naiveOperations : o.resource = Me(c)
        /\ \A m \in Sent : m.id \in Created \/ UnansweredAt(m.id, {"operation", "batch"})
        /\ \A o \in naiveOperations : o.resource \in Created \/ UnansweredAt(o.resource, {"batch"})
        /\ \A a \in answers : \E o \in naiveOperations : o.resource = a.message

(* A receipt that is in no progress is of an ack under way or cut.         *)
Counted(m) ==
    {r \in naiveReceipts : /\ r.message = m
                           /\ r.id \notin cut
                           /\ \A c \in Clients : Me(c) = r.id => pc[c] # "update"}

ReceiptsOfAcks ==
    ~disturbed =>
        /\ \A c \in Clients : pc[c] = "update" =>
            [id |-> Me(c), message |-> input[c].message, device |-> input[c].device] \in naiveReceipts
        /\ \A r, q \in naiveReceipts : r.id = q.id => r = q
        /\ \A m \in Ids \ DOMAIN naiveBatches : Counted(m) = {}

PanelInv == BatchesAnswered /\ RowsAnswer /\ ReceiptsOfAcks /\ ProgressCountsEvents

(* The steps of an execution under way, and its death.                     *)
Proceeds(c) ==
    \/ FindExisting(c) \/ FindNothing(c) \/ InsertMessage(c) \/ InsertOperation(c)
    \/ InsertBatch(c) \/ ReadMax(c) \/ Publish(c) \/ InsertReceipt(c)
    \/ UpdateBatch(c) \/ Crash(c)

-----------------------------------------------------------------------------
(* Types *)

LEMMA StepsAreNamed ==
    \A step \in {"idle", "select", "message", "operation", "batch",
                "max", "publish", "receipt", "update"} : step \in Steps
BY DEF Steps

LEMMA TypesInit == Init => NaiveTypes
<1> SUFFICES ASSUME Init PROVE NaiveTypes
  OBVIOUS
<1>1. TypeOK
  <2>1. pc \in [Clients -> Steps] /\ run \in [Clients -> 0..MaxRuns]
    BY NaiveAssumption, StepsAreNamed DEF Init
  <2>2. DOMAIN naiveBatches = {}
    BY DEF Init
  <2>3. QED
    BY <2>1, <2>2 DEF Init, TypeOK
<1>2. naiveBatches \in [DOMAIN naiveBatches -> Nat]
  BY DEF Init
<1>3. IsFiniteSet(naiveReceipts)
  BY FS_EmptySet DEF Init
<1>4. QED
  BY <1>1, <1>2, <1>3 DEF Init, NaiveTypes, Inputs

(* Whoever is under way has an execution.                                  *)
LEMMA MineIsAnId ==
    ASSUME NaiveTypes
    PROVE  \A c \in Clients : pc[c] # "idle" => Me(c) \in Ids
<1> SUFFICES ASSUME NEW c \in Clients, pc[c] # "idle" PROVE Me(c) \in Ids
  OBVIOUS
<1>1. run[c] \in 1..MaxRuns
  BY NaiveAssumption DEF NaiveTypes, TypeOK
<1>2. QED
  BY <1>1 DEF Me, Ids

LEMMA AnswersAre ==
    /\ \A x, y \in Ids : \A b \in BOOLEAN : [id |-> x, created |-> b, message |-> y] \in Answers
    /\ \A a \in Answers : a.id \in Ids /\ a.message \in Ids
BY Zenon DEF Answers

LEMMA MineIsMine == \A c, e \in Clients : Me(c) = Me(e) => c = e
BY DEF Me

(* NextNumber is one more than every number there is.                      *)
LEMMA NextIsHigher ==
    ASSUME NaiveTypes, HighestExists
    PROVE  /\ NextNumber \in Nat
           /\ \A m \in naiveMessages : m.server < NextNumber
<1>1. Numbers \subseteq Nat
  BY DEF Numbers, NaiveTypes, TypeOK
<1>2. PICK n \in Numbers : \A k \in Numbers : k <= n
  BY DEF HighestExists
<1>3. \E x \in Numbers : \A y \in Numbers : x >= y
  BY <1>1, <1>2
<1>4. Max(Numbers) \in Numbers /\ \A y \in Numbers : Max(Numbers) >= y
  BY <1>3 DEF Max
<1>5. PICK x \in Nat : x = Max(Numbers)
  BY <1>1, <1>4
<1>6. NextNumber = x + 1
  BY <1>5 DEF NextNumber, Numbers
<1>7. \A m \in naiveMessages : m.server \in Numbers /\ m.server \in Nat
  BY <1>1 DEF Numbers
<1>8. \A m \in naiveMessages : m.server <= x
  BY <1>4, <1>5, <1>7
<1>9. QED
  BY <1>6, <1>7, <1>8

(* The parts of the types that a step of a request touches.                *)
StepTypes ==
    /\ pc \in [Clients -> Steps]
    /\ run \in [Clients -> 0..MaxRuns]
    /\ input \in [Clients -> Inputs]
    /\ read \in [Clients -> Nat \cup {Nothing}]
    /\ \A c \in Clients :
        /\ pc[c] \in {"select", "message", "operation", "batch"} => input[c] \in Sends
        /\ pc[c] \in {"max", "publish"} => input[c] \in Publications
        /\ pc[c] \in {"receipt", "update"} => input[c] \in Acks
        /\ pc[c] = "publish" => read[c] \in Nat
        /\ pc[c] # "idle" => run[c] > 0

RowTypes ==
    /\ naiveMessages \subseteq
        [id : Ids, key : Keys \cup {Nothing}, position : Positions, server : Nat]
    /\ naiveOperations \subseteq [key : Keys, resource : Ids]
    /\ DOMAIN naiveBatches \subseteq Ids
    /\ naiveBatches \in [DOMAIN naiveBatches -> Nat]
    /\ naiveReceipts \subseteq [id : Ids, message : Ids, device : AckDevices]
    /\ IsFiniteSet(naiveReceipts)
    /\ answers \subseteq Answers
    /\ disturbed \in BOOLEAN
    /\ cut \subseteq Ids

LEMMA TypesAre == NaiveTypes <=> StepTypes /\ RowTypes
BY DEF NaiveTypes, TypeOK, StepTypes, RowTypes

LEMMA StepTypesKept == NaiveTypes /\ HighestExists /\ [Next]_vars => StepTypes'
<1> SUFFICES ASSUME NaiveTypes, HighestExists, [Next]_vars PROVE StepTypes'
  OBVIOUS
<1>0. StepTypes /\ RowTypes
  BY TypesAre
<1> USE StepsAreNamed, NaiveAssumption, <1>0 DEF StepTypes
<1>1. CASE UNCHANGED vars \/ Reset
  BY <1>1 DEF vars, Reset
<1>b. ASSUME NEW c \in Clients, NEW step \in Steps \ {"idle"}, NEW what \in Inputs,
             Begin(c, step, what),
             /\ step \in {"select", "message", "operation", "batch"} => what \in Sends
             /\ step \in {"max", "publish"} => what \in Publications
             /\ step \in {"receipt", "update"} => what \in Acks
             /\ step # "publish"
      PROVE  StepTypes'
  <2>1. run' \in [Clients -> 0..MaxRuns] /\ run'[c] > 0
    <3>1. run[c] \in Nat /\ run[c] + 1 \in 0..MaxRuns /\ run[c] + 1 > 0
      BY <1>b DEF Begin
    <3>2. QED
      BY <1>b, <3>1 DEF Begin
  <2>2. \A e \in Clients \ {c} : /\ run'[e] = run[e] /\ pc'[e] = pc[e] /\ input'[e] = input[e]
                               /\ read'[e] = read[e]
    BY <1>b DEF Begin, Goto
  <2>3. pc'[c] = step /\ input'[c] = what
    BY <1>b DEF Begin, Goto
  <2>4. pc' \in [Clients -> Steps] /\ input' \in [Clients -> Inputs] /\ read' = read
    BY <1>b DEF Begin, Goto
  <2>5. QED
    BY <1>b, <2>1, <2>2, <2>3, <2>4
<1>2. ASSUME NEW c \in Clients, BeginSend(c) PROVE StepTypes'
  <2>1. PICK k \in Keys, p \in Positions : Begin(c, "select", [key |-> k, position |-> p])
    BY <1>2 DEF BeginSend
  <2>2. [key |-> k, position |-> p] \in Sends /\ [key |-> k, position |-> p] \in Inputs
    BY DEF Sends, Inputs
  <2>3. QED
    BY <1>b, <2>1, <2>2
<1>3. ASSUME NEW c \in Clients, BeginPublish(c) PROVE StepTypes'
  <2>1. PICK p \in Positions : Begin(c, "max", [position |-> p])
    BY <1>3 DEF BeginPublish
  <2>2. [position |-> p] \in Publications /\ [position |-> p] \in Inputs
    BY DEF Publications, Inputs
  <2>3. QED
    BY <1>b, <2>1, <2>2
<1>4. ASSUME NEW c \in Clients, BeginAck(c) PROVE StepTypes'
  <2>1. PICK a \in answers, d \in AckDevices : Begin(c, "receipt", [message |-> a.message, device |-> d])
    BY <1>4 DEF BeginAck
  <2>2. /\ [message |-> a.message, device |-> d] \in Acks
        /\ [message |-> a.message, device |-> d] \in Inputs
    BY AnswersAre DEF Acks, Inputs, RowTypes
  <2>3. QED
    BY <1>b, <2>1, <2>2
<1>f. ASSUME NEW c \in Clients, Finish(c), UNCHANGED run
      PROVE  StepTypes'
  BY <1>f DEF Finish, Goto, Inputs
<1>g. ASSUME NEW c \in Clients, NEW step \in Steps, Goto(c, step), UNCHANGED <<run, input, read>>,
             pc[c] # "idle", step # "publish",
             /\ step \in {"select", "message", "operation", "batch"} =>
                  pc[c] \in {"select", "message", "operation", "batch"}
             /\ step \in {"max", "publish"} => pc[c] \in {"max", "publish"}
             /\ step \in {"receipt", "update"} => pc[c] \in {"receipt", "update"}
      PROVE  StepTypes'
  BY <1>g DEF Goto
<1>5. ASSUME NEW c \in Clients,
             FindExisting(c) \/ InsertBatch(c) \/ Publish(c) \/ UpdateBatch(c) \/ Crash(c)
      PROVE  StepTypes'
  BY <1>5, <1>f DEF Proceeds, FindExisting, InsertBatch, Publish, UpdateBatch, Crash
<1>6. ASSUME NEW c \in Clients,
             FindNothing(c) \/ InsertMessage(c) \/ InsertOperation(c) \/ InsertReceipt(c)
      PROVE  StepTypes'
  BY <1>6, <1>g DEF FindNothing, InsertMessage, InsertOperation, InsertReceipt
<1>7. ASSUME NEW c \in Clients, ReadMax(c) PROVE StepTypes'
  <2>1. NextNumber \in Nat
    BY NextIsHigher
  <2>2. /\ pc[c] = "max" /\ pc' = [pc EXCEPT ![c] = "publish"]
        /\ read' = [read EXCEPT ![c] = NextNumber] /\ UNCHANGED <<run, input>>
    BY <1>7 DEF ReadMax, Goto
  <2>3. QED
    BY <2>1, <2>2
<1>8. QED
  BY <1>1, <1>2, <1>3, <1>4, <1>5, <1>6, <1>7 DEF Next, Step

LEMMA RowTypesKept == NaiveTypes /\ [Next]_vars => RowTypes'
<1> SUFFICES ASSUME NaiveTypes, [Next]_vars PROVE RowTypes'
  OBVIOUS
<1>0. StepTypes /\ RowTypes
  BY TypesAre
<1> USE <1>0
<1>1. CASE UNCHANGED vars
  BY <1>1 DEF vars, tables, history, RowTypes
<1>2. CASE Reset
  <2>1. naiveReceipts' = {} /\ IsFiniteSet({})
    BY <1>2, FS_EmptySet DEF Reset
  <2>2. naiveBatches' \in [DOMAIN naiveBatches' -> Nat] /\ DOMAIN naiveBatches' = {}
    BY <1>2 DEF Reset
  <2>3. QED
    BY <1>2, <2>1, <2>2 DEF Reset, RowTypes
<1>3. ASSUME NEW c \in Clients, BeginSend(c) \/ BeginPublish(c) \/ BeginAck(c)
      PROVE  RowTypes'
  BY <1>3 DEF BeginSend, BeginPublish, BeginAck, Begin, tables, history, RowTypes
<1>4. ASSUME NEW c \in Clients, FindNothing(c) \/ ReadMax(c)
      PROVE  RowTypes'
  BY <1>4 DEF FindNothing, ReadMax, tables, RowTypes
<1>m. \A c \in Clients : pc[c] # "idle" => Me(c) \in Ids
  BY MineIsAnId
<1>5. ASSUME NEW c \in Clients, FindExisting(c)
      PROVE  RowTypes'
  <2>1. PICK o \in naiveOperations :
            answers' = answers \cup {[id |-> Me(c), created |-> FALSE, message |-> o.resource]}
    BY <1>5 DEF Proceeds, FindExisting, Existing
  <2>2. Me(c) \in Ids /\ o.resource \in Ids
    BY <1>5, <1>m DEF Proceeds, FindExisting, RowTypes
  <2>3. answers' \subseteq Answers
    BY <2>1, <2>2, AnswersAre DEF RowTypes
  <2>4. QED
    BY <1>5, <2>3 DEF Proceeds, FindExisting, tables, RowTypes
<1>6. ASSUME NEW c \in Clients, InsertMessage(c) \/ Publish(c)
      PROVE  RowTypes'
  <2>1. CASE InsertMessage(c)
    <3>1. Me(c) \in Ids /\ input[c].key \in Keys /\ input[c].position \in Positions
          /\ input[c].position \in Nat
      BY <2>1, <1>m, NaiveAssumption DEF InsertMessage, StepTypes, Sends
    <3>2. naiveMessages' \subseteq
            [id : Ids, key : Keys \cup {Nothing}, position : Positions, server : Nat]
      BY <2>1, <3>1 DEF InsertMessage, RowTypes
    <3>3. QED
      BY <2>1, <3>2 DEF InsertMessage, history, RowTypes
  <2>2. CASE Publish(c)
    <3>1. Me(c) \in Ids /\ input[c].position \in Positions /\ read[c] \in Nat
      BY <2>2, <1>m, NaiveAssumption DEF Publish, StepTypes, Publications
    <3>2. naiveMessages' \subseteq
            [id : Ids, key : Keys \cup {Nothing}, position : Positions, server : Nat]
      BY <2>2, <3>1 DEF Publish, RowTypes
    <3>3. QED
      BY <2>2, <3>2 DEF Publish, history, RowTypes
  <2>3. QED
    BY <1>6, <2>1, <2>2
<1>7. ASSUME NEW c \in Clients, InsertOperation(c)
      PROVE  RowTypes'
  <2>1. OperationRow(c) \in [key : Keys, resource : Ids]
    BY <1>7, <1>m DEF InsertOperation, OperationRow, StepTypes, Sends
  <2>2. QED
    BY <1>7, <2>1 DEF InsertOperation, history, RowTypes
<1>8. ASSUME NEW c \in Clients, InsertBatch(c)
      PROVE  RowTypes'
  <2>1. Me(c) \in Ids
    BY <1>8, <1>m DEF InsertBatch
  <2>2. naiveBatches' \in [DOMAIN naiveBatches \cup {Me(c)} -> Nat]
    BY <1>8 DEF InsertBatch, RowTypes
  <2>3. answers' \subseteq Answers
    BY <1>8, <2>1, AnswersAre DEF InsertBatch, Answer, RowTypes
  <2>4. QED
    BY <1>8, <2>1, <2>2, <2>3 DEF InsertBatch, RowTypes
<1>9. ASSUME NEW c \in Clients, InsertReceipt(c)
      PROVE  RowTypes'
  <2> DEFINE r == [id |-> Me(c), message |-> input[c].message, device |-> input[c].device]
  <2>1. r \in [id : Ids, message : Ids, device : AckDevices]
    BY <1>9, <1>m DEF InsertReceipt, StepTypes, Acks
  <2>2. naiveReceipts' = naiveReceipts \cup {r}
    BY <1>9 DEF InsertReceipt
  <2> HIDE DEF r
  <2>3. IsFiniteSet(naiveReceipts')
    BY <2>2, FS_AddElement DEF RowTypes
  <2>4. QED
    BY <1>9, <2>1, <2>2, <2>3 DEF InsertReceipt, history, RowTypes
<1>10. ASSUME NEW c \in Clients, UpdateBatch(c)
       PROVE  RowTypes'
  <2>1. Me(c) \in Ids
    BY <1>10, <1>m DEF UpdateBatch
  <2>2. /\ cut' \subseteq Ids
        /\ naiveBatches' \in [DOMAIN naiveBatches -> Nat]
    BY <1>10, <2>1 DEF UpdateBatch, Counts, RowTypes
  <2>3. QED
    BY <1>10, <2>2 DEF UpdateBatch, RowTypes
<1>11. ASSUME NEW c \in Clients, Crash(c)
       PROVE  RowTypes'
  BY <1>11, <1>m DEF Crash, tables, RowTypes
<1>12. QED
  BY <1>1, <1>2, <1>3, <1>4, <1>5, <1>6, <1>7, <1>8, <1>9, <1>10, <1>11 DEF Next, Step

-----------------------------------------------------------------------------
(* Traces of executions *)

Begins(c) ==
    /\ pc[c] = "idle" /\ run' = [run EXCEPT ![c] = run[c] + 1]
    /\ pc' \in {[pc EXCEPT ![c] = step] : step \in {"select", "max", "receipt"}}
    /\ \A e \in Clients \ {c} : input'[e] = input[e]
    /\ UNCHANGED <<tables, read, history>>

LEMMA WhoSteps ==
    ASSUME NaiveTypes, Next
    PROVE  Reset \/ \E c \in Clients : Begins(c) \/ Proceeds(c)
<1>1. ASSUME NEW c \in Clients, NEW step \in {"select", "max", "receipt"}, NEW what,
             Begin(c, step, what)
      PROVE  Begins(c)
  BY <1>1 DEF Begin, Goto, Begins, NaiveTypes
<1>2. ASSUME NEW c \in Clients, BeginSend(c) \/ BeginPublish(c) \/ BeginAck(c)
      PROVE  Begins(c)
  BY <1>1, <1>2 DEF BeginSend, BeginPublish, BeginAck
<1>3. QED
  BY <1>2 DEF Next, Step, Proceeds

LEMMA HighestInit == Init => HighestExists
<1> SUFFICES ASSUME Init PROVE HighestExists
  OBVIOUS
<1>1. Numbers = {0}
  BY DEF Init, Numbers
<1>2. QED
  BY <1>1 DEF HighestExists

LEMMA AHigherNumber ==
    ASSUME NaiveTypes, HighestExists, NEW new, new.server \in Nat,
           naiveMessages' = naiveMessages \cup {new}
    PROVE  HighestExists'
<1>1. PICK n \in Numbers : \A k \in Numbers : k <= n
  BY DEF HighestExists
<1>2. Numbers \subseteq Nat
  BY DEF Numbers, NaiveTypes, TypeOK
<1>3. Numbers' = Numbers \cup {new.server}
  BY DEF Numbers
<1>4. CASE new.server <= n
  BY <1>1, <1>2, <1>3, <1>4 DEF HighestExists
<1>5. CASE n < new.server
  <2>1. \A k \in Numbers' : k <= new.server
    BY <1>1, <1>2, <1>3, <1>5
  <2>2. QED
    BY <1>3, <2>1 DEF HighestExists
<1>6. QED
  BY <1>1, <1>2, <1>4, <1>5

LEMMA HighestKept == NaiveTypes /\ HighestExists /\ [Next]_vars => HighestExists'
<1> SUFFICES ASSUME NaiveTypes, HighestExists, [Next]_vars PROVE HighestExists'
  OBVIOUS
<1>1. ASSUME UNCHANGED naiveMessages PROVE HighestExists'
  BY <1>1 DEF HighestExists, Numbers
<1>2. CASE UNCHANGED vars
  BY <1>1, <1>2 DEF vars, tables
<1>3. CASE Reset
  <2>1. Numbers' = {0}
    BY <1>3 DEF Reset, Numbers
  <2>2. QED
    BY <2>1 DEF HighestExists
<1>4. ASSUME NEW c \in Clients, InsertMessage(c)
      PROVE  HighestExists'
  <2> DEFINE new == [id |-> Me(c), key |-> input[c].key,
                     position |-> input[c].position, server |-> input[c].position]
  <2>1. new.server \in Nat
    BY <1>4, NaiveAssumption DEF InsertMessage, NaiveTypes, TypeOK, Sends
  <2>2. naiveMessages' = naiveMessages \cup {new}
    BY <1>4 DEF InsertMessage
  <2> HIDE DEF new
  <2>3. QED
    BY <2>1, <2>2, AHigherNumber
<1>5. ASSUME NEW c \in Clients, Publish(c)
      PROVE  HighestExists'
  <2> DEFINE new == [id |-> Me(c), key |-> Nothing,
                     position |-> input[c].position, server |-> read[c]]
  <2>1. new.server \in Nat
    BY <1>5 DEF Publish, NaiveTypes, TypeOK
  <2>2. naiveMessages' = naiveMessages \cup {new}
    BY <1>5 DEF Publish
  <2> HIDE DEF new
  <2>3. QED
    BY <2>1, <2>2, AHigherNumber
<1>6. ASSUME NEW c \in Clients,
             \/ Begins(c) \/ FindExisting(c) \/ FindNothing(c) \/ InsertOperation(c)
             \/ InsertBatch(c) \/ ReadMax(c) \/ InsertReceipt(c) \/ UpdateBatch(c) \/ Crash(c)
      PROVE  HighestExists'
  BY <1>1, <1>6 DEF Begins, FindExisting, FindNothing, InsertOperation, InsertBatch, ReadMax,
     InsertReceipt, UpdateBatch, Crash, tables
<1>7. QED
  BY <1>2, <1>3, <1>4, <1>5, <1>6, WhoSteps DEF Proceeds

LEMMA BegunGrows ==
    ASSUME NaiveTypes, NEW c \in Clients, run' = [run EXCEPT ![c] = run[c] + 1] \/ UNCHANGED run
    PROVE  /\ \A id \in Ids : Begun(id) => Begun(id)'
           /\ \A e \in Clients : pc[e] # "idle" => Begun(Me(e))
<1>1. \A e \in Clients : run[e] \in Nat /\ run'[e] \in Nat /\ run[e] <= run'[e]
  BY NaiveAssumption DEF NaiveTypes, TypeOK
<1>2. ASSUME NEW id \in Ids, Begun(id)
      PROVE  id[2] <= run'[id[1]]
  <2>1. id[1] \in Clients /\ id[2] \in Nat
    BY NaiveAssumption DEF Ids
  <2>2. id[2] <= run[id[1]]
    BY <1>2 DEF Begun
  <2>3. QED
    BY <1>1, <2>1, <2>2
<1>3. \A id \in Ids : Begun(id) => Begun(id)'
  BY <1>2 DEF Begun
<1>4. \A e \in Clients : Begun(Me(e))
  BY <1>1 DEF Begun, Me
<1>5. QED
  BY <1>3, <1>4

LEMMA BegunKept == NaiveTypes /\ TracesAreBegun /\ [Next]_vars => TracesAreBegun'
<1> SUFFICES ASSUME NaiveTypes, TracesAreBegun, [Next]_vars PROVE TracesAreBegun'
  OBVIOUS
<1>i. /\ \A m \in naiveMessages : m.id \in Ids
      /\ \A o \in naiveOperations : o.resource \in Ids
      /\ \A r \in naiveReceipts : r.id \in Ids
      /\ \A a \in answers : a.id \in Ids
      /\ cut \subseteq Ids
  BY AnswersAre DEF NaiveTypes, TypeOK
<1>1. CASE UNCHANGED vars
  BY <1>1 DEF vars, tables, history, TracesAreBegun, Begun
<1>2. CASE Reset
  BY <1>2 DEF Reset, TracesAreBegun, Begun
<1>3. ASSUME NEW c \in Clients, Begins(c)
      PROVE  TracesAreBegun'
  <2>1. \A id \in Ids : Begun(id) => Begun(id)'
    BY <1>3, BegunGrows DEF Begins
  <2>2. QED
    BY <1>3, <1>i, <2>1 DEF Begins, tables, history, TracesAreBegun
<1>4. ASSUME NEW c \in Clients, Proceeds(c)
      PROVE  TracesAreBegun'
  <2>1. pc[c] # "idle" /\ UNCHANGED run
    BY <1>4 DEF Proceeds, FindExisting, FindNothing, InsertMessage, InsertOperation, InsertBatch, ReadMax,
       Publish, InsertReceipt, UpdateBatch, Crash
  <2>2. \A id : Begun(id) => Begun(id)'
    BY <2>1 DEF Begun
  <2>3. Begun(Me(c))
    BY <2>1, BegunGrows
  <2>4. /\ \A m \in naiveMessages' : m \in naiveMessages \/ m.id = Me(c)
        /\ \A o \in naiveOperations' : o \in naiveOperations \/ o.resource = Me(c)
    BY <1>4 DEF Proceeds, FindExisting, FindNothing, InsertMessage, InsertOperation, InsertBatch, ReadMax,
       Publish, InsertReceipt, UpdateBatch, Crash, tables, OperationRow
  <2>5. /\ \A r \in naiveReceipts' : r \in naiveReceipts \/ r.id = Me(c)
        /\ cut' \subseteq cut \cup {Me(c)}
    BY <1>4 DEF Proceeds, FindExisting, FindNothing, InsertMessage, InsertOperation, InsertBatch, ReadMax,
       Publish, InsertReceipt, UpdateBatch, Crash, tables, history
  <2>6. \A a \in answers' : a \in answers \/ a.id = Me(c)
    BY <1>4 DEF Proceeds, FindExisting, FindNothing, InsertMessage, InsertOperation, InsertBatch, ReadMax,
       Publish, InsertReceipt, UpdateBatch, Crash, tables, history, Answer
  <2>7. QED
    BY <2>2, <2>3, <2>4, <2>5, <2>6 DEF TracesAreBegun
<1>5. QED
  BY <1>1, <1>2, <1>3, <1>4, WhoSteps

LEMMA NotYetKept == NaiveTypes /\ TracesAreBegun /\ NotYet /\ [Next]_vars => NotYet'
<1> SUFFICES ASSUME NaiveTypes, TracesAreBegun, NotYet, [Next]_vars PROVE NotYet'
  OBVIOUS
<1>1. CASE UNCHANGED vars
  BY <1>1 DEF vars, tables, history, NotYet, Me
<1>2. CASE Reset
  BY <1>2 DEF Reset, NotYet, Me
<1>3. ASSUME NEW c \in Clients, Begins(c)
      PROVE  NotYet'
  <2>1. run[c] \in Nat /\ run'[c] = run[c] + 1
    BY <1>3, NaiveAssumption DEF Begins, NaiveTypes, TypeOK
  <2>2. ASSUME NEW id \in Ids, Begun(id)
        PROVE  id # <<c, run'[c]>>
    BY <2>1, <2>2 DEF Begun
  <2>3. \A id \in Ids : Begun(id) => id # Me(c)'
    BY <2>2 DEF Me
  <2>4. \A e \in Clients \ {c} : Me(e)' = Me(e) /\ pc'[e] = pc[e]
    BY <1>3 DEF Begins, Me, NaiveTypes, TypeOK
  <2>5. /\ \A m \in naiveMessages : m.id # Me(c)'
        /\ \A o \in naiveOperations : o.resource # Me(c)'
        /\ \A r \in naiveReceipts : r.id # Me(c)'
        /\ \A a \in answers : a.id # Me(c)'
        /\ Me(c)' \notin cut
    BY <2>3, AnswersAre DEF TracesAreBegun, NaiveTypes, TypeOK
  <2>6. UNCHANGED <<naiveMessages, naiveOperations, naiveReceipts, answers, cut>>
    BY <1>3 DEF Begins, tables, history
  <2>7. QED
    BY <2>4, <2>5, <2>6 DEF NotYet
<1>4. ASSUME NEW c \in Clients, Proceeds(c)
      PROVE  NotYet'
  <2>1. /\ pc[c] # "idle" /\ UNCHANGED run
        /\ \A e \in Clients \ {c} : pc'[e] = pc[e]
    BY <1>4 DEF Proceeds, FindExisting, FindNothing, InsertMessage, InsertOperation, InsertBatch, ReadMax,
       Publish, InsertReceipt, UpdateBatch, Crash, Goto, Finish, NaiveTypes, TypeOK
  <2>2. /\ \A m \in naiveMessages' : m \in naiveMessages \/ (m.id = Me(c) /\ pc'[c] \in {"operation", "idle"})
        /\ \A o \in naiveOperations' : o \in naiveOperations \/ (o.resource = Me(c) /\ pc'[c] = "batch")
    BY <1>4 DEF Proceeds, FindExisting, FindNothing, InsertMessage, InsertOperation, InsertBatch, ReadMax,
       Publish, InsertReceipt, UpdateBatch, Crash, tables, OperationRow, Goto, Finish, NaiveTypes, TypeOK
  <2>3. /\ \A r \in naiveReceipts' : r \in naiveReceipts \/ (r.id = Me(c) /\ pc'[c] = "update")
        /\ \A id \in cut' : id \in cut \/ (id = Me(c) /\ pc'[c] = "idle")
    BY <1>4 DEF Proceeds, FindExisting, FindNothing, InsertMessage, InsertOperation, InsertBatch, ReadMax,
       Publish, InsertReceipt, UpdateBatch, Crash, tables, history, Goto, Finish, NaiveTypes, TypeOK
  <2>4. \A a \in answers' : a \in answers \/ (a.id = Me(c) /\ pc'[c] = "idle")
    BY <1>4 DEF Proceeds, FindExisting, FindNothing, InsertMessage, InsertOperation, InsertBatch, ReadMax,
       Publish, InsertReceipt, UpdateBatch, Crash, tables, history, Answer, Goto, Finish, NaiveTypes, TypeOK
  <2>5. /\ pc'[c] \in {"select", "message", "max", "publish", "receipt", "update"} =>
             pc[c] \in {"select", "message", "max", "publish", "receipt", "update"}
        /\ pc'[c] \notin {"batch", "idle"} => pc[c] \notin {"batch", "idle"}
        /\ pc'[c] \notin {"update", "idle"} => pc[c] \notin {"update", "idle"}
    BY <1>4 DEF Proceeds, FindExisting, FindNothing, InsertMessage, InsertOperation, InsertBatch, ReadMax,
       Publish, InsertReceipt, UpdateBatch, Crash, Goto, Finish, NaiveTypes, TypeOK
  <2>6. \A e \in Clients : Me(e)' = Me(e)
    BY <2>1 DEF Me
  <2>7. QED
    BY <2>1, <2>2, <2>3, <2>4, <2>5, <2>6, MineIsMine DEF NotYet
<1>5. QED
  BY <1>1, <1>2, <1>3, <1>4, WhoSteps

LEMMA OneEachKept == NaiveTypes /\ NotYet /\ OneEach /\ [Next]_vars => OneEach'
<1> SUFFICES ASSUME NaiveTypes, NotYet, OneEach, [Next]_vars PROVE OneEach'
  OBVIOUS
<1>1. ASSUME UNCHANGED <<naiveMessages, naiveOperations>>,
             \A e \in Clients : pc'[e] = "operation" =>
                pc[e] = "operation" /\ UNCHANGED <<input[e], run[e]>>
      PROVE  OneEach'
  BY <1>1 DEF OneEach, Sent, Me
<1>2. CASE UNCHANGED vars
  BY <1>1, <1>2 DEF vars, tables
<1>3. CASE Reset
  BY <1>3 DEF Reset, OneEach, Sent
<1>4. ASSUME NEW c \in Clients,
             \/ Begins(c) \/ FindExisting(c) \/ FindNothing(c) \/ InsertBatch(c)
             \/ ReadMax(c) \/ InsertReceipt(c) \/ UpdateBatch(c) \/ Crash(c)
      PROVE  OneEach'
  <2>1. /\ UNCHANGED <<naiveMessages, naiveOperations>> /\ pc'[c] # "operation"
        /\ \A e \in Clients \ {c} : UNCHANGED <<pc[e], input[e], run[e]>>
    BY <1>4 DEF Begins, FindExisting, FindNothing, InsertBatch, ReadMax, InsertReceipt,
       UpdateBatch, Crash, tables, Goto, Finish, NaiveTypes, TypeOK
  <2>2. QED
    BY <1>1, <2>1
<1>5. ASSUME NEW c \in Clients, InsertMessage(c) \/ Publish(c)
      PROVE  OneEach'
  <2>1. PICK new : /\ naiveMessages' = naiveMessages \cup {new} /\ new.id = Me(c)
                   /\ pc'[c] = "operation" => new.key = input[c].key
    <3>1. CASE InsertMessage(c)
      <4> DEFINE row == [id |-> Me(c), key |-> input[c].key,
                         position |-> input[c].position, server |-> input[c].position]
      <4>1. naiveMessages' = naiveMessages \cup {row}
        BY <3>1 DEF InsertMessage
      <4>2. row.id = Me(c) /\ row.key = input[c].key
        OBVIOUS
      <4> HIDE DEF row
      <4>3. QED
        BY <4>1, <4>2
    <3>2. CASE Publish(c)
      <4>1. pc'[c] = "idle"
        BY <3>2 DEF Publish, Goto, Finish, NaiveTypes, TypeOK
      <4>2. QED
        BY <3>2, <4>1 DEF Publish
    <3>3. QED
      BY <1>5, <3>1, <3>2
  <2>2. /\ \A m \in naiveMessages : m.id # Me(c)
        /\ \A o \in naiveOperations : o.resource # Me(c)
        /\ UNCHANGED <<naiveOperations, run>>
        /\ \A e \in Clients \ {c} : pc'[e] = pc[e] /\ input'[e] = input[e]
        /\ pc'[c] = "operation" => input'[c] = input[c]
    BY <1>5 DEF InsertMessage, Publish, NotYet, Goto, Finish, NaiveTypes, TypeOK
  <2>3. \A e \in Clients : Me(e)' = Me(e)
    BY <2>2 DEF Me
  <2>4. QED
    BY <2>1, <2>2, <2>3, MineIsMine DEF OneEach, Sent
<1>6. ASSUME NEW c \in Clients, InsertOperation(c)
      PROVE  OneEach'
  <2>1. /\ naiveOperations' = naiveOperations \cup {[key |-> input[c].key, resource |-> Me(c)]}
        /\ pc[c] = "operation" /\ pc'[c] = "batch" /\ UNCHANGED <<naiveMessages, run, input>>
        /\ \A e \in Clients \ {c} : pc'[e] = pc[e]
    BY <1>6 DEF InsertOperation, OperationRow, Goto, NaiveTypes, TypeOK
  <2>2. \A m \in naiveMessages : m.id = Me(c) => m.key = input[c].key
    BY <2>1 DEF OneEach
  <2>3. \A e \in Clients : Me(e)' = Me(e)
    BY <2>1 DEF Me
  <2>4. QED
    BY <2>1, <2>2, <2>3 DEF OneEach, Sent
<1>7. QED
  BY <1>2, <1>3, <1>4, <1>5, <1>6, WhoSteps DEF Proceeds

LEMMA TracesKept == TracesInv /\ [Next]_vars => TracesInv'
<1>1. (NaiveTypes <=> StepTypes /\ RowTypes)'
  BY TypesAre, PTL
<1>2. QED
  BY <1>1, StepTypesKept, RowTypesKept, HighestKept, BegunKept, NotYetKept, OneEachKept
     DEF TracesInv

-----------------------------------------------------------------------------
(* Races *)

(* What the steps of an execution that is under way leave alone.           *)
LEMMA UnderWay ==
    ASSUME NaiveTypes, NEW c \in Clients, Proceeds(c)
    PROVE  /\ pc[c] # "idle"
           /\ \A e \in Clients : Me(e)' = Me(e)
           /\ \A e \in Clients \ {c} : pc'[e] = pc[e] /\ input'[e] = input[e] /\ read'[e] = read[e]
           /\ pc'[c] # "idle" => input'[c] = input[c]
           /\ raced \subseteq raced' /\ cut \subseteq cut'
<1>1. pc[c] # "idle" /\ UNCHANGED run
  BY DEF Proceeds, FindExisting, FindNothing, InsertMessage, InsertOperation, InsertBatch, ReadMax,
     Publish, InsertReceipt, UpdateBatch, Crash
<1>2. \A e \in Clients : Me(e)' = Me(e)
  BY <1>1 DEF Me
<1>3. \A e \in Clients \ {c} : pc'[e] = pc[e]
  BY DEF Proceeds, FindExisting, FindNothing, InsertMessage, InsertOperation, InsertBatch, ReadMax,
     Publish, InsertReceipt, UpdateBatch, Crash, Goto, Finish, NaiveTypes, TypeOK
<1>4. \A e \in Clients \ {c} : input'[e] = input[e] /\ read'[e] = read[e]
  BY DEF Proceeds, FindExisting, FindNothing, InsertMessage, InsertOperation, InsertBatch, ReadMax,
     Publish, InsertReceipt, UpdateBatch, Crash, Finish, NaiveTypes, TypeOK
<1>5. pc'[c] # "idle" => input'[c] = input[c]
  BY DEF Proceeds, FindExisting, FindNothing, InsertMessage, InsertOperation, InsertBatch, ReadMax,
     Publish, InsertReceipt, UpdateBatch, Crash, Goto, Finish, NaiveTypes, TypeOK
<1>6. raced \subseteq raced' /\ cut \subseteq cut'
  BY DEF Proceeds, FindExisting, FindNothing, InsertMessage, InsertOperation, InsertBatch, ReadMax,
     Publish, InsertReceipt, UpdateBatch, Crash, RaceWith, history
<1>7. QED
  BY <1>1, <1>2, <1>3, <1>4, <1>5, <1>6

LEMMA Beginners ==
    ASSUME NaiveTypes, NEW c \in Clients, Begins(c)
    PROVE  /\ pc[c] = "idle" /\ pc'[c] \in {"select", "max", "receipt"}
           /\ \A e \in Clients \ {c} : /\ Me(e)' = Me(e) /\ pc'[e] = pc[e] /\ input'[e] = input[e]
                                      /\ read'[e] = read[e]
           /\ UNCHANGED <<naiveMessages, naiveOperations, naiveBatches, naiveReceipts>>
           /\ UNCHANGED <<answers, raced, cut, disturbed>>
BY DEF Begins, Me, NaiveTypes, TypeOK, tables, history

(* Recorded only ever becomes true, of the message of the one that inserts.*)
LEMMA RecordedKept ==
    ASSUME NaiveTypes, NotYet, NEW c \in Clients, Proceeds(c)
    PROVE  \A m : /\ Recorded(m) => Recorded(m)'
                  /\ m.id \in cut /\ ~Recorded(m) => ~Recorded(m)'
<1>1. CASE InsertOperation(c)
  <2>1. Me(c) \notin cut
    BY <1>1 DEF InsertOperation, NotYet
  <2>2. naiveOperations' = naiveOperations \cup {[key |-> input[c].key, resource |-> Me(c)]}
    BY <1>1 DEF InsertOperation, OperationRow
  <2>3. QED
    BY <2>1, <2>2 DEF Recorded
<1>2. CASE ~InsertOperation(c)
  <2>1. UNCHANGED naiveOperations
    BY <1>2 DEF Proceeds, FindExisting, FindNothing, InsertMessage, InsertBatch, ReadMax, Publish,
       InsertReceipt, UpdateBatch, Crash, tables
  <2>2. QED
    BY <2>1 DEF Recorded
<1>3. QED
  BY <1>1, <1>2

(* The message of a send is its own, and the rest of Sent stays.           *)
LEMMA SentGrows ==
    ASSUME NaiveTypes, NEW c \in Clients, Proceeds(c)
    PROVE  \A m \in Sent' :
                \/ m \in Sent
                \/ /\ InsertMessage(c) /\ pc[c] = "message" /\ pc'[c] = "operation"
                   /\ m.id = Me(c) /\ m.key = input[c].key
<1>1. CASE InsertMessage(c)
  BY <1>1 DEF InsertMessage, Sent, Goto, NaiveTypes, TypeOK
<1>2. CASE Publish(c)
  BY <1>2 DEF Publish, Sent
<1>3. CASE ~InsertMessage(c) /\ ~Publish(c)
  <2>1. UNCHANGED naiveMessages
    BY <1>3 DEF Proceeds, FindExisting, FindNothing, InsertOperation, InsertBatch, ReadMax,
       InsertReceipt, UpdateBatch, Crash, tables
  <2>2. QED
    BY <2>1 DEF Sent
<1>4. QED
  BY <1>1, <1>2, <1>3

LEMMA UnrecordedKept ==
    NaiveTypes /\ NotYet /\ UnrecordedIsInWindow /\ [Next]_vars => UnrecordedIsInWindow'
<1> SUFFICES ASSUME NaiveTypes, NotYet, UnrecordedIsInWindow, [Next]_vars
             PROVE  UnrecordedIsInWindow'
  OBVIOUS
<1>1. CASE UNCHANGED vars
  BY <1>1 DEF vars, tables, history, UnrecordedIsInWindow, Sent, Recorded, Me
<1>2. CASE Reset
  BY <1>2 DEF Reset, UnrecordedIsInWindow, Sent
<1>3. ASSUME NEW c \in Clients, Begins(c)
      PROVE  UnrecordedIsInWindow'
  BY <1>3, Beginners DEF UnrecordedIsInWindow, Sent, Recorded
<1>4. ASSUME NEW c \in Clients, Proceeds(c)
      PROVE  UnrecordedIsInWindow'
  <2> SUFFICES ASSUME NEW m \in Sent', ~(Recorded(m)'), m.id \notin cut'
               PROVE  \E e \in Clients : m.id = Me(e)' /\ pc'[e] = "operation" /\ input'[e].key = m.key
    BY DEF UnrecordedIsInWindow
  <2>1. CASE m \in Sent
    <3>1. ~Recorded(m) /\ m.id \notin cut
      BY <1>4, RecordedKept, UnderWay
    <3>2. PICK e \in Clients : m.id = Me(e) /\ pc[e] = "operation" /\ input[e].key = m.key
      BY <2>1, <3>1 DEF UnrecordedIsInWindow
    <3>3. CASE e # c
      BY <1>4, <3>2, <3>3, UnderWay
    <3>4. CASE e = c
      <4>1. InsertOperation(c) \/ Crash(c)
        BY <1>4, <3>2, <3>4 DEF Proceeds, FindExisting, FindNothing, InsertMessage, InsertBatch, ReadMax,
           Publish, InsertReceipt, UpdateBatch
      <4>2. ~InsertOperation(c)
        <5>1. InsertOperation(c) => OperationRow(c) \in naiveOperations'
          BY DEF InsertOperation
        <5>2. OperationRow(c).resource = m.id
          BY <3>2, <3>4 DEF OperationRow
        <5>3. QED
          BY <5>1, <5>2 DEF Recorded
      <4>3. ~Crash(c)
        BY <3>2, <3>4 DEF Crash
      <4>4. QED
        BY <4>1, <4>2, <4>3
    <3>5. QED
      BY <3>3, <3>4
  <2>2. CASE m \notin Sent
    BY <1>4, <2>2, SentGrows, UnderWay
  <2>3. QED
    BY <2>1, <2>2
<1>5. QED
  BY <1>1, <1>2, <1>3, <1>4, WhoSteps

LEMMA Pairs == \A x, y : {x, y} = {y, x}
OBVIOUS

(* Whoever is in the window of a send was there, or has just looked.       *)
LEMMA SendersInWindow ==
    ASSUME NaiveTypes, NEW c \in Clients, Proceeds(c)
    PROVE  pc'[c] \in SendWindow => FindNothing(c) \/ pc[c] \in SendWindow
BY DEF Proceeds, FindExisting, FindNothing, InsertMessage, InsertOperation, InsertBatch, ReadMax,
       Publish, InsertReceipt, UpdateBatch, Crash, Goto, Finish, NaiveTypes, TypeOK, SendWindow

LEMMA SendersRaceKept == NaiveTypes /\ SendersRace /\ [Next]_vars => SendersRace'
<1> SUFFICES ASSUME NaiveTypes, SendersRace, [Next]_vars
             PROVE  SendersRace'
  OBVIOUS
<1>1. CASE UNCHANGED vars
  BY <1>1 DEF vars, history, SendersRace, Me
<1>2. CASE Reset
  BY <1>2 DEF Reset, SendersRace, Me
<1>3. ASSUME NEW c \in Clients, Begins(c)
      PROVE  SendersRace'
  BY <1>3, Beginners DEF SendersRace, SendWindow
<1>4. ASSUME NEW c \in Clients, Proceeds(c)
      PROVE  SendersRace'
  <2>1. ASSUME NEW e \in Clients \ {c}, pc'[c] \in SendWindow, pc'[e] \in SendWindow,
               input'[c].key = input'[e].key
        PROVE  {Me(c), Me(e)} \in raced'
    <3>1. pc[e] \in SendWindow /\ input[c].key = input[e].key
      BY <1>4, <2>1, UnderWay DEF SendWindow
    <3>2. CASE FindNothing(c)
      BY <3>1, <3>2 DEF FindNothing, RaceWith, InWindow
    <3>3. CASE pc[c] \in SendWindow
      BY <1>4, <2>1, <3>1, <3>3, UnderWay DEF SendersRace
    <3>4. QED
      BY <1>4, <2>1, <3>2, <3>3, SendersInWindow
  <2>2. ASSUME NEW d \in Clients \ {c}, NEW e \in Clients \ {c}, d # e,
               pc'[d] \in SendWindow, pc'[e] \in SendWindow, input'[d].key = input'[e].key
        PROVE  {Me(d), Me(e)} \in raced'
    BY <1>4, <2>2, UnderWay DEF SendersRace
  <2>3. QED
    BY <1>4, <2>1, <2>2, UnderWay, Pairs DEF SendersRace
<1>5. QED
  BY <1>1, <1>2, <1>3, <1>4, WhoSteps

LEMMA UnseenKept ==
    NaiveTypes /\ NotYet /\ OneEach /\ UnrecordedIsInWindow /\ SendersRace /\ UnseenMessagesRace
      /\ [Next]_vars => UnseenMessagesRace'
<1> SUFFICES ASSUME NaiveTypes, NotYet, OneEach, UnrecordedIsInWindow, SendersRace,
                    UnseenMessagesRace, [Next]_vars
             PROVE  UnseenMessagesRace'
  OBVIOUS
<1>1. CASE UNCHANGED vars
  BY <1>1 DEF vars, tables, history, UnseenMessagesRace, Sent, Recorded, Me
<1>2. CASE Reset
  BY <1>2 DEF Reset, UnseenMessagesRace, Sent
<1>3. ASSUME NEW c \in Clients, Begins(c)
      PROVE  UnseenMessagesRace'
  BY <1>3, Beginners DEF UnseenMessagesRace, Sent, Recorded, SendWindow
<1>4. ASSUME NEW c \in Clients, Proceeds(c)
      PROVE  UnseenMessagesRace'
  <2> SUFFICES ASSUME NEW e \in Clients, NEW m \in Sent', pc'[e] \in SendWindow,
                      m.key = input'[e].key, m.id # Me(e)
               PROVE  {Me(e), m.id} \in raced' \/ (m.id \in cut' /\ ~(Recorded(m)'))
    BY <1>4, UnderWay DEF UnseenMessagesRace
  <2>1. input'[e] = input[e]
    BY <1>4, UnderWay DEF SendWindow
  <2>2. CASE m \in Sent /\ pc[e] \in SendWindow
    <3>1. {Me(e), m.id} \in raced \/ (m.id \in cut /\ ~Recorded(m))
      BY <2>1, <2>2 DEF UnseenMessagesRace
    <3>2. QED
      BY <1>4, <3>1, RecordedKept, UnderWay
  <2>3. CASE m \in Sent /\ pc[e] \notin SendWindow
    <3>1. e = c /\ FindNothing(c)
      BY <1>4, <2>3, UnderWay, SendersInWindow
    <3>2. ~Recorded(m)
      BY <2>1, <2>3, <3>1 DEF FindNothing, Existing, OneEach, Recorded
    <3>3. CASE m.id \in cut
      BY <1>4, <3>2, <3>3, RecordedKept, UnderWay
    <3>4. CASE m.id \notin cut
      <4>1. PICK d \in Clients : m.id = Me(d) /\ pc[d] = "operation" /\ input[d].key = m.key
        BY <2>3, <3>2, <3>4 DEF UnrecordedIsInWindow
      <4>2. d \in InWindow(SendWindow) /\ input[d].key = input[c].key /\ d # c
        BY <2>1, <3>1, <4>1 DEF InWindow, SendWindow
      <4>3. QED
        BY <3>1, <4>1, <4>2 DEF FindNothing, RaceWith
    <3>5. QED
      BY <3>3, <3>4
  <2>4. CASE m \notin Sent
    <3>1. /\ pc[c] = "message" /\ pc'[c] = "operation"
          /\ m.id = Me(c) /\ m.key = input[c].key /\ InsertMessage(c)
      BY <1>4, <2>4, SentGrows
    <3>2. e # c /\ pc[e] \in SendWindow /\ pc[c] \in SendWindow
      BY <1>4, <3>1, UnderWay DEF SendWindow
    <3>3. {Me(e), Me(c)} \in raced
      BY <2>1, <3>1, <3>2 DEF SendersRace
    <3>4. QED
      BY <1>4, <3>1, <3>3, UnderWay
  <2>5. QED
    BY <2>2, <2>3, <2>4
<1>5. QED
  BY <1>1, <1>2, <1>3, <1>4, WhoSteps

LEMMA DuplicatesKept ==
    NaiveTypes /\ NotYet /\ UnseenMessagesRace /\ OneEach /\ DuplicatesNeedARace /\ [Next]_vars
      => DuplicatesNeedARace'
<1> SUFFICES ASSUME NaiveTypes, NotYet, UnseenMessagesRace, OneEach, DuplicatesNeedARace, [Next]_vars
             PROVE  DuplicatesNeedARace'
  OBVIOUS
<1>1. CASE UNCHANGED vars
  BY <1>1 DEF vars, tables, history, DuplicatesNeedARace, Sent, Recorded
<1>2. CASE Reset
  BY <1>2 DEF Reset, DuplicatesNeedARace, Sent
<1>3. ASSUME NEW c \in Clients, Begins(c)
      PROVE  DuplicatesNeedARace'
  BY <1>3, Beginners DEF DuplicatesNeedARace, Sent, Recorded
<1>4. ASSUME NEW c \in Clients, Proceeds(c)
      PROVE  DuplicatesNeedARace'
  <2>1. ASSUME NEW m \in Sent, NEW n \in Sent, m.key = n.key, m # n
        PROVE  \/ {m.id, n.id} \in raced'
               \/ \E e \in {m, n} : e.id \in cut' /\ ~(Recorded(e)')
    <3>1. \/ {m.id, n.id} \in raced
          \/ \E e \in {m, n} : e.id \in cut /\ ~Recorded(e)
      BY <2>1 DEF DuplicatesNeedARace
    <3>2. QED
      BY <1>4, <3>1, RecordedKept, UnderWay
  <2>2. ASSUME NEW m \in Sent', NEW n \in Sent, m \notin Sent, m.key = n.key
        PROVE  /\ {m.id, n.id} \in raced' \/ (n.id \in cut' /\ ~(Recorded(n)'))
               /\ {n.id, m.id} \in raced' \/ (n.id \in cut' /\ ~(Recorded(n)'))
    <3>1. m.id = Me(c) /\ m.key = input[c].key /\ pc[c] = "message"
      BY <1>4, <2>2, SentGrows
    <3>2. n.id # Me(c)
      BY <3>1 DEF NotYet, Sent
    <3>3. {Me(c), n.id} \in raced \/ (n.id \in cut /\ ~Recorded(n))
      BY <2>2, <3>1, <3>2 DEF UnseenMessagesRace, SendWindow
    <3>4. QED
      BY <1>4, <3>1, <3>3, RecordedKept, UnderWay, Pairs
  <2>3. ASSUME NEW m \in Sent', NEW n \in Sent', m \notin Sent, n \notin Sent
        PROVE  m = n
    <3>1. InsertMessage(c) /\ m.id = Me(c) /\ n.id = Me(c)
      BY <1>4, <2>3, SentGrows
    <3>2. OneEach'
      BY OneEachKept
    <3>3. QED
      BY <3>1, <3>2 DEF OneEach, Sent
  <2>4. QED
    BY <2>1, <2>2, <2>3 DEF DuplicatesNeedARace
<1>5. QED
  BY <1>1, <1>2, <1>3, <1>4, WhoSteps

LEMMA PublishersRaceKept == NaiveTypes /\ PublishersRace /\ [Next]_vars => PublishersRace'
<1> SUFFICES ASSUME NaiveTypes, PublishersRace, [Next]_vars
             PROVE  PublishersRace'
  OBVIOUS
<1>1. CASE UNCHANGED vars
  BY <1>1 DEF vars, history, PublishersRace, Me
<1>2. CASE Reset
  BY <1>2 DEF Reset, PublishersRace, Me
<1>3. ASSUME NEW c \in Clients, Begins(c)
      PROVE  PublishersRace'
  BY <1>3, Beginners DEF PublishersRace
<1>4. ASSUME NEW c \in Clients, Proceeds(c)
      PROVE  PublishersRace'
  <2>1. ASSUME NEW e \in Clients \ {c}, pc'[c] = "publish", pc'[e] = "publish"
        PROVE  {Me(c), Me(e)} \in raced'
    <3>1. ReadMax(c) /\ pc[e] = "publish"
      BY <1>4, <2>1, UnderWay DEF Proceeds, FindExisting, FindNothing, InsertMessage,
         InsertOperation, InsertBatch, Publish, InsertReceipt, UpdateBatch, Crash, Goto,
         Finish, NaiveTypes, TypeOK
    <3>2. QED
      BY <3>1 DEF ReadMax, RaceWith, InWindow
  <2>2. ASSUME NEW d \in Clients \ {c}, NEW e \in Clients \ {c}, d # e,
               pc'[d] = "publish", pc'[e] = "publish"
        PROVE  {Me(d), Me(e)} \in raced'
    BY <1>4, <2>2, UnderWay DEF PublishersRace
  <2>3. QED
    BY <1>4, <2>1, <2>2, UnderWay, Pairs DEF PublishersRace
<1>5. QED
  BY <1>1, <1>2, <1>3, <1>4, WhoSteps

(* A publication adds its own number, which it read.                       *)
LEMMA PublishedGrows ==
    ASSUME NaiveTypes, NEW c \in Clients, Proceeds(c)
    PROVE  \A m \in naiveMessages' :
                m.key = Nothing =>
                    \/ m \in naiveMessages
                    \/ /\ Publish(c) /\ pc[c] = "publish" /\ pc'[c] = "idle"
                       /\ m.id = Me(c) /\ m.server = read[c]
<1>1. CASE InsertMessage(c)
  <2>1. input[c].key # Nothing
    BY <1>1, NaiveAssumption DEF InsertMessage, NaiveTypes, TypeOK, Sends
  <2>2. QED
    BY <1>1, <2>1 DEF InsertMessage
<1>2. CASE Publish(c)
  BY <1>2 DEF Publish, Finish, Goto, NaiveTypes, TypeOK
<1>3. CASE ~InsertMessage(c) /\ ~Publish(c)
  BY <1>3 DEF Proceeds, FindExisting, FindNothing, InsertOperation, InsertBatch, ReadMax,
     InsertReceipt, UpdateBatch, Crash, tables
<1>4. QED
  BY <1>1, <1>2, <1>3

(* Whoever is about to publish has the number it read.                     *)
LEMMA PublishersRead ==
    ASSUME NaiveTypes, NEW c \in Clients, Proceeds(c), pc'[c] = "publish"
    PROVE  ReadMax(c) /\ read'[c] = NextNumber
<1>1. ReadMax(c)
  BY DEF Proceeds, FindExisting, FindNothing, InsertMessage, InsertOperation, InsertBatch,
     Publish, InsertReceipt, UpdateBatch, Crash, Goto, Finish, NaiveTypes, TypeOK
<1>2. QED
  BY <1>1 DEF ReadMax, NaiveTypes, TypeOK

LEMMA UnseenNumbersKept ==
    NaiveTypes /\ HighestExists /\ NotYet /\ PublishersRace /\ UnseenNumbersRace /\ [Next]_vars
      => UnseenNumbersRace'
<1> SUFFICES ASSUME NaiveTypes, HighestExists, NotYet, PublishersRace, UnseenNumbersRace,
                    [Next]_vars
             PROVE  UnseenNumbersRace'
  OBVIOUS
<1>1. CASE UNCHANGED vars
  BY <1>1 DEF vars, tables, history, UnseenNumbersRace, Me
<1>2. CASE Reset
  BY <1>2 DEF Reset, UnseenNumbersRace
<1>3. ASSUME NEW c \in Clients, Begins(c)
      PROVE  UnseenNumbersRace'
  BY <1>3, Beginners DEF UnseenNumbersRace
<1>4. ASSUME NEW c \in Clients, Proceeds(c)
      PROVE  UnseenNumbersRace'
  <2>1. ASSUME NEW m \in naiveMessages', m.key = Nothing, pc'[c] = "publish", m.server = read'[c]
        PROVE  FALSE
    <3>1. ReadMax(c) /\ read'[c] = NextNumber
      BY <1>4, <2>1, PublishersRead
    <3>2. m \in naiveMessages
      BY <3>1, <2>1 DEF ReadMax, tables
    <3>3. NextNumber \in Nat /\ m.server < NextNumber
      BY <3>2, NextIsHigher
    <3>4. QED
      BY <2>1, <3>1, <3>3
  <2>2. ASSUME NEW e \in Clients \ {c}, NEW m \in naiveMessages', m.key = Nothing,
               pc'[e] = "publish", m.server = read'[e]
        PROVE  {Me(e), m.id} \in raced'
    <3>1. pc[e] = "publish" /\ read[e] = m.server
      BY <1>4, <2>2, UnderWay
    <3>2. CASE m \in naiveMessages
      BY <1>4, <2>2, <3>1, <3>2, UnderWay DEF UnseenNumbersRace
    <3>3. CASE pc[c] = "publish" /\ m.id = Me(c)
      BY <1>4, <3>1, <3>3, UnderWay DEF PublishersRace
    <3>4. QED
      BY <1>4, <2>2, <3>2, <3>3, PublishedGrows
  <2>3. QED
    BY <1>4, <2>1, <2>2, UnderWay DEF UnseenNumbersRace
<1>5. QED
  BY <1>1, <1>2, <1>3, <1>4, WhoSteps

LEMMA CollisionsKept ==
    NaiveTypes /\ NotYet /\ OneEach /\ UnseenNumbersRace /\ NumbersCollideOnlyInARace /\ [Next]_vars
      => NumbersCollideOnlyInARace'
<1> SUFFICES ASSUME NaiveTypes, NotYet, OneEach, UnseenNumbersRace, NumbersCollideOnlyInARace,
                    [Next]_vars
             PROVE  NumbersCollideOnlyInARace'
  OBVIOUS
<1>1. CASE UNCHANGED vars
  BY <1>1 DEF vars, tables, history, NumbersCollideOnlyInARace
<1>2. CASE Reset
  BY <1>2 DEF Reset, NumbersCollideOnlyInARace
<1>3. ASSUME NEW c \in Clients, Begins(c)
      PROVE  NumbersCollideOnlyInARace'
  BY <1>3, Beginners DEF NumbersCollideOnlyInARace
<1>4. ASSUME NEW c \in Clients, Proceeds(c)
      PROVE  NumbersCollideOnlyInARace'
  <2>1. ASSUME NEW m \in naiveMessages, NEW n \in naiveMessages, m.key = Nothing, n.key = Nothing,
               m.server = n.server, m # n
        PROVE  {m.id, n.id} \in raced'
    BY <1>4, <2>1, UnderWay DEF NumbersCollideOnlyInARace
  <2>2. ASSUME NEW m \in naiveMessages', NEW n \in naiveMessages, m \notin naiveMessages,
               m.key = Nothing, n.key = Nothing, m.server = n.server
        PROVE  {m.id, n.id} \in raced' /\ {n.id, m.id} \in raced'
    <3>1. pc[c] = "publish" /\ m.id = Me(c) /\ m.server = read[c]
      BY <1>4, <2>2, PublishedGrows
    <3>2. {Me(c), n.id} \in raced
      BY <2>2, <3>1 DEF UnseenNumbersRace
    <3>3. QED
      BY <1>4, <3>1, <3>2, UnderWay, Pairs
  <2>3. ASSUME NEW m \in naiveMessages', NEW n \in naiveMessages', m \notin naiveMessages,
               n \notin naiveMessages, m.key = Nothing, n.key = Nothing
        PROVE  m = n
    <3>1. m.id = Me(c) /\ n.id = Me(c)
      BY <1>4, <2>3, PublishedGrows
    <3>2. OneEach'
      BY OneEachKept
    <3>3. QED
      BY <3>1, <3>2 DEF OneEach
  <2>4. QED
    BY <2>1, <2>2, <2>3 DEF NumbersCollideOnlyInARace
<1>5. QED
  BY <1>1, <1>2, <1>3, <1>4, WhoSteps

LEMMA RacesKept == TracesInv /\ RaceInv /\ [Next]_vars => RaceInv'
BY UnrecordedKept, SendersRaceKept, UnseenKept, DuplicatesKept, PublishersRaceKept,
   UnseenNumbersKept, CollisionsKept
   DEF TracesInv, RaceInv

LEMMA TracesAndRacesInit == Init => TracesInv /\ RaceInv
<1> SUFFICES ASSUME Init PROVE TracesInv /\ RaceInv
  OBVIOUS
<1>1. TracesAreBegun /\ NotYet /\ OneEach
  BY DEF Init, TracesAreBegun, NotYet, OneEach, Sent
<1>2. UnrecordedIsInWindow /\ SendersRace /\ UnseenMessagesRace /\ DuplicatesNeedARace
  BY DEF Init, UnrecordedIsInWindow, SendersRace, UnseenMessagesRace, DuplicatesNeedARace, Sent,
     SendWindow
<1>3. PublishersRace /\ UnseenNumbersRace /\ NumbersCollideOnlyInARace
  BY DEF Init, PublishersRace, UnseenNumbersRace, NumbersCollideOnlyInARace
<1>4. QED
  BY <1>1, <1>2, <1>3, TypesInit, HighestInit DEF TracesInv, RaceInv

-----------------------------------------------------------------------------
(* The numbers of the panel *)

(* Rows and answers are only ever added, a reset apart.                    *)
LEMMA RowsStay ==
    ASSUME NaiveTypes, NEW c \in Clients, Begins(c) \/ Proceeds(c)
    PROVE  /\ Sent \subseteq Sent' /\ naiveOperations \subseteq naiveOperations'
           /\ naiveReceipts \subseteq naiveReceipts' /\ answers \subseteq answers'
           /\ disturbed' = disturbed /\ cut \subseteq cut'
<1>1. naiveMessages \subseteq naiveMessages' /\ naiveOperations \subseteq naiveOperations'
  BY DEF Begins, Proceeds, FindExisting, FindNothing, InsertMessage, InsertOperation, InsertBatch,
     ReadMax, Publish, InsertReceipt, UpdateBatch, Crash, tables
<1>2. naiveReceipts \subseteq naiveReceipts' /\ answers \subseteq answers'
  BY DEF Begins, Proceeds, FindExisting, FindNothing, InsertMessage, InsertOperation, InsertBatch,
     ReadMax, Publish, InsertReceipt, UpdateBatch, Crash, tables, history, Answer
<1>3. disturbed' = disturbed
  BY DEF Begins, Proceeds, FindExisting, FindNothing, InsertMessage, InsertOperation, InsertBatch,
     ReadMax, Publish, InsertReceipt, UpdateBatch, Crash, history
<1>4. cut \subseteq cut'
  BY UnderWay DEF Begins, history
<1>5. QED
  BY <1>1, <1>2, <1>3, <1>4 DEF Sent

(* What a step answers.                                                    *)
LEMMA AnswersGrow ==
    ASSUME NaiveTypes, NEW c \in Clients, Begins(c) \/ Proceeds(c)
    PROVE  \/ UNCHANGED answers /\ ~InsertBatch(c)
           \/ /\ \E o \in naiveOperations : answers' =
                    answers \cup {[id |-> Me(c), created |-> FALSE, message |-> o.resource]}
              /\ ~InsertBatch(c)
           \/ /\ answers' = answers \cup {[id |-> Me(c), created |-> TRUE, message |-> Me(c)]}
              /\ InsertBatch(c)
<1>1. CASE Begins(c)
  BY <1>1 DEF Begins, history, InsertBatch
<1>2. CASE FindExisting(c)
  BY <1>2 DEF FindExisting, Existing, InsertBatch
<1>3. CASE InsertBatch(c)
  BY <1>3 DEF InsertBatch, Answer
<1>4. CASE Proceeds(c) /\ ~FindExisting(c) /\ ~InsertBatch(c)
  BY <1>4 DEF Proceeds, FindNothing, InsertMessage, InsertOperation, ReadMax, Publish,
     InsertReceipt, UpdateBatch, Crash, history
<1>5. QED
  BY <1>1, <1>2, <1>3, <1>4

LEMMA CreatedGrows ==
    ASSUME NaiveTypes, NEW c \in Clients, Begins(c) \/ Proceeds(c)
    PROVE  Created' = IF InsertBatch(c) THEN Created \cup {Me(c)} ELSE Created
<1>1. CASE UNCHANGED answers /\ ~InsertBatch(c)
  BY <1>1 DEF Created
<1>2. ASSUME NEW o \in naiveOperations, ~InsertBatch(c),
             answers' = answers \cup {[id |-> Me(c), created |-> FALSE, message |-> o.resource]}
      PROVE  Created' = Created
  BY <1>2 DEF Created
<1>3. CASE /\ answers' = answers \cup {[id |-> Me(c), created |-> TRUE, message |-> Me(c)]}
           /\ InsertBatch(c)
  <2> DEFINE row == [id |-> Me(c), created |-> TRUE, message |-> Me(c)]
  <2>1. answers' = answers \cup {row} /\ row.created /\ row.id = Me(c)
    BY <1>3
  <2> HIDE DEF row
  <2>2. Created' = Created \cup {row.id}
    BY Zenon, <2>1 DEF Created
  <2>3. QED
    BY <1>3, <2>1, <2>2
<1>4. QED
  BY <1>1, <1>2, <1>3, AnswersGrow

LEMMA BatchesKept == NaiveTypes /\ BatchesAnswered /\ [Next]_vars => BatchesAnswered'
<1> SUFFICES ASSUME NaiveTypes, BatchesAnswered, [Next]_vars PROVE BatchesAnswered'
  OBVIOUS
<1>1. CASE UNCHANGED vars
  BY <1>1 DEF vars, tables, history, BatchesAnswered, Created
<1>2. CASE Reset
  BY <1>2 DEF Reset, BatchesAnswered, Created
<1>3. ASSUME NEW c \in Clients, Begins(c) \/ Proceeds(c)
      PROVE  BatchesAnswered'
  <2>1. DOMAIN naiveBatches' = IF InsertBatch(c) THEN DOMAIN naiveBatches \cup {Me(c)}
                               ELSE DOMAIN naiveBatches
    <3>1. CASE InsertBatch(c)
      BY <3>1 DEF InsertBatch
    <3>2. CASE UpdateBatch(c) /\ ~InsertBatch(c)
      BY <3>2 DEF UpdateBatch
    <3>3. CASE ~UpdateBatch(c) /\ ~InsertBatch(c)
      BY <1>3, <3>3 DEF Begins, Proceeds, FindExisting, FindNothing, InsertMessage,
         InsertOperation, ReadMax, Publish, InsertReceipt, Crash, tables
    <3>4. QED
      BY <3>1, <3>2, <3>3
  <2>2. QED
    BY <1>3, <2>1, CreatedGrows DEF BatchesAnswered
<1>4. QED
  BY <1>1, <1>2, <1>3, WhoSteps

(* A row of the operations is of the one that inserts it.                  *)
LEMMA OperationsGrow ==
    ASSUME NaiveTypes, NEW c \in Clients, Begins(c) \/ Proceeds(c)
    PROVE  \A o \in naiveOperations' :
                \/ o \in naiveOperations
                \/ o.resource = Me(c) /\ InsertOperation(c) /\ pc'[c] = "batch"
<1>1. CASE InsertOperation(c)
  BY <1>1 DEF InsertOperation, OperationRow, Goto, NaiveTypes, TypeOK
<1>2. CASE ~InsertOperation(c)
  BY <1>2 DEF Begins, Proceeds, FindExisting, FindNothing, InsertMessage, InsertBatch, ReadMax,
     Publish, InsertReceipt, UpdateBatch, Crash, tables
<1>3. QED
  BY <1>1, <1>2

(* Where a send has got to, and what took it there.                        *)
LEMMA SendsProceed ==
    ASSUME NaiveTypes, NEW c \in Clients, Proceeds(c)
    PROVE  /\ pc'[c] = "operation" => InsertMessage(c)
           /\ pc'[c] = "batch" => InsertOperation(c)
           /\ pc[c] = "operation" => InsertOperation(c) \/ Crash(c)
           /\ pc[c] = "batch" => InsertBatch(c) \/ Crash(c)
           /\ Crash(c) => cut' # {}
           /\ InsertBatch(c) => pc[c] = "batch"
           /\ InsertOperation(c) => pc[c] = "operation" /\ pc'[c] = "batch"
<1>1. /\ pc'[c] = "operation" => InsertMessage(c)
      /\ pc'[c] = "batch" => InsertOperation(c)
  BY DEF Proceeds, FindExisting, FindNothing, InsertMessage, InsertOperation, InsertBatch,
     ReadMax, Publish, InsertReceipt, UpdateBatch, Crash, Goto, Finish, NaiveTypes, TypeOK
<1>2. /\ pc[c] = "operation" => InsertOperation(c) \/ Crash(c)
      /\ pc[c] = "batch" => InsertBatch(c) \/ Crash(c)
  BY DEF Proceeds, FindExisting, FindNothing, InsertMessage, InsertOperation, InsertBatch,
     ReadMax, Publish, InsertReceipt, UpdateBatch, Crash
<1>3. Crash(c) => cut' # {}
  BY DEF Crash
<1>4. /\ InsertBatch(c) => pc[c] = "batch"
      /\ InsertOperation(c) => pc[c] = "operation" /\ pc'[c] = "batch"
  BY DEF InsertBatch, InsertOperation, Goto, NaiveTypes, TypeOK
<1>5. QED
  BY <1>1, <1>2, <1>3, <1>4

LEMMA RowsAnswerKept == NaiveTypes /\ RowsAnswer /\ [Next]_vars => RowsAnswer'
<1> SUFFICES ASSUME NaiveTypes, RowsAnswer, [Next]_vars, ~disturbed', cut' = {}
             PROVE  RowsAnswer'
  BY DEF RowsAnswer
<1>1. CASE UNCHANGED vars
  BY <1>1 DEF vars, tables, history, RowsAnswer, Created, Sent, UnansweredAt, Me
<1>2. CASE Reset
  BY <1>2 DEF Reset, RowsAnswer, Created, Sent
<1>3. ASSUME NEW c \in Clients, Begins(c)
      PROVE  RowsAnswer'
  <2>1. ~disturbed /\ cut = {}
    BY <1>3, Beginners
  <2>2. /\ \A id : UnansweredAt(id, {"operation", "batch"}) => UnansweredAt(id, {"operation", "batch"})'
        /\ \A id : UnansweredAt(id, {"batch"}) => UnansweredAt(id, {"batch"})'
    BY <1>3, Beginners DEF UnansweredAt
  <2>3. Created' = Created /\ Sent' = Sent
    BY <1>3, Beginners DEF Created, Sent
  <2>4. \A e \in Clients : pc'[e] \in {"operation", "batch"} => pc[e] = pc'[e] /\ Me(e)' = Me(e)
    BY <1>3, Beginners
  <2>5. QED
    BY <1>3, <2>1, <2>2, <2>3, <2>4, Beginners DEF RowsAnswer
<1>4. ASSUME NEW c \in Clients, Proceeds(c)
      PROVE  RowsAnswer'
  <2>0. ~disturbed /\ cut = {} /\ ~Crash(c)
    BY <1>4, RowsStay, SendsProceed
  <2>1. /\ Sent \subseteq Sent' /\ naiveOperations \subseteq naiveOperations'
        /\ Created \subseteq Created'
    BY <1>4, RowsStay, CreatedGrows
  <2>2. ASSUME NEW e \in Clients, pc'[e] \in {"operation", "batch"}
        PROVE  \E m \in Sent' : m.id = Me(e)'
    <3>1. CASE e # c
      BY <1>4, <2>0, <2>1, <2>2, <3>1, UnderWay DEF RowsAnswer
    <3>2. CASE e = c /\ pc'[c] = "operation"
      <4> DEFINE row == [id |-> Me(c), key |-> input[c].key,
                         position |-> input[c].position, server |-> input[c].position]
      <4>1. InsertMessage(c)
        BY <1>4, <3>2, SendsProceed
      <4>2. row \in naiveMessages'
        BY <4>1 DEF InsertMessage
      <4>3. row.id = Me(c) /\ row.key = input[c].key
        OBVIOUS
      <4>4. input[c].key # Nothing
        BY <4>1, NaiveAssumption DEF InsertMessage, NaiveTypes, TypeOK, Sends
      <4> HIDE DEF row
      <4>5. QED
        BY <1>4, <3>2, <4>2, <4>3, <4>4, UnderWay DEF Sent
    <3>3. CASE e = c /\ pc'[c] = "batch"
      <4>1. pc[c] = "operation"
        BY <1>4, <3>3, SendsProceed
      <4>2. QED
        BY <1>4, <2>0, <2>1, <3>3, <4>1, UnderWay DEF RowsAnswer
    <3>4. QED
      BY <2>2, <3>1, <3>2, <3>3
  <2>3. ASSUME NEW e \in Clients, pc'[e] = "batch"
        PROVE  \E o \in naiveOperations' : o.resource = Me(e)'
    <3>1. CASE e # c
      BY <1>4, <2>0, <2>1, <2>3, <3>1, UnderWay DEF RowsAnswer
    <3>2. CASE e = c
      <4>1. OperationRow(c) \in naiveOperations'
        BY <1>4, <2>3, <3>2, SendsProceed DEF InsertOperation
      <4>2. OperationRow(c).resource = Me(c)
        BY DEF OperationRow
      <4>3. QED
        BY <1>4, <3>2, <4>1, <4>2, UnderWay
    <3>3. QED
      BY <3>1, <3>2
  <2>4. ASSUME NEW id \in Created'
        PROVE  (\E m \in Sent' : m.id = id) /\ (\E o \in naiveOperations' : o.resource = id)
    <3>1. CASE id \in Created
      BY <2>0, <2>1, <3>1 DEF RowsAnswer
    <3>2. CASE id = Me(c) /\ pc[c] = "batch"
      BY <2>0, <2>1, <3>2 DEF RowsAnswer
    <3>3. QED
      BY <1>4, <3>1, <3>2, CreatedGrows, SendsProceed
  <2>5. ASSUME NEW m \in Sent'
        PROVE  m.id \in Created' \/ UnansweredAt(m.id, {"operation", "batch"})'
    <3>1. CASE m \in Sent /\ m.id \in Created
      BY <2>1, <3>1
    <3>2. ASSUME NEW e \in Clients, m.id = Me(e), pc[e] \in {"operation", "batch"}
          PROVE  m.id \in Created' \/ UnansweredAt(m.id, {"operation", "batch"})'
      <4>1. CASE e # c
        BY <1>4, <3>2, <4>1, UnderWay DEF UnansweredAt
      <4>2. CASE e = c /\ pc[c] = "operation"
        BY <1>4, <2>0, <3>2, <4>2, UnderWay, SendsProceed DEF UnansweredAt
      <4>3. CASE e = c /\ pc[c] = "batch"
        BY <1>4, <2>0, <3>2, <4>3, CreatedGrows, SendsProceed
      <4>4. QED
        BY <3>2, <4>1, <4>2, <4>3
    <3>3. CASE m \notin Sent
      BY <1>4, <3>3, SentGrows, UnderWay DEF UnansweredAt
    <3>4. m \in Sent => m.id \in Created \/ UnansweredAt(m.id, {"operation", "batch"})
      BY <2>0 DEF RowsAnswer
    <3>5. QED
      BY <3>1, <3>2, <3>3, <3>4 DEF UnansweredAt
  <2>6. ASSUME NEW o \in naiveOperations'
        PROVE  o.resource \in Created' \/ UnansweredAt(o.resource, {"batch"})'
    <3>1. CASE o \in naiveOperations /\ o.resource \in Created
      BY <2>1, <3>1
    <3>2. ASSUME NEW e \in Clients, o.resource = Me(e), pc[e] \in {"batch"}
          PROVE  o.resource \in Created' \/ UnansweredAt(o.resource, {"batch"})'
      <4>1. CASE e # c
        BY <1>4, <3>2, <4>1, UnderWay DEF UnansweredAt
      <4>2. CASE e = c
        BY <1>4, <2>0, <3>2, <4>2, CreatedGrows, SendsProceed
      <4>3. QED
        BY <4>1, <4>2
    <3>3. CASE o \notin naiveOperations
      BY <1>4, <3>3, OperationsGrow, UnderWay DEF UnansweredAt
    <3>4. o \in naiveOperations => o.resource \in Created \/ UnansweredAt(o.resource, {"batch"})
      BY <2>0 DEF RowsAnswer
    <3>5. QED
      BY <3>1, <3>2, <3>3, <3>4 DEF UnansweredAt
  <2>7. ASSUME NEW a \in answers'
        PROVE  \E o \in naiveOperations' : o.resource = a.message
    <3>1. CASE a \in answers
      BY <2>0, <2>1, <3>1 DEF RowsAnswer
    <3>2. CASE \E o \in naiveOperations : a.message = o.resource
      BY <2>1, <3>2
    <3>3. CASE a.message = Me(c) /\ pc[c] = "batch"
      BY <2>0, <2>1, <3>3 DEF RowsAnswer
    <3>4. QED
      BY <1>4, <2>7, <3>1, <3>2, <3>3, AnswersGrow, SendsProceed
  <2>8. QED
    BY <2>2, <2>3, <2>4, <2>5, <2>6, <2>7 DEF RowsAnswer
<1>5. QED
  BY <1>1, <1>2, <1>3, <1>4, WhoSteps

(* What the receipts say of a message, as the steps leave it.              *)
LEMMA CountedKept ==
    ASSUME NaiveTypes, NotYet, NEW c \in Clients,
           \/ Begins(c)
           \/ Proceeds(c) /\ ~UpdateBatch(c)
           \/ UpdateBatch(c) /\ input[c].message \notin DOMAIN naiveBatches
    PROVE  \A m : Counted(m)' = Counted(m)
<1> DEFINE Over(r) == r.id \notin cut /\ \A e \in Clients : Me(e) = r.id => pc[e] # "update"
<1>c. \A m : /\ Counted(m) = {r \in naiveReceipts : r.message = m /\ Over(r)}
             /\ Counted(m)' = {r \in naiveReceipts' : r.message = m /\ Over(r)'}
  BY DEF Counted
<1>1. SUFFICES /\ \A r \in naiveReceipts : r \in naiveReceipts' /\ (Over(r)' <=> Over(r))
               /\ \A r \in naiveReceipts' : r \in naiveReceipts \/ ~(Over(r)')
  <2> HIDE DEF Over
  <2>1. QED
    BY <1>1, <1>c
<1>2. CASE Begins(c)
  <2>1. \A e \in Clients : pc[e] = "update" <=> pc'[e] = "update"
    BY <1>2, Beginners
  <2>2. \A e \in Clients : pc[e] = "update" => Me(e)' = Me(e)
    BY <1>2, Beginners
  <2>3. UNCHANGED <<naiveReceipts, cut>>
    BY <1>2, Beginners
  <2>4. QED
    BY <2>1, <2>2, <2>3
<1>3. CASE InsertReceipt(c)
  <2>1. PICK row : naiveReceipts' = naiveReceipts \cup {row} /\ UNCHANGED cut /\ row.id = Me(c)
    <3> DEFINE it == [id |-> Me(c), message |-> input[c].message, device |-> input[c].device]
    <3>1. naiveReceipts' = naiveReceipts \cup {it} /\ UNCHANGED cut /\ it.id = Me(c)
      BY <1>3 DEF InsertReceipt, history
    <3> HIDE DEF it
    <3>2. QED
      BY <3>1
  <2>2. pc'[c] = "update" /\ pc[c] = "receipt"
    BY <1>3 DEF InsertReceipt, Goto, NaiveTypes, TypeOK
  <2>3. \A e \in Clients : Me(e)' = Me(e)
    BY <1>3, UnderWay DEF Proceeds
  <2>4. \A e \in Clients \ {c} : pc'[e] = pc[e]
    BY <1>3, UnderWay DEF Proceeds
  <2>5. \A r \in naiveReceipts : r.id # Me(c)
    BY <2>2 DEF NotYet
  <2>6. ~(Over(row)')
    BY <2>1, <2>2, <2>3
  <2>7. \A r \in naiveReceipts : Over(r)' <=> Over(r)
    BY <2>1, <2>3, <2>4, <2>5
  <2>8. QED
    BY <2>1, <2>6, <2>7
<1>4. CASE Crash(c) \/ (UpdateBatch(c) /\ input[c].message \notin DOMAIN naiveBatches)
  <2>1. UNCHANGED naiveReceipts /\ cut' = cut \cup {Me(c)}
    BY <1>4 DEF Crash, UpdateBatch, tables
  <2>2. pc[c] # "idle" /\ pc'[c] = "idle"
    BY <1>4 DEF Crash, UpdateBatch, Finish, Goto, NaiveTypes, TypeOK
  <2>3. \A e \in Clients : Me(e)' = Me(e)
    BY <1>4, UnderWay DEF Proceeds
  <2>4. \A e \in Clients \ {c} : pc'[e] = pc[e]
    BY <1>4, UnderWay DEF Proceeds
  <2>5. pc[c] # "update" => \A r \in naiveReceipts : r.id # Me(c)
    BY <2>2 DEF NotYet
  <2>6. \A r \in naiveReceipts : Over(r)' <=> Over(r)
    BY <2>1, <2>2, <2>3, <2>4, <2>5
  <2>7. QED
    BY <2>1, <2>6
<1>5. CASE Proceeds(c) /\ ~InsertReceipt(c) /\ ~Crash(c) /\ ~UpdateBatch(c)
  <2>1. UNCHANGED <<naiveReceipts, cut>>
    BY <1>5 DEF Proceeds, FindExisting, FindNothing, InsertMessage, InsertOperation, InsertBatch,
       ReadMax, Publish, tables, history
  <2>2. pc[c] # "update" /\ pc'[c] # "update"
    BY <1>5 DEF Proceeds, FindExisting, FindNothing, InsertMessage, InsertOperation, InsertBatch,
       ReadMax, Publish, Goto, Finish, NaiveTypes, TypeOK
  <2>3. \A e \in Clients : Me(e)' = Me(e)
    BY <1>5, UnderWay
  <2>4. \A e \in Clients \ {c} : pc'[e] = pc[e]
    BY <1>5, UnderWay
  <2>5. \A e \in Clients : pc'[e] = "update" <=> pc[e] = "update"
    BY <2>2, <2>4
  <2>6. QED
    BY <2>1, <2>3, <2>5
<1>6. QED
  BY <1>2, <1>3, <1>4, <1>5 DEF Proceeds

(* An ack that meets its batch adds its own receipt to the counted ones.   *)
LEMMA CountedGrows ==
    ASSUME NaiveTypes, NotYet, ReceiptsOfAcks, ~disturbed, NEW c \in Clients,
           UpdateBatch(c), NEW at \in DOMAIN naiveBatches, input[c].message = at
    PROVE  \E row : /\ row \notin Counted(at)
                    /\ Counted(at)' = Counted(at) \cup {row}
                    /\ \A m : m # at => Counted(m)' = Counted(m)
<1> DEFINE Over(r) == r.id \notin cut /\ \A e \in Clients : Me(e) = r.id => pc[e] # "update"
<1>c. \A m : /\ Counted(m) = {r \in naiveReceipts : r.message = m /\ Over(r)}
             /\ Counted(m)' = {r \in naiveReceipts' : r.message = m /\ Over(r)'}
  BY DEF Counted
<1>1. PICK row \in naiveReceipts : row.id = Me(c) /\ row.message = at
  <2> DEFINE it == [id |-> Me(c), message |-> input[c].message, device |-> input[c].device]
  <2>1. it \in naiveReceipts
    BY DEF ReceiptsOfAcks, UpdateBatch
  <2>2. it.id = Me(c) /\ it.message = at
    OBVIOUS
  <2> HIDE DEF it
  <2>3. QED
    BY <2>1, <2>2
<1>2. UNCHANGED <<naiveReceipts, cut>>
  BY DEF UpdateBatch
<1>3. pc[c] = "update" /\ pc'[c] = "idle"
  BY DEF UpdateBatch, Finish, Goto, NaiveTypes, TypeOK
<1>4. /\ \A e \in Clients : Me(e)' = Me(e)
      /\ \A e \in Clients \ {c} : pc'[e] = pc[e]
  BY UnderWay DEF Proceeds
<1>5. Me(c) \notin cut
  BY <1>3 DEF NotYet
<1>6. \A r \in naiveReceipts : r.id = Me(c) => r = row
  BY <1>1 DEF ReceiptsOfAcks
<1>7. ~Over(row)
  BY <1>1, <1>3
<1>8. \A r \in naiveReceipts : Over(r)' <=> Over(r) \/ r = row
  BY <1>1, <1>2, <1>3, <1>4, <1>5, <1>6, MineIsMine
<1> HIDE DEF Over
<1>9. row \notin Counted(at)
  BY <1>7, <1>c
<1>10. \A r \in naiveReceipts' : r \in naiveReceipts
  BY <1>2
<1>11. \A m : Counted(m)' = {r \in naiveReceipts : r.message = m /\ (Over(r) \/ r = row)}
  BY <1>2, <1>8, <1>c
<1>12. {r \in naiveReceipts : r.message = at /\ (Over(r) \/ r = row)} = Counted(at) \cup {row}
  BY <1>1, <1>c
<1>13. \A m : m # at => {r \in naiveReceipts : r.message = m /\ (Over(r) \/ r = row)} = Counted(m)
  BY <1>1, <1>c
<1>14. QED
  BY <1>9, <1>11, <1>12, <1>13

LEMMA ReceiptsKept ==
    NaiveTypes /\ NotYet /\ BatchesAnswered /\ ReceiptsOfAcks /\ [Next]_vars => ReceiptsOfAcks'
<1> SUFFICES ASSUME NaiveTypes, NotYet, ReceiptsOfAcks, [Next]_vars, ~disturbed'
             PROVE  ReceiptsOfAcks'
  BY DEF ReceiptsOfAcks
<1>1. CASE UNCHANGED vars
  BY <1>1 DEF vars, tables, history, ReceiptsOfAcks, Counted, Me
<1>2. CASE Reset
  <2>1. naiveReceipts' = {} /\ \A c \in Clients : pc'[c] = "idle"
    BY <1>2 DEF Reset
  <2>2. \A m : Counted(m)' = {}
    BY <2>1 DEF Counted
  <2>3. QED
    BY <2>1, <2>2 DEF ReceiptsOfAcks
<1>3. ASSUME NEW c \in Clients, Begins(c) \/ Proceeds(c)
      PROVE  ReceiptsOfAcks'
  <2>0. ~disturbed
    BY <1>3, RowsStay
  <2>1. ASSUME NEW e \in Clients, pc'[e] = "update"
        PROVE  [id |-> Me(e)', message |-> input'[e].message, device |-> input'[e].device]
                    \in naiveReceipts'
    <3>1. CASE InsertReceipt(c) /\ e = c
      <4>1. Me(e)' = Me(e) /\ input' = input
        BY <3>1, UnderWay DEF InsertReceipt, Proceeds
      <4>2. QED
        BY <3>1, <4>1 DEF InsertReceipt
    <3>2. CASE ~(InsertReceipt(c) /\ e = c)
      <4>1. pc[e] = "update" /\ Me(e)' = Me(e) /\ input'[e] = input[e]
        <5>1. CASE e # c
          BY <1>3, <2>1, <5>1, UnderWay, Beginners
        <5>2. CASE e = c
          <6>1. pc'[c] = "update" => InsertReceipt(c)
            BY <1>3 DEF Begins, Proceeds, FindExisting, FindNothing, InsertMessage,
               InsertOperation, InsertBatch, ReadMax, Publish, UpdateBatch, Crash, Goto, Finish,
               NaiveTypes, TypeOK
          <6>2. QED
            BY <2>1, <3>2, <5>2, <6>1
        <5>3. QED
          BY <5>1, <5>2
      <4>2. [id |-> Me(e), message |-> input[e].message, device |-> input[e].device]
                \in naiveReceipts
        BY <2>0, <4>1 DEF ReceiptsOfAcks
      <4>3. QED
        BY <1>3, <4>1, <4>2, RowsStay
    <3>3. QED
      BY <3>1, <3>2
  <2>2. ASSUME NEW r \in naiveReceipts', NEW q \in naiveReceipts', r.id = q.id
        PROVE  r = q
    <3>1. CASE InsertReceipt(c)
      <4>1. PICK row : naiveReceipts' = naiveReceipts \cup {row} /\ row.id = Me(c)
        <5> DEFINE it == [id |-> Me(c), message |-> input[c].message, device |-> input[c].device]
        <5>1. naiveReceipts' = naiveReceipts \cup {it} /\ it.id = Me(c)
          BY <3>1 DEF InsertReceipt
        <5> HIDE DEF it
        <5>2. QED
          BY <5>1
      <4>2. \A s \in naiveReceipts : s.id # Me(c)
        BY <3>1 DEF InsertReceipt, NotYet
      <4>3. QED
        BY <2>0, <2>2, <4>1, <4>2 DEF ReceiptsOfAcks
    <3>2. CASE ~InsertReceipt(c)
      <4>1. UNCHANGED naiveReceipts
        BY <1>3, <3>2 DEF Begins, Proceeds, FindExisting, FindNothing, InsertMessage,
           InsertOperation, InsertBatch, ReadMax, Publish, UpdateBatch, Crash, tables
      <4>2. QED
        BY <2>0, <2>2, <4>1 DEF ReceiptsOfAcks
    <3>3. QED
      BY <3>1, <3>2
  <2>3. ASSUME NEW m \in Ids \ DOMAIN naiveBatches'
        PROVE  Counted(m)' = {}
    <3>1. DOMAIN naiveBatches \subseteq DOMAIN naiveBatches'
      BY <1>3 DEF Begins, Proceeds, FindExisting, FindNothing, InsertMessage, InsertOperation,
         InsertBatch, ReadMax, Publish, InsertReceipt, UpdateBatch, Crash, tables
    <3>2. Counted(m) = {}
      BY <2>0, <3>1 DEF ReceiptsOfAcks
    <3>3. CASE UpdateBatch(c) /\ input[c].message \in DOMAIN naiveBatches
      <4>1. m # input[c].message
        BY <2>3, <3>1, <3>3
      <4>2. Counted(m)' = Counted(m)
        BY <2>0, <3>3, <4>1, CountedGrows
      <4>3. QED
        BY <3>2, <4>2
    <3>4. CASE ~(UpdateBatch(c) /\ input[c].message \in DOMAIN naiveBatches)
      BY <1>3, <3>2, <3>4, CountedKept
    <3>5. QED
      BY <3>3, <3>4
  <2>4. QED
    BY <2>1, <2>2, <2>3 DEF ReceiptsOfAcks
<1>4. QED
  BY <1>1, <1>2, <1>3, WhoSteps

(* Every ack that is over has added one, and no other has.                 *)
LEMMA ProgressKept ==
    NaiveTypes /\ NotYet /\ BatchesAnswered /\ ReceiptsOfAcks /\ ProgressCountsEvents
      /\ [Next]_vars => ProgressCountsEvents'
<1> SUFFICES ASSUME NaiveTypes, NotYet, BatchesAnswered, ReceiptsOfAcks, ProgressCountsEvents,
                    [Next]_vars, ~disturbed'
             PROVE  ProgressCountsEvents'
  BY DEF ProgressCountsEvents
<1>0. /\ ProgressCountsEvents <=>
            (~disturbed => \A m \in DOMAIN naiveBatches : naiveBatches[m] = Cardinality(Counted(m)))
      /\ ProgressCountsEvents' <=>
            (~disturbed' => \A m \in DOMAIN naiveBatches' : naiveBatches'[m] = Cardinality(Counted(m)'))
  BY DEF ProgressCountsEvents, Counted
<1>1. CASE UNCHANGED vars
  BY <1>1 DEF vars, tables, history, ProgressCountsEvents, Me
<1>2. CASE Reset
  <2>1. DOMAIN naiveBatches' = {}
    BY <1>2 DEF Reset
  <2>2. QED
    BY <1>0, <2>1
<1>3. ASSUME NEW c \in Clients, Begins(c) \/ Proceeds(c)
      PROVE  ProgressCountsEvents'
  <2>0. /\ ~disturbed
        /\ \A m \in DOMAIN naiveBatches : naiveBatches[m] = Cardinality(Counted(m))
    BY <1>0, <1>3, RowsStay
  <2>1. CASE UpdateBatch(c) /\ input[c].message \in DOMAIN naiveBatches
    <3>1. PICK at \in DOMAIN naiveBatches : input[c].message = at
      BY <2>1
    <3>2. PICK row : /\ row \notin Counted(at)
                     /\ Counted(at)' = Counted(at) \cup {row}
                     /\ \A m : m # at => Counted(m)' = Counted(m)
      BY <2>0, <2>1, <3>1, CountedGrows
    <3>3. /\ naiveBatches'[at] = naiveBatches[at] + 1
          /\ \A m \in DOMAIN naiveBatches \ {at} : naiveBatches'[m] = naiveBatches[m]
          /\ DOMAIN naiveBatches' = DOMAIN naiveBatches
      BY <2>1, <3>1 DEF UpdateBatch, Counts, NaiveTypes
    <3>4. IsFiniteSet(Counted(at))
      <4>1. Counted(at) \subseteq naiveReceipts
        BY DEF Counted
      <4>2. QED
        BY <4>1, FS_Subset DEF NaiveTypes
    <3>5. Cardinality(Counted(at)') = Cardinality(Counted(at)) + 1
      BY <3>2, <3>4, FS_AddElement
    <3>6. QED
      BY <1>0, <2>0, <3>1, <3>2, <3>3, <3>5
  <2>2. CASE ~(UpdateBatch(c) /\ input[c].message \in DOMAIN naiveBatches)
    <3>1. \A m : Counted(m)' = Counted(m)
      BY <1>3, <2>2, CountedKept
    <3>2. CASE InsertBatch(c)
      <4>1. pc[c] = "batch"
        BY <3>2 DEF InsertBatch
      <4>2. Me(c) \in Ids /\ Me(c) \notin DOMAIN naiveBatches
        BY <4>1, MineIsAnId DEF NotYet, BatchesAnswered, Created
      <4>3. Counted(Me(c)) = {}
        BY <2>0, <4>2 DEF ReceiptsOfAcks
      <4>4. \A m : Cardinality(Counted(m)') = Cardinality(Counted(m))
        BY <3>1
      <4>5. Cardinality(Counted(Me(c))) = 0
        BY <4>3, FS_EmptySet
      <4>6. naiveBatches' = [m \in DOMAIN naiveBatches \cup {Me(c)} |->
                                IF m = Me(c) THEN 0 ELSE naiveBatches[m]]
        BY <3>2 DEF InsertBatch
      <4>7. ASSUME NEW m \in DOMAIN naiveBatches'
            PROVE  naiveBatches'[m] = Cardinality(Counted(m))
        BY <2>0, <4>5, <4>6
      <4>8. QED
        BY <1>0, <4>4, <4>7
    <3>3. CASE ~InsertBatch(c)
      <4>1. UNCHANGED naiveBatches
        BY <1>3, <2>2, <3>3 DEF Begins, Proceeds, FindExisting, FindNothing, InsertMessage,
           InsertOperation, ReadMax, Publish, InsertReceipt, UpdateBatch, Crash, tables
      <4>2. QED
        BY <1>0, <2>0, <3>1, <4>1
    <3>4. QED
      BY <3>2, <3>3
  <2>3. QED
    BY <2>1, <2>2
<1>4. QED
  BY <1>1, <1>2, <1>3, WhoSteps

LEMMA PanelInit == Init => PanelInv
<1> SUFFICES ASSUME Init PROVE PanelInv
  OBVIOUS
<1>1. BatchesAnswered /\ RowsAnswer
  BY DEF Init, BatchesAnswered, RowsAnswer, Created, Sent
<1>2. ReceiptsOfAcks /\ ProgressCountsEvents
  BY DEF Init, ReceiptsOfAcks, ProgressCountsEvents, Counted
<1>3. QED
  BY <1>1, <1>2 DEF PanelInv

-----------------------------------------------------------------------------
(* The theorems *)

NaiveInv == TracesInv /\ RaceInv /\ PanelInv

(* The invariant: traces, windows and numbers, of every client.            *)
THEOREM NaiveInvariant == Spec => []NaiveInv
<1>1. Init => NaiveInv
  BY TracesAndRacesInit, PanelInit DEF NaiveInv
<1>2. NaiveInv /\ [Next]_vars => NaiveInv'
  <2> SUFFICES ASSUME NaiveInv, [Next]_vars PROVE NaiveInv'
    OBVIOUS
  <2>1. TracesInv' /\ RaceInv'
    BY TracesKept, RacesKept DEF NaiveInv
  <2>2. NaiveTypes /\ NotYet /\ BatchesAnswered /\ RowsAnswer /\ ReceiptsOfAcks
        /\ ProgressCountsEvents
    BY DEF NaiveInv, TracesInv, PanelInv
  <2>3. PanelInv'
    BY <2>2, BatchesKept, RowsAnswerKept, ReceiptsKept, ProgressKept DEF PanelInv
  <2>4. QED
    BY <2>1, <2>3 DEF NaiveInv
<1>3. QED
  BY <1>1, <1>2, PTL DEF Spec

(* naive.service.ts:31: two messages of one key are of two requests that   *)
(* were between their SELECT and their INSERT at one time, or of one that  *)
(* died there.                                                             *)
THEOREM DuplicatesComeFromTheWindow == Spec => []DuplicatesNeedARace
<1>1. NaiveInv => DuplicatesNeedARace
  BY DEF NaiveInv, RaceInv
<1>2. QED
  BY <1>1, NaiveInvariant, PTL

(* naive.service.ts:97: two publications with one number had read it at    *)
(* one time.                                                               *)
THEOREM CollisionsComeFromTheWindow == Spec => []NumbersCollideOnlyInARace
<1>1. NaiveInv => NumbersCollideOnlyInARace
  BY DEF NaiveInv, RaceInv
<1>2. QED
  BY <1>1, NaiveInvariant, PTL

(* naive.service.ts:137, idempotencia.js:74-95: what the panel counts, the *)
(* rows and the progress, is what the requests and the acks did.           *)
THEOREM ThePanelCountsRight == Spec => []PanelShowsTheDamage
<1>1. NaiveInv => PanelShowsTheDamage
  <2> SUFFICES ASSUME NaiveInv PROVE PanelShowsTheDamage
    OBVIOUS
  <2>1. BatchesAnswered /\ RowsAnswer /\ ProgressCountsEvents
    BY DEF NaiveInv, PanelInv
  <2>2. ASSUME ~disturbed, cut = {}, \A c \in Clients : pc[c] = "idle"
        PROVE  /\ Created = {m.id : m \in Sent}
               /\ Created = {o.resource : o \in naiveOperations}
               /\ Created = DOMAIN naiveBatches
               /\ \A a \in answers : a.message \in Created
    <3>1. /\ \A id \in Created :
                (\E m \in Sent : m.id = id) /\ (\E o \in naiveOperations : o.resource = id)
          /\ \A m \in Sent : m.id \in Created
          /\ \A o \in naiveOperations : o.resource \in Created
          /\ \A a \in answers : \E o \in naiveOperations : o.resource = a.message
      BY <2>1, <2>2 DEF RowsAnswer, UnansweredAt
    <3>2. QED
      BY <2>1, <3>1 DEF BatchesAnswered
  <2>3. CountsAgree
    BY <2>2 DEF CountsAgree, Created
  <2>4. QED
    BY <2>1, <2>3 DEF PanelShowsTheDamage
<1>2. QED
  BY <1>1, NaiveInvariant, PTL
=============================================================================
