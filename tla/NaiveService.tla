---------------------------- MODULE NaiveService ----------------------------
(***************************************************************************)
(* naive.service.ts: the deliberately wrong variant the panel runs beside  *)
(* the real one, over tables without constraints.  Every statement commits *)
(* alone, so between two statements of a request anything may happen.      *)
(*                                                                         *)
(* Being wrong is its purpose; what must hold is what the panel tells its  *)
(* readers about it: that duplicates and colliding numbers come from the   *)
(* window between a read and a write and from nowhere else, and that the   *)
(* progress counts events.                                                 *)
(***************************************************************************)
EXTENDS Integers, FiniteSets, FiniteSetsExt

CONSTANTS
    Clients,
    Keys,
    Positions,      \* client sequences, of one device in one conversation
    AckDevices,
    Nothing,
    MaxRuns,        \* bound: executions of each client
    MaxDeaths       \* bound: executions that die

(* A publication of the panel has no key; a client sequence is a number.   *)
ASSUME NaiveAssumption ==
    /\ Nothing \notin Keys
    /\ Positions \subseteq Nat
    /\ MaxRuns \in Nat /\ MaxDeaths \in Nat

VARIABLES
    naiveMessages,      \* set of [id, position, server], and the key (history)
    naiveOperations,    \* set of [key, resource]
    naiveBatches,       \* [message id -> delivered_count]
    naiveReceipts,      \* set of [id, message, device]
    pc,
    run,                \* [Clients -> executions begun]
    input,              \* [Clients -> key, position, or message and device]
    read,               \* [Clients -> what the first query returned]
    answers,            \* history: [id, created, message] of naive sends
    raced,              \* history: pairs of executions with open windows
    cut,                \* history: executions that died, or acks that met no batch
    disturbed           \* history: a reset met requests in flight

tables == <<naiveMessages, naiveOperations, naiveBatches, naiveReceipts>>
history == <<answers, raced, cut, disturbed>>
vars == <<tables, pc, run, input, read, history>>

Ids == Clients \X (1..MaxRuns)      \* randomUUID, of an execution

Me(c) == <<c, run[c]>>

Sends == [key : Keys, position : Positions]
Publications == [position : Positions]
Acks == [message : Ids, device : AckDevices]
Answers == [id : Ids, created : BOOLEAN, message : Ids]

Steps == {"idle", "select", "message", "operation", "batch",
          "max", "publish", "receipt", "update"}

TypeOK ==
    /\ naiveMessages \subseteq
        [id : Ids, key : Keys \cup {Nothing}, position : Positions, server : Nat]
    /\ naiveOperations \subseteq [key : Keys, resource : Ids]
    /\ DOMAIN naiveBatches \subseteq Ids
    /\ \A m \in DOMAIN naiveBatches : naiveBatches[m] \in Nat
    /\ naiveReceipts \subseteq [id : Ids, message : Ids, device : AckDevices]
    /\ pc \in [Clients -> Steps]
    /\ \A c \in Clients :
        /\ pc[c] \in {"select", "message", "operation", "batch"} => input[c] \in Sends
        /\ pc[c] \in {"max", "publish"} => input[c] \in Publications
        /\ pc[c] \in {"receipt", "update"} => input[c] \in Acks
        /\ pc[c] = "publish" => read[c] \in Nat
    /\ run \in [Clients -> 0..MaxRuns]
    /\ answers \subseteq Answers
    /\ disturbed \in BOOLEAN

Init ==
    /\ naiveMessages = {} /\ naiveOperations = {}
    /\ naiveBatches = <<>> /\ naiveReceipts = {}
    /\ pc = [c \in Clients |-> "idle"]
    /\ run = [c \in Clients |-> 0]
    /\ input = [c \in Clients |-> Nothing]
    /\ read = [c \in Clients |-> Nothing]
    /\ answers = {} /\ raced = {} /\ cut = {} /\ disturbed = FALSE

-----------------------------------------------------------------------------
Goto(c, step) == pc' = [pc EXCEPT ![c] = step]

Finish(c) ==
    /\ Goto(c, "idle")
    /\ input' = [input EXCEPT ![c] = Nothing]
    /\ read' = [read EXCEPT ![c] = Nothing]

(* The controller: a request of a client, to any replica.                  *)
Begin(c, step, what) ==
    /\ pc[c] = "idle" /\ run[c] < MaxRuns
    /\ run' = [run EXCEPT ![c] = run[c] + 1]
    /\ Goto(c, step)
    /\ input' = [input EXCEPT ![c] = what]
    /\ UNCHANGED <<tables, read, history>>

BeginSend(c) ==
    \E k \in Keys, p \in Positions : Begin(c, "select", [key |-> k, position |-> p])

BeginPublish(c) == \E p \in Positions : Begin(c, "max", [position |-> p])

(* The panel acks messages it was answered with.                           *)
BeginAck(c) ==
    \E a \in answers, d \in AckDevices :
        Begin(c, "receipt", [message |-> a.message, device |-> d])

(* Windows: from the read to the write that would have told the others.    *)
InWindow(steps) == {e \in Clients : pc[e] \in steps}

SendWindow == {"message", "operation"}

RaceWith(c, others) == raced' = raced \cup {{Me(c), Me(e)} : e \in others \ {c}}

-----------------------------------------------------------------------------
(* send *)

(* Mutant of Existing: the query is left out.                              *)
NoneExisting(k) == {}

Existing(k) == {o \in naiveOperations : o.key = k}

(* SELECT ... LIMIT 1: any of the rows.                                    *)
FindExisting(c) ==
    /\ pc[c] = "select"
    /\ \E o \in Existing(input[c].key) :
        answers' = answers \cup {[id |-> Me(c), created |-> FALSE, message |-> o.resource]}
    /\ Finish(c)
    /\ UNCHANGED <<tables, run, raced, cut, disturbed>>

FindNothing(c) ==
    /\ pc[c] = "select"
    /\ Existing(input[c].key) = {}
    /\ Goto(c, "message")
    /\ RaceWith(c, {e \in InWindow(SendWindow) : input[e].key = input[c].key})
    /\ UNCHANGED <<tables, run, input, read, answers, cut, disturbed>>

InsertMessage(c) ==
    /\ pc[c] = "message"
    /\ naiveMessages' = naiveMessages \cup
        {[id |-> Me(c), key |-> input[c].key,
          position |-> input[c].position, server |-> input[c].position]}
    /\ Goto(c, "operation")
    /\ UNCHANGED <<naiveOperations, naiveBatches, naiveReceipts, run, input, read, history>>

OperationRow(c) == [key |-> input[c].key, resource |-> Me(c)]

InsertOperation(c) ==
    /\ pc[c] = "operation"
    /\ naiveOperations' = naiveOperations \cup {OperationRow(c)}
    /\ Goto(c, "batch")
    /\ UNCHANGED <<naiveMessages, naiveBatches, naiveReceipts, run, input, read, history>>

Answer(c) == answers' = answers \cup {[id |-> Me(c), created |-> TRUE, message |-> Me(c)]}

InsertBatch(c) ==
    /\ pc[c] = "batch"
    /\ naiveBatches' = [m \in DOMAIN naiveBatches \cup {Me(c)} |->
                          IF m = Me(c) THEN 0 ELSE naiveBatches[m]]
    /\ Answer(c)
    /\ Finish(c)
    /\ UNCHANGED <<naiveMessages, naiveOperations, naiveReceipts, run, raced, cut, disturbed>>

-----------------------------------------------------------------------------
(* publishImmediately *)

(* Mutant of NextNumber: the +1 forgotten.                                 *)
LastNumber == Max({0} \cup {m.server : m \in naiveMessages})

NextNumber == Max({0} \cup {m.server : m \in naiveMessages}) + 1

ReadMax(c) ==
    /\ pc[c] = "max"
    /\ read' = [read EXCEPT ![c] = NextNumber]
    /\ Goto(c, "publish")
    /\ RaceWith(c, InWindow({"publish"}))
    /\ UNCHANGED <<tables, run, input, answers, cut, disturbed>>

Publish(c) ==
    /\ pc[c] = "publish"
    /\ naiveMessages' = naiveMessages \cup
        {[id |-> Me(c), key |-> Nothing,
          position |-> input[c].position, server |-> read[c]]}
    /\ Finish(c)
    /\ UNCHANGED <<naiveOperations, naiveBatches, naiveReceipts, run, history>>

-----------------------------------------------------------------------------
(* ack *)

InsertReceipt(c) ==
    /\ pc[c] = "receipt"
    /\ naiveReceipts' = naiveReceipts \cup
        {[id |-> Me(c), message |-> input[c].message, device |-> input[c].device]}
    /\ Goto(c, "update")
    /\ UNCHANGED <<naiveMessages, naiveOperations, naiveBatches, run, input, read, history>>

(* Mutant of Counts: the conditional update of the real service.           *)
CountsOncePerDevice(c) ==
    ~\E r \in naiveReceipts :
        r.message = input[c].message /\ r.device = input[c].device /\ r.id # Me(c)

Counts(c) == TRUE

(* No row of that message: a replica answers 0 of 0.                       *)
UpdateBatch(c) ==
    /\ pc[c] = "update"
    /\ LET m == input[c].message
       IN  IF m \in DOMAIN naiveBatches
           THEN /\ naiveBatches' = [naiveBatches EXCEPT ![m] = @ + (IF Counts(c) THEN 1 ELSE 0)]
                /\ UNCHANGED cut
           ELSE /\ UNCHANGED naiveBatches
                /\ cut' = cut \cup {Me(c)}
    /\ Finish(c)
    /\ UNCHANGED <<naiveMessages, naiveOperations, naiveReceipts, run, answers, raced, disturbed>>

-----------------------------------------------------------------------------
(* TRUNCATE of the four tables, by another tab of the panel, too.          *)
Reset ==
    /\ naiveMessages # {}
    /\ naiveMessages' = {} /\ naiveOperations' = {}
    /\ naiveBatches' = <<>> /\ naiveReceipts' = {}
    /\ answers' = {}
    /\ disturbed' = (disturbed \/ \E c \in Clients : pc[c] # "idle")
    /\ UNCHANGED <<pc, run, input, read, raced, cut>>

(* The replica dies with the request in it: what it wrote stays.           *)
Crash(c) ==
    /\ pc[c] # "idle"
    /\ Cardinality(cut) < MaxDeaths
    /\ cut' = cut \cup {Me(c)}
    /\ Finish(c)
    /\ UNCHANGED <<tables, run, answers, raced, disturbed>>

Step(c) ==
    \/ BeginSend(c) \/ BeginPublish(c) \/ BeginAck(c)
    \/ FindExisting(c) \/ FindNothing(c)
    \/ InsertMessage(c) \/ InsertOperation(c) \/ InsertBatch(c)
    \/ ReadMax(c) \/ Publish(c)
    \/ InsertReceipt(c) \/ UpdateBatch(c)
    \/ Crash(c)

Next == Reset \/ \E c \in Clients : Step(c)

Spec == Init /\ [][Next]_vars

-----------------------------------------------------------------------------
Sent == {m \in naiveMessages : m.key # Nothing}

Recorded(m) == \E o \in naiveOperations : o.resource = m.id

(* naive.service.ts:31, "la ventana": one key creates two messages only    *)
(* when both executions were between their SELECT and their INSERT at one  *)
(* time, or one died there; requests one after the other, with resets in   *)
(* between or not, never do.                                               *)
DuplicatesNeedARace ==
    \A m, n \in Sent :
        m.key = n.key /\ m # n =>
            \/ {m.id, n.id} \in raced
            \/ \E e \in {m, n} : e.id \in cut /\ ~Recorded(e)

(* naive.service.ts:97, the number read and written without lock: two      *)
(* publications show one number only if their windows overlapped.          *)
NumbersCollideOnlyInARace ==
    \A m, n \in naiveMessages :
        /\ m.key = Nothing /\ n.key = Nothing
        /\ m.server = n.server /\ m # n
        => {m.id, n.id} \in raced

(* idempotencia.js:74-95 compares the answers that say created with the    *)
(* rows of the tables: with nobody in flight, and no replica that died, as *)
(* many requests created a message as there are messages and batches.      *)
CountsAgree ==
    ~disturbed /\ cut = {} /\ (\A c \in Clients : pc[c] = "idle") =>
        LET created == {a.id : a \in {b \in answers : b.created}}
        IN  /\ created = {m.id : m \in Sent}
            /\ created = {o.resource : o \in naiveOperations}
            /\ created = DOMAIN naiveBatches
            /\ \A a \in answers : a.message \in created

(* naive.service.ts:137: the progress is the number of acks, not of        *)
(* devices, once each ack is over; an ack whose replica died, or that came *)
(* before the batch, is in no progress.                                    *)
ProgressCountsEvents ==
    ~disturbed =>
    \A m \in DOMAIN naiveBatches :
        naiveBatches[m] = Cardinality(
            {r \in naiveReceipts : /\ r.message = m
                                   /\ r.id \notin cut
                                   /\ \A c \in Clients : Me(c) = r.id => pc[c] # "update"})

(* The numbers of the panel, of which it says that they are the damage:    *)
(* rows and progress are what the requests and the acks made them.         *)
PanelShowsTheDamage == CountsAgree /\ ProgressCountsEvents
=============================================================================
