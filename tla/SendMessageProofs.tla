------------------------- MODULE SendMessageProofs -------------------------
(***************************************************************************)
(* Proofs about SendMessageService.send, for every set of callers, keys    *)
(* and commands and every bound on the attempts.                           *)
(***************************************************************************)
EXTENDS SendMessage, FiniteSetTheorems, TLAPS

(* Every step of the send protocol, and of what runs beside it, moves the  *)
(* streams by a transaction of MessageStream or not at all.                *)
LEMMA StreamPart ==
    ASSUME Next
    PROVE  [Stream!Next]_streamVars
<1> USE DEF streamVars
<1>1. ASSUME NEW r \in Callers, Effect(r) PROVE [Stream!Next]_streamVars
  <2>1. CommandOf[r] \in Commands
    BY SendMessageAssumption
  <2>2. CASE Stream!PublishAndDrain(CommandOf[r])
    BY <2>1, <2>2 DEF Stream!Next
  <2>3. CASE Stream!BufferMessage(CommandOf[r])
    BY <2>1, <2>3 DEF Stream!Next
  <2>4. QED
    BY <1>1, <2>2, <2>3 DEF Effect
<1>2. ASSUME NEW r \in Callers, Execute(r) PROVE [Stream!Next]_streamVars
  BY <1>1, <1>2 DEF Execute, Claim, LoseClaim, FindConflict, FindReplay, FindAvailable,
        RetryFailed, TakeOver, LoseRace, Commit, CommitUnacknowledged, Rollback, Release
<1>3. ASSUME OthersMoveStream PROVE [Stream!Next]_streamVars
  BY <1>3 DEF OthersMoveStream, Stream!Next, Stream!ClientSequences
<1>4. QED
  BY <1>2, <1>3 DEF Next, Send, Crash, LeaseExpires

(* The send implements the streams: whatever holds of MessageStream holds  *)
(* of the streams under retries, takeovers and crashes.                    *)
THEOREM SendImplementsStream == Spec => Stream!Spec
<1>1. Init => Stream!Init
  BY DEF Init
<1>2. [Next]_vars => [Stream!Next]_(Stream!vars)
  BY StreamPart DEF vars, streamVars, Stream!vars
<1>3. QED
  BY <1>1, <1>2, PTL DEF Spec, Stream!Spec

-----------------------------------------------------------------------------
(* What the streams promise to an execution that refers to a message.      *)

Positions == 1..MaxClientSequence

(* Rows are rows, and what is not visible has no server sequence.          *)
MessagesOK ==
    /\ active \subseteq Members
    /\ nextServer \in Nat
    /\ messages \in [Devices -> [Positions -> Stream!MessageRow]]
    /\ \A d \in Devices, n \in Positions :
        messages[d][n].status = "buffered" => messages[d][n].server = 0

(* A message that exists keeps its content, and its number once it has one. *)
KeepsRow(old, new) ==
    old.status # "none" =>
        /\ new.status # "none"
        /\ new.content = old.content
        /\ old.server # 0 => new.server = old.server

MessagesKept ==
    \A d \in Devices, n \in Positions : KeepsRow(messages[d][n], messages'[d][n])

(* A run of the cascade publishes buffered messages only.                  *)
LEMMA RunKeeps ==
    ASSUME MessagesOK, NEW d \in Devices,
           NEW rows \in [Positions -> Stream!MessageRow],
           NEW from \in Int, NEW end \in Int, from <= end,
           Stream!CascadeEnds(rows, from, end),
           \A n \in Positions : messages[d][n].status # "none" => rows[n] = messages[d][n],
           \A n \in Positions : rows[n].status = "buffered" => rows[n].server = 0,
           messages' = [messages EXCEPT ![d] = Stream!PublishRun(rows, from, end)],
           nextServer' = nextServer + (end - from),
           UNCHANGED active
    PROVE  MessagesOK' /\ MessagesKept
<1> DEFINE drained == Stream!PublishRun(rows, from, end)
<1>1. \A n \in Positions : n \in from..(end - 1) =>
        drained[n] = [content |-> rows[n].content, status |-> "published",
                      server |-> nextServer + (n - from), recipients |-> active]
  BY DEF Stream!PublishRun, Stream!ClientSequences, Positions
<1>2. \A n \in Positions : n \notin from..(end - 1) => drained[n] = rows[n]
  BY DEF Stream!PublishRun, Stream!ClientSequences, Positions
<1>3. \A n \in from..(end - 1) : n \in Positions /\ rows[n].status = "buffered"
  BY DEF Stream!CascadeEnds, Stream!BufferedAt, Stream!ClientSequences, Positions
<1>4. messages' = [messages EXCEPT ![d] = drained] /\ drained = [n \in Positions |-> drained[n]]
  BY DEF Stream!PublishRun, Stream!ClientSequences, Positions
<1> HIDE DEF drained
<1>5. \A e \in Devices : messages'[e] = IF e = d THEN drained ELSE messages[e]
  BY <1>4 DEF MessagesOK
<1>6. ASSUME NEW n \in Positions, n \in from..(end - 1)
      PROVE  drained[n].status = "published" /\ drained[n].content = rows[n].content
  <2>1. drained[n] = [content |-> rows[n].content, status |-> "published",
                      server |-> nextServer + (n - from), recipients |-> active]
    BY <1>1, <1>6
  <2>2. QED
    BY <2>1
<1>7. drained \in [Positions -> Stream!MessageRow]
  <2>1. ASSUME NEW n \in Positions PROVE drained[n] \in Stream!MessageRow
    <3>1. CASE n \in from..(end - 1)
      <4>1. rows[n].content \in Contents \cup {NoContent}
        BY DEF Stream!MessageRow
      <4>2. active \in SUBSET Members /\ nextServer + (n - from) \in Nat
        BY <3>1 DEF MessagesOK, Positions
      <4>3. [content |-> rows[n].content, status |-> "published",
             server |-> nextServer + (n - from), recipients |-> active] \in Stream!MessageRow
        BY <4>1, <4>2 DEF Stream!MessageRow
      <4>4. QED
        BY <1>1, <3>1, <4>3
    <3>2. CASE n \notin from..(end - 1)
      BY <1>2, <3>2
    <3>3. QED
      BY <3>1, <3>2
  <2>2. QED
    BY <1>4, <2>1
<1>8. MessagesOK'
  <2>1. messages' \in [Devices -> [Positions -> Stream!MessageRow]]
    BY <1>4, <1>7 DEF MessagesOK
  <2>2. ASSUME NEW n \in Positions PROVE drained[n].status = "buffered" => drained[n].server = 0
    BY <1>2, <1>6
  <2>3. \A e \in Devices, n \in Positions :
            messages'[e][n].status = "buffered" => messages'[e][n].server = 0
    BY <1>5, <2>2 DEF MessagesOK
  <2>4. nextServer' \in Nat
    BY DEF MessagesOK
  <2>5. QED
    BY <2>1, <2>3, <2>4 DEF MessagesOK
<1>9. MessagesKept
  <2> SUFFICES ASSUME NEW e \in Devices, NEW n \in Positions, messages[e][n].status # "none"
               PROVE  KeepsRow(messages[e][n], messages'[e][n])
    BY DEF MessagesKept, KeepsRow
  <2>1. CASE e # d
    BY <1>5, <2>1 DEF KeepsRow
  <2>2. CASE e = d /\ n \in from..(end - 1)
    <3>1. messages[d][n].status = "buffered" /\ rows[n] = messages[d][n]
      BY <1>3, <2>2
    <3>2. messages[d][n].server = 0
      BY <3>1 DEF MessagesOK
    <3>3. QED
      BY <1>5, <1>6, <2>2, <3>1, <3>2 DEF KeepsRow
  <2>3. CASE e = d /\ n \notin from..(end - 1)
    BY <1>2, <1>5, <2>3 DEF KeepsRow
  <2>4. QED
    BY <2>1, <2>2, <2>3
<1>10. QED
  BY <1>8, <1>9

(* The message of a command: sent now, or there already.                   *)
StoresMessage(c, server) ==
    LET row == messages'[c.device][c.seq]
    IN  /\ row.status # "none"
        /\ row.content = c.content
        /\ server # 0 => row.server = server

(* publishAndDrain: the message is the first of the run it starts.         *)
LEMMA PublishAndDrainStores ==
    ASSUME MessagesOK, NEW c \in Commands, Stream!PublishAndDrain(c)
    PROVE  MessagesOK' /\ MessagesKept /\ StoresMessage(c, nextServer)
<1> DEFINE d   == c.device
           row == [Stream!NoMessage EXCEPT !.content = c.content, !.status = "buffered"]
           rows == [messages[d] EXCEPT ![c.seq] = row]
<1>1. d \in Devices /\ c.seq \in Positions /\ c.content \in Contents
  BY SendMessageAssumption DEF Positions
<1>2. PICK end \in (c.seq + 1)..(MaxClientSequence + 1) :
        /\ Stream!CascadeEnds(rows, c.seq, end)
        /\ messages' = [messages EXCEPT ![d] = Stream!PublishRun(rows, c.seq, end)]
        /\ nextServer' = nextServer + (end - c.seq)
  BY DEF Stream!PublishAndDrain
<1>3. UNCHANGED active /\ messages[d][c.seq].status = "none"
  <2>1. Stream!Insertable(c) /\ UNCHANGED active
    BY DEF Stream!PublishAndDrain
  <2>2. QED
    BY <2>1 DEF Stream!Insertable, Stream!ReadsExisting, Stream!PositionTaken
<1>4. c.seq \in Int /\ end \in Int /\ c.seq < end /\ c.seq <= end
  BY <1>1, SendMessageAssumption DEF Positions
<1>5. row.status = "buffered" /\ row.server = 0 /\ row.content = c.content
  BY DEF Stream!NoMessage
<1>6. row \in Stream!MessageRow
  BY <1>1 DEF Stream!NoMessage, Stream!MessageRow
<1>7. messages[d] \in [Positions -> Stream!MessageRow]
  BY <1>1 DEF MessagesOK
<1> HIDE DEF row
<1>8. /\ rows \in [Positions -> Stream!MessageRow]
      /\ rows[c.seq] = row
      /\ \A n \in Positions : n # c.seq => rows[n] = messages[d][n]
  BY <1>1, <1>6, <1>7
<1> HIDE DEF rows
<1>9. \A n \in Positions : messages[d][n].status # "none" => rows[n] = messages[d][n]
  BY <1>3, <1>8
<1>10. \A n \in Positions : rows[n].status = "buffered" => rows[n].server = 0
  BY <1>1, <1>5, <1>8 DEF MessagesOK
<1>11. MessagesOK' /\ MessagesKept
  BY <1>1, <1>2, <1>3, <1>4, <1>8, <1>9, <1>10, RunKeeps
<1>12. StoresMessage(c, nextServer)
  <2>1. messages'[d][c.seq] = Stream!PublishRun(rows, c.seq, end)[c.seq]
    BY <1>1, <1>2 DEF MessagesOK
  <2>2. c.seq \in c.seq..(end - 1) /\ nextServer + (c.seq - c.seq) = nextServer
    BY <1>4 DEF MessagesOK
  <2>3. messages'[d][c.seq] =
          [content |-> rows[c.seq].content, status |-> "published",
           server |-> nextServer, recipients |-> active]
    BY <1>1, <2>1, <2>2 DEF Stream!PublishRun, Stream!ClientSequences, Positions
  <2>4. QED
    BY <1>5, <1>8, <2>3 DEF StoresMessage
<1>13. QED
  BY <1>11, <1>12

(* buffer: the message waits at its position.                              *)
LEMMA BufferStores ==
    ASSUME MessagesOK, NEW c \in Commands, Stream!BufferMessage(c)
    PROVE  MessagesOK' /\ MessagesKept /\ StoresMessage(c, 0)
<1> DEFINE d   == c.device
           row == [Stream!NoMessage EXCEPT !.content = c.content, !.status = "buffered"]
<1>1. d \in Devices /\ c.seq \in Positions /\ c.content \in Contents
  BY SendMessageAssumption DEF Positions
<1>2. /\ messages' = [messages EXCEPT ![d][c.seq] = row]
      /\ UNCHANGED <<active, nextServer>>
      /\ Stream!Insertable(c)
  BY DEF Stream!BufferMessage
<1>3. messages[d][c.seq].status = "none"
  BY <1>2 DEF Stream!Insertable, Stream!ReadsExisting, Stream!PositionTaken
<1>5. row \in Stream!MessageRow
  BY <1>1 DEF Stream!NoMessage, Stream!MessageRow
<1>6. row.status = "buffered" /\ row.server = 0 /\ row.content = c.content
  BY DEF Stream!NoMessage
<1> HIDE DEF row
<1>7. messages' \in [Devices -> [Positions -> Stream!MessageRow]]
  BY <1>1, <1>2, <1>5 DEF MessagesOK
<1>8. /\ messages'[d][c.seq] = row
      /\ \A e \in Devices, n \in Positions :
            e # d \/ n # c.seq => messages'[e][n] = messages[e][n]
  BY <1>1, <1>2 DEF MessagesOK
<1>9. MessagesOK'
  BY <1>2, <1>6, <1>7, <1>8 DEF MessagesOK
<1>10. MessagesKept
  BY <1>3, <1>8 DEF MessagesKept, KeepsRow
<1>11. QED
  BY <1>6, <1>8, <1>9, <1>10 DEF StoresMessage

(* Whatever a step does to the streams, rows stay rows and keep what they  *)
(* say.                                                                    *)
LEMMA StreamKeeps ==
    ASSUME MessagesOK, [Stream!Next]_streamVars
    PROVE  MessagesOK' /\ MessagesKept
<1>1. CASE UNCHANGED <<active, nextServer, messages>>
  BY <1>1 DEF MessagesOK, MessagesKept, KeepsRow
<1>2. ASSUME NEW c \in Commands, Stream!PublishAndDrain(c) PROVE MessagesOK' /\ MessagesKept
  BY <1>2, PublishAndDrainStores
<1>3. ASSUME NEW c \in Commands, Stream!BufferMessage(c) PROVE MessagesOK' /\ MessagesKept
  BY <1>3, BufferStores
<1>4. ASSUME NEW d \in Devices, NEW from \in Positions, Stream!Resync(d, from)
      PROVE  MessagesOK' /\ MessagesKept
  <2>1. PICK end \in from..(MaxClientSequence + 1) :
            /\ Stream!CascadeEnds(messages[d], from, end)
            /\ messages' = [messages EXCEPT ![d] = Stream!PublishRun(messages[d], from, end)]
            /\ nextServer' = nextServer + (end - from)
    BY <1>4 DEF Stream!Resync
  <2>2. UNCHANGED active
    BY <1>4 DEF Stream!Resync
  <2>3. from \in Int /\ end \in Int /\ from <= end
    BY SendMessageAssumption DEF Positions
  <2>4. /\ messages[d] \in [Positions -> Stream!MessageRow]
        /\ \A n \in Positions : messages[d][n].status = "buffered" => messages[d][n].server = 0
    BY DEF MessagesOK
  <2>5. QED
    BY <2>1, <2>2, <2>3, <2>4, RunKeeps
<1>5. ASSUME NEW d \in Devices, Stream!LeaveConversation(d) PROVE MessagesOK' /\ MessagesKept
  BY <1>5 DEF Stream!LeaveConversation, MessagesOK, MessagesKept, KeepsRow
<1>6. QED
  BY <1>1, <1>2, <1>3, <1>4, <1>5
     DEF Stream!Next, Stream!ExpireOverdueGaps, Stream!Tick, Stream!ClientSequences, Positions, streamVars

-----------------------------------------------------------------------------
(* What an execution may know of its operation.                            *)

RowOK(row) ==
    /\ row.status = "none" <=> row.attempt = 0
    /\ row.status = "none" <=> row.fingerprint = NoResponse
    /\ row.status = "completed" <=> row.response # NoResponse
    /\ row.lease = "alive" => row.status = "in_progress"

OperationsOK ==
    /\ operations \in [Keys -> Ops!Operation]
    /\ \A k \in Keys : RowOK(operations[k])

(* No step gives a key another content, lowers its attempt or touches a    *)
(* completed row.                                                          *)
Advances(old, new) ==
    /\ new.attempt >= old.attempt
    /\ old.status # "none" => new.status # "none" /\ new.fingerprint = old.fingerprint
    /\ old.status = "completed" => new = old

OperationsAdvance == \A k \in Keys : Advances(operations[k], operations'[k])

OthersStay(k) == \A j \in Keys \ {k} : operations'[j] = operations[j]

(* The row of r's key, before and after, when r gets the operation, closes *)
(* it, or somebody gives it up.                                            *)
Gets(r) ==
    LET old == operations[KeyOf[r]]
        new == operations'[KeyOf[r]]
    IN  /\ new.status = "in_progress"
        /\ new.fingerprint = CommandOf[r]
        /\ new.attempt = attempt'[r]
        /\ new.attempt > old.attempt
        /\ old.status # "completed"
        /\ new.response = old.response

Closes(r, response) ==
    LET old == operations[KeyOf[r]]
        new == operations'[KeyOf[r]]
    IN  /\ old.status = "in_progress"
        /\ new.status = "completed"
        /\ new.fingerprint = old.fingerprint
        /\ new.attempt = old.attempt
        /\ new.response = response

Loosens(k) ==
    LET old == operations[k]
        new == operations'[k]
    IN  /\ old.status # "completed"
        /\ new.status = "none" <=> old.status = "none"
        /\ new.status # "completed"
        /\ new.fingerprint = old.fingerprint
        /\ new.attempt = old.attempt
        /\ new.response = old.response

(* A statement writes one row.                                             *)
LEMMA RowWritten ==
    ASSUME OperationsOK, NEW k \in Keys, NEW new \in Ops!Operation,
           operations' = [operations EXCEPT ![k] = new],
           Advances(operations[k], new), RowOK(new)
    PROVE  /\ OperationsOK' /\ OperationsAdvance /\ OthersStay(k)
           /\ operations'[k] = new
<1>1. operations'[k] = new /\ OthersStay(k)
  BY DEF OperationsOK, OthersStay
<1>2. OperationsOK'
  BY <1>1 DEF OperationsOK, OthersStay
<1>3. ASSUME NEW j \in Keys PROVE Advances(operations[j], operations'[j])
  <2>1. CASE j = k
    BY <1>1, <2>1
  <2>2. CASE j # k
    <3>1. operations'[j] = operations[j] /\ operations[j].attempt \in Int
      BY <1>1, <2>2, SendMessageAssumption DEF OthersStay, OperationsOK, Ops!Operation
    <3>2. QED
      BY <3>1 DEF Advances
  <2>3. QED
    BY <2>1, <2>2
<1>4. QED
  BY <1>1, <1>2, <1>3 DEF OperationsAdvance

(* Tx1 wins: the claim, the retry of a failure or the takeover of a lease. *)
LEMMA GetsRow ==
    ASSUME OperationsOK, pc \in [Callers -> Steps], attempt \in [Callers -> 0..MaxAttempt],
           NEW r \in Callers,
           \/ Claim(r)
           \/ operations[KeyOf[r]].fingerprint = CommandOf[r] /\ (RetryFailed(r) \/ TakeOver(r))
    PROVE  /\ OperationsOK' /\ OperationsAdvance /\ OthersStay(KeyOf[r]) /\ Gets(r)
           /\ pc' = [pc EXCEPT ![r] = "effect"]
           /\ \E a \in 1..MaxAttempt : attempt' = [attempt EXCEPT ![r] = a]
<1> DEFINE k == KeyOf[r]
           row == operations[k]
<1>1. /\ k \in Keys /\ CommandOf[r] \in Commands /\ CommandOf[r] # NoResponse
      /\ row \in Ops!Operation /\ MaxAttempt \in Nat \ {0}
  BY SendMessageAssumption DEF OperationsOK
<1>2. row.attempt \in Nat /\ attempt[r] \in 0..MaxAttempt
  BY <1>1 DEF Ops!Operation
<1>3. ASSUME NEW new \in Ops!Operation, operations' = [operations EXCEPT ![k] = new],
             new.status = "in_progress", new.fingerprint = CommandOf[r],
             new.attempt > row.attempt, new.response = row.response,
             row.status # "completed",
             row.status # "none" => row.fingerprint = CommandOf[r]
      PROVE  OperationsOK' /\ OperationsAdvance /\ OthersStay(k) /\ operations'[k] = new
  <2>1. new.attempt \in Nat
    BY <1>1, <1>3 DEF Ops!Operation
  <2>2. Advances(row, new)
    BY <1>2, <1>3, <2>1 DEF Advances
  <2>3. row.status = "completed" <=> row.response # NoResponse
    BY <1>1 DEF OperationsOK, RowOK
  <2>4. RowOK(new)
    BY <1>1, <1>2, <1>3, <2>1, <2>3 DEF RowOK
  <2>5. QED
    BY <1>1, <1>3, <2>2, <2>4, RowWritten
<1>4. CASE Claim(r)
  <2> DEFINE new == [Ops!NoOperation EXCEPT !.status = "in_progress", !.fingerprint = CommandOf[r],
                                            !.attempt = 1, !.lease = "alive"]
  <2>1. /\ row.status = "none" /\ operations' = [operations EXCEPT ![k] = new]
        /\ pc' = [pc EXCEPT ![r] = "effect"] /\ attempt' = [attempt EXCEPT ![r] = 1]
    BY <1>4 DEF Claim, Ops!ClaimOperation, Own, Goto
  <2>2. /\ new.status = "in_progress" /\ new.fingerprint = CommandOf[r] /\ new.attempt = 1
        /\ new.response = NoResponse
    BY DEF Ops!NoOperation
  <2>3. 1 \in 0..MaxAttempt /\ 1 \in 1..MaxAttempt
    BY <1>1
  <2>4. new \in Ops!Operation
    BY <1>1, <2>3 DEF Ops!NoOperation, Ops!Operation
  <2>5. row.attempt = 0 /\ row.response = NoResponse
    BY <1>1, <2>1 DEF OperationsOK, RowOK
  <2> HIDE DEF new
  <2>6. new.attempt > row.attempt /\ new.response = row.response
    BY <2>2, <2>5
  <2>7. OperationsOK' /\ OperationsAdvance /\ OthersStay(k) /\ operations'[k] = new
    BY <1>3, <2>1, <2>2, <2>4, <2>6
  <2>8. attempt'[r] = 1
    BY <2>1
  <2>9. Gets(r)
    BY <2>1, <2>2, <2>6, <2>7, <2>8 DEF Gets
  <2>10. QED
    BY <2>1, <2>3, <2>7, <2>9
<1>5. CASE row.fingerprint = CommandOf[r] /\ (RetryFailed(r) \/ TakeOver(r))
  <2> DEFINE a == attempt[r]
             retried == [row EXCEPT !.status = "in_progress", !.attempt = a + 1, !.lease = "alive"]
             taken == [row EXCEPT !.attempt = a + 1, !.lease = "alive"]
  <2>1. /\ row.attempt = a /\ a < MaxAttempt
        /\ pc' = [pc EXCEPT ![r] = "effect"] /\ attempt' = [attempt EXCEPT ![r] = a + 1]
    BY <1>5 DEF RetryFailed, TakeOver, Ops!RetryFailedOperation, Ops!TakeOverExpiredLease,
                Ops!CanRetry, Ops!CanTakeOver, Ops!OwnedBy, Own, Goto
  <2>2. \/ row.status = "failed" /\ operations' = [operations EXCEPT ![k] = retried]
        \/ row.status = "in_progress" /\ operations' = [operations EXCEPT ![k] = taken]
    BY <1>5 DEF RetryFailed, TakeOver, Ops!RetryFailedOperation, Ops!TakeOverExpiredLease,
                Ops!CanRetry, Ops!CanTakeOver, Ops!OwnedBy
  <2>3. a + 1 \in 1..MaxAttempt /\ a + 1 \in 0..MaxAttempt /\ a + 1 > a
    BY <1>1, <1>2, <2>1
  <2>4. PICK new \in Ops!Operation :
            /\ operations' = [operations EXCEPT ![k] = new]
            /\ new.status = "in_progress" /\ new.fingerprint = row.fingerprint
            /\ new.attempt = a + 1 /\ new.response = row.response
    <3>1. CASE row.status = "failed" /\ operations' = [operations EXCEPT ![k] = retried]
      <4>1. /\ retried.status = "in_progress" /\ retried.fingerprint = row.fingerprint
            /\ retried.attempt = a + 1 /\ retried.response = row.response
            /\ retried \in Ops!Operation
        BY <1>1, <2>3 DEF Ops!Operation
      <4>2. QED
        BY <3>1, <4>1
    <3>2. CASE row.status = "in_progress" /\ operations' = [operations EXCEPT ![k] = taken]
      <4>1. /\ taken.status = "in_progress" /\ taken.fingerprint = row.fingerprint
            /\ taken.attempt = a + 1 /\ taken.response = row.response
            /\ taken \in Ops!Operation
        BY <1>1, <2>3, <3>2 DEF Ops!Operation
      <4>2. QED
        BY <3>2, <4>1
    <3>3. QED
      BY <2>2, <3>1, <3>2
  <2>5. row.status # "completed"
    BY <2>2
  <2>6. OperationsOK' /\ OperationsAdvance /\ OthersStay(k) /\ operations'[k] = new
    BY <1>3, <1>5, <2>1, <2>3, <2>4, <2>5
  <2>7. attempt'[r] = a + 1
    BY <2>1
  <2>8. QED
    BY <1>5, <2>1, <2>3, <2>4, <2>5, <2>6, <2>7 DEF Gets
<1>6. QED
  BY <1>4, <1>5

(* completeOperation, the last statement of Tx2.                           *)
LEMMA ClosesRow ==
    ASSUME OperationsOK, NEW r \in Callers, NEW response \in Responses,
           Ops!CompleteOperation(KeyOf[r], attempt[r], response)
    PROVE  OperationsOK' /\ OperationsAdvance /\ OthersStay(KeyOf[r]) /\ Closes(r, response)
<1> DEFINE k == KeyOf[r]
           row == operations[k]
           new == [row EXCEPT !.status = "completed", !.lease = "none", !.response = response]
<1>1. k \in Keys /\ row \in Ops!Operation /\ RowOK(row) /\ row.attempt \in Int
  BY SendMessageAssumption DEF OperationsOK, Ops!Operation
<1>2. row.status = "in_progress" /\ operations' = [operations EXCEPT ![k] = new]
  BY DEF Ops!CompleteOperation, Ops!CanComplete, Ops!OwnedBy
<1>3. /\ new.status = "completed" /\ new.lease = "none" /\ new.response = response
      /\ new.fingerprint = row.fingerprint /\ new.attempt = row.attempt
      /\ new \in Ops!Operation
  BY <1>1 DEF Ops!Operation
<1> HIDE DEF new
<1>4. Advances(row, new)
  BY <1>1, <1>2, <1>3 DEF Advances
<1>5. RowOK(new)
  BY <1>1, <1>2, <1>3, SendMessageAssumption DEF RowOK
<1>6. OperationsOK' /\ OperationsAdvance /\ OthersStay(k) /\ operations'[k] = new
  BY <1>1, <1>2, <1>3, <1>4, <1>5, RowWritten
<1>7. QED
  BY <1>2, <1>3, <1>6 DEF Closes

(* failOperation, or the lease passes.                                     *)
LEMMA LoosensRow ==
    ASSUME OperationsOK, NEW k \in Keys, NEW a,
           Ops!FailOperation(k, a) \/ Ops!LeaseExpires(k)
    PROVE  OperationsOK' /\ OperationsAdvance /\ OthersStay(k) /\ Loosens(k)
<1> DEFINE row == operations[k]
           failed == [row EXCEPT !.status = "failed", !.lease = "none"]
           expired == [row EXCEPT !.lease = "expired"]
<1>1. row \in Ops!Operation /\ RowOK(row) /\ row.attempt \in Int
  BY SendMessageAssumption DEF OperationsOK, Ops!Operation
<1>2. /\ row.status = "in_progress"
      /\ \/ operations' = [operations EXCEPT ![k] = failed]
         \/ operations' = [operations EXCEPT ![k] = expired]
  BY <1>1 DEF Ops!FailOperation, Ops!CanFail, Ops!OwnedBy, Ops!LeaseExpires, RowOK
<1>3. PICK new \in Ops!Operation :
        /\ operations' = [operations EXCEPT ![k] = new]
        /\ new.status \in {"in_progress", "failed"} /\ new.lease # "alive"
        /\ new.fingerprint = row.fingerprint /\ new.attempt = row.attempt
        /\ new.response = row.response
  <2>1. /\ failed.status = "failed" /\ failed.lease = "none"
        /\ failed.fingerprint = row.fingerprint /\ failed.attempt = row.attempt
        /\ failed.response = row.response /\ failed \in Ops!Operation
    BY <1>1 DEF Ops!Operation
  <2>2. /\ expired.status = row.status /\ expired.lease = "expired"
        /\ expired.fingerprint = row.fingerprint /\ expired.attempt = row.attempt
        /\ expired.response = row.response /\ expired \in Ops!Operation
    BY <1>1 DEF Ops!Operation
  <2> HIDE DEF failed, expired
  <2>3. QED
    BY <1>2, <2>1, <2>2
<1>4. Advances(row, new)
  BY <1>1, <1>2, <1>3 DEF Advances
<1>5. RowOK(new)
  BY <1>1, <1>2, <1>3 DEF RowOK
<1>6. OperationsOK' /\ OperationsAdvance /\ OthersStay(k) /\ operations'[k] = new
  BY <1>3, <1>4, <1>5, RowWritten
<1>7. QED
  BY <1>2, <1>3, <1>6 DEF Loosens

LEMMA NothingAdvances ==
    ASSUME OperationsOK, UNCHANGED operations
    PROVE  OperationsOK' /\ OperationsAdvance
<1>1. ASSUME NEW k \in Keys PROVE operations[k].attempt \in Int
  BY SendMessageAssumption DEF OperationsOK, Ops!Operation
<1>2. QED
  BY <1>1 DEF OperationsOK, OperationsAdvance, Advances

-----------------------------------------------------------------------------
(* The executions                                                          *)

(* An execution that means to take the operation, or believes to own it,   *)
(* read an attempt of the row that asks for its own content.               *)
Holding == {"retry", "takeover", "effect", "release"}

Holds(r) ==
    /\ operations[KeyOf[r]].fingerprint = CommandOf[r]
    /\ attempt[r] >= 1
    /\ attempt[r] <= operations[KeyOf[r]].attempt

RequestsOK ==
    /\ pc \in [Callers -> Steps]
    /\ attempt \in [Callers -> 0..MaxAttempt]
    /\ \A r \in Callers : pc[r] \in Holding => Holds(r)

(* The others run on while r moves.                                        *)
OthersWait(r) ==
    \A s \in Callers \ {r} : pc'[s] = pc[s] /\ attempt'[s] = attempt[s]

(* How r itself may move: away from the operation, with an attempt just    *)
(* read, from the effect to its release, or into an ownership that is      *)
(* newer than everybody's.                                                 *)
Moves(r) ==
    \/ pc'[r] \in {"idle", "claim", "find"}
    \/ pc'[r] \in {"retry", "takeover"} /\ Holds(r)'
    \/ pc[r] = "effect" /\ pc'[r] = "release" /\ attempt'[r] = attempt[r]
    \/ pc'[r] = "effect" /\ Gets(r)

(* Whoever is behind is behind for good: OneOwner is kept because a new    *)
(* owner's attempt is above every attempt that any execution holds.        *)
LEMMA RequestsKept ==
    ASSUME RequestsOK, OneOwner, OperationsOK, OperationsOK', OperationsAdvance,
           NEW r \in Callers, OthersWait(r), Moves(r),
           pc' \in [Callers -> Steps], attempt' \in [Callers -> 0..MaxAttempt]
    PROVE  RequestsOK' /\ OneOwner'
<1>1. ASSUME NEW s \in Callers
      PROVE  /\ KeyOf[s] \in Keys
             /\ operations[KeyOf[s]].attempt \in Int /\ operations'[KeyOf[s]].attempt \in Int
             /\ attempt[s] \in Int /\ attempt'[s] \in Int
  BY SendMessageAssumption DEF OperationsOK, Ops!Operation, RequestsOK
<1>2. ASSUME NEW s \in Callers, pc[s] \in Holding, attempt'[s] = attempt[s]
      PROVE  Holds(s)'
  <2>1. Holds(s) /\ Advances(operations[KeyOf[s]], operations'[KeyOf[s]])
    BY <1>1, <1>2 DEF RequestsOK, OperationsAdvance
  <2>2. operations[KeyOf[s]].attempt # 0 /\ RowOK(operations[KeyOf[s]])
    BY <1>1, <2>1 DEF Holds, OperationsOK
  <2>3. operations[KeyOf[s]].status # "none"
    BY <2>2 DEF RowOK
  <2>4. QED
    BY <1>1, <1>2, <2>1, <2>3 DEF Holds, Advances
<1>3. ASSUME NEW s \in Callers, pc'[s] \in Holding PROVE Holds(s)'
  <2>1. CASE s # r
    BY <1>2, <1>3, <2>1 DEF OthersWait
  <2>2. CASE s = r /\ pc'[r] \in {"retry", "takeover"} /\ Holds(r)'
    BY <2>2
  <2>3. CASE s = r /\ pc[r] = "effect" /\ attempt'[r] = attempt[r]
    BY <1>2, <2>3 DEF Holding
  <2>4. CASE s = r /\ Gets(r)
    <3>1. operations'[KeyOf[r]].attempt # 0
      <4>1. operations'[KeyOf[r]].status = "in_progress" /\ RowOK(operations'[KeyOf[r]])
        BY <1>1, <2>4 DEF Gets, OperationsOK
      <4>2. QED
        BY <4>1 DEF RowOK
    <3>2. operations'[KeyOf[r]].attempt \in 0..MaxAttempt
      BY <1>1 DEF OperationsOK, Ops!Operation
    <3>3. QED
      BY <1>1, <2>4, <3>1, <3>2, SendMessageAssumption DEF Gets, Holds
  <2>5. QED
    BY <1>3, <2>1, <2>2, <2>3, <2>4 DEF Moves, Holding
<1>4. RequestsOK'
  BY <1>3 DEF RequestsOK
<1>5. ASSUME NEW s \in Callers, NEW t \in Callers, s # t, KeyOf[s] = KeyOf[t],
             pc'[s] \in {"effect", "release"}, pc'[t] \in {"effect", "release"},
             attempt'[s] = attempt'[t], s # r
      PROVE  FALSE
  <2>1. pc[s] = pc'[s] /\ attempt'[s] = attempt[s]
    BY <1>5 DEF OthersWait
  <2>2. CASE pc[t] \in {"effect", "release"} /\ attempt'[t] = attempt[t]
    BY <1>5, <2>1, <2>2 DEF OneOwner
  <2>3. CASE t = r /\ Gets(r)
    <3>1. Holds(s)
      BY <1>5, <2>1 DEF RequestsOK, Holding
    <3>2. attempt[s] <= operations[KeyOf[r]].attempt
      BY <1>5, <2>3, <3>1 DEF Holds
    <3>3. attempt'[r] > operations[KeyOf[r]].attempt
      BY <2>3 DEF Gets
    <3>4. attempt'[r] = attempt[s]
      BY <1>5, <2>1, <2>3
    <3>5. attempt[s] \in Int /\ operations[KeyOf[r]].attempt \in Int
      BY <1>1
    <3>6. QED
      BY <3>2, <3>3, <3>4, <3>5
  <2>4. QED
    BY <1>5, <2>2, <2>3 DEF Moves, OthersWait
<1>6. OneOwner'
  <2> SUFFICES ASSUME NEW s \in Callers, NEW t \in Callers, s # t, KeyOf[s] = KeyOf[t],
                      pc'[s] \in {"effect", "release"}, pc'[t] \in {"effect", "release"},
                      attempt'[s] = attempt'[t]
               PROVE  FALSE
    BY DEF OneOwner
  <2>1. CASE s # r
    BY <1>5, <2>1
  <2>2. CASE t # r
    BY <1>5, <2>2
  <2>3. QED
    BY <2>1, <2>2
<1>7. QED
  BY <1>4, <1>6

-----------------------------------------------------------------------------
(* What has been recorded and told                                         *)

(* The stored response of k is about the message that k was claimed for,   *)
(* which exists, and visible under the number told.                        *)
Tells(k) ==
    LET op == operations[k]
        row == messages[op.fingerprint.device][op.fingerprint.seq]
    IN  /\ op.status = "completed"
        /\ op.response.device = op.fingerprint.device
        /\ op.response.seq = op.fingerprint.seq
        /\ row.status # "none"
        /\ row.content = op.fingerprint.content
        /\ op.response.server # 0 => row.server = op.response.server

(* e was inserted for its key.                                             *)
Belongs(e) ==
    /\ e[1] \in Keys
    /\ operations[e[1]].status = "completed"
    /\ operations[e[1]].fingerprint.device = e[2]
    /\ operations[e[1]].fingerprint.seq = e[3]

(* a is the stored response, given to who asked for it.                    *)
Repeats(a) ==
    LET op == operations[KeyOf[a.caller]]
    IN  /\ op.status = "completed"
        /\ op.fingerprint = CommandOf[a.caller]
        /\ op.response = a.response

RecordsOK ==
    /\ answers \subseteq [caller : Callers, response : Responses]
    /\ inserted \subseteq (Keys \X Devices \X Positions)
    /\ \A k \in Keys : operations[k].status = "completed" => Tells(k)
    /\ \A e \in inserted : Belongs(e)
    /\ \A a \in answers : Repeats(a)

(* What was recorded stays true; only what is new has to be shown.         *)
LEMMA RecordsKept ==
    ASSUME MessagesOK, MessagesKept, OperationsOK, OperationsAdvance, RecordsOK,
           answers' \subseteq [caller : Callers, response : Responses],
           inserted' \subseteq (Keys \X Devices \X Positions),
           \A k \in Keys : operations[k].status # "completed" /\ operations'[k].status = "completed"
                            => Tells(k)',
           \A e \in inserted' : e \in inserted \/ Belongs(e)',
           \A a \in answers' : a \in answers \/ Repeats(a)'
    PROVE  RecordsOK'
<1>1. ASSUME NEW k \in Keys, operations[k].status = "completed"
      PROVE  operations'[k] = operations[k]
  BY <1>1 DEF OperationsAdvance, Advances
<1>2. ASSUME NEW k \in Keys, operations[k].status = "completed" PROVE Tells(k)'
  <2> DEFINE c == operations[k].fingerprint
  <2>1. c \in Commands
    <3>1. operations[k] \in Ops!Operation /\ RowOK(operations[k])
      BY DEF OperationsOK
    <3>2. QED
      BY <1>2, <3>1 DEF RowOK, Ops!Operation
  <2>2. c.device \in Devices /\ c.seq \in Positions
    BY <2>1, SendMessageAssumption DEF Positions
  <2>3. KeepsRow(messages[c.device][c.seq], messages'[c.device][c.seq])
    BY <2>2 DEF MessagesKept
  <2>4. Tells(k)
    BY <1>2 DEF RecordsOK
  <2>5. operations'[k] = operations[k]
    BY <1>1, <1>2
  <2>6. QED
    BY <2>3, <2>4, <2>5 DEF Tells, KeepsRow
<1>3. ASSUME NEW k \in Keys, operations'[k].status = "completed" PROVE Tells(k)'
  BY <1>2, <1>3
<1>4. ASSUME NEW e \in inserted' PROVE Belongs(e)'
  <2>1. CASE e \in inserted
    <3>1. Belongs(e)
      BY <2>1 DEF RecordsOK
    <3>2. QED
      BY <1>1, <3>1 DEF Belongs
  <2>2. QED
    BY <1>4, <2>1
<1>5. ASSUME NEW a \in answers' PROVE Repeats(a)'
  <2>1. CASE a \in answers
    <3>1. Repeats(a) /\ KeyOf[a.caller] \in Keys
      BY <2>1, SendMessageAssumption DEF RecordsOK
    <3>2. QED
      BY <1>1, <3>1 DEF Repeats
  <2>2. QED
    BY <1>5, <2>1
<1>6. QED
  BY <1>3, <1>4, <1>5 DEF RecordsOK

-----------------------------------------------------------------------------
(* The inductive invariant                                                 *)

IInv == MessagesOK /\ OperationsOK /\ RequestsOK /\ OneOwner /\ RecordsOK

LEMMA ResponseIsResponse ==
    ASSUME NEW c \in Commands, NEW server \in Nat
    PROVE  /\ ResponseFor(c, server) \in Responses
           /\ ResponseFor(c, server).device = c.device
           /\ ResponseFor(c, server).seq = c.seq
           /\ ResponseFor(c, server).server = server
BY SendMessageAssumption DEF ResponseFor, Responses

(* Tx2 in one piece: the message of r's command exists, the operation      *)
(* names it, and the rest of the tables keeps what it said.                *)
LEMMA EffectDone ==
    ASSUME IInv, NEW r \in Callers, pc[r] = "effect", Effect(r)
    PROVE  /\ MessagesOK' /\ MessagesKept
           /\ OperationsOK' /\ OperationsAdvance /\ OthersStay(KeyOf[r])
           /\ operations[KeyOf[r]].status = "in_progress"
           /\ operations'[KeyOf[r]].fingerprint = CommandOf[r]
           /\ operations[KeyOf[r]].fingerprint = CommandOf[r]
           /\ operations'[KeyOf[r]].response \in Responses
           /\ Tells(KeyOf[r])'
           /\ inserted' \subseteq (Keys \X Devices \X Positions)
           /\ \A e \in inserted' : e \in inserted \/ Belongs(e)'
<1> DEFINE k == KeyOf[r]
           c == CommandOf[r]
<1>1. k \in Keys /\ c \in Commands /\ c.device \in Devices /\ c.seq \in Positions
  BY SendMessageAssumption DEF Positions
<1>2. MessagesOK /\ OperationsOK /\ RecordsOK /\ Holds(r)
  BY DEF IInv, RequestsOK, Holding
<1>3. ASSUME NEW server \in Nat, Completes(r, server), MessagesOK', MessagesKept,
             StoresMessage(c, server), Inserts(r) \/ UNCHANGED inserted
      PROVE  /\ MessagesOK' /\ MessagesKept
             /\ OperationsOK' /\ OperationsAdvance /\ OthersStay(KeyOf[r])
             /\ operations[k].status = "in_progress"
             /\ operations'[k].fingerprint = c
             /\ operations[k].fingerprint = c
             /\ operations'[k].response \in Responses
             /\ Tells(k)'
             /\ inserted' \subseteq (Keys \X Devices \X Positions)
             /\ \A e \in inserted' : e \in inserted \/ Belongs(e)'
  <2> DEFINE response == ResponseFor(c, server)
  <2>1. /\ response \in Responses
        /\ response.device = c.device /\ response.seq = c.seq /\ response.server = server
    BY <1>1, ResponseIsResponse
  <2>2. Ops!CompleteOperation(k, attempt[r], response)
    BY <1>3 DEF Completes
  <2> HIDE DEF response
  <2>3. /\ OperationsOK' /\ OperationsAdvance /\ OthersStay(k)
        /\ Closes(r, response)
    BY <1>2, <2>1, <2>2, ClosesRow
  <2>4. /\ operations[k].status = "in_progress" /\ operations'[k].status = "completed"
        /\ operations[k].fingerprint = c /\ operations'[k].fingerprint = c
        /\ operations'[k].response = response
    BY <1>2, <2>3 DEF Closes, Holds
  <2>5. Tells(k)'
    BY <1>3, <2>1, <2>4 DEF Tells, StoresMessage
  <2>6. \A e \in inserted' : e \in inserted \/ e = <<k, c.device, c.seq>>
    BY <1>3 DEF Inserts
  <2>7. inserted' \subseteq (Keys \X Devices \X Positions)
    BY <1>1, <1>2, <2>6 DEF RecordsOK
  <2>8. \A e \in inserted' : e \in inserted \/ Belongs(e)'
    BY <1>1, <2>4, <2>6 DEF Belongs
  <2>9. QED
    BY <1>3, <2>1, <2>3, <2>4, <2>5, <2>7, <2>8
<1>4. CASE Stream!PublishAndDrain(c) /\ Completes(r, nextServer) /\ Inserts(r)
  <2>1. nextServer \in Nat
    BY <1>2 DEF MessagesOK
  <2>2. QED
    BY <1>1, <1>2, <1>3, <1>4, <2>1, PublishAndDrainStores
<1>5. CASE Stream!BufferMessage(c) /\ Completes(r, 0) /\ Inserts(r)
  BY <1>1, <1>2, <1>3, <1>5, BufferStores
<1>6. CASE /\ Stream!Adopts(c)
           /\ Completes(r, messages[c.device][c.seq].server)
           /\ UNCHANGED <<streamVars, inserted>>
  <2>1. UNCHANGED messages /\ [Stream!Next]_streamVars
    BY <1>6 DEF streamVars
  <2>2. MessagesOK' /\ MessagesKept
    BY <1>2, <2>1, StreamKeeps
  <2>3. messages[c.device][c.seq].server \in Nat
    BY <1>1, <1>2 DEF MessagesOK, Stream!MessageRow
  <2>4. StoresMessage(c, messages[c.device][c.seq].server)
    BY <1>6, <2>1 DEF StoresMessage, Stream!Adopts, Stream!PositionTaken
  <2>5. QED
    BY <1>3, <1>6, <2>2, <2>3, <2>4
<1>7. QED
  BY <1>4, <1>5, <1>6 DEF Effect

LEMMA InitIInv == Init => IInv
<1> SUFFICES ASSUME Init PROVE IInv
  OBVIOUS
<1> USE SendMessageAssumption
<1>1. MessagesOK
  <2>1. Stream!NoMessage \in Stream!MessageRow
    BY DEF Stream!NoMessage, Stream!MessageRow
  <2>2. messages = [d \in Devices |-> [n \in Positions |-> Stream!NoMessage]]
    BY DEF Init, Stream!Init, Stream!ClientSequences, Positions
  <2>3. Stream!NoMessage.status = "none"
    BY DEF Stream!NoMessage
  <2>4. active = Members /\ nextServer = 1
    BY DEF Init, Stream!Init
  <2>5. QED
    BY <2>1, <2>2, <2>3, <2>4 DEF MessagesOK
<1>2. \A k \in Keys : operations[k] = Ops!NoOperation
  BY DEF Init, Ops!Init
<1>3. /\ Ops!NoOperation.status = "none" /\ Ops!NoOperation.attempt = 0
      /\ Ops!NoOperation.fingerprint = NoResponse /\ Ops!NoOperation.response = NoResponse
      /\ Ops!NoOperation.lease = "none" /\ Ops!NoOperation \in Ops!Operation
  BY DEF Ops!NoOperation, Ops!Operation
<1>4. OperationsOK
  BY <1>2, <1>3 DEF Init, Ops!Init, OperationsOK, RowOK
<1>5. RequestsOK /\ OneOwner
  BY DEF Init, RequestsOK, OneOwner, Steps, Holding
<1>6. RecordsOK
  BY <1>2, <1>3 DEF Init, RecordsOK
<1>7. QED
  BY <1>1, <1>4, <1>5, <1>6 DEF IInv

(* A step of one execution that records nothing and completes nothing.     *)
LEMMA QuietRecords ==
    ASSUME IInv, MessagesKept, OperationsAdvance, UNCHANGED <<answers, inserted>>,
           \A k \in Keys : operations'[k].status = "completed" => operations[k].status = "completed"
    PROVE  RecordsOK'
<1>1. RecordsOK /\ MessagesOK /\ OperationsOK
  BY DEF IInv
<1>2. answers' \subseteq [caller : Callers, response : Responses]
      /\ inserted' \subseteq (Keys \X Devices \X Positions)
  BY <1>1 DEF RecordsOK
<1>3. QED
  BY <1>1, <1>2, RecordsKept

LEMMA StepKeepsIInv ==
    ASSUME IInv, [Next]_vars
    PROVE  IInv'
<1>1. /\ MessagesOK /\ OperationsOK /\ RequestsOK /\ OneOwner /\ RecordsOK
      /\ pc \in [Callers -> Steps] /\ attempt \in [Callers -> 0..MaxAttempt]
      /\ 0 \in 0..MaxAttempt
  BY SendMessageAssumption DEF IInv, RequestsOK
<1>2. MessagesOK' /\ MessagesKept
  <2>1. [Stream!Next]_streamVars
    BY StreamPart DEF vars
  <2>2. QED
    BY <1>1, <2>1, StreamKeeps
<1>3. ASSUME NEW r \in Callers, NEW step \in Steps, NEW a \in 0..MaxAttempt,
             Goto(r, step), attempt' = [attempt EXCEPT ![r] = a]
      PROVE  /\ pc' \in [Callers -> Steps] /\ attempt' \in [Callers -> 0..MaxAttempt]
             /\ OthersWait(r) /\ pc'[r] = step /\ attempt'[r] = a
  BY <1>1, <1>3 DEF Goto, OthersWait
<1>4. ASSUME NEW r \in Callers, NEW step \in Steps, Goto(r, step), UNCHANGED attempt
      PROVE  /\ pc' \in [Callers -> Steps] /\ attempt' \in [Callers -> 0..MaxAttempt]
             /\ OthersWait(r) /\ pc'[r] = step /\ attempt'[r] = attempt[r]
  BY <1>1, <1>4 DEF Goto, OthersWait
<1>5. ASSUME NEW r \in Callers, Finish(r)
      PROVE  /\ pc' \in [Callers -> Steps] /\ attempt' \in [Callers -> 0..MaxAttempt]
             /\ OthersWait(r) /\ Moves(r)
  <2>1. Goto(r, "idle") /\ attempt' = [attempt EXCEPT ![r] = 0] /\ "idle" \in Steps
    BY <1>5 DEF Finish, Steps
  <2>2. QED
    BY <1>1, <1>3, <2>1 DEF Moves
<1>6. ASSUME UNCHANGED <<operations, answers, inserted>>
      PROVE  OperationsOK' /\ OperationsAdvance /\ RecordsOK'
  <2>1. OperationsOK' /\ OperationsAdvance
    BY <1>1, <1>6, NothingAdvances
  <2>2. QED
    BY <1>2, <1>6, <2>1, QuietRecords
<1>7. ASSUME UNCHANGED <<operations, answers, inserted, pc, attempt>>
      PROVE  IInv'
  <2>1. RequestsOK' /\ OneOwner'
    BY <1>1, <1>7 DEF RequestsOK, Holds, OneOwner
  <2>2. QED
    BY <1>2, <1>6, <1>7, <2>1 DEF IInv
<1>8. ASSUME NEW r \in Callers, Send(r) \/ LoseClaim(r) PROVE IInv'
  <2>1. /\ UNCHANGED <<operations, answers, inserted, attempt>>
        /\ Goto(r, "claim") \/ Goto(r, "find")
        /\ "claim" \in Steps /\ "find" \in Steps
    BY <1>8 DEF Send, LoseClaim, historyVars, Steps
  <2>2. /\ pc' \in [Callers -> Steps] /\ attempt' \in [Callers -> 0..MaxAttempt]
        /\ OthersWait(r) /\ pc'[r] \in {"claim", "find"}
    BY <1>4, <2>1
  <2>3. OperationsOK' /\ OperationsAdvance /\ RecordsOK'
    BY <1>6, <2>1
  <2>4. RequestsOK' /\ OneOwner'
    BY <1>1, <2>2, <2>3, RequestsKept DEF Moves
  <2>5. QED
    BY <1>2, <2>3, <2>4 DEF IInv
<1>9. ASSUME NEW r \in Callers, FindConflict(r) \/ LoseRace(r) \/ Crash(r) PROVE IInv'
  <2>1. UNCHANGED <<operations, answers, inserted>> /\ Finish(r)
    BY <1>9 DEF FindConflict, LoseRace, Crash, historyVars
  <2>2. OperationsOK' /\ OperationsAdvance /\ RecordsOK'
    BY <1>6, <2>1
  <2>3. RequestsOK' /\ OneOwner'
    BY <1>1, <1>5, <2>1, <2>2, RequestsKept
  <2>4. QED
    BY <1>2, <2>2, <2>3 DEF IInv
<1>10. ASSUME NEW r \in Callers, FindReplay(r) PROVE IInv'
  <2>1. /\ UNCHANGED <<operations, inserted>> /\ Finish(r)
        /\ operations[KeyOf[r]].status = "completed"
        /\ operations[KeyOf[r]].fingerprint = CommandOf[r]
        /\ answers' = answers \cup {[caller |-> r, response |-> operations[KeyOf[r]].response]}
    BY <1>10 DEF FindReplay, SameFingerprint, Operation, AnswerWith
  <2>2. OperationsOK' /\ OperationsAdvance
    BY <1>1, <2>1, NothingAdvances
  <2>3. KeyOf[r] \in Keys /\ operations[KeyOf[r]].response \in Responses
    <3>1. /\ KeyOf[r] \in Keys /\ RowOK(operations[KeyOf[r]])
          /\ operations[KeyOf[r]] \in Ops!Operation
      BY <1>1, SendMessageAssumption DEF OperationsOK
    <3>2. QED
      BY <2>1, <3>1 DEF RowOK, Ops!Operation
  <2>4. answers' \subseteq [caller : Callers, response : Responses]
    BY <1>1, <2>1, <2>3 DEF RecordsOK
  <2>5. \A a \in answers' : a \in answers \/ Repeats(a)'
    BY <2>1 DEF Repeats
  <2>6. RecordsOK'
    <3>1. /\ inserted' \subseteq (Keys \X Devices \X Positions)
          /\ \A e \in inserted' : e \in inserted \/ Belongs(e)'
          /\ \A k \in Keys : operations[k].status # "completed" /\ operations'[k].status = "completed"
                            => Tells(k)'
      BY <1>1, <2>1 DEF RecordsOK
    <3>2. QED
      BY <1>1, <1>2, <2>2, <2>4, <2>5, <3>1, RecordsKept
  <2>7. RequestsOK' /\ OneOwner'
    BY <1>1, <1>5, <2>1, <2>2, RequestsKept
  <2>8. QED
    BY <1>2, <2>2, <2>6, <2>7 DEF IInv
<1>11. ASSUME NEW r \in Callers, FindAvailable(r) PROVE IInv'
  <2> DEFINE op == operations[KeyOf[r]]
  <2>1. /\ UNCHANGED <<operations, answers, inserted>>
        /\ op.fingerprint = CommandOf[r]
        /\ op.status \in {"failed", "in_progress"}
        /\ Goto(r, "retry") \/ Goto(r, "takeover")
        /\ attempt' = [attempt EXCEPT ![r] = op.attempt]
        /\ "retry" \in Steps /\ "takeover" \in Steps
    BY <1>11 DEF FindAvailable, SameFingerprint, Operation, historyVars, Steps
  <2>2. op.attempt \in 0..MaxAttempt /\ op.attempt # 0
    <3>1. RowOK(op) /\ op \in Ops!Operation
      BY <1>1, SendMessageAssumption DEF OperationsOK
    <3>2. QED
      BY <2>1, <3>1 DEF RowOK, Ops!Operation
  <2> HIDE DEF op
  <2>3. /\ pc' \in [Callers -> Steps] /\ attempt' \in [Callers -> 0..MaxAttempt]
        /\ OthersWait(r) /\ pc'[r] \in {"retry", "takeover"} /\ attempt'[r] = op.attempt
    BY <1>3, <2>1, <2>2
  <2>4. OperationsOK' /\ OperationsAdvance /\ RecordsOK'
    BY <1>6, <2>1
  <2>5. Holds(r)'
    <3>1. op.attempt >= 1 /\ op.attempt <= op.attempt
      BY <2>2
    <3>2. QED
      BY <2>1, <2>3, <3>1 DEF Holds, op
  <2>6. RequestsOK' /\ OneOwner'
    BY <1>1, <2>3, <2>4, <2>5, RequestsKept DEF Moves
  <2>7. QED
    BY <1>2, <2>4, <2>6 DEF IInv
<1>12. ASSUME NEW r \in Callers, Claim(r) \/ RetryFailed(r) \/ TakeOver(r) PROVE IInv'
  <2>1. UNCHANGED <<answers, inserted>>
    BY <1>12 DEF Claim, RetryFailed, TakeOver, historyVars
  <2>2. Claim(r) \/ (operations[KeyOf[r]].fingerprint = CommandOf[r] /\ (RetryFailed(r) \/ TakeOver(r)))
    BY <1>1, <1>12 DEF RetryFailed, TakeOver, RequestsOK, Holding, Holds
  <2>3. /\ OperationsOK' /\ OperationsAdvance /\ OthersStay(KeyOf[r]) /\ Gets(r)
        /\ pc' = [pc EXCEPT ![r] = "effect"]
        /\ \E a \in 1..MaxAttempt : attempt' = [attempt EXCEPT ![r] = a]
    BY <1>1, <2>2, GetsRow
  <2>4. /\ pc' \in [Callers -> Steps] /\ attempt' \in [Callers -> 0..MaxAttempt]
        /\ OthersWait(r) /\ pc'[r] = "effect"
    <3>1. PICK a \in 1..MaxAttempt : attempt' = [attempt EXCEPT ![r] = a]
      BY <2>3
    <3>2. a \in 0..MaxAttempt /\ "effect" \in Steps
      BY SendMessageAssumption DEF Steps
    <3>3. QED
      BY <1>3, <2>3, <3>1, <3>2 DEF Goto
  <2>5. RequestsOK' /\ OneOwner'
    BY <1>1, <2>3, <2>4, RequestsKept DEF Moves
  <2>6. RecordsOK'
    BY <1>2, <2>1, <2>3, QuietRecords DEF OthersStay, Gets
  <2>7. QED
    BY <1>2, <2>3, <2>5, <2>6 DEF IInv
<1>13. ASSUME NEW r \in Callers, Commit(r) \/ CommitUnacknowledged(r) PROVE IInv'
  <2>1. pc[r] = "effect" /\ Effect(r)
    BY <1>13 DEF Commit, CommitUnacknowledged
  <2>2. /\ OperationsOK' /\ OperationsAdvance /\ OthersStay(KeyOf[r])
        /\ operations'[KeyOf[r]].fingerprint = CommandOf[r]
        /\ operations'[KeyOf[r]].response \in Responses
        /\ Tells(KeyOf[r])'
        /\ inserted' \subseteq (Keys \X Devices \X Positions)
        /\ \A e \in inserted' : e \in inserted \/ Belongs(e)'
    BY <2>1, EffectDone
  <2>3. \A k \in Keys : operations[k].status # "completed" /\ operations'[k].status = "completed"
                            => Tells(k)'
    BY <2>2 DEF OthersStay
  <2>4. /\ answers' \subseteq [caller : Callers, response : Responses]
        /\ \A a \in answers' : a \in answers \/ Repeats(a)'
    <3>1. \/ UNCHANGED answers
          \/ answers' = answers \cup {[caller |-> r, response |-> operations'[KeyOf[r]].response]}
      BY <1>13 DEF Commit, CommitUnacknowledged, AnswerWith
    <3>2. operations'[KeyOf[r]].status = "completed"
      BY <2>2 DEF Tells
    <3>3. QED
      BY <1>1, <2>2, <3>1, <3>2 DEF RecordsOK, Repeats
  <2>5. RecordsOK'
    BY <1>1, <1>2, <2>2, <2>3, <2>4, RecordsKept
  <2>6. CASE Commit(r)
    <3>1. Finish(r)
      BY <2>6 DEF Commit
    <3>2. RequestsOK' /\ OneOwner'
      BY <1>1, <1>5, <2>2, <3>1, RequestsKept
    <3>3. QED
      BY <1>2, <2>2, <2>5, <3>2 DEF IInv
  <2>7. CASE CommitUnacknowledged(r)
    <3>1. Goto(r, "release") /\ UNCHANGED attempt /\ "release" \in Steps
      BY <2>7 DEF CommitUnacknowledged, Steps
    <3>2. /\ pc' \in [Callers -> Steps] /\ attempt' \in [Callers -> 0..MaxAttempt]
          /\ OthersWait(r) /\ pc'[r] = "release" /\ attempt'[r] = attempt[r]
      BY <1>4, <3>1
    <3>3. RequestsOK' /\ OneOwner'
      BY <1>1, <2>1, <2>2, <3>2, RequestsKept DEF Moves
    <3>4. QED
      BY <1>2, <2>2, <2>5, <3>3 DEF IInv
  <2>8. QED
    BY <1>13, <2>6, <2>7
<1>14. ASSUME NEW r \in Callers, Rollback(r) PROVE IInv'
  <2>1. /\ UNCHANGED <<operations, answers, inserted, attempt>> /\ pc[r] = "effect"
        /\ Goto(r, "release") /\ "release" \in Steps
    BY <1>14 DEF Rollback, historyVars, Steps
  <2>2. /\ pc' \in [Callers -> Steps] /\ attempt' \in [Callers -> 0..MaxAttempt]
        /\ OthersWait(r) /\ pc'[r] = "release" /\ attempt'[r] = attempt[r]
    BY <1>4, <2>1
  <2>3. OperationsOK' /\ OperationsAdvance /\ RecordsOK'
    BY <1>6, <2>1
  <2>4. RequestsOK' /\ OneOwner'
    BY <1>1, <2>1, <2>2, <2>3, RequestsKept DEF Moves
  <2>5. QED
    BY <1>2, <2>3, <2>4 DEF IInv
<1>15. ASSUME NEW r \in Callers, Release(r) PROVE IInv'
  <2>1. /\ UNCHANGED <<answers, inserted>> /\ Finish(r)
        /\ Ops!FailOperation(KeyOf[r], attempt[r]) \/ UNCHANGED operations
    BY <1>15 DEF Release, historyVars
  <2>2. OperationsOK' /\ OperationsAdvance /\ RecordsOK'
    <3>1. CASE Ops!FailOperation(KeyOf[r], attempt[r])
      <4>1. OperationsOK' /\ OperationsAdvance /\ OthersStay(KeyOf[r]) /\ Loosens(KeyOf[r])
        BY <1>1, <3>1, LoosensRow, SendMessageAssumption
      <4>2. QED
        BY <1>2, <2>1, <4>1, QuietRecords DEF OthersStay, Loosens
    <3>2. CASE UNCHANGED operations
      BY <1>6, <2>1, <3>2
    <3>3. QED
      BY <2>1, <3>1, <3>2
  <2>3. RequestsOK' /\ OneOwner'
    BY <1>1, <1>5, <2>1, <2>2, RequestsKept
  <2>4. QED
    BY <1>2, <2>2, <2>3 DEF IInv
<1>16. ASSUME NEW k \in Keys, LeaseExpires(k) PROVE IInv'
  <2>1. Ops!LeaseExpires(k) /\ UNCHANGED <<pc, attempt, answers, inserted>>
    BY <1>16 DEF LeaseExpires, requestVars, historyVars
  <2>2. OperationsOK' /\ OperationsAdvance /\ OthersStay(k) /\ Loosens(k)
    BY <1>1, <2>1, LoosensRow
  <2>3. RecordsOK'
    BY <1>2, <2>1, <2>2, QuietRecords DEF OthersStay, Loosens
  <2>4. OneOwner'
    BY <1>1, <2>1 DEF OneOwner
  <2>5. \A j \in Keys : /\ operations'[j].fingerprint = operations[j].fingerprint
                        /\ operations'[j].attempt = operations[j].attempt
    BY <2>2 DEF OthersStay, Loosens
  <2>6. RequestsOK'
    BY <1>1, <2>1, <2>5, SendMessageAssumption DEF RequestsOK, Holds
  <2>7. QED
    BY <1>2, <2>2, <2>3, <2>4, <2>6 DEF IInv
<1>17. CASE OthersMoveStream
  BY <1>7, <1>17 DEF OthersMoveStream, requestVars, historyVars
<1>18. CASE UNCHANGED vars
  BY <1>7, <1>18 DEF vars, requestVars, historyVars
<1>19. QED
  BY <1>8, <1>9, <1>10, <1>11, <1>12, <1>13, <1>14, <1>15, <1>16, <1>17, <1>18 DEF Next, Execute

-----------------------------------------------------------------------------
(* The theorems                                                            *)

(* The invariant that the others follow from.                              *)
THEOREM SendInvariant == Spec => []IInv
<1>1. IInv /\ [Next]_vars => IInv'
  BY StepKeepsIInv
<1>2. QED
  BY <1>1, InitIInv, PTL DEF Spec

(* The fence of the attempts: whatever number of replicas execute a key,   *)
(* however often they crash and lose their leases, one of them at most may *)
(* complete it.                                                            *)
THEOREM OneOwnerAtATime == Spec => []OneOwner
<1>1. IInv => OneOwner
  BY DEF IInv
<1>2. QED
  BY <1>1, SendInvariant, PTL

(* All or nothing: no message of a key without its completed operation,    *)
(* and the operation names that message.                                   *)
THEOREM NoEffectAlone == Spec => []EffectOnlyIfCompleted
<1>1. ASSUME IInv PROVE EffectOnlyIfCompleted
  <2> SUFFICES ASSUME NEW e \in inserted
               PROVE  LET op == operations[e[1]]
                      IN  /\ op.status = "completed"
                          /\ op.response.device = e[2] /\ op.response.seq = e[3]
                          /\ messages[e[2]][e[3]].content = op.fingerprint.content
    BY DEF EffectOnlyIfCompleted
  <2>1. Belongs(e)
    BY <1>1 DEF IInv, RecordsOK
  <2>2. Tells(e[1])
    BY <1>1, <2>1 DEF IInv, RecordsOK, Belongs
  <2>3. QED
    BY <2>1, <2>2 DEF Belongs, Tells
<1>2. QED
  BY <1>1, SendInvariant, PTL

(* A successful answer never turns out false.                              *)
THEOREM AnswersStayTrue == Spec => []AnswersAreDurable
<1>1. ASSUME IInv PROVE AnswersAreDurable
  <2> SUFFICES ASSUME NEW a \in answers
               PROVE  LET row == messages[a.response.device][a.response.seq]
                      IN  /\ row.content = CommandOf[a.caller].content
                          /\ a.response.server # 0 => row.server = a.response.server
    BY DEF AnswersAreDurable
  <2>1. Repeats(a) /\ KeyOf[a.caller] \in Keys
    BY <1>1, SendMessageAssumption DEF IInv, RecordsOK
  <2>2. Tells(KeyOf[a.caller])
    BY <1>1, <2>1 DEF IInv, RecordsOK, Repeats
  <2>3. QED
    BY <2>1, <2>2 DEF Repeats, Tells
<1>2. QED
  BY <1>1, SendInvariant, PTL

-----------------------------------------------------------------------------
(* The refinement                                                          *)

effects == [k \in Keys |-> operations[k].response]
intents == [k \in Keys |-> operations[k].fingerprint]

(* The response and the content of every key are what they were.           *)
LEMMA SameRows ==
    ASSUME \A k \in Keys : /\ operations'[k].response = operations[k].response
                           /\ operations'[k].fingerprint = operations[k].fingerprint
    PROVE  effects' = effects /\ intents' = intents
BY DEF effects, intents

LEMMA StepRefines ==
    ASSUME IInv, [Next]_vars
    PROVE  [Once!Next]_<<effects, intents, answers>>
<1>1. OperationsOK /\ RequestsOK /\ RecordsOK
  BY DEF IInv
<1>2. ASSUME UNCHANGED <<operations, answers>>
      PROVE  UNCHANGED <<effects, intents, answers>>
  BY <1>2 DEF effects, intents
<1>3. ASSUME NEW k \in Keys, OthersStay(k), Loosens(k), UNCHANGED answers
      PROVE  UNCHANGED <<effects, intents, answers>>
  BY <1>3, SameRows DEF OthersStay, Loosens
<1>4. ASSUME NEW r \in Callers, FindReplay(r) PROVE Once!Answer(r)
  <2>1. /\ UNCHANGED operations
        /\ operations[KeyOf[r]].status = "completed"
        /\ operations[KeyOf[r]].fingerprint = CommandOf[r]
        /\ answers' = answers \cup {[caller |-> r, response |-> operations[KeyOf[r]].response]}
        /\ KeyOf[r] \in Keys /\ RowOK(operations[KeyOf[r]])
    BY <1>1, <1>4, SendMessageAssumption
       DEF FindReplay, SameFingerprint, Operation, AnswerWith, OperationsOK
  <2>2. effects[KeyOf[r]] # NoResponse
    BY <2>1 DEF effects, RowOK
  <2>3. QED
    BY <2>1, <2>2 DEF Once!Answer, effects, intents
<1>5. ASSUME NEW r \in Callers, Claim(r) PROVE Once!Claim(KeyOf[r])
  <2>1. OthersStay(KeyOf[r]) /\ Gets(r)
    BY <1>1, <1>5, GetsRow DEF RequestsOK
  <2>2. /\ operations[KeyOf[r]].status = "none" /\ UNCHANGED answers
        /\ KeyOf[r] \in Keys /\ RowOK(operations[KeyOf[r]])
    BY <1>1, <1>5, SendMessageAssumption DEF Claim, Ops!ClaimOperation, historyVars, OperationsOK
  <2>3. intents' = [intents EXCEPT ![KeyOf[r]] = CommandOf[r]]
    BY <2>1, <2>2 DEF intents, OthersStay, Gets
  <2>4. effects' = effects
    BY <2>1, <2>2 DEF effects, OthersStay, Gets
  <2>5. intents[KeyOf[r]] = NoResponse
    BY <2>2 DEF intents, RowOK
  <2>6. QED
    BY <2>2, <2>3, <2>4, <2>5 DEF Once!Claim, effects, intents
<1>6. ASSUME NEW r \in Callers, RetryFailed(r) \/ TakeOver(r)
      PROVE  UNCHANGED <<effects, intents, answers>>
  <2>1. operations[KeyOf[r]].fingerprint = CommandOf[r] /\ UNCHANGED answers
    BY <1>1, <1>6 DEF RetryFailed, TakeOver, RequestsOK, Holding, Holds, historyVars
  <2>2. OthersStay(KeyOf[r]) /\ Gets(r)
    BY <1>1, <1>6, <2>1, GetsRow DEF RequestsOK
  <2>3. QED
    BY <2>1, <2>2, SameRows DEF OthersStay, Gets
<1>7. ASSUME NEW r \in Callers, Commit(r) \/ CommitUnacknowledged(r)
      PROVE  Once!TakeEffect(KeyOf[r])
  <2> DEFINE k == KeyOf[r]
  <2>1. pc[r] = "effect" /\ Effect(r)
    BY <1>7 DEF Commit, CommitUnacknowledged
  <2>2. /\ OthersStay(k) /\ k \in Keys /\ RowOK(operations[k])
        /\ operations[k].status = "in_progress"
        /\ operations[k].fingerprint = CommandOf[r]
        /\ operations'[k].fingerprint = CommandOf[r]
        /\ operations'[k].response \in Responses
    BY <1>1, <2>1, EffectDone, SendMessageAssumption DEF OperationsOK
  <2>3. intents' = intents
    BY <2>2 DEF intents, OthersStay
  <2>4. effects' = [effects EXCEPT ![k] = operations'[k].response]
    BY <2>2 DEF effects, OthersStay
  <2>5. effects'[k] = operations'[k].response /\ effects'[k] # NoResponse
    BY <2>2, SendMessageAssumption DEF effects
  <2>6. effects[k] = NoResponse /\ intents[k] # NoResponse /\ intents[k] = CommandOf[r]
    BY <2>2 DEF effects, intents, RowOK
  <2>7. \/ UNCHANGED answers
        \/ answers' = answers \cup {[caller |-> r, response |-> effects'[k]]}
    BY <1>7, <2>5 DEF Commit, CommitUnacknowledged, AnswerWith
  <2>8. QED
    BY <2>3, <2>4, <2>5, <2>6, <2>7 DEF Once!TakeEffect, effects, intents
<1>8. ASSUME NEW r \in Callers, Release(r) PROVE UNCHANGED <<effects, intents, answers>>
  <2>1. UNCHANGED answers /\ KeyOf[r] \in Keys
    BY <1>8, SendMessageAssumption DEF Release, historyVars
  <2>2. CASE Ops!FailOperation(KeyOf[r], attempt[r])
    BY <1>1, <1>3, <2>1, <2>2, LoosensRow
  <2>3. QED
    BY <1>2, <1>8, <2>1, <2>2 DEF Release
<1>9. ASSUME NEW k \in Keys, LeaseExpires(k) PROVE UNCHANGED <<effects, intents, answers>>
  BY <1>1, <1>3, <1>9, LoosensRow DEF LeaseExpires, historyVars
<1>10. ASSUME NEW r \in Callers,
              \/ Send(r) \/ LoseClaim(r) \/ FindConflict(r) \/ FindAvailable(r) \/ LoseRace(r)
              \/ Rollback(r) \/ Crash(r)
       PROVE  UNCHANGED <<effects, intents, answers>>
  BY <1>2, <1>10 DEF Send, LoseClaim, FindConflict, FindAvailable, LoseRace, Rollback, Crash, historyVars
<1>11. CASE OthersMoveStream \/ UNCHANGED vars
  BY <1>2, <1>11 DEF OthersMoveStream, vars, historyVars
<1>12. \A r \in Callers : KeyOf[r] \in Keys
  BY SendMessageAssumption
<1>13. QED
  BY <1>4, <1>5, <1>6, <1>7, <1>8, <1>9, <1>10, <1>11, <1>12 DEF Next, Execute, Once!Next

(* The send implements SendOnce: under any interleaving of executions,     *)
(* crashes, lost acknowledgements and takeovers, callers see one effect    *)
(* per key and one response, that of the command they sent.                *)
THEOREM SendImplementsSendOnce == Spec => ImplementsSendOnce
<1>1. Init => Once!Init
  <2> SUFFICES ASSUME Init PROVE Once!Init
    OBVIOUS
  <2>1. \A k \in Keys : operations[k] = Ops!NoOperation
    BY DEF Init, Ops!Init
  <2>2. Ops!NoOperation.response = NoResponse /\ Ops!NoOperation.fingerprint = NoResponse
    BY DEF Ops!NoOperation
  <2>3. answers = {}
    BY DEF Init
  <2>4. QED
    BY <2>1, <2>2, <2>3 DEF Once!Init
<1>2. IInv /\ [Next]_vars => [Once!Next]_(Once!vars)
  BY StepRefines DEF Once!vars, effects, intents
<1>3. QED
  BY <1>1, <1>2, SendInvariant, PTL DEF Spec, ImplementsSendOnce, Once!Spec

-----------------------------------------------------------------------------
(* Who inserted a message                                                  *)

(* Every message has one inserter, and nobody inserts what is there.       *)
InsertersOK ==
    /\ \A d \in Devices, n \in Positions :
        messages[d][n].status # "none" => \E e \in inserted : e[2] = d /\ e[3] = n
    /\ \A e, f \in inserted : e[2] = f[2] /\ e[3] = f[3] => e = f

(* No other row becomes a message.                                         *)
OthersAbsent(c) ==
    \A d \in Devices, n \in Positions :
        messages[d][n].status = "none" /\ ~(d = c.device /\ n = c.seq)
            => messages'[d][n].status = "none"

(* A cascade publishes what is there, and nothing else.                    *)
LEMMA RunAddsNothing ==
    ASSUME MessagesOK, NEW d \in Devices,
           NEW rows \in [Positions -> Stream!MessageRow],
           NEW from \in Int, NEW end \in Int,
           Stream!CascadeEnds(rows, from, end),
           messages' = [messages EXCEPT ![d] = Stream!PublishRun(rows, from, end)],
           NEW e \in Devices, NEW n \in Positions,
           messages[e][n].status = "none", e = d => rows[n] = messages[d][n]
    PROVE  messages'[e][n].status = "none"
<1>1. CASE e # d
  BY <1>1 DEF MessagesOK
<1>2. CASE e = d
  <2>1. messages'[e][n] = Stream!PublishRun(rows, from, end)[n]
    BY <1>2 DEF MessagesOK
  <2>2. n \notin from..(end - 1)
    BY <1>2 DEF Stream!CascadeEnds, Stream!BufferedAt
  <2>3. Stream!PublishRun(rows, from, end)[n] = rows[n]
    BY <2>2 DEF Stream!PublishRun, Stream!ClientSequences, Positions
  <2>4. QED
    BY <1>2, <2>1, <2>3
<1>3. QED
  BY <1>1, <1>2

(* A send inserts one message, at a free position.                         *)
LEMMA SendAddsOne ==
    ASSUME MessagesOK, NEW c \in Commands, Stream!PublishAndDrain(c) \/ Stream!BufferMessage(c)
    PROVE  messages[c.device][c.seq].status = "none" /\ OthersAbsent(c)
<1> DEFINE d   == c.device
           row == [Stream!NoMessage EXCEPT !.content = c.content, !.status = "buffered"]
           rows == [messages[d] EXCEPT ![c.seq] = row]
<1>1. d \in Devices /\ c.seq \in Positions
  BY SendMessageAssumption DEF Positions
<1>2. messages[d][c.seq].status = "none"
  BY DEF Stream!PublishAndDrain, Stream!BufferMessage, Stream!Insertable,
         Stream!ReadsExisting, Stream!PositionTaken
<1>3. CASE Stream!PublishAndDrain(c)
  <2>1. PICK end \in (c.seq + 1)..(MaxClientSequence + 1) :
            /\ Stream!CascadeEnds(rows, c.seq, end)
            /\ messages' = [messages EXCEPT ![d] = Stream!PublishRun(rows, c.seq, end)]
    BY <1>3 DEF Stream!PublishAndDrain
  <2>2. /\ rows \in [Positions -> Stream!MessageRow]
        /\ \A n \in Positions : n # c.seq => rows[n] = messages[d][n]
    <3>1. row \in Stream!MessageRow
      BY SendMessageAssumption DEF Stream!NoMessage, Stream!MessageRow
    <3>2. QED
      BY <1>1, <3>1 DEF MessagesOK
  <2>3. c.seq \in Int /\ end \in Int
    BY <1>1, SendMessageAssumption DEF Positions
  <2> HIDE DEF rows
  <2>4. ASSUME NEW e \in Devices, NEW n \in Positions, messages[e][n].status = "none",
               e = d => rows[n] = messages[d][n]
        PROVE  messages'[e][n].status = "none"
    BY <1>1, <2>1, <2>2, <2>3, <2>4, RunAddsNothing
  <2>5. OthersAbsent(c)
    BY <2>2, <2>4 DEF OthersAbsent
  <2>6. QED
    BY <1>2, <2>5
<1>4. CASE Stream!BufferMessage(c)
  <2>1. messages' = [messages EXCEPT ![d][c.seq] = row]
    BY <1>4 DEF Stream!BufferMessage
  <2> HIDE DEF row
  <2>2. \A e \in Devices, n \in Positions :
            e # d \/ n # c.seq => messages'[e][n] = messages[e][n]
    BY <1>1, <2>1 DEF MessagesOK
  <2>3. QED
    BY <1>2, <2>2 DEF OthersAbsent
<1>5. QED
  BY <1>3, <1>4

(* What runs beside the sends inserts nothing.                             *)
LEMMA OthersAddNothing ==
    ASSUME MessagesOK, OthersMoveStream
    PROVE  \A d \in Devices, n \in Positions :
                messages[d][n].status = "none" => messages'[d][n].status = "none"
<1>1. ASSUME NEW d \in Devices, NEW from \in Positions, Stream!Resync(d, from)
      PROVE  \A e \in Devices, n \in Positions :
                messages[e][n].status = "none" => messages'[e][n].status = "none"
  <2>1. PICK end \in from..(MaxClientSequence + 1) :
            /\ Stream!CascadeEnds(messages[d], from, end)
            /\ messages' = [messages EXCEPT ![d] = Stream!PublishRun(messages[d], from, end)]
    BY <1>1 DEF Stream!Resync
  <2>2. from \in Int /\ end \in Int /\ messages[d] \in [Positions -> Stream!MessageRow]
    BY SendMessageAssumption DEF Positions, MessagesOK
  <2>3. QED
    BY <2>1, <2>2, RunAddsNothing
<1>2. ASSUME Stream!ExpireOverdueGaps \/ Stream!Tick PROVE UNCHANGED messages
  BY <1>2 DEF Stream!ExpireOverdueGaps, Stream!Tick
<1>3. QED
  BY <1>1, <1>2 DEF OthersMoveStream, Positions

LEMMA InsertersKept ==
    ASSUME IInv, InsertersOK, [Next]_vars
    PROVE  InsertersOK'
<1>1. MessagesOK /\ RecordsOK /\ OperationsOK
  BY DEF IInv
<1>2. \A e \in inserted : /\ e[2] \in Devices /\ e[3] \in Positions
                          /\ messages[e[2]][e[3]].status # "none"
  <2> SUFFICES ASSUME NEW e \in inserted
               PROVE  /\ e[2] \in Devices /\ e[3] \in Positions
                      /\ messages[e[2]][e[3]].status # "none"
    OBVIOUS
  <2>1. Belongs(e) /\ e \in Keys \X Devices \X Positions
    BY <1>1 DEF RecordsOK
  <2>2. Tells(e[1])
    BY <1>1, <2>1 DEF RecordsOK, Belongs
  <2>3. QED
    BY <2>1, <2>2 DEF Belongs, Tells
<1>3. ASSUME UNCHANGED inserted,
             \A d \in Devices, n \in Positions :
                messages[d][n].status = "none" => messages'[d][n].status = "none"
      PROVE  InsertersOK'
  BY <1>3 DEF InsertersOK
<1>4. ASSUME NEW r \in Callers, Effect(r) PROVE InsertersOK'
  <2> DEFINE c == CommandOf[r]
  <2>1. c \in Commands /\ c.device \in Devices /\ c.seq \in Positions
    BY SendMessageAssumption DEF Positions
  <2>2. CASE (Stream!PublishAndDrain(c) \/ Stream!BufferMessage(c)) /\ Inserts(r)
    <3> DEFINE new == <<KeyOf[r], c.device, c.seq>>
    <3>1. messages[c.device][c.seq].status = "none" /\ OthersAbsent(c)
      BY <1>1, <2>1, <2>2, SendAddsOne
    <3>2. inserted' = inserted \cup {new}
      BY <2>2 DEF Inserts
    <3>3. new[2] = c.device /\ new[3] = c.seq
      OBVIOUS
    <3> HIDE DEF new
    <3>4. \A e \in inserted : ~(e[2] = new[2] /\ e[3] = new[3])
      BY <1>2, <3>1, <3>3
    <3>5. \A e, f \in inserted' : e[2] = f[2] /\ e[3] = f[3] => e = f
      BY <3>2, <3>4 DEF InsertersOK
    <3>6. ASSUME NEW d \in Devices, NEW n \in Positions, messages'[d][n].status # "none"
          PROVE  \E e \in inserted' : e[2] = d /\ e[3] = n
      <4>1. CASE d = c.device /\ n = c.seq
        BY <3>2, <3>3, <4>1
      <4>2. CASE ~(d = c.device /\ n = c.seq)
        BY <3>1, <3>2, <3>6, <4>2 DEF OthersAbsent, InsertersOK
      <4>3. QED
        BY <4>1, <4>2
    <3>7. QED
      BY <3>5, <3>6 DEF InsertersOK
  <2>3. CASE UNCHANGED <<streamVars, inserted>>
    BY <1>3, <2>3 DEF streamVars
  <2>4. QED
    BY <1>4, <2>2, <2>3 DEF Effect
<1>5. ASSUME NEW r \in Callers, Execute(r) PROVE InsertersOK'
  <2>1. Effect(r) \/ UNCHANGED <<messages, inserted>>
    BY <1>5 DEF Execute, Claim, LoseClaim, FindConflict, FindReplay, FindAvailable, RetryFailed,
        TakeOver, LoseRace, Commit, CommitUnacknowledged, Rollback, Release, streamVars, historyVars
  <2>2. QED
    BY <1>3, <1>4, <2>1
<1>6. CASE OthersMoveStream
  BY <1>1, <1>3, <1>6, OthersAddNothing DEF OthersMoveStream, historyVars
<1>7. CASE \/ \E r \in Callers : Send(r) \/ Crash(r)
           \/ \E k \in Keys : LeaseExpires(k)
           \/ UNCHANGED vars
  BY <1>3, <1>7 DEF Send, Crash, LeaseExpires, vars, streamVars, historyVars
<1>8. QED
  BY <1>5, <1>6, <1>7 DEF Next

(* Two keys that name one message asked for the same content, and exactly  *)
(* one of them inserted it: the others adopted it.                         *)
THEOREM SharedMessagesAreAdopted == Spec => []SharedMessageIsAdopted
<1>1. Init => InsertersOK
  <2> SUFFICES ASSUME Init PROVE InsertersOK
    OBVIOUS
  <2>1. \A d \in Devices, n \in Positions : messages[d][n].status = "none"
    BY DEF Init, Stream!Init, Stream!NoMessage, Stream!ClientSequences, Positions
  <2>2. QED
    BY <2>1 DEF Init, InsertersOK
<1>2. IInv /\ InsertersOK /\ [Next]_vars => InsertersOK'
  BY InsertersKept
<1>3. ASSUME IInv, InsertersOK PROVE SharedMessageIsAdopted
  <2> SUFFICES ASSUME NEW d \in Devices, NEW n \in 1..MaxClientSequence,
                      {k \in Keys : Named(k, d, n)} # {}
               PROVE  /\ Cardinality({operations[k].fingerprint : k \in {j \in Keys : Named(j, d, n)}}) = 1
                      /\ Cardinality({e \in inserted : e[2] = d /\ e[3] = n}) = 1
                      /\ \A e \in inserted : e[2] = d /\ e[3] = n => Named(e[1], d, n) /\ e[1] \in Keys
    BY DEF SharedMessageIsAdopted
  <2>1. n \in Positions
    BY DEF Positions
  <2>2. PICK k \in Keys : Named(k, d, n)
    OBVIOUS
  <2>3. ASSUME NEW j \in Keys, Named(j, d, n)
        PROVE  /\ operations[j].fingerprint =
                    [device |-> d, seq |-> n, content |-> messages[d][n].content]
               /\ messages[d][n].status # "none"
    <3>1. Tells(j)
      BY <1>3, <2>3 DEF IInv, RecordsOK, Named
    <3>2. operations[j].fingerprint \in Commands
      <4>1. RowOK(operations[j]) /\ operations[j] \in Ops!Operation
        BY <1>3 DEF IInv, OperationsOK
      <4>2. QED
        BY <2>3, <4>1 DEF RowOK, Named, Ops!Operation
    <3>3. PICK f \in [device : Devices, seq : 1..MaxClientSequence, content : Contents] :
            operations[j].fingerprint = f
      BY <3>2, SendMessageAssumption
    <3>4. f = [device |-> f.device, seq |-> f.seq, content |-> f.content]
      OBVIOUS
    <3>5. f.device = d /\ f.seq = n /\ f.content = messages[d][n].content
      BY <2>3, <3>1, <3>3 DEF Tells, Named
    <3>6. QED
      BY <2>3, <3>1, <3>3, <3>4, <3>5 DEF Tells, Named
  <2>4. Cardinality({operations[j].fingerprint : j \in {i \in Keys : Named(i, d, n)}}) = 1
    <3>1. PICK f : f = [device |-> d, seq |-> n, content |-> messages[d][n].content]
      OBVIOUS
    <3>2. {operations[j].fingerprint : j \in {i \in Keys : Named(i, d, n)}} = {f}
      BY <2>2, <2>3, <3>1
    <3>3. QED
      BY <3>2, FS_Singleton
  <2>5. PICK e \in inserted : e[2] = d /\ e[3] = n
    BY <1>3, <2>1, <2>2, <2>3 DEF InsertersOK
  <2>6. {f \in inserted : f[2] = d /\ f[3] = n} = {e}
    BY <1>3, <2>5 DEF InsertersOK
  <2>7. Cardinality({f \in inserted : f[2] = d /\ f[3] = n}) = 1
    BY <2>6, FS_Singleton
  <2>8. ASSUME NEW f \in inserted, f[2] = d, f[3] = n PROVE Named(f[1], d, n) /\ f[1] \in Keys
    <3>1. Belongs(f)
      BY <1>3 DEF IInv, RecordsOK
    <3>2. Tells(f[1])
      BY <1>3, <3>1 DEF IInv, RecordsOK, Belongs
    <3>3. QED
      BY <2>8, <3>1, <3>2 DEF Belongs, Tells, Named
  <2>9. QED
    BY <2>4, <2>7, <2>8
<1>4. QED
  BY <1>1, <1>2, <1>3, SendInvariant, PTL DEF Spec

-----------------------------------------------------------------------------
(* The streams end to end                                                  *)

(* The theorems of MessageStreamProofs about the streams of this module.   *)
(* Its history variable waited occurs in none of those used here.          *)
Proved == INSTANCE MessageStreamProofs WITH waited <- 0

LEMMA ProvedAssumption == Proved!MessageStreamAssumption
<1>1. Proved!ClientSequences = 1..MaxClientSequence
  BY DEF Proved!ClientSequences
<1>2. QED
  BY <1>1, SendMessageAssumption

LEMMA SameInsertable ==
    ASSUME NEW c
    PROVE  Stream!Insertable(c) <=> Proved!Insertable(c)
BY Zenon DEF Stream!Insertable, Proved!Insertable, Stream!NeedsResync, Proved!NeedsResync,
    Stream!ReadsExisting, Proved!ReadsExisting, Stream!PositionTaken, Proved!PositionTaken,
    Stream!MessageIdTaken, Proved!MessageIdTaken, Stream!ClientSequences, Proved!ClientSequences

LEMMA SameStep ==
    /\ Stream!Init <=> Proved!Init
    /\ Stream!Next <=> Proved!Next
<1> USE DEF Stream!ClientSequences, Proved!ClientSequences, Stream!NoMessage, Proved!NoMessage,
            Stream!NoDeadline, Proved!NoDeadline
<1>1. Stream!Init <=> Proved!Init
  BY Zenon DEF Stream!Init, Proved!Init, Stream!NewStream, Proved!NewStream
<1> USE DEF Stream!PublishRun, Proved!PublishRun, Stream!CascadeEnds, Proved!CascadeEnds,
            Stream!BufferedAt, Proved!BufferedAt, Stream!HasBuffered, Proved!HasBuffered,
            Stream!AdvanceStream, Proved!AdvanceStream
<1>2. ASSUME NEW c PROVE Stream!PublishAndDrain(c) <=> Proved!PublishAndDrain(c)
  BY SameInsertable, Zenon DEF Stream!PublishAndDrain, Proved!PublishAndDrain
<1>3. ASSUME NEW c PROVE Stream!BufferMessage(c) <=> Proved!BufferMessage(c)
  BY SameInsertable, Zenon DEF Stream!BufferMessage, Proved!BufferMessage,
        Stream!MarkWaitingGap, Proved!MarkWaitingGap
<1>4. ASSUME NEW d, NEW from PROVE Stream!Resync(d, from) <=> Proved!Resync(d, from)
  BY Zenon DEF Stream!Resync, Proved!Resync, Stream!CanResync, Proved!CanResync
<1>5. Stream!ExpireOverdueGaps <=> Proved!ExpireOverdueGaps
  BY Zenon DEF Stream!ExpireOverdueGaps, Proved!ExpireOverdueGaps,
        Stream!GapExpired, Proved!GapExpired, Stream!Overdue, Proved!Overdue
<1>6. ASSUME NEW d PROVE Stream!LeaveConversation(d) <=> Proved!LeaveConversation(d)
  BY Zenon DEF Stream!LeaveConversation, Proved!LeaveConversation
<1>7. Stream!Tick <=> Proved!Tick
  BY Zenon DEF Stream!Tick, Proved!Tick
<1>8. Stream!Next <=> Proved!Next
  BY <1>2, <1>3, <1>4, <1>5, <1>6, <1>7, Zenon DEF Stream!Next, Proved!Next
<1>9. QED
  BY <1>1, <1>8

(* The send implements the streams that the theorems are about.            *)
LEMMA SendImplementsProvedStream == Spec => Proved!Spec
<1>1. Init => Proved!Init
  BY SameStep DEF Init
<1>2. [Next]_vars => [Proved!Next]_(Proved!vars)
  BY StreamPart, SameStep DEF vars, streamVars, Proved!vars
<1>3. QED
  BY <1>1, <1>2, PTL DEF Spec, Proved!Spec

LEMMA SamePromises ==
    /\ Proved!VisibleOrderGapless <=> Stream!VisibleOrderGapless
    /\ Proved!StreamOrderVisible <=> Stream!StreamOrderVisible
    /\ Proved!PointerAtFreePosition <=> Stream!PointerAtFreePosition
    /\ Proved!WaitingIsAccounted <=> Stream!WaitingIsAccounted
<1> USE DEF Stream!Published, Proved!Published, Stream!ClientSequences, Proved!ClientSequences
<1>1. Proved!VisibleOrderGapless <=> Stream!VisibleOrderGapless
  BY Zenon DEF Proved!VisibleOrderGapless, Stream!VisibleOrderGapless,
        Proved!PublishedServers, Stream!PublishedServers
<1>2. Proved!StreamOrderVisible <=> Stream!StreamOrderVisible
  BY Zenon DEF Proved!StreamOrderVisible, Stream!StreamOrderVisible
<1>3. Proved!PointerAtFreePosition <=> Stream!PointerAtFreePosition
  BY Zenon DEF Proved!PointerAtFreePosition, Stream!PointerAtFreePosition
<1>4. Proved!WaitingIsAccounted <=> Stream!WaitingIsAccounted
  BY Zenon DEF Proved!WaitingIsAccounted, Stream!WaitingIsAccounted,
        Proved!WaitsAhead, Stream!WaitsAhead, Proved!LeftBehind, Stream!LeftBehind,
        Proved!Buffered, Stream!Buffered, Proved!NoDeadline, Stream!NoDeadline
<1>5. QED
  BY <1>1, <1>2, <1>3, <1>4

(* I5 and I6 end to end: under retries, takeovers, lost acknowledgements   *)
(* and crashes of the executions the visible order has no hole and no      *)
(* duplicate, every device's messages stand in its order, no pointer rests *)
(* on a message, and no stream is ok while a message waits ahead of its    *)
(* pointer.                                                                *)
StreamPromises ==
    /\ Stream!VisibleOrderGapless
    /\ Stream!StreamOrderVisible
    /\ Stream!PointerAtFreePosition
    /\ Stream!WaitingIsAccounted

THEOREM StreamPromisesHold == Spec => []StreamPromises
<1>1. Proved!Spec => []Proved!VisibleOrderGapless
  BY ProvedAssumption, Proved!VisibleOrderIsGapless
<1>2. Proved!Spec => []Proved!StreamOrderVisible
  BY ProvedAssumption, Proved!StreamOrderIsVisible
<1>3. Proved!Spec => []Proved!PointerAtFreePosition
  BY ProvedAssumption, Proved!PointerIsFree
<1>4. Proved!Spec => []Proved!WaitingIsAccounted
  BY ProvedAssumption, Proved!WaitingIsAlwaysAccounted
<1>5. QED
  BY <1>1, <1>2, <1>3, <1>4, SendImplementsProvedStream, SamePromises, PTL DEF StreamPromises

(* What readers see while sends are retried, taken over and lost is an     *)
(* append-only log with every device in order.                             *)
THEOREM ReadersSeeOneLog == Spec => Proved!ImplementsConversationLog
<1>1. Proved!Spec => Proved!ImplementsConversationLog
  BY ProvedAssumption, Proved!StreamImplementsLog
<1>2. QED
  BY <1>1, SendImplementsProvedStream, PTL

(* send-message.service.ts:468-523 and 609-674: all answers ever given, to *)
(* any number of clients under any keys, agree on one visible order.       *)
THEOREM AnswersTellOneOrder == Spec => []AnswersAgreeOnOrder
<1>1. ASSUME IInv, AnswersAreDurable, StreamPromises PROVE AnswersAgreeOnOrder
  <2> SUFFICES ASSUME NEW a \in answers, NEW b \in answers,
                      a.response.server # 0, b.response.server # 0
               PROVE  LET x == a.response
                          y == b.response
                      IN  /\ x.server = y.server <=> x.device = y.device /\ x.seq = y.seq
                          /\ x.device = y.device /\ x.seq < y.seq => x.server < y.server
    BY DEF AnswersAgreeOnOrder
  <2> DEFINE x == a.response
             y == b.response
  <2>1. /\ x \in Responses /\ y \in Responses
        /\ messages[x.device][x.seq].server = x.server
        /\ messages[y.device][y.seq].server = y.server
    BY <1>1 DEF IInv, RecordsOK, AnswersAreDurable
  <2>2. /\ x.device \in Devices /\ x.seq \in Stream!ClientSequences
        /\ y.device \in Devices /\ y.seq \in Stream!ClientSequences
    BY <2>1 DEF Responses, Stream!ClientSequences
  <2>3. Stream!Published(x.device, x.seq) /\ Stream!Published(y.device, y.seq)
    BY <1>1, <2>1, <2>2 DEF StreamPromises, Stream!VisibleOrderGapless
  <2> HIDE DEF x, y
  <2>4. x.server = y.server => x.device = y.device /\ x.seq = y.seq
    BY <1>1, <2>1, <2>2, <2>3 DEF StreamPromises, Stream!VisibleOrderGapless
  <2>5. x.device = y.device /\ x.seq = y.seq => x.server = y.server
    BY <2>1
  <2>6. x.device = y.device /\ x.seq < y.seq => x.server < y.server
    BY <1>1, <2>1, <2>2, <2>3 DEF StreamPromises, Stream!StreamOrderVisible
  <2>7. QED
    BY <2>4, <2>5, <2>6 DEF x, y
<1>2. QED
  BY <1>1, SendInvariant, AnswersStayTrue, StreamPromisesHold, PTL
=============================================================================
