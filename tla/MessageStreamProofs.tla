------------------------- MODULE MessageStreamProofs -------------------------
(***************************************************************************)
(* Proofs about MessageStream, for every set of devices, members, commands *)
(* and contents, every bound on the client sequence and every timeout.     *)
(***************************************************************************)
EXTENDS GapDeadline, Sequences, TLAPS

-----------------------------------------------------------------------------
(* Lemmas about the operators *)

(* A drained part of the table is a part of the table.                     *)
LEMMA PublishRunType ==
    ASSUME TypeOK,
           NEW rows \in [ClientSequences -> MessageRow],
           NEW from \in Int, NEW end \in Int
    PROVE  PublishRun(rows, from, end) \in [ClientSequences -> MessageRow]
<1> SUFFICES ASSUME NEW n \in ClientSequences, n \in from..(end - 1)
             PROVE  [content |-> rows[n].content, status |-> "published",
                     server |-> nextServer + (n - from), recipients |-> active] \in MessageRow
  BY DEF PublishRun
<1>1. nextServer + (n - from) \in Nat
  BY MessageStreamAssumption DEF TypeOK, ClientSequences
<1>2. active \in SUBSET Members
  BY DEF TypeOK
<1>3. rows[n].content \in Contents \cup {NoContent}
  BY DEF MessageRow
<1>4. QED
  BY <1>1, <1>2, <1>3 DEF MessageRow

(* The two deadlines a transaction may set.                                *)
LEMMA DeadlineType ==
    GapTimeout \in NoDeadline..GapTimeout /\ NoDeadline \in NoDeadline..GapTimeout
BY MessageStreamAssumption DEF NoDeadline

(* Advancing a stream leaves a row of device_sequences, whether or not     *)
(* something is still buffered.                                            *)
LEMMA AdvanceStreamType ==
    ASSUME NEW row \in StreamRow, NEW next \in 1..(MaxClientSequence + 1),
           NEW stillBuffered
    PROVE  AdvanceStream(row, next, stillBuffered) \in StreamRow
<1>1. row.left \in NoDeadline..GapTimeout
  BY DEF StreamRow
<1>2. QED
  BY <1>1, DeadlineType DEF AdvanceStream, StreamRow, StreamStates

-----------------------------------------------------------------------------
(* Every transaction of the message stream leaves rows of the types the    *)
(* tables declare; in particular the pointer stays within one of the       *)
(* largest client sequence.                                                *)
THEOREM StreamTypeCorrect == Spec => []TypeOK
<1>1. Init => TypeOK
  <2> SUFFICES ASSUME Init PROVE TypeOK
    OBVIOUS
  <2>1. NewStream \in StreamRow
    BY MessageStreamAssumption DEF NewStream, StreamRow, StreamStates, NoDeadline
  <2>2. NoMessage \in MessageRow
    BY DEF NoMessage, MessageRow
  <2>3. QED
    BY <2>1, <2>2 DEF Init, TypeOK
<1>2. TypeOK /\ [Next]_vars => TypeOK'
  <2> SUFFICES ASSUME TypeOK, [Next]_vars PROVE TypeOK'
    OBVIOUS
  <2>1. ASSUME NEW c \in Commands, PublishAndDrain(c)
        PROVE  TypeOK'
    <3> DEFINE d    == c.device
               rows == [messages[d] EXCEPT ![c.seq] =
                          [NoMessage EXCEPT !.content = c.content, !.status = "buffered"]]
    <3>1. d \in Devices /\ c.seq \in ClientSequences /\ c.content \in Contents
      BY MessageStreamAssumption
    <3>2. PICK end \in (c.seq + 1)..(MaxClientSequence + 1) :
            /\ messages' = [messages EXCEPT ![d] = PublishRun(rows, c.seq, end)]
            /\ nextServer' = nextServer + (end - c.seq)
            /\ stream' = [stream EXCEPT ![d] =
                    AdvanceStream(@, end, HasBuffered(PublishRun(rows, c.seq, end)))]
      BY <2>1 DEF PublishAndDrain
    <3>3. [NoMessage EXCEPT !.content = c.content, !.status = "buffered"] \in MessageRow
      BY <3>1 DEF NoMessage, MessageRow
    <3>4. rows \in [ClientSequences -> MessageRow]
      BY <3>1, <3>3 DEF TypeOK
    <3>5. c.seq \in Int /\ end \in Int /\ end \in 1..(MaxClientSequence + 1) /\ end > c.seq
      BY <3>1, <3>2, MessageStreamAssumption DEF ClientSequences
    <3>6. PublishRun(rows, c.seq, end) \in [ClientSequences -> MessageRow]
      BY <3>4, <3>5, PublishRunType
    <3>7. AdvanceStream(stream[d], end, HasBuffered(PublishRun(rows, c.seq, end))) \in StreamRow
      BY <3>1, <3>5, AdvanceStreamType DEF TypeOK
    <3>8. nextServer' \in Nat \ {0}
      BY <3>2, <3>5 DEF TypeOK
    <3>9. QED
      BY <2>1, <3>1, <3>2, <3>6, <3>7, <3>8 DEF PublishAndDrain, TypeOK
  <2>2. ASSUME NEW c \in Commands, BufferMessage(c)
        PROVE  TypeOK'
    <3> DEFINE row == [NoMessage EXCEPT !.content = c.content, !.status = "buffered"]
    <3>1. c.device \in Devices /\ c.seq \in ClientSequences /\ c.content \in Contents
      BY MessageStreamAssumption
    <3>2. row \in MessageRow
      BY <3>1 DEF NoMessage, MessageRow
    <3>3. messages' \in [Devices -> [ClientSequences -> MessageRow]]
      BY <2>2, <3>1, <3>2 DEF BufferMessage, TypeOK
    <3>4. MarkWaitingGap(stream[c.device]) \in StreamRow
      BY <3>1, DeadlineType DEF TypeOK, MarkWaitingGap, StreamRow, StreamStates
    <3>5. QED
      BY <2>2, <3>1, <3>3, <3>4 DEF BufferMessage, TypeOK
  <2>3. ASSUME NEW d \in Devices, NEW from \in ClientSequences, Resync(d, from)
        PROVE  TypeOK'
    <3> DEFINE reset == [next |-> from, state |-> "ok", left |-> NoDeadline]
    <3>1. PICK end \in from..(MaxClientSequence + 1) :
            /\ messages' = [messages EXCEPT ![d] = PublishRun(messages[d], from, end)]
            /\ nextServer' = nextServer + (end - from)
            /\ stream' = [stream EXCEPT ![d] =
                    AdvanceStream(reset, end, HasBuffered(PublishRun(messages[d], from, end)))]
      BY <2>3 DEF Resync
    <3>2. /\ from \in Int /\ end \in Int /\ end >= from
          /\ from \in 1..(MaxClientSequence + 1) /\ end \in 1..(MaxClientSequence + 1)
      BY <3>1, MessageStreamAssumption DEF ClientSequences
    <3>3. PublishRun(messages[d], from, end) \in [ClientSequences -> MessageRow]
      BY <3>2, PublishRunType DEF TypeOK
    <3>4. reset \in StreamRow
      BY <3>2, MessageStreamAssumption DEF StreamRow, StreamStates, NoDeadline
    <3>5. AdvanceStream(reset, end, HasBuffered(PublishRun(messages[d], from, end))) \in StreamRow
      BY <3>2, <3>4, AdvanceStreamType
    <3>6. nextServer' \in Nat \ {0}
      BY <3>1, <3>2 DEF TypeOK
    <3>7. QED
      BY <2>3, <3>1, <3>3, <3>5, <3>6 DEF Resync, TypeOK
  <2>4. CASE ExpireOverdueGaps
    <3>1. \A d \in Devices :
            [stream[d] EXCEPT !.state = "resync_required", !.left = NoDeadline] \in StreamRow
      BY DeadlineType DEF TypeOK, StreamRow, StreamStates
    <3>2. QED
      BY <2>4, <3>1 DEF ExpireOverdueGaps, TypeOK
  <2>5. ASSUME NEW d \in Devices, LeaveConversation(d)
        PROVE  TypeOK'
    BY <2>5 DEF LeaveConversation, TypeOK
  <2>6. CASE Tick
    <3>1. ASSUME NEW d \in Devices, stream[d].left >= 0
          PROVE  [stream[d] EXCEPT !.left = @ - 1] \in StreamRow
      BY <3>1, MessageStreamAssumption DEF TypeOK, StreamRow, NoDeadline
    <3>2. QED
      BY <2>6, <3>1 DEF Tick, TypeOK
  <2>7. CASE UNCHANGED vars
    BY <2>7 DEF vars, TypeOK
  <2>8. QED
    BY <2>1, <2>2, <2>3, <2>4, <2>5, <2>6, <2>7 DEF Next
<1>3. QED
  BY <1>1, <1>2, PTL DEF Spec

-----------------------------------------------------------------------------
(* The inductive invariant: what the visible order needs of the pointer,   *)
(* the counter and the recipients.  None of its parts is inductive alone:  *)
(* a run keeps the order because the pointer is above everything visible,  *)
(* and the pointer stays there because the run ends where the cascade did. *)

IInv ==
    /\ TypeOK
    /\ VisibleOrderGapless
    /\ StreamOrderVisible
    /\ PointerAtFreePosition
    /\ DeliveredIffVisible

(* What publishAndDrain and resync have in common: a run of d's positions, *)
(* starting at or above the pointer, becomes visible and the pointer moves *)
(* to its end.                                                             *)
Publishes(d, rows, from, end) ==
    /\ rows \in [ClientSequences -> MessageRow]
    /\ from \in ClientSequences
    /\ end \in from..(MaxClientSequence + 1)
    /\ from >= stream[d].next
    /\ end > from => active # {}
    /\ ~BufferedAt(rows, end)
    /\ \A n \in ClientSequences : n \notin from..(end - 1) => rows[n] = messages[d][n]
    /\ messages' = [messages EXCEPT ![d] = PublishRun(rows, from, end)]
    /\ nextServer' = nextServer + (end - from)
    /\ stream'[d].next = end
    /\ \A e \in Devices \ {d} : stream'[e] = stream[e]

LEMMA PublishAndDrainPublishes ==
    ASSUME TypeOK, NEW c \in Commands, PublishAndDrain(c)
    PROVE  \E rows, end : Publishes(c.device, rows, c.seq, end)
<1> DEFINE d    == c.device
           row  == [NoMessage EXCEPT !.content = c.content, !.status = "buffered"]
           rows == [messages[d] EXCEPT ![c.seq] = row]
<1>1. d \in Devices /\ c.seq \in ClientSequences /\ c.content \in Contents
  BY MessageStreamAssumption
<1>2. PICK end \in (c.seq + 1)..(MaxClientSequence + 1) :
        /\ CascadeEnds(rows, c.seq, end)
        /\ messages' = [messages EXCEPT ![d] = PublishRun(rows, c.seq, end)]
        /\ nextServer' = nextServer + (end - c.seq)
        /\ stream' = [stream EXCEPT ![d] =
                AdvanceStream(@, end, HasBuffered(PublishRun(rows, c.seq, end)))]
  BY DEF PublishAndDrain
<1>3. row \in MessageRow
  BY <1>1 DEF NoMessage, MessageRow
<1>4. rows \in [ClientSequences -> MessageRow]
  BY <1>1, <1>3 DEF TypeOK
<1>5. /\ c.seq \in Int /\ end \in Int /\ end > c.seq
      /\ end \in c.seq..(MaxClientSequence + 1)
      /\ stream[d].next = c.seq
  BY <1>1, <1>2, MessageStreamAssumption DEF ClientSequences, PublishAndDrain
<1>6. \A n \in ClientSequences : n \notin c.seq..(end - 1) => rows[n] = messages[d][n]
  BY <1>1, <1>5 DEF TypeOK, ClientSequences
<1>7. stream'[d].next = end /\ \A e \in Devices \ {d} : stream'[e] = stream[e]
  BY <1>1, <1>2 DEF TypeOK, AdvanceStream
<1>8. active # {} /\ ~BufferedAt(rows, end)
  BY <1>2 DEF PublishAndDrain, CascadeEnds
<1>9. Publishes(d, rows, c.seq, end)
  BY <1>1, <1>2, <1>4, <1>5, <1>6, <1>7, <1>8 DEF Publishes
<1>10. QED
  BY <1>9

LEMMA ResyncPublishes ==
    ASSUME TypeOK, NEW d \in Devices, NEW from \in ClientSequences, Resync(d, from)
    PROVE  \E rows, end : Publishes(d, rows, from, end)
<1> DEFINE reset == [next |-> from, state |-> "ok", left |-> NoDeadline]
<1>1. PICK end \in from..(MaxClientSequence + 1) :
        /\ CascadeEnds(messages[d], from, end)
        /\ end > from => active # {}
        /\ messages' = [messages EXCEPT ![d] = PublishRun(messages[d], from, end)]
        /\ nextServer' = nextServer + (end - from)
        /\ stream' = [stream EXCEPT ![d] =
                AdvanceStream(reset, end, HasBuffered(PublishRun(messages[d], from, end)))]
  BY DEF Resync
<1>2. messages[d] \in [ClientSequences -> MessageRow]
  BY DEF TypeOK
<1>3. stream'[d].next = end /\ \A e \in Devices \ {d} : stream'[e] = stream[e]
  BY <1>1 DEF TypeOK, AdvanceStream
<1>4. from >= stream[d].next
  BY DEF Resync, CanResync
<1>5. ~BufferedAt(messages[d], end)
  BY <1>1 DEF CascadeEnds
<1>6. Publishes(d, messages[d], from, end)
  BY <1>1, <1>2, <1>3, <1>4, <1>5 DEF Publishes
<1>7. QED
  BY <1>6

(* What a run does to each row of messages: it was not visible before, and *)
(* everything outside the run is as it was.                                *)
LEMMA RunEffect ==
    ASSUME IInv, NEW d \in Devices, NEW rows, NEW from, NEW end,
           Publishes(d, rows, from, end)
    PROVE  /\ \A n \in ClientSequences : n \in from..(end - 1) =>
                /\ ~Published(d, n)
                /\ messages'[d][n].status = "published"
                /\ messages'[d][n].server = nextServer + (n - from)
                /\ messages'[d][n].recipients = active
           /\ \A n \in ClientSequences :
                n \notin from..(end - 1) => messages'[d][n] = messages[d][n]
           /\ \A e \in Devices \ {d} : messages'[e] = messages[e]
<1>1. messages'[d] = PublishRun(rows, from, end)
  BY DEF Publishes, IInv, TypeOK
<1>2. \A e \in Devices \ {d} : messages'[e] = messages[e]
  BY DEF Publishes, IInv, TypeOK
<1>3. ASSUME NEW n \in ClientSequences, n \in from..(end - 1)
      PROVE  /\ ~Published(d, n)
             /\ messages'[d][n].status = "published"
             /\ messages'[d][n].server = nextServer + (n - from)
             /\ messages'[d][n].recipients = active
  <2>1. stream[d].next \in Int /\ from \in Int /\ n \in Int
    BY MessageStreamAssumption DEF IInv, TypeOK, StreamRow, Publishes, ClientSequences
  <2>2. ~(n < stream[d].next)
    BY <1>3, <2>1 DEF Publishes
  <2>3. ~Published(d, n)
    BY <2>2 DEF IInv, PointerAtFreePosition
  <2>4. QED
    BY <1>1, <1>3, <2>3 DEF PublishRun
<1>4. ASSUME NEW n \in ClientSequences, n \notin from..(end - 1)
      PROVE  messages'[d][n] = messages[d][n]
  BY <1>1, <1>4 DEF PublishRun, Publishes
<1>5. QED
  BY <1>2, <1>3, <1>4

(* The parts of the invariant, row by row.                                 *)
NumberedIffVisible ==
    \A d \in Devices, n \in ClientSequences :
        /\ Published(d, n) => messages[d][n].server \in 1..(nextServer - 1)
        /\ ~Published(d, n) => messages[d][n].server = 0

EveryServerUsed ==
    \A s \in 1..(nextServer - 1) : \E d \in Devices, n \in ClientSequences :
        Published(d, n) /\ messages[d][n].server = s

ServersUnique ==
    \A d1, d2 \in Devices : \A n1, n2 \in ClientSequences :
        /\ Published(d1, n1)
        /\ Published(d2, n2)
        /\ messages[d1][n1].server = messages[d2][n2].server
        => d1 = d2 /\ n1 = n2

LEMMA GaplessParts ==
    VisibleOrderGapless <=> NumberedIffVisible /\ EveryServerUsed /\ ServersUnique
<1>1. PublishedServers = 1..(nextServer - 1) <=> EveryServerUsed
  BY DEF PublishedServers, EveryServerUsed
<1>2. QED
  BY <1>1 DEF VisibleOrderGapless, NumberedIffVisible, ServersUnique

LEMMA GaplessPartsNext ==
    VisibleOrderGapless' <=> NumberedIffVisible' /\ EveryServerUsed' /\ ServersUnique'
<1>1. PublishedServers' = 1..(nextServer' - 1) <=> EveryServerUsed'
  BY DEF PublishedServers, EveryServerUsed
<1>2. QED
  BY <1>1 DEF VisibleOrderGapless, NumberedIffVisible, ServersUnique

(* A run keeps the invariant.                                              *)
LEMMA PublishKeepsIInv ==
    ASSUME IInv, TypeOK', NEW d \in Devices, NEW rows, NEW from, NEW end,
           Publishes(d, rows, from, end)
    PROVE  IInv'
<1>1. /\ \A n \in ClientSequences : n \in from..(end - 1) =>
            /\ ~Published(d, n)
            /\ messages'[d][n].status = "published"
            /\ messages'[d][n].server = nextServer + (n - from)
            /\ messages'[d][n].recipients = active
      /\ \A n \in ClientSequences :
            n \notin from..(end - 1) => messages'[d][n] = messages[d][n]
      /\ \A e \in Devices \ {d} : messages'[e] = messages[e]
  BY RunEffect
<1>2. /\ from \in Int /\ from >= 1 /\ end \in Int /\ end >= from
      /\ end <= MaxClientSequence + 1
      /\ nextServer \in Int /\ nextServer >= 1
      /\ nextServer' = nextServer + (end - from)
      /\ MaxClientSequence \in Int
      /\ \A n \in ClientSequences : n \in Int
      /\ \A e \in Devices : stream[e].next \in Int
      /\ stream[d].next <= from
  BY MessageStreamAssumption DEF Publishes, ClientSequences, IInv, TypeOK, StreamRow
<1>3. \A e \in Devices, n \in ClientSequences :
        Published(e, n)' <=> (Published(e, n) \/ (e = d /\ n \in from..(end - 1)))
  BY <1>1 DEF Published
<1>4. ASSUME NEW e \in Devices, NEW n \in ClientSequences, Published(e, n)
      PROVE  /\ messages'[e][n] = messages[e][n]
             /\ messages[e][n].server \in Int
             /\ messages[e][n].server < nextServer
             /\ messages[e][n].server >= 1
             /\ n < stream[e].next
  <2>1. messages'[e][n] = messages[e][n]
    BY <1>1, <1>4
  <2>2. messages[e][n].server \in 1..(nextServer - 1)
    BY <1>4 DEF IInv, VisibleOrderGapless
  <2>3. n < stream[e].next
    BY <1>4 DEF IInv, PointerAtFreePosition
  <2>4. QED
    BY <1>2, <2>1, <2>2, <2>3
<1>5. NumberedIffVisible'
  <2> SUFFICES ASSUME NEW e \in Devices, NEW n \in ClientSequences
               PROVE  /\ Published(e, n)' => messages'[e][n].server \in 1..(nextServer' - 1)
                      /\ ~Published(e, n)' => messages'[e][n].server = 0
    BY DEF NumberedIffVisible
  <2>1. CASE Published(e, n)
    BY <1>2, <1>3, <1>4, <2>1
  <2>2. CASE e = d /\ n \in from..(end - 1)
    BY <1>1, <1>2, <1>3, <2>2
  <2>3. CASE ~Published(e, n) /\ ~(e = d /\ n \in from..(end - 1))
    <3>1. ~Published(e, n)' /\ messages'[e][n] = messages[e][n]
      BY <1>1, <1>3, <2>3
    <3>2. messages[e][n].server = 0
      BY <2>3 DEF IInv, VisibleOrderGapless
    <3>3. QED
      BY <3>1, <3>2
  <2>4. QED
    BY <2>1, <2>2, <2>3
<1>6. EveryServerUsed'
  <2> SUFFICES ASSUME NEW s \in 1..(nextServer' - 1)
               PROVE  \E e \in Devices, n \in ClientSequences :
                        Published(e, n)' /\ messages'[e][n].server = s
    BY DEF EveryServerUsed
  <2>1. CASE s < nextServer
    <3>1. PICK e \in Devices, n \in ClientSequences :
            Published(e, n) /\ messages[e][n].server = s
      BY <1>2, <2>1, GaplessParts DEF IInv, EveryServerUsed
    <3>2. QED
      BY <1>3, <1>4, <3>1
  <2>2. CASE s >= nextServer
    <3> DEFINE n == from + (s - nextServer)
    <3>1. n \in from..(end - 1) /\ n \in ClientSequences
      BY <1>2, <2>2 DEF ClientSequences
    <3>2. messages'[d][n].server = s
      BY <1>1, <1>2, <3>1
    <3>3. QED
      BY <1>3, <3>1, <3>2
  <2>3. QED
    BY <1>2, <2>1, <2>2
<1>7. ServersUnique'
  <2> SUFFICES ASSUME NEW e1 \in Devices, NEW e2 \in Devices,
                      NEW n1 \in ClientSequences, NEW n2 \in ClientSequences,
                      Published(e1, n1)', Published(e2, n2)',
                      messages'[e1][n1].server = messages'[e2][n2].server
               PROVE  e1 = e2 /\ n1 = n2
    BY DEF ServersUnique
  <2>1. CASE Published(e1, n1) /\ Published(e2, n2)
    <3>1. messages[e1][n1].server = messages[e2][n2].server
      BY <1>4, <2>1
    <3>2. QED
      BY <2>1, <3>1, GaplessParts DEF IInv, ServersUnique
  <2>2. CASE ~Published(e1, n1) /\ Published(e2, n2)
    <3>1. e1 = d /\ n1 \in from..(end - 1)
      BY <1>3, <2>2
    <3>2. messages'[e1][n1].server >= nextServer
      BY <1>1, <1>2, <3>1
    <3>3. messages'[e2][n2].server < nextServer /\ messages'[e2][n2].server \in Int
      BY <1>4, <2>2
    <3>4. QED
      BY <1>2, <3>2, <3>3
  <2>3. CASE Published(e1, n1) /\ ~Published(e2, n2)
    <3>1. e2 = d /\ n2 \in from..(end - 1)
      BY <1>3, <2>3
    <3>2. messages'[e2][n2].server >= nextServer
      BY <1>1, <1>2, <3>1
    <3>3. messages'[e1][n1].server < nextServer /\ messages'[e1][n1].server \in Int
      BY <1>4, <2>3
    <3>4. QED
      BY <1>2, <3>2, <3>3
  <2>4. CASE ~Published(e1, n1) /\ ~Published(e2, n2)
    <3>1. e1 = d /\ e2 = d /\ n1 \in from..(end - 1) /\ n2 \in from..(end - 1)
      BY <1>3, <2>4
    <3>2. QED
      BY <1>1, <1>2, <3>1
  <2>5. QED
    BY <2>1, <2>2, <2>3, <2>4
<1>8. StreamOrderVisible'
  <2> SUFFICES ASSUME NEW e \in Devices, NEW m \in ClientSequences, NEW n \in ClientSequences,
                      Published(e, m)', Published(e, n)', m < n
               PROVE  messages'[e][m].server < messages'[e][n].server
    BY DEF StreamOrderVisible
  <2>1. CASE Published(e, m) /\ Published(e, n)
    <3>1. messages[e][m].server < messages[e][n].server
      BY <2>1 DEF IInv, StreamOrderVisible
    <3>2. QED
      BY <1>4, <2>1, <3>1
  <2>2. CASE Published(e, m) /\ ~Published(e, n)
    <3>1. e = d /\ n \in from..(end - 1)
      BY <1>3, <2>2
    <3>2. messages'[e][n].server >= nextServer /\ messages'[e][n].server \in Int
      BY <1>1, <1>2, <3>1
    <3>3. messages'[e][m].server < nextServer /\ messages'[e][m].server \in Int
      BY <1>4, <2>2
    <3>4. QED
      BY <1>2, <3>2, <3>3
  <2>3. CASE ~Published(e, m)
    <3>1. e = d /\ m \in from..(end - 1)
      BY <1>3, <2>3
    <3>2. ~Published(e, n)
      <4>1. m >= stream[d].next
        BY <1>2, <3>1
      <4>2. n >= stream[d].next
        BY <1>2, <4>1
      <4>3. QED
        BY <1>2, <1>4, <3>1, <4>2
    <3>3. n \in from..(end - 1)
      BY <1>3, <3>1, <3>2
    <3>4. QED
      BY <1>1, <1>2, <3>1, <3>3
  <2>4. QED
    BY <2>1, <2>2, <2>3
<1>9. PointerAtFreePosition'
  <2> SUFFICES ASSUME NEW e \in Devices, NEW n \in ClientSequences
               PROVE  /\ Published(e, n)' => n < stream'[e].next
                      /\ n = stream'[e].next => messages'[e][n].status = "none"
    BY DEF PointerAtFreePosition
  <2>1. CASE e # d
    <3>1. messages'[e] = messages[e] /\ stream'[e] = stream[e]
      BY <1>1, <2>1 DEF Publishes
    <3>2. QED
      BY <3>1 DEF IInv, PointerAtFreePosition, Published
  <2>2. CASE e = d
    <3>1. stream'[e].next = end
      BY <2>2 DEF Publishes
    <3>2. Published(e, n)' => n < end
      <4>1. CASE Published(e, n)
        BY <1>2, <1>4, <2>2, <4>1
      <4>2. CASE n \in from..(end - 1)
        BY <1>2, <4>2
      <4>3. QED
        BY <1>3, <4>1, <4>2
    <3>3. ASSUME n = end PROVE messages'[e][n].status = "none"
      <4>1. n \notin from..(end - 1)
        BY <1>2, <3>3
      <4>2. messages'[e][n] = messages[e][n] /\ rows[n] = messages[e][n]
        BY <1>1, <2>2, <4>1 DEF Publishes
      <4>3. messages[e][n].status # "buffered"
        BY <3>3, <4>2 DEF Publishes, BufferedAt
      <4>4. messages[e][n].status # "published"
        <5>1. ~(n < stream[e].next)
          BY <1>2, <2>2, <3>3
        <5>2. QED
          BY <1>4, <5>1 DEF Published
      <4>5. messages[e][n].status \in {"none", "buffered", "published"}
        BY DEF IInv, TypeOK, MessageRow
      <4>6. QED
        BY <4>2, <4>3, <4>4, <4>5
    <3>4. QED
      BY <3>1, <3>2, <3>3
  <2>3. QED
    BY <2>1, <2>2
<1>10. DeliveredIffVisible'
  <2> SUFFICES ASSUME NEW e \in Devices, NEW n \in ClientSequences
               PROVE  Published(e, n)' <=> messages'[e][n].recipients # {}
    BY DEF DeliveredIffVisible
  <2>1. CASE e = d /\ n \in from..(end - 1)
    <3>1. active # {}
      BY <1>2, <2>1 DEF Publishes
    <3>2. QED
      BY <1>1, <1>3, <2>1, <3>1
  <2>2. CASE ~(e = d /\ n \in from..(end - 1))
    <3>1. messages'[e][n] = messages[e][n]
      BY <1>1, <2>2
    <3>2. QED
      BY <3>1 DEF IInv, DeliveredIffVisible, Published
  <2>3. QED
    BY <2>1, <2>2
<1>11. QED
  BY <1>5, <1>6, <1>7, <1>8, <1>9, <1>10, GaplessPartsNext DEF IInv

(* Buffering touches one free position, above the pointer.                 *)
LEMMA BufferKeepsIInv ==
    ASSUME IInv, TypeOK', NEW c \in Commands, BufferMessage(c)
    PROVE  IInv'
<1> DEFINE d == c.device
           row == [NoMessage EXCEPT !.content = c.content, !.status = "buffered"]
<1>1. d \in Devices /\ c.seq \in ClientSequences
  BY MessageStreamAssumption
<1>2. ~Published(d, c.seq)
  BY <1>1 DEF BufferMessage, Insertable, ReadsExisting, PositionTaken, Published
<1>3. messages' = [messages EXCEPT ![d][c.seq] = row]
  BY DEF BufferMessage
<1>4. /\ messages'[d][c.seq].status = "buffered"
      /\ messages'[d][c.seq].server = 0
      /\ messages'[d][c.seq].recipients = {}
  BY <1>1, <1>3 DEF IInv, TypeOK, NoMessage
<1>5. \A e \in Devices, n \in ClientSequences :
        ~(e = d /\ n = c.seq) => messages'[e][n] = messages[e][n]
  BY <1>1, <1>3 DEF IInv, TypeOK
<1>6. nextServer' = nextServer
  BY DEF BufferMessage
<1>7. \A e \in Devices : stream'[e].next = stream[e].next
  BY <1>1 DEF BufferMessage, MarkWaitingGap, IInv, TypeOK, StreamRow
<1>8. c.seq # stream[d].next
  BY <1>1, MessageStreamAssumption
  DEF BufferMessage, IInv, TypeOK, StreamRow, ClientSequences
<1>9. \A e \in Devices, n \in ClientSequences :
        /\ Published(e, n)' <=> Published(e, n)
        /\ messages'[e][n].server = messages[e][n].server
        /\ messages'[e][n].recipients = messages[e][n].recipients
  <2>1. messages[d][c.seq].server = 0 /\ messages[d][c.seq].recipients = {}
    BY <1>1, <1>2 DEF IInv, VisibleOrderGapless, DeliveredIffVisible
  <2>2. QED
    BY <1>2, <1>4, <1>5, <2>1 DEF Published
<1>10. NumberedIffVisible' /\ EveryServerUsed' /\ ServersUnique'
  BY <1>6, <1>9, GaplessParts DEF IInv, NumberedIffVisible, EveryServerUsed, ServersUnique
<1>11. StreamOrderVisible'
  BY <1>9 DEF IInv, StreamOrderVisible
<1>12. PointerAtFreePosition'
  BY <1>5, <1>7, <1>8, <1>9 DEF IInv, PointerAtFreePosition
<1>13. DeliveredIffVisible'
  BY <1>9 DEF IInv, DeliveredIffVisible
<1>14. QED
  BY <1>10, <1>11, <1>12, <1>13, GaplessPartsNext DEF IInv

(* The steps that leave messages, the counter and the pointers alone.      *)
LEMMA QuietKeepsIInv ==
    ASSUME IInv, TypeOK', UNCHANGED <<messages, nextServer>>,
           \A e \in Devices : stream'[e].next = stream[e].next
    PROVE  IInv'
<1>1. \A e \in Devices, n \in ClientSequences : Published(e, n)' <=> Published(e, n)
  BY DEF Published
<1>2. NumberedIffVisible' /\ EveryServerUsed' /\ ServersUnique'
  BY <1>1, GaplessParts DEF IInv, NumberedIffVisible, EveryServerUsed, ServersUnique
<1>3. StreamOrderVisible' /\ PointerAtFreePosition' /\ DeliveredIffVisible'
  BY <1>1 DEF IInv, StreamOrderVisible, PointerAtFreePosition, DeliveredIffVisible
<1>4. QED
  BY <1>2, <1>3, GaplessPartsNext DEF IInv

(* Each step but those that publish or buffer is such a step.              *)
LEMMA QuietSteps ==
    ASSUME TypeOK,
           \/ ExpireOverdueGaps
           \/ \E d \in Devices : LeaveConversation(d)
           \/ Tick
           \/ UNCHANGED vars
    PROVE  /\ UNCHANGED <<messages, nextServer>>
           /\ \A e \in Devices : stream'[e].next = stream[e].next
<1>1. CASE ExpireOverdueGaps
  BY <1>1 DEF ExpireOverdueGaps, TypeOK, StreamRow
<1>2. CASE \E d \in Devices : LeaveConversation(d)
  BY <1>2 DEF LeaveConversation
<1>3. CASE Tick
  BY <1>3 DEF Tick, TypeOK, StreamRow
<1>4. CASE UNCHANGED vars
  BY <1>4 DEF vars
<1>5. QED
  BY <1>1, <1>2, <1>3, <1>4

LEMMA IInvInitially == Init => IInv
<1> SUFFICES ASSUME Init PROVE IInv
  OBVIOUS
<1>1. TypeOK
  <2>1. NewStream \in StreamRow
    BY MessageStreamAssumption DEF NewStream, StreamRow, StreamStates, NoDeadline
  <2>2. NoMessage \in MessageRow
    BY DEF NoMessage, MessageRow
  <2>3. QED
    BY <2>1, <2>2 DEF Init, TypeOK
<1>2. \A d \in Devices, n \in ClientSequences :
        /\ ~Published(d, n)
        /\ messages[d][n].status = "none"
        /\ messages[d][n].server = 0
        /\ messages[d][n].recipients = {}
  BY DEF Init, NoMessage, Published
<1>3. NumberedIffVisible /\ EveryServerUsed /\ ServersUnique
  BY <1>2 DEF Init, NumberedIffVisible, EveryServerUsed, ServersUnique
<1>4. StreamOrderVisible /\ PointerAtFreePosition /\ DeliveredIffVisible
  BY <1>2 DEF StreamOrderVisible, PointerAtFreePosition, DeliveredIffVisible
<1>5. QED
  BY <1>1, <1>3, <1>4, GaplessParts DEF IInv

-----------------------------------------------------------------------------
(* The inductive invariant holds in every reachable state.                 *)
THEOREM StreamInvariant == Spec => []IInv
<1>1. IInv /\ TypeOK' /\ [Next]_vars => IInv'
  <2> SUFFICES ASSUME IInv, TypeOK', [Next]_vars PROVE IInv'
    OBVIOUS
  <2>0. TypeOK
    BY DEF IInv
  <2>1. ASSUME NEW c \in Commands, PublishAndDrain(c) PROVE IInv'
    BY <2>0, <2>1, PublishAndDrainPublishes, PublishKeepsIInv, MessageStreamAssumption
  <2>2. ASSUME NEW c \in Commands, BufferMessage(c) PROVE IInv'
    BY <2>2, BufferKeepsIInv
  <2>3. ASSUME NEW d \in Devices, NEW from \in ClientSequences, Resync(d, from) PROVE IInv'
    BY <2>0, <2>3, ResyncPublishes, PublishKeepsIInv
  <2>4. ASSUME \/ ExpireOverdueGaps
               \/ \E d \in Devices : LeaveConversation(d)
               \/ Tick
               \/ UNCHANGED vars
        PROVE  IInv'
    BY <2>0, <2>4, QuietSteps, QuietKeepsIInv
  <2>5. QED
    BY <2>1, <2>2, <2>3, <2>4 DEF Next
<1>2. QED
  BY <1>1, IInvInitially, StreamTypeCorrect, PTL DEF Spec

(* I5: in every reachable state the visible messages are numbered          *)
(* 1..nextServer-1 without hole or duplicate, by whichever path they       *)
(* became visible.                                                         *)
THEOREM VisibleOrderIsGapless == Spec => []VisibleOrderGapless
<1>1. IInv => VisibleOrderGapless
  BY DEF IInv
<1>2. QED
  BY <1>1, StreamInvariant, PTL

(* I6: the messages of a device are visible in the order of their client   *)
(* sequence.                                                               *)
THEOREM StreamOrderIsVisible == Spec => []StreamOrderVisible
<1>1. IInv => StreamOrderVisible
  BY DEF IInv
<1>2. QED
  BY <1>1, StreamInvariant, PTL

(* The pointer of a stream is above everything visible and never rests on  *)
(* a message: no cascade stops early.                                      *)
THEOREM PointerIsFree == Spec => []PointerAtFreePosition
<1>1. IInv => PointerAtFreePosition
  BY DEF IInv
<1>2. QED
  BY <1>1, StreamInvariant, PTL

(* A message has recipients exactly when it is visible.                    *)
THEOREM DeliveredExactlyVisible == Spec => []DeliveredIffVisible
<1>1. IInv => DeliveredIffVisible
  BY DEF IInv
<1>2. QED
  BY <1>1, StreamInvariant, PTL

-----------------------------------------------------------------------------
(* What steps may never do *)

(* A visible message is never touched again, by no send, cascade, resync,  *)
(* expiry or departure.                                                    *)
THEOREM PublishedStaysFinal == Spec => PublishedIsFinal
<1>1. IInv /\ [Next]_vars =>
        [\A d \in Devices, n \in ClientSequences :
            Published(d, n) => messages'[d][n] = messages[d][n]]_vars
  <2> SUFFICES ASSUME IInv, Next, NEW e \in Devices, NEW n \in ClientSequences,
                      Published(e, n)
               PROVE  messages'[e][n] = messages[e][n]
    OBVIOUS
  <2>0. TypeOK
    BY DEF IInv
  <2>1. ASSUME NEW d \in Devices, NEW rows, NEW from, NEW end, Publishes(d, rows, from, end)
        PROVE  messages'[e][n] = messages[e][n]
    BY <2>1, RunEffect
  <2>2. ASSUME NEW c \in Commands, PublishAndDrain(c) PROVE messages'[e][n] = messages[e][n]
    BY <2>0, <2>1, <2>2, PublishAndDrainPublishes, MessageStreamAssumption
  <2>3. ASSUME NEW c \in Commands, BufferMessage(c) PROVE messages'[e][n] = messages[e][n]
    BY <2>0, <2>3, MessageStreamAssumption
    DEF BufferMessage, Insertable, ReadsExisting, PositionTaken, Published, TypeOK
  <2>4. ASSUME NEW d \in Devices, NEW from \in ClientSequences, Resync(d, from)
        PROVE  messages'[e][n] = messages[e][n]
    BY <2>0, <2>1, <2>4, ResyncPublishes
  <2>5. ASSUME \/ ExpireOverdueGaps
               \/ \E d \in Devices : LeaveConversation(d)
               \/ Tick
        PROVE  messages'[e][n] = messages[e][n]
    BY <2>0, <2>5, QuietSteps
  <2>6. QED
    BY <2>2, <2>3, <2>4, <2>5 DEF Next
<1>2. QED
  BY <1>1, StreamInvariant, PTL DEF Spec, PublishedIsFinal

(* Order over availability: a step that moves a pointer past a position    *)
(* which is not visible then is a resync.                                  *)
THEOREM SkipsAreResyncs == Spec => OnlyResyncSkips
<1>1. IInv /\ [Next]_vars =>
        [\A d \in Devices :
            (\E n \in ClientSequences :
                n \in stream[d].next..(stream'[d].next - 1) /\ ~Published(d, n)')
            => \E from \in ClientSequences : Resync(d, from)]_vars
  <2> SUFFICES ASSUME IInv, Next, NEW e \in Devices, NEW n \in ClientSequences,
                      n \in stream[e].next..(stream'[e].next - 1), ~Published(e, n)'
               PROVE  \E from \in ClientSequences : Resync(e, from)
    OBVIOUS
  <2>0. TypeOK
    BY DEF IInv
  <2>1. stream[e].next \in Int /\ stream'[e].next # stream[e].next
    <3>1. stream[e].next \in Int
      BY <2>0, MessageStreamAssumption DEF TypeOK, StreamRow
    <3>2. QED
      BY <3>1
  <2>2. ASSUME NEW c \in Commands, PublishAndDrain(c) PROVE FALSE
    <3>1. PICK rows, end : Publishes(c.device, rows, c.seq, end)
      BY <2>0, <2>2, PublishAndDrainPublishes
    <3>2. c.device \in Devices /\ c.seq = stream[c.device].next
      BY <2>2, MessageStreamAssumption DEF PublishAndDrain
    <3>3. e = c.device
      BY <2>1, <3>1 DEF Publishes
    <3>4. n \in c.seq..(end - 1)
      BY <3>1, <3>2, <3>3 DEF Publishes
    <3>5. Published(e, n)'
      BY <3>1, <3>2, <3>3, <3>4, RunEffect DEF Published
    <3>6. QED
      BY <3>5
  <2>3. ASSUME NEW c \in Commands, BufferMessage(c) PROVE FALSE
    BY <2>0, <2>1, <2>3, MessageStreamAssumption
    DEF BufferMessage, MarkWaitingGap, TypeOK, StreamRow
  <2>4. ASSUME NEW d \in Devices, NEW from \in ClientSequences, Resync(d, from)
        PROVE  d = e
    BY <2>0, <2>1, <2>4, ResyncPublishes DEF Publishes
  <2>5. ASSUME \/ ExpireOverdueGaps
               \/ \E d \in Devices : LeaveConversation(d)
               \/ Tick
        PROVE  FALSE
    BY <2>0, <2>1, <2>5, QuietSteps
  <2>6. QED
    BY <2>2, <2>3, <2>4, <2>5 DEF Next
<1>2. QED
  BY <1>1, StreamInvariant, PTL DEF Spec, OnlyResyncSkips

-----------------------------------------------------------------------------
(* A buffered message always has a stream that says so.                    *)

(* AdvanceStream and MarkWaitingGap write state and deadline together.     *)
Accounted(rows, row) ==
    /\ HasBuffered(rows) <=> row.state # "ok"
    /\ (row.state = "waiting_gap") = (row.left # NoDeadline)

LEMMA AdvanceStreamAccounts ==
    ASSUME NEW rows, NEW row, NEW next
    PROVE  Accounted(rows, AdvanceStream(row, next, HasBuffered(rows)))
<1>1. GapTimeout # NoDeadline
  BY MessageStreamAssumption DEF NoDeadline
<1>2. QED
  BY <1>1 DEF AdvanceStream, Accounted

(* A stream is not ok exactly while it has a buffered message, ahead of    *)
(* its pointer or below it.                                                *)
AllAccounted == \A d \in Devices : Accounted(messages[d], stream[d])

LEMMA StreamsAccount == Spec => []AllAccounted
<1>1. Init => AllAccounted
  BY DEF Init, AllAccounted, Accounted, HasBuffered, NewStream, NoMessage
<1>2. TypeOK /\ AllAccounted /\ [Next]_vars => AllAccounted'
  <2> SUFFICES ASSUME TypeOK, AllAccounted, [Next]_vars, NEW e \in Devices
               PROVE  Accounted(messages'[e], stream'[e])
    BY DEF AllAccounted, Accounted, HasBuffered
  <2>0. Accounted(messages[e], stream[e]) /\ stream[e] \in StreamRow
    BY DEF AllAccounted, TypeOK
  <2>1. ASSUME NEW c \in Commands, PublishAndDrain(c)
        PROVE  Accounted(messages'[e], stream'[e])
    <3> DEFINE d    == c.device
               rows == [messages[d] EXCEPT ![c.seq] =
                          [NoMessage EXCEPT !.content = c.content, !.status = "buffered"]]
    <3>1. d \in Devices
      BY MessageStreamAssumption
    <3>2. PICK end \in (c.seq + 1)..(MaxClientSequence + 1) :
            /\ messages' = [messages EXCEPT ![d] = PublishRun(rows, c.seq, end)]
            /\ stream' = [stream EXCEPT ![d] =
                    AdvanceStream(@, end, HasBuffered(PublishRun(rows, c.seq, end)))]
      BY <2>1 DEF PublishAndDrain
    <3>3. Accounted(PublishRun(rows, c.seq, end),
                    AdvanceStream(stream[d], end, HasBuffered(PublishRun(rows, c.seq, end))))
      BY AdvanceStreamAccounts
    <3>4. QED
      BY <2>0, <3>1, <3>2, <3>3 DEF TypeOK
  <2>2. ASSUME NEW c \in Commands, BufferMessage(c)
        PROVE  Accounted(messages'[e], stream'[e])
    <3>1. c.device \in Devices
      BY MessageStreamAssumption
    <3>2. CASE e # c.device
      BY <2>0, <2>2, <3>2 DEF BufferMessage, TypeOK
    <3>3. CASE e = c.device
      <4>1. stream'[e] = MarkWaitingGap(stream[e])
        BY <2>2, <3>1, <3>3 DEF BufferMessage, TypeOK
      <4>2. MarkWaitingGap(stream[e]).state # "ok"
        BY <2>0 DEF MarkWaitingGap, StreamRow
      <4>3. GapTimeout # NoDeadline
        BY MessageStreamAssumption DEF NoDeadline
      <4>4. LET row == MarkWaitingGap(stream[e])
            IN  (row.state = "waiting_gap") = (row.left # NoDeadline)
        BY <2>0, <4>3 DEF MarkWaitingGap, StreamRow, Accounted
      <4>5. HasBuffered(messages'[e])
        <5>1. /\ messages' = [messages EXCEPT ![e][c.seq] =
                    [NoMessage EXCEPT !.content = c.content, !.status = "buffered"]]
              /\ c.seq \in ClientSequences
          BY <2>2, <3>3, MessageStreamAssumption DEF BufferMessage, ClientSequences
        <5>2. messages[e] \in [ClientSequences -> MessageRow] /\ messages = [x \in Devices |-> messages[x]]
          BY DEF TypeOK
        <5>3. messages'[e][c.seq].status = "buffered"
          BY <5>1, <5>2 DEF NoMessage
        <5>4. QED
          BY <5>1, <5>3 DEF HasBuffered
      <4>6. QED
        BY <4>1, <4>2, <4>4, <4>5 DEF Accounted
    <3>4. QED
      BY <3>2, <3>3
  <2>3. ASSUME NEW d \in Devices, NEW from \in ClientSequences, Resync(d, from)
        PROVE  Accounted(messages'[e], stream'[e])
    <3> DEFINE reset == [next |-> from, state |-> "ok", left |-> NoDeadline]
    <3>1. PICK end \in from..(MaxClientSequence + 1) :
            /\ messages' = [messages EXCEPT ![d] = PublishRun(messages[d], from, end)]
            /\ stream' = [stream EXCEPT ![d] =
                    AdvanceStream(reset, end, HasBuffered(PublishRun(messages[d], from, end)))]
      BY <2>3 DEF Resync
    <3>2. Accounted(PublishRun(messages[d], from, end),
                    AdvanceStream(reset, end, HasBuffered(PublishRun(messages[d], from, end))))
      BY AdvanceStreamAccounts
    <3>3. QED
      BY <2>0, <3>1, <3>2 DEF TypeOK
  <2>4. CASE ExpireOverdueGaps
    BY <2>0, <2>4 DEF ExpireOverdueGaps, GapExpired, Accounted, StreamRow
  <2>5. ASSUME NEW d \in Devices, LeaveConversation(d)
        PROVE  Accounted(messages'[e], stream'[e])
    BY <2>0, <2>5 DEF LeaveConversation
  <2>6. CASE Tick
    <3>1. CASE stream[e].left >= 0
      <4>1. stream'[e] = [stream[e] EXCEPT !.left = @ - 1] /\ messages' = messages
        BY <2>6, <3>1 DEF Tick
      <4>2. stream[e].left \in Int
        BY <2>0, MessageStreamAssumption DEF StreamRow, NoDeadline
      <4>3. stream[e].left - 1 # NoDeadline /\ stream[e].left # NoDeadline
        BY <3>1, <4>2 DEF NoDeadline
      <4>4. QED
        BY <2>0, <4>1, <4>3 DEF Accounted, StreamRow
    <3>2. CASE ~(stream[e].left >= 0)
      BY <2>0, <2>6, <3>2 DEF Tick
    <3>3. QED
      BY <3>1, <3>2
  <2>7. CASE UNCHANGED vars
    BY <2>0, <2>7 DEF vars
  <2>8. QED
    BY <2>1, <2>2, <2>3, <2>4, <2>5, <2>6, <2>7 DEF Next
<1>3. QED
  BY <1>1, <1>2, StreamTypeCorrect, PTL DEF Spec

(* No stream with a message ahead of its pointer is ok, and one that is    *)
(* not ok has such a message, or one that a resync has jumped over: on     *)
(* the pointer itself rests none.                                          *)
THEOREM WaitingIsAlwaysAccounted == Spec => []WaitingIsAccounted
<1>1. TypeOK /\ AllAccounted /\ PointerAtFreePosition => WaitingIsAccounted
  <2> SUFFICES ASSUME TypeOK, AllAccounted, PointerAtFreePosition, NEW d \in Devices
               PROVE  /\ WaitsAhead(d) => stream[d].state # "ok"
                      /\ stream[d].state # "ok" => WaitsAhead(d) \/ LeftBehind(d)
                      /\ (stream[d].state = "waiting_gap") = (stream[d].left # NoDeadline)
    BY DEF WaitingIsAccounted
  <2>1. Accounted(messages[d], stream[d])
    BY DEF AllAccounted
  <2>2. \A n \in ClientSequences : Buffered(d, n) => n # stream[d].next
    BY DEF PointerAtFreePosition, Buffered
  <2>3. stream[d].next \in Int /\ ClientSequences \subseteq Int
    BY MessageStreamAssumption DEF TypeOK, StreamRow, ClientSequences
  <2>4. HasBuffered(messages[d]) <=> WaitsAhead(d) \/ LeftBehind(d)
    BY <2>2, <2>3 DEF HasBuffered, Buffered, WaitsAhead, LeftBehind
  <2>5. QED
    BY <2>1, <2>4 DEF Accounted
<1>2. QED
  BY <1>1, StreamsAccount, StreamTypeCorrect, PointerIsFree, PTL

(* A client that keeps sending 5, 6, 7 while 2 is missing does not push    *)
(* the deadline of the gap away: only a resync gives a waiting stream more *)
(* time.                                                                   *)
THEOREM DeadlineIsNotExtended == Spec => DeadlineNotExtended
<1>1. TypeOK /\ WaitingIsAccounted /\ [Next]_vars =>
        [\A d \in Devices :
            /\ stream[d].state = "waiting_gap"
            /\ stream'[d].state = "waiting_gap"
            /\ stream'[d].left > stream[d].left
            => \E from \in ClientSequences : Resync(d, from)]_vars
  <2> SUFFICES ASSUME TypeOK, WaitingIsAccounted, Next, NEW e \in Devices,
                      stream[e].state = "waiting_gap",
                      stream'[e].left > stream[e].left
               PROVE  \E from \in ClientSequences : Resync(e, from)
    OBVIOUS
  <2>1. /\ stream[e].left \in Int
        /\ stream[e].left # NoDeadline
        /\ stream'[e].left # stream[e].left
    <3>1. stream[e].left \in Int
      BY MessageStreamAssumption DEF TypeOK, StreamRow, NoDeadline
    <3>2. stream[e].left # NoDeadline
      BY DEF WaitingIsAccounted
    <3>3. QED
      BY <3>1, <3>2
  <2>2. ASSUME NEW c \in Commands, PublishAndDrain(c) PROVE FALSE
    <3>1. PICK next, still : stream' = [stream EXCEPT ![c.device] =
                                AdvanceStream(@, next, HasBuffered(still))]
      BY <2>2 DEF PublishAndDrain
    <3>2. CASE e # c.device
      BY <2>1, <3>1, <3>2 DEF TypeOK
    <3>3. CASE e = c.device
      <4>1. stream'[e] = AdvanceStream(stream[e], next, HasBuffered(still))
        BY <3>1, <3>3 DEF TypeOK
      <4>2. stream'[e].left \in {stream[e].left, NoDeadline}
        BY <2>1, <4>1 DEF AdvanceStream
      <4>3. stream[e].left \in NoDeadline..GapTimeout
        BY DEF TypeOK, StreamRow
      <4>4. QED
        BY <2>1, <4>2, <4>3, MessageStreamAssumption DEF NoDeadline
    <3>4. QED
      BY <3>2, <3>3
  <2>3. ASSUME NEW c \in Commands, BufferMessage(c) PROVE FALSE
    BY <2>1, <2>3 DEF BufferMessage, MarkWaitingGap, TypeOK
  <2>4. ASSUME NEW d \in Devices, NEW from \in ClientSequences, Resync(d, from)
        PROVE  d = e
    BY <2>1, <2>4 DEF Resync, TypeOK
  <2>5. ASSUME ExpireOverdueGaps PROVE FALSE
    <3>1. stream[e] \in StreamRow
      BY DEF TypeOK
    <3>2. stream'[e].left \in {stream[e].left, NoDeadline}
      BY <2>5, <3>1 DEF ExpireOverdueGaps, StreamRow
    <3>3. stream[e].left \in NoDeadline..GapTimeout
      BY <3>1 DEF StreamRow
    <3>4. QED
      BY <2>1, <3>2, <3>3, MessageStreamAssumption DEF NoDeadline
  <2>6. ASSUME Tick PROVE FALSE
    <3>1. stream'[e] = stream[e] \/ stream'[e] = [stream[e] EXCEPT !.left = @ - 1]
      BY <2>6 DEF Tick
    <3>2. stream[e] \in StreamRow
      BY DEF TypeOK
    <3>3. QED
      BY <2>1, <3>1, <3>2 DEF StreamRow
  <2>7. ASSUME NEW d \in Devices, LeaveConversation(d) PROVE FALSE
    BY <2>1, <2>7 DEF LeaveConversation
  <2>8. QED
    BY <2>2, <2>3, <2>4, <2>5, <2>6, <2>7 DEF Next
<1>2. QED
  BY <1>1, StreamTypeCorrect, WaitingIsAlwaysAccounted, PTL DEF Spec, DeadlineNotExtended

-----------------------------------------------------------------------------
(* Refinement: the visible order is a ConversationLog                      *)

(* Every server sequence that is used belongs to one row.                  *)
EntriesAreUnique ==
    \A s \in 1..(nextServer - 1) :
        /\ EntryAt(s) \in Devices \X ClientSequences
        /\ Published(EntryAt(s)[1], EntryAt(s)[2])
        /\ messages[EntryAt(s)[1]][EntryAt(s)[2]].server = s
        /\ \A d \in Devices, n \in ClientSequences :
            messages[d][n].server = s => EntryAt(s) = <<d, n>>

LEMMA EntriesUnique == IInv => EntriesAreUnique
<1> SUFFICES ASSUME IInv, NEW s \in 1..(nextServer - 1)
             PROVE  /\ EntryAt(s) \in Devices \X ClientSequences
                    /\ Published(EntryAt(s)[1], EntryAt(s)[2])
                    /\ messages[EntryAt(s)[1]][EntryAt(s)[2]].server = s
                    /\ \A d \in Devices, n \in ClientSequences :
                        messages[d][n].server = s => EntryAt(s) = <<d, n>>
  BY DEF EntriesAreUnique
<1>1. NumberedIffVisible /\ EveryServerUsed /\ ServersUnique
  BY GaplessParts DEF IInv
<1>2. PICK d \in Devices, n \in ClientSequences : Published(d, n) /\ messages[d][n].server = s
  BY <1>1 DEF EveryServerUsed
<1>3. s # 0
  OBVIOUS
<1>4. ASSUME NEW e \in Devices \X ClientSequences, messages[e[1]][e[2]].server = s
      PROVE  e = <<d, n>>
  <2>1. e[1] \in Devices /\ e[2] \in ClientSequences /\ e = <<e[1], e[2]>>
    OBVIOUS
  <2>2. Published(e[1], e[2])
    BY <1>1, <1>3, <1>4, <2>1 DEF NumberedIffVisible
  <2>3. QED
    BY <1>1, <1>2, <1>4, <2>1, <2>2 DEF ServersUnique
<1>5. <<d, n>> \in Devices \X ClientSequences /\ messages[<<d, n>>[1]][<<d, n>>[2]].server = s
  BY <1>2
<1>6. EntryAt(s) = <<d, n>>
  BY <1>4, <1>5 DEF EntryAt
<1>7. ASSUME NEW e \in Devices, NEW k \in ClientSequences, messages[e][k].server = s
      PROVE  e = d /\ k = n
  <2>1. Published(e, k)
    BY <1>1, <1>3, <1>7 DEF NumberedIffVisible
  <2>2. QED
    BY <1>1, <1>2, <1>7, <2>1 DEF ServersUnique
<1>8. QED
  BY <1>2, <1>6, <1>7

LEMMA EntriesUniqueNext == IInv' => EntriesAreUnique'
BY EntriesUnique, PTL

(* Rows that are visible stay as they are, so entries keep their place.    *)
LEMMA EntryKept ==
    ASSUME IInv, IInv', NEW k \in Nat, nextServer' = nextServer + k,
           \A d \in Devices, n \in ClientSequences :
                Published(d, n) => messages'[d][n] = messages[d][n]
    PROVE  \A s \in 1..(nextServer - 1) : EntryAt(s)' = EntryAt(s)
<1> SUFFICES ASSUME NEW s \in 1..(nextServer - 1) PROVE EntryAt(s)' = EntryAt(s)
  OBVIOUS
<1>1. PICK d \in Devices, n \in ClientSequences :
        Published(d, n) /\ messages[d][n].server = s
  BY GaplessParts DEF IInv, EveryServerUsed
<1>2. EntryAt(s) = <<d, n>>
  BY <1>1, EntriesUnique DEF EntriesAreUnique
<1>3. messages'[d][n].server = s
  BY <1>1
<1>4. s \in 1..(nextServer' - 1)
  <2>1. nextServer \in Int
    BY DEF IInv, TypeOK
  <2>2. QED
    BY <2>1
<1>5. EntryAt(s)' = <<d, n>>
  BY <1>3, <1>4, EntriesUniqueNext DEF EntriesAreUnique
<1>6. QED
  BY <1>2, <1>5

(* The visible log is the sequence of the entries.                         *)
LogOfEntries ==
    /\ VisibleLog \in Seq(Devices \X Nat)
    /\ Len(VisibleLog) = nextServer - 1
    /\ \A s \in 1..(nextServer - 1) : VisibleLog[s] = EntryAt(s)

LEMMA VisibleLogIsOfEntries == IInv => LogOfEntries
<1> SUFFICES ASSUME IInv PROVE LogOfEntries
  OBVIOUS
<1>1. nextServer - 1 \in Nat
  BY DEF IInv, TypeOK
<1>2. \A s \in 1..(nextServer - 1) : EntryAt(s) \in Devices \X Nat
  BY EntriesUnique, MessageStreamAssumption DEF EntriesAreUnique, ClientSequences
<1>3. \A s \in 1..(nextServer - 1) : VisibleLog[s] = EntryAt(s)
  BY DEF VisibleLog, EntryAt
<1>4. VisibleLog \in [1..(nextServer - 1) -> Devices \X Nat]
  BY <1>2 DEF VisibleLog, EntryAt
<1>5. QED
  BY <1>1, <1>3, <1>4 DEF LogOfEntries

LEMMA VisibleLogIsOfEntriesNext == IInv' => LogOfEntries'
BY VisibleLogIsOfEntries, PTL

(* A sequence that continues another one with a run is their concatenation. *)
LEMMA GrowsByRun ==
    ASSUME NEW S, NEW old \in Seq(S), NEW new \in Seq(S), NEW run \in Seq(S),
           Len(new) = Len(old) + Len(run),
           \A s \in 1..Len(old) : new[s] = old[s],
           \A i \in 1..Len(run) : new[Len(old) + i] = run[i]
    PROVE  new = old \o run
<1>1. old \o run \in Seq(S) /\ Len(old \o run) = Len(old) + Len(run)
  OBVIOUS
<1>2. ASSUME NEW s \in 1..(Len(old) + Len(run)) PROVE new[s] = (old \o run)[s]
  <2>1. CASE s <= Len(old)
    BY <2>1
  <2>2. CASE s > Len(old)
    <3>1. s - Len(old) \in 1..Len(run) /\ s = Len(old) + (s - Len(old))
      BY <2>2
    <3>2. new[s] = run[s - Len(old)]
      BY <3>1
    <3>3. QED
      BY <2>2, <3>2
  <2>3. QED
    BY <2>1, <2>2
<1>3. QED
  BY <1>1, <1>2

(* A run of the tables is a run of the log.                                *)
LEMMA PublishesAppends ==
    ASSUME IInv, IInv', NEW d \in Devices, NEW rows, NEW from, NEW end,
           Publishes(d, rows, from, end)
    PROVE  Log!AppendOnly
<1> DEFINE run == Log!Run(d, from, end - from)
<1>1. /\ from \in Nat /\ end \in Int /\ end >= from
      /\ nextServer \in Nat /\ nextServer >= 1
      /\ nextServer' = nextServer + (end - from)
      /\ \A n \in from..(end - 1) : n \in ClientSequences
  BY MessageStreamAssumption DEF Publishes, ClientSequences, IInv, TypeOK
<1>2. PICK k \in Nat : k = end - from
  BY <1>1
<1>3. PICK m \in Nat : nextServer - 1 = m /\ nextServer' - 1 = m + k /\ nextServer = m + 1
  BY <1>1, <1>2
<1>4. \A e \in Devices, n \in ClientSequences :
        Published(e, n) => messages'[e][n] = messages[e][n]
  BY RunEffect
<1>5. \A s \in 1..m : EntryAt(s)' = EntryAt(s)
  BY <1>1, <1>2, <1>3, <1>4, EntryKept
<1>6. ASSUME NEW i \in 1..k, NEW s, s = m + i
      PROVE  EntryAt(s)' = <<d, from + i - 1>>
  <2> DEFINE n == from + i - 1
  <2>1. n \in from..(end - 1) /\ n \in ClientSequences
    BY <1>1, <1>2
  <2>2. messages'[d][n].server = nextServer + (n - from)
    BY <2>1, RunEffect
  <2>3. messages'[d][n].server = s
    BY <1>1, <1>3, <1>6, <2>2
  <2>4. s \in 1..(nextServer' - 1)
    BY <1>3, <1>6
  <2> HIDE DEF n
  <2>5. EntryAt(s)' = <<d, n>>
    BY <2>1, <2>3, <2>4, EntriesUniqueNext DEF EntriesAreUnique
  <2>6. QED
    BY <2>5 DEF n
<1>7. run \in Seq(Devices \X Nat) /\ Len(run) = k
  BY <1>1, <1>2 DEF Log!Run
<1>8. \A i \in 1..k : run[i] = <<d, from + i - 1>>
  BY <1>2 DEF Log!Run
<1> HIDE DEF run
<1>9. /\ VisibleLog \in Seq(Devices \X Nat) /\ Len(VisibleLog) = m
      /\ \A s \in 1..m : VisibleLog[s] = EntryAt(s)
  BY <1>3, VisibleLogIsOfEntries DEF LogOfEntries
<1>10. /\ VisibleLog' \in Seq(Devices \X Nat) /\ Len(VisibleLog') = m + k
       /\ \A s \in 1..(m + k) : VisibleLog'[s] = EntryAt(s)'
  BY <1>3, VisibleLogIsOfEntriesNext DEF LogOfEntries
<1>11. PICK old, new : old = VisibleLog /\ new = VisibleLog'
  OBVIOUS
<1>12. new = old \o run
  <2>1. /\ old \in Seq(Devices \X Nat) /\ new \in Seq(Devices \X Nat)
        /\ Len(old) = m /\ Len(new) = m + k
    BY <1>9, <1>10, <1>11
  <2>2. \A s \in 1..m : new[s] = old[s]
    BY <1>5, <1>9, <1>10, <1>11
  <2>3. ASSUME NEW i \in 1..k PROVE new[m + i] = run[i]
    <3>1. PICK s : s = m + i
      OBVIOUS
    <3>2. new[s] = EntryAt(s)'
      BY <1>10, <1>11, <3>1
    <3>3. EntryAt(s)' = <<d, from + i - 1>>
      BY <1>6, <3>1
    <3>4. QED
      BY <1>8, <3>1, <3>2, <3>3
  <2>4. Len(new) = Len(old) + Len(run)
    BY <1>7, <2>1
  <2>5. \A s \in 1..Len(old) : new[s] = old[s]
    BY <2>1, <2>2
  <2>6. \A i \in 1..Len(run) : new[Len(old) + i] = run[i]
    BY <1>7, <2>1, <2>3
  <2>7. run \in Seq(Devices \X Nat)
    BY <1>7
  <2>8. PICK S : S = Devices \X Nat
    OBVIOUS
  <2>9. old \in Seq(S) /\ new \in Seq(S) /\ run \in Seq(S)
    BY <2>1, <2>7, <2>8
  <2>10. QED
    BY <2>4, <2>5, <2>6, <2>9, GrowsByRun, Zenon
<1>13. Len(VisibleLog') - Len(VisibleLog) = k
  BY <1>9, <1>10
<1>14. /\ stream'[d].next = end /\ end - k = from /\ from + k = end
       /\ from >= stream[d].next
       /\ \A e \in Devices \ {d} : stream'[e] = stream[e]
  BY <1>1, <1>2 DEF Publishes
<1>15. [e \in Devices |-> stream'[e].next] =
            [[e \in Devices |-> stream[e].next] EXCEPT ![d] = from + k]
  BY <1>14
<1>16. VisibleLog' = VisibleLog \o Log!Run(d, from, k)
  BY <1>2, <1>11, <1>12 DEF run
<1>17. Log!AppendRun(d, from, k)
  BY <1>14, <1>15, <1>16 DEF Log!AppendRun
<1>18. Log!AppendOnly
  <2> DEFINE size  == Len(VisibleLog') - Len(VisibleLog)
             first == [e \in Devices |-> stream'[e].next][d] - size
  <2>1. size = k
    BY <1>13
  <2>2. first = from
    <3>1. [e \in Devices |-> stream'[e].next][d] = end
      BY <1>14
    <3>2. QED
      BY <1>14, <2>1, <3>1
  <2>3. size >= 0 /\ first \in Nat
    BY <1>1, <2>1, <2>2
  <2>4. /\ first >= [e \in Devices |-> stream[e].next][d]
        /\ VisibleLog' = VisibleLog \o Log!Run(d, first, size)
        /\ [e \in Devices |-> stream'[e].next] =
              [[e \in Devices |-> stream[e].next] EXCEPT ![d] = first + size]
    BY <1>14, <1>15, <1>16, <2>1, <2>2
  <2>5. QED
    BY <2>3, <2>4, Zenon DEF Log!AppendOnly, Log!AppendRun
<1>19. QED
  BY <1>18

(* A step that publishes nothing leaves the log and every cursor alone.    *)
LEMMA SilentStep ==
    ASSUME IInv, IInv', nextServer' = nextServer,
           \A d \in Devices, n \in ClientSequences :
                Published(d, n) => messages'[d][n] = messages[d][n],
           \A e \in Devices : stream'[e].next = stream[e].next
    PROVE  UNCHANGED Log!vars
<1>1. PICK m \in Nat : nextServer - 1 = m /\ nextServer' - 1 = m
  BY DEF IInv, TypeOK
<1>2. \A s \in 1..m : EntryAt(s)' = EntryAt(s)
  <2>1. nextServer' = nextServer + 0
    BY DEF IInv, TypeOK
  <2>2. QED
    BY <1>1, <2>1, EntryKept
<1>3. /\ VisibleLog \in Seq(Devices \X Nat) /\ Len(VisibleLog) = m
      /\ \A s \in 1..m : VisibleLog[s] = EntryAt(s)
  BY <1>1, VisibleLogIsOfEntries DEF LogOfEntries
<1>4. /\ VisibleLog' \in Seq(Devices \X Nat) /\ Len(VisibleLog') = m
      /\ \A s \in 1..m : VisibleLog'[s] = EntryAt(s)'
  BY <1>1, VisibleLogIsOfEntriesNext DEF LogOfEntries
<1>5. VisibleLog' = VisibleLog
  <2>1. PICK old, new : old = VisibleLog /\ new = VisibleLog'
    OBVIOUS
  <2>2. old \in Seq(Devices \X Nat) /\ new \in Seq(Devices \X Nat) /\ Len(old) = m /\ Len(new) = m
    BY <1>3, <1>4, <2>1
  <2>3. \A s \in 1..m : new[s] = old[s]
    BY <1>2, <1>3, <1>4, <2>1
  <2>4. QED
    BY <2>1, <2>2, <2>3
<1>6. [e \in Devices |-> stream'[e].next] = [e \in Devices |-> stream[e].next]
  OBVIOUS
<1>7. QED
  BY <1>5, <1>6 DEF Log!vars

(* Readers of the conversation only ever see an append-only log in which   *)
(* each device's messages stand in the order of its client sequence: every *)
(* transaction of the message stream appends one run, or nothing.          *)
THEOREM StreamImplementsLog == Spec => ImplementsConversationLog
<1>1. Init => Log!Init
  <2> SUFFICES ASSUME Init PROVE Log!Init
    OBVIOUS
  <2>1. VisibleLog = <<>>
    <3>1. LogOfEntries /\ nextServer = 1
      BY IInvInitially, VisibleLogIsOfEntries DEF Init
    <3>2. VisibleLog \in Seq(Devices \X Nat) /\ Len(VisibleLog) = 0
      BY <3>1 DEF LogOfEntries
    <3>3. QED
      BY <3>2
  <2>2. [d \in Devices |-> stream[d].next] = [d \in Devices |-> 1]
    BY DEF Init, NewStream
  <2>3. QED
    BY <2>1, <2>2 DEF Log!Init
<1>2. IInv /\ IInv' /\ [Next]_vars => [Log!AppendOnly]_(Log!vars)
  <2> SUFFICES ASSUME IInv, IInv', [Next]_vars
               PROVE  Log!AppendOnly \/ UNCHANGED Log!vars
    OBVIOUS
  <2>0. TypeOK
    BY DEF IInv
  <2>1. ASSUME NEW c \in Commands, PublishAndDrain(c) PROVE Log!AppendOnly
    <3>1. PICK rows, end : Publishes(c.device, rows, c.seq, end)
      BY <2>0, <2>1, PublishAndDrainPublishes
    <3>2. c.device \in Devices
      BY MessageStreamAssumption
    <3>3. QED
      BY <3>1, <3>2, PublishesAppends
  <2>2. ASSUME NEW d \in Devices, NEW from \in ClientSequences, Resync(d, from)
        PROVE  Log!AppendOnly
    <3>1. PICK rows, end : Publishes(d, rows, from, end)
      BY <2>0, <2>2, ResyncPublishes
    <3>2. QED
      BY <3>1, PublishesAppends
  <2>3. ASSUME NEW c \in Commands, BufferMessage(c) PROVE UNCHANGED Log!vars
    <3>1. nextServer' = nextServer
      BY <2>3 DEF BufferMessage
    <3>2. \A d \in Devices, n \in ClientSequences :
            Published(d, n) => messages'[d][n] = messages[d][n]
      BY <2>0, <2>3, MessageStreamAssumption
      DEF BufferMessage, Insertable, ReadsExisting, PositionTaken, Published, TypeOK
    <3>3. \A e \in Devices : stream'[e].next = stream[e].next
      BY <2>0, <2>3, MessageStreamAssumption
      DEF BufferMessage, MarkWaitingGap, TypeOK, StreamRow
    <3>4. QED
      BY <3>1, <3>2, <3>3, SilentStep
  <2>4. ASSUME \/ ExpireOverdueGaps
               \/ \E d \in Devices : LeaveConversation(d)
               \/ Tick
               \/ UNCHANGED vars
        PROVE  UNCHANGED Log!vars
    <3>1. /\ UNCHANGED <<messages, nextServer>>
          /\ \A e \in Devices : stream'[e].next = stream[e].next
      BY <2>0, <2>4, QuietSteps
    <3>2. QED
      BY <3>1, SilentStep
  <2>5. QED
    BY <2>1, <2>2, <2>3, <2>4 DEF Next
<1>3. QED
  BY <1>1, <1>2, StreamInvariant, PTL DEF Spec, ImplementsConversationLog, Log!CheckableSpec

-----------------------------------------------------------------------------
(* The deadline of the first gap (GapDeadline)                             *)

(* Ages are kept up to one tick above the timeout.                         *)
AgesOK == waited \in [Devices -> [ClientSequences -> 0..(GapTimeout + 1)]]

(* Ahead of a pointer that never moved waits a message at least as old as  *)
(* the part of the timeout that is spent.                                  *)
FirstGapOf(d) ==
    stream[d].state = "waiting_gap" /\ stream[d].next = 1
        => \E n \in AheadOf(d) : waited[d][n] >= GapTimeout - stream[d].left

FirstGapInv == AgesOK /\ \A d \in Devices : FirstGapOf(d)

(* A buffered message that stays buffered keeps its age, or grows older by *)
(* a tick of the clock.                                                    *)
LEMMA AgesOfAStep ==
    ASSUME AgesOK, NEW step \in [0..(GapTimeout + 1) -> 0..(GapTimeout + 1)], Ages(step)
    PROVE  /\ AgesOK'
           /\ \A d \in Devices, n \in ClientSequences :
                messages[d][n].status = "buffered" /\ messages'[d][n].status = "buffered"
                    => waited'[d][n] = step[waited[d][n]]
<1>1. \A d \in Devices, n \in ClientSequences : step[waited[d][n]] \in 0..(GapTimeout + 1)
  BY DEF AgesOK
<1>2. 0 \in 0..(GapTimeout + 1)
  BY MessageStreamAssumption
<1>3. AgesOK'
  BY <1>1, <1>2 DEF AgesOK, Ages, Buffered
<1>4. QED
  BY <1>3 DEF Ages, Buffered

LEMMA SameStep ==
    /\ Same \in [0..(GapTimeout + 1) -> 0..(GapTimeout + 1)]
    /\ \A a \in 0..(GapTimeout + 1) : Same[a] = a
BY DEF Same

LEMMA AgedStep ==
    /\ Aged \in [0..(GapTimeout + 1) -> 0..(GapTimeout + 1)]
    /\ \A a \in 0..(GapTimeout + 1) : Aged[a] = IF a > GapTimeout THEN a ELSE a + 1
BY MessageStreamAssumption DEF Aged, Older

(* Two ways to keep the invariant for a stream in a step without a tick:   *)
(* nothing of it is lost, or its deadline is fresh.                        *)
LEMMA GapCarried ==
    ASSUME FirstGapInv, Ages(Same), NEW e \in Devices,
           stream'[e] = stream[e],
           \A n \in ClientSequences :
                messages[e][n].status = "buffered" => messages'[e][n].status = "buffered"
    PROVE  FirstGapOf(e)'
<1> SUFFICES ASSUME stream'[e].state = "waiting_gap", stream'[e].next = 1
             PROVE  \E n \in AheadOf(e)' : waited'[e][n] >= GapTimeout - stream'[e].left
  BY DEF FirstGapOf
<1>1. PICK n \in AheadOf(e) : waited[e][n] >= GapTimeout - stream[e].left
  BY DEF FirstGapInv, FirstGapOf
<1>2. n \in ClientSequences /\ messages[e][n].status = "buffered" /\ n > stream[e].next
  BY <1>1 DEF AheadOf, Buffered
<1>3. waited[e][n] \in 0..(GapTimeout + 1)
  BY <1>2 DEF FirstGapInv, AgesOK
<1>4. waited'[e][n] = waited[e][n]
  BY <1>2, <1>3, SameStep, AgesOfAStep DEF FirstGapInv
<1>5. n \in AheadOf(e)'
  BY <1>2 DEF AheadOf, Buffered
<1>6. QED
  BY <1>1, <1>4, <1>5

LEMMA GapFresh ==
    ASSUME AgesOK', NEW e \in Devices, NEW n \in ClientSequences,
           stream'[e].left = GapTimeout,
           n > 1, messages'[e][n].status = "buffered"
    PROVE  FirstGapOf(e)'
<1> SUFFICES ASSUME stream'[e].next = 1
             PROVE  \E k \in AheadOf(e)' : waited'[e][k] >= GapTimeout - stream'[e].left
  BY DEF FirstGapOf
<1>1. n \in AheadOf(e)'
  BY DEF AheadOf, Buffered
<1>2. waited'[e][n] \in 0..(GapTimeout + 1)
  BY DEF AgesOK
<1>3. waited'[e][n] >= GapTimeout - stream'[e].left
  <2>1. GapTimeout - stream'[e].left = 0
    BY MessageStreamAssumption
  <2>2. QED
    BY <1>2, <2>1
<1>4. QED
  BY <1>1, <1>3

(* The steps of the database, except its clock.                            *)
LEMMA GapKeptByNext ==
    ASSUME TypeOK, FirstGapInv, Next, ~Tick, Ages(Same)
    PROVE  FirstGapInv'
<1>1. AgesOK'
  BY SameStep, AgesOfAStep DEF FirstGapInv
<1> SUFFICES ASSUME NEW e \in Devices PROVE FirstGapOf(e)'
  BY <1>1 DEF FirstGapInv
<1>2. ASSUME stream'[e] = stream[e], messages'[e] = messages[e] PROVE FirstGapOf(e)'
  BY <1>2, GapCarried
<1>3. ASSUME NEW d \in Devices, NEW rows, NEW from, NEW end,
             Publishes(d, rows, from, end), d # e
      PROVE  FirstGapOf(e)'
  <2>1. stream'[e] = stream[e] /\ messages'[e] = messages[e]
    BY <1>3 DEF Publishes, TypeOK
  <2>2. QED
    BY <1>2, <2>1
<1>4. ASSUME NEW c \in Commands, PublishAndDrain(c) PROVE FirstGapOf(e)'
  <2>1. PICK rows, end : Publishes(c.device, rows, c.seq, end)
    BY <1>4, PublishAndDrainPublishes
  <2>2. c.device \in Devices /\ c.seq \in ClientSequences
    BY MessageStreamAssumption
  <2>3. CASE e # c.device
    BY <1>3, <2>1, <2>2, <2>3
  <2>4. CASE e = c.device
    <3>1. PICK last \in (c.seq + 1)..(MaxClientSequence + 1) : stream'[e].next = last
      BY <1>4, <2>2, <2>4 DEF PublishAndDrain, AdvanceStream, TypeOK
    <3>2. stream'[e].next # 1
      BY <2>2, <3>1 DEF ClientSequences
    <3>3. QED
      BY <3>2 DEF FirstGapOf
  <2>5. QED
    BY <2>3, <2>4
<1>5. ASSUME NEW c \in Commands, BufferMessage(c) PROVE FirstGapOf(e)'
  <2>1. c.device \in Devices /\ c.seq \in ClientSequences
    BY MessageStreamAssumption
  <2>2. CASE e # c.device
    <3>1. stream'[e] = stream[e] /\ messages'[e] = messages[e]
      BY <1>5, <2>1, <2>2 DEF BufferMessage, TypeOK
    <3>2. QED
      BY <1>2, <3>1
  <2>3. CASE e = c.device
    <3>1. /\ messages'[e][c.seq].status = "buffered"
          /\ \A n \in ClientSequences : n # c.seq => messages'[e][n] = messages[e][n]
      BY <1>5, <2>1, <2>3 DEF BufferMessage, NoMessage, TypeOK
    <3>2. stream'[e] = MarkWaitingGap(stream[e])
      BY <1>5, <2>1, <2>3 DEF BufferMessage, TypeOK
    <3>3. CASE stream[e].state = "ok"
      <4>1. stream'[e].left = GapTimeout
        BY <3>2, <3>3 DEF MarkWaitingGap, TypeOK, StreamRow
      <4>2. c.seq > 1
        BY <1>5, <2>1, <2>3, MessageStreamAssumption
        DEF BufferMessage, TypeOK, StreamRow, ClientSequences
      <4>3. QED
        BY <1>1, <2>1, <3>1, <4>1, <4>2, GapFresh
    <3>4. CASE stream[e].state # "ok"
      <4>1. stream'[e] = stream[e]
        BY <3>2, <3>4 DEF MarkWaitingGap
      <4>2. \A n \in ClientSequences :
                messages[e][n].status = "buffered" => messages'[e][n].status = "buffered"
        BY <3>1
      <4>3. QED
        BY <4>1, <4>2, GapCarried
    <3>5. QED
      BY <3>3, <3>4
  <2>4. QED
    BY <2>2, <2>3
<1>6. ASSUME NEW d \in Devices, NEW from \in ClientSequences, Resync(d, from)
      PROVE  FirstGapOf(e)'
  <2>1. CASE e # d
    <3>1. PICK rows, end : Publishes(d, rows, from, end)
      BY <1>6, ResyncPublishes
    <3>2. QED
      BY <1>3, <2>1, <3>1
  <2>2. CASE e = d
    <3> DEFINE reset == [next |-> from, state |-> "ok", left |-> NoDeadline]
    <3> SUFFICES ASSUME stream'[e].state = "waiting_gap", stream'[e].next = 1
                 PROVE  FirstGapOf(e)'
      BY DEF FirstGapOf
    <3>1. PICK end \in from..(MaxClientSequence + 1) :
            /\ CascadeEnds(messages[e], from, end)
            /\ messages' = [messages EXCEPT ![e] = PublishRun(messages[e], from, end)]
            /\ stream' = [stream EXCEPT ![e] =
                 AdvanceStream(reset, end, HasBuffered(PublishRun(messages[e], from, end)))]
      BY <1>6, <2>2 DEF Resync
    <3>2. /\ messages'[e] = PublishRun(messages[e], from, end)
          /\ stream'[e] = AdvanceStream(reset, end, HasBuffered(messages'[e]))
      BY <3>1 DEF TypeOK
    <3>3. end = 1 /\ HasBuffered(messages'[e]) /\ stream'[e].left = GapTimeout
      BY <3>2 DEF AdvanceStream
    <3>4. from = 1 /\ ~BufferedAt(messages[e], 1)
      BY <3>1, <3>3 DEF CascadeEnds, ClientSequences
    <3>5. \A n \in ClientSequences : messages'[e][n] = messages[e][n]
      BY <3>2, <3>3, <3>4 DEF PublishRun, ClientSequences
    <3>6. PICK n \in ClientSequences : messages'[e][n].status = "buffered"
      BY <3>3 DEF HasBuffered
    <3>7. n > 1
      BY <3>4, <3>5, <3>6 DEF BufferedAt, ClientSequences
    <3>8. QED
      BY <1>1, <3>3, <3>6, <3>7, GapFresh
  <2>3. QED
    BY <2>1, <2>2
<1>7. ASSUME ExpireOverdueGaps PROVE FirstGapOf(e)'
  <2>1. CASE GapExpired(stream[e])
    <3>1. stream'[e].state = "resync_required"
      BY <1>7, <2>1 DEF ExpireOverdueGaps, TypeOK, StreamRow
    <3>2. QED
      BY <3>1 DEF FirstGapOf
  <2>2. CASE ~GapExpired(stream[e])
    BY <1>2, <1>7, <2>2 DEF ExpireOverdueGaps
  <2>3. QED
    BY <2>1, <2>2
<1>8. ASSUME NEW d \in Devices, LeaveConversation(d) PROVE FirstGapOf(e)'
  BY <1>2, <1>8 DEF LeaveConversation
<1>9. QED
  BY <1>4, <1>5, <1>6, <1>7, <1>8 DEF Next

(* The clock: one tick less until the deadline, one tick more of waiting.  *)
LEMMA GapKeptByTick ==
    ASSUME TypeOK, FirstGapInv, Tick, Ages(Aged)
    PROVE  FirstGapInv'
<1>1. AgesOK'
  BY AgedStep, AgesOfAStep DEF FirstGapInv
<1> SUFFICES ASSUME NEW e \in Devices,
                    stream'[e].state = "waiting_gap", stream'[e].next = 1
             PROVE  \E n \in AheadOf(e)' : waited'[e][n] >= GapTimeout - stream'[e].left
  BY <1>1 DEF FirstGapInv, FirstGapOf
<1>2. stream[e] \in StreamRow /\ stream[e].left \in NoDeadline..GapTimeout
  BY DEF TypeOK, StreamRow
<1>3. PICK b \in Int : stream[e].left = b
  BY <1>2, MessageStreamAssumption DEF NoDeadline
<1>4. stream'[e] = IF b >= 0 THEN [stream[e] EXCEPT !.left = @ - 1] ELSE stream[e]
  BY <1>3 DEF Tick
<1>5. /\ stream[e].state = "waiting_gap" /\ stream[e].next = 1
      /\ stream'[e].left = IF b >= 0 THEN b - 1 ELSE b
  BY <1>2, <1>3, <1>4 DEF StreamRow
<1>6. PICK n \in AheadOf(e) : waited[e][n] >= GapTimeout - b
  BY <1>3, <1>5 DEF FirstGapInv, FirstGapOf
<1>7. n \in ClientSequences /\ messages[e][n].status = "buffered" /\ n > 1
  BY <1>5, <1>6 DEF AheadOf, Buffered
<1>8. PICK a \in 0..(GapTimeout + 1) : waited[e][n] = a
  BY <1>7 DEF FirstGapInv, AgesOK
<1>9. waited'[e][n] = IF a > GapTimeout THEN a ELSE a + 1
  <2>1. messages'[e][n].status = "buffered"
    BY <1>7 DEF Tick
  <2>2. waited'[e][n] = Aged[a]
    BY <1>7, <1>8, <2>1, AgedStep, AgesOfAStep DEF FirstGapInv
  <2>3. QED
    BY <2>2, AgedStep
<1>10. n \in AheadOf(e)'
  BY <1>7 DEF AheadOf, Buffered, Tick
<1>11. waited'[e][n] >= GapTimeout - stream'[e].left
  BY <1>3, <1>5, <1>6, <1>8, <1>9, MessageStreamAssumption
<1>12. QED
  BY <1>10, <1>11

(* The first gap of a stream gets its whole timeout: when it expires, a    *)
(* message has been waiting behind it for longer than the timeout,         *)
(* whatever else was sent, buffered or resynchronised meanwhile.           *)
THEOREM FirstGapIsNeverCutShort == GapSpec => []FirstGapGetsFullTimeout
<1>1. GapInit => FirstGapInv
  <2> SUFFICES ASSUME GapInit PROVE FirstGapInv
    OBVIOUS
  <2>1. AgesOK
    BY MessageStreamAssumption DEF GapInit, AgesOK
  <2>2. \A d \in Devices : stream[d].state = "ok"
    BY DEF GapInit, Init, NewStream
  <2>3. QED
    BY <2>1, <2>2 DEF FirstGapInv, FirstGapOf
<1>2. TypeOK /\ FirstGapInv /\ [GapNext]_gapVars => FirstGapInv'
  <2> SUFFICES ASSUME TypeOK, FirstGapInv, [GapNext]_gapVars PROVE FirstGapInv'
    OBVIOUS
  <2>1. CASE Tick /\ Ages(Aged)
    BY <2>1, GapKeptByTick
  <2>2. CASE Next /\ ~Tick /\ Ages(Same)
    BY <2>2, GapKeptByNext
  <2>3. CASE UNCHANGED gapVars
    BY <2>3 DEF gapVars, vars, FirstGapInv, FirstGapOf, AgesOK, AheadOf, Buffered
  <2>4. QED
    BY <2>1, <2>2, <2>3 DEF GapNext
<1>3. GapSpec => Spec
  <2>1. GapInit => Init
    BY DEF GapInit
  <2>2. [GapNext]_gapVars => [Next]_vars
    BY DEF GapNext, gapVars, Next
  <2>3. QED
    BY <2>1, <2>2, PTL DEF GapSpec, Spec
<1>4. TypeOK /\ FirstGapInv => FirstGapGetsFullTimeout
  <2> SUFFICES ASSUME TypeOK, FirstGapInv, NEW d \in Devices,
                      GapExpired(stream[d]), stream[d].next = 1
               PROVE  \E n \in AheadOf(d) : waited[d][n] > GapTimeout
    BY DEF FirstGapGetsFullTimeout
  <2>1. PICK n \in AheadOf(d) : waited[d][n] >= GapTimeout - stream[d].left
    BY DEF FirstGapInv, FirstGapOf, GapExpired
  <2>2. waited[d][n] \in 0..(GapTimeout + 1) /\ stream[d].left = -1
    BY DEF FirstGapInv, AgesOK, AheadOf, GapExpired, Overdue
  <2>3. QED
    BY <2>1, <2>2, MessageStreamAssumption
<1>5. QED
  BY <1>1, <1>2, <1>3, <1>4, StreamTypeCorrect, PTL DEF GapSpec

=============================================================================
