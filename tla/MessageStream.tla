---------------------------- MODULE MessageStream ----------------------------
(***************************************************************************)
(* Ordering of one conversation: the tables messages, device_sequences and *)
(* conversation_sequences, and the transactions that write them.           *)
(*                                                                         *)
(* Every transaction here takes the sender's device_sequences row with     *)
(* FOR UPDATE first and, when it publishes, the conversation_sequences row *)
(* second, and keeps both until COMMIT.  Transactions of one device are    *)
(* therefore serial, and two devices that publish are serial from the      *)
(* moment the counter is read, so each transaction is one action: the      *)
(* state it commits.  A transaction that throws rolls back and is no step. *)
(*                                                                         *)
(* Abstractions                                                            *)
(*  - A message row is found by its stream position, the key that the      *)
(*    unique index messages_stream_client_sequence_uniq enforces.          *)
(*  - `content` stands for (client_message_id, sender_id, body).           *)
(*  - An absent device_sequences row is the row lockStream would insert.   *)
(*  - gap_deadline is kept as the ticks left until it, and stops at        *)
(*    Overdue; leaving the conversation is external (no code under src/    *)
(*    sets removed_at, every query reads it).                              *)
(***************************************************************************)
EXTENDS Integers, FiniteSets

CONSTANTS
    Devices,            \* devices that address the conversation
    Members,            \* those with a conversation_devices row
    Contents,           \* what a message says: records [id, body]
    NoContent,          \* content of a position that holds no message
    Commands,           \* the send commands clients issue: [device, seq, content]
    MaxClientSequence,  \* Number.MAX_SAFE_INTEGER in the request parser
    GapTimeout          \* gapTimeoutMs, in ticks

ClientSequences == 1..MaxClientSequence

ASSUME MessageStreamAssumption ==
    /\ Members \subseteq Devices
    /\ NoContent \notin Contents
    /\ MaxClientSequence \in Nat \ {0}
    /\ GapTimeout \in Nat
    /\ Commands \subseteq [device : Devices, seq : ClientSequences, content : Contents]

VARIABLES
    active,     \* members whose removed_at is NULL
    stream,     \* device_sequences: [next, state, left] per device
    nextServer, \* conversation_sequences.next_server_sequence
    messages    \* messages joined with the recipients of their delivery batch

vars == <<active, stream, nextServer, messages>>

Overdue    == -1    \* the deadline has passed
NoDeadline == -2    \* gap_deadline IS NULL

StreamStates == {"ok", "waiting_gap", "resync_required"}

StreamRow  == [next : 1..(MaxClientSequence + 1),
               state : StreamStates,
               left : NoDeadline..GapTimeout]
MessageRow == [content : Contents \cup {NoContent},
               status : {"none", "buffered", "published"},
               server : Nat,
               recipients : SUBSET Members]

NewStream == [next |-> 1, state |-> "ok", left |-> NoDeadline]
NoMessage == [content |-> NoContent, status |-> "none", server |-> 0, recipients |-> {}]

TypeOK ==
    /\ active \in SUBSET Members
    /\ stream \in [Devices -> StreamRow]
    /\ nextServer \in Nat \ {0}
    /\ messages \in [Devices -> [ClientSequences -> MessageRow]]

Init ==
    /\ active = Members
    /\ stream = [d \in Devices |-> NewStream]
    /\ nextServer = 1
    /\ messages = [d \in Devices |-> [n \in ClientSequences |-> NoMessage]]

-----------------------------------------------------------------------------
(* Reading the tables.  `rows` is the part of messages of one device.      *)

Published(d, n) == messages[d][n].status = "published"
Buffered(d, n)  == messages[d][n].status = "buffered"

(* findBufferedAt *)
BufferedAt(rows, n) == n \in ClientSequences /\ rows[n].status = "buffered"

(* hasBufferedMessages: anywhere in the stream, below `next` as well.      *)
HasBuffered(rows) == \E n \in ClientSequences : rows[n].status = "buffered"

(* messages_client_message_id_uniq would reject the insert.                *)
MessageIdTaken(rows, content) ==
    \E n \in ClientSequences :
        rows[n].status # "none" /\ rows[n].content.id = content.id

(* Mutant of CascadeEnds: it may stop before the last buffered message.    *)
CascadeStopsEarly(rows, from, end) ==
    /\ from <= end
    /\ \A n \in from..(end - 1) : BufferedAt(rows, n)

(* The cascade from position `from` stops at `end`: the first position     *)
(* that holds no buffered message.                                         *)
CascadeEnds(rows, from, end) ==
    /\ from <= end
    /\ \A n \in from..(end - 1) : BufferedAt(rows, n)
    /\ ~BufferedAt(rows, end)

(* Mutants of PublishRun: one server sequence for the whole cascade, and   *)
(* the cascade walked backwards.                                           *)
PublishRunUnderOneNumber(rows, from, end) ==
    [n \in ClientSequences |->
        IF n \in from..(end - 1)
        THEN [content |-> rows[n].content, status |-> "published",
              server |-> nextServer, recipients |-> active]
        ELSE rows[n]]
PublishRunBackwards(rows, from, end) ==
    [n \in ClientSequences |->
        IF n \in from..(end - 1)
        THEN [content |-> rows[n].content, status |-> "published",
              server |-> nextServer + (end - 1 - n), recipients |-> active]
        ELSE rows[n]]

(* Publishes positions from..end-1 with consecutive server sequences,      *)
(* starting at nextServer, to the recipients of this transaction.          *)
PublishRun(rows, from, end) ==
    [n \in ClientSequences |->
        IF n \in from..(end - 1)
        THEN [content |-> rows[n].content, status |-> "published",
              server |-> nextServer + (n - from), recipients |-> active]
        ELSE rows[n]]

(* Mutants of AdvanceStream: a deadline left behind, and no fresh deadline *)
(* where none is running.                                                  *)
AdvanceStreamKeepsDeadline(row, next, stillBuffered) ==
    [next |-> next, state |-> IF stillBuffered THEN "waiting_gap" ELSE "ok",
     left |-> IF row.left = NoDeadline /\ stillBuffered THEN GapTimeout ELSE row.left]
AdvanceStreamWithoutCoalesce(row, next, stillBuffered) ==
    IF stillBuffered
    THEN [next |-> next, state |-> "waiting_gap", left |-> row.left]
    ELSE [next |-> next, state |-> "ok", left |-> NoDeadline]

(* advanceStream: a deadline that is running is inherited (COALESCE).      *)
AdvanceStream(row, next, stillBuffered) ==
    IF stillBuffered
    THEN [next |-> next, state |-> "waiting_gap",
          left |-> IF row.left = NoDeadline THEN GapTimeout ELSE row.left]
    ELSE [next |-> next, state |-> "ok", left |-> NoDeadline]

(* Mutant of MarkWaitingGap: the deadline is now().                        *)
MarkWaitingGapNow(row) ==
    IF row.state = "ok"
    THEN [row EXCEPT !.state = "waiting_gap", !.left = 0]
    ELSE row

(* markWaitingGap: WHERE state = 'ok'.                                     *)
MarkWaitingGap(row) ==
    IF row.state = "ok"
    THEN [row EXCEPT !.state = "waiting_gap", !.left = GapTimeout]
    ELSE row

-----------------------------------------------------------------------------
(* What publish() decides about command c, in the order it decides it.     *)

NeedsResync(c) ==
    /\ stream[c.device].state = "resync_required"
    /\ c.seq # stream[c.device].next

PositionTaken(c) == messages[c.device][c.seq].status # "none"

(* The insert is not attempted, or meets the row at its own position.      *)
ReadsExisting(c) ==
    /\ ~NeedsResync(c)
    /\ c.seq < stream[c.device].next \/ PositionTaken(c)

(* adoptExistingMessage answers with the row that is there.  It writes     *)
(* nothing but the operation, which IdempotencyOperations keeps.           *)
Adopts(c) ==
    /\ ReadsExisting(c)
    /\ PositionTaken(c)
    /\ messages[c.device][c.seq].content = c.content

(* Mutant of Insertable: an upsert instead of an insert.                   *)
InsertableAnyway(c) == ~NeedsResync(c) /\ c.device \in Members

(* The INSERT of a message at a free position succeeds.                    *)
Insertable(c) ==
    /\ ~NeedsResync(c)
    /\ ~ReadsExisting(c)
    /\ ~MessageIdTaken(messages[c.device], c.content)
    /\ c.device \in Members

(* publishAndDrain *)
PublishAndDrain(c) ==
    LET d    == c.device
        rows == [messages[d] EXCEPT ![c.seq] =
                    [NoMessage EXCEPT !.content = c.content, !.status = "buffered"]]
    IN  /\ Insertable(c)
        /\ c.seq = stream[d].next
        /\ active # {}              \* delivery_batches CHECK (expected_count >= 1)
        /\ \E end \in (c.seq + 1)..(MaxClientSequence + 1) :
            LET drained == PublishRun(rows, c.seq, end)
            IN  /\ CascadeEnds(rows, c.seq, end)
                /\ messages' = [messages EXCEPT ![d] = drained]
                /\ nextServer' = nextServer + (end - c.seq)
                /\ stream' = [stream EXCEPT ![d] =
                                AdvanceStream(@, end, HasBuffered(drained))]
        /\ UNCHANGED active

(* buffer: the message waits, without server sequence and deliveries.      *)
BufferMessage(c) ==
    LET d == c.device
    IN  /\ Insertable(c)
        /\ c.seq > stream[d].next
        /\ messages' = [messages EXCEPT ![d][c.seq] =
                [NoMessage EXCEPT !.content = c.content, !.status = "buffered"]]
        /\ stream' = [stream EXCEPT ![d] = MarkWaitingGap(@)]
        /\ UNCHANGED <<active, nextServer>>

(* Mutant of CanResync: the pointer may move back.                         *)
CanResyncBackwards(d, from) == TRUE

(* Else InvalidResyncError.                                                *)
CanResync(d, from) == from >= stream[d].next

(* resync and its drainFrom.  Any device may ask, a member or not.         *)
Resync(d, from) ==
    /\ CanResync(d, from)
    /\ \E end \in from..(MaxClientSequence + 1) :
        LET drained == PublishRun(messages[d], from, end)
            reset   == [next |-> from, state |-> "ok", left |-> NoDeadline]
        IN  /\ CascadeEnds(messages[d], from, end)
            /\ end > from => active # {}
            /\ messages' = [messages EXCEPT ![d] = drained]
            /\ nextServer' = nextServer + (end - from)
            /\ stream' = [stream EXCEPT ![d] =
                            AdvanceStream(reset, end, HasBuffered(drained))]
    /\ UNCHANGED active

GapExpired(row) == row.state = "waiting_gap" /\ row.left = Overdue

(* Mutant of ExpireOverdueGaps: the CronJob gives the position up.         *)
ExpireAndSkip ==
    /\ \E d \in Devices : GapExpired(stream[d])
    /\ stream' = [d \in Devices |->
                    IF GapExpired(stream[d]) /\ stream[d].next < MaxClientSequence
                    THEN [next |-> stream[d].next + 1, state |-> "resync_required",
                          left |-> NoDeadline]
                    ELSE stream[d]]
    /\ UNCHANGED <<active, nextServer, messages>>

(* expireOverdueGaps, the body of the gaps-expire CronJob: one UPDATE of   *)
(* every stream whose deadline has passed.                                 *)
ExpireOverdueGaps ==
    /\ \E d \in Devices : GapExpired(stream[d])
    /\ stream' = [d \in Devices |->
                    IF GapExpired(stream[d])
                    THEN [stream[d] EXCEPT !.state = "resync_required", !.left = NoDeadline]
                    ELSE stream[d]]
    /\ UNCHANGED <<active, nextServer, messages>>

(* External: removed_at is set on a member.                                *)
LeaveConversation(d) ==
    /\ d \in active
    /\ active' = active \ {d}
    /\ UNCHANGED <<stream, nextServer, messages>>

(* External: the clock of PostgreSQL advances one tick.                    *)
Tick ==
    /\ \E d \in Devices : stream[d].left >= 0
    /\ stream' = [d \in Devices |->
                    IF stream[d].left >= 0
                    THEN [stream[d] EXCEPT !.left = @ - 1]
                    ELSE stream[d]]
    /\ UNCHANGED <<active, nextServer, messages>>

Next ==
    \/ \E c \in Commands : PublishAndDrain(c) \/ BufferMessage(c)
    \/ \E d \in Devices, from \in ClientSequences : Resync(d, from)
    \/ ExpireOverdueGaps
    \/ \E d \in Devices : LeaveConversation(d)
    \/ Tick

Spec == Init /\ [][Next]_vars

(* The CronJob runs every minute and time passes; nothing is promised      *)
(* about clients.                                                          *)
Fairness == WF_vars(Tick) /\ WF_vars(ExpireOverdueGaps)

-----------------------------------------------------------------------------
(* Safety *)

(* I5, the visible order has no holes and no duplicates: the messages that *)
(* are published carry exactly the server sequences 1..nextServer-1, each  *)
(* one once.  Every path that publishes (direct, cascade, resync) has to   *)
(* assign and advance in agreement.                                        *)
PublishedServers == {s \in 1..(nextServer - 1) :
                        \E d \in Devices, n \in ClientSequences :
                            Published(d, n) /\ messages[d][n].server = s}

VisibleOrderGapless ==
    /\ \A d \in Devices, n \in ClientSequences :
        /\ Published(d, n) => messages[d][n].server \in 1..(nextServer - 1)
        /\ ~Published(d, n) => messages[d][n].server = 0
    /\ PublishedServers = 1..(nextServer - 1)
    /\ \A d1, d2 \in Devices : \A n1, n2 \in ClientSequences :
        /\ Published(d1, n1)
        /\ Published(d2, n2)
        /\ messages[d1][n1].server = messages[d2][n2].server
        => d1 = d2 /\ n1 = n2

(* I6, readers see the messages of a device in the order it numbered them, *)
(* whatever order they arrived in and whichever path published them.       *)
StreamOrderVisible ==
    \A d \in Devices : \A m, n \in ClientSequences :
        Published(d, m) /\ Published(d, n) /\ m < n
            => messages[d][m].server < messages[d][n].server

(* Everything visible lies below the stream's pointer, and the pointer     *)
(* itself never rests on a message: a cascade that stopped early, or a     *)
(* resync that did not drain, would leave a received message that can      *)
(* neither be published nor sent again.                                    *)
PointerAtFreePosition ==
    \A d \in Devices, n \in ClientSequences :
        /\ Published(d, n) => n < stream[d].next
        /\ n = stream[d].next => messages[d][n].status = "none"

WaitsAhead(d)  == \E n \in ClientSequences : n > stream[d].next /\ Buffered(d, n)
LeftBehind(d) == \E n \in ClientSequences : n < stream[d].next /\ Buffered(d, n)

(* While a message waits ahead of the pointer, its stream shows a gap with *)
(* a deadline running, or asks for a resync: no statement returns it to ok *)
(* and leaves the client without a reason to act.  A stream that is not ok *)
(* has a buffered message; one that a resync jumped over is enough, and    *)
(* may stay so for ever (see WaitingMeansAhead).  The deadline runs only   *)
(* in a gap, as the CHECK gap_deadline_matches_state asks.                 *)
WaitingIsAccounted ==
    \A d \in Devices :
        /\ WaitsAhead(d) => stream[d].state # "ok"
        /\ stream[d].state # "ok" => WaitsAhead(d) \/ LeftBehind(d)
        /\ (stream[d].state = "waiting_gap") = (stream[d].left # NoDeadline)

(* Migration 0001, line 75: waiting_gap says that a sequence greater than  *)
(* the expected one has arrived.  The code does otherwise once a resync    *)
(* has jumped over a buffered message: that one is below the pointer, can  *)
(* be neither published nor sent again, and keeps the stream waiting.      *)
WaitingMeansAhead ==
    \A d \in Devices : stream[d].state = "waiting_gap" => WaitsAhead(d)

(* I6 and I8, a message has recipients exactly when it is published: none  *)
(* are snapshotted while it waits, and no batch is empty.                  *)
DeliveredIffVisible ==
    \A d \in Devices, n \in ClientSequences :
        Published(d, n) <=> messages[d][n].recipients # {}

(* ADR 0002, order over availability: the pointer moves past a position    *)
(* that is not published only when the client asks for it.                 *)
OnlyResyncSkips ==
    [][\A d \in Devices :
        (\E n \in ClientSequences :
            n \in stream[d].next..(stream'[d].next - 1) /\ ~Published(d, n)')
        => \E from \in ClientSequences : Resync(d, from)]_vars

(* A client that keeps sending 5, 6, 7 while 2 is missing does not push    *)
(* the deadline of the gap away: only moving the pointer, or a resync, may *)
(* give a waiting stream more time.                                        *)
DeadlineNotExtended ==
    [][\A d \in Devices :
        /\ stream[d].state = "waiting_gap"
        /\ stream'[d].state = "waiting_gap"
        /\ stream'[d].left > stream[d].left
        => \E from \in ClientSequences : Resync(d, from)]_vars

(* Once visible, always visible and unchanged, with the same recipients:   *)
(* no later send, cascade, resync or departure touches a published row.    *)
PublishedIsFinal ==
    [][\A d \in Devices, n \in ClientSequences :
        Published(d, n) => messages'[d][n] = messages[d][n]]_vars

-----------------------------------------------------------------------------
(* Refinement: the published messages in server order are a ConversationLog. *)

EntryAt(s) == CHOOSE e \in Devices \X ClientSequences :
                messages[e[1]][e[2]].server = s

VisibleLog == [s \in 1..(nextServer - 1) |-> EntryAt(s)]

Log == INSTANCE ConversationLog
        WITH log <- VisibleLog, cursor <- [d \in Devices |-> stream[d].next]

(* Readers only ever see an append-only log with every device in order.    *)
ImplementsConversationLog == Log!CheckableSpec

-----------------------------------------------------------------------------
(* Liveness *)

ClientResyncs == \E d \in Devices, from \in ClientSequences : Resync(d, from)

(* ADR 0002, "waiting for ever is no solution either": a buffered message  *)
(* is eventually published or its stream asks for a resync, unless clients *)
(* resync again and again (each resync starts a fresh deadline).           *)
BufferedIsResolved ==
    \/ []<><<ClientResyncs>>_vars
    \/ \A d \in Devices : \A n \in ClientSequences :
        Buffered(d, n) ~> (Published(d, n) \/ stream[d].state = "resync_required")
=============================================================================
