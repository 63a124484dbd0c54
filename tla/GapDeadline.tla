----------------------------- MODULE GapDeadline -----------------------------
(***************************************************************************)
(* MessageStream with one history variable: how long each buffered message *)
(* has been waiting (messages.created_at against the database clock).  It  *)
(* tells how old the gap in front of the stream's pointer is when the      *)
(* CronJob is about to expire it.                                          *)
(***************************************************************************)
EXTENDS MessageStream

VARIABLE waited     \* ticks since a buffered message arrived, 0 for the others

gapVars == <<vars, waited>>

(* Ages stop one tick after the timeout: nothing tells them apart later.   *)
Older(age) == IF age > GapTimeout THEN age ELSE age + 1

GapInit == Init /\ waited = [d \in Devices |-> [n \in ClientSequences |-> 0]]

Ages(step) ==
    waited' = [d \in Devices |-> [n \in ClientSequences |->
                IF Buffered(d, n) /\ Buffered(d, n)' THEN step[waited[d][n]] ELSE 0]]

Same == [age \in 0..(GapTimeout + 1) |-> age]
Aged == [age \in 0..(GapTimeout + 1) |-> Older(age)]

GapNext ==
    \/ Tick /\ Ages(Aged)
    \/ Next /\ ~Tick /\ Ages(Same)

GapSpec == GapInit /\ [][GapNext]_gapVars

GapFairSpec == GapSpec /\ Fairness

(* A gap lies ahead of the pointer: something above it has arrived.        *)
AheadOf(d) == {n \in ClientSequences : n > stream[d].next /\ Buffered(d, n)}

(* ADR 0002 and markWaitingGap: the deadline "measures from when the gap   *)
(* appeared".  True of the first gap of a stream, the one its pointer has  *)
(* stood at from the start: it never expires early, whatever else arrives  *)
(* or however often the client resyncs to the same position.  (A second    *)
(* gap inherits the deadline of the first through advanceStream.)          *)
FirstGapGetsFullTimeout ==
    \A d \in Devices :
        GapExpired(stream[d]) /\ stream[d].next = 1
            => \E n \in AheadOf(d) : waited[d][n] > GapTimeout
=============================================================================
