--------------------------- MODULE MCMessageStream ---------------------------
(***************************************************************************)
(* Small instances of GapDeadline.  Device d sends one message per         *)
(* position; on top of that a client that numbers its messages badly sends *)
(* the message of position 3 again at position 2.  d3 is no member.        *)
(***************************************************************************)
EXTENDS GapDeadline

CONSTANTS d1, d2, d3, none

Text(d, n) == [id |-> <<d, n>>, body |-> "text"]

Send(d, n) == [device |-> d, seq |-> n, content |-> Text(d, n)]

MCContents == {Text(d, n) : d \in Devices, n \in ClientSequences}

(* Two members and a stranger: interleaved streams, departures.            *)
TwoMembers == {d1, d2}
WithStranger == {d1, d2, d3}
TwoStreams ==
    {Send(d1, n) : n \in ClientSequences} \cup {Send(d2, 1), Send(d2, 2), Send(d3, 1)}
    \cup {[device |-> d1, seq |-> 2, content |-> Text(d1, 3)]}

(* One long stream.                                                        *)
OneMember == {d1}
OneStream == {Send(d1, n) : n \in ClientSequences}
=============================================================================
