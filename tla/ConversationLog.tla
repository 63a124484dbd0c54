--------------------------- MODULE ConversationLog ---------------------------
(***************************************************************************)
(* What one conversation promises to its readers, with no database, no     *)
(* buffer and no timer: an append-only log of messages, numbered by        *)
(* server_sequence, in which the messages of each sending device appear in *)
(* the order of that device's client_sequence.                             *)
(*                                                                         *)
(* A device owns a cursor, the next client_sequence it may append from.    *)
(* One step appends a contiguous run of the device's messages and moves    *)
(* the cursor past it.  The run may start beyond the cursor: positions are *)
(* then given up, and can never be appended later.  Who may do that is not *)
(* said here (see OnlyResyncSkips in MessageStream).                       *)
(*                                                                         *)
(* MessageStream implements this module.                                   *)
(***************************************************************************)
EXTENDS Integers, Sequences

CONSTANT Devices    \* the sending devices

VARIABLES
    log,            \* <<device, client_sequence>> pairs; the index is server_sequence
    cursor          \* the next client_sequence of each device

vars == <<log, cursor>>

(* The entries of one append: client sequences from .. from+k-1 of d.      *)
Run(d, from, k) == [i \in 1..k |-> <<d, from + i - 1>>]

Init ==
    /\ log = <<>>
    /\ cursor = [d \in Devices |-> 1]

AppendRun(d, from, k) ==
    /\ from >= cursor[d]
    /\ log' = log \o Run(d, from, k)
    /\ cursor' = [cursor EXCEPT ![d] = from + k]

Next == \E d \in Devices, from \in Nat, k \in Nat : AppendRun(d, from, k)

Spec == Init /\ [][Next]_vars

-----------------------------------------------------------------------------
(* The form TLC can evaluate: every step of Next, stated as a relation     *)
(* between the old and the new value instead of as a choice of run.        *)
AppendOnly ==
    \E d \in Devices :
        LET k    == Len(log') - Len(log)
            from == cursor'[d] - k
        IN  /\ k >= 0
            /\ from \in Nat
            /\ AppendRun(d, from, k)

CheckableSpec == Init /\ [][AppendOnly]_vars
=============================================================================
