----------------------------- MODULE MCDelivery -----------------------------
(***************************************************************************)
(* Small instances of Delivery: one message for two devices, or two        *)
(* messages for one device, and a device that acks twice at the same time. *)
(***************************************************************************)
EXTENDS Delivery, TLC

CONSTANTS m1, m2, d1, d2, a1, a2, a3, s1, s2

Ack(m, d, s) == [message |-> m, device |-> d, state |-> s]

(* One message: d1 acks delivered and read concurrently, d2 reads.         *)
OneMessage == {m1}
TwoDevices == m1 :> {d1, d2}
ThreeAckers == {a1, a2, a3}
RacingAcks == a1 :> Ack(m1, d1, "delivered") @@ a2 :> Ack(m1, d1, "read")
                @@ a3 :> Ack(m1, d2, "delivered")

(* Two messages for one device, one sweep that takes one batch at a time.  *)
TwoMessages == {m1, m2}
OneDevice == m1 :> {d1} @@ m2 :> {d1}
ReadingAcks == a1 :> Ack(m1, d1, "delivered") @@ a2 :> Ack(m1, d1, "read")
                @@ a3 :> Ack(m2, d1, "read")

(* The CronJob, and the same script run by hand beside it.                 *)
OneSweeper == {s1}
TwoSweepers == {s1, s2}
=============================================================================
