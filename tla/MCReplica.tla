----------------------------- MODULE MCReplica -----------------------------
(***************************************************************************)
(* A send to one stream, a resync of another, two acks, and a sweep of     *)
(* both streams, over a pool of two connections.                           *)
(***************************************************************************)
EXTENDS Replica, TLC

CONSTANTS send, resync, ack1, ack2, sweep, s1, s2

KindOf == (send :> "send") @@ (resync :> "resync") @@ (ack1 :> "ack") @@ (ack2 :> "ack")
            @@ (sweep :> "sweep")

StreamFor == [r \in Requests |-> IF r = resync THEN s2 ELSE s1]
=============================================================================
