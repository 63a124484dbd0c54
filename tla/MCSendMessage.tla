--------------------------- MODULE MCSendMessage ---------------------------
(***************************************************************************)
(* Small instances of SendMessage: one device, two positions, and callers  *)
(* chosen so that keys and messages collide in every way a client can make *)
(* them collide.                                                           *)
(***************************************************************************)
EXTENDS SendMessage, TLC

CONSTANTS d1, none, k1, k2, k3, r1, r2, r3

Text(n, body) == [id |-> n, body |-> body]
MCContents == {Text(n, b) : n \in 1..MaxClientSequence, b \in {"text", "edited"}}

Message(n, body) == [device |-> d1, seq |-> n, content |-> Text(n, body)]
MCCommands == {Message(n, b) : n \in 1..MaxClientSequence, b \in {"text", "edited"}}

MCDevices == {d1}

(* r1 and r2 resend one request; r3 uses its key for another body.         *)
OneKey == {k1}
ReuseKeyOf == r1 :> k1 @@ r2 :> k1 @@ r3 :> k1
ReuseCommandOf == r1 :> Message(1, "text") @@ r2 :> Message(1, "text")
                    @@ r3 :> Message(1, "edited")

(* r1 and r2 send the second message under two keys, r3 the first one.     *)
ThreeKeyOf == r1 :> k1 @@ r2 :> k2 @@ r3 :> k3
ThreeKeys == {k1, k2, k3}
DrainCommandOf == r1 :> Message(2, "text") @@ r2 :> Message(2, "text")
                    @@ r3 :> Message(1, "text")
=============================================================================
