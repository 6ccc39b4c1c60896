----------------------------- MODULE MCInbound -----------------------------
(* Small instances of the inbound messages for TLC.                        *)
EXTENDS Inbound, TLC

CONSTANTS e1, e2, n1, h1, h2, w1, w2

(* A STOP and another message of the same sender, on two of our lines.     *)
OneSender == (e1 :> n1) @@ (e2 :> n1)
StopThenOther == (e1 :> "stop") @@ (e2 :> "other")
BothLines == (e1 :> "main") @@ (e2 :> "other")

(* One STOP to a line other than FromNumber.                               *)
OneSender1 == e1 :> n1
OneStop == e1 :> "stop"
OtherLine == e1 :> "other"
=============================================================================
