----------------------------- MODULE MCDelivery -----------------------------
(* Small instances of the delivery reports for TLC.                        *)
EXTENDS Delivery, TLC

CONSTANTS e1, e2, m1, h1, h2, w1

(* The two reports every message gets.                                     *)
OneMessage == (e1 :> m1) @@ (e2 :> m1)
SentThenDelivered == (e1 :> "sent") @@ (e2 :> "delivered")
=============================================================================
