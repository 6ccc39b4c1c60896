----------------------------- MODULE MCOutbound -----------------------------
(* Small instances of the outbound queue for TLC.                          *)
EXTENDS OutboundQueue, TLC

CONSTANTS j1, j2, n1, n2, w1, w2

(* Two messages to one recipient: what STOP must catch together.           *)
OneRecipient == [j \in {j1, j2} |-> n1]

WorkerSymmetry == Permutations({w1, w2})
=============================================================================
