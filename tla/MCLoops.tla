------------------------------ MODULE MCLoops ------------------------------
(* Small instances of the two loops for TLC.                               *)
EXTENDS Loops, MCEnrollments

CONSTANTS j1, j2, n1

(* Two messages to one recipient.                                          *)
OneRecipient == [j \in {j1, j2} |-> n1]
=============================================================================
