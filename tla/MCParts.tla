------------------------------ MODULE MCParts ------------------------------
EXTENDS Parts, TLC

CONSTANTS t1, t2, t3, w1, w2, note, archive, c1, c2, c3, p1, p2, b1, b2, s1, s2

(* Contacts in two time zones; the second's window is open at the start.   *)
TwoZones == t1 :> 0 @@ t2 :> 2 @@ t3 :> 2
OneZone  == [t \in Texts |-> 1]

(* One text per period, and two.                                           *)
TwoRates == {[batch |-> 1, per |-> 2], [batch |-> 2, per |-> 2]}
OnePerPeriod == {[batch |-> 1, per |-> 2]}
TwoPerPeriod == {[batch |-> 2, per |-> 3]}
=============================================================================
