------------------------------ MODULE Campaign ------------------------------
(***************************************************************************)
(* What the workflow engine promises for one enrollment of a contact: it   *)
(* gets going once, sends its messages one after the other and never one   *)
(* twice, and ends once: with all of them sent, by a reply, by a STOP or   *)
(* by a failure.  What it leaves for the CRM to do is decided by how it    *)
(* ends.  Claims, leases, retries and stale copies are nobody's concern.   *)
(***************************************************************************)
EXTENDS Naturals

CONSTANTS FollowUp,  \* the tasks a campaign without messages leaves behind
          Answer     \* what a reply leaves behind

VARIABLES phase,    \* absent, open, completed, suppressed or failed
          length,   \* how many messages there are
          sent,     \* the numbers of those sent
          outcome   \* what is left for the CRM to do

campaignVars == <<phase, length, sent, outcome>>

Init == /\ phase = "absent"
        /\ length \in Nat
        /\ sent = {}
        /\ outcome = {}

Start == /\ phase = "absent"
         /\ phase' = "open"
         /\ UNCHANGED <<length, sent, outcome>>

Send == /\ phase = "open"
        /\ \E k \in 1..length : sent = 1..(k - 1) /\ sent' = 1..k
        /\ UNCHANGED <<phase, length, outcome>>

Finish == /\ phase = "open"
          /\ sent = 1..length
          /\ phase' = "completed"
          /\ outcome' = IF length = 0 THEN FollowUp ELSE outcome
          /\ UNCHANGED <<length, sent>>

Answered == /\ phase = "open"
            /\ phase' = "completed"
            /\ outcome' = Answer
            /\ UNCHANGED <<length, sent>>

Stopped == /\ phase = "open"
           /\ phase' = "suppressed"
           /\ UNCHANGED <<length, sent, outcome>>

(* A failure may be noticed late and then stands for how it ended.         *)
Failed == /\ phase # "absent"
          /\ phase' = "failed"
          /\ UNCHANGED <<length, sent, outcome>>

Next == Start \/ Send \/ Finish \/ Answered \/ Stopped \/ Failed

(* A step of whatever implements it.                                       *)
Step == [Next]_campaignVars

Spec == Init /\ [][Next]_campaignVars
=============================================================================
