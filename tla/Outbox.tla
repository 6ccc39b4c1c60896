------------------------------- MODULE Outbox -------------------------------
(***************************************************************************)
(* What the outbound queue promises to those who put messages into it: a   *)
(* message is open from its submission until it is settled, the provider   *)
(* is given it only while it is open, it is reported sent only if the      *)
(* provider took it, and once settled it stays as it is.  How messages are *)
(* claimed, leased, retried and abandoned is nobody else's concern.        *)
(***************************************************************************)
CONSTANT Jobs

VARIABLES phase,    \* absent, open, sent, failed or cancelled
          accepted  \* the messages the provider has taken

Init == /\ phase = [j \in Jobs |-> "absent"]
        /\ accepted = {}

Submit(j) == /\ phase[j] = "absent"
             /\ phase' = [phase EXCEPT ![j] = "open"]
             /\ UNCHANGED accepted

(* The provider takes an open message, again perhaps: the same idempotency *)
(* key makes that one message for the recipient.                           *)
Accept(j) == /\ phase[j] = "open"
             /\ accepted' = accepted \cup {j}
             /\ UNCHANGED phase

Deliver(j) == /\ phase[j] = "open"
              /\ j \in accepted
              /\ phase' = [phase EXCEPT ![j] = "sent"]
              /\ UNCHANGED accepted

GiveUp(j) == /\ phase[j] = "open"
             /\ phase' = [phase EXCEPT ![j] = "failed"]
             /\ UNCHANGED accepted

(* A STOP cancels some of the open messages at once.                       *)
Cancel(S) == /\ \A j \in S : phase[j] = "open"
             /\ phase' = [j \in Jobs |-> IF j \in S THEN "cancelled" ELSE phase[j]]
             /\ UNCHANGED accepted

Next == \/ \E j \in Jobs : Submit(j) \/ Accept(j) \/ Deliver(j) \/ GiveUp(j)
        \/ \E S \in SUBSET Jobs : Cancel(S)

Spec == Init /\ [][Next]_<<phase, accepted>>
=============================================================================
