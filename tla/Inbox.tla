------------------------------- MODULE Inbox -------------------------------
(***************************************************************************)
(* What the tables of provider events (inbound_messages, delivery_events)  *)
(* promise: an event that was received is open until it is done, which it  *)
(* becomes only after it was handled, or until it is given up as a dead    *)
(* letter; it never becomes both, and is not handled once it is either.    *)
(***************************************************************************)
CONSTANT Events

VARIABLES phase,   \* absent, open, done or dead
          handled  \* the events HighLevel was told of

Init == /\ phase = [e \in Events |-> "absent"]
        /\ handled = {}

Receive(e) == /\ phase[e] = "absent"
              /\ phase' = [phase EXCEPT ![e] = "open"]
              /\ UNCHANGED handled

Handle(e) == /\ phase[e] = "open"
             /\ handled' = handled \cup {e}
             /\ UNCHANGED phase

Finish(e) == /\ phase[e] = "open"
             /\ e \in handled
             /\ phase' = [phase EXCEPT ![e] = "done"]
             /\ UNCHANGED handled

Bury(e) == /\ phase[e] = "open"
           /\ phase' = [phase EXCEPT ![e] = "dead"]
           /\ UNCHANGED handled

Next == \E e \in Events : Receive(e) \/ Handle(e) \/ Finish(e) \/ Bury(e)

Spec == Init /\ [][Next]_<<phase, handled>>
=============================================================================
