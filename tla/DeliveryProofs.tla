--------------------------- MODULE DeliveryProofs ---------------------------
(***************************************************************************)
(* Theorems about Delivery, for any events, messages, processes and        *)
(* bounds.  How often HighLevel is told of a report is proved whatever the *)
(* leases do: the times it was told, the processes that have yet to tell   *)
(* it, and one more if the report can be claimed, are at most one more     *)
(* than what was lost (ShareInv).  That the table is an inbox is about the *)
(* reports whose leases nobody outlives: a process that works on one works *)
(* on it alone, and it is open (HoldInv).                                  *)
(***************************************************************************)
EXTENDS Delivery, FiniteSetTheorems, TLAPS

(* Does p have an event in hand that is in the table?                      *)
Working(p) == at[p].pc \notin {"idle", "insert"}

TypeInv ==
    /\ TypeOK
    /\ \A p \in Procs : at[p].pc # "idle" => Event(p) \in Events
    /\ \A p \in Procs : Working(p) => Event(p) \in recorded

(* A step in which p goes on with its event, or puts it down.              *)
Moves(p) ==
    /\ at' \in [Procs -> Slot]
    /\ \A q \in Procs \ {p} : at'[q] = at[q]
    /\ \/ at'[p] = Idle
       \/ at'[p].pc \notin {"idle", "insert"} /\ at'[p].ev = at[p].ev

LEMMA IdleSlot == Idle \in Slot
  BY DeliveryAssumption DEF Idle, Slot, Steps

LEMMA GoToMoves ==
    ASSUME at \in [Procs -> Slot], NEW p \in Procs,
           NEW step \in Steps \ {"idle", "insert"}, GoTo(p, step)
    PROVE  Moves(p) /\ at'[p].pc = step /\ at'[p].ev = at[p].ev
  BY DEF GoTo, Moves, Slot

LEMMA ReleaseMoves ==
    ASSUME at \in [Procs -> Slot], NEW p \in Procs, Release(p)
    PROVE  Moves(p) /\ at'[p] = Idle
  BY IdleSlot DEF Release, Moves

LEMMA ErrorMoves ==
    ASSUME at \in [Procs -> Slot], NEW p \in Procs, AfterError(p)
    PROVE  Moves(p) /\ at'[p].pc \in {"idle", "retry", "drop"}
<1>1. CASE Release(p)
  BY <1>1, ReleaseMoves DEF Idle
<1>2. CASE GoTo(p, "retry") \/ GoTo(p, "drop")
  BY <1>2, GoToMoves DEF Steps
<1> QED  BY <1>1, <1>2 DEF AfterError

(* The steps of a process whose event is in the table.                     *)
ProcessStep(p) ==
    \/ Respond(p) \/ FindOutbound(p) \/ UpdateMessageStatus(p) \/ UpdateFails(p)
    \/ MarkDeliverySynced(p) \/ RetryDelivery(p) \/ FailDelivery(p)
    \/ StoreError(p) \/ Crash(p)

LEMMA StepMoves ==
    ASSUME at \in [Procs -> Slot], NEW p \in Procs, ProcessStep(p)
    PROVE  /\ Moves(p)
           /\ Working(p) \/ at'[p] = Idle
           /\ at'[p].pc = "mark" => UpdateMessageStatus(p)
<1>1. CASE Respond(p)
  BY <1>1, GoToMoves DEF Respond, Working, Steps
<1>2. CASE FindOutbound(p)
  BY <1>2, GoToMoves, ErrorMoves DEF FindOutbound, Working, Steps
<1>3. CASE UpdateMessageStatus(p)
  BY <1>3, GoToMoves, ErrorMoves DEF UpdateMessageStatus, Working, Steps
<1>4. CASE UpdateFails(p)
  BY <1>4, ErrorMoves DEF UpdateFails, Working
<1>5. CASE MarkDeliverySynced(p) \/ RetryDelivery(p) \/ FailDelivery(p) \/ Crash(p)
  BY <1>5, ReleaseMoves DEF MarkDeliverySynced, RetryDelivery, FailDelivery, Crash, Idle
<1>6. CASE StoreError(p)
  BY <1>6, ReleaseMoves, ErrorMoves DEF StoreError, Working, Idle
<1> QED  BY <1>1, <1>2, <1>3, <1>4, <1>5, <1>6 DEF ProcessStep
-----------------------------------------------------------------------------
LEMMA InitType == Init => TypeInv
<1> SUFFICES ASSUME Init PROVE TypeInv
  OBVIOUS
<1> USE DeliveryAssumption DEF Init
<1>1. at \in [Procs -> Slot] /\ \A p \in Procs : at[p].pc = "idle"
  BY IdleSlot DEF Idle
<1>2. lease \in [Events -> Leases] /\ attempts \in [Events -> 0..MaxAttempts]
  BY DEF Leases
<1>3. shown \in [Messages -> Statuses]
  BY DEF Statuses
<1>4. told \in [Events -> Nat] /\ lost \in [Events -> Nat] /\ faults \in 0..MaxFaults
  OBVIOUS
<1>5. /\ recorded \in SUBSET Events /\ synced \in SUBSET recorded
      /\ failed \in SUBSET recorded /\ completed \in SUBSET Messages
  OBVIOUS
<1> QED  BY <1>1, <1>2, <1>3, <1>4, <1>5 DEF TypeInv, TypeOK, Working

(* The part of the type invariant that is about the processes survives     *)
(* every move of a process whose event is in the table.                    *)
LEMMA MoveType ==
    ASSUME TypeInv, NEW p \in Procs, Moves(p), Working(p) \/ at'[p] = Idle,
           recorded \subseteq recorded'
    PROVE  /\ \A q \in Procs : at'[q].pc # "idle" => at'[q].ev \in Events
           /\ \A q \in Procs : at'[q].pc \notin {"idle", "insert"} => at'[q].ev \in recorded'
<1>1. at'[p] = Idle \/ (at'[p].ev = at[p].ev /\ at[p].ev \in recorded)
  BY DEF TypeInv, Moves, Working, Event
<1>2. recorded \subseteq Events
  BY DEF TypeInv, TypeOK
<1> QED  BY <1>1, <1>2 DEF TypeInv, Moves, Working, Event, Idle

LEMMA NextType == TypeInv /\ [Next]_vars => TypeInv'
<1> SUFFICES ASSUME TypeInv, [Next]_vars PROVE TypeInv'
  OBVIOUS
<1> USE DeliveryAssumption
<1>1. /\ recorded \in SUBSET Events /\ synced \in SUBSET recorded /\ failed \in SUBSET recorded
      /\ lease \in [Events -> Leases] /\ attempts \in [Events -> 0..MaxAttempts]
      /\ completed \in SUBSET Messages /\ at \in [Procs -> Slot]
      /\ shown \in [Messages -> Statuses]
      /\ told \in [Events -> Nat] /\ lost \in [Events -> Nat] /\ faults \in 0..MaxFaults
  BY DEF TypeInv, TypeOK
<1>2. \A p \in Procs : at[p].pc # "idle" => at[p].ev \in Events
  BY DEF TypeInv, Event
<1>3. \A p \in Procs : at[p].pc \notin {"idle", "insert"} => at[p].ev \in recorded
  BY DEF TypeInv, Working, Event
<1>4. Handlers \subseteq Procs /\ Workers \subseteq Procs
  BY DEF Procs
<1>5. CASE UNCHANGED vars
  BY <1>1, <1>2, <1>3, <1>5 DEF vars, table, highlevel, TypeInv, TypeOK, Working, Event
<1>6. ASSUME NEW m \in Messages, Complete(m) PROVE TypeInv'
  BY <1>1, <1>2, <1>3, <1>6 DEF Complete, table, highlevel, TypeInv, TypeOK, Working, Event
<1>7. ASSUME NEW e \in Events, LeaseExpires(e) PROVE TypeInv'
  BY <1>1, <1>2, <1>3, <1>7 DEF LeaseExpires, highlevel, Leases, TypeInv, TypeOK, Working, Event
<1>16. ASSUME NEW e \in Events, Overrun(e) PROVE TypeInv'
  <2>1. /\ lease' \in [Events -> Leases] /\ lost' \in [Events -> Nat]
        /\ faults' \in 0..MaxFaults
    BY <1>1, <1>16 DEF Overrun, Leases, Count, Fault
  <2> QED  BY <1>1, <1>2, <1>3, <1>16, <2>1
           DEF Overrun, highlevel, TypeInv, TypeOK, Working, Event
<1>8. ASSUME NEW h \in Handlers, NEW e \in Events, Deliver(h, e) PROVE TypeInv'
  <2>1. [pc |-> "insert", ev |-> e, tries |-> 0] \in Slot
    BY DEF Slot, Steps
  <2>2. at' \in [Procs -> Slot]
    BY <1>1, <1>8, <2>1 DEF Deliver
  <2>3. /\ \A q \in Procs : at'[q].pc # "idle" => at'[q].ev \in Events
        /\ \A q \in Procs : at'[q].pc \notin {"idle", "insert"} => at'[q].ev \in recorded
    BY <1>1, <1>2, <1>3, <1>8 DEF Deliver
  <2> QED  BY <1>1, <1>8, <2>2, <2>3 DEF Deliver, table, highlevel, TypeInv, TypeOK, Working, Event
<1>9. ASSUME NEW h \in Handlers, UpdateDelivery(h) PROVE TypeInv'
  <2> DEFINE e == at[h].ev
  <2>1. e \in Events /\ h \in Procs
    BY <1>2, <1>4, <1>9 DEF UpdateDelivery
  <2>2. recorded' = recorded \cup {e} /\ lease' \in [Events -> Leases]
        /\ UNCHANGED <<synced, failed, attempts, completed, highlevel, lost, faults>>
    BY <1>1, <1>9, <2>1 DEF UpdateDelivery, Event, Leases
  <2>3. Moves(h)
    BY <1>1, <1>9, <2>1, GoToMoves, ReleaseMoves DEF UpdateDelivery, Steps
  <2>4. /\ \A q \in Procs : at'[q].pc # "idle" => at'[q].ev \in Events
        /\ \A q \in Procs : at'[q].pc \notin {"idle", "insert"} => at'[q].ev \in recorded'
    BY <1>2, <1>3, <2>1, <2>2, <2>3 DEF Moves, Idle
  <2> HIDE DEF e
  <2> QED  BY <1>1, <2>1, <2>2, <2>3, <2>4 DEF Moves, highlevel, TypeInv, TypeOK, Working, Event
<1>10. ASSUME NEW w \in Workers, NEW e \in Events, ClaimUnprocessedDelivery(w, e) PROVE TypeInv'
  <2>1. Bump(attempts[e]) \in 0..MaxAttempts
    BY <1>1 DEF Bump
  <2>2. [pc |-> "find", ev |-> e, tries |-> Bump(attempts[e])] \in Slot
    BY <2>1 DEF Slot, Steps
  <2>3. at' \in [Procs -> Slot]
    BY <1>1, <1>10, <2>2 DEF ClaimUnprocessedDelivery, Take
  <2>4. lease' \in [Events -> Leases] /\ attempts' \in [Events -> 0..MaxAttempts]
    BY <1>1, <1>10, <2>1 DEF ClaimUnprocessedDelivery, Take, Leases
  <2>5. /\ \A q \in Procs : at'[q].pc # "idle" => at'[q].ev \in Events
        /\ \A q \in Procs : at'[q].pc \notin {"idle", "insert"} => at'[q].ev \in recorded
    BY <1>1, <1>2, <1>3, <1>10 DEF ClaimUnprocessedDelivery, Take
  <2> QED  BY <1>1, <1>10, <2>3, <2>4, <2>5
           DEF ClaimUnprocessedDelivery, Take, highlevel, TypeInv, TypeOK, Working, Event
(* The other steps are of a process whose event is in the table.           *)
<1>11. at \in [Procs -> Slot]
  BY <1>1
<1>12. ASSUME NEW p \in Procs, Respond(p) \/ FindOutbound(p) \/ UpdateFails(p) PROVE TypeInv'
  <2>1. Moves(p) /\ (Working(p) \/ at'[p] = Idle)
    BY <1>11, <1>12, StepMoves DEF ProcessStep
  <2>2. UNCHANGED <<table, completed, highlevel, lost, faults>>
    BY <1>12 DEF Respond, FindOutbound, UpdateFails
  <2> QED  BY <1>1, <2>1, <2>2, MoveType
           DEF Moves, table, highlevel, TypeInv, TypeOK, Working, Event
<1>13. ASSUME NEW p \in Procs, UpdateMessageStatus(p) PROVE TypeInv'
  <2>1. Moves(p) /\ (Working(p) \/ at'[p] = Idle)
    BY <1>11, <1>13, StepMoves DEF ProcessStep
  <2>2. at[p].ev \in Events /\ UNCHANGED <<table, completed, faults>>
    BY <1>2, <1>13 DEF UpdateMessageStatus
  <2>3. told' \in [Events -> Nat] /\ lost' \in [Events -> Nat]
    BY <1>1, <1>13, <2>2 DEF UpdateMessageStatus, Count, Event
  <2>4. shown' \in [Messages -> Statuses]
    BY <1>1, <1>13, <2>2 DEF UpdateMessageStatus, Event, highLevelDeliveryStatus, Statuses
  <2> QED  BY <1>1, <2>1, <2>2, <2>3, <2>4, MoveType
           DEF Moves, table, TypeInv, TypeOK, Working, Event
<1>14. ASSUME NEW p \in Procs, MarkDeliverySynced(p) \/ RetryDelivery(p) \/ FailDelivery(p)
       PROVE  TypeInv'
  <2>1. Moves(p) /\ at'[p] = Idle
    BY <1>1, <1>14, ReleaseMoves DEF MarkDeliverySynced, RetryDelivery, FailDelivery
  <2>2. at[p].ev \in recorded
    BY <1>3, <1>14 DEF MarkDeliverySynced, RetryDelivery, FailDelivery
  <2>3. /\ recorded' = recorded /\ synced' \in SUBSET recorded /\ failed' \in SUBSET recorded
        /\ lease' \in [Events -> Leases]
    BY <1>1, <1>14, <2>2 DEF MarkDeliverySynced, RetryDelivery, FailDelivery, Event, Leases
  <2>4. UNCHANGED <<attempts, completed, highlevel, lost, faults>>
    BY <1>14 DEF MarkDeliverySynced, RetryDelivery, FailDelivery
  <2> QED  BY <1>1, <2>1, <2>3, <2>4, MoveType DEF Moves, highlevel, TypeInv, TypeOK, Working, Event
<1>15. ASSUME NEW p \in Procs, StoreError(p) \/ Crash(p) PROVE TypeInv'
  <2>1. Moves(p) /\ (Working(p) \/ at'[p] = Idle)
    BY <1>11, <1>15, StepMoves DEF ProcessStep
  <2>2. at[p].ev \in Events /\ UNCHANGED <<table, completed, highlevel>>
    BY <1>2, <1>15 DEF StoreError, Crash
  <2>3. lost' \in [Events -> Nat] /\ faults' \in 0..MaxFaults
    BY <1>1, <1>15, <2>2 DEF StoreError, Crash, Lose, Count, Event, Fault
  <2> QED  BY <1>1, <2>1, <2>2, <2>3, MoveType
           DEF Moves, table, highlevel, TypeInv, TypeOK, Working, Event
<1> QED  BY <1>4, <1>5, <1>6, <1>7, <1>8, <1>9, <1>10, <1>12, <1>13, <1>14, <1>15, <1>16
         DEF Next, Handle, Process, End

LEMMA TypeInvariant == Spec => []TypeInv
  BY InitType, NextType, PTL DEF Spec

(* The types of everything in Delivery; what is synchronized or given up   *)
(* has a row.                                                              *)
THEOREM TypeCorrect == Spec => []TypeOK
<1>1. TypeInv => TypeOK
  BY DEF TypeInv
<1> QED  BY TypeInvariant, <1>1, PTL
-----------------------------------------------------------------------------
(* A report whose lease nobody outlives: whoever works on it has its       *)
(* lease, works on it alone, and it is open.                               *)
HoldInv ==
    /\ \A p \in Procs : Working(p) /\ Event(p) \in Timely =>
          lease[Event(p)] = "live" /\ Event(p) \notin synced \cup failed
    /\ \A p, q \in Procs :
          Working(p) /\ Working(q) /\ Event(p) = Event(q) /\ Event(p) \in Timely => p = q

(* What does not touch other processes' reports and starts no work keeps   *)
(* the leases in order.                                                    *)
LEMMA HoldFrame ==
    ASSUME HoldInv, NEW p \in Procs, Moves(p), Working(p) \/ at'[p] = Idle,
           \A q \in Procs : at'[q].pc \notin {"idle", "insert"} /\ at'[q].ev \in Timely =>
               /\ lease'[at'[q].ev] = lease[at'[q].ev]
               /\ at'[q].ev \notin (synced' \ synced) \cup (failed' \ failed)
    PROVE  HoldInv'
<1>1. ASSUME NEW q \in Procs, at'[q].pc \notin {"idle", "insert"}
      PROVE  Working(q) /\ at'[q].ev = at[q].ev
  BY <1>1 DEF Moves, Working, Idle
<1> QED  BY <1>1 DEF HoldInv, Working, Event

(* A report that gets a live lease, and one process to work on it.         *)
LEMMA HoldTake ==
    ASSUME TypeInv, HoldInv, NEW p \in Procs, NEW e \in Events,
           \A q \in Procs \ {p} : at'[q] = at[q],
           e \in Timely => \A q \in Procs \ {p} : Working(q) => at[q].ev # e,
           at'[p].ev = e, lease' = [lease EXCEPT ![e] = "live"],
           e \notin synced \cup failed, UNCHANGED <<synced, failed>>
    PROVE  HoldInv'
<1>1. lease \in [Events -> Leases]
  BY DEF TypeInv, TypeOK
<1>2. ASSUME NEW q \in Procs \ {p}, at'[q].pc \notin {"idle", "insert"}, at'[q].ev \in Timely
      PROVE  /\ Working(q) /\ at'[q].ev = at[q].ev /\ at[q].ev \in Events \ {e}
             /\ lease'[at[q].ev] = lease[at[q].ev]
  <2>1. Working(q) /\ at'[q].ev = at[q].ev /\ at[q].ev # e
    BY <1>2 DEF Working
  <2>2. at[q].ev \in Events
    BY <2>1 DEF TypeInv, Working, Event
  <2> QED  BY <1>1, <2>1, <2>2
<1>3. ASSUME NEW q \in Procs, at'[q].pc \notin {"idle", "insert"}, at'[q].ev \in Timely
      PROVE  lease'[at'[q].ev] = "live" /\ at'[q].ev \notin synced' \cup failed'
  BY <1>1, <1>2, <1>3 DEF HoldInv, Event
<1>4. ASSUME NEW q \in Procs, NEW r \in Procs, at'[q].pc \notin {"idle", "insert"},
             at'[r].pc \notin {"idle", "insert"}, at'[q].ev = at'[r].ev, at'[q].ev \in Timely
      PROVE  q = r
  BY <1>2, <1>4 DEF HoldInv, Event
<1> QED  BY <1>3, <1>4 DEF HoldInv, Working, Event

LEMMA NextHold ==
    ASSUME TypeInv, HoldInv, [Next]_vars
    PROVE  HoldInv'
<1> USE DeliveryAssumption
<1>1. at \in [Procs -> Slot] /\ lease \in [Events -> Leases]
  BY DEF TypeInv, TypeOK
<1>2. synced \subseteq recorded /\ failed \subseteq recorded
  BY DEF TypeInv, TypeOK
<1>3. Handlers \subseteq Procs /\ Workers \subseteq Procs
  BY DEF Procs
<1>4. CASE UNCHANGED vars
  BY <1>4 DEF vars, table, HoldInv, Working, Event
<1>5. ASSUME NEW m \in Messages, Complete(m) PROVE HoldInv'
  BY <1>5 DEF Complete, table, HoldInv, Working, Event
<1>6. ASSUME NEW e \in Events, LeaseExpires(e) PROVE HoldInv'
  <2>1. ASSUME NEW p \in Procs, Working(p) PROVE Event(p) # e /\ Event(p) \in Events
    BY <1>6, <2>1 DEF LeaseExpires, InHand, Working, TypeInv
  <2>2. ASSUME NEW p \in Procs, Working(p) PROVE lease'[Event(p)] = lease[Event(p)]
    BY <1>1, <1>6, <2>1, <2>2 DEF LeaseExpires
  <2> QED  BY <1>6, <2>2 DEF LeaseExpires, HoldInv, Working, Event
<1>11. ASSUME NEW e \in Events, Overrun(e) PROVE HoldInv'
  <2>1. ASSUME NEW d \in Timely PROVE lease'[d] = lease[d]
    BY <1>1, <1>11, <2>1 DEF Overrun
  <2> QED  BY <1>11, <2>1 DEF Overrun, HoldInv, Working, Event
<1>7. ASSUME NEW h \in Handlers, NEW e \in Events, Deliver(h, e) PROVE HoldInv'
  BY <1>1, <1>3, <1>7 DEF Deliver, table, HoldInv, Working, Event
<1>8. ASSUME NEW h \in Handlers, UpdateDelivery(h) PROVE HoldInv'
  <2> DEFINE e == at[h].ev
  <2>1. e \in Events /\ h \in Procs
    BY <1>3, <1>8 DEF UpdateDelivery, TypeInv, Event
  <2>2. CASE e \in recorded
    <3>1. Moves(h) /\ at'[h] = Idle /\ UNCHANGED <<lease, synced, failed>>
      BY <1>1, <1>8, <2>1, <2>2, ReleaseMoves DEF UpdateDelivery, Event
    <3> QED  BY <2>1, <3>1, HoldFrame
  <2>3. CASE e \notin recorded
    <3>1. /\ at'[h].ev = e /\ \A q \in Procs \ {h} : at'[q] = at[q]
          /\ lease' = [lease EXCEPT ![e] = "live"]
          /\ UNCHANGED <<synced, failed>>
      BY <1>1, <1>8, <2>1, <2>3, GoToMoves DEF UpdateDelivery, Event, Moves, Steps
    <3>2. /\ \A q \in Procs \ {h} : Working(q) => at[q].ev # e
          /\ e \notin synced \cup failed
      BY <1>2, <2>3 DEF TypeInv, Working, Event
    <3> HIDE DEF e
    <3> QED  BY <2>1, <3>1, <3>2, HoldTake
  <2> QED  BY <2>2, <2>3
<1>9. ASSUME NEW w \in Workers, NEW e \in Events, ClaimUnprocessedDelivery(w, e) PROVE HoldInv'
  <2>1. w \in Procs
    BY <1>3
  <2>2. /\ lease' = [lease EXCEPT ![e] = "live"] /\ UNCHANGED <<synced, failed>>
        /\ at'[w].ev = e /\ \A q \in Procs \ {w} : at'[q] = at[q]
        /\ lease[e] # "live" /\ e \notin synced \cup failed
    BY <1>1, <1>9, <2>1 DEF ClaimUnprocessedDelivery, Take
  <2>3. e \in Timely => \A q \in Procs \ {w} : Working(q) => at[q].ev # e
    BY <2>2 DEF HoldInv, Event
  <2> QED  BY <2>1, <2>2, <2>3, HoldTake
<1>10. ASSUME NEW p \in Procs, ProcessStep(p) PROVE HoldInv'
  <2>1. Moves(p) /\ (Working(p) \/ at'[p] = Idle)
    BY <1>1, <1>10, StepMoves
  <2>2. CASE UNCHANGED table
    BY <2>1, <2>2, HoldFrame DEF table
  <2>3. CASE MarkDeliverySynced(p) \/ RetryDelivery(p) \/ FailDelivery(p)
    <3>1. at'[p] = Idle /\ Working(p) /\ at[p].ev \in Events
      BY <1>1, <2>3, ReleaseMoves
         DEF MarkDeliverySynced, RetryDelivery, FailDelivery, Working, TypeInv, Event
    <3>2. /\ \A d \in Events \ {at[p].ev} : lease'[d] = lease[d]
          /\ synced' \subseteq synced \cup {at[p].ev} /\ failed' \subseteq failed \cup {at[p].ev}
      BY <1>1, <2>3, <3>1 DEF MarkDeliverySynced, RetryDelivery, FailDelivery, Event
    <3>3. ASSUME NEW q \in Procs, at'[q].pc \notin {"idle", "insert"}, at'[q].ev \in Timely
          PROVE  at'[q].ev \in Events \ {at[p].ev}
      BY <2>1, <3>1, <3>3 DEF Moves, HoldInv, TypeInv, Working, Event, Idle
    <3> QED  BY <2>1, <3>2, <3>3, HoldFrame
  <2> QED  BY <1>10, <2>2, <2>3 DEF ProcessStep, Respond, FindOutbound, UpdateMessageStatus,
              UpdateFails, StoreError, Crash, table
<1> QED  BY <1>3, <1>4, <1>5, <1>6, <1>7, <1>8, <1>9, <1>10, <1>11
         DEF Next, Handle, Process, End, ProcessStep
-----------------------------------------------------------------------------
(* Who is about to note it has told HighLevel, and who noted it has.       *)
MarkInv ==
    /\ \A p \in Procs : at[p].pc = "mark" => told[Event(p)] > 0
    /\ \A e \in synced : told[e] > 0

LEMMA NextMark ==
    ASSUME TypeInv, MarkInv, [Next]_vars
    PROVE  MarkInv'
<1> USE DeliveryAssumption
<1>1. /\ at \in [Procs -> Slot] /\ told \in [Events -> Nat] /\ synced \subseteq Events
      /\ Handlers \subseteq Procs /\ Workers \subseteq Procs
  BY DEF TypeInv, TypeOK, Procs
<1>2. ASSUME UNCHANGED <<told, synced>>, \A q \in Procs : at'[q].pc = "mark" => at'[q] = at[q]
      PROVE  MarkInv'
  BY <1>2 DEF MarkInv, Event
<1>3. CASE UNCHANGED vars
  BY <1>2, <1>3 DEF vars, table, highlevel
<1>4. CASE \/ \E m \in Messages : Complete(m)
           \/ \E e \in Events : LeaseExpires(e) \/ Overrun(e)
  BY <1>2, <1>4 DEF Complete, LeaseExpires, Overrun, table, highlevel
<1>5. ASSUME NEW h \in Handlers, NEW e \in Events, Deliver(h, e) PROVE MarkInv'
  BY <1>1, <1>2, <1>5 DEF Deliver, table, highlevel
<1>6. ASSUME NEW h \in Handlers, UpdateDelivery(h) PROVE MarkInv'
  <2>1. Moves(h) /\ at'[h].pc # "mark"
    BY <1>1, <1>6, GoToMoves, ReleaseMoves DEF UpdateDelivery, Steps, Idle
  <2> QED  BY <1>1, <1>2, <1>6, <2>1 DEF UpdateDelivery, highlevel, Moves
<1>7. ASSUME NEW w \in Workers, NEW e \in Events, ClaimUnprocessedDelivery(w, e) PROVE MarkInv'
  BY <1>1, <1>2, <1>7 DEF ClaimUnprocessedDelivery, Take, highlevel
<1>8. ASSUME NEW p \in Procs, ProcessStep(p) PROVE MarkInv'
  <2>1. Moves(p) /\ (at'[p].pc = "mark" => UpdateMessageStatus(p))
    BY <1>1, <1>8, StepMoves
  <2>2. CASE UpdateMessageStatus(p)
    <3>1. at[p].ev \in Events /\ told' = [told EXCEPT ![at[p].ev] = @ + 1] /\ synced' = synced
      BY <2>2 DEF UpdateMessageStatus, Count, TypeInv, Event, table
    <3>2. \A e \in Events : told[e] > 0 => told'[e] > 0
      BY <1>1, <3>1
    <3>3. told'[at[p].ev] > 0
      BY <1>1, <3>1
    <3>4. ASSUME NEW q \in Procs, at'[q].pc = "mark" PROVE told'[at'[q].ev] > 0
      <4>1. CASE q = p
        BY <2>1, <3>3, <3>4, <4>1 DEF Moves, Idle
      <4>2. CASE q # p
        <5>1. at'[q] = at[q] /\ at[q].ev \in Events
          BY <2>1, <3>4, <4>2 DEF Moves, TypeInv, Event
        <5> QED  BY <3>2, <3>4, <5>1 DEF MarkInv, Event
      <4> QED  BY <4>1, <4>2
    <3>5. ASSUME NEW e \in synced' PROVE told'[e] > 0
      BY <1>1, <3>1, <3>2, <3>5 DEF MarkInv
    <3> QED  BY <3>4, <3>5 DEF MarkInv, Event
  <2>3. CASE MarkDeliverySynced(p)
    <3>1. /\ synced' = synced \cup {at[p].ev} /\ UNCHANGED told
          /\ told[at[p].ev] > 0
      BY <2>3 DEF MarkDeliverySynced, MarkInv, Event, highlevel
    <3>2. at'[p].pc # "mark" /\ \A q \in Procs \ {p} : at'[q] = at[q]
      BY <1>1, <2>3, ReleaseMoves DEF MarkDeliverySynced, Moves, Idle
    <3> QED  BY <3>1, <3>2 DEF MarkInv, Event
  <2>4. CASE ~UpdateMessageStatus(p) /\ ~MarkDeliverySynced(p)
    <3>1. UNCHANGED <<told, synced>>
      BY <1>8, <2>4 DEF ProcessStep, Respond, FindOutbound, UpdateFails, RetryDelivery,
         FailDelivery, StoreError, Crash, table, highlevel
    <3> QED  BY <1>2, <2>1, <2>4, <3>1 DEF Moves
  <2> QED  BY <2>2, <2>3, <2>4
<1> QED  BY <1>1, <1>3, <1>4, <1>5, <1>6, <1>7, <1>8
         DEF Next, Handle, Process, End, ProcessStep
-----------------------------------------------------------------------------
(* How often HighLevel may still be told of a report without anything more *)
(* being lost: once by each process that works on it and has not told it,  *)
(* and once more if a worker may still claim it.                           *)
Holders(e) == {p \in Procs : Working(p) /\ Event(p) = e}
Busy(e)    == {p \in Holders(e) : at[p].pc # "mark"}
Free(e)    == IF e \notin synced \cup failed /\ (lease[e] # "live" \/ Holders(e) = {})
              THEN 1 ELSE 0

ShareInv ==
    \A e \in Events : told[e] + Cardinality(Busy(e)) + Free(e) <= 1 + lost[e]

LEMMA BusyCounts ==
    ASSUME NEW e \in Events
    PROVE  /\ IsFiniteSet(Busy(e)) /\ Cardinality(Busy(e)) \in Nat
           /\ Cardinality(Busy(e))' \in Nat
           /\ Free(e) \in {0, 1} /\ Free(e)' \in {0, 1}
<1>1. IsFiniteSet(Procs)
  BY DeliveryAssumption DEF Procs
<1>2. Busy(e) \in SUBSET Procs /\ Busy(e)' \in SUBSET Procs
  BY DEF Busy, Holders
<1>3. IsFiniteSet(Busy(e)) /\ IsFiniteSet(Busy(e)')
  BY <1>1, <1>2, FS_Subset
<1>4. Cardinality(Busy(e)) \in Nat /\ Cardinality(Busy(e)') \in Nat
  BY <1>3, FS_CardinalityType
<1> QED  BY <1>3, <1>4 DEF Free

LEMMA OneLess ==
    ASSUME NEW e \in Events, NEW p \in Busy(e), Busy(e)' = Busy(e) \ {p}
    PROVE  Cardinality(Busy(e))' = Cardinality(Busy(e)) - 1
  BY BusyCounts, FS_RemoveElement

LEMMA OneMore ==
    ASSUME NEW e \in Events, NEW p, p \notin Busy(e), Busy(e)' = Busy(e) \cup {p}
    PROVE  Cardinality(Busy(e))' = Cardinality(Busy(e)) + 1
  BY BusyCounts, FS_AddElement

(* A step of a process that works on event e, or one that does not.        *)
LEMMA HoldersMove ==
    ASSUME NEW p \in Procs, NEW e \in Events, Moves(p), Working(p) \/ at'[p] = Idle
    PROVE  /\ ~Working(p) \/ Event(p) # e => Holders(e)' = Holders(e) /\ Busy(e)' = Busy(e)
           /\ at'[p] = Idle => Busy(e)' = Busy(e) \ {p}
           /\ Working(p) /\ Event(p) = e /\ at'[p] # Idle =>
                 /\ Holders(e)' = Holders(e)
                 /\ Busy(e)' = IF at'[p].pc = "mark" THEN Busy(e) \ {p} ELSE Busy(e) \cup {p}
           /\ Working(p) /\ Event(p) = e /\ at[p].pc # "mark" <=> p \in Busy(e)
<1> USE DEF Moves, Holders, Busy, Working, Event, Idle
<1>1. ASSUME ~Working(p) \/ Event(p) # e
      PROVE  Holders(e)' = Holders(e) /\ Busy(e)' = Busy(e)
  BY <1>1
<1>2. ASSUME at'[p] = Idle PROVE Busy(e)' = Busy(e) \ {p}
  BY <1>2
<1>3. ASSUME Working(p), Event(p) = e, at'[p] # Idle
      PROVE  /\ Holders(e)' = Holders(e)
             /\ Busy(e)' = IF at'[p].pc = "mark" THEN Busy(e) \ {p} ELSE Busy(e) \cup {p}
  BY <1>3
<1>4. Working(p) /\ Event(p) = e /\ at[p].pc # "mark" <=> p \in Busy(e)
  OBVIOUS
<1> QED  BY <1>1, <1>2, <1>3, <1>4

(* What a step of p does to a report p does not work on: nothing.          *)
LEMMA Elsewhere ==
    ASSUME TypeInv, NEW p \in Procs, ProcessStep(p), NEW i \in Events,
           ~Working(p) \/ Event(p) # i
    PROVE  /\ told'[i] = told[i] /\ lost'[i] = lost[i] /\ lease'[i] = lease[i]
           /\ i \in synced' \cup failed' <=> i \in synced \cup failed
<1>1. lease \in [Events -> Leases] /\ told \in [Events -> Nat] /\ lost \in [Events -> Nat]
  BY DEF TypeInv, TypeOK
<1>2. CASE UpdateMessageStatus(p)
  <2>1. Event(p) # i /\ UNCHANGED table
    BY <1>2 DEF UpdateMessageStatus, Working
  <2>2. told' = Count(told, Event(p)) /\ (lost' = lost \/ lost' = Count(lost, Event(p)))
    BY <1>2 DEF UpdateMessageStatus
  <2> QED  BY <1>1, <2>1, <2>2 DEF Count, table
<1>3. CASE MarkDeliverySynced(p) \/ RetryDelivery(p) \/ FailDelivery(p)
  <2>1. Event(p) # i /\ UNCHANGED <<told, lost>>
    BY <1>3 DEF MarkDeliverySynced, RetryDelivery, FailDelivery, Working, highlevel
  <2> QED  BY <1>1, <1>3, <2>1 DEF MarkDeliverySynced, RetryDelivery, FailDelivery
<1>4. CASE StoreError(p) \/ Crash(p)
  <2>1. UNCHANGED <<table, told>> /\ Lose(p)
    BY <1>4 DEF StoreError, Crash, highlevel
  <2>2. lost'[i] = lost[i]
    BY <1>1, <2>1 DEF Lose, Count, Working
  <2> QED  BY <2>1, <2>2 DEF table
<1>5. CASE Respond(p) \/ FindOutbound(p) \/ UpdateFails(p)
  BY <1>5 DEF Respond, FindOutbound, UpdateFails, table, highlevel
<1> QED  BY <1>2, <1>3, <1>4, <1>5 DEF ProcessStep

(* What a step of p does to the report p works on: it goes on without      *)
(* telling HighLevel, or gives the report back; it tells HighLevel, and    *)
(* knows it or not; it marks the report, or is kept from it.               *)
GoesOn(p)     == /\ at[p].pc # "mark" /\ at'[p].pc # "mark" /\ at'[p] # Idle
                 /\ UNCHANGED <<table, told, lost>>
PutsBack(p)   == /\ at[p].pc # "mark" /\ at'[p] = Idle
                 /\ UNCHANGED <<told, lost>>
Tells(p, i)   == /\ at[p].pc # "mark" /\ at'[p].pc = "mark" /\ at'[p] # Idle
                 /\ told'[i] = told[i] + 1 /\ lost'[i] = lost[i]
                 /\ UNCHANGED table
Loses(p, i)   == /\ at[p].pc # "mark" /\ at'[p].pc # "mark"
                 /\ told'[i] = told[i] + 1 /\ lost'[i] = lost[i] + 1
                 /\ UNCHANGED table
Marks(p, i)   == /\ at[p].pc = "mark" /\ at'[p] = Idle /\ i \in synced'
                 /\ UNCHANGED <<told, lost>>
Forgets(p, i) == /\ at[p].pc = "mark" /\ at'[p].pc # "mark"
                 /\ lost'[i] = lost[i] + 1
                 /\ UNCHANGED <<table, told>>

LEMMA OwnStep ==
    ASSUME TypeInv, NEW p \in Procs, ProcessStep(p), NEW i \in Events, Working(p), Event(p) = i
    PROVE  \/ GoesOn(p) \/ PutsBack(p) \/ Tells(p, i)
           \/ Loses(p, i) \/ Marks(p, i) \/ Forgets(p, i)
<1>1. at \in [Procs -> Slot] /\ told \in [Events -> Nat] /\ lost \in [Events -> Nat]
  BY DEF TypeInv, TypeOK
<1>2. CASE UpdateMessageStatus(p)
  <2>1. at[p].pc # "mark" /\ UNCHANGED table /\ told'[i] = told[i] + 1
    BY <1>1, <1>2 DEF UpdateMessageStatus, Count
  <2>2. CASE GoTo(p, "mark") /\ UNCHANGED lost
    <3>1. at'[p].pc = "mark"
      BY <1>1, <2>2, GoToMoves DEF Steps
    <3> QED  BY <2>1, <2>2, <3>1 DEF Tells, Idle
  <2>3. CASE AfterError(p) /\ lost' = Count(lost, Event(p))
    <3>1. at'[p].pc # "mark" /\ lost'[i] = lost[i] + 1
      BY <1>1, <2>3, ErrorMoves DEF Count
    <3> QED  BY <2>1, <3>1 DEF Loses
  <2> QED  BY <1>2, <2>2, <2>3 DEF UpdateMessageStatus
<1>3. CASE MarkDeliverySynced(p)
  BY <1>1, <1>3, ReleaseMoves DEF MarkDeliverySynced, Marks, highlevel
<1>4. CASE RetryDelivery(p) \/ FailDelivery(p)
  BY <1>1, <1>4, ReleaseMoves DEF RetryDelivery, FailDelivery, PutsBack, highlevel
<1>5. CASE StoreError(p) \/ Crash(p)
  <2>1. UNCHANGED <<table, told>> /\ Lose(p) /\ at'[p].pc # "mark"
    BY <1>1, <1>5, ReleaseMoves, ErrorMoves DEF StoreError, Crash, highlevel, Idle
  <2>2. CASE at[p].pc = "mark"
    <3>1. lost'[i] = lost[i] + 1
      BY <1>1, <2>1, <2>2 DEF Lose, Count
    <3> QED  BY <2>1, <2>2, <3>1 DEF Forgets
  <2>3. CASE at[p].pc # "mark"
    BY <2>1, <2>3 DEF Lose, GoesOn, PutsBack
  <2> QED  BY <2>2, <2>3
<1>6. CASE Respond(p) \/ FindOutbound(p) \/ UpdateFails(p)
  <2>1. at[p].pc # "mark" /\ UNCHANGED <<table, told, lost>>
    BY <1>6 DEF Respond, FindOutbound, UpdateFails, highlevel
  <2>2. at'[p].pc # "mark"
    <3>1. ~UpdateMessageStatus(p)
      BY <1>1, <2>1 DEF UpdateMessageStatus, Count
    <3> QED  BY <1>1, <3>1, StepMoves
  <2> QED  BY <2>1, <2>2 DEF GoesOn, PutsBack
<1> QED  BY <1>2, <1>3, <1>4, <1>5, <1>6 DEF ProcessStep

LEMMA ShareStep ==
    ASSUME TypeInv, ShareInv, [Next]_vars
    PROVE  ShareInv'
<1> SUFFICES ASSUME NEW i \in Events
             PROVE  told'[i] + Cardinality(Busy(i))' + Free(i)' <= 1 + lost'[i]
  BY DEF ShareInv
<1> DEFINE Goal == told'[i] + Cardinality(Busy(i))' + Free(i)' <= 1 + lost'[i]
<1> USE DeliveryAssumption
<1>1. /\ at \in [Procs -> Slot] /\ lease \in [Events -> Leases]
      /\ told \in [Events -> Nat] /\ lost \in [Events -> Nat]
      /\ Handlers \subseteq Procs /\ Workers \subseteq Procs
      /\ synced \subseteq recorded /\ failed \subseteq recorded
  BY DEF TypeInv, TypeOK, Procs
<1>2. /\ told[i] + Cardinality(Busy(i)) + Free(i) <= 1 + lost[i]
      /\ told[i] \in Nat /\ lost[i] \in Nat
      /\ Cardinality(Busy(i)) \in Nat /\ Cardinality(Busy(i))' \in Nat
      /\ Free(i) \in {0, 1} /\ Free(i)' \in {0, 1}
  BY <1>1, BusyCounts DEF ShareInv
<1>3. ASSUME told'[i] = told[i], lost'[i] = lost[i], lease'[i] = lease[i],
             i \in synced' \cup failed' <=> i \in synced \cup failed,
             Busy(i)' = Busy(i), Holders(i)' = Holders(i)
      PROVE  Goal
  <2>1. Free(i)' = Free(i)
    BY <1>3 DEF Free
  <2> QED  BY <1>2, <1>3, <2>1
<1>4. CASE UNCHANGED vars
  BY <1>3, <1>4 DEF vars, table, highlevel, Busy, Holders, Working, Event
<1>5. ASSUME NEW e \in Events, LeaseExpires(e) PROVE Goal
  <2>1. UNCHANGED <<told, lost, synced, failed, at>>
    BY <1>5 DEF LeaseExpires, highlevel
  <2>2. Busy(i)' = Busy(i) /\ Holders(i)' = Holders(i)
    BY <2>1 DEF Busy, Holders, Working, Event
  <2>3. Free(i)' <= Free(i)
    <3>1. CASE i = e
      <4>1. Holders(i) = {}
        BY <1>5, <3>1 DEF LeaseExpires, InHand, Holders, Working
      <4> QED  BY <1>2, <2>1, <4>1 DEF Free
    <3>2. CASE i # e
      <4>1. lease'[i] = lease[i]
        BY <1>1, <1>5, <3>2 DEF LeaseExpires
      <4> QED  BY <1>2, <2>1, <2>2, <4>1 DEF Free
    <3> QED  BY <3>1, <3>2
  <2> QED  BY <1>2, <2>1, <2>2, <2>3
<1>6. ASSUME NEW e \in Events, Overrun(e) PROVE Goal
  <2>1. /\ UNCHANGED <<told, synced, failed, at>>
        /\ lost' = [lost EXCEPT ![e] = @ + 1] /\ lease' = [lease EXCEPT ![e] = "expired"]
    BY <1>6 DEF Overrun, Count, highlevel
  <2>2. Busy(i)' = Busy(i) /\ Holders(i)' = Holders(i)
    BY <2>1 DEF Busy, Holders, Working, Event
  <2>3. CASE i = e
    <3>1. lost'[i] = lost[i] + 1
      BY <1>1, <2>1, <2>3
    <3> QED  BY <1>2, <2>1, <2>2, <3>1
  <2>4. CASE i # e
    BY <1>1, <1>3, <2>1, <2>2, <2>4
  <2> QED  BY <2>3, <2>4
<1>7. ASSUME NEW c \in Messages, Complete(c) PROVE Goal
  BY <1>3, <1>7 DEF Complete, table, highlevel, Busy, Holders, Working, Event
<1>8. ASSUME NEW h \in Handlers, NEW e \in Events, Deliver(h, e) PROVE Goal
  <2>1. /\ at[h].pc = "idle" /\ at'[h].pc = "insert" /\ \A q \in Procs \ {h} : at'[q] = at[q]
    BY <1>1, <1>8 DEF Deliver
  <2>2. Busy(i)' = Busy(i) /\ Holders(i)' = Holders(i)
    BY <2>1 DEF Busy, Holders, Working, Event
  <2> QED  BY <1>3, <1>8, <2>2 DEF Deliver, table, highlevel
(* A process that was without message i has it from now on.                *)
<1>9. ASSUME NEW p \in Procs, p \notin Holders(i), at'[p].ev = i,
             at'[p].pc \notin {"idle", "insert", "mark"}, \A q \in Procs \ {p} : at'[q] = at[q],
             lease'[i] = "live", Free(i) = 1, UNCHANGED <<told, lost>>
      PROVE  Goal
  <2>1. p \notin Busy(i) /\ Busy(i)' = Busy(i) \cup {p} /\ p \in Holders(i)'
    BY <1>9 DEF Busy, Holders, Working, Event
  <2>2. Cardinality(Busy(i))' = Cardinality(Busy(i)) + 1
    BY <2>1, OneMore
  <2>3. Free(i)' = 0
    BY <1>9, <2>1 DEF Free
  <2> QED  BY <1>2, <1>9, <2>2, <2>3
<1>10. ASSUME NEW h \in Handlers, UpdateDelivery(h) PROVE Goal
  <2> DEFINE e == at[h].ev
  <2>1. /\ ~Working(h) /\ h \in Procs
        /\ lease' = [lease EXCEPT ![e] = IF e \notin recorded THEN "live" ELSE @]
        /\ UNCHANGED <<synced, failed, told, lost>>
    BY <1>1, <1>10 DEF UpdateDelivery, Working, Event, highlevel
  <2>2. CASE e = i /\ e \notin recorded
    <3>1. /\ at'[h].ev = i /\ at'[h].pc = "respond"
          /\ \A q \in Procs \ {h} : at'[q] = at[q]
      BY <1>1, <1>10, <2>1, <2>2, GoToMoves DEF UpdateDelivery, Event, Moves, Steps
    <3>2. Holders(i) = {}
      BY <2>2 DEF TypeInv, Holders, Event
    <3>3. Free(i) = 1
      BY <1>1, <2>2, <3>2 DEF Free
    <3> HIDE DEF e
    <3> QED  BY <1>1, <1>9, <2>1, <2>2, <3>1, <3>2, <3>3
  <2>3. CASE ~(e = i /\ e \notin recorded)
    <3>1. lease'[i] = lease[i]
      BY <1>1, <2>1, <2>3
    <3>2. \A q \in Procs \ {h} : at'[q] = at[q]
      BY <1>1, <1>10, <2>1, GoToMoves, ReleaseMoves DEF UpdateDelivery, Moves, Steps
    <3>3. at'[h].pc = "idle" \/ at'[h].ev # i
      BY <1>1, <1>10, <2>1, <2>3, GoToMoves, ReleaseMoves DEF UpdateDelivery, Event, Steps, Idle
    <3>4. Busy(i)' = Busy(i) /\ Holders(i)' = Holders(i)
      BY <2>1, <3>2, <3>3 DEF Busy, Holders, Working, Event
    <3> QED  BY <1>3, <2>1, <3>1, <3>4
  <2> QED  BY <2>2, <2>3
<1>11. ASSUME NEW w \in Workers, NEW e \in Events, ClaimUnprocessedDelivery(w, e) PROVE Goal
  <2>1. /\ ~Working(w) /\ \A q \in Procs \ {w} : at'[q] = at[q]
        /\ at'[w].ev = e /\ at'[w].pc = "find"
        /\ lease' = [lease EXCEPT ![e] = "live"]
        /\ UNCHANGED <<synced, failed, told, lost>>
        /\ lease[e] # "live" /\ e \notin synced \cup failed
    BY <1>1, <1>11 DEF ClaimUnprocessedDelivery, Take, Working, highlevel
  <2>2. CASE e = i
    <3>1. Free(i) = 1 /\ w \notin Holders(i)
      BY <2>1, <2>2 DEF Free, Holders
    <3> QED  BY <1>1, <1>9, <2>1, <2>2, <3>1
  <2>3. CASE e # i
    <3>1. Busy(i)' = Busy(i) /\ Holders(i)' = Holders(i)
      BY <2>1, <2>3 DEF Busy, Holders, Working, Event
    <3> QED  BY <1>1, <1>3, <2>1, <2>3, <3>1
  <2> QED  BY <2>2, <2>3
<1>12. ASSUME NEW p \in Procs, ProcessStep(p) PROVE Goal
  <2>1. Moves(p) /\ (Working(p) \/ at'[p] = Idle)
    BY <1>1, <1>12, StepMoves
  <2>2. /\ ~Working(p) \/ Event(p) # i => Holders(i)' = Holders(i) /\ Busy(i)' = Busy(i)
        /\ at'[p] = Idle => Busy(i)' = Busy(i) \ {p}
        /\ Working(p) /\ Event(p) = i /\ at'[p] # Idle =>
              /\ Holders(i)' = Holders(i)
              /\ Busy(i)' = IF at'[p].pc = "mark" THEN Busy(i) \ {p} ELSE Busy(i) \cup {p}
        /\ Working(p) /\ Event(p) = i /\ at[p].pc # "mark" <=> p \in Busy(i)
    BY <2>1, HoldersMove
  <2>3. CASE ~Working(p) \/ Event(p) # i
    BY <1>1, <1>3, <1>12, <2>2, <2>3, Elsewhere
  <2>4. CASE Working(p) /\ Event(p) = i
    <3>1. at'[p] # Idle /\ UNCHANGED table => Free(i)' = Free(i)
      BY <2>2, <2>4 DEF Free, table
    <3>2. CASE GoesOn(p)
      <4>1. Busy(i)' = Busy(i) /\ Free(i)' = Free(i)
        BY <2>2, <2>4, <3>1, <3>2 DEF GoesOn
      <4> QED  BY <1>2, <3>2, <4>1 DEF GoesOn
    <3>3. CASE PutsBack(p)
      <4>1. Cardinality(Busy(i))' = Cardinality(Busy(i)) - 1
        BY <2>2, <2>4, <3>3, OneLess DEF PutsBack
      <4> QED  BY <1>2, <3>3, <4>1 DEF PutsBack
    <3>4. CASE Tells(p, i)
      <4>1. Cardinality(Busy(i))' = Cardinality(Busy(i)) - 1 /\ Free(i)' = Free(i)
        BY <2>2, <2>4, <3>1, <3>4, OneLess DEF Tells
      <4> QED  BY <1>2, <3>4, <4>1 DEF Tells
    <3>5. CASE Loses(p, i)
      <4>1. CASE at'[p] = Idle
        <5>1. Cardinality(Busy(i))' = Cardinality(Busy(i)) - 1
          BY <2>2, <2>4, <3>5, <4>1, OneLess DEF Loses
        <5> QED  BY <1>2, <3>5, <5>1 DEF Loses
      <4>2. CASE at'[p] # Idle
        <5>1. Busy(i)' = Busy(i) /\ Free(i)' = Free(i)
          BY <2>2, <2>4, <3>1, <3>5, <4>2 DEF Loses
        <5> QED  BY <1>2, <3>5, <5>1 DEF Loses
      <4> QED  BY <4>1, <4>2
    <3>6. CASE Marks(p, i)
      <4>1. Busy(i)' = Busy(i) /\ Free(i)' = 0
        BY <2>2, <3>6 DEF Marks, Free
      <4> QED  BY <1>2, <3>6, <4>1 DEF Marks
    <3>7. CASE Forgets(p, i)
      <4>1. CASE at'[p] = Idle
        <5>1. Busy(i)' = Busy(i)
          BY <2>2, <3>7, <4>1 DEF Forgets
        <5> QED  BY <1>2, <3>7, <5>1 DEF Forgets
      <4>2. CASE at'[p] # Idle
        <5>1. p \notin Busy(i) /\ Busy(i)' = Busy(i) \cup {p}
          BY <2>2, <2>4, <3>7, <4>2 DEF Forgets
        <5>2. Cardinality(Busy(i))' = Cardinality(Busy(i)) + 1 /\ Free(i)' = Free(i)
          BY <3>1, <3>7, <4>2, <5>1, OneMore DEF Forgets
        <5> QED  BY <1>2, <3>7, <5>2 DEF Forgets
      <4> QED  BY <4>1, <4>2
    <3> QED  BY <1>12, <2>4, <3>2, <3>3, <3>4, <3>5, <3>6, <3>7, OwnStep
  <2> QED  BY <2>3, <2>4
<1> QED  BY <1>1, <1>4, <1>5, <1>6, <1>7, <1>8, <1>10, <1>11, <1>12
         DEF Next, Handle, Process, End, ProcessStep

LEMMA ShareInvariant == Spec => [](MarkInv /\ ShareInv)
<1>1. Init => MarkInv /\ ShareInv
  <2> SUFFICES ASSUME Init PROVE MarkInv /\ ShareInv
    OBVIOUS
  <2>1. \A p \in Procs : at[p].pc = "idle" /\ ~Working(p)
    BY DEF Init, Idle, Working
  <2>2. ASSUME NEW e \in Events
        PROVE  told[e] + Cardinality(Busy(e)) + Free(e) <= 1 + lost[e]
    <3>1. Busy(e) = {}
      BY <2>1 DEF Busy, Holders
    <3>2. Cardinality(Busy(e)) = 0
      BY <3>1, FS_EmptySet
    <3>3. Free(e) = 1 /\ told[e] = 0 /\ lost[e] = 0
      BY DEF Init, Free
    <3> QED  BY <3>2, <3>3
  <2> QED  BY <2>1, <2>2 DEF Init, MarkInv, ShareInv
<1>2. TypeInv /\ MarkInv /\ ShareInv /\ [Next]_vars => MarkInv' /\ ShareInv'
  BY NextMark, ShareStep
<1> QED  BY <1>1, <1>2, TypeInvariant, PTL DEF Spec

(* However often a report is delivered, retried and overtaken, once it is  *)
(* synchronized HighLevel was told of it, and it was told once but for the *)
(* runs that were cut off after telling it or outlived their lease.        *)
THEOREM ToldOnceTheorem == Spec => []ToldOnce
<1>1. TypeInv /\ MarkInv /\ ShareInv => ToldOnce
  <2> SUFFICES ASSUME TypeInv, MarkInv, ShareInv, NEW e \in Events
               PROVE  told[e] <= 1 + lost[e]
    BY DEF ToldOnce, MarkInv
  <2>1. told[e] + Cardinality(Busy(e)) + Free(e) <= 1 + lost[e]
        /\ told[e] \in Nat /\ lost[e] \in Nat
    BY DEF ShareInv, TypeInv, TypeOK
  <2> QED  BY <2>1, BusyCounts
<1> QED  BY TypeInvariant, ShareInvariant, <1>1, PTL
-----------------------------------------------------------------------------
(* Refinement.                                                             *)

Inv == TypeInv /\ HoldInv /\ MarkInv

LEMMA StaysPut ==
    ASSUME UNCHANGED <<recorded, synced, failed, told>>
    PROVE  UNCHANGED <<phase, handled>>
  BY DEF phase, handled

LEMMA NextBox ==
    ASSUME Inv, [Next]_vars
    PROVE  [Box!Next]_<<phase, handled>>
<1> USE DeliveryAssumption
<1>1. /\ at \in [Procs -> Slot] /\ told \in [Events -> Nat]
      /\ synced \subseteq recorded /\ failed \subseteq recorded
  BY DEF Inv, TypeInv, TypeOK
<1>2. Handlers \subseteq Procs /\ Workers \subseteq Procs
  BY DEF Procs
<1>3. ASSUME NEW p \in Procs, Working(p)
      PROVE  /\ at[p].ev \in Events /\ at[p].ev \in recorded
             /\ at[p].ev \in Timely => at[p].ev \notin synced \cup failed
  BY <1>3 DEF Inv, TypeInv, HoldInv, Working, Event
<1>4. CASE UNCHANGED vars
  BY <1>4, StaysPut DEF vars, table, highlevel
<1>5. CASE \/ \E m \in Messages : Complete(m)
           \/ \E e \in Events : LeaseExpires(e) \/ Overrun(e)
           \/ \E h \in Handlers, e \in Events : Deliver(h, e)
           \/ \E w \in Workers, e \in Events : ClaimUnprocessedDelivery(w, e)
  BY <1>5, StaysPut
     DEF Complete, LeaseExpires, Overrun, Deliver, ClaimUnprocessedDelivery, Take,
         table, highlevel
<1>6. ASSUME NEW h \in Handlers, UpdateDelivery(h) PROVE [Box!Next]_<<phase, handled>>
  <2> DEFINE e == at[h].ev
  <2>1. e \in Events
    BY <1>2, <1>6 DEF UpdateDelivery, Inv, TypeInv, Event
  <2>2. recorded' = recorded \cup {e} /\ UNCHANGED <<synced, failed, told>>
    BY <1>6 DEF UpdateDelivery, Event, highlevel
  <2> HIDE DEF e
  <2>3. CASE e \in recorded \/ e \notin Timely
    BY <2>2, <2>3 DEF phase, handled
  <2>4. CASE e \notin recorded /\ e \in Timely
    <3>1. phase[e] = "absent" /\ phase' = [phase EXCEPT ![e] = "open"] /\ handled' = handled
      BY <1>1, <2>1, <2>2, <2>4 DEF phase, handled
    <3> QED  BY <2>4, <3>1 DEF Box!Next, Box!Receive
  <2> QED  BY <2>3, <2>4
<1>7. ASSUME NEW p \in Procs, UpdateMessageStatus(p) PROVE [Box!Next]_<<phase, handled>>
  <2> DEFINE e == at[p].ev
  <2>1. e \in Events /\ e \in recorded /\ (e \in Timely => e \notin synced \cup failed)
    BY <1>3, <1>7 DEF UpdateMessageStatus, Working
  <2>2. told' = [told EXCEPT ![e] = @ + 1] /\ UNCHANGED <<recorded, synced, failed>>
    BY <1>7 DEF UpdateMessageStatus, Count, Event, table
  <2> HIDE DEF e
  <2>3. CASE e \in Timely
    <3>1. phase[e] = "open" /\ phase' = phase
      BY <2>3, <2>1, <2>2 DEF phase
    <3>2. handled' = handled \cup {e}
      BY <2>3, <1>1, <2>1, <2>2 DEF handled
    <3> QED  BY <2>1, <2>3, <3>1, <3>2 DEF Box!Next, Box!Handle
  <2>4. CASE e \notin Timely
    BY <2>1, <2>2, <2>4 DEF phase, handled
  <2> QED  BY <2>3, <2>4
<1>8. ASSUME NEW p \in Procs, MarkDeliverySynced(p) PROVE [Box!Next]_<<phase, handled>>
  <2> DEFINE e == at[p].ev
  <2>1. /\ e \in Events /\ e \in recorded /\ told[e] > 0
        /\ (e \in Timely => e \notin synced \cup failed)
    BY <1>3, <1>8 DEF MarkDeliverySynced, Working, Inv, MarkInv, Event
  <2>2. synced' = synced \cup {e} /\ UNCHANGED <<recorded, failed, told>>
    BY <1>8 DEF MarkDeliverySynced, Event, highlevel
  <2> HIDE DEF e
  <2>3. CASE e \in Timely
    <3>1. phase[e] = "open" /\ phase' = [phase EXCEPT ![e] = "done"]
      BY <2>3, <2>1, <2>2 DEF phase
    <3>2. handled' = handled /\ e \in handled
      BY <2>3, <2>1, <2>2 DEF handled
    <3> QED  BY <2>1, <2>3, <3>1, <3>2 DEF Box!Next, Box!Finish
  <2>4. CASE e \notin Timely
    BY <2>1, <2>2, <2>4 DEF phase, handled
  <2> QED  BY <2>3, <2>4
<1>9. ASSUME NEW p \in Procs, FailDelivery(p) PROVE [Box!Next]_<<phase, handled>>
  <2> DEFINE e == at[p].ev
  <2>1. e \in Events /\ e \in recorded /\ (e \in Timely => e \notin synced \cup failed)
    BY <1>3, <1>9 DEF FailDelivery, Working
  <2>2. failed' = failed \cup {e} /\ UNCHANGED <<recorded, synced, told>>
    BY <1>9 DEF FailDelivery, Event, highlevel
  <2> HIDE DEF e
  <2>3. CASE e \in Timely
    <3>1. phase[e] = "open" /\ phase' = [phase EXCEPT ![e] = "dead"]
      BY <2>3, <2>1, <2>2 DEF phase
    <3>2. handled' = handled
      BY <2>3, <2>2 DEF handled
    <3> QED  BY <2>1, <2>3, <3>1, <3>2 DEF Box!Next, Box!Bury
  <2>4. CASE e \notin Timely
    BY <2>1, <2>2, <2>4 DEF phase, handled
  <2> QED  BY <2>3, <2>4
<1>10. ASSUME NEW p \in Procs, \/ Respond(p) \/ FindOutbound(p) \/ UpdateFails(p)
                               \/ RetryDelivery(p) \/ StoreError(p) \/ Crash(p)
       PROVE  [Box!Next]_<<phase, handled>>
  BY <1>10, StaysPut
     DEF Respond, FindOutbound, UpdateFails, RetryDelivery, StoreError, Crash, table, highlevel
<1> QED  BY <1>2, <1>4, <1>5, <1>6, <1>7, <1>8, <1>9, <1>10 DEF Next, Handle, Process, End

LEMMA Invariant == Spec => []Inv
<1>1. Init => HoldInv
  BY DEF Init, HoldInv, Working, Idle
<1>2. TypeInv /\ HoldInv /\ [Next]_vars => HoldInv'
  BY NextHold
<1>3. Spec => []HoldInv
  BY <1>1, <1>2, TypeInvariant, PTL DEF Spec
<1> QED  BY <1>3, TypeInvariant, ShareInvariant, PTL DEF Inv

(* The reports whose leases nobody outlives form an inbox: one becomes     *)
(* synchronized only after HighLevel was told of it, or becomes a dead     *)
(* letter, and HighLevel is told of it in neither case again; whatever     *)
(* happens to the other reports.                                           *)
THEOREM InboxTheorem == Spec => ImplementsInbox
<1>1. Init => Box!Init
  BY DeliveryAssumption DEF Init, Box!Init, phase, handled
<1> QED  BY <1>1, NextBox, Invariant, PTL DEF Spec, ImplementsInbox, Box!Spec
=============================================================================
