---------------------------- MODULE InboundProofs ----------------------------
(***************************************************************************)
(* Theorems about Inbound, for any messages, senders, processes and        *)
(* bounds.  What a STOP does is proved from what each process has done     *)
(* before the step it is at (StopInv), whatever the leases do.  So is how  *)
(* often a message is forwarded: its copies, the processes that still have *)
(* one to make, and one more if it can be claimed, are at most one more    *)
(* than what was lost (ShareInv).  That the table is an inbox is about the *)
(* messages whose leases nobody outlives: a process that holds one holds   *)
(* it alone, and it is open (HoldInv).                                     *)
(***************************************************************************)
EXTENDS Inbound, FiniteSetTheorems, TLAPS

Holds(p)  == at[p].own = "yes"
Finishing == {"check", "dnd", "reply", "forward", "mark", "retry", "drop"}
Starting  == {"idle", "record"}

TypeInv ==
    /\ TypeOK
    /\ \A p \in Procs : at[p].pc # "idle" => Event(p) \in Events
    /\ \A p \in Procs : Holds(p) => Event(p) \in recorded
    /\ \A p \in Procs : at[p].pc \in Finishing => Holds(p)
    /\ \A p \in Procs : at[p].pc \in Starting => ~Holds(p)

(* A step in which p goes on with its event, or puts it down.              *)
Moves(p) ==
    /\ at' \in [Procs -> Slot]
    /\ \A q \in Procs \ {p} : at'[q] = at[q]
    /\ \/ at'[p] = Idle
       \/ /\ at'[p].pc \notin Starting
          /\ at'[p].ev = at[p].ev /\ at'[p].own = at[p].own

LEMMA IdleSlot == Idle \in Slot
  BY InboundAssumption DEF Idle, Slot, Steps

LEMMA GoToMoves ==
    ASSUME at \in [Procs -> Slot], NEW p \in Procs,
           NEW step \in Steps \ Starting, GoTo(p, step)
    PROVE  Moves(p) /\ at'[p].pc = step /\ at'[p].ev = at[p].ev /\ at'[p].own = at[p].own
  BY DEF GoTo, Moves, Slot

LEMMA ReleaseMoves ==
    ASSUME at \in [Procs -> Slot], NEW p \in Procs, Release(p)
    PROVE  Moves(p) /\ at'[p] = Idle
  BY IdleSlot DEF Release, Moves

LEMMA ErrorMoves ==
    ASSUME at \in [Procs -> Slot], NEW p \in Procs, AfterError(p)
    PROVE  Moves(p) /\ at'[p].pc \in {"idle", "retry", "drop"}
<1>1. CASE Release(p)
  BY <1>1, ReleaseMoves DEF Idle
<1>2. CASE GoTo(p, "retry") \/ GoTo(p, "drop")
  BY <1>2, GoToMoves DEF Steps, Starting
<1> QED  BY <1>1, <1>2 DEF AfterError

(* What recording does to the processes.                                   *)
LEMMA RecordMoves ==
    ASSUME at \in [Procs -> Slot], NEW h \in Procs, RecordInbound(h)
    PROVE  /\ at' \in [Procs -> Slot]
           /\ \A q \in Procs \ {h} : at'[q] = at[q]
           /\ at'[h].ev = at[h].ev
           /\ at'[h].pc = AfterRecord(h) /\ AfterRecord(h) \in {"suppress", "respond"}
           /\ at'[h].own = "yes" <=> at[h].ev \notin recorded
<1>1. PICK step \in {"suppress", "respond"} : step = AfterRecord(h)
  BY DEF AfterRecord
<1>2. PICK own \in {"yes", "no"} : own = IF at[h].ev \notin recorded THEN "yes" ELSE "no"
  OBVIOUS
<1>3. at' = [at EXCEPT ![h].pc = step, ![h].own = own]
  BY <1>1, <1>2 DEF RecordInbound, Store, IsNew, Event
<1>4. /\ at'[h] = [at[h] EXCEPT !.pc = step, !.own = own]
      /\ \A q \in Procs \ {h} : at'[q] = at[q]
  BY <1>3
<1>5. ASSUME NEW s \in Slot PROVE [s EXCEPT !.pc = step, !.own = own] \in Slot
  BY DEF Slot, Steps
<1>6. at' \in [Procs -> Slot]
  <2>1. at'[h] \in Slot
    BY <1>4, <1>5
  <2>2. \A q \in Procs : at'[q] \in Slot
    BY <1>4, <2>1
  <2>3. at' = [q \in Procs |-> at'[q]]
    BY <1>3
  <2> QED  BY <2>2, <2>3
<1>7. at'[h].pc = step /\ at'[h].own = own /\ at'[h].ev = at[h].ev
  BY <1>4 DEF Slot
<1> QED  BY <1>1, <1>2, <1>4, <1>6, <1>7

(* The steps of a process that has an event in hand and is past recording. *)
ProcessStep(p) ==
    \/ Suppress(p) \/ Respond(p)
    \/ IsSuppressed(p) \/ SetSMSDND(p) \/ ApplyWorkflowReply(p) \/ StepFails(p)
    \/ ForwardInbound(p) \/ MarkInboundProcessed(p) \/ RetryInbound(p) \/ FailInbound(p)
    \/ StoreError(p) \/ Crash(p)

(* Only who holds an event comes to process it; only a forward leads to    *)
(* noting one.                                                             *)
LEMMA StepMoves ==
    ASSUME at \in [Procs -> Slot], NEW p \in Procs, ProcessStep(p),
           at[p].pc \in Finishing => Holds(p)
    PROVE  /\ Moves(p)
           /\ at[p].pc # "idle"
           /\ at'[p].pc \in Finishing => at'[p].own = "yes"
           /\ at'[p].pc = "mark" => ForwardInbound(p)
<1> USE DEF Finishing, Starting
<1>1. CASE Suppress(p)
  BY <1>1, GoToMoves DEF Suppress, Steps
<1>2. CASE Respond(p)
  BY <1>2, GoToMoves, ReleaseMoves DEF Respond, Steps, Idle
<1>3. CASE IsSuppressed(p) \/ ApplyWorkflowReply(p)
  BY <1>3, GoToMoves DEF IsSuppressed, ApplyWorkflowReply, Steps, Holds
<1>4. CASE SetSMSDND(p) \/ StepFails(p)
  BY <1>4, GoToMoves, ErrorMoves DEF SetSMSDND, StepFails, Steps, Holds, Moves, Idle
<1>5. CASE ForwardInbound(p)
  BY <1>5, GoToMoves, ErrorMoves DEF ForwardInbound, Steps, Holds, Moves, Idle
<1>6. CASE MarkInboundProcessed(p) \/ RetryInbound(p) \/ FailInbound(p) \/ Crash(p)
  BY <1>6, ReleaseMoves DEF MarkInboundProcessed, RetryInbound, FailInbound, Crash, Idle
<1>7. CASE StoreError(p)
  BY <1>7, ReleaseMoves, ErrorMoves DEF StoreError, Holds, Moves, Idle
<1> QED  BY <1>1, <1>2, <1>3, <1>4, <1>5, <1>6, <1>7 DEF ProcessStep
-----------------------------------------------------------------------------
LEMMA InitType == Init => TypeInv
<1> SUFFICES ASSUME Init PROVE TypeInv
  OBVIOUS
<1> USE InboundAssumption DEF Init
<1>1. at \in [Procs -> Slot] /\ \A p \in Procs : at[p] = Idle
  BY IdleSlot
<1>2. lease \in [Events -> Leases] /\ attempts \in [Events -> 0..MaxAttempts]
  BY DEF Leases
<1>3. forwards \in [Events -> Nat] /\ lost \in [Events -> Nat] /\ faults \in 0..MaxFaults
  OBVIOUS
<1>4. /\ recorded \in SUBSET Events /\ processed \in SUBSET recorded
      /\ failed \in SUBSET recorded /\ suppressed \in SUBSET Numbers
      /\ acked \in SUBSET Events /\ dnd \in SUBSET Numbers
  OBVIOUS
<1> QED  BY <1>1, <1>2, <1>3, <1>4 DEF TypeInv, TypeOK, Holds, Idle, Finishing

(* The part of the type invariant that is about the processes survives     *)
(* every step of one of them.                                              *)
LEMMA MoveType ==
    ASSUME TypeInv, NEW p \in Procs, ProcessStep(p), recorded' = recorded
    PROVE  /\ at' \in [Procs -> Slot]
           /\ \A q \in Procs : at'[q].pc # "idle" => at'[q].ev \in Events
           /\ \A q \in Procs : at'[q].own = "yes" => at'[q].ev \in recorded'
           /\ \A q \in Procs : at'[q].pc \in Finishing => at'[q].own = "yes"
           /\ \A q \in Procs : at'[q].pc \in Starting => at'[q].own # "yes"
<1>1. /\ Moves(p) /\ at[p].pc # "idle"
      /\ at'[p].pc \in Finishing => at'[p].own = "yes"
  BY StepMoves DEF TypeInv, TypeOK
<1> QED  BY <1>1 DEF TypeInv, Moves, Holds, Event, Idle, Finishing, Starting

LEMMA NextType == TypeInv /\ [Next]_vars => TypeInv'
<1> SUFFICES ASSUME TypeInv, [Next]_vars PROVE TypeInv'
  OBVIOUS
<1> USE InboundAssumption
<1>1. /\ recorded \in SUBSET Events /\ processed \in SUBSET recorded
      /\ failed \in SUBSET recorded
      /\ lease \in [Events -> Leases] /\ attempts \in [Events -> 0..MaxAttempts]
      /\ suppressed \in SUBSET Numbers /\ at \in [Procs -> Slot]
      /\ acked \in SUBSET Events /\ dnd \in SUBSET Numbers
      /\ forwards \in [Events -> Nat] /\ lost \in [Events -> Nat] /\ faults \in 0..MaxFaults
  BY DEF TypeInv, TypeOK
<1>2. /\ \A p \in Procs : at[p].pc # "idle" => at[p].ev \in Events
      /\ \A p \in Procs : at[p].own = "yes" => at[p].ev \in recorded
      /\ \A p \in Procs : at[p].pc \in Finishing => at[p].own = "yes"
      /\ \A p \in Procs : at[p].pc \in Starting => at[p].own # "yes"
  BY DEF TypeInv, Event, Holds
<1>3. Handlers \subseteq Procs /\ Workers \subseteq Procs
  BY DEF Procs
<1>4. CASE UNCHANGED vars
  BY <1>1, <1>2, <1>4 DEF vars, table, highlevel, TypeInv, TypeOK, Holds, Event
<1>5. ASSUME NEW e \in Events, LeaseExpires(e) PROVE TypeInv'
  BY <1>1, <1>2, <1>5 DEF LeaseExpires, highlevel, Leases, TypeInv, TypeOK, Holds, Event
<1>11. ASSUME NEW e \in Events, Overrun(e) PROVE TypeInv'
  <2>1. /\ lease' \in [Events -> Leases] /\ lost' \in [Events -> Nat]
        /\ faults' \in 0..MaxFaults
    BY <1>1, <1>11 DEF Overrun, Leases, Count, Fault
  <2> QED  BY <1>1, <1>2, <1>11, <2>1 DEF Overrun, highlevel, TypeInv, TypeOK, Holds, Event
<1>6. ASSUME NEW e \in Events, LookupFails(e) PROVE TypeInv'
  BY <1>1, <1>2, <1>6 DEF LookupFails, table, highlevel, TypeInv, TypeOK, Holds, Event
<1>7. ASSUME NEW h \in Handlers, NEW e \in Events, Deliver(h, e) PROVE TypeInv'
  <2>1. [pc |-> "record", ev |-> e, own |-> "no", tries |-> 0] \in Slot
    BY DEF Slot, Steps
  <2>2. at' \in [Procs -> Slot]
    BY <1>1, <1>7, <2>1 DEF Deliver
  <2>3. /\ \A q \in Procs : at'[q].pc # "idle" => at'[q].ev \in Events
        /\ \A q \in Procs : at'[q].own = "yes" => at'[q].ev \in recorded
        /\ \A q \in Procs : at'[q].pc \in Finishing => at'[q].own = "yes"
        /\ \A q \in Procs : at'[q].pc \in Starting => at'[q].own # "yes"
    BY <1>1, <1>2, <1>7 DEF Deliver, Finishing
  <2> QED  BY <1>1, <1>7, <2>2, <2>3 DEF Deliver, table, highlevel, TypeInv, TypeOK, Holds, Event
<1>8. ASSUME NEW h \in Handlers, RecordInbound(h) PROVE TypeInv'
  <2> DEFINE e == at[h].ev
  <2>1. e \in Events /\ h \in Procs
    BY <1>2, <1>3, <1>8 DEF RecordInbound, Store
  <2>2. /\ recorded' = recorded \cup {e} /\ lease' \in [Events -> Leases]
        /\ UNCHANGED <<processed, failed, attempts, suppressed, acked, highlevel, lost, faults>>
    BY <1>1, <1>8, <2>1 DEF RecordInbound, Store, Recorded, FirstLease, Event, Leases
  <2>3. /\ at' \in [Procs -> Slot] /\ \A q \in Procs \ {h} : at'[q] = at[q]
        /\ at'[h].ev = e /\ at'[h].pc \in {"suppress", "respond"}
    BY <1>1, <1>8, <2>1, RecordMoves
  <2> HIDE DEF e
  <2>4. /\ \A q \in Procs : at'[q].pc # "idle" => at'[q].ev \in Events
        /\ \A q \in Procs : at'[q].own = "yes" => at'[q].ev \in recorded'
        /\ \A q \in Procs : at'[q].pc \in Finishing => at'[q].own = "yes"
        /\ \A q \in Procs : at'[q].pc \in Starting => at'[q].own # "yes"
    BY <1>2, <2>1, <2>2, <2>3 DEF Finishing, Starting
  <2> QED  BY <1>1, <2>1, <2>2, <2>3, <2>4 DEF highlevel, TypeInv, TypeOK, Holds, Event
<1>9. ASSUME NEW w \in Workers, NEW e \in Events, ClaimUnprocessedInbound(w, e) PROVE TypeInv'
  <2>1. Bump(attempts[e]) \in 0..MaxAttempts
    BY <1>1 DEF Bump
  <2>2. [pc |-> "check", ev |-> e, own |-> "yes", tries |-> Bump(attempts[e])] \in Slot
    BY <2>1 DEF Slot, Steps
  <2>3. at' \in [Procs -> Slot]
    BY <1>1, <1>9, <2>2 DEF ClaimUnprocessedInbound, Take
  <2>4. lease' \in [Events -> Leases] /\ attempts' \in [Events -> 0..MaxAttempts]
    BY <1>1, <1>9, <2>1 DEF ClaimUnprocessedInbound, Take, Leases
  <2>5. /\ \A q \in Procs : at'[q].pc # "idle" => at'[q].ev \in Events
        /\ \A q \in Procs : at'[q].own = "yes" => at'[q].ev \in recorded
        /\ \A q \in Procs : at'[q].pc \in Finishing => at'[q].own = "yes"
        /\ \A q \in Procs : at'[q].pc \in Starting => at'[q].own # "yes"
    BY <1>1, <1>2, <1>9 DEF ClaimUnprocessedInbound, Take, Starting
  <2> QED  BY <1>1, <1>9, <2>3, <2>4, <2>5
           DEF ClaimUnprocessedInbound, Take, highlevel, TypeInv, TypeOK, Holds, Event
<1>10. ASSUME NEW p \in Procs, ProcessStep(p) PROVE TypeInv'
  <2>1. at[p].pc # "idle" /\ at[p].ev \in Events
    BY <1>1, <1>2, <1>10, StepMoves DEF Holds
  <2>2. /\ recorded' = recorded
        /\ attempts' = attempts
        /\ suppressed' \in SUBSET Numbers /\ acked' \in SUBSET Events /\ dnd' \in SUBSET Numbers
        /\ forwards' \in [Events -> Nat] /\ lost' \in [Events -> Nat] /\ faults' \in 0..MaxFaults
    <3>1. CASE \/ Suppress(p) \/ Respond(p) \/ IsSuppressed(p) \/ SetSMSDND(p)
               \/ ApplyWorkflowReply(p) \/ StepFails(p)
      BY <1>1, <2>1, <3>1 DEF Suppress, Respond, IsSuppressed, SetSMSDND,
         ApplyWorkflowReply, StepFails, table, highlevel, Event
    <3>2. CASE ForwardInbound(p)
      BY <1>1, <2>1, <3>2 DEF ForwardInbound, Count, table, Event
    <3>3. CASE MarkInboundProcessed(p) \/ RetryInbound(p) \/ FailInbound(p)
      BY <1>1, <3>3 DEF MarkInboundProcessed, RetryInbound, FailInbound, highlevel
    <3>4. CASE StoreError(p) \/ Crash(p)
      BY <1>1, <2>1, <3>4 DEF StoreError, Crash, Lose, Count, Fault, table, highlevel, Event
    <3> QED  BY <1>10, <3>1, <3>2, <3>3, <3>4 DEF ProcessStep
  <2>3. /\ processed' \in SUBSET recorded /\ failed' \in SUBSET recorded
        /\ lease' \in [Events -> Leases]
    <3>1. CASE UNCHANGED table
      BY <1>1, <3>1 DEF table
    <3>2. CASE MarkInboundProcessed(p) \/ RetryInbound(p) \/ FailInbound(p)
      BY <1>1, <1>2, <2>1, <3>2
         DEF MarkInboundProcessed, RetryInbound, FailInbound, Event, Leases, Finishing
    <3> QED  BY <1>10, <3>1, <3>2 DEF ProcessStep, Suppress, Respond, IsSuppressed, SetSMSDND,
                ApplyWorkflowReply, StepFails, ForwardInbound, StoreError, Crash
  <2> QED  BY <1>1, <1>10, <2>2, <2>3, MoveType DEF TypeInv, TypeOK, Holds, Event
<1> QED  BY <1>3, <1>4, <1>5, <1>6, <1>7, <1>8, <1>9, <1>10, <1>11
         DEF Next, Handle, Process, End, ProcessStep

LEMMA TypeInvariant == Spec => []TypeInv
  BY InitType, NextType, PTL DEF Spec

(* The types of everything in Inbound; what is processed or given up has a *)
(* row.                                                                    *)
THEOREM TypeCorrect == Spec => []TypeOK
<1>1. TypeInv => TypeOK
  BY DEF TypeInv
<1> QED  BY TypeInvariant, <1>1, PTL
-----------------------------------------------------------------------------
(* What a process has done with a STOP by the time it is at a step.        *)
StopInv ==
    /\ \A p \in Procs : at[p].pc = "respond" /\ OptOut(Event(p)) => From[Event(p)] \in suppressed
    /\ \A p \in Procs : at[p].pc \in {"reply", "forward", "mark"} /\ Text[Event(p)] = "stop" =>
          From[Event(p)] \in dnd
    /\ MainLineStopIsSuppressed
    /\ StopReachesHighLevel

(* A step that starts no process on a STOP beyond what it has done.        *)
LEMMA StopFrame ==
    ASSUME StopInv, suppressed \subseteq suppressed', dnd \subseteq dnd',
           \A q \in Procs : at'[q].pc \in {"respond", "reply", "forward", "mark"} => at'[q] = at[q],
           acked' = acked, processed' = processed
    PROVE  StopInv'
<1>1. ASSUME NEW q \in Procs, at'[q].pc = "respond", OptOut(at'[q].ev)
      PROVE  From[at'[q].ev] \in suppressed'
  BY <1>1 DEF StopInv, Event
<1>2. ASSUME NEW q \in Procs, at'[q].pc \in {"reply", "forward", "mark"}, Text[at'[q].ev] = "stop"
      PROVE  From[at'[q].ev] \in dnd'
  BY <1>2 DEF StopInv, Event
<1>3. MainLineStopIsSuppressed' /\ StopReachesHighLevel'
  BY DEF StopInv, MainLineStopIsSuppressed, StopReachesHighLevel
<1> QED  BY <1>1, <1>2, <1>3 DEF StopInv, Event, OptOut

LEMMA NextStop ==
    ASSUME TypeInv, StopInv, [Next]_vars
    PROVE  StopInv'
<1> USE InboundAssumption
<1>1. at \in [Procs -> Slot]
  BY DEF TypeInv, TypeOK
<1>2. Handlers \subseteq Procs /\ Workers \subseteq Procs
  BY DEF Procs
<1>3. CASE UNCHANGED vars
  BY <1>3, StopFrame DEF vars, table, highlevel
<1>4. ASSUME NEW e \in Events, LeaseExpires(e) \/ Overrun(e) PROVE StopInv'
  BY <1>4, StopFrame DEF LeaseExpires, Overrun, highlevel
<1>5. ASSUME NEW e \in Events, LookupFails(e) PROVE StopInv'
  <2>1. MainLineStopIsSuppressed'
    BY <1>5 DEF LookupFails, StopInv, MainLineStopIsSuppressed
  <2> QED  BY <1>5, <2>1
           DEF LookupFails, table, highlevel, StopInv, StopReachesHighLevel, Event
<1>6. ASSUME NEW h \in Handlers, NEW e \in Events, Deliver(h, e) PROVE StopInv'
  BY <1>1, <1>2, <1>6, StopFrame DEF Deliver, table, highlevel
<1>7. ASSUME NEW h \in Handlers, RecordInbound(h) PROVE StopInv'
  <2>1. /\ \A q \in Procs \ {h} : at'[q] = at[q]
        /\ at'[h].ev = at[h].ev /\ at'[h].pc = AfterRecord(h)
    BY <1>1, <1>2, <1>7, RecordMoves
  <2>2. UNCHANGED <<suppressed, acked, dnd, processed>>
    BY <1>7 DEF RecordInbound, Store, highlevel
  <2>3. ASSUME NEW q \in Procs, at'[q].pc = "respond", OptOut(at'[q].ev)
        PROVE  From[at'[q].ev] \in suppressed'
    BY <2>1, <2>2, <2>3 DEF StopInv, AfterRecord, Event
  <2>4. ASSUME NEW q \in Procs, at'[q].pc \in {"reply", "forward", "mark"}, Text[at'[q].ev] = "stop"
        PROVE  From[at'[q].ev] \in dnd'
    BY <2>1, <2>2, <2>4 DEF StopInv, AfterRecord, Event
  <2>5. MainLineStopIsSuppressed' /\ StopReachesHighLevel'
    BY <2>2 DEF StopInv, MainLineStopIsSuppressed, StopReachesHighLevel
  <2> QED  BY <2>3, <2>4, <2>5 DEF StopInv, Event, OptOut
<1>8. ASSUME NEW w \in Workers, NEW e \in Events, ClaimUnprocessedInbound(w, e) PROVE StopInv'
  BY <1>1, <1>2, <1>8, StopFrame DEF ClaimUnprocessedInbound, Take, highlevel
<1>9. ASSUME NEW p \in Procs, Suppress(p) PROVE StopInv'
  <2>1. /\ \A q \in Procs \ {p} : at'[q] = at[q]
        /\ at'[p].ev = at[p].ev /\ at'[p].pc = "respond"
    BY <1>1, <1>9, GoToMoves DEF Suppress, Moves, Steps, Starting
  <2>2. /\ suppressed' = suppressed \cup {From[at[p].ev]}
        /\ UNCHANGED <<acked, dnd, processed>>
    BY <1>9 DEF Suppress, Event, table, highlevel
  <2>3. ASSUME NEW q \in Procs, at'[q].pc = "respond", OptOut(at'[q].ev)
        PROVE  From[at'[q].ev] \in suppressed'
    BY <2>1, <2>2, <2>3 DEF StopInv, Event
  <2>4. ASSUME NEW q \in Procs, at'[q].pc \in {"reply", "forward", "mark"}, Text[at'[q].ev] = "stop"
        PROVE  From[at'[q].ev] \in dnd'
    BY <2>1, <2>2, <2>4 DEF StopInv, Event
  <2>5. MainLineStopIsSuppressed' /\ StopReachesHighLevel'
    BY <2>2 DEF StopInv, MainLineStopIsSuppressed, StopReachesHighLevel
  <2> QED  BY <2>3, <2>4, <2>5 DEF StopInv, Event, OptOut
<1>10. ASSUME NEW p \in Procs, Respond(p) PROVE StopInv'
  <2>1. /\ \A q \in Procs \ {p} : at'[q] = at[q]
        /\ at'[p].pc \in {"check", "idle"}
    BY <1>1, <1>10, GoToMoves, ReleaseMoves DEF Respond, Moves, Steps, Starting, Idle
  <2>2. /\ acked' = acked \cup {at[p].ev} /\ UNCHANGED <<suppressed, dnd, processed>>
        /\ OptOut(at[p].ev) => From[at[p].ev] \in suppressed
    BY <1>10 DEF Respond, Event, table, highlevel, StopInv
  <2>3. MainLineStopIsSuppressed'
    BY <2>2 DEF StopInv, MainLineStopIsSuppressed, OptOut
  <2>4. StopReachesHighLevel'
    BY <2>2 DEF StopInv, StopReachesHighLevel
  <2>5. ASSUME NEW q \in Procs, at'[q].pc = "respond", OptOut(at'[q].ev)
        PROVE  From[at'[q].ev] \in suppressed'
    BY <2>1, <2>2, <2>5 DEF StopInv, Event
  <2>6. ASSUME NEW q \in Procs, at'[q].pc \in {"reply", "forward", "mark"}, Text[at'[q].ev] = "stop"
        PROVE  From[at'[q].ev] \in dnd'
    BY <2>1, <2>2, <2>6 DEF StopInv, Event
  <2> QED  BY <2>3, <2>4, <2>5, <2>6 DEF StopInv, Event, OptOut
(* Who processes a message has looked at its text first.                   *)
<1>11. ASSUME NEW p \in Procs, IsSuppressed(p) \/ SetSMSDND(p) \/ ApplyWorkflowReply(p)
                               \/ StepFails(p) \/ ForwardInbound(p)
       PROVE  StopInv'
  <2>1. \A q \in Procs \ {p} : at'[q] = at[q]
    <3>1. ProcessStep(p) /\ (at[p].pc \in Finishing => Holds(p))
      BY <1>11 DEF ProcessStep, TypeInv
    <3> QED  BY <1>1, <3>1, StepMoves DEF Moves
  <2>2. /\ UNCHANGED <<suppressed, acked, processed>> /\ dnd \subseteq dnd'
    BY <1>11 DEF IsSuppressed, SetSMSDND, ApplyWorkflowReply, StepFails, ForwardInbound,
       table, highlevel
  <2>3. at'[p].pc # "respond"
    BY <1>1, <1>11, GoToMoves, ErrorMoves
       DEF IsSuppressed, SetSMSDND, ApplyWorkflowReply, StepFails, ForwardInbound, Steps, Starting
  <2>4. ASSUME at'[p].pc \in {"reply", "forward", "mark"}, Text[at'[p].ev] = "stop"
        PROVE  From[at'[p].ev] \in dnd'
    <3>1. CASE IsSuppressed(p)
      <4>1. CASE Text[Event(p)] = "stop" \/ From[Event(p)] \in suppressed
        BY <1>1, <2>4, <3>1, <4>1, GoToMoves DEF IsSuppressed, Steps, Starting
      <4>2. CASE ~(Text[Event(p)] = "stop" \/ From[Event(p)] \in suppressed)
        BY <1>1, <2>4, <3>1, <4>2, GoToMoves DEF IsSuppressed, Steps, Starting, Event
      <4> QED  BY <4>1, <4>2
    <3>2. CASE SetSMSDND(p)
      <4>1. GoTo(p, "reply")
        BY <1>1, <2>4, <3>2, ErrorMoves DEF SetSMSDND
      <4>2. at'[p].ev = at[p].ev
        BY <1>1, <4>1, GoToMoves DEF Steps, Starting
      <4> QED  BY <3>2, <4>2 DEF SetSMSDND, Event
    <3>3. CASE ApplyWorkflowReply(p)
      <4>1. at'[p].ev = at[p].ev /\ at[p].pc = "reply"
        BY <1>1, <3>3, GoToMoves DEF ApplyWorkflowReply, Steps, Starting
      <4> QED  BY <2>2, <2>4, <4>1 DEF StopInv, Event
    <3>4. CASE StepFails(p)
      BY <1>1, <2>4, <3>4, ErrorMoves DEF StepFails
    <3>5. CASE ForwardInbound(p)
      <4>1. GoTo(p, "mark") /\ at[p].pc = "forward"
        BY <1>1, <2>4, <3>5, ErrorMoves DEF ForwardInbound
      <4>2. at'[p].ev = at[p].ev
        BY <1>1, <4>1, GoToMoves DEF Steps, Starting
      <4> QED  BY <2>2, <2>4, <4>1, <4>2 DEF StopInv, Event
    <3> QED  BY <1>11, <3>1, <3>2, <3>3, <3>4, <3>5
  <2>5. MainLineStopIsSuppressed' /\ StopReachesHighLevel'
    BY <2>2 DEF StopInv, MainLineStopIsSuppressed, StopReachesHighLevel
  <2>6. ASSUME NEW q \in Procs, at'[q].pc = "respond", OptOut(at'[q].ev)
        PROVE  From[at'[q].ev] \in suppressed'
    BY <2>1, <2>2, <2>3, <2>6 DEF StopInv, Event
  <2>7. ASSUME NEW q \in Procs, at'[q].pc \in {"reply", "forward", "mark"}, Text[at'[q].ev] = "stop"
        PROVE  From[at'[q].ev] \in dnd'
    BY <2>1, <2>2, <2>4, <2>7 DEF StopInv, Event
  <2> QED  BY <2>5, <2>6, <2>7 DEF StopInv, Event, OptOut
<1>12. ASSUME NEW p \in Procs, MarkInboundProcessed(p) PROVE StopInv'
  <2>1. \A q \in Procs \ {p} : at'[q] = at[q]
    BY <1>1, <1>12, ReleaseMoves DEF MarkInboundProcessed, Moves
  <2>2. /\ processed' = processed \cup {at[p].ev} /\ UNCHANGED <<suppressed, acked, dnd>>
        /\ Text[at[p].ev] = "stop" => From[at[p].ev] \in dnd
    BY <1>12 DEF MarkInboundProcessed, Event, highlevel, StopInv
  <2>3. MainLineStopIsSuppressed' /\ StopReachesHighLevel'
    BY <2>2 DEF StopInv, MainLineStopIsSuppressed, StopReachesHighLevel
  <2>4. at'[p].pc = "idle"
    BY <1>1, <1>12, ReleaseMoves DEF MarkInboundProcessed, Idle
  <2>5. ASSUME NEW q \in Procs, at'[q].pc = "respond", OptOut(at'[q].ev)
        PROVE  From[at'[q].ev] \in suppressed'
    BY <2>1, <2>2, <2>4, <2>5 DEF StopInv, Event
  <2>6. ASSUME NEW q \in Procs, at'[q].pc \in {"reply", "forward", "mark"}, Text[at'[q].ev] = "stop"
        PROVE  From[at'[q].ev] \in dnd'
    BY <2>1, <2>2, <2>4, <2>6 DEF StopInv, Event
  <2> QED  BY <2>3, <2>5, <2>6 DEF StopInv, Event, OptOut
<1>13. ASSUME NEW p \in Procs, RetryInbound(p) \/ FailInbound(p) \/ StoreError(p) \/ Crash(p)
       PROVE  StopInv'
  <2>1. /\ \A q \in Procs \ {p} : at'[q] = at[q]
        /\ at'[p].pc \in {"idle", "retry", "drop"}
    BY <1>1, <1>13, ReleaseMoves, ErrorMoves
       DEF RetryInbound, FailInbound, StoreError, Crash, Moves, Idle
  <2>2. UNCHANGED <<suppressed, acked, dnd, processed>>
    BY <1>13 DEF RetryInbound, FailInbound, StoreError, Crash, table, highlevel
  <2> QED  BY <2>1, <2>2, StopFrame
<1> QED  BY <1>2, <1>3, <1>4, <1>5, <1>6, <1>7, <1>8, <1>9, <1>10, <1>11, <1>12, <1>13
         DEF Next, Handle, Process, End

LEMMA StopInvariant == Spec => []StopInv
<1>1. Init => StopInv
  BY DEF Init, StopInv, Idle, MainLineStopIsSuppressed, StopReachesHighLevel
<1>2. TypeInv /\ StopInv /\ [Next]_vars => StopInv'
  BY NextStop
<1> QED  BY <1>1, <1>2, TypeInvariant, PTL DEF Spec

(* Whatever crashes, fails or is delivered again, and whatever the leases  *)
(* do: a STOP to the main line that was answered 202 has its sender        *)
(* suppressed.                                                             *)
THEOREM StopSuppressedTheorem == Spec => []MainLineStopIsSuppressed
<1>1. StopInv => MainLineStopIsSuppressed
  BY DEF StopInv
<1> QED  BY StopInvariant, <1>1, PTL

(* No STOP counts as processed before the contact's DND is set.            *)
THEOREM StopReachesTheorem == Spec => []StopReachesHighLevel
<1>1. StopInv => StopReachesHighLevel
  BY DEF StopInv
<1> QED  BY StopInvariant, <1>1, PTL
-----------------------------------------------------------------------------
(* A message whose lease nobody outlives: whoever holds it has its lease,  *)
(* holds it alone, and it is open.                                         *)
HoldInv ==
    /\ \A p \in Procs : Holds(p) /\ Event(p) \in Timely =>
          lease[Event(p)] = "live" /\ Event(p) \notin processed \cup failed
    /\ \A p, q \in Procs :
          Holds(p) /\ Holds(q) /\ Event(p) = Event(q) /\ Event(p) \in Timely => p = q

(* What does not touch other processes' messages and gives nobody a new    *)
(* one keeps the leases in order.                                          *)
LEMMA HoldFrame ==
    ASSUME HoldInv, NEW p \in Procs, Moves(p),
           \A q \in Procs : at'[q].own = "yes" /\ at'[q].ev \in Timely =>
               /\ lease'[at'[q].ev] = lease[at'[q].ev]
               /\ at'[q].ev \notin (processed' \ processed) \cup (failed' \ failed)
    PROVE  HoldInv'
<1>1. ASSUME NEW q \in Procs, at'[q].own = "yes"
      PROVE  Holds(q) /\ at'[q].ev = at[q].ev
  BY <1>1 DEF Moves, Holds, Idle
<1> QED  BY <1>1 DEF HoldInv, Holds, Event

(* A message that gets a live lease, and one process to hold it.           *)
LEMMA HoldTake ==
    ASSUME TypeInv, HoldInv, NEW p \in Procs, NEW e \in Events,
           \A q \in Procs \ {p} : at'[q] = at[q],
           e \in Timely => \A q \in Procs \ {p} : Holds(q) => at[q].ev # e,
           at'[p].ev = e, lease' = [lease EXCEPT ![e] = "live"],
           e \notin processed \cup failed, UNCHANGED <<processed, failed>>
    PROVE  HoldInv'
<1>1. lease \in [Events -> Leases]
  BY DEF TypeInv, TypeOK
<1>2. ASSUME NEW q \in Procs \ {p}, at'[q].own = "yes", at'[q].ev \in Timely
      PROVE  /\ Holds(q) /\ at'[q].ev = at[q].ev /\ at[q].ev \in Events \ {e}
             /\ lease'[at[q].ev] = lease[at[q].ev]
  <2>1. Holds(q) /\ at'[q].ev = at[q].ev /\ at[q].ev # e
    BY <1>2 DEF Holds
  <2>2. at[q].ev \in Events
    BY <2>1 DEF TypeInv, TypeOK, Event
  <2> QED  BY <1>1, <2>1, <2>2
<1>3. ASSUME NEW q \in Procs, at'[q].own = "yes", at'[q].ev \in Timely
      PROVE  lease'[at'[q].ev] = "live" /\ at'[q].ev \notin processed' \cup failed'
  BY <1>1, <1>2, <1>3 DEF HoldInv, Event
<1>4. ASSUME NEW q \in Procs, NEW r \in Procs, at'[q].own = "yes", at'[r].own = "yes",
             at'[q].ev = at'[r].ev, at'[q].ev \in Timely
      PROVE  q = r
  BY <1>2, <1>4 DEF HoldInv, Event
<1> QED  BY <1>3, <1>4 DEF HoldInv, Holds, Event

LEMMA NextHold ==
    ASSUME TypeInv, HoldInv, [Next]_vars
    PROVE  HoldInv'
<1> USE InboundAssumption
<1>1. at \in [Procs -> Slot] /\ lease \in [Events -> Leases]
  BY DEF TypeInv, TypeOK
<1>2. recorded \subseteq Events /\ processed \subseteq recorded /\ failed \subseteq recorded
  BY DEF TypeInv, TypeOK
<1>3. Handlers \subseteq Procs /\ Workers \subseteq Procs
  BY DEF Procs
<1>4. CASE UNCHANGED vars
  BY <1>4 DEF vars, table, HoldInv, Holds, Event
<1>5. ASSUME NEW e \in Events, LeaseExpires(e) PROVE HoldInv'
  <2>1. ASSUME NEW p \in Procs, Holds(p) PROVE Event(p) # e /\ Event(p) \in Events
    BY <1>2, <1>5, <2>1 DEF LeaseExpires, InHand, Holds, TypeInv
  <2>2. ASSUME NEW p \in Procs, Holds(p) PROVE lease'[Event(p)] = lease[Event(p)]
    BY <1>1, <1>5, <2>1, <2>2 DEF LeaseExpires
  <2> QED  BY <1>5, <2>2 DEF LeaseExpires, HoldInv, Holds, Event
<1>11. ASSUME NEW e \in Events, Overrun(e) PROVE HoldInv'
  <2>1. ASSUME NEW d \in Timely PROVE lease'[d] = lease[d]
    BY <1>1, <1>11, <2>1 DEF Overrun
  <2> QED  BY <1>11, <2>1 DEF Overrun, HoldInv, Holds, Event
<1>6. ASSUME NEW e \in Events, LookupFails(e) PROVE HoldInv'
  BY <1>6 DEF LookupFails, table, HoldInv, Holds, Event
<1>7. ASSUME NEW h \in Handlers, NEW e \in Events, Deliver(h, e) PROVE HoldInv'
  BY <1>1, <1>3, <1>7 DEF Deliver, table, HoldInv, Holds, Event
<1>8. ASSUME NEW h \in Handlers, RecordInbound(h) PROVE HoldInv'
  <2> DEFINE e == at[h].ev
  <2>1. /\ h \in Procs /\ \A q \in Procs \ {h} : at'[q] = at[q]
        /\ at'[h].ev = e /\ (at'[h].own = "yes" <=> e \notin recorded)
    BY <1>1, <1>3, <1>8, RecordMoves
  <2>2. /\ lease' = [lease EXCEPT ![e] = IF e \notin recorded THEN "live" ELSE @]
        /\ UNCHANGED <<processed, failed>> /\ e \in Events
    BY <1>3, <1>8 DEF RecordInbound, Store, FirstLease, IsNew, Event, TypeInv
  <2> HIDE DEF e
  <2>3. CASE e \in recorded
    <3>1. UNCHANGED lease
      BY <1>1, <2>2, <2>3
    <3>2. ASSUME NEW q \in Procs, at'[q].own = "yes" PROVE Holds(q) /\ at'[q] = at[q]
      BY <2>1, <2>3, <3>2 DEF Holds
    <3> QED  BY <2>2, <3>1, <3>2 DEF HoldInv, Holds, Event
  <2>4. CASE e \notin recorded
    <3>1. \A q \in Procs \ {h} : Holds(q) => at[q].ev # e
      BY <2>1, <2>4 DEF TypeInv, Event
    <3>2. lease' = [lease EXCEPT ![e] = "live"] /\ e \notin processed \cup failed
      BY <1>2, <2>2, <2>4
    <3> QED  BY <2>1, <2>2, <3>1, <3>2, HoldTake
  <2> QED  BY <2>3, <2>4
<1>9. ASSUME NEW w \in Workers, NEW e \in Events, ClaimUnprocessedInbound(w, e) PROVE HoldInv'
  <2>1. w \in Procs
    BY <1>3
  <2>2. /\ lease' = [lease EXCEPT ![e] = "live"] /\ UNCHANGED <<processed, failed>>
        /\ at'[w].ev = e /\ \A q \in Procs \ {w} : at'[q] = at[q]
        /\ lease[e] # "live" /\ e \notin processed \cup failed
    BY <1>1, <1>9, <2>1 DEF ClaimUnprocessedInbound, Take
  <2>3. e \in Timely => \A q \in Procs \ {w} : Holds(q) => at[q].ev # e
    BY <2>2 DEF HoldInv, Event
  <2> QED  BY <2>1, <2>2, <2>3, HoldTake
<1>10. ASSUME NEW p \in Procs, ProcessStep(p) PROVE HoldInv'
  <2>1. Moves(p)
    BY <1>1, <1>10, StepMoves DEF TypeInv
  <2>2. CASE UNCHANGED table
    BY <2>1, <2>2, HoldFrame DEF table
  <2>3. CASE MarkInboundProcessed(p) \/ RetryInbound(p) \/ FailInbound(p)
    <3>1. at'[p] = Idle /\ Holds(p) /\ at[p].ev \in Events
      BY <1>1, <1>2, <2>3, ReleaseMoves
         DEF MarkInboundProcessed, RetryInbound, FailInbound, TypeInv, Finishing, Event
    <3>2. /\ \A d \in Events \ {at[p].ev} : lease'[d] = lease[d]
          /\ processed' \subseteq processed \cup {at[p].ev}
          /\ failed' \subseteq failed \cup {at[p].ev}
      BY <1>1, <2>3, <3>1 DEF MarkInboundProcessed, RetryInbound, FailInbound, Event
    <3>3. ASSUME NEW q \in Procs, at'[q].own = "yes", at'[q].ev \in Timely
          PROVE  at'[q].ev \in Events \ {at[p].ev}
      BY <1>2, <2>1, <3>1, <3>3 DEF Moves, HoldInv, TypeInv, Holds, Event, Idle
    <3> QED  BY <2>1, <3>2, <3>3, HoldFrame
  <2> QED  BY <1>10, <2>2, <2>3 DEF ProcessStep, Suppress, Respond, IsSuppressed, SetSMSDND,
              ApplyWorkflowReply, StepFails, ForwardInbound, StoreError, Crash
<1> QED  BY <1>3, <1>4, <1>5, <1>6, <1>7, <1>8, <1>9, <1>10, <1>11
         DEF Next, Handle, Process, End, ProcessStep
-----------------------------------------------------------------------------
(* Who is about to note it has forwarded the message, and who noted it has.*)
MarkInv ==
    /\ \A p \in Procs : at[p].pc = "mark" => forwards[Event(p)] > 0
    /\ \A e \in processed : forwards[e] > 0

LEMMA NextMark ==
    ASSUME TypeInv, MarkInv, [Next]_vars
    PROVE  MarkInv'
<1> USE InboundAssumption
<1>1. /\ at \in [Procs -> Slot] /\ forwards \in [Events -> Nat] /\ processed \subseteq Events
      /\ Handlers \subseteq Procs /\ Workers \subseteq Procs
      /\ \A p \in Procs : at[p].pc \in Finishing => Holds(p)
  BY DEF TypeInv, TypeOK, Procs
<1>2. ASSUME UNCHANGED <<forwards, processed>>, \A q \in Procs : at'[q].pc = "mark" => at'[q] = at[q]
      PROVE  MarkInv'
  BY <1>2 DEF MarkInv, Event
<1>3. CASE UNCHANGED vars
  BY <1>2, <1>3 DEF vars, table, highlevel
<1>4. CASE \E e \in Events : LeaseExpires(e) \/ Overrun(e) \/ LookupFails(e)
  BY <1>2, <1>4 DEF LeaseExpires, Overrun, LookupFails, table, highlevel
<1>5. ASSUME NEW h \in Handlers, NEW e \in Events, Deliver(h, e) PROVE MarkInv'
  BY <1>1, <1>2, <1>5 DEF Deliver, table, highlevel
<1>6. ASSUME NEW h \in Handlers, RecordInbound(h) PROVE MarkInv'
  <2>1. \A q \in Procs \ {h} : at'[q] = at[q] /\ at'[h].pc # "mark"
    BY <1>1, <1>6, RecordMoves
  <2> QED  BY <1>1, <1>2, <1>6, <2>1, RecordMoves DEF RecordInbound, Store, highlevel
<1>7. ASSUME NEW w \in Workers, NEW e \in Events, ClaimUnprocessedInbound(w, e) PROVE MarkInv'
  BY <1>1, <1>2, <1>7 DEF ClaimUnprocessedInbound, Take, highlevel
<1>8. ASSUME NEW p \in Procs, ProcessStep(p) PROVE MarkInv'
  <2>1. Moves(p) /\ (at'[p].pc = "mark" => ForwardInbound(p))
    BY <1>1, <1>8, StepMoves
  <2>2. CASE ForwardInbound(p)
    <3>1. at[p].ev \in Events /\ forwards' = [forwards EXCEPT ![at[p].ev] = @ + 1]
      BY <2>2 DEF ForwardInbound, Count, TypeInv, Event
    <3>2. \A e \in Events : forwards[e] > 0 => forwards'[e] > 0
      BY <1>1, <3>1
    <3>3. forwards'[at[p].ev] > 0
      BY <1>1, <3>1
    <3>4. ASSUME NEW q \in Procs, at'[q].pc = "mark" PROVE forwards'[at'[q].ev] > 0
      <4>1. CASE q = p
        BY <2>1, <3>3, <3>4, <4>1 DEF Moves, Idle
      <4>2. CASE q # p
        <5>1. at'[q] = at[q] /\ at[q].ev \in Events
          BY <2>1, <3>4, <4>2 DEF Moves, TypeInv, Event
        <5> QED  BY <3>2, <3>4, <5>1 DEF MarkInv, Event
      <4> QED  BY <4>1, <4>2
    <3>5. ASSUME NEW e \in processed' PROVE forwards'[e] > 0
      BY <1>1, <2>2, <3>2, <3>5 DEF ForwardInbound, table, MarkInv
    <3> QED  BY <3>4, <3>5 DEF MarkInv, Event
  <2>3. CASE MarkInboundProcessed(p)
    <3>1. /\ processed' = processed \cup {at[p].ev} /\ UNCHANGED forwards
          /\ forwards[at[p].ev] > 0
      BY <2>3 DEF MarkInboundProcessed, MarkInv, Event, highlevel
    <3>2. at'[p].pc # "mark" /\ \A q \in Procs \ {p} : at'[q] = at[q]
      BY <1>1, <2>3, ReleaseMoves DEF MarkInboundProcessed, Moves, Idle
    <3> QED  BY <3>1, <3>2 DEF MarkInv, Event
  <2>4. CASE ~ForwardInbound(p) /\ ~MarkInboundProcessed(p)
    <3>1. UNCHANGED <<forwards, processed>>
      BY <1>8, <2>4 DEF ProcessStep, Suppress, Respond, IsSuppressed, SetSMSDND,
         ApplyWorkflowReply, StepFails, RetryInbound, FailInbound,
         StoreError, Crash, table, highlevel
    <3> QED  BY <1>2, <2>1, <2>4, <3>1 DEF Moves
  <2> QED  BY <2>2, <2>3, <2>4
<1> QED  BY <1>1, <1>3, <1>4, <1>5, <1>6, <1>7, <1>8
         DEF Next, Handle, Process, End, ProcessStep
-----------------------------------------------------------------------------
(* The copies of a message that are still to come without anything more    *)
(* being lost: one for each process that has it in hand and has not made   *)
(* its copy, and one if a worker may still claim it.                       *)
Holders(e) == {p \in Procs : Holds(p) /\ Event(p) = e}
Busy(e)    == {p \in Holders(e) : at[p].pc # "mark"}
Free(e)    == IF e \notin processed \cup failed /\ (lease[e] # "live" \/ Holders(e) = {})
              THEN 1 ELSE 0

ShareInv ==
    \A e \in Events : forwards[e] + Cardinality(Busy(e)) + Free(e) <= 1 + lost[e]

LEMMA BusyCounts ==
    ASSUME NEW e \in Events
    PROVE  /\ IsFiniteSet(Busy(e)) /\ Cardinality(Busy(e)) \in Nat
           /\ Cardinality(Busy(e))' \in Nat
           /\ Free(e) \in {0, 1} /\ Free(e)' \in {0, 1}
<1>1. IsFiniteSet(Procs)
  BY InboundAssumption DEF Procs
<1>2. Busy(e) \in SUBSET Procs /\ Busy(e)' \in SUBSET Procs
  BY DEF Busy, Holders
<1>3. IsFiniteSet(Busy(e)) /\ IsFiniteSet(Busy(e)')
  BY <1>1, <1>2, FS_Subset
<1>4. Cardinality(Busy(e)) \in Nat /\ Cardinality(Busy(e)') \in Nat
  BY <1>3, FS_CardinalityType
<1> QED  BY <1>3, <1>4 DEF Free

LEMMA OneLess ==
    ASSUME NEW e \in Events, NEW p \in Busy(e), Busy(e)' = Busy(e) \ {p}
    PROVE  Cardinality(Busy(e))' = Cardinality(Busy(e)) - 1
  BY BusyCounts, FS_RemoveElement

LEMMA OneMore ==
    ASSUME NEW e \in Events, NEW p, p \notin Busy(e), Busy(e)' = Busy(e) \cup {p}
    PROVE  Cardinality(Busy(e))' = Cardinality(Busy(e)) + 1
  BY BusyCounts, FS_AddElement

(* A step of a process that has message e, or one that has another.        *)
LEMMA HoldersMove ==
    ASSUME NEW p \in Procs, NEW e \in Events, Moves(p)
    PROVE  /\ ~Holds(p) \/ Event(p) # e => Holders(e)' = Holders(e) /\ Busy(e)' = Busy(e)
           /\ at'[p] = Idle => Busy(e)' = Busy(e) \ {p}
           /\ Holds(p) /\ Event(p) = e /\ at'[p] # Idle =>
                 /\ Holders(e)' = Holders(e)
                 /\ Busy(e)' = IF at'[p].pc = "mark" THEN Busy(e) \ {p} ELSE Busy(e) \cup {p}
           /\ Holds(p) /\ Event(p) = e /\ at[p].pc # "mark" <=> p \in Busy(e)
<1> USE DEF Moves, Holders, Busy, Holds, Event, Idle
<1>1. ASSUME ~Holds(p) \/ Event(p) # e PROVE Holders(e)' = Holders(e) /\ Busy(e)' = Busy(e)
  BY <1>1
<1>2. ASSUME at'[p] = Idle PROVE Busy(e)' = Busy(e) \ {p}
  BY <1>2
<1>3. ASSUME Holds(p), Event(p) = e, at'[p] # Idle
      PROVE  /\ Holders(e)' = Holders(e)
             /\ Busy(e)' = IF at'[p].pc = "mark" THEN Busy(e) \ {p} ELSE Busy(e) \cup {p}
  BY <1>3
<1>4. Holds(p) /\ Event(p) = e /\ at[p].pc # "mark" <=> p \in Busy(e)
  OBVIOUS
<1> QED  BY <1>1, <1>2, <1>3, <1>4

(* What a step of p does to a message p does not have: nothing.            *)
LEMMA Elsewhere ==
    ASSUME TypeInv, NEW p \in Procs, ProcessStep(p), NEW i \in Events, ~Holds(p) \/ Event(p) # i
    PROVE  /\ forwards'[i] = forwards[i] /\ lost'[i] = lost[i] /\ lease'[i] = lease[i]
           /\ i \in processed' \cup failed' <=> i \in processed \cup failed
<1>1. /\ lease \in [Events -> Leases] /\ forwards \in [Events -> Nat] /\ lost \in [Events -> Nat]
      /\ at[p].pc \in Finishing => Holds(p)
  BY DEF TypeInv, TypeOK
<1>2. CASE ForwardInbound(p)
  <2>1. Event(p) # i /\ UNCHANGED table
    BY <1>1, <1>2 DEF ForwardInbound, Finishing
  <2>2. forwards' = Count(forwards, Event(p)) /\ (lost' = lost \/ lost' = Count(lost, Event(p)))
    BY <1>2 DEF ForwardInbound
  <2> QED  BY <1>1, <2>1, <2>2 DEF Count, table
<1>3. CASE MarkInboundProcessed(p) \/ RetryInbound(p) \/ FailInbound(p)
  <2>1. Event(p) # i /\ UNCHANGED <<forwards, lost>>
    BY <1>1, <1>3 DEF MarkInboundProcessed, RetryInbound, FailInbound, Finishing, highlevel
  <2> QED  BY <1>1, <1>3, <2>1 DEF MarkInboundProcessed, RetryInbound, FailInbound
<1>4. CASE StoreError(p) \/ Crash(p)
  <2>1. UNCHANGED <<table, forwards>> /\ Lose(p)
    BY <1>4 DEF StoreError, Crash, highlevel
  <2>2. lost'[i] = lost[i]
    BY <1>1, <2>1 DEF Lose, Count, Finishing
  <2> QED  BY <2>1, <2>2 DEF table
<1>5. CASE \/ Suppress(p) \/ Respond(p) \/ IsSuppressed(p) \/ SetSMSDND(p)
           \/ ApplyWorkflowReply(p) \/ StepFails(p)
  BY <1>5 DEF Suppress, Respond, IsSuppressed, SetSMSDND, ApplyWorkflowReply, StepFails,
     table, highlevel
<1> QED  BY <1>2, <1>3, <1>4, <1>5 DEF ProcessStep

(* What a step of p does to the message p has: it goes on without a copy,  *)
(* or gives the message back; it makes the copy, and knows it or not; it   *)
(* marks the message, or is kept from it.                                  *)
GoesOn(p)     == /\ at[p].pc # "mark" /\ at'[p].pc # "mark" /\ at'[p] # Idle
                 /\ UNCHANGED <<table, forwards, lost>>
PutsBack(p)   == /\ at[p].pc # "mark" /\ at'[p] = Idle
                 /\ UNCHANGED <<forwards, lost>>
Copies(p, i)  == /\ at[p].pc # "mark" /\ at'[p].pc = "mark" /\ at'[p] # Idle
                 /\ forwards'[i] = forwards[i] + 1 /\ lost'[i] = lost[i]
                 /\ UNCHANGED table
Loses(p, i)   == /\ at[p].pc # "mark" /\ at'[p].pc # "mark"
                 /\ forwards'[i] = forwards[i] + 1 /\ lost'[i] = lost[i] + 1
                 /\ UNCHANGED table
Marks(p, i)   == /\ at[p].pc = "mark" /\ at'[p] = Idle /\ i \in processed'
                 /\ UNCHANGED <<forwards, lost>>
Forgets(p, i) == /\ at[p].pc = "mark" /\ at'[p].pc # "mark"
                 /\ lost'[i] = lost[i] + 1
                 /\ UNCHANGED <<table, forwards>>

LEMMA OwnStep ==
    ASSUME TypeInv, NEW p \in Procs, ProcessStep(p), NEW i \in Events, Holds(p), Event(p) = i
    PROVE  \/ GoesOn(p) \/ PutsBack(p) \/ Copies(p, i)
           \/ Loses(p, i) \/ Marks(p, i) \/ Forgets(p, i)
<1>1. /\ at \in [Procs -> Slot] /\ forwards \in [Events -> Nat] /\ lost \in [Events -> Nat]
      /\ at[p].pc \in Finishing => Holds(p)
  BY DEF TypeInv, TypeOK
<1>2. CASE ForwardInbound(p)
  <2>1. /\ at[p].pc # "mark" /\ UNCHANGED table /\ forwards'[i] = forwards[i] + 1
    BY <1>1, <1>2 DEF ForwardInbound, Count
  <2>2. CASE GoTo(p, "mark") /\ UNCHANGED lost
    <3>1. at'[p].pc = "mark"
      BY <1>1, <2>2, GoToMoves DEF Steps, Starting
    <3> QED  BY <2>1, <2>2, <3>1 DEF Copies, Idle
  <2>3. CASE AfterError(p) /\ lost' = Count(lost, Event(p))
    <3>1. at'[p].pc # "mark" /\ lost'[i] = lost[i] + 1
      BY <1>1, <2>3, ErrorMoves DEF Count
    <3> QED  BY <2>1, <3>1 DEF Loses
  <2> QED  BY <1>2, <2>2, <2>3 DEF ForwardInbound
<1>3. CASE MarkInboundProcessed(p)
  BY <1>1, <1>3, ReleaseMoves DEF MarkInboundProcessed, Marks, highlevel
<1>4. CASE RetryInbound(p) \/ FailInbound(p)
  BY <1>1, <1>4, ReleaseMoves DEF RetryInbound, FailInbound, PutsBack, highlevel
<1>5. CASE StoreError(p) \/ Crash(p)
  <2>1. UNCHANGED <<table, forwards>> /\ Lose(p) /\ at'[p].pc # "mark"
    BY <1>1, <1>5, ReleaseMoves, ErrorMoves DEF StoreError, Crash, highlevel, Idle
  <2>2. CASE at[p].pc = "mark"
    <3>1. lost'[i] = lost[i] + 1
      BY <1>1, <2>1, <2>2 DEF Lose, Count
    <3> QED  BY <2>1, <2>2, <3>1 DEF Forgets
  <2>3. CASE at[p].pc # "mark"
    BY <2>1, <2>3 DEF Lose, GoesOn, PutsBack
  <2> QED  BY <2>2, <2>3
<1>6. CASE \/ Suppress(p) \/ Respond(p) \/ IsSuppressed(p) \/ SetSMSDND(p)
           \/ ApplyWorkflowReply(p) \/ StepFails(p)
  <2>1. at[p].pc # "mark" /\ UNCHANGED <<table, forwards, lost>>
    BY <1>6 DEF Suppress, Respond, IsSuppressed, SetSMSDND, ApplyWorkflowReply, StepFails,
       highlevel
  <2>2. at'[p].pc # "mark"
    <3>1. ~ForwardInbound(p)
      BY <1>1, <2>1 DEF ForwardInbound, Count
    <3> QED  BY <1>1, <3>1, StepMoves
  <2> QED  BY <2>1, <2>2 DEF GoesOn, PutsBack
<1> QED  BY <1>2, <1>3, <1>4, <1>5, <1>6 DEF ProcessStep

LEMMA ShareStep ==
    ASSUME TypeInv, ShareInv, [Next]_vars
    PROVE  ShareInv'
<1> SUFFICES ASSUME NEW i \in Events
             PROVE  forwards'[i] + Cardinality(Busy(i))' + Free(i)' <= 1 + lost'[i]
  BY DEF ShareInv
<1> DEFINE Goal == forwards'[i] + Cardinality(Busy(i))' + Free(i)' <= 1 + lost'[i]
<1> USE InboundAssumption
<1>1. /\ at \in [Procs -> Slot] /\ lease \in [Events -> Leases]
      /\ forwards \in [Events -> Nat] /\ lost \in [Events -> Nat]
      /\ Handlers \subseteq Procs /\ Workers \subseteq Procs
      /\ processed \subseteq recorded /\ failed \subseteq recorded
      /\ \A p \in Procs : at[p].pc \in Finishing => Holds(p)
      /\ \A p \in Procs : at[p].pc \in Starting => ~Holds(p)
  BY DEF TypeInv, TypeOK, Procs
<1>2. /\ forwards[i] + Cardinality(Busy(i)) + Free(i) <= 1 + lost[i]
      /\ forwards[i] \in Nat /\ lost[i] \in Nat
      /\ Cardinality(Busy(i)) \in Nat /\ Cardinality(Busy(i))' \in Nat
      /\ Free(i) \in {0, 1} /\ Free(i)' \in {0, 1}
  BY <1>1, BusyCounts DEF ShareInv
<1>3. ASSUME forwards'[i] = forwards[i], lost'[i] = lost[i], lease'[i] = lease[i],
             i \in processed' \cup failed' <=> i \in processed \cup failed,
             Busy(i)' = Busy(i), Holders(i)' = Holders(i)
      PROVE  Goal
  <2>1. Free(i)' = Free(i)
    BY <1>3 DEF Free
  <2> QED  BY <1>2, <1>3, <2>1
<1>4. CASE UNCHANGED vars
  BY <1>3, <1>4 DEF vars, table, highlevel, Busy, Holders, Holds, Event
<1>5. ASSUME NEW e \in Events, LeaseExpires(e) PROVE Goal
  <2>1. UNCHANGED <<forwards, lost, processed, failed, at>>
    BY <1>5 DEF LeaseExpires, highlevel
  <2>2. Busy(i)' = Busy(i) /\ Holders(i)' = Holders(i)
    BY <2>1 DEF Busy, Holders, Holds, Event
  <2>3. Free(i)' <= Free(i)
    <3>1. CASE i = e
      <4>1. Holders(i) = {}
        BY <1>5, <3>1 DEF LeaseExpires, InHand, Holders, Holds
      <4> QED  BY <1>2, <2>1, <4>1 DEF Free
    <3>2. CASE i # e
      <4>1. lease'[i] = lease[i]
        BY <1>1, <1>5, <3>2 DEF LeaseExpires
      <4> QED  BY <1>2, <2>1, <2>2, <4>1 DEF Free
    <3> QED  BY <3>1, <3>2
  <2> QED  BY <1>2, <2>1, <2>2, <2>3
<1>6. ASSUME NEW e \in Events, Overrun(e) PROVE Goal
  <2>1. /\ UNCHANGED <<forwards, processed, failed, at>>
        /\ lost' = [lost EXCEPT ![e] = @ + 1] /\ lease' = [lease EXCEPT ![e] = "expired"]
    BY <1>6 DEF Overrun, Count, highlevel
  <2>2. Busy(i)' = Busy(i) /\ Holders(i)' = Holders(i)
    BY <2>1 DEF Busy, Holders, Holds, Event
  <2>3. CASE i = e
    <3>1. lost'[i] = lost[i] + 1
      BY <1>1, <2>1, <2>3
    <3> QED  BY <1>2, <2>1, <2>2, <3>1
  <2>4. CASE i # e
    BY <1>1, <1>3, <2>1, <2>2, <2>4
  <2> QED  BY <2>3, <2>4
<1>7. ASSUME NEW e \in Events, LookupFails(e) PROVE Goal
  BY <1>3, <1>7 DEF LookupFails, table, highlevel, Busy, Holders, Holds, Event
<1>8. ASSUME NEW h \in Handlers, NEW e \in Events, Deliver(h, e) PROVE Goal
  <2>1. /\ ~Holds(h) /\ at'[h].own # "yes" /\ \A q \in Procs \ {h} : at'[q] = at[q]
    BY <1>1, <1>8 DEF Deliver, Starting
  <2>2. Busy(i)' = Busy(i) /\ Holders(i)' = Holders(i)
    BY <2>1 DEF Busy, Holders, Holds, Event
  <2> QED  BY <1>3, <1>8, <2>2 DEF Deliver, table, highlevel
(* A process that was without message i has it from now on.                *)
<1>9. ASSUME NEW p \in Procs, p \notin Holders(i), at'[p].own = "yes", at'[p].ev = i,
             at'[p].pc # "mark", \A q \in Procs \ {p} : at'[q] = at[q],
             lease'[i] = "live", Free(i) = 1, UNCHANGED <<forwards, lost>>
      PROVE  Goal
  <2>1. p \notin Busy(i) /\ Busy(i)' = Busy(i) \cup {p} /\ p \in Holders(i)'
    BY <1>9 DEF Busy, Holders, Holds, Event
  <2>2. Cardinality(Busy(i))' = Cardinality(Busy(i)) + 1
    BY <2>1, OneMore
  <2>3. Free(i)' = 0
    BY <1>9, <2>1 DEF Free
  <2> QED  BY <1>2, <1>9, <2>2, <2>3
<1>10. ASSUME NEW h \in Handlers, RecordInbound(h) PROVE Goal
  <2> DEFINE e == at[h].ev
  <2>1. /\ ~Holds(h) /\ \A q \in Procs \ {h} : at'[q] = at[q]
        /\ at'[h].ev = e /\ (at'[h].own = "yes" <=> e \notin recorded)
        /\ at'[h].pc # "mark"
    BY <1>1, <1>10, RecordMoves DEF RecordInbound, Store, Starting
  <2>2. /\ lease' = [lease EXCEPT ![e] = IF e \notin recorded THEN "live" ELSE @]
        /\ UNCHANGED <<processed, failed, forwards, lost>>
    BY <1>10 DEF RecordInbound, Store, FirstLease, IsNew, Event, highlevel
  <2>3. e \notin recorded => Holders(e) = {}
    BY DEF TypeInv, Holders, Event
  <2> HIDE DEF e
  <2>4. CASE e = i /\ e \notin recorded
    <3>1. Free(i) = 1
      BY <1>1, <2>3, <2>4 DEF Free
    <3> QED  BY <1>1, <1>9, <2>1, <2>2, <2>3, <2>4, <3>1
  <2>5. CASE ~(e = i /\ e \notin recorded)
    <3>1. lease'[i] = lease[i]
      BY <1>1, <2>2, <2>5
    <3>2. Busy(i)' = Busy(i) /\ Holders(i)' = Holders(i)
      BY <2>1, <2>5 DEF Busy, Holders, Holds, Event
    <3> QED  BY <1>3, <2>2, <3>1, <3>2
  <2> QED  BY <2>4, <2>5
<1>11. ASSUME NEW w \in Workers, NEW e \in Events, ClaimUnprocessedInbound(w, e) PROVE Goal
  <2>1. /\ ~Holds(w) /\ \A q \in Procs \ {w} : at'[q] = at[q]
        /\ at'[w].ev = e /\ at'[w].own = "yes" /\ at'[w].pc = "check"
        /\ lease' = [lease EXCEPT ![e] = "live"]
        /\ UNCHANGED <<processed, failed, forwards, lost>>
        /\ lease[e] # "live" /\ e \notin processed \cup failed
    BY <1>1, <1>11 DEF ClaimUnprocessedInbound, Take, Starting, highlevel
  <2>2. CASE e = i
    <3>1. Free(i) = 1 /\ w \notin Holders(i)
      BY <2>1, <2>2 DEF Free, Holders
    <3> QED  BY <1>1, <1>9, <2>1, <2>2, <3>1
  <2>3. CASE e # i
    <3>1. Busy(i)' = Busy(i) /\ Holders(i)' = Holders(i)
      BY <2>1, <2>3 DEF Busy, Holders, Holds, Event
    <3> QED  BY <1>1, <1>3, <2>1, <2>3, <3>1
  <2> QED  BY <2>2, <2>3
<1>12. ASSUME NEW p \in Procs, ProcessStep(p) PROVE Goal
  <2>1. /\ Moves(p) /\ at[p].pc # "idle"
        /\ at'[p].pc \in Finishing => at'[p].own = "yes"
        /\ at'[p].pc = "mark" => ForwardInbound(p)
    BY <1>1, <1>12, StepMoves
  <2>2. /\ ~Holds(p) \/ Event(p) # i => Holders(i)' = Holders(i) /\ Busy(i)' = Busy(i)
        /\ at'[p] = Idle => Busy(i)' = Busy(i) \ {p}
        /\ Holds(p) /\ Event(p) = i /\ at'[p] # Idle =>
              /\ Holders(i)' = Holders(i)
              /\ Busy(i)' = IF at'[p].pc = "mark" THEN Busy(i) \ {p} ELSE Busy(i) \cup {p}
        /\ Holds(p) /\ Event(p) = i /\ at[p].pc # "mark" <=> p \in Busy(i)
    BY <2>1, HoldersMove
  <2>3. CASE ~Holds(p) \/ Event(p) # i
    BY <1>1, <1>3, <1>12, <2>2, <2>3, Elsewhere
  <2>4. CASE Holds(p) /\ Event(p) = i
    <3>1. at'[p] # Idle /\ UNCHANGED table => Free(i)' = Free(i)
      BY <2>2, <2>4 DEF Free, table
    <3>2. CASE GoesOn(p)
      <4>1. Busy(i)' = Busy(i) /\ Free(i)' = Free(i)
        BY <2>2, <2>4, <3>1, <3>2 DEF GoesOn
      <4> QED  BY <1>2, <3>2, <4>1 DEF GoesOn
    <3>3. CASE PutsBack(p)
      <4>1. Cardinality(Busy(i))' = Cardinality(Busy(i)) - 1
        BY <2>2, <2>4, <3>3, OneLess DEF PutsBack
      <4> QED  BY <1>2, <3>3, <4>1 DEF PutsBack
    <3>4. CASE Copies(p, i)
      <4>1. Cardinality(Busy(i))' = Cardinality(Busy(i)) - 1 /\ Free(i)' = Free(i)
        BY <2>2, <2>4, <3>1, <3>4, OneLess DEF Copies
      <4> QED  BY <1>2, <3>4, <4>1 DEF Copies
    <3>5. CASE Loses(p, i)
      <4>1. CASE at'[p] = Idle
        <5>1. Cardinality(Busy(i))' = Cardinality(Busy(i)) - 1
          BY <2>2, <2>4, <3>5, <4>1, OneLess DEF Loses
        <5> QED  BY <1>2, <3>5, <5>1 DEF Loses
      <4>2. CASE at'[p] # Idle
        <5>1. Busy(i)' = Busy(i) /\ Free(i)' = Free(i)
          BY <2>2, <2>4, <3>1, <3>5, <4>2 DEF Loses
        <5> QED  BY <1>2, <3>5, <5>1 DEF Loses
      <4> QED  BY <4>1, <4>2
    <3>6. CASE Marks(p, i)
      <4>1. Busy(i)' = Busy(i) /\ Free(i)' = 0
        BY <2>2, <3>6 DEF Marks, Free
      <4> QED  BY <1>2, <3>6, <4>1 DEF Marks
    <3>7. CASE Forgets(p, i)
      <4>1. CASE at'[p] = Idle
        <5>1. Busy(i)' = Busy(i)
          BY <2>2, <3>7, <4>1 DEF Forgets
        <5> QED  BY <1>2, <3>7, <5>1 DEF Forgets
      <4>2. CASE at'[p] # Idle
        <5>1. p \notin Busy(i) /\ Busy(i)' = Busy(i) \cup {p}
          BY <2>2, <2>4, <3>7, <4>2 DEF Forgets
        <5>2. Cardinality(Busy(i))' = Cardinality(Busy(i)) + 1 /\ Free(i)' = Free(i)
          BY <3>1, <3>7, <4>2, <5>1, OneMore DEF Forgets
        <5> QED  BY <1>2, <3>7, <5>2 DEF Forgets
      <4> QED  BY <4>1, <4>2
    <3> QED  BY <1>12, <2>4, <3>2, <3>3, <3>4, <3>5, <3>6, <3>7, OwnStep
  <2> QED  BY <2>3, <2>4
<1> QED  BY <1>1, <1>4, <1>5, <1>6, <1>7, <1>8, <1>10, <1>11, <1>12
         DEF Next, Handle, Process, End, ProcessStep

LEMMA ShareInvariant == Spec => [](MarkInv /\ ShareInv)
<1>1. Init => MarkInv /\ ShareInv
  <2> SUFFICES ASSUME Init PROVE MarkInv /\ ShareInv
    OBVIOUS
  <2>1. \A p \in Procs : at[p].pc = "idle" /\ ~Holds(p)
    BY DEF Init, Idle, Holds
  <2>2. ASSUME NEW e \in Events
        PROVE  forwards[e] + Cardinality(Busy(e)) + Free(e) <= 1 + lost[e]
    <3>1. Busy(e) = {}
      BY <2>1 DEF Busy, Holders
    <3>2. Cardinality(Busy(e)) = 0
      BY <3>1, FS_EmptySet
    <3>3. Free(e) = 1 /\ forwards[e] = 0 /\ lost[e] = 0
      BY DEF Init, Free
    <3> QED  BY <3>2, <3>3
  <2> QED  BY <2>1, <2>2 DEF Init, MarkInv, ShareInv
<1>2. TypeInv /\ MarkInv /\ ShareInv /\ [Next]_vars => MarkInv' /\ ShareInv'
  BY NextMark, ShareStep
<1> QED  BY <1>1, <1>2, TypeInvariant, PTL DEF Spec

(* However often a message is delivered, retried and overtaken, once it is *)
(* processed it is in its HighLevel conversation, and it is there once but *)
(* for the runs that were cut off after forwarding it or outlived their    *)
(* lease.                                                                  *)
THEOREM ForwardedOnceTheorem == Spec => []ForwardedOnce
<1>1. TypeInv /\ MarkInv /\ ShareInv => ForwardedOnce
  <2> SUFFICES ASSUME TypeInv, MarkInv, ShareInv, NEW e \in Events
               PROVE  forwards[e] <= 1 + lost[e]
    BY DEF ForwardedOnce, MarkInv
  <2>1. forwards[e] + Cardinality(Busy(e)) + Free(e) <= 1 + lost[e]
        /\ forwards[e] \in Nat /\ lost[e] \in Nat
    BY DEF ShareInv, TypeInv, TypeOK
  <2> QED  BY <2>1, BusyCounts
<1> QED  BY TypeInvariant, ShareInvariant, <1>1, PTL
-----------------------------------------------------------------------------
(* Refinement.                                                             *)

Inv == TypeInv /\ HoldInv /\ MarkInv

LEMMA StaysPut ==
    ASSUME UNCHANGED <<recorded, processed, failed, forwards>>
    PROVE  UNCHANGED <<phase, handled>>
  BY DEF phase, handled

LEMMA NextBox ==
    ASSUME Inv, [Next]_vars
    PROVE  [Box!Next]_<<phase, handled>>
<1> USE InboundAssumption
<1>1. /\ at \in [Procs -> Slot] /\ forwards \in [Events -> Nat]
      /\ processed \subseteq recorded /\ failed \subseteq recorded /\ recorded \subseteq Events
  BY DEF Inv, TypeInv, TypeOK
<1>2. Handlers \subseteq Procs /\ Workers \subseteq Procs
  BY DEF Procs
<1>3. ASSUME NEW p \in Procs, at[p].pc \in Finishing
      PROVE  /\ at[p].ev \in Events /\ at[p].ev \in recorded
             /\ at[p].ev \in Timely => at[p].ev \notin processed \cup failed
  BY <1>1, <1>3 DEF Inv, TypeInv, HoldInv, Event
<1>4. CASE UNCHANGED vars
  BY <1>4, StaysPut DEF vars, table, highlevel
<1>5. CASE \/ \E e \in Events : LeaseExpires(e) \/ Overrun(e) \/ LookupFails(e)
           \/ \E h \in Handlers, e \in Events : Deliver(h, e)
           \/ \E w \in Workers, e \in Events : ClaimUnprocessedInbound(w, e)
  BY <1>5, StaysPut DEF LeaseExpires, Overrun, LookupFails, Deliver,
     ClaimUnprocessedInbound, Take, table, highlevel
<1>6. ASSUME NEW h \in Handlers, RecordInbound(h) PROVE [Box!Next]_<<phase, handled>>
  <2> DEFINE e == at[h].ev
  <2>1. e \in Events
    BY <1>2, <1>6 DEF RecordInbound, Store, Inv, TypeInv, Event
  <2>2. recorded' = recorded \cup {e} /\ UNCHANGED <<processed, failed, forwards>>
    BY <1>6 DEF RecordInbound, Store, Recorded, Event, highlevel
  <2> HIDE DEF e
  <2>3. CASE e \in recorded \/ e \notin Timely
    BY <2>2, <2>3 DEF phase, handled
  <2>4. CASE e \notin recorded /\ e \in Timely
    <3>1. phase[e] = "absent"
      BY <2>4 DEF phase
    <3>2. e \notin processed /\ e \notin failed
      BY <1>1, <2>4
    <3>3. phase' = [phase EXCEPT ![e] = "open"]
      BY <2>2, <2>4, <3>2 DEF phase
    <3>4. handled' = handled
      BY <2>2 DEF handled
    <3> QED  BY <2>4, <3>1, <3>3, <3>4 DEF Box!Next, Box!Receive
  <2> QED  BY <2>3, <2>4
<1>7. ASSUME NEW p \in Procs, ForwardInbound(p) PROVE [Box!Next]_<<phase, handled>>
  <2> DEFINE e == at[p].ev
  <2>1. e \in Events /\ e \in recorded /\ (e \in Timely => e \notin processed \cup failed)
    BY <1>3, <1>7 DEF ForwardInbound, Finishing
  <2>2. forwards' = [forwards EXCEPT ![e] = @ + 1] /\ UNCHANGED <<recorded, processed, failed>>
    BY <1>7 DEF ForwardInbound, Count, Event, table
  <2> HIDE DEF e
  <2>3. CASE e \in Timely
    <3>1. phase[e] = "open" /\ phase' = phase
      BY <2>3, <2>1, <2>2 DEF phase
    <3>2. handled' = handled \cup {e}
      BY <2>3, <1>1, <2>1, <2>2 DEF handled
    <3> QED  BY <2>1, <2>3, <3>1, <3>2 DEF Box!Next, Box!Handle
  <2>4. CASE e \notin Timely
    BY <2>1, <2>2, <2>4 DEF phase, handled
  <2> QED  BY <2>3, <2>4
<1>8. ASSUME NEW p \in Procs, MarkInboundProcessed(p) PROVE [Box!Next]_<<phase, handled>>
  <2> DEFINE e == at[p].ev
  <2>1. /\ e \in Events /\ e \in recorded /\ forwards[e] > 0
        /\ e \in Timely => e \notin processed \cup failed
    BY <1>3, <1>8 DEF MarkInboundProcessed, Finishing, Inv, MarkInv, Event
  <2>2. processed' = processed \cup {e} /\ UNCHANGED <<recorded, failed, forwards>>
    BY <1>8 DEF MarkInboundProcessed, Event, highlevel
  <2> HIDE DEF e
  <2>3. CASE e \in Timely
    <3>1. phase[e] = "open" /\ phase' = [phase EXCEPT ![e] = "done"]
      BY <2>3, <2>1, <2>2 DEF phase
    <3>2. handled' = handled /\ e \in handled
      BY <2>3, <2>1, <2>2 DEF handled
    <3> QED  BY <2>1, <2>3, <3>1, <3>2 DEF Box!Next, Box!Finish
  <2>4. CASE e \notin Timely
    BY <2>1, <2>2, <2>4 DEF phase, handled
  <2> QED  BY <2>3, <2>4
<1>9. ASSUME NEW p \in Procs, FailInbound(p) PROVE [Box!Next]_<<phase, handled>>
  <2> DEFINE e == at[p].ev
  <2>1. e \in Events /\ e \in recorded /\ (e \in Timely => e \notin processed \cup failed)
    BY <1>3, <1>9 DEF FailInbound, Finishing
  <2>2. failed' = failed \cup {e} /\ UNCHANGED <<recorded, processed, forwards>>
    BY <1>9 DEF FailInbound, Event, highlevel
  <2> HIDE DEF e
  <2>3. CASE e \in Timely
    <3>1. phase[e] = "open" /\ phase' = [phase EXCEPT ![e] = "dead"]
      BY <2>3, <2>1, <2>2 DEF phase
    <3>2. handled' = handled
      BY <2>3, <2>2 DEF handled
    <3> QED  BY <2>1, <2>3, <3>1, <3>2 DEF Box!Next, Box!Bury
  <2>4. CASE e \notin Timely
    BY <2>1, <2>2, <2>4 DEF phase, handled
  <2> QED  BY <2>3, <2>4
<1>10. ASSUME NEW p \in Procs,
              \/ Suppress(p) \/ Respond(p) \/ IsSuppressed(p) \/ SetSMSDND(p)
              \/ ApplyWorkflowReply(p) \/ StepFails(p) \/ RetryInbound(p)
              \/ StoreError(p) \/ Crash(p)
       PROVE  [Box!Next]_<<phase, handled>>
  BY <1>10, StaysPut
     DEF Suppress, Respond, IsSuppressed, SetSMSDND, ApplyWorkflowReply, StepFails,
         RetryInbound, StoreError, Crash, table, highlevel
<1> QED  BY <1>2, <1>4, <1>5, <1>6, <1>7, <1>8, <1>9, <1>10 DEF Next, Handle, Process, End

LEMMA Invariant == Spec => []Inv
<1>1. Init => HoldInv
  BY DEF Init, HoldInv, Holds, Idle
<1>2. TypeInv /\ HoldInv /\ [Next]_vars => HoldInv'
  BY NextHold
<1>3. Spec => []HoldInv
  BY <1>1, <1>2, TypeInvariant, PTL DEF Spec
<1> QED  BY <1>3, TypeInvariant, ShareInvariant, PTL DEF Inv

(* The messages whose leases nobody outlives form an inbox: one counts as  *)
(* processed only after HighLevel was given it, or becomes a dead letter,  *)
(* and is given to HighLevel in neither case again; whatever happens to    *)
(* the other messages.                                                     *)
THEOREM InboxTheorem == Spec => ImplementsInbox
<1>1. Init => Box!Init
  BY InboundAssumption DEF Init, Box!Init, phase, handled
<1> QED  BY <1>1, NextBox, Invariant, PTL DEF Spec, ImplementsInbox, Box!Spec
=============================================================================
