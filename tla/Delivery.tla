------------------------------ MODULE Delivery ------------------------------
(***************************************************************************)
(* Delivery reports: the webhook handler stores the message.sent and       *)
(* message.finalized events of the provider in delivery_events, answers,   *)
(* and reports the status to HighLevel; what it does not finish is taken   *)
(* up by RunInboundWorker.  A report can be passed on only once Complete   *)
(* has stored the provider's message id in outbound_jobs, which may be     *)
(* after the report comes in, or never.  (The link delivery_events.job_id  *)
(* is written but read by nobody, and left out.)                           *)
(***************************************************************************)
EXTENDS Naturals, FiniteSets

CONSTANTS
    Events,         \* provider_event_ids
    Messages,       \* messages the provider has accepted, by its id for them
    About,          \* the message each event is about
    Report,         \* what each event says: a member of Reports
    Handlers,       \* API processes' webhook requests
    Workers,        \* worker processes running RunInboundWorker
    None,           \* no event
    MaxAttempts,    \* maxAttempts of RunInboundWorker (5 in the code)
    MaxFaults,      \* bound on crashes, failed store calls and overrun leases
    Timely          \* events of which no synchronization outlives its 2 minute lease

(* message.sent, or the recipient's status in message.finalized.           *)
Reports == {"sent", "delivered", "delivery_unconfirmed", "undelivered"}

ASSUME DeliveryAssumption ==
    /\ About \in [Events -> Messages]
    /\ Report \in [Events -> Reports]
    /\ None \notin Events
    /\ IsFiniteSet(Handlers \cup Workers) /\ Handlers \cap Workers = {}
    /\ MaxAttempts \in Nat \ {0}
    /\ MaxFaults \in Nat
    /\ Timely \subseteq Events

VARIABLES
    recorded,   \* delivery_events rows
    synced,     \* those with highlevel_synced_at
    failed,     \* those with failed_at, the dead letters
    lease,      \* locked_until of each
    attempts,   \* attempts of each
    completed,  \* messages whose provider id is in outbound_jobs
    at,         \* where each handler and worker is, and with which event
    shown,      \* external: the status HighLevel shows for each message
    told,       \* external: how often HighLevel was told of each event
    lost,       \* history: runs of each event that told HighLevel but could not say
                \* so, or that outlived their lease
    faults      \* how many crashes, store errors and overrun leases there were

table == <<recorded, synced, failed, lease, attempts>>
highlevel == <<shown, told>>
vars == <<table, completed, at, highlevel, lost, faults>>
-----------------------------------------------------------------------------
Procs    == Handlers \cup Workers
Leases   == {"none", "live", "expired"}
Statuses == {"none", "pending", "delivered", "failed"}

(* Mutant: HighLevel is told the provider's word.                          *)
highLevelDeliveryStatus_Raw(report) == report

highLevelDeliveryStatus(report) ==
    IF report \in {"sent", "delivery_unconfirmed"} THEN "pending"
    ELSE IF report = "delivered" THEN "delivered" ELSE "failed"

Steps == {"idle",
          "insert",   \* handler: UpdateDelivery next
          "respond",  \* handler: 202 next
          "find",     \* syncDelivery: FindOutboundByProviderID next
          "update",   \*   UpdateMessageStatus next
          "mark",     \*   MarkDeliverySynced next
          "retry",    \* worker: RetryDelivery next
          "drop"}     \* worker: FailDelivery next

Slot == [pc: Steps, ev: Events \cup {None}, tries: 0..MaxAttempts]
Idle == [pc |-> "idle", ev |-> None, tries |-> 0]

Init ==
    /\ recorded = {} /\ synced = {} /\ failed = {}
    /\ lease = [e \in Events |-> "none"]
    /\ attempts = [e \in Events |-> 0]
    /\ completed = {}
    /\ at = [p \in Procs |-> Idle]
    /\ shown = [m \in Messages |-> "none"]
    /\ told = [e \in Events |-> 0]
    /\ lost = [e \in Events |-> 0]
    /\ faults = 0

GoTo(p, step) == at' = [at EXCEPT ![p].pc = step]
Release(p)    == at' = [at EXCEPT ![p] = Idle]
Event(p)      == at[p].ev
Fault         == faults < MaxFaults /\ faults' = faults + 1
Count(f, e)   == [f EXCEPT ![e] = @ + 1]

(* attempts is only ever compared with MaxAttempts, so it may saturate.    *)
Bump(n) == IF n < MaxAttempts THEN n + 1 ELSE n

(* The outbound worker stores the provider's id.                           *)
Complete(m) ==
    /\ completed' = completed \cup {m}
    /\ UNCHANGED <<table, at, highlevel, lost, faults>>

(* A process that has yet to insert an event does not hold it.             *)
InHand(e) == \E p \in Procs : Event(p) = e /\ at[p].pc # "insert"

LeaseExpires(e) ==
    /\ lease[e] = "live" /\ ~InHand(e)
    /\ lease' = [lease EXCEPT ![e] = "expired"]
    /\ UNCHANGED <<recorded, synced, failed, attempts, completed, at, highlevel, lost, faults>>

(* A synchronization is slower than its lease.                             *)
Overrun(e) ==
    /\ e \notin Timely
    /\ lease[e] = "live" /\ InHand(e)
    /\ Fault
    /\ lease' = [lease EXCEPT ![e] = "expired"]
    /\ lost' = Count(lost, e)
    /\ UNCHANGED <<recorded, synced, failed, attempts, completed, at, highlevel>>
-----------------------------------------------------------------------------
(* The webhook handler.                                                    *)

Deliver(h, e) ==
    /\ at[h].pc = "idle"
    /\ at' = [at EXCEPT ![h] = [pc |-> "insert", ev |-> e, tries |-> 0]]
    /\ UNCHANGED <<table, completed, highlevel, lost, faults>>

(* Mutant: the row is inserted without a lease.                            *)
UpdateDelivery_Unlocked(h) ==
    /\ at[h].pc = "insert"
    /\ recorded' = recorded \cup {Event(h)}
    /\ IF Event(h) \notin recorded THEN GoTo(h, "respond") ELSE Release(h)
    /\ UNCHANGED <<synced, failed, lease, attempts, completed, highlevel, lost, faults>>

(* Only the delivery that inserts the row goes on with it.                 *)
UpdateDelivery(h) ==
    LET e == Event(h) IN
    /\ at[h].pc = "insert"
    /\ recorded' = recorded \cup {e}
    /\ lease' = [lease EXCEPT ![e] = IF e \notin recorded THEN "live" ELSE @]
    /\ IF e \notin recorded THEN GoTo(h, "respond") ELSE Release(h)
    /\ UNCHANGED <<synced, failed, attempts, completed, highlevel, lost, faults>>

Respond(h) ==
    /\ at[h].pc = "respond"
    /\ GoTo(h, "find")
    /\ UNCHANGED <<table, completed, highlevel, lost, faults>>
-----------------------------------------------------------------------------
(* The worker.                                                             *)

Take(w, e) ==
    /\ at[w].pc = "idle"
    /\ lease' = [lease EXCEPT ![e] = "live"]
    /\ attempts' = [attempts EXCEPT ![e] = Bump(@)]
    /\ at' = [at EXCEPT ![w] = [pc |-> "find", ev |-> e, tries |-> Bump(attempts[e])]]
    /\ UNCHANGED <<recorded, synced, failed, completed, highlevel, lost, faults>>

(* Mutant: only events never leased are taken, not those whose lease ran   *)
(* out.                                                                    *)
ClaimUnprocessedDelivery_Unleased(w, e) ==
    /\ e \in recorded \ (synced \cup failed)
    /\ lease[e] = "none"
    /\ Take(w, e)

ClaimUnprocessedDelivery(w, e) ==
    /\ e \in recorded \ (synced \cup failed)
    /\ lease[e] # "live"
    /\ Take(w, e)

RetryDelivery(w) ==
    /\ at[w].pc = "retry"
    /\ lease' = [lease EXCEPT ![Event(w)] = "live"]
    /\ Release(w)
    /\ UNCHANGED <<recorded, synced, failed, attempts, completed, highlevel, lost, faults>>

FailDelivery(w) ==
    /\ at[w].pc = "drop"
    /\ failed' = failed \cup {Event(w)}
    /\ lease' = [lease EXCEPT ![Event(w)] = "none"]
    /\ Release(w)
    /\ UNCHANGED <<recorded, synced, attempts, completed, highlevel, lost, faults>>
-----------------------------------------------------------------------------
(* syncDeliveryEvent.  On an error the handler leaves the event to the     *)
(* worker.                                                                 *)
AfterError(p) ==
    IF p \in Handlers THEN Release(p)
    ELSE GoTo(p, IF at[p].tries >= MaxAttempts THEN "drop" ELSE "retry")

(* Mutant: a message that is not known counts as reported.                 *)
FindOutbound_NotFoundIsFine(p) ==
    /\ at[p].pc = "find"
    /\ GoTo(p, IF About[Event(p)] \in completed THEN "update" ELSE "mark")
    /\ UNCHANGED <<table, completed, highlevel, lost, faults>>

FindOutbound(p) ==
    /\ at[p].pc = "find"
    /\ IF About[Event(p)] \in completed THEN GoTo(p, "update") ELSE AfterError(p)
    /\ UNCHANGED <<table, completed, highlevel, lost, faults>>

UpdateMessageStatus(p) ==
    LET e == Event(p) IN
    /\ at[p].pc = "update"
    /\ shown' = [shown EXCEPT ![About[e]] = highLevelDeliveryStatus(Report[e])]
    /\ told' = Count(told, e)
    /\ \/ GoTo(p, "mark") /\ UNCHANGED lost
       \/ AfterError(p) /\ lost' = Count(lost, e)
    /\ UNCHANGED <<table, completed, faults>>

UpdateFails(p) ==
    /\ at[p].pc = "update"
    /\ AfterError(p)
    /\ UNCHANGED <<table, completed, highlevel, lost, faults>>

MarkDeliverySynced(p) ==
    /\ at[p].pc = "mark"
    /\ synced' = synced \cup {Event(p)}
    /\ lease' = [lease EXCEPT ![Event(p)] = "none"]
    /\ Release(p)
    /\ UNCHANGED <<recorded, failed, attempts, completed, highlevel, lost, faults>>

Lose(p) == lost' = IF at[p].pc = "mark" THEN Count(lost, Event(p)) ELSE lost

StoreError(p) ==
    /\ at[p].pc \in {"insert", "find", "mark", "retry", "drop"}
    /\ Fault
    /\ IF at[p].pc \in {"find", "mark"} THEN AfterError(p) ELSE Release(p)
    /\ Lose(p)
    /\ UNCHANGED <<table, completed, highlevel>>

Crash(p) ==
    /\ at[p].pc # "idle"
    /\ Fault
    /\ Release(p)
    /\ Lose(p)
    /\ UNCHANGED <<table, completed, highlevel>>

Handle(h)  == UpdateDelivery(h) \/ Respond(h)
Process(p) == \/ FindOutbound(p) \/ UpdateMessageStatus(p)
              \/ UpdateFails(p) \/ MarkDeliverySynced(p)
End(w)     == RetryDelivery(w) \/ FailDelivery(w)

Next ==
    \/ \E m \in Messages : Complete(m)
    \/ \E e \in Events : LeaseExpires(e) \/ Overrun(e)
    \/ \E h \in Handlers, e \in Events : Deliver(h, e)
    \/ \E h \in Handlers : Handle(h)
    \/ \E w \in Workers, e \in Events : ClaimUnprocessedDelivery(w, e)
    \/ \E p \in Procs : Process(p) \/ StoreError(p) \/ Crash(p)
    \/ \E w \in Workers : End(w)

Spec == Init /\ [][Next]_vars

(* Fairness as in Inbound; nothing makes Complete happen.                  *)
Fairness ==
    /\ \A p \in Procs : WF_vars(Process(p))
    /\ \A h \in Handlers : WF_vars(Handle(h))
    /\ \A w \in Workers : WF_vars(End(w))
    /\ \A e \in Events :
          /\ WF_vars(LeaseExpires(e))
          /\ SF_vars(\E w \in Workers : ClaimUnprocessedDelivery(w, e))

FairSpec == Spec /\ Fairness
-----------------------------------------------------------------------------
(* Properties.                                                             *)

TypeOK ==
    /\ recorded \in SUBSET Events
    /\ synced \in SUBSET recorded /\ failed \in SUBSET recorded
    /\ lease \in [Events -> Leases]
    /\ attempts \in [Events -> 0..MaxAttempts]
    /\ completed \in SUBSET Messages
    /\ at \in [Procs -> Slot]
    /\ shown \in [Messages -> Statuses]
    /\ told \in [Events -> Nat] /\ lost \in [Events -> Nat]
    /\ faults \in 0..MaxFaults

(* Once an event counts as synchronized HighLevel was told of it; and it   *)
(* is told once, and once more for each run that was cut off before it     *)
(* could note it or that outlived its lease: duplicate deliveries, retries,*)
(* the handler and the worker do not report it twice.                      *)
ToldOnce ==
    \A e \in Events : /\ e \in synced => told[e] > 0
                      /\ told[e] <= 1 + lost[e]

(* The table implements Inbox, for the events of which nobody outlives the *)
(* lease, whatever happens to the others.                                  *)
phase == [e \in Timely |-> IF e \notin recorded THEN "absent"
                           ELSE IF e \in synced THEN "done"
                           ELSE IF e \in failed THEN "dead" ELSE "open"]
handled == {e \in Timely : told[e] > 0}

Box == INSTANCE Inbox WITH Events <- Timely, phase <- phase, handled <- handled
ImplementsInbox == Box!Spec

(* Every stored report is passed on or becomes a dead letter, also that of *)
(* a message whose provider id was never stored.                           *)
EveryReportEnds ==
    \A e \in Events : e \in recorded ~> e \in synced \cup failed

(* A message that has a final delivery status in HighLevel keeps one: the  *)
(* setup guide's acceptance test expects it to end with a final status.    *)
Final == {"delivered", "failed"}
FinalStatusStays ==
    [][\A m \in Messages : shown[m] \in Final => shown'[m] \in Final]_vars
=============================================================================
