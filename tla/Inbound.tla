------------------------------ MODULE Inbound ------------------------------
(***************************************************************************)
(* Inbound messages: the webhook handler that records a message.received   *)
(* event in inbound_messages, suppresses the sender of a STOP and then,    *)
(* having answered the provider, processes the message; and the loop of    *)
(* RunInboundWorker that takes up what the handlers did not finish.  Both  *)
(* run processInbound, each holding the message's 2 minute lease.          *)
(*                                                                         *)
(* The provider delivers an event as often as it likes.  Suppress's second *)
(* statement, the cancelling of queued jobs, is in OutboundQueue; what a   *)
(* reply does to the workflows is in Enrollments.                          *)
(***************************************************************************)
EXTENDS Naturals, FiniteSets

CONSTANTS
    Events,         \* provider_event_ids of message.received events
    Numbers,        \* phone numbers of contacts
    From,           \* the sender of each message
    Text,           \* "stop" (IsOptOut), "autoresponse" (only the provider says STOP), "other"
    Line,           \* to which of our numbers: "main" (FromNumber) or "other"
    Handlers,       \* API processes' webhook requests
    Workers,        \* worker processes running RunInboundWorker
    None,           \* no event
    MaxAttempts,    \* maxAttempts of RunInboundWorker (5 in the code)
    MaxFaults,      \* bound on crashes, failed store calls and overrun leases
    Timely          \* messages of which no processInbound outlives its 2 minute lease

ASSUME InboundAssumption ==
    /\ From \in [Events -> Numbers]
    /\ Text \in [Events -> {"stop", "autoresponse", "other"}]
    /\ Line \in [Events -> {"main", "other"}]
    /\ None \notin Events
    /\ IsFiniteSet(Handlers \cup Workers) /\ Handlers \cap Workers = {}
    /\ MaxAttempts \in Nat \ {0}
    /\ MaxFaults \in Nat
    /\ Timely \subseteq Events

VARIABLES
    recorded,    \* inbound_messages rows
    processed,   \* those with processed_at
    failed,      \* those with failed_at, the dead letters
    lease,       \* locked_until of each
    attempts,    \* attempts of each
    suppressed,  \* phone numbers with a row in suppressions
    at,          \* where each handler and worker is, and with which message
    acked,       \* events the provider has got a 202 for
    dnd,         \* external: contacts with SMS DND in HighLevel
    forwards,    \* external: copies of each message in its HighLevel conversation
    lost,        \* history: runs of each message that forwarded it but could not mark
                 \* it, or that outlived their lease
    faults       \* how many crashes, store errors and overrun leases there were

table == <<recorded, processed, failed, lease, attempts>>
highlevel == <<dnd, forwards>>
vars == <<table, suppressed, at, acked, highlevel, lost, faults>>
-----------------------------------------------------------------------------
Procs  == Handlers \cup Workers
Leases == {"none", "live", "expired"}

Steps == {"idle",
          "record",    \* handler: RecordInbound next
          "suppress",  \* handler: Suppress next
          "respond",   \* handler: 202 next
          "check",     \* processInbound: IsSuppressed next
          "dnd",       \*   SetSMSDND next
          "reply",     \*   applyWorkflowReply next
          "forward",   \*   ForwardInbound next
          "mark",      \*   MarkInboundProcessed next
          "retry",     \* worker: RetryInbound next
          "drop"}      \* worker: FailInbound next

(* own: does this process hold the message, so that it will process it?    *)
Slot == [pc: Steps, ev: Events \cup {None}, own: {"yes", "no"}, tries: 0..MaxAttempts]
Idle == [pc |-> "idle", ev |-> None, own |-> "no", tries |-> 0]

Init ==
    /\ recorded = {} /\ processed = {} /\ failed = {}
    /\ lease = [e \in Events |-> "none"]
    /\ attempts = [e \in Events |-> 0]
    /\ suppressed = {}
    /\ at = [p \in Procs |-> Idle]
    /\ acked = {}
    /\ dnd = {}
    /\ forwards = [e \in Events |-> 0]
    /\ lost = [e \in Events |-> 0]
    /\ faults = 0

GoTo(p, step) == at' = [at EXCEPT ![p].pc = step]
Release(p)    == at' = [at EXCEPT ![p] = Idle]
Event(p)      == at[p].ev
Fault         == faults < MaxFaults /\ faults' = faults + 1
OptOut(e)     == Text[e] \in {"stop", "autoresponse"}

(* attempts is only ever compared with MaxAttempts, so it may saturate.    *)
Bump(n) == IF n < MaxAttempts THEN n + 1 ELSE n

Count(f, e) == [f EXCEPT ![e] = @ + 1]
InHand(e)   == \E p \in Procs : Event(p) = e /\ at[p].own = "yes"

(* The lease of a message that nobody works on passes.                     *)
LeaseExpires(e) ==
    /\ lease[e] = "live" /\ ~InHand(e)
    /\ lease' = [lease EXCEPT ![e] = "expired"]
    /\ UNCHANGED <<recorded, processed, failed, attempts, suppressed, at, acked,
                   highlevel, lost, faults>>

(* processInbound is slower than its lease: it makes several calls of up   *)
(* to 15 seconds, some of them twice.                                      *)
Overrun(e) ==
    /\ e \notin Timely
    /\ lease[e] = "live" /\ InHand(e)
    /\ Fault
    /\ lease' = [lease EXCEPT ![e] = "expired"]
    /\ lost' = Count(lost, e)
    /\ UNCHANGED <<recorded, processed, failed, attempts, suppressed, at, acked, highlevel>>
-----------------------------------------------------------------------------
(* The webhook handler.                                                    *)

(* The signature is verified and acceptsInbound finds the line to be ours. *)
Deliver(h, e) ==
    /\ at[h].pc = "idle"
    /\ at' = [at EXCEPT ![h] = [pc |-> "record", ev |-> e, own |-> "no", tries |-> 0]]
    /\ UNCHANGED <<table, suppressed, acked, highlevel, lost, faults>>

(* Other lines are looked up at the provider, and if that fails the line   *)
(* is taken for somebody else's: 202 and nothing more.                     *)
LookupFails(e) ==
    /\ Line[e] = "other"
    /\ acked' = acked \cup {e}
    /\ UNCHANGED <<table, suppressed, at, highlevel, lost, faults>>

(* Storing an event with a lease, going on to a step, holding it or not.   *)
Store(h, stored, newLease, step, holds) ==
    /\ at[h].pc = "record"
    /\ recorded' = stored
    /\ lease' = [lease EXCEPT ![Event(h)] = newLease]
    /\ at' = [at EXCEPT ![h].pc = step, ![h].own = IF holds THEN "yes" ELSE "no"]
    /\ UNCHANGED <<processed, failed, attempts, suppressed, acked, highlevel, lost, faults>>

IsNew(h) == Event(h) \notin recorded
Recorded(h) == recorded \cup {Event(h)}
FirstLease(h) == IF IsNew(h) THEN "live" ELSE lease[Event(h)]
AfterRecord(h) == IF OptOut(Event(h)) THEN "suppress" ELSE "respond"

(* Mutants: the row is not stored; it is stored without a lease; only the  *)
(* delivery that stores it suppresses.                                     *)
RecordInbound_NotStored(h) ==
    Store(h, recorded, FirstLease(h), AfterRecord(h), IsNew(h))

RecordInbound_Unlocked(h) ==
    Store(h, Recorded(h), lease[Event(h)], AfterRecord(h), IsNew(h))

RecordInbound_SuppressesOnce(h) ==
    Store(h, Recorded(h), FirstLease(h),
          IF IsNew(h) THEN AfterRecord(h) ELSE "respond", IsNew(h))

(* ON CONFLICT DO NOTHING: whoever inserts the row holds its lease; every  *)
(* delivery of a STOP goes on to suppress.                                 *)
RecordInbound(h) ==
    Store(h, Recorded(h), FirstLease(h), AfterRecord(h), IsNew(h))

Suppress(h) ==
    /\ at[h].pc = "suppress"
    /\ suppressed' = suppressed \cup {From[Event(h)]}
    /\ GoTo(h, "respond")
    /\ UNCHANGED <<table, acked, highlevel, lost, faults>>

Respond(h) ==
    /\ at[h].pc = "respond"
    /\ acked' = acked \cup {Event(h)}
    /\ IF at[h].own = "yes" THEN GoTo(h, "check") ELSE Release(h)
    /\ UNCHANGED <<table, suppressed, highlevel, lost, faults>>
-----------------------------------------------------------------------------
(* The worker.                                                             *)

Take(w, e) ==
    /\ at[w].pc = "idle"
    /\ lease[e] # "live"
    /\ lease' = [lease EXCEPT ![e] = "live"]
    /\ attempts' = [attempts EXCEPT ![e] = Bump(@)]
    /\ at' = [at EXCEPT ![w] = [pc |-> "check", ev |-> e, own |-> "yes",
                                tries |-> Bump(attempts[e])]]
    /\ UNCHANGED <<recorded, processed, failed, suppressed, acked, highlevel, lost, faults>>

(* Mutants: dead letters are taken up again; an expired lease is not.      *)
ClaimUnprocessedInbound_AlsoFailed(w, e) == e \in recorded \ processed /\ Take(w, e)

ClaimUnprocessedInbound_UnlockedOnly(w, e) ==
    /\ e \in recorded \ (processed \cup failed)
    /\ lease[e] = "none"
    /\ Take(w, e)

ClaimUnprocessedInbound(w, e) == e \in recorded \ (processed \cup failed) /\ Take(w, e)

(* RetryInbound, FailInbound and MarkInboundProcessed address the row by   *)
(* its event id alone.                                                     *)
RetryInbound(w) ==
    /\ at[w].pc = "retry"
    /\ lease' = [lease EXCEPT ![Event(w)] = "live"]
    /\ Release(w)
    /\ UNCHANGED <<recorded, processed, failed, attempts, suppressed, acked,
                   highlevel, lost, faults>>

FailInbound(w) ==
    /\ at[w].pc = "drop"
    /\ failed' = failed \cup {Event(w)}
    /\ lease' = [lease EXCEPT ![Event(w)] = "none"]
    /\ Release(w)
    /\ UNCHANGED <<recorded, processed, attempts, suppressed, acked, highlevel, lost, faults>>
-----------------------------------------------------------------------------
(* processInbound.  On an error the handler only logs it; the message      *)
(* keeps its lease and is left to the worker.                              *)

AfterError(p) ==
    IF p \in Handlers THEN Release(p)
    ELSE GoTo(p, IF at[p].tries >= MaxAttempts THEN "drop" ELSE "retry")

(* Mutant: DND follows the suppression alone, not the text.                *)
IsSuppressed_Alone(p) ==
    /\ at[p].pc = "check"
    /\ GoTo(p, IF From[Event(p)] \in suppressed THEN "dnd" ELSE "reply")
    /\ UNCHANGED <<table, suppressed, acked, highlevel, lost, faults>>

IsSuppressed(p) ==
    /\ at[p].pc = "check"
    /\ GoTo(p, IF Text[Event(p)] = "stop" \/ From[Event(p)] \in suppressed
               THEN "dnd" ELSE "reply")
    /\ UNCHANGED <<table, suppressed, acked, highlevel, lost, faults>>

(* A call to HighLevel can fail with or without having had its effect.     *)
SetSMSDND(p) ==
    /\ at[p].pc = "dnd"
    /\ dnd' = dnd \cup {From[Event(p)]}
    /\ GoTo(p, "reply") \/ AfterError(p)
    /\ UNCHANGED <<table, suppressed, acked, forwards, lost, faults>>

ApplyWorkflowReply(p) ==
    /\ at[p].pc = "reply"
    /\ GoTo(p, "forward")
    /\ UNCHANGED <<table, suppressed, acked, highlevel, lost, faults>>

(* No contact, no answer, an enrollment claimed by somebody else, ...      *)
StepFails(p) ==
    /\ at[p].pc \in {"dnd", "reply", "forward"}
    /\ AfterError(p)
    /\ UNCHANGED <<table, suppressed, acked, highlevel, lost, faults>>

ForwardInbound(p) ==
    /\ at[p].pc = "forward"
    /\ forwards' = Count(forwards, Event(p))
    /\ \/ GoTo(p, "mark") /\ UNCHANGED lost
       \/ AfterError(p) /\ lost' = Count(lost, Event(p))
    /\ UNCHANGED <<table, suppressed, acked, dnd, faults>>

MarkInboundProcessed(p) ==
    /\ at[p].pc = "mark"
    /\ processed' = processed \cup {Event(p)}
    /\ lease' = [lease EXCEPT ![Event(p)] = "none"]
    /\ Release(p)
    /\ UNCHANGED <<recorded, failed, attempts, suppressed, acked, highlevel, lost, faults>>
-----------------------------------------------------------------------------
Lose(p) == lost' = IF at[p].pc = "mark" THEN Count(lost, Event(p)) ELSE lost

(* A store call returns an error.  The handler answers 500 before it has   *)
(* answered 202; the worker ignores an error of RetryInbound, FailInbound. *)
StoreError(p) ==
    /\ at[p].pc \in {"record", "suppress", "check", "mark", "retry", "drop"}
    /\ Fault
    /\ IF at[p].pc \in {"check", "mark"} THEN AfterError(p) ELSE Release(p)
    /\ Lose(p)
    /\ UNCHANGED <<table, suppressed, acked, highlevel>>

Crash(p) ==
    /\ at[p].pc # "idle"
    /\ Fault
    /\ Release(p)
    /\ Lose(p)
    /\ UNCHANGED <<table, suppressed, acked, highlevel>>

Handle(h) == RecordInbound(h) \/ Suppress(h) \/ Respond(h)

Process(p) == \/ IsSuppressed(p) \/ SetSMSDND(p) \/ ApplyWorkflowReply(p)
              \/ StepFails(p) \/ ForwardInbound(p) \/ MarkInboundProcessed(p)

End(w) == RetryInbound(w) \/ FailInbound(w)

Next ==
    \/ \E e \in Events : LeaseExpires(e) \/ Overrun(e) \/ LookupFails(e)
    \/ \E h \in Handlers, e \in Events : Deliver(h, e)
    \/ \E h \in Handlers : Handle(h)
    \/ \E w \in Workers, e \in Events : ClaimUnprocessedInbound(w, e)
    \/ \E p \in Procs : Process(p) \/ StoreError(p) \/ Crash(p)
    \/ \E w \in Workers : End(w)

Spec == Init /\ [][Next]_vars

(* Fairness.  A process that has a message goes on with it (its calls have *)
(* timeouts), leases run out, and since claims are in the order of         *)
(* created_at no message is passed over for ever.  The provider need not   *)
(* deliver anything again.                                                 *)
Fairness ==
    /\ \A p \in Procs : WF_vars(Process(p))
    /\ \A h \in Handlers : WF_vars(Handle(h))
    /\ \A w \in Workers : WF_vars(End(w))
    /\ \A e \in Events :
          /\ WF_vars(LeaseExpires(e))
          /\ SF_vars(\E w \in Workers : ClaimUnprocessedInbound(w, e))

FairSpec == Spec /\ Fairness
-----------------------------------------------------------------------------
(* Properties.                                                             *)

TypeOK ==
    /\ recorded \in SUBSET Events
    /\ processed \in SUBSET recorded /\ failed \in SUBSET recorded
    /\ lease \in [Events -> Leases]
    /\ attempts \in [Events -> 0..MaxAttempts]
    /\ suppressed \in SUBSET Numbers
    /\ at \in [Procs -> Slot]
    /\ acked \in SUBSET Events
    /\ dnd \in SUBSET Numbers
    /\ forwards \in [Events -> Nat] /\ lost \in [Events -> Nat]
    /\ faults \in 0..MaxFaults

(* A STOP to the main line that was answered 202, so that the provider     *)
(* will not deliver it again, has its sender suppressed: also when the     *)
(* first delivery recorded it and then could not suppress.  (Any other     *)
(* line needs a look-up, and its failing is answered 202 as well.)         *)
MainLineStopIsSuppressed ==
    \A e \in acked : OptOut(e) /\ Line[e] = "main" => From[e] \in suppressed

(* A STOP keyword that counts as processed has set the contact's DND in    *)
(* HighLevel, whoever processed it, at whatever attempt, whether or not    *)
(* its sender was suppressed by then.                                      *)
StopReachesHighLevel ==
    \A e \in processed : Text[e] = "stop" => From[e] \in dnd

(* A message that counts as processed is in its HighLevel conversation,    *)
(* and none is there more than once but for the runs that forwarded it and *)
(* were cut off before they could say so, or that outlived their lease.    *)
(* Deliveries that overlap, retries, and handler and worker together add   *)
(* no copy.                                                                *)
ForwardedOnce ==
    \A e \in Events :
        /\ e \in processed => forwards[e] > 0
        /\ forwards[e] <= 1 + lost[e]

(* The table implements Inbox, for the messages of which nobody outlives   *)
(* the lease, whatever happens to the others.                              *)
phase == [e \in Timely |-> IF e \notin recorded THEN "absent"
                           ELSE IF e \in processed THEN "done"
                           ELSE IF e \in failed THEN "dead" ELSE "open"]
handled == {e \in Timely : forwards[e] > 0}

Box == INSTANCE Inbox WITH Events <- Timely, phase <- phase, handled <- handled
ImplementsInbox == Box!Spec

(* Every recorded message is processed or becomes a dead letter: it is     *)
(* not tried for ever even if HighLevel never answers, nor is it forgotten *)
(* when the process that recorded it dies.                                 *)
EveryMessageEnds ==
    \A e \in Events : e \in recorded ~> e \in processed \cup failed

(* "A standard STOP reply creates provider, local, and HighLevel           *)
(* suppression": a STOP answered 202 has its sender suppressed.            *)
AckedStopIsSuppressed ==
    \A e \in acked : OptOut(e) => From[e] \in suppressed
=============================================================================
