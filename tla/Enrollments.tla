---------------------------- MODULE Enrollments ----------------------------
(***************************************************************************)
(* The workflow engine over workflow_enrollments: RunWorkflowWorker claims *)
(* an enrollment that is due, advances its copy of the row and writes the  *)
(* copy back with the commands that follow from it, in one transaction;    *)
(* a reply of the contact claims all enrollments of the contact that are   *)
(* not claimed and closes them the same way.  The 5 minute claim is        *)
(* locked_until; writing back requires only that the row is locked, not by *)
(* whom.                                                                   *)
(*                                                                         *)
(* The enrollments here are those of one conversation (to_number and       *)
(* from_number), the only ones that meet.                                  *)
(***************************************************************************)
EXTENDS Naturals

CONSTANTS
    Enrollments,     \* enrollments of one contact, by (location_id, external_id)
    Offered,         \* the kinds of workflow each enrollment may be for
    MaxOccurrences,  \* how often a recurring workflow sends (12 in the catalog)
    Workers,         \* processes running RunWorkflowWorker
    Replies,         \* inbound messages of the contact
    Repliers,        \* processes running applyWorkflowReply (API and inbound workers)
    None,            \* no enrollment, no reply
    MaxFaults,       \* bound on crashes and failed store or HighLevel calls
    MaxLostCommits,  \* bound on commits that succeed but are reported as failed
    StallsPossible   \* may a claim be held longer than its 5 minute lease?

Kinds == {"recurring", "single", "manual"}

ASSUME EnrollmentsAssumption ==
    /\ Offered \in [Enrollments -> SUBSET Kinds]
    /\ None \notin Enrollments /\ None \notin Replies
    /\ MaxOccurrences \in Nat \ {0}
    /\ MaxFaults \in Nat /\ MaxLostCommits \in Nat
    /\ StallsPossible \in BOOLEAN

VARIABLES
    row,      \* workflow_enrollments: workflow's kind, state, next_run_at, sent_count, lease
    jobs,     \* the occurrences of each enrollment inserted into outbound_jobs
    crm,      \* crm_jobs, by (enrollment, action)
    enabled,  \* are the workflows enabled in the running configuration?
    wk,       \* each worker: where its loop is and its copy of a claimed row
    inbox,    \* each reply: its state, its meaning, the enrollments it is about
    rp,       \* each replier: its reply and the copies it has yet to write back
    rested,   \* history: has the repeat interval passed since the last send?
    faults    \* how many faults and lost commits have happened

vars == <<row, jobs, crm, enabled, wk, inbox, rp, rested, faults>>
-----------------------------------------------------------------------------
Active == {"pending", "awaiting_reply"}
Closed == {"completed", "suppressed", "failed"}
States == {"absent"} \cup Active \cup Closed

(* next_run_at: NULL, passed, a retry or window opening ahead, or a whole  *)
(* repeat interval ahead.                                                  *)
Times   == {"none", "now", "soon", "interval"}
Leases  == {"none", "live", "expired"}
Counts  == 0..MaxOccurrences
Texts   == {"stop", "other"}
Actions == {"create_task", "manual_follow_up", "reply"}

Row   == [kind: Kinds, state: States, next: Times, sent: Counts, lease: Leases]
Slot  == [pc: {"idle", "claimed", "retry", "fail"}, e: Enrollments \cup {None},
          state: States, sent: Counts]
Desk  == [reply: Replies \cup {None}, todo: SUBSET Enrollments,
          sent: [Enrollments -> Counts]]
Entry == [status: {"absent", "new", "held", "done"}, text: Texts, about: SUBSET Enrollments]

Limit(e) == IF row[e].kind = "recurring" THEN MaxOccurrences ELSE 1

Idle  == [pc |-> "idle", e |-> None, state |-> "absent", sent |-> 0]
AtRest == [reply |-> None, todo |-> {}, sent |-> [e \in Enrollments |-> 0]]

Init ==
    /\ row \in [Enrollments -> [kind: Kinds, state: {"absent"}, next: {"none"},
                                sent: {0}, lease: {"none"}]]
    /\ \A e \in Enrollments : row[e].kind \in Offered[e]
    /\ jobs = [e \in Enrollments |-> {}]
    /\ crm = {}
    /\ enabled = TRUE
    /\ wk = [w \in Workers |-> Idle]
    /\ inbox = [r \in Replies |-> [status |-> "absent", text |-> "other", about |-> {}]]
    /\ rp = [p \in Repliers |-> AtRest]
    /\ rested = [e \in Enrollments |-> TRUE]
    /\ faults = [fault |-> 0, commit |-> 0]

Fault      == faults.fault < MaxFaults /\ faults' = [faults EXCEPT !.fault = @ + 1]
LostCommit == faults.commit < MaxLostCommits /\ faults' = [faults EXCEPT !.commit = @ + 1]

effects == <<jobs, crm, rested>>
Release(w) == wk' = [wk EXCEPT ![w] = Idle]
GoTo(w, s) == wk' = [wk EXCEPT ![w].pc = s]
-----------------------------------------------------------------------------
(* enrollWorkflow: ON CONFLICT DO NOTHING makes a repeated request void.   *)
(* Blasts are due at once, the others after their initial delay.           *)
Enroll(e) ==
    /\ row[e].state = "absent"
    /\ enabled
    /\ row' = [row EXCEPT ![e].state = "pending",
                          ![e].next = IF row[e].kind = "single" THEN "now" ELSE "interval"]
    /\ UNCHANGED <<effects, enabled, wk, inbox, rp, faults>>

SetEnabled(b) ==
    /\ b # enabled
    /\ enabled' = b
    /\ UNCHANGED <<row, effects, wk, inbox, rp, faults>>

BecomesDue(e) ==
    /\ row[e].next \in {"soon", "interval"}
    /\ row' = [row EXCEPT ![e].next = "now"]
    /\ rested' = [rested EXCEPT ![e] = IF row[e].next = "interval" THEN TRUE ELSE @]
    /\ UNCHANGED <<jobs, crm, enabled, wk, inbox, rp, faults>>

(* Somebody works on a copy of the row of e.                               *)
Claimed(e) == \/ \E w \in Workers : wk[w].e = e
              \/ \E p \in Repliers : e \in rp[p].todo

LeaseExpires(e) ==
    /\ row[e].lease = "live"
    /\ StallsPossible \/ ~Claimed(e)
    /\ row' = [row EXCEPT ![e].lease = "expired"]
    /\ UNCHANGED <<effects, enabled, wk, inbox, rp, faults>>
-----------------------------------------------------------------------------
(* RunWorkflowWorker.                                                      *)
Take(w, e) ==
    /\ wk[w].pc = "idle"
    /\ row' = [row EXCEPT ![e].lease = "live"]
    /\ wk' = [wk EXCEPT ![w] = [pc |-> "claimed", e |-> e,
                                state |-> row[e].state, sent |-> row[e].sent]]
    /\ UNCHANGED <<effects, enabled, inbox, rp, faults>>

(* Mutants: the lease is not looked at; an expired one is not taken over.  *)
ClaimDueWorkflow_IgnoringLease(w, e) ==
    /\ row[e].state \in Active
    /\ row[e].next = "now"
    /\ Take(w, e)

ClaimDueWorkflow_UnlockedOnly(w, e) ==
    /\ row[e].state \in Active
    /\ row[e].next = "now"
    /\ row[e].lease = "none"
    /\ Take(w, e)

ClaimDueWorkflow(w, e) ==
    /\ row[e].state \in Active
    /\ row[e].next = "now"
    /\ row[e].lease # "live"
    /\ Take(w, e)

NotEnabled(w) ==
    /\ wk[w].pc = "claimed"
    /\ ~enabled
    /\ GoTo(w, "retry")
    /\ UNCHANGED <<row, effects, enabled, inbox, rp, faults>>

(* A template variable is missing or the contact's timezone is unknown.    *)
AdvanceError(w) ==
    /\ wk[w].pc = "claimed"
    /\ enabled
    /\ row[wk[w].e].kind # "manual" /\ wk[w].sent < Limit(wk[w].e)
    /\ GoTo(w, "fail")
    /\ UNCHANGED <<row, effects, enabled, inbox, rp, faults>>

(* What Advance makes of a worker's copy, with the commands it returns.    *)
Plan(state, next, sent, send, actions) ==
    [state |-> state, next |-> next, sent |-> sent, send |-> send, actions |-> actions]

Closing(sent, actions) == Plan("completed", "none", sent, FALSE, actions)
Sending(e, sent) ==
    Plan("awaiting_reply", IF row[e].kind = "recurring" THEN "interval" ELSE "none",
         sent + 1, TRUE, {})
Tasks == {"create_task", "manual_follow_up"}

(* Mutants: one occurrence too many; one too few; a closed window counts   *)
(* as one; the next run is not pushed out.                                 *)
Advance_OneTooMany(e, state, sent) ==
    IF row[e].kind = "manual" THEN {Closing(sent, Tasks)}
    ELSE IF sent > Limit(e) THEN {Closing(sent, {})}
    ELSE {Plan(state, "soon", sent, FALSE, {}), Sending(e, sent)}

Advance_OneTooFew(e, state, sent) ==
    IF row[e].kind = "manual" THEN {Closing(sent, Tasks)}
    ELSE IF sent + 1 >= Limit(e) THEN {Closing(sent, {})}
    ELSE {Plan(state, "soon", sent, FALSE, {}), Sending(e, sent)}

Advance_CountsClosedWindow(e, state, sent) ==
    IF row[e].kind = "manual" THEN {Closing(sent, Tasks)}
    ELSE IF sent >= Limit(e) THEN {Closing(sent, {})}
    ELSE {Plan(state, "soon", sent + 1, FALSE, {}), Sending(e, sent)}

Advance_RepeatsSoon(e, state, sent) ==
    IF row[e].kind = "manual" THEN {Closing(sent, Tasks)}
    ELSE IF sent >= Limit(e) THEN {Closing(sent, {})}
    ELSE {Plan(state, "soon", sent, FALSE, {}),
          Plan("awaiting_reply", "soon", sent + 1, TRUE, {})}

(* Outside the contact's window the next run is the window's opening.      *)
Advance(e, state, sent) ==
    IF row[e].kind = "manual" THEN {Closing(sent, Tasks)}
    ELSE IF sent >= Limit(e) THEN {Closing(sent, {})}
    ELSE {Plan(state, "soon", sent, FALSE, {}), Sending(e, sent)}

(* The transaction of ApplyWorkflowCommands: locked_until IS NOT NULL is   *)
(* all it asks of the row.  The message id is the occurrence number, a     *)
(* second insert of it is void; so is a second crm_jobs row of an action.  *)
(* Mutant: the row's lock is not asked for.                                *)
Locked_Always(e) == TRUE

Locked(e) == row[e].lease # "none"

Write(e, plan) ==
    /\ Locked(e)
    /\ row' = [row EXCEPT ![e] = [kind |-> @.kind, state |-> plan.state, next |-> plan.next,
                                  sent |-> plan.sent, lease |-> "none"]]
    /\ crm' = crm \cup {<<e, a>> : a \in plan.actions}
    /\ jobs' = [jobs EXCEPT ![e] = IF plan.send THEN @ \cup {plan.sent} ELSE @]
    /\ rested' = [rested EXCEPT ![e] = IF plan.send THEN FALSE ELSE @]

Apply(w) ==
    /\ wk[w].pc = "claimed"
    /\ enabled
    /\ \E plan \in Advance(wk[w].e, wk[w].state, wk[w].sent) :
          /\ Write(wk[w].e, plan)
          /\ \/ Release(w) /\ UNCHANGED faults
             \/ GoTo(w, "retry") /\ LostCommit
    /\ UNCHANGED <<enabled, inbox, rp>>

(* The row is no longer locked, or the transaction fails: Retry follows.   *)
ApplyFails(w) ==
    /\ wk[w].pc = "claimed"
    /\ enabled
    /\ (~Locked(wk[w].e) /\ UNCHANGED faults) \/ (Locked(wk[w].e) /\ Fault)
    /\ GoTo(w, "retry")
    /\ UNCHANGED <<row, effects, enabled, inbox, rp>>

(* RetryWorkflow and FailWorkflow address the row by its id alone.         *)
RetryWorkflow(w) ==
    /\ wk[w].pc = "retry"
    /\ row' = [row EXCEPT ![wk[w].e].next = "soon", ![wk[w].e].lease = "none"]
    /\ Release(w)
    /\ UNCHANGED <<effects, enabled, inbox, rp, faults>>

FailWorkflow(w) ==
    /\ wk[w].pc = "fail"
    /\ row' = [row EXCEPT ![wk[w].e].state = "failed", ![wk[w].e].next = "none",
                          ![wk[w].e].lease = "none"]
    /\ Release(w)
    /\ UNCHANGED <<effects, enabled, inbox, rp, faults>>

(* The process dies, or the store call that ends the iteration fails.      *)
Abandon(w) ==
    /\ wk[w].pc # "idle"
    /\ Fault
    /\ Release(w)
    /\ UNCHANGED <<row, effects, enabled, inbox, rp>>
-----------------------------------------------------------------------------
(* Replies: processInbound, of which only the workflow part matters here.  *)
Arrive(r, text) ==
    /\ inbox[r].status = "absent"
    /\ inbox' = [inbox EXCEPT ![r] = [status |-> "new", text |-> text,
                                      about |-> {e \in Enrollments : row[e].state \in Active}]]
    /\ UNCHANGED <<row, effects, enabled, wk, rp, faults>>

(* ClaimWorkflowsForReply skips every row that is leased.                  *)
ClaimWorkflowsForReply(p, r) ==
    LET free == {e \in Enrollments : row[e].state \in Active /\ row[e].lease # "live"} IN
    /\ rp[p].reply = None
    /\ inbox[r].status = "new"
    /\ inbox' = [inbox EXCEPT ![r].status = "held"]
    /\ row' = [e \in Enrollments |->
                 IF e \in free THEN [row[e] EXCEPT !.lease = "live"] ELSE row[e]]
    /\ rp' = [rp EXCEPT ![p] = [reply |-> r, todo |-> free,
                                sent |-> [e \in Enrollments |-> row[e].sent]]]
    /\ UNCHANGED <<effects, enabled, wk, faults>>

(* Mutant: the copy is written back without its count.                     *)
Reply_ForgetsCount(text, sent) ==
    IF text = "stop" THEN Plan("suppressed", "none", 0, FALSE, {}) ELSE Closing(0, {"reply"})

(* Reply closes the copy; "stop" adds a suppression, anything else the     *)
(* workflow's CRM action (or the two of a negative reply).                 *)
Reply(text, sent) ==
    IF text = "stop" THEN Plan("suppressed", "none", sent, FALSE, {})
    ELSE Closing(sent, {"reply"})

ApplyReply(p, e) ==
    /\ e \in rp[p].todo
    /\ Write(e, Reply(inbox[rp[p].reply].text, rp[p].sent[e]))
    /\ rp' = [rp EXCEPT ![p].todo = @ \ {e}]
    /\ UNCHANGED <<enabled, wk, inbox, faults>>

(* All copies are written: the message is forwarded and marked processed.  *)
MarkProcessed(p) ==
    /\ rp[p].reply # None
    /\ rp[p].todo = {}
    /\ inbox' = [inbox EXCEPT ![rp[p].reply].status = "done"]
    /\ rp' = [rp EXCEPT ![p] = AtRest]
    /\ UNCHANGED <<row, effects, enabled, wk, faults>>

(* A row is no longer locked, a call fails or the process dies: the rest   *)
(* of the copies is forgotten and the message tried again later.           *)
Unhold(r) == inbox' = [inbox EXCEPT ![r].status = IF @ = "done" THEN "done" ELSE "new"]

ReplyFails(p) ==
    /\ rp[p].reply # None
    /\ \/ (\E e \in rp[p].todo : ~Locked(e)) /\ UNCHANGED faults
       \/ Fault
    /\ Unhold(rp[p].reply)
    /\ rp' = [rp EXCEPT ![p] = AtRest]
    /\ UNCHANGED <<row, effects, enabled, wk>>

(* The message's own 2 minute lease: another replier takes it up as well.  *)
ReplyLeaseExpires(r) ==
    /\ StallsPossible
    /\ inbox[r].status = "held"
    /\ Unhold(r)
    /\ UNCHANGED <<row, effects, enabled, wk, rp, faults>>

Work(w) == \/ NotEnabled(w) \/ AdvanceError(w) \/ Apply(w) \/ ApplyFails(w)
           \/ RetryWorkflow(w) \/ FailWorkflow(w)

Route(p) == (\E e \in Enrollments : ApplyReply(p, e)) \/ MarkProcessed(p)

Next ==
    \/ \E e \in Enrollments : Enroll(e) \/ BecomesDue(e) \/ LeaseExpires(e)
    \/ \E b \in BOOLEAN : SetEnabled(b)
    \/ \E w \in Workers, e \in Enrollments : ClaimDueWorkflow(w, e)
    \/ \E w \in Workers : Work(w) \/ Abandon(w)
    \/ \E r \in Replies, text \in Texts : Arrive(r, text)
    \/ \E r \in Replies : ReplyLeaseExpires(r)
    \/ \E p \in Repliers, r \in Replies : ClaimWorkflowsForReply(p, r)
    \/ \E p \in Repliers : Route(p) \/ ReplyFails(p)

Spec == Init /\ [][Next]_vars

(* Fairness.  A worker or replier that has claimed goes on.  Claims are    *)
(* in the order of next_run_at, so no due enrollment is passed over for    *)
(* ever.  A copy found outside the contact's window comes back when the    *)
(* window opens, so it does not meet a closed window for ever.             *)
Fairness ==
    /\ \A w \in Workers : WF_vars(Work(w))
    /\ \A p \in Repliers : WF_vars(Route(p))
    /\ \A e \in Enrollments :
          /\ WF_vars(BecomesDue(e))
          /\ WF_vars(LeaseExpires(e))
          /\ SF_vars(\E w \in Workers : ClaimDueWorkflow(w, e))
          /\ SF_vars(\E w \in Workers : wk[w].e = e /\ Apply(w) /\ jobs' # jobs)
-----------------------------------------------------------------------------
(* Properties.                                                             *)

TypeOK ==
    /\ row \in [Enrollments -> Row]
    /\ jobs \in [Enrollments -> SUBSET Nat]
    /\ crm \in SUBSET (Enrollments \X Actions)
    /\ enabled \in BOOLEAN
    /\ wk \in [Workers -> Slot]
    /\ \A w \in Workers : wk[w].pc = "idle" <=> wk[w].e = None
    /\ \A w \in Workers : wk[w].pc # "idle" => wk[w].state \in Active
    /\ inbox \in [Replies -> Entry]
    /\ rp \in [Repliers -> Desk]
    /\ rested \in [Enrollments -> BOOLEAN]

(* The check "locked_until IS NOT NULL" is a sound fence against writing   *)
(* back to a closed enrollment only because a closed row is never locked.  *)
LockedIsActive ==
    \A e \in Enrollments : row[e].lease # "none" => row[e].state \in Active

(* A closed enrollment stays closed and sends nothing more, however stale  *)
(* the copy of a worker that was overtaken by a reply.                     *)
ClosedSendsNothing ==
    [][\A e \in Enrollments : row[e].state \in Closed =>
          row'[e].state \in Closed /\ jobs'[e] = jobs[e]]_vars

(* An enrollment sends its occurrences in order, none twice, none skipped  *)
(* and never more than its workflow allows, even when stale copies turn    *)
(* sent_count back.                                                        *)
OccurrencesInOrder ==
    \A e \in Enrollments : \E k \in 0..Limit(e) :
        jobs[e] = 1..k /\ row[e].sent <= k

(* An enrollment has one outcome for the CRM: none while it is active, and *)
(* then either what its own plan or what the reply asks for, not both, no  *)
(* matter which of two processes holding a copy is late.  (A late worker   *)
(* with a template error still turns completed into failed.)               *)
OneOutcome ==
    \A e \in Enrollments :
        LET outcome == {a \in Actions : <<e, a>> \in crm} IN
        /\ outcome \in {{}, Tasks, {"reply"}}
        /\ outcome # {} => row[e].state \in {"completed", "failed"}

(* All of this in one: whoever is late, whatever fails or is reported as   *)
(* failed, each enrollment runs its campaign, which ends in one way, is    *)
(* completed without a reply only after its last message, and makes tasks  *)
(* only if it has no messages.                                             *)
Phase(e)   == IF row[e].state \in Active THEN "open" ELSE row[e].state
Length(e)  == IF row[e].kind = "manual" THEN 0 ELSE Limit(e)
Outcome(e) == {a \in Actions : <<e, a>> \in crm}

Promise(e) == INSTANCE Campaign WITH
    FollowUp <- Tasks, Answer <- {"reply"},
    phase <- Phase(e), length <- Length(e), sent <- jobs[e], outcome <- Outcome(e)

ImplementsCampaign ==
    /\ \A e \in Enrollments : Promise(e)!Init
    /\ [][\A e \in Enrollments : Promise(e)!Step]_vars

(* When no claim outlives its lease sent_count tells exactly what was sent.*)
SentIsExact ==
    \A e \in Enrollments : jobs[e] = 1..row[e].sent

(* One enrollment is in the hands of one worker or replier at a time.      *)
ExclusiveEnrollment ==
    \A e \in Enrollments :
        /\ \A v, w \in Workers : wk[v].e = e /\ wk[w].e = e => v = w
        /\ \A p, q \in Repliers : e \in rp[p].todo \cap rp[q].todo => p = q
        /\ ~\E w \in Workers, p \in Repliers : wk[w].e = e /\ e \in rp[p].todo

(* Two messages of an enrollment are a repeat interval apart ("30-day      *)
(* interval"): retries, closed windows and crashes do not shorten it.      *)
RepeatsAreApart ==
    [][\A e \in Enrollments : jobs'[e] # jobs[e] /\ jobs[e] # {} => rested[e]]_vars

(* Bounded recurrence: in a configuration that stays enabled, and if steps *)
(* are fair, every enrollment gets going, and one that repeats comes to    *)
(* its end even if nobody ever replies, across crashes and failed calls.   *)
Through(e) ==
    IF row[e].kind = "single" THEN row[e].state # "pending" ELSE row[e].state \in Closed

EnrollmentsProgress ==
    Fairness /\ <>[]enabled =>
        \A e \in Enrollments : row[e].state = "pending" ~> Through(e)

(* "Stop on any reply": once a reply is processed, the enrollments its     *)
(* sender was in when it arrived send nothing more.                        *)
StopOnAnyReply ==
    [][\A e \in Enrollments, r \in Replies :
          inbox[r].status = "done" /\ e \in inbox[r].about => jobs'[e] = jobs[e]]_vars
=============================================================================
