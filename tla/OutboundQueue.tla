--------------------------- MODULE OutboundQueue ---------------------------
(***************************************************************************)
(* The outbound queue: the table outbound_jobs, the rows of suppressions   *)
(* and settings.sending_paused it is read with, and everything that writes *)
(* them at the same time: the API's HighLevel and Telnyx handlers, the     *)
(* workflow engine, the operator's pause switch, and the loop of RunWorker *)
(* run by several processes.                                               *)
(*                                                                         *)
(* Every SQL statement (or transaction) is one action; everything between  *)
(* two statements of a worker can be overtaken by anybody else.  Time is   *)
(* two facts about a row: whether available_at has passed (due) and        *)
(* whether the 2 minute lease locked_until has passed (lease).             *)
(***************************************************************************)
EXTENDS Naturals, FiniteSets

CONSTANTS
    Jobs,           \* outbound_jobs rows, by (location_id, message_id)
    Numbers,        \* destination numbers
    NumberOf,       \* the to_number of each job
    Workers,        \* worker processes, each running one RunWorker loop
    NoJob,          \* what an idle worker holds
    RetryLimit,     \* a transient error of attempt RetryLimit is final (5 in the code)
    MaxFaults,      \* bound on crashes and failed store calls in a behaviour
    StallsPossible  \* may a worker hold a job longer than its 2 minute lease?

ASSUME OutboundAssumption ==
    /\ NumberOf \in [Jobs -> Numbers]
    /\ NoJob \notin Jobs
    /\ RetryLimit \in Nat \ {0}
    /\ MaxFaults \in Nat
    /\ StallsPossible \in BOOLEAN

VARIABLES
    row,         \* outbound_jobs: status, attempts, when due, lease of each job
    suppressed,  \* phone numbers with a row in suppressions
    paused,      \* settings.sending_paused
    stopping,    \* numbers whose STOP handler is between its two statements
    wk,          \* each worker: where its loop is, the job and attempt it claimed
    accepted,    \* jobs whose message the provider has accepted
    lateSends,   \* history: messages a worker had accepted for a number already suppressed
    pausedSends, \* history: messages a worker had accepted since sending was last paused
    faults       \* how many crashes and store errors have happened

vars == <<row, suppressed, paused, stopping, wk, accepted,
          lateSends, pausedSends, faults>>
-----------------------------------------------------------------------------
Statuses == {"absent", "queued", "sending", "sent", "failed", "cancelled"}
Settled  == {"sent", "failed", "cancelled"}
Leases   == {"none", "live", "expired"}
Times    == {"now", "later"}

(* The points of RunWorker's loop at which another process may get in.     *)
Steps == {"idle",          \* about to claim
          "claimed",       \* holds a job, has not read sending_paused
          "unpaused",      \* read sending_paused = false
          "cleared",       \* read that the number is not suppressed
          "accepted",      \* the provider returned a message id
          "blocked",       \* the provider answered 40300
          "blockedCancel", \* has recorded that suppression, queue not yet cancelled
          "requeue",       \* about to call Retry
          "drop"}          \* about to call Fail

Row  == [status: Statuses, attempts: 0..RetryLimit, when: Times, lease: Leases]
Slot == [pc: Steps, job: Jobs \cup {NoJob}, tries: 0..RetryLimit]

NoRow == [status |-> "absent", attempts |-> 0, when |-> "later", lease |-> "none"]
Queued(when) == [status |-> "queued", attempts |-> 0, when |-> when, lease |-> "none"]
Idle  == [pc |-> "idle", job |-> NoJob, tries |-> 0]

Init ==
    /\ row = [j \in Jobs |-> NoRow]
    /\ suppressed = {}
    /\ paused = TRUE
    /\ stopping = {}
    /\ wk = [w \in Workers |-> Idle]
    /\ accepted = {}
    /\ lateSends = [w \in Workers |-> [n \in Numbers |-> 0]]
    /\ pausedSends = [w \in Workers |-> 0]
    /\ faults = 0

history == <<lateSends, pausedSends>>

(* attempts is only ever compared with RetryLimit, so it may saturate.     *)
Bump(n) == IF n < RetryLimit THEN n + 1 ELSE n

GoTo(w, step) == wk' = [wk EXCEPT ![w].pc = step]
Release(w)    == wk' = [wk EXCEPT ![w] = Idle]
Held(w)       == wk[w].job
Holds(w, j)   == wk[w].job = j
-----------------------------------------------------------------------------
(* The API process and the workflow engine put jobs into the queue.        *)

(* Mutant: the insert is an upsert that starts the job afresh.             *)
Insert_Upsert(j, when) ==
    /\ row[j].status # "sending"
    /\ row' = [row EXCEPT ![j] = Queued(when)]
    /\ UNCHANGED <<suppressed, paused, stopping, wk, accepted, history, faults>>

Insert(j, when) ==
    /\ row[j].status = "absent"
    /\ row' = [row EXCEPT ![j] = Queued(when)]
    /\ UNCHANGED <<suppressed, paused, stopping, wk, accepted, history, faults>>

(* INSERT .. ON CONFLICT DO NOTHING: a second delivery of the same message *)
(* changes nothing.  Neither insert looks at suppressions.                 *)
Enqueue(j) == Insert(j, "now")

(* A workflow send whose rate limit lies in the future.                    *)
EnqueueWorkflow(j) == Insert(j, "later")

BecomesDue(j) ==
    /\ row[j].status = "queued"
    /\ row[j].when = "later"
    /\ row' = [row EXCEPT ![j].when = "now"]
    /\ UNCHANGED <<suppressed, paused, stopping, wk, accepted, history, faults>>

(* locked_until passes.  Without stalls a worker never keeps a job for as  *)
(* long as the lease, so only the lease of an abandoned job runs out.      *)
LeaseExpires(j) ==
    /\ row[j].lease = "live"
    /\ StallsPossible \/ \A w \in Workers : ~Holds(w, j)
    /\ row' = [row EXCEPT ![j].lease = "expired"]
    /\ UNCHANGED <<suppressed, paused, stopping, wk, accepted, history, faults>>
-----------------------------------------------------------------------------
(* The rows with queued messages for a number, cancelled.                  *)
CancelQueued(n) ==
    row' = [j \in Jobs |->
              IF NumberOf[j] = n /\ row[j].status = "queued"
              THEN [row[j] EXCEPT !.status = "cancelled"]
              ELSE row[j]]

(* Suppress is two statements: the Telnyx handler can be overtaken, or     *)
(* die, between them.                                                      *)
StopInsert(n) ==
    /\ n \notin stopping
    /\ suppressed' = suppressed \cup {n}
    /\ stopping' = stopping \cup {n}
    /\ UNCHANGED <<row, paused, wk, accepted, history, faults>>

StopCancel(n) ==
    /\ n \in stopping
    /\ CancelQueued(n)
    /\ stopping' = stopping \ {n}
    /\ UNCHANGED <<suppressed, paused, wk, accepted, history, faults>>

StopHandlerDies(n) ==
    /\ n \in stopping
    /\ faults < MaxFaults
    /\ stopping' = stopping \ {n}
    /\ faults' = faults + 1
    /\ UNCHANGED <<row, suppressed, paused, wk, accepted, history>>

(* The workflow engine's Suppress command: both statements in one          *)
(* transaction.                                                            *)
WorkflowStop(n) ==
    /\ suppressed' = suppressed \cup {n}
    /\ CancelQueued(n)
    /\ UNCHANGED <<paused, stopping, wk, accepted, history, faults>>

SetSendingPaused(p) ==
    /\ p # paused
    /\ paused' = p
    /\ pausedSends' = [w \in Workers |-> 0]
    /\ UNCHANGED <<row, suppressed, stopping, wk, accepted, lateSends, faults>>
-----------------------------------------------------------------------------
(* RunWorker.  Taking a row: attempts + 1 and a fresh lease.               *)

Take(w, j, status) ==
    /\ wk[w].pc = "idle"
    /\ row' = [row EXCEPT ![j].status = status,
                          ![j].attempts = Bump(@),
                          ![j].lease = "live"]
    /\ wk' = [wk EXCEPT ![w] = [pc |-> "claimed", job |-> j,
                                tries |-> Bump(row[j].attempts)]]
    /\ UNCHANGED <<suppressed, paused, stopping, accepted, history, faults>>

(* Mutants: the status the crm_jobs table uses; the lease is not looked    *)
(* at; abandoned jobs are not looked for.                                  *)
Claim_AsCRM(w, j) ==
    /\ \/ row[j].status = "queued" /\ row[j].when = "now"
       \/ row[j].status = "sending" /\ row[j].lease = "expired"
    /\ Take(w, j, "running")

Claim_IgnoringLease(w, j) ==
    /\ row[j].status = "sending" \/ (row[j].status = "queued" /\ row[j].when = "now")
    /\ Take(w, j, "sending")

Claim_QueuedOnly(w, j) ==
    /\ row[j].status = "queued" /\ row[j].when = "now"
    /\ Take(w, j, "sending")

Claim(w, j) ==
    /\ \/ row[j].status = "queued" /\ row[j].when = "now"
       \/ row[j].status = "sending" /\ row[j].lease = "expired"
    /\ Take(w, j, "sending")

(* Mutants: what the two reads returned is not acted upon.                 *)
SendingPaused_Ignored(w) ==
    /\ wk[w].pc = "claimed"
    /\ GoTo(w, "unpaused")
    /\ UNCHANGED <<row, suppressed, paused, stopping, accepted, history, faults>>

IsSuppressed_Ignored(w) ==
    /\ wk[w].pc = "unpaused"
    /\ GoTo(w, "cleared")
    /\ UNCHANGED <<row, suppressed, paused, stopping, accepted, history, faults>>

SendingPaused(w) ==
    /\ wk[w].pc = "claimed"
    /\ GoTo(w, IF paused THEN "requeue" ELSE "unpaused")
    /\ UNCHANGED <<row, suppressed, paused, stopping, accepted, history, faults>>

IsSuppressed(w) ==
    /\ wk[w].pc = "unpaused"
    /\ GoTo(w, IF NumberOf[Held(w)] \in suppressed THEN "drop" ELSE "cleared")
    /\ UNCHANGED <<row, suppressed, paused, stopping, accepted, history, faults>>

(* What the loop does with an error it takes for transient.                *)
AfterTransient(w) == IF wk[w].tries < RetryLimit THEN "requeue" ELSE "drop"

ClassifyProviderError(http, code) ==
    IF code = "40300" THEN "suppression"
    ELSE IF http \in {408, 425, 429} \/ http >= 500 THEN "transient"
    ELSE "permanent"

AfterRefusal(w, http, code) ==
    LET class == ClassifyProviderError(http, code) IN
    IF class = "suppression" THEN "blocked"
    ELSE IF class = "permanent" THEN "drop" ELSE AfterTransient(w)

(* The provider takes the message; the history variables note what the     *)
(* tables said at that moment.                                             *)
ProviderAccepts(w) ==
    /\ accepted' = accepted \cup {Held(w)}
    /\ lateSends' = [lateSends EXCEPT ![w] =
                       [n \in Numbers |->
                          IF n = NumberOf[Held(w)] /\ n \in suppressed
                          THEN @[n] + 1 ELSE @[n]]]
    /\ pausedSends' = [pausedSends EXCEPT ![w] = IF paused THEN @ + 1 ELSE @]

(* resolveSendingNumber is part of Send: Claim does not return the         *)
(* contact's id, so it yields the job's own from_number without any call.  *)
SendAccepted(w) ==
    /\ wk[w].pc = "cleared"
    /\ ProviderAccepts(w)
    /\ GoTo(w, "accepted")
    /\ UNCHANGED <<row, suppressed, paused, stopping, faults>>

(* The answer to an accepted message is lost or has no message id.         *)
SendLost(w) ==
    /\ wk[w].pc = "cleared"
    /\ ProviderAccepts(w)
    /\ GoTo(w, AfterTransient(w))
    /\ UNCHANGED <<row, suppressed, paused, stopping, faults>>

(* Mutant: the error of the request is dropped.                            *)
SendFailed_ErrorDropped(w) ==
    /\ wk[w].pc = "cleared"
    /\ GoTo(w, "accepted")
    /\ UNCHANGED <<row, suppressed, paused, stopping, accepted, history, faults>>

(* The request never reached the provider.                                 *)
SendFailed(w) ==
    /\ wk[w].pc = "cleared"
    /\ GoTo(w, AfterTransient(w))
    /\ UNCHANGED <<row, suppressed, paused, stopping, accepted, history, faults>>

HttpErrors == {400, 429, 500}
ErrorCodes == {"40300", "other"}

SendRefused(w) ==
    /\ wk[w].pc = "cleared"
    /\ \E http \in HttpErrors, code \in ErrorCodes :
          GoTo(w, AfterRefusal(w, http, code))
    /\ UNCHANGED <<row, suppressed, paused, stopping, accepted, history, faults>>

(* 40300: the provider has the number blocked; mirror it, then Fail.       *)
BlockInsert(w) ==
    /\ wk[w].pc = "blocked"
    /\ suppressed' = suppressed \cup {NumberOf[Held(w)]}
    /\ GoTo(w, "blockedCancel")
    /\ UNCHANGED <<row, paused, stopping, accepted, history, faults>>

BlockCancel(w) ==
    /\ wk[w].pc = "blockedCancel"
    /\ CancelQueued(NumberOf[Held(w)])
    /\ GoTo(w, "drop")
    /\ UNCHANGED <<suppressed, paused, stopping, accepted, history, faults>>

(* Complete, Retry and Fail end the iteration.  They address the row by    *)
(* its id alone: whatever its status is by now is overwritten.             *)
EndIteration(w, step, newRow) ==
    /\ wk[w].pc = step
    /\ row' = [row EXCEPT ![Held(w)] = newRow]
    /\ Release(w)
    /\ UNCHANGED <<suppressed, paused, stopping, accepted, history, faults>>

Complete(w) ==
    EndIteration(w, "accepted",
                 [row[Held(w)] EXCEPT !.status = "sent", !.lease = "none"])

Retry(w) ==
    EndIteration(w, "requeue",
                 [row[Held(w)] EXCEPT !.status = "queued", !.when = "later",
                                      !.lease = "none"])

Fail(w) ==
    EndIteration(w, "drop",
                 [row[Held(w)] EXCEPT !.status = "failed", !.lease = "none"])

(* A store call returns an error: reading sending_paused or suppressions   *)
(* leads to Retry, an error of Suppress is ignored and Fail follows, and   *)
(* an error of Complete, Retry or Fail is ignored and the job abandoned.   *)
StoreError(w) ==
    /\ faults < MaxFaults
    /\ wk[w].pc \notin {"idle", "cleared"}
    /\ faults' = faults + 1
    /\ CASE wk[w].pc \in {"claimed", "unpaused"}      -> GoTo(w, "requeue")
         [] wk[w].pc \in {"blocked", "blockedCancel"} -> GoTo(w, "drop")
         [] OTHER                                     -> Release(w)
    /\ UNCHANGED <<row, suppressed, paused, stopping, accepted, history>>

(* The process dies and starts again: nothing but the tables is left.      *)
Crash(w) ==
    /\ faults < MaxFaults
    /\ wk[w].pc # "idle"
    /\ faults' = faults + 1
    /\ Release(w)
    /\ UNCHANGED <<row, suppressed, paused, stopping, accepted, history>>

(* The rest of an iteration, once a job is claimed.                        *)
Work(w) ==
    \/ SendingPaused(w) \/ IsSuppressed(w)
    \/ SendAccepted(w) \/ SendLost(w) \/ SendFailed(w) \/ SendRefused(w)
    \/ BlockInsert(w) \/ BlockCancel(w)
    \/ Complete(w) \/ Retry(w) \/ Fail(w)

Next ==
    \/ \E j \in Jobs : Enqueue(j) \/ EnqueueWorkflow(j) \/ BecomesDue(j) \/ LeaseExpires(j)
    \/ \E n \in Numbers : StopInsert(n) \/ StopCancel(n) \/ StopHandlerDies(n) \/ WorkflowStop(n)
    \/ \E p \in BOOLEAN : SetSendingPaused(p)
    \/ \E w \in Workers, j \in Jobs : Claim(w, j)
    \/ \E w \in Workers : Work(w) \/ StoreError(w) \/ Crash(w)

Spec == Init /\ [][Next]_vars

(* Fairness.  A worker that has a job goes on with it.  Claim takes rows   *)
(* in the order of available_at, so a job that is due is overtaken only by *)
(* the finitely many that became due before it: no job is passed over for  *)
(* ever.  Clocks run.                                                      *)
Fairness ==
    /\ \A w \in Workers : WF_vars(Work(w))
    /\ \A j \in Jobs :
          /\ SF_vars(\E w \in Workers : Claim(w, j))
          /\ WF_vars(BecomesDue(j))
          /\ WF_vars(LeaseExpires(j))
-----------------------------------------------------------------------------
(* Properties.                                                             *)

TypeOK ==
    /\ row \in [Jobs -> Row]
    /\ suppressed \in SUBSET Numbers
    /\ paused \in BOOLEAN
    /\ stopping \in SUBSET Numbers
    /\ wk \in [Workers -> Slot]
    /\ \A w \in Workers : wk[w].pc = "idle" <=> wk[w].job = NoJob
    /\ accepted \in SUBSET Jobs
    /\ lateSends \in [Workers -> [Numbers -> Nat]]
    /\ pausedSends \in [Workers -> Nat]
    /\ faults \in 0..MaxFaults

(* The lease belongs to the sending state: every other write of the row    *)
(* gives it up, and Claim never leaves it out.  A row "sending" without a  *)
(* lease would never be claimed again; a leased row of another status      *)
(* would be cancelled or claimed under a worker's feet.                    *)
LeaseIffSending ==
    \A j \in Jobs : row[j].status = "sending" <=> row[j].lease # "none"

(* A row says sent only of a message the provider took, however workers    *)
(* overtake each other.                                                    *)
SentWasAccepted ==
    \A j \in Jobs : row[j].status = "sent" => j \in accepted

(* After a number is suppressed each worker may still get one message out  *)
(* to it, the one whose suppression check had already passed; it never     *)
(* sends a second.  Retries, lost answers, crashes, expired leases and a   *)
(* STOP handler that died half way do not add to that.                     *)
OneLateSendPerWorker ==
    \A w \in Workers, n \in Numbers : lateSends[w][n] <= 1

(* The same for the operator's pause switch.                               *)
OnePausedSendPerWorker ==
    \A w \in Workers : pausedSends[w] <= 1

(* A job a worker holds is "sending" with a live lease, so that nobody     *)
(* else claims, cancels or finishes it.  Needs that nobody outlives a      *)
(* lease, as the next three do.                                            *)
HolderHasLease ==
    \A w \in Workers : wk[w].pc # "idle" =>
        /\ row[Held(w)].status = "sending"
        /\ row[Held(w)].lease = "live"

(* Two workers never hold one job, however claims, STOPs and crashes come. *)
ExclusiveClaim ==
    \A v, w \in Workers : v # w /\ wk[v].pc # "idle" => wk[v].job # wk[w].job

(* A settled job is never written again.                                   *)
SettledIsFinal ==
    [][\A j \in Jobs : row[j].status \in Settled => row'[j].status = row[j].status]_vars

(* The queue implements Outbox: queued and sending are both "open".        *)
phase == [j \in Jobs |-> IF row[j].status \in {"queued", "sending"}
                         THEN "open" ELSE row[j].status]

Box == INSTANCE Outbox WITH Jobs <- Jobs, phase <- phase, accepted <- accepted
ImplementsOutbox == Box!Spec

(* If steps are fair and sending is not paused again and again, every job  *)
(* that is queued is sent, failed or cancelled in the end: across retries, *)
(* crashes, failed store calls and suppressions none is stuck in the queue.*)
EveryJobSettles ==
    Fairness /\ <>[](~paused) =>
        \A j \in Jobs : row[j].status = "queued" ~> row[j].status \in Settled
=============================================================================
