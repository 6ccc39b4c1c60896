------------------------------ MODULE CrmQueue ------------------------------
(***************************************************************************)
(* What the workflow engine wants done in HighLevel: the table crm_jobs    *)
(* and the loop of RunCRMWorker, run by several processes.  A job makes a  *)
(* task or a note, and HighLevel does not recognize a repeated one: there  *)
(* is no idempotency key.  An archive job marks the conversation read      *)
(* first and makes its note then.                                          *)
(*                                                                         *)
(* One SQL statement or HTTP call is one action, and time is whether       *)
(* available_at has passed and whether the 2 minute lease has.             *)
(***************************************************************************)
EXTENDS Naturals, FiniteSets

CONSTANTS
    CRMJobs,       \* crm_jobs rows, by (workflow_enrollment_id, action)
    Archives,      \* those with the action archive_conversation
    CRMWorkers,    \* processes that run RunCRMWorker
    NoCRMJob,      \* what an idle worker holds
    CRMRetryLimit, \* an error of attempt CRMRetryLimit is final (5 in the code)
    MaxMishaps     \* bound on crashes, failed store calls and overrun leases

ASSUME CRMAssumption ==
    /\ Archives \subseteq CRMJobs
    /\ NoCRMJob \notin CRMJobs
    /\ IsFiniteSet(CRMWorkers)
    /\ CRMRetryLimit \in Nat \ {0}
    /\ MaxMishaps \in Nat

VARIABLES
    crm,      \* crm_jobs: status, attempts, when due, lease of each job
    hand,     \* each worker: where its loop is, the job and attempt it claimed
    notes,    \* external: how many tasks or notes HighLevel has of each job
    archived, \* external: the archive jobs whose conversation was marked read
    excuses,  \* history: what has happened to each job that makes it repeat its note
    mishaps   \* how many crashes, store errors and overrun leases there were

crmVars == <<crm, hand, notes, archived, excuses, mishaps>>
-----------------------------------------------------------------------------
CRMEnds == {"done", "failed"}
CRMRow  == [status: {"absent", "queued", "running"} \cup CRMEnds,
            attempts: 0..CRMRetryLimit, when: {"now", "later"},
            lease: {"none", "live", "expired"}]
CRMHand == [pc: {"idle", "archive", "note", "complete", "error"},
            job: CRMJobs \cup {NoCRMJob}, tries: 0..CRMRetryLimit]

EmptyHand == [pc |-> "idle", job |-> NoCRMJob, tries |-> 0]

CrmInit ==
    /\ crm = [j \in CRMJobs |-> [status |-> "absent", attempts |-> 0,
                                 when |-> "later", lease |-> "none"]]
    /\ hand = [w \in CRMWorkers |-> EmptyHand]
    /\ notes = [j \in CRMJobs |-> 0]
    /\ archived = {}
    /\ excuses = [j \in CRMJobs |-> 0]
    /\ mishaps = 0

CRMJobOf(w)    == hand[w].job
CRMStep(w, pc) == hand' = [hand EXCEPT ![w].pc = pc]
PutDown(w)     == hand' = [hand EXCEPT ![w] = EmptyHand]
Mishap         == mishaps < MaxMishaps /\ mishaps' = mishaps + 1
Excuse(j)      == excuses' = [excuses EXCEPT ![j] = @ + 1]
Bump(n)        == IF n < CRMRetryLimit THEN n + 1 ELSE n
-----------------------------------------------------------------------------
(* The engine's transaction inserts the jobs of its commands together; a   *)
(* job that is there already is left alone (ON CONFLICT DO NOTHING).       *)
InsertCRM(S) ==
    /\ \E j \in S : crm[j].status = "absent"
    /\ crm' = [j \in CRMJobs |->
                 IF j \in S /\ crm[j].status = "absent"
                 THEN [crm[j] EXCEPT !.status = "queued", !.when = "now"]
                 ELSE crm[j]]
    /\ UNCHANGED <<hand, notes, archived, excuses, mishaps>>

CRMBecomesDue(j) ==
    /\ crm[j].status = "queued" /\ crm[j].when = "later"
    /\ crm' = [crm EXCEPT ![j].when = "now"]
    /\ UNCHANGED <<hand, notes, archived, excuses, mishaps>>

(* The lease of a job whose worker died passes.                            *)
CRMLeaseExpires(j) ==
    /\ crm[j].lease = "live"
    /\ \A w \in CRMWorkers : CRMJobOf(w) # j
    /\ crm' = [crm EXCEPT ![j].lease = "expired"]
    /\ UNCHANGED <<hand, notes, archived, excuses, mishaps>>

(* A worker is slower than its lease.  An archive job makes three calls,   *)
(* each with up to two tries and a refresh of the tokens, of 15 seconds.   *)
CRMOverrun(j) ==
    /\ crm[j].lease = "live"
    /\ \E w \in CRMWorkers : CRMJobOf(w) = j
    /\ Mishap
    /\ crm' = [crm EXCEPT ![j].lease = "expired"]
    /\ Excuse(j)
    /\ UNCHANGED <<hand, notes, archived>>
-----------------------------------------------------------------------------
CRMTake(w, j) ==
    /\ hand[w].pc = "idle"
    /\ crm' = [crm EXCEPT ![j].status = "running",
                          ![j].attempts = Bump(@),
                          ![j].lease = "live"]
    /\ hand' = [hand EXCEPT ![w] = [pc |-> IF j \in Archives THEN "archive" ELSE "note",
                                    job |-> j, tries |-> Bump(crm[j].attempts)]]
    /\ UNCHANGED <<notes, archived, excuses, mishaps>>

(* Mutants: the lease is not looked at; abandoned jobs are not looked for. *)
ClaimCRM_IgnoringLease(w, j) ==
    /\ crm[j].status = "running" \/ (crm[j].status = "queued" /\ crm[j].when = "now")
    /\ CRMTake(w, j)

ClaimCRM_QueuedOnly(w, j) ==
    /\ crm[j].status = "queued" /\ crm[j].when = "now"
    /\ CRMTake(w, j)

ClaimCRM(w, j) ==
    /\ \/ crm[j].status = "queued" /\ crm[j].when = "now"
       \/ crm[j].status = "running" /\ crm[j].lease = "expired"
    /\ CRMTake(w, j)

(* ExecuteCRM marks the conversation read, which may be repeated.          *)
ArchiveConversation(w) ==
    /\ hand[w].pc = "archive"
    /\ archived' = archived \cup {CRMJobOf(w)}
    /\ CRMStep(w, "note")
    /\ UNCHANGED <<crm, notes, excuses, mishaps>>

(* ExecuteCRM makes the task or note.                                      *)
CreateNote(w) ==
    /\ hand[w].pc = "note"
    /\ notes' = [notes EXCEPT ![CRMJobOf(w)] = @ + 1]
    /\ CRMStep(w, "complete")
    /\ UNCHANGED <<crm, archived, excuses, mishaps>>

(* A look-up or a call fails without effect: no contact, no conversation,  *)
(* no token, an HTTP error.                                                *)
CRMCallFails(w) ==
    /\ hand[w].pc \in {"archive", "note"}
    /\ CRMStep(w, "error")
    /\ UNCHANGED <<crm, notes, archived, excuses, mishaps>>

(* A call has its effect, but its answer is lost.                          *)
CRMCallLost(w) ==
    /\ \/ /\ hand[w].pc = "archive"
          /\ archived' = archived \cup {CRMJobOf(w)}
          /\ UNCHANGED <<notes, excuses>>
       \/ /\ hand[w].pc = "note"
          /\ notes' = [notes EXCEPT ![CRMJobOf(w)] = @ + 1]
          /\ Excuse(CRMJobOf(w))
          /\ UNCHANGED archived
    /\ CRMStep(w, "error")
    /\ UNCHANGED <<crm, mishaps>>

(* CompleteCRM, RetryCRM and FailCRM address the row by its id alone.      *)
CRMEnd(w, newRow) ==
    /\ crm' = [crm EXCEPT ![CRMJobOf(w)] = newRow]
    /\ PutDown(w)
    /\ UNCHANGED <<notes, archived, excuses, mishaps>>

CompleteCRM(w) ==
    /\ hand[w].pc = "complete"
    /\ CRMEnd(w, [crm[CRMJobOf(w)] EXCEPT !.status = "done", !.lease = "none"])

RetryCRM(w) ==
    /\ hand[w].pc = "error"
    /\ hand[w].tries < CRMRetryLimit
    /\ CRMEnd(w, [crm[CRMJobOf(w)] EXCEPT !.status = "queued", !.when = "later",
                                          !.lease = "none"])

FailCRM(w) ==
    /\ hand[w].pc = "error"
    /\ hand[w].tries = CRMRetryLimit
    /\ CRMEnd(w, [crm[CRMJobOf(w)] EXCEPT !.status = "failed", !.lease = "none"])

(* The closing statement fails, which is ignored, or the process dies.     *)
CRMAbandon(w) ==
    /\ hand[w].pc # "idle"
    /\ Mishap
    /\ IF hand[w].pc = "complete" THEN Excuse(CRMJobOf(w)) ELSE UNCHANGED excuses
    /\ PutDown(w)
    /\ UNCHANGED <<crm, notes, archived>>

CRMWork(w) ==
    \/ ArchiveConversation(w) \/ CreateNote(w) \/ CRMCallFails(w) \/ CRMCallLost(w)
    \/ CompleteCRM(w) \/ RetryCRM(w) \/ FailCRM(w)

CrmNext ==
    \/ \E S \in SUBSET CRMJobs : InsertCRM(S)
    \/ \E j \in CRMJobs : CRMBecomesDue(j) \/ CRMLeaseExpires(j) \/ CRMOverrun(j)
    \/ \E w \in CRMWorkers, j \in CRMJobs : ClaimCRM(w, j)
    \/ \E w \in CRMWorkers : CRMWork(w) \/ CRMAbandon(w)

CrmSpec == CrmInit /\ [][CrmNext]_crmVars

(* Fairness, as of the outbound queue: calls have timeouts, claims go by   *)
(* available_at, clocks run.                                               *)
CrmFairness ==
    /\ \A w \in CRMWorkers : WF_crmVars(CRMWork(w))
    /\ \A j \in CRMJobs :
          /\ SF_crmVars(\E w \in CRMWorkers : ClaimCRM(w, j))
          /\ WF_crmVars(CRMBecomesDue(j))
          /\ WF_crmVars(CRMLeaseExpires(j))
-----------------------------------------------------------------------------
(* Properties.                                                             *)

CrmTypeOK ==
    /\ crm \in [CRMJobs -> CRMRow]
    /\ hand \in [CRMWorkers -> CRMHand]
    /\ \A w \in CRMWorkers : hand[w].pc = "idle" <=> hand[w].job = NoCRMJob
    /\ notes \in [CRMJobs -> Nat]
    /\ archived \in SUBSET Archives
    /\ excuses \in [CRMJobs -> Nat]
    /\ mishaps \in 0..MaxMishaps

(* "An idempotent CRM action": a job makes one task or note, however often *)
(* it is carried out.                                                      *)
OneNotePerJob == \A j \in CRMJobs : notes[j] <= 1

(* What the code keeps instead.  A job that is done has its note, and an   *)
(* archived conversation before it; and claims, retries and overtaking     *)
(* workers do not multiply notes: each beyond the first has a reason of    *)
(* its own, an answer that was lost, a worker that died or could not write *)
(* after the note, or one that outlived its lease.                         *)
NotesAreExplained ==
    \A j \in CRMJobs :
        /\ crm[j].status = "done" => notes[j] > 0
        /\ j \in Archives /\ notes[j] > 0 => j \in archived
        /\ notes[j] <= 1 + excuses[j]

(* If steps are fair every job is done or given up in the end, and stays   *)
(* so.                                                                     *)
EveryCRMJobEnds ==
    CrmFairness =>
        \A j \in CRMJobs : crm[j].status = "queued" ~> [](crm[j].status \in CRMEnds)
=============================================================================
