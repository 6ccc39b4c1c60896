------------------------------- MODULE Loops -------------------------------
(***************************************************************************)
(* The two loops of a worker process that claim rows by a lease:           *)
(* RunWorkflowWorker over workflow_enrollments (Enrollments) and RunWorker *)
(* over outbound_jobs (OutboundQueue).  A message the first one inserts is *)
(* EnqueueWorkflow of the second, which may happen at any time; they write *)
(* no row in common.  A behaviour here is one of a single loop.            *)
(***************************************************************************)
EXTENDS Enrollments

CONSTANTS Jobs, Numbers, NumberOf, NoJob, RetryLimit    \* as in OutboundQueue

VARIABLES
    job, suppressed, paused, stopping, sender, accepted, lateSends, pausedSends,
    slips,   \* the outbound queue: its row, wk and faults are job, sender and slips
    loop

queueVars == <<job, suppressed, paused, stopping, sender, accepted, lateSends,
               pausedSends, slips>>

Queue == INSTANCE OutboundQueue WITH row <- job, wk <- sender, faults <- slips

LoopInit ==
    /\ Init /\ Queue!Init
    /\ loop \in {"workflow", "outbound"}
    /\ loop = "outbound" =>
          \A e \in Enrollments : row[e].kind = CHOOSE k \in Offered[e] : TRUE

LoopNext ==
    /\ \/ loop = "workflow" /\ Next /\ UNCHANGED queueVars
       \/ loop = "outbound" /\ Queue!Next /\ UNCHANGED vars
    /\ UNCHANGED loop

LoopSpec == LoopInit /\ [][LoopNext]_<<vars, queueVars, loop>>
-----------------------------------------------------------------------------
(* Properties.  The queue's, as OutboundQueue states them: two workers     *)
(* never hold one job, and it implements Outbox.                           *)
ExclusiveClaim   == Queue!ExclusiveClaim
ImplementsOutbox == Queue!ImplementsOutbox

(* Fair behaviours of each loop end what they begin: every queued job      *)
(* settles, and every enrollment comes to its end.                         *)
EveryJobSettles  == loop = "outbound" => Queue!EveryJobSettles
WorkflowsProgress == loop = "workflow" => EnrollmentsProgress
=============================================================================
