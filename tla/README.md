# Verification of the HighLevel/Telnyx bridge

TLA+ models of this repository's program (Go, PostgreSQL), the TLC
configurations that check them and the proofs TLAPS checks. File names without a
directory are in `src/internal` unless the text says otherwise; line numbers are those of
`PROJECT.json`, whose `map` names the code of every definition.

## 1. The system

One API process (`cmd/api`) answers webhooks and HTTP requests. Any number of
worker processes (`cmd/worker`) each run four loops: `RunWorker`,
`RunWorkflowWorker`, `RunCRMWorker` and `RunInboundWorker`. They share nothing but
PostgreSQL. Outside are the provider (Telnyx) and the CRM (HighLevel), reached by HTTP
with timeouts; both deliver webhooks at least once, in any order.

| Component | State | Operations | Talks to |
|---|---|---|---|
| Outbound queue (`store/store.go`, `RunWorker`) | `outbound_jobs`: status, attempts, available_at, locked_until, provider id | Enqueue, Claim, Complete, Retry, Fail; cancelled by Suppress | HighLevel webhook and workflow engine insert; Telnyx `Send` |
| Suppressions and pause switch | `suppressions`, `settings.sending_paused` | Suppress, IsSuppressed, SetSendingPaused | Telnyx webhook, worker, engine, operator |
| Workflow engine (`workflow/`, `store/workflows.go`, `RunWorkflowWorker`) | `workflow_enrollments`: state, next_run_at, sent_count, locked_until | enroll, claim, Advance, Reply, ApplyWorkflowCommands, RetryWorkflow, FailWorkflow | inserts outbound and CRM jobs; called by inbound messages |
| Inbound messages (`App.telnyx`, `RunInboundWorker`) | `inbound_messages`: processed_at, failed_at, attempts, locked_until | RecordInbound, processInbound, claim, retry, fail | suppressions, engine replies, HighLevel DND and conversation |
| Delivery reports | `delivery_events`, same columns | UpdateDelivery, syncDelivery, claim, retry, fail | looks up `outbound_jobs`, HighLevel message status |
| Workflow rate limits | `workflow_rate_limits`: next_allowed_at, batch_remaining | reserveWorkflowRate | called by ApplyWorkflowCommands |
| Pure rules | none | nextAllowed, deterministicVariant, classifyReply, SelectSendingNumber, normalizeUSNumber | called by the engine and the worker |
| CRM jobs (`store/crm.go`, `RunCRMWorker`) | `crm_jobs` | claim, complete, retry, fail | engine inserts; HighLevel notes and tasks |
| OAuth tokens (`store/oauth*.go`, `provider/tokensource.go`) | `oauth_tokens`, `oauth_states` | connect, refresh under a row lock, single-use states | HighLevel |
| Voice provisioning (`app/voice.go`) | none here; profile, connection and credential at the provider | find or create each | provider |
| Migrations (`migrations/migrate.go`, outside `internal`) | `schema_migrations`, an advisory lock | Apply, at every start of an API or worker process | PostgreSQL |
| Signal Desk | `inbound_messages.signal_desk_resolved_at` | promote a message of an unknown sender, forward webhooks | HighLevel, Signal Desk |
| Admin status, webhook verification, configuration | none | see `PROJECT.json` | |

What is hard here:

* Leases. Every loop claims a row by setting `locked_until` 2 or 5 minutes ahead
  and then works without a transaction. Whoever is slower than its lease is
  overtaken, and the closing statements address the row by id alone.
* Reads used later. `RunWorker` reads the pause switch, then the suppression, then
  sends; a STOP or a pause can come in at any point of that. The workflow worker
  advances a copy of a row and writes the copy back.
* Failure in the middle. A process can die between any two statements, a call
  can take effect although its answer is lost, a commit can be reported as failed.
* At-least-once webhooks, handled by the API process and by workers at once.
* Progress: no job, enrollment, message or report may be stuck for ever.

What makes each component correct:

* Outbound queue: a message is with one worker at a time, reported sent only if the
  provider took it, final once settled, settled in the end; STOP and pause are
  passed by no more than the message already in flight.
* Workflow engine: occurrences go out once each, in order, bounded, a repeat
  interval apart; a closed enrollment sends nothing; one outcome for the CRM.
* Inbound: a STOP suppresses and reaches HighLevel; a message is forwarded once; all
  messages end. Delivery: a report is passed on once; all end; final stays final.
* Rate limits: texts go out in turn, no more than a batch in a period, inside the
  contact's window. CRM jobs: done once, or given up.
  Tokens: the refresh token is used once, by one process, and never lost.
* Voice: one set of resources. Migrations: a process runs on the whole schema, and does
  not fail because another starts.

`PROJECT.json` lists every hazard found in the code at its line, and the
properties that cover it.

## 2. Modules

| Module | Models | Proofs |
|---|---|---|
| `OutboundQueue` | the outbound queue, the suppressions and the pause switch, with all writers at once | `OutboundProofs` |
| `Outbox` | abstract: what the queue promises to those who put messages into it | |
| `Enrollments` | the workflow engine and the replies that close enrollments | `EnrollmentsProofs` |
| `Campaign` | abstract: what the engine promises for one enrollment | |
| `Inbound` | `message.received`: webhook handler, `processInbound`, worker | `InboundProofs` |
| `Delivery` | `message.sent` and `message.finalized`: handler, `syncDeliveryEvent`, worker | `DeliveryProofs` |
| `Inbox` | abstract: what both tables of provider events promise | |
| `TokenStore` | the OAuth row of a location: calls that refresh it, installations that replace it | `TokenProofs` |
| `SendTimes` | sending window and rate limit: when the texts of a workflow go out | `SendProofs` |
| `CrmQueue` | `crm_jobs` and the worker that makes tasks and notes of them | `CrmProofs` |
| `VoiceSetup` | provisioning of the browser telephone | `SetupProofs` |
| `Migrations` | processes that start and bring the schema up to date | `SetupProofs` |
| `Loops` | `Enrollments` and `OutboundQueue` (an `INSTANCE` with its variables renamed), the two loops of a worker process that work under leases | |
| `Parts` | `SendTimes`, `CrmQueue`, `TokenStore`, `VoiceSetup` and `Migrations` | `SetupProofs` |
| `MCOutbound`, `MCEnrollments`, `MCLoops`, `MCInbound`, `MCDelivery`, `MCParts` | instances for TLC | |

What is put together in `Loops` and in `Parts` shares no row, so each behaviour there is one
of a single part (`loop`, `part`), and the state space is the sum of the parts' and not the
product. In `Loops` the engine's insert of a message is `EnqueueWorkflow` of the queue, which
the queue has at any time anyway.

Conventions. One SQL statement, or one transaction, is one action, and so is one
HTTP call; everything else may happen between two of them. A process
is a record of where it is (`pc`) and what it holds; what it holds is a copy, as in
the code. A step that the code takes without touching shared state is folded into
the next one. A definition named `X_Something` after `X` is a plausible bug in `X`,
kept so that the properties can be seen to fail on it (`mutants` in `PROJECT.json`).

Time is two facts about a row: has `available_at`/`next_run_at` passed, and has the
lease passed. An action lets either happen at any moment. Two consequences:
clocks of Go and of PostgreSQL are not distinguished, and durations are not
compared with each other, except that `Enrollments` tells a repeat interval from a
retry's minute. The exception is `SendTimes`, which is about times and counts them.

**OutboundQueue.** `row` is `outbound_jobs`. `Enqueue` is the insert of the
HighLevel webhook, `EnqueueWorkflow` that of the engine; neither looks at
suppressions, which the code leaves to the worker. `StopInsert` and `StopCancel` are
the two statements of `Store.Suppress`; `WorkflowStop` is the engine's suppression,
one transaction. A worker goes `idle` → `claimed` (`Claim`) → `unpaused`
(`SendingPaused`) → `cleared` (`IsSuppressed`) → one of the outcomes of `Send` →
`Complete`, `Retry` or `Fail`. `SendLost` is a message the provider took whose
answer did not come back; the code takes it for a transient error. A store error
during the two reads leads to `Retry`; during `Complete`, `Retry` and `Fail` it is
ignored and the row keeps its lease. The provider is a set, `accepted`: repeated
sends carry the same idempotency key. `lateSends` and `pausedSends` are history
variables that note what the tables said at the moment the provider took a
message. `resolveSendingNumber` makes no call here, because `Claim` does not return
the contact's id.

**Enrollments.** All enrollments of a model are those of one conversation, the only
ones a reply makes meet. Each is for a workflow of a kind chosen at the start.
`Advance` returns the set of plans the code may make of a copy (window open or
closed); `Write` is the transaction of `ApplyWorkflowCommands`, whose only
precondition is that the row is locked by somebody. `jobs` is the set of occurrence
numbers inserted into the outbound queue, whose message id is derived from the
number; a second insert of the same number is void. `Arrive` to `MarkProcessed` is
`applyWorkflowReply` with the claim and the mark of the message around it.
`Apply` with a lost commit is a transaction that is reported as failed, which
the code follows by `RetryWorkflow`. Every key that can be enrolled is in the
catalog of every configuration, so the branch for a missing definition is the one for a
disabled workflow. CRM action names of a reply are one value, `"reply"`. Seen from outside,
an enrollment is a `Campaign`: `Phase` forgets how the row is waiting, `jobs` are the messages
sent and `Outcome` what was left for the CRM; leases, copies and retries are not seen.

**Inbound, Delivery.** A handler and a worker run the same procedure
(`Process`), with different ends (`AfterError`). HighLevel is the variables marked
external; every call to it may fail before or after it took effect. In `Inbound`,
`LookupFails` is `acceptsInbound` taking an error of the number look-up for "not
ours". `ApplyWorkflowReply` is one step here, since its effects are those of
`Enrollments`. In `Delivery`, `Complete` is the outbound worker storing
the provider's id, at any time or never. Both modules take HighLevel to be configured.
A lease runs out by `LeaseExpires` when nobody has the event in hand any more, or by
`Overrun` under the hands of a process: several calls of up to 15 seconds, each possibly
twice, can take longer than 2 minutes. `Overrun` happens to events outside the constant
`Timely` only. `lost` is a history variable: the runs of each event that handled it and
could not note it, and the leases outlived.

**TokenStore.** A call (`HighLevelClient.doJSON`) reads the row (`Token`), refreshes
it if it is about to expire, makes its request, and on HTTP 401 refreshes and tries
once more. A refresh is `ReplaceOAuthToken`: one transaction that locks the row
(`LockRow`), asks HighLevel (`Refresh`) and writes (`ReplaceOAuthToken`); `lock` is the
row lock, held over the HTTP call. `SaveOAuthToken` of an installation is an upsert,
which waits for that lock too. HighLevel is the variables marked external; the
repository does not say what it does with a refresh token that it has answered with
another one, and the model takes the worse case: the old one is used up. An answer
without a refresh token leaves the old one valid, which is how the code takes it.
Refresh tokens are numbers in the order of issue, 0 the empty string.
Access tokens are not told apart: HighLevel may answer any call with 401.
`broken` is a history variable: a token was issued and its answer, or the write that
follows, was lost. Left out: an answer that names another location, and the
configured token that serves as long as there is no row.

**SendTimes.** `clock` counts ticks, `Day` of them a day; each contact's zone is a
number of ticks. `Advance` and `Postpone` are the two outcomes of the engine's
`Advance` for a due enrollment, in its window or outside; `NextAllowed` is
`nextAllowed`. `LockLimit`, then `Reserve`, is `reserveWorkflowRate` inside the
transaction of `ApplyWorkflowCommands`: the row is inserted if there is none and
locked, read, and written; `Batch` and `Rest` are its arithmetic. A transaction may
wait for the row while time passes, and may be rolled back. `text` records, as history,
when the time of a text was reserved, and which reservation that was (`turn`).
Leases and retries of enrollments are left to `Enrollments`, which in turn has the
window as a choice.

**CrmQueue.** `InsertCRM` is the insert of the engine's transaction, `ClaimCRM`,
`CompleteCRM`, `RetryCRM` and `FailCRM` are the statements of the store. `ExecuteCRM` is one
call with an effect, or two for `archive_conversation`, which marks the conversation and
then makes its note. Any call may fail without effect, or take effect and lose its answer.
There is no idempotency key, so `notes` counts; `excuses` is a history variable that
counts, for each job, what the code cannot help: an answer lost, a worker that died or
could not write after its note, a lease outlived. Because overtaken workers are excused,
the properties need no assumption on leases.

**VoiceSetup.** A caller is a request to `/signal-desk/voice/provision`, and when that
has ended the next one. `Look` is `findTelnyxResource`, `Create` is
`createTelnyxResource`, `Breaks` any call that fails or loses its answer. A
resource is known by its kind and its creator, which is what the property is about.

**Migrations.** `Lock`, `Check`, `ApplyFile` and `Run` are the steps of `Apply`; a file's
transaction is one step, since nobody sees a part of it. `effective` is what is in the
schema, `recorded` what `schema_migrations` says: they differ where `compose.yaml` has run
the files by `psql`, which records nothing. `Exit` is a failing statement, a lost commit
or a crash, all of which end the session and with it the advisory lock.

## 3. What is checked

Passing runs; every property has a mutant that TLC finds violating it.

| Run | Instance | Shows |
|---|---|---|
| `outbound_stalled` | 2 jobs of one number, 2 workers, 2 faults, workers may outlive leases | `TypeOK`, `SentWasAccepted`, `OneLateSendPerWorker`, `OnePausedSendPerWorker` |
| `enrollments_stalled` | 1 enrollment of any kind, 2 workers, 2 repliers, 2 faults, 1 lost commit, stalls | `TypeOK`, `OccurrencesInOrder`, `OneOutcome`, `ClosedSendsNothing`, `ImplementsCampaign` |
| `loops_timely` (outbound) | 2 jobs of one number, 2 workers, 1 fault, no stalls | `ExclusiveClaim`, `ImplementsOutbox`, `EveryJobSettles` |
| `loops_timely` (workflow) | a recurring enrollment and a single message, 2 workers, 1 reply, 1 fault, no stalls | `SentIsExact`, `ExclusiveEnrollment`, `RepeatsAreApart`, `WorkflowsProgress` |
| `inbound` | a STOP and another message of one sender to two lines, 2 handlers, 1 worker, 1 fault, the STOP timely, the other not, fair | `TypeOK`, `MainLineStopIsSuppressed`, `StopReachesHighLevel`, `ForwardedOnce`, `ImplementsInbox`, `EveryMessageEnds` |
| `delivery` | the two reports of a message, 2 handlers, 1 worker, 2 faults, one report timely, the other not, fair | `TypeOK`, `ToldOnce`, `ImplementsInbox`, `EveryReportEnds` |
| `parts` (texts) | 3 texts in two time zones, 2 planners, batches of 1 and of 2, 1 rollback | `TypeOK`, `TextsInTurn`, `HeldBackOnlyByOthers`, `SleepsUntilOpening` |
| `parts` (CRM) | a note and an archive job, 2 workers, 2 mishaps | `NotesAreExplained`, `CRMJobsEnd` |
| `parts` (tokens) | 2 calls, 2 callbacks, 2 states, 4 refresh tokens, 1 fault | `ReadIsCurrent`, `NoUsedTokenPresented`, `StaysConnected`, `SingleUseState`, `CallsEnd` |
| `parts` (voice) | 3 callers | `OneSetPerCaller` |
| `parts` (migrations) | 3 processes, 3 files, 2 failures | `StartsOnWholeSchema` |

"Timely" means that nobody holds a row for longer than its lease. The code tries to
ensure that by HTTP timeouts but does not enforce it; the "stalled" runs say what
remains true without it: stale writers can repeat and undo work in `outbound_jobs`,
but never invent a delivery, and never pass a STOP twice; a stale copy of an
enrollment can turn `sent_count` back, but the occurrence number and
`locked_until IS NOT NULL` together still keep messages unique, in order and
silent after closing (`LockedIsActive` is why), so that each enrollment is still a
`Campaign`. `inbound` and `delivery` have an event of either sort: one that is overtaken
costs at most one more copy each time (`ForwardedOnce`, `ToldOnce`), and it alone may be
done and a dead letter both, which is why `ImplementsInbox` is about the `Timely` ones.

Violations, each a disagreement of the code with a sentence of its documents
(`findings` in `PROJECT.json`):

| Run | Property | What happens |
|---|---|---|
| `enrollments_reply` | `StopOnAnyReply` | A reply is processed while the workflow worker has the enrollment: `ClaimWorkflowsForReply` skips it, the reply is marked processed and the workflow keeps sending. |
| `inbound_stop` | `AckedStopIsSuppressed` | A STOP to a line other than `FromNumber` whose look-up fails is answered 202 and forgotten. |
| `delivery_final` | `FinalStatusStays` | A `message.sent` report that is passed on late overwrites delivered or failed with pending. |
| `rate_limit` | `RateLimit` | "7/minute" is a batch of 7 that starts anew with every text planned later than the one before: a steady flow is not limited. |
| `quiet_hours` | `QuietHours` | Of two texts planned inside the window the rate limit puts the second off past its end, and nothing looks at the window again. |
| `crm_repeats` | `OneNotePerJob` | HighLevel makes a task or note, its answer is lost, and the retry makes another. |

Beside three of these, a passing run checks what the code does keep: `TextsInTurn` and
`HeldBackOnlyByOthers` of the rate, `SleepsUntilOpening` of the window, `NotesAreExplained`
of the CRM jobs: a further note has always an answer lost, a crash, a failed statement or an
outlived lease of its own behind it, and never a mere race for the job.

A worker that outlives its lease can also put a sent row back into the queue:
another one claims the job and completes it, and the first meets a failed send, or a
pause, and calls `Retry`. No document promises the contrary; the message is sent again
under the same idempotency key. That a settled job keeps its status (`SettledIsFinal`, which
`Outbox` implies) is therefore proved for timely workers only. Further oddities of the code that no run is about: `Claim` does not return the
contact's id, so that the contact's own `SMS From Number` is never looked up by the
worker; attempts are counted at every claim, also those that only met a pause.

### Bounds

* `RetryLimit = 2`, `MaxAttempts = 2` (5 in the code): there is a first attempt
  that is retried and a last one that is not; the numbers are only compared with the
  limit, so attempts saturate there.
* `MaxOccurrences = 2` (12 in the catalog): one repeat and the end.
* `MaxFaults` bounds crashes, failed store calls and, in `Inbound` and `Delivery`, outlived
  leases, `MaxLostCommits` commits
  reported as failed. One fault gives an abandoned row and its recovery;
  two give a fault during recovery. The liveness properties hold for finitely many
  faults only: a job that kills its worker each time is retried for ever.
* Two processes of each kind give every race the code has between equals. Two
  jobs of one number are what a STOP must catch together; one number suffices
  because statements about different numbers touch disjoint rows. Jobs are not
  symmetric in `loops_timely`, where liveness is checked; processes are
  symmetric where only safety is.
* `MaxTokens = 4` in `parts`: two installations and two rotations, so that a
  rotation can come before, between or after installations. Calls and callbacks start
  over without bound.
* `Day = 4` and a window of two ticks: before it, in it and after it are all
  different, and the zones put the contacts on both sides of its edges. `MaxTime = 4`
  reaches the window of the next day. Periods of 2 and 3 ticks make a batch be used
  up, a batch be left over, and a wait lead out of the window. `MaxRollbacks = 1` is a
  transaction undone while another waits for its row. Three texts are a batch of two
  and the next one.
* `CRMRetryLimit = 2` and two jobs, of which one has two steps. `MaxMishaps = 2`: one
  while another is being recovered from. `MaxBreaks = 2` likewise; three files have a
  first, a middle and a last one. The deadlock check is off in `parts` and the
  runs of its violations: the clock stops at its bound, jobs that are done stay done, and
  states are used or expire for good.
* In `quiet_hours` the clock ends before the window does, so that nothing but the rate limit
  takes a text out of it; in `crm_repeats` no process dies and no store call fails.
* HTTP errors are 400, 429 and 500, codes 40300 and another: one of each class of
  `ClassifyProviderError`.

### Fairness

In `Inbound` and `Delivery` it is part of the specification (`FairSpec`); in `Loops` and
`Parts`, whose behaviours are each of one component, it is the premise of the component's
liveness property (`Fairness => ..`).

* Weak, on the steps of a process that holds a row: its calls have timeouts, so it
  goes on; on time passing (`BecomesDue`, `LeaseExpires`).
* Strong, on claiming each row: claims are ordered by `available_at`, `next_run_at` or
  `created_at`, so a row that is ready again and again is overtaken by finitely many.
* Strong, on locking the token row: PostgreSQL serves those who wait for a row
  in turn. Weak, on the other steps of a call.
* Strong, on an enrollment's send when it is claimed again and again
  (`Enrollments`): a copy found outside the window comes back when it opens.
* In `CrmQueue` as in the outbound queue: weak on a worker's steps, on
  `available_at` and on an abandoned lease passing, strong on claiming each job.
* None on arrivals, redeliveries, STOPs, the operator, `Complete` in `Delivery`, or on
  the success of any external call.

`EveryJobSettles` supposes that sending is not paused again and again: while it is
paused each claim is followed by `Retry`. `EnrollmentsProgress` (`WorkflowsProgress` of the
run) supposes that the workflow stays enabled.

## 4. What is proved

`OutboundProofs`, for all jobs, numbers, workers, limits and numbers of faults,
from `OutboundAssumption` alone:

| Theorem | States | From |
|---|---|---|
| `TypeCorrect` | `TypeOK` | inductive |
| `LeaseTheorem` | `LeaseIffSending` | inductive with `TypeOK` |
| `SentTheorem` | `SentWasAccepted` | `SentInv`: a worker about to `Complete` holds an accepted job |
| `LateTheorem` | `OneLateSendPerWorker` | `LateInv`: a worker that has passed a suppressed number once can be `cleared` for it no more, because a suppression is never removed |
| `PauseTheorem` | `OnePausedSendPerWorker` | `PauseInv`: likewise, with the count reset by every switch |
| `LeasedTheorem` | `HolderHasLease`, `ExclusiveClaim` | `LeasedFor(j)` of every job, if `~StallsPossible` |
| `OutboxTheorem` | `ImplementsOutbox` | every step is a step of `Outbox` or invisible, given `SentInv` and `HolderHasLease` |
| `SettledTheorem` | `SettledIsFinal` | `OutboxTheorem`: no step of `Outbox` leaves a settled phase |
| `JobLeasedTheorem` | `LeasedFor(j)`: the job is with one worker at a time, `sending` under a live lease | inductive with `TypeOK`, if no step is against `NoOverrun(j)` |
| `JobOutboxTheorem` | `One(j)!Spec`: `Outbox` of this one job | every step is a step of it or invisible, given `SentInv` and `LeasedFor(j)` |
| `JobSettledTheorem` | the job keeps its status once it is settled | `NextPhaseMove`: what a step can do to the phase of a job |

The last three say more than the three before them. `~StallsPossible` is an assumption
about all workers and all jobs, and nothing in the code measures a worker's time against
its lease; `NoOverrun(j)` is about one job: the lease of `j` does not run out under a worker that has `j`. It is
a condition on the steps of the behaviour, `[][NoOverrun(j)]_vars`, so a behaviour in
which every other job is overrun is covered: a stall harms only the job it stalls on.

Each invariant alone is too weak: `SentWasAccepted`, for instance, says nothing
of a worker between the provider's answer and `Complete`, so the step `Complete`
could not be shown to preserve it; the strengthening says what the workers' `pc` implies
about the tables. The proofs go through two kinds of lemmas: `RowWriters` says which
actions write a row at all, so that an invariant about rows is proved against
ten effects instead of all actions; frame lemmas say what a history variable
needs to change. The invariants that talk about a history variable do not need
`HolderHasLease`: they hold with stalled workers, which is what makes them
worth having.

`TokenProofs`, for all calls, callbacks, states and bounds, from `TokenAssumption`:

| Theorem | States | From |
|---|---|---|
| `TokenTypeCorrect` | `TokenTypeOK` | inductive |
| `ReadTheorem` | `ReadIsCurrent` | inductive with `TypeOK`: every writer of the row needs the lock |
| `ConnectedTheorem` | `StaysConnected` | `GoodInv`, with `IssuedInv` and `ReadIsCurrent` |
| `UsedTokenTheorem` | `NoUsedTokenPresented` | `GoodInv`: what a call has read is what the row holds |
| `StateTheorem` | `SingleUseState` | `UseInv`: a state has been exchanged at most once, and only if it is used |

`StaysConnected` alone does not survive a rotation: the token HighLevel uses up must
be the row's and nobody else's. `GoodInv` therefore adds that the tokens in the row,
with the one call that is writing and with the callbacks that are saving are distinct
and valid; `IssuedInv`, that a new token is new to all of them.

`EnrollmentsProofs`, for all enrollments, workers, repliers, kinds and bounds, from
`EnrollmentsAssumption`:

| Theorem | States | From |
|---|---|---|
| `TypeCorrect` | `TypeOK` | inductive |
| `LockedTheorem` | `LockedIsActive` | inductive with `TypeOK`: whoever closes a row unlocks it |
| `ClosedTheorem` | `ClosedSendsNothing` | `LockedIsActive`: `Write` needs a lock, a closed row has none |
| `OrderTheorem` | `OccurrencesInOrder` | `OrderInv`: no copy in any process is ahead of what was sent |
| `OutcomeTheorem` | `OneOutcome` | inductive with `LockedIsActive`: what is written is an active row, which has no outcome yet |
| `CampaignTheorem` | `ImplementsCampaign` | `CampaignInv`: `TypeOK`, `LockedIsActive`, `OrderInv`, `OneOutcome` and `HeldInv` (nobody works on a row that is not there, and a manual enrollment sends nothing); every effect of `StepShape` is a step of `Campaign` or invisible |
| `PromiseTheorem` | `Promise(e)!Spec` for each `e` | the same, one enrollment at a time |
| `ExclusiveTheorem` | `ExclusiveEnrollment` | `ClaimFor(e)` of every enrollment: who has a copy has the row's live lease, alone; if `~StallsPossible` and `MaxLostCommits = 0` |
| `SentTheorem` | `SentIsExact` | `FreshFor(e)`: every copy counts what the row counts; under the same assumptions |
| `RepeatsTheorem` | `RepeatsAreApart` | `RestFor(e)`: until it has rested an enrollment is not due and in no worker's hands; likewise |
| `OneClaimTheorem`, `OneSentTheorem`, `OneRepeatsTheorem` | the same of one enrollment `e`, for the first `ClaimFor(e)` itself | the same, if no step is against `Undisturbed(e)` |

The first seven hold with stale writers and lost commits. That is the point of
them: the code has no version column, and they show that "the row is locked" and the
derived message id do its work. The last row needs less than the three above it:
`Undisturbed(e)` says of a step that it neither lets the claim of `e` run out under a
process that has a copy of `e`, nor reports a commit of `e` as failed. Of a reply that
holds all enrollments of a contact, or a worker stalled on one, only the
enrollments it is late with can be sent twice in an interval. `StepShape` says that every step keeps a row, writes it
by a plan, or claims it, and that copies only come from rows; the invariants follow it.

`InboundProofs` and `DeliveryProofs`, for all messages, senders, finitely many processes and all
bounds, from `InboundAssumption` and `DeliveryAssumption` alone, whatever events are timely:

| Theorem | States | From |
|---|---|---|
| `TypeCorrect` (each) | `TypeOK` | inductive |
| `StopSuppressedTheorem` | `MainLineStopIsSuppressed` | `StopInv`: a handler that is about to answer 202 has suppressed the sender; suppressions stay |
| `StopReachesTheorem` | `StopReachesHighLevel` | `StopInv`: who is past the DND step of a STOP has set it |
| `ForwardedOnceTheorem`, `ToldOnceTheorem` | `ForwardedOnce`, `ToldOnce` | `ShareInv`, and `MarkInv`: what is marked, or about to be, has been handled |
| `InboxTheorem` (each) | `ImplementsInbox` | `HoldInv`: who holds a timely event has its live lease, alone, and the event is open; and `MarkInv` |

`ForwardedOnce` bounds a count, and the count alone does not say who may still raise it.
`ShareInv` does: the copies made of an event, the processes that have it in hand and have
yet to make theirs, and one more if it can be claimed, are at most one more than what was
lost. A claim turns the last of these into a process, a call that takes effect turns a process
into a copy, a crash or an outlived lease pays for what it makes possible. So the
bound needs no lease to be kept. The lemmas about cardinalities (`OneMore`, `OneLess`) rest on
there being finitely many processes.

`SendProofs`, for all texts, planners, rates, windows and zones, from
`SendTimesAssumption`; `CrmProofs` from `CRMAssumption`; `SetupProofs` from
`MigrationsAssumption`, and of the composition from all of these:

| Theorem | States | From |
|---|---|---|
| `TextTypeCorrect`, `CrmTypeCorrect`, `VoiceTypeCorrect`, `MigrationTypeCorrect` | the types | inductive |
| `TextsInTurnTheorem` | `TextsInTurn` | `TurnInv`: the row is never behind a time given out, and says how much of its batch is left; who has read it has it locked; a full batch leaves nothing before the next period |
| `HeldBackTheorem` | `HeldBackOnlyByOthers` | `LastInv`: the row's time is that of the last text, or a period later |
| `FirstOpening` | outside the window `NextAllowed` is the first time inside it | arithmetic of a day of any length, written out where the solver cannot divide by it |
| `WindowTheorem` | `SleepsUntilOpening` | inductive, with `FirstOpening`: a closed window that has not opened yet stays so as time passes |
| `NotesTheorem` | `NotesAreExplained` | `ShareInv`: the notes of a job, the workers still to make one, and one more if it can be claimed, are at most one more than its excuses |
| `OneSetTheorem` | `OneSetPerCaller` | `VoiceInv`: a caller about to create a kind has none of it, since it has looked later than it last created |
| `WholeSchemaTheorem` | `StartsOnWholeSchema` | `MigrationInv`: who is past the lock has it, and all files before its own are recorded |
| `PartsTypeCorrect`, `PartsTheorem` | `TypeOK` of `Parts`; every safety property of a part holds in the composition | `EachPart`: a behaviour of `Parts` is one of each part, a step of one being a stutter of the others |

Only model-checked is liveness, which is beyond the prover: `EveryJobSettles`,
`WorkflowsProgress`, `EveryMessageEnds`, `EveryReportEnds`, `CallsEnd` and
`CRMJobsEnd`. Every other property of a passing run is proved: the two of the queue in `loops_timely`
under `~StallsPossible`, the three of the engine there under `~StallsPossible` and
`MaxLostCommits = 0`, which is what that run is about, the rest from the assumptions on
the constants alone. The theorems about one job and one enrollment assume nothing of the
constants beyond that either, but of the behaviour, and of that job or enrollment only.

## 5. Not modelled, and the plan

Written first, because the system's promises rest on it: the path of an outbound
message. Then the engine that creates messages, the STOP path that must stop them,
the reports, the tokens every HighLevel call needs, and then the small parts: times, CRM
jobs, voice, migrations. Not modelled:

* `SelectSendingNumber`, `normalizeUSNumber`, `classifyReply`, `deterministicVariant` and
  `Render`: pure functions on strings, where a model would repeat the program; their
  own tests cover them. In the models, what a reply or a text says is a kind.
* Daylight saving: a contact's zone is constant in `SendTimes`. `nextAllowed` builds a
  local date and leaves the rest to Go's `time` package.
* Signal Desk: webhooks are forwarded by fire-and-forget HTTP. Promoting a message
  (`signalDeskConversations`, app.go:237-266) calls HighLevel and then sets
  `signal_desk_resolved_at`, which only hides the message from the unknown inbox and is read by
  no modelled step. A promotion that is repeated, or whose second step fails, puts the message
  into HighLevel again: `ForwardedOnce` is about what `processInbound` forwards, and says
  nothing of that copy.
* Signature and token verification (stateless), configuration, the HTTP formats of both
  clients, admin counts (read only). `delivery_events.job_id` is written and never read.
* The timing of the outbound queue: a pause or a retry can carry a text into the quiet
  hours as the rate limit does in `quiet_hours`. Only the latter is in a model.
* Lists of the provider beyond their first page: `findTelnyxResource` reads 100 entries, and
  `Listed` of `VoiceSetup` sees them all.

What could be added: a composition of `Inbound`, `OutboundQueue` and `Enrollments` around
one STOP. They meet in `suppressions` only, which each of them now treats as written
by anybody at any time.

## 6. Running

    tlc -workers 2 -config outbound_stalled.cfg MCOutbound
    for m in Outbound Enrollments Inbound Delivery Token Send Crm Setup; do
        tlapm ${m}Proofs.tla
    done

A run's module and configuration are in `PROJECT.json`. The longest run takes about
three minutes on two cores, the longest proof module a few minutes.
