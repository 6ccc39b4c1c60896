----------------------------- MODULE SendTimes -----------------------------
(***************************************************************************)
(* When the texts of one workflow go out.  A worker that finds an          *)
(* enrollment due looks at its contact's sending window: outside it the    *)
(* enrollment sleeps until the window opens; inside, the text is put into  *)
(* the outbound queue, at the time that workflow_rate_limits has free.     *)
(* The row of that table is locked while it is read and written.           *)
(*                                                                         *)
(* Time is counted in ticks, Day of them a day.  Claims, retries and       *)
(* leases of enrollments are in module Enrollments.                        *)
(***************************************************************************)
EXTENDS Integers

CONSTANTS
    Texts,         \* the enrollments of the workflow, with one text each
    Planners,      \* processes that run RunWorkflowWorker
    Nobody,        \* who has the row when nobody has
    NoText,        \* what an idle planner holds
    Rates,         \* Definition.Rate: BatchSize texts Per so many ticks
    Day,           \* ticks of a day
    Opens, Closes, \* Definition.Window, in ticks of the contact's day
    Zone,          \* each contact's time zone: ticks its clock is ahead
    MaxTime,       \* bound on the clock in a behaviour
    MaxRollbacks   \* bound on failed transactions in a behaviour

ASSUME SendTimesAssumption ==
    /\ Nobody \notin Planners /\ NoText \notin Texts
    /\ Rates \subseteq [batch : Nat \ {0}, per : Nat \ {0}]
    /\ Day \in Nat /\ Opens \in Nat /\ Closes \in Nat
    /\ Opens < Closes /\ Closes <= Day
    /\ Zone \in [Texts -> Nat]
    /\ MaxTime \in Nat /\ MaxRollbacks \in Nat

VARIABLES
    clock,    \* now
    rate,     \* the workflow's rate, the same for ever
    limit,    \* its row of workflow_rate_limits; left is batch_remaining
    locker,   \* the planner whose transaction has locked that row
    planner,  \* each planner: where it is, its text, and the row it has read
    text,     \* each text: its enrollment's next_run_at (run), its job's
              \*   available_at (at), and as history when that was reserved
              \*   (asked), and which reservation (turn) it was
    turns,    \* history: how many reservations there have been
    rollbacks \* how many transactions have failed

textVars == <<clock, rate, limit, locker, planner, text, turns, rollbacks>>
-----------------------------------------------------------------------------
Limit == [next : Nat, left : Nat]
NoLimit == [next |-> 0, left |-> 0]      \* there is no row yet

Plan == [pc : {"idle", "wait", "reserve"}, text : Texts \cup {NoText}, read : Limit]
Resting == [pc |-> "idle", text |-> NoText, read |-> NoLimit]

Text == [state : {"pending", "asleep", "planned", "reserved"},
         run : Nat, asked : Nat, at : Nat, turn : Nat]

TextInit ==
    /\ clock = 0
    /\ rate \in Rates
    /\ limit = NoLimit
    /\ locker = Nobody
    /\ planner = [w \in Planners |-> Resting]
    /\ text = [t \in Texts |-> [state |-> "pending", run |-> 0, asked |-> 0,
                                at |-> 0, turn |-> 0]]
    /\ turns = 0
    /\ rollbacks = 0

Tick ==
    /\ clock < MaxTime
    /\ clock' = clock + 1
    /\ UNCHANGED <<rate, limit, locker, planner, text, turns, rollbacks>>
-----------------------------------------------------------------------------
(* The sending window of a contact.                                        *)
Local(t, time) == (time + Zone[t]) % Day
Open(t, time)  == Local(t, time) >= Opens /\ Local(t, time) < Closes

(* Mutant: a window that has not opened yet is taken for one that is over. *)
NextAllowed_Tomorrow(t, time) == time - Local(t, time) + Day + Opens

(* Outside the window: when it opens next, today or tomorrow.              *)
NextAllowed(t, time) ==
    time - Local(t, time) + Opens + (IF Local(t, time) < Opens THEN 0 ELSE Day)

Due(w, t) ==
    /\ planner[w].pc = "idle"
    /\ text[t].state \in {"pending", "asleep"}
    /\ text[t].run <= clock

(* A due enrollment outside its window is written back with a later        *)
(* next_run_at.                                                            *)
Postpone(w, t) ==
    /\ Due(w, t)
    /\ ~Open(t, clock)
    /\ text' = [text EXCEPT ![t].state = "asleep", ![t].run = NextAllowed(t, clock)]
    /\ UNCHANGED <<clock, rate, limit, locker, planner, turns, rollbacks>>

(* One inside its window is advanced; its transaction begins.              *)
Advance(w, t) ==
    /\ Due(w, t)
    /\ Open(t, clock)
    /\ text' = [text EXCEPT ![t].state = "planned"]
    /\ planner' = [planner EXCEPT ![w] =
                     [pc |-> "wait", text |-> t, read |-> NoLimit]]
    /\ UNCHANGED <<clock, rate, limit, locker, turns, rollbacks>>
-----------------------------------------------------------------------------
(* reserveWorkflowRate.                                                    *)

(* The row as the transaction reads it; the first one has just made it.    *)
Current == IF limit = NoLimit THEN [next |-> clock, left |-> rate.batch] ELSE limit

(* Mutant: SELECT without FOR UPDATE.                                      *)
LockLimit_Shared(w) ==
    /\ planner[w].pc = "wait"
    /\ locker' = w
    /\ planner' = [planner EXCEPT ![w].pc = "reserve", ![w].read = Current]
    /\ UNCHANGED <<clock, rate, limit, text, turns, rollbacks>>

(* INSERT .. ON CONFLICT DO NOTHING, SELECT .. FOR UPDATE: either waits    *)
(* for a transaction that has the row.                                     *)
LockLimit(w) ==
    /\ planner[w].pc = "wait"
    /\ locker = Nobody
    /\ locker' = w
    /\ planner' = [planner EXCEPT ![w].pc = "reserve", ![w].read = Current]
    /\ UNCHANGED <<clock, rate, limit, text, turns, rollbacks>>

(* The batch that a reservation at the time now belongs to: a new one if   *)
(* the row's time has passed.                                              *)
Batch(read, now) ==
    IF read.next < now THEN [next |-> now, left |-> rate.batch] ELSE read

(* Mutants: the next batch is not filled; it is a period later for each    *)
(* text of the batch.                                                      *)
Rest_NotRefilled(batch) ==
    IF batch.left <= 1 THEN [next |-> batch.next + rate.per, left |-> batch.left - 1]
                       ELSE [next |-> batch.next, left |-> batch.left - 1]

Rest_PeriodEach(batch) ==
    IF batch.left <= 1
    THEN [next |-> batch.next + rate.batch * rate.per, left |-> rate.batch]
    ELSE [next |-> batch.next, left |-> batch.left - 1]

(* What is left of the batch, or the next one if nothing is.               *)
Rest(batch) ==
    IF batch.left <= 1 THEN [next |-> batch.next + rate.per, left |-> rate.batch]
                       ELSE [next |-> batch.next, left |-> batch.left - 1]

(* The transaction writes the row, puts the text's job into the queue and  *)
(* commits.                                                                *)
Reserve(w) ==
    LET t == planner[w].text
        batch == Batch(planner[w].read, clock)
    IN  /\ planner[w].pc = "reserve"
        /\ limit' = Rest(batch)
        /\ text' = [text EXCEPT ![t] =
                       [state |-> "reserved", run |-> text[t].run, asked |-> clock,
                        at |-> batch.next, turn |-> turns + 1]]
        /\ turns' = turns + 1
        /\ planner' = [planner EXCEPT ![w] = Resting]
        /\ locker' = IF locker = w THEN Nobody ELSE locker
        /\ UNCHANGED <<clock, rate, rollbacks>>

(* A statement fails or the process dies: the transaction is undone, and   *)
(* the enrollment is tried again, now or a little later.                   *)
Rollback(w) ==
    /\ rollbacks < MaxRollbacks
    /\ planner[w].pc # "idle"
    /\ rollbacks' = rollbacks + 1
    /\ \E later \in {0, 1} :
          text' = [text EXCEPT ![planner[w].text].state = "pending",
                               ![planner[w].text].run = clock + later]
    /\ planner' = [planner EXCEPT ![w] = Resting]
    /\ locker' = IF locker = w THEN Nobody ELSE locker
    /\ UNCHANGED <<clock, rate, limit, turns>>

TextNext ==
    \/ Tick
    \/ \E w \in Planners, t \in Texts : Postpone(w, t) \/ Advance(w, t)
    \/ \E w \in Planners : LockLimit(w) \/ Reserve(w) \/ Rollback(w)

TextSpec == TextInit /\ [][TextNext]_textVars
-----------------------------------------------------------------------------
(* Properties.                                                             *)

TextTypeOK ==
    /\ clock \in 0..MaxTime
    /\ rate \in Rates
    /\ limit \in Limit
    /\ locker \in Planners \cup {Nobody}
    /\ planner \in [Planners -> Plan]
    /\ \A w \in Planners : planner[w].pc # "idle" => planner[w].text # NoText
    /\ text \in [Texts -> Text]
    /\ turns \in Nat
    /\ rollbacks \in 0..MaxRollbacks

Reserved(t) == text[t].state = "reserved"

(* From a to c a whole batch, all of it at one time.                       *)
FullBatch(a, c) ==
    /\ Reserved(a) /\ Reserved(c)
    /\ text[c].turn + 1 = text[a].turn + rate.batch
    /\ text[a].at = text[c].at

(* However many workers reserve at once: times are given out in order, a   *)
(* batch never has more texts than its size, and after one that is full    *)
(* nothing goes out for a period.  With batches of one (1 text per second, *)
(* per 105 seconds, per 3 minutes) that keeps all texts apart.             *)
TextsInTurn ==
    /\ \A a, b \in Texts :
          Reserved(a) /\ Reserved(b) /\ text[a].turn < text[b].turn =>
              /\ text[a].at <= text[b].at
              /\ text[a].turn + rate.batch <= text[b].turn => text[a].at < text[b].at
    /\ \A a, b, c \in Texts :
          FullBatch(a, c) /\ Reserved(b) /\ text[c].turn < text[b].turn =>
              text[a].at + rate.per <= text[b].at

(* The limit holds nobody back for nothing: a text that has to wait is in  *)
(* the batch of the text before it, or in the next one.                    *)
HeldBackOnlyByOthers ==
    \A b \in Texts : Reserved(b) /\ text[b].at > text[b].asked =>
        \E a \in Texts : /\ Reserved(a)
                         /\ text[b].turn = text[a].turn + 1
                         /\ text[b].at \in {text[a].at, text[a].at + rate.per}

(* An enrollment found outside its contact's window wakes at the first     *)
(* opening, today's or tomorrow's by the contact's clock: it wakes inside  *)
(* the window, and the window stays closed until then.                     *)
SleepsUntilOpening ==
    \A t \in Texts : text[t].state = "asleep" =>
        /\ Open(t, text[t].run)
        /\ \A time \in clock..text[t].run - 1 : ~Open(t, time)

(* "Recipient-local send windows", "quiet hours": a text goes out only     *)
(* while its contact's window is open.                                     *)
QuietHours == \A t \in Texts : Reserved(t) => Open(t, text[t].at)

(* "One canonical template, 7/minute": no more than a batch of texts in    *)
(* any period.                                                             *)
RateLimit ==
    \A a, b \in Texts :
        Reserved(a) /\ Reserved(b) /\ text[b].turn = text[a].turn + rate.batch =>
            text[b].at >= text[a].at + rate.per
=============================================================================
