----------------------------- MODULE SendProofs -----------------------------
(***************************************************************************)
(* Theorems about SendTimes, for any texts, planners, rates, windows, time *)
(* zones and bounds.  The argument: the lock makes what a reservation has  *)
(* read the current row (LockInv), and the row is always later than every  *)
(* time given out, or as late with room left in the batch (LimitInv).      *)
(* The second part is about windows: arithmetic of the contact's day shows *)
(* that NextAllowed is the first opening (FirstOpening), and no step but   *)
(* Postpone puts an enrollment to sleep (WindowStep).                      *)
(***************************************************************************)
EXTENDS SendTimes, TLAPS

(* What the actions assign are texts and plans.                            *)
LEMMA LaterTime ==
    ASSUME NEW t \in Texts, NEW time \in Nat
    PROVE  NextAllowed(t, time) \in Nat
<1>1. Day \in Nat /\ Day > 0 /\ Opens \in Nat /\ Zone[t] \in Nat
  BY SendTimesAssumption
<1>2. Local(t, time) \in 0..Day - 1
  BY <1>1 DEF Local
<1> QED  BY <1>1, <1>2 DEF NextAllowed

LEMMA CurrentType ==
    ASSUME rate \in Rates, limit \in Limit, clock \in Nat
    PROVE  Current \in Limit
  BY SendTimesAssumption DEF Current, Limit

LEMMA BatchType ==
    ASSUME rate \in Rates, NEW read \in Limit, NEW now \in Nat
    PROVE  Batch(read, now) \in Limit
  BY SendTimesAssumption DEF Batch, Limit

LEMMA RestType ==
    ASSUME rate \in Rates, NEW batch \in Limit
    PROVE  Rest(batch) \in Limit
  BY SendTimesAssumption DEF Rest, Limit

(* A rollback puts the planner's text back, to be due at once or later.    *)
LEMMA RollbackEffect ==
    ASSUME TextTypeOK, NEW w \in Planners, Rollback(w)
    PROVE  /\ planner[w].text \in Texts
           /\ text' \in [Texts -> Text]
           /\ text'[planner[w].text].state = "pending"
           /\ \A a \in Texts : a # planner[w].text => text'[a] = text[a]
<1>1. /\ planner[w] \in Plan /\ planner[w].pc # "idle" /\ planner[w].text # NoText
      /\ text \in [Texts -> Text] /\ clock \in Nat
  BY SendTimesAssumption DEF TextTypeOK, Rollback
<1>2. planner[w].text \in Texts
  BY <1>1 DEF Plan
<1>3. PICK later \in {0, 1} :
          text' = [text EXCEPT ![planner[w].text].state = "pending",
                               ![planner[w].text].run = clock + later]
  BY DEF Rollback
<1>4. text'[planner[w].text] =
          [text[planner[w].text] EXCEPT !.state = "pending", !.run = clock + later]
  BY <1>1, <1>2, <1>3
<1>5. \A a \in Texts : a # planner[w].text => text'[a] = text[a]
  BY <1>1, <1>3
<1>6. PICK r \in Text : r = text[planner[w].text]
  BY <1>1, <1>2
<1>7. PICK n \in Nat : n = clock + later
  BY <1>1
<1>8. PICK s : s = text'[planner[w].text]
  OBVIOUS
<1>9. s = [r EXCEPT !.state = "pending", !.run = n]
  BY <1>4, <1>6, <1>7, <1>8
<1>10. s \in Text /\ s.state = "pending"
  BY <1>9 DEF Text
<1> QED  BY <1>1, <1>2, <1>3, <1>5, <1>8, <1>10

LEMMA TextInitType == TextInit => TextTypeOK
<1> SUFFICES ASSUME TextInit PROVE TextTypeOK
  OBVIOUS
<1> USE SendTimesAssumption DEF TextInit
<1>1. limit \in Limit
  BY DEF NoLimit, Limit
<1>2. planner \in [Planners -> Plan] /\ \A w \in Planners : planner[w].pc = "idle"
  BY <1>1 DEF Resting, Plan
<1>3. text \in [Texts -> Text]
  BY DEF Text
<1>4. clock \in 0..MaxTime /\ rollbacks \in 0..MaxRollbacks /\ turns \in Nat
  OBVIOUS
<1>5. rate \in Rates /\ locker \in Planners \cup {Nobody}
  OBVIOUS
<1> QED  BY <1>1, <1>2, <1>3, <1>4, <1>5 DEF TextTypeOK

LEMMA TextNextType == TextTypeOK /\ [TextNext]_textVars => TextTypeOK'
<1> SUFFICES ASSUME TextTypeOK, [TextNext]_textVars PROVE TextTypeOK'
  OBVIOUS
<1> USE SendTimesAssumption DEF TextTypeOK
<1>1. clock \in Nat /\ rollbacks \in Nat
  OBVIOUS
<1>2. CASE UNCHANGED textVars
  BY <1>2 DEF textVars
<1>3. CASE Tick
  BY <1>3 DEF Tick
<1>4. ASSUME NEW w \in Planners, NEW t \in Texts, Postpone(w, t) PROVE TextTypeOK'
  <2>1. text' \in [Texts -> Text]
    <3>1. text' = [text EXCEPT ![t].state = "asleep", ![t].run = NextAllowed(t, clock)]
      BY <1>4 DEF Postpone
    <3>2. NextAllowed(t, clock) \in Nat
      BY <1>1, LaterTime
    <3>3. [text[t] EXCEPT !.state = "asleep", !.run = NextAllowed(t, clock)] \in Text
      BY <3>2 DEF Text
    <3> QED  BY <3>1, <3>3
  <2> QED  BY <1>4, <2>1 DEF Postpone
<1>5. ASSUME NEW w \in Planners, NEW t \in Texts, Advance(w, t) PROVE TextTypeOK'
  <2>1. text' \in [Texts -> Text]
    <3>1. text' = [text EXCEPT ![t].state = "planned"]
      BY <1>5 DEF Advance
    <3>2. [text[t] EXCEPT !.state = "planned"] \in Text
      BY <1>1 DEF Text
    <3> QED  BY <3>1, <3>2
  <2>2. [pc |-> "wait", text |-> t, read |-> NoLimit] \in Plan
    BY DEF Plan, Limit, NoLimit
  <2>3. planner' \in [Planners -> Plan]
    BY <1>5, <2>2 DEF Advance
  <2>4. \A v \in Planners : planner'[v].pc # "idle" => planner'[v].text # NoText
    BY <1>5 DEF Advance
  <2> QED  BY <1>5, <2>1, <2>3, <2>4 DEF Advance
<1>6. ASSUME NEW w \in Planners, LockLimit(w) PROVE TextTypeOK'
  <2>1. planner' \in [Planners -> Plan]
    <3>1. planner' = [planner EXCEPT ![w].pc = "reserve", ![w].read = Current]
      BY <1>6 DEF LockLimit
    <3>2. [planner[w] EXCEPT !.pc = "reserve", !.read = Current] \in Plan
      BY <1>1, CurrentType DEF Plan
    <3> QED  BY <3>1, <3>2
  <2>2. \A v \in Planners : planner'[v].pc # "idle" => planner'[v].text # NoText
    BY <1>6 DEF LockLimit, Plan
  <2> QED  BY <1>6, <2>1, <2>2 DEF LockLimit
<1>7. ASSUME NEW w \in Planners, Reserve(w) PROVE TextTypeOK'
  <2> DEFINE t == planner[w].text
             batch == Batch(planner[w].read, clock)
  <2>1. planner[w] \in Plan /\ planner[w].pc = "reserve"
    BY <1>7 DEF Reserve
  <2>2. t \in Texts /\ planner[w].read \in Limit
    BY <2>1 DEF Plan
  <2>3. batch \in Limit
    BY <1>1, <2>2, BatchType
  <2>4. limit' \in Limit
    BY <1>7, <2>3, RestType DEF Reserve
  <2>5. text[t] \in Text /\ batch.next \in Nat
    BY <2>2, <2>3 DEF Limit
  <2>6. text' \in [Texts -> Text]
    <3> HIDE DEF t, batch
    <3>1. text' = [text EXCEPT ![t] =
                       [state |-> "reserved", run |-> text[t].run, asked |-> clock,
                        at |-> batch.next, turn |-> turns + 1]]
      BY <1>7 DEF Reserve, t, batch
    <3> QED  BY <1>1, <2>2, <2>5, <3>1 DEF Text
  <2>7. Resting \in Plan
    BY DEF Resting, Plan, Limit, NoLimit
  <2>8. planner' \in [Planners -> Plan]
        /\ \A v \in Planners : planner'[v].pc # "idle" => planner'[v].text # NoText
    BY <1>7, <2>7 DEF Reserve, Resting
  <2> QED  BY <1>7, <2>4, <2>6, <2>8 DEF Reserve
<1>8. ASSUME NEW w \in Planners, Rollback(w) PROVE TextTypeOK'
  <2>1. planner[w].text \in Texts
    BY <1>8, RollbackEffect
  <2>2. text' \in [Texts -> Text]
    BY <1>8, RollbackEffect
  <2>3. Resting \in Plan
    BY DEF Resting, Plan, Limit, NoLimit
  <2>4. planner' \in [Planners -> Plan]
        /\ \A v \in Planners : planner'[v].pc # "idle" => planner'[v].text # NoText
    BY <1>8, <2>3 DEF Rollback, Resting
  <2> QED  BY <1>1, <1>8, <2>2, <2>4 DEF Rollback
<1> QED  BY <1>2, <1>3, <1>4, <1>5, <1>6, <1>7, <1>8 DEF TextNext

(* The types of everything in SendTimes; a planner at work has a text.     *)
THEOREM TextTypeCorrect == TextSpec => []TextTypeOK
  BY TextInitType, TextNextType, PTL DEF TextSpec
-----------------------------------------------------------------------------
(* Who is where: a text is with one planner at a time, and a reservation   *)
(* under way has the lock and has read the row as it still is.             *)
PlanInv ==
    /\ \A w \in Planners :
          planner[w].pc # "idle" => text[planner[w].text].state = "planned"
    /\ \A v, w \in Planners :
          planner[v].pc # "idle" /\ planner[w].pc # "idle"
          /\ planner[v].text = planner[w].text => v = w

LockInv ==
    \A w \in Planners : planner[w].pc = "reserve" =>
        /\ locker = w
        /\ planner[w].read.left \in 1..rate.batch
        /\ IF limit = NoLimit THEN planner[w].read.next <= clock
                              ELSE planner[w].read = limit

(* What the row says of the times given out so far.                        *)
LimitInv ==
    /\ limit = NoLimit => turns = 0
    /\ limit # NoLimit => limit.left \in 1..rate.batch
    /\ \A a \in Texts : Reserved(a) =>
          /\ text[a].turn \in 1..turns
          /\ text[a].at <= limit.next
          /\ text[a].at = limit.next => text[a].turn + rate.batch > turns + limit.left
    /\ \A a, c \in Texts : FullBatch(a, c) => text[a].at + rate.per <= limit.next

(* The row's time is that of the last text, or a period later.             *)
LastInv ==
    limit # NoLimit => \E a \in Texts : /\ Reserved(a)
                                        /\ text[a].turn = turns
                                        /\ limit.next \in {text[a].at, text[a].at + rate.per}

TurnInv == /\ PlanInv /\ LockInv /\ LimitInv /\ LastInv
           /\ TextsInTurn /\ HeldBackOnlyByOthers

LEMMA InitTurn == TextInit => TurnInv
<1> SUFFICES ASSUME TextInit PROVE TurnInv
  OBVIOUS
<1>1. \A w \in Planners : planner[w].pc = "idle"
  BY DEF TextInit, Resting
<1>2. \A a \in Texts : text[a].state = "pending"
  BY DEF TextInit
<1>3. limit = NoLimit /\ turns = 0
  BY DEF TextInit
<1>4. PlanInv /\ LockInv
  BY <1>1 DEF PlanInv, LockInv
<1> QED  BY <1>2, <1>3, <1>4
         DEF TurnInv, LimitInv, LastInv, TextsInTurn, HeldBackOnlyByOthers, Reserved, FullBatch

(* A step that reserves nothing and leaves what is reserved as it is.      *)
LEMMA NothingReserved ==
    ASSUME UNCHANGED <<rate, limit, turns>>,
           \A a \in Texts : Reserved(a)' <=> Reserved(a),
           \A a \in Texts : Reserved(a) => text'[a] = text[a],
           TurnInv
    PROVE  LimitInv' /\ LastInv' /\ TextsInTurn' /\ HeldBackOnlyByOthers'
<1>0. \A a, c \in Texts : FullBatch(a, c)' => FullBatch(a, c) /\ text'[a] = text[a]
                                             /\ text'[c] = text[c]
  BY DEF FullBatch
<1>1. LimitInv'
  BY <1>0 DEF TurnInv, LimitInv
<1>2. LastInv'
  BY DEF TurnInv, LastInv
<1>3. TextsInTurn'
  BY <1>0 DEF TurnInv, TextsInTurn
<1>4. HeldBackOnlyByOthers'
  BY DEF TurnInv, HeldBackOnlyByOthers
<1> QED  BY <1>1, <1>2, <1>3, <1>4

LEMMA QuietTurn ==
    ASSUME TextTypeOK, TurnInv, [TextNext]_textVars,
           \A w \in Planners : ~Reserve(w)
    PROVE  LimitInv' /\ LastInv' /\ TextsInTurn' /\ HeldBackOnlyByOthers'
<1>1. UNCHANGED <<rate, limit, turns>>
  BY DEF TextNext, textVars, Tick, Postpone, Advance, LockLimit, Rollback
<1>2. ASSUME NEW a \in Texts
      PROVE  (Reserved(a)' <=> Reserved(a)) /\ (Reserved(a) => text'[a] = text[a])
  <2>1. text \in [Texts -> Text]
    BY DEF TextTypeOK
  <2>2. CASE UNCHANGED text
    BY <2>2 DEF Reserved
  <2>3. ASSUME NEW w \in Planners, NEW t \in Texts, Postpone(w, t) \/ Advance(w, t)
        PROVE  (Reserved(a)' <=> Reserved(a)) /\ (Reserved(a) => text'[a] = text[a])
    <3>1. CASE Postpone(w, t)
      BY <2>1, <3>1 DEF Postpone, Due, Reserved, Text
    <3>2. CASE Advance(w, t)
      BY <2>1, <3>2 DEF Advance, Due, Reserved, Text
    <3> QED  BY <2>3, <3>1, <3>2
  <2>4. ASSUME NEW w \in Planners, Rollback(w)
        PROVE  (Reserved(a)' <=> Reserved(a)) /\ (Reserved(a) => text'[a] = text[a])
    <3>1. planner[w].text \in Texts /\ text[planner[w].text].state = "planned"
      BY <2>4 DEF Rollback, TextTypeOK, Plan, TurnInv, PlanInv
    <3>2. /\ text'[planner[w].text].state = "pending"
          /\ a # planner[w].text => text'[a] = text[a]
      BY <2>4, RollbackEffect
    <3> QED  BY <3>1, <3>2 DEF Reserved
  <2> QED  BY <2>2, <2>3, <2>4 DEF TextNext, textVars, Tick, LockLimit
<1> QED  BY <1>1, <1>2, NothingReserved

LEMMA PlanStep ==
    ASSUME TextTypeOK, PlanInv, [TextNext]_textVars
    PROVE  PlanInv'
<1> USE DEF PlanInv, TextTypeOK
<1>1. CASE UNCHANGED textVars
  BY <1>1 DEF textVars
<1>2. CASE Tick
  BY <1>2 DEF Tick
<1>3. ASSUME NEW w \in Planners, NEW t \in Texts, Postpone(w, t) PROVE PlanInv'
  BY <1>3 DEF Postpone, Due, Plan
<1>4. ASSUME NEW w \in Planners, NEW t \in Texts, Advance(w, t) PROVE PlanInv'
  <2>1. planner' = [planner EXCEPT ![w] =
                      [pc |-> "wait", text |-> t, read |-> NoLimit]]
    BY <1>4 DEF Advance
  <2>2. \A v \in Planners : planner[v].pc # "idle" => planner[v].text # t
    BY <1>4 DEF Advance, Due
  <2>3. text' = [text EXCEPT ![t].state = "planned"]
    BY <1>4 DEF Advance
  <2>4. text'[t].state = "planned" /\ \A a \in Texts \ {t} : text'[a] = text[a]
    BY <2>3 DEF Text
  <2>5. \A v \in Planners : planner[v].pc # "idle" => planner[v].text \in Texts
    BY DEF Plan
  <2>6. planner'[w].text = t /\ \A v \in Planners \ {w} : planner'[v] = planner[v]
    BY <2>1
  <2> QED  BY <2>2, <2>4, <2>5, <2>6
<1>5. ASSUME NEW w \in Planners, LockLimit(w) PROVE PlanInv'
  <2>1. text' = text /\ planner[w].pc = "wait"
    BY <1>5 DEF LockLimit
  <2>2. planner' = [planner EXCEPT ![w].pc = "reserve", ![w].read = Current]
    BY <1>5 DEF LockLimit
  <2>3. \A v \in Planners : planner'[v].text = planner[v].text
                            /\ (planner'[v].pc # "idle" <=> planner[v].pc # "idle")
    BY <2>1, <2>2 DEF Plan
  <2> QED  BY <2>1, <2>3
<1>6. ASSUME NEW w \in Planners, Reserve(w) \/ Rollback(w) PROVE PlanInv'
  <2>1. planner' = [planner EXCEPT ![w] = Resting] /\ planner[w].pc # "idle"
    BY <1>6 DEF Reserve, Rollback
  <2>2. planner'[w].pc = "idle" /\ \A v \in Planners \ {w} : planner'[v] = planner[v]
    BY <2>1 DEF Resting
  <2>3. \A v \in Planners \ {w} : planner[v].pc # "idle" => planner[v].text # planner[w].text
    BY <2>1
  <2>4. \A a \in Texts \ {planner[w].text} : text'[a] = text[a]
    BY <1>6 DEF Reserve, Rollback
  <2>5. \A v \in Planners : planner[v].pc # "idle" => planner[v].text \in Texts
    BY DEF Plan
  <2> QED  BY <2>2, <2>3, <2>4, <2>5
<1> QED  BY <1>1, <1>2, <1>3, <1>4, <1>5, <1>6 DEF TextNext

LEMMA LimitLockStep ==
    ASSUME TextTypeOK, LockInv, LimitInv, [TextNext]_textVars
    PROVE  LockInv'
<1> USE SendTimesAssumption DEF LockInv, TextTypeOK
<1>1. CASE UNCHANGED textVars
  BY <1>1 DEF textVars
<1>2. CASE Tick
  BY <1>2 DEF Tick, Plan, Limit
<1>3. ASSUME NEW w \in Planners, NEW t \in Texts, Postpone(w, t) PROVE LockInv'
  BY <1>3 DEF Postpone
<1>4. ASSUME NEW w \in Planners, NEW t \in Texts, Advance(w, t) PROVE LockInv'
  BY <1>4 DEF Advance
<1>5. ASSUME NEW w \in Planners, LockLimit(w) PROVE LockInv'
  <2>1. \A v \in Planners : planner[v].pc # "reserve"
    BY <1>5 DEF LockLimit
  <2>2. planner' = [planner EXCEPT ![w].pc = "reserve", ![w].read = Current]
        /\ locker' = w /\ UNCHANGED <<clock, rate, limit>>
    BY <1>5 DEF LockLimit
  <2>3. planner'[w].read = Current /\ \A v \in Planners \ {w} : planner'[v] = planner[v]
    BY <2>2 DEF Plan
  <2>4. rate.batch \in Nat \ {0} /\ clock \in Nat
    OBVIOUS
  <2>5. Current.left \in 1..rate.batch
        /\ IF limit = NoLimit THEN Current.next <= clock ELSE Current = limit
    BY <2>4 DEF Current, LimitInv
  <2> QED  BY <2>1, <2>2, <2>3, <2>5
<1>6. ASSUME NEW w \in Planners, Reserve(w) PROVE LockInv'
  <2>1. \A v \in Planners \ {w} : planner[v].pc # "reserve"
    BY <1>6 DEF Reserve
  <2>2. planner' = [planner EXCEPT ![w] = Resting]
    BY <1>6 DEF Reserve
  <2> QED  BY <2>1, <2>2 DEF Resting
<1>7. ASSUME NEW w \in Planners, Rollback(w) PROVE LockInv'
  <2>1. planner' = [planner EXCEPT ![w] = Resting] /\ UNCHANGED <<clock, rate, limit>>
        /\ locker' = IF locker = w THEN Nobody ELSE locker
    BY <1>7 DEF Rollback
  <2> QED  BY <2>1 DEF Resting
<1> QED  BY <1>1, <1>2, <1>3, <1>4, <1>5, <1>6, <1>7 DEF TextNext
(* A reservation: its batch is read from the row as it is.                 *)
LEMMA ReserveTurn ==
    ASSUME TextTypeOK, TurnInv, NEW w \in Planners, Reserve(w)
    PROVE  LimitInv' /\ LastInv' /\ TextsInTurn' /\ HeldBackOnlyByOthers'
<1> DEFINE read == planner[w].read
           batch == Batch(read, clock)
<1> USE SendTimesAssumption
<1>0. PICK t \in Texts : t = planner[w].text
  BY DEF TextTypeOK, Reserve, Plan
<1>1. /\ t \in Texts /\ read \in Limit
      /\ clock \in Nat /\ turns \in Nat
      /\ rate.batch \in Nat \ {0} /\ rate.per \in Nat \ {0}
  BY DEF TextTypeOK, Reserve, Plan
<1>2. /\ limit' = Rest(batch) /\ turns' = turns + 1 /\ rate' = rate
      /\ text' = [text EXCEPT ![t] =
                     [state |-> "reserved", run |-> text[t].run,
                      asked |-> clock, at |-> batch.next, turn |-> turns + 1]]
  BY <1>0 DEF Reserve
<1>3. /\ read.left \in 1..rate.batch
      /\ IF limit = NoLimit THEN read.next <= clock ELSE read = limit
      /\ ~Reserved(t)
  BY <1>0 DEF Reserve, TurnInv, PlanInv, LockInv, Reserved
<1>4. /\ batch.next \in Nat /\ batch.left \in 1..rate.batch
      /\ batch.next > clock => read = limit /\ limit # NoLimit /\ batch = limit
  BY <1>1, <1>3 DEF Batch, Limit
<1>5. text \in [Texts -> Text]
  BY DEF TextTypeOK
<1>6. \A a \in Texts : text[a].turn \in Nat /\ text[a].at \in Nat /\ text[a].asked \in Nat
  BY <1>5 DEF Text
(* Every text reserved before is earlier than the batch, or in it.         *)
<1>7. ASSUME NEW a \in Texts, Reserved(a)
      PROVE  /\ text[a].turn \in 1..turns
             /\ text[a].at <= batch.next
             /\ text[a].at = batch.next => text[a].turn + rate.batch > turns + batch.left
             /\ limit # NoLimit /\ limit.next <= batch.next
  <2>1. turns > 0 /\ limit # NoLimit
    BY <1>1, <1>6, <1>7 DEF TurnInv, LimitInv
  <2>2. read = limit
    BY <1>3, <2>1
  <2>3. /\ text[a].turn \in 1..turns
        /\ text[a].at <= limit.next
        /\ text[a].at = limit.next => text[a].turn + rate.batch > turns + limit.left
    BY <1>7 DEF TurnInv, LimitInv
  <2>4. limit.next \in Nat /\ limit.left \in Nat
    BY <1>1, <2>2 DEF Limit
  <2> HIDE DEF batch, read
  <2>5. batch = IF limit.next < clock THEN [next |-> clock, left |-> rate.batch] ELSE limit
    BY <2>2 DEF batch, Batch
  <2>6. CASE limit.next < clock
    <3>1. batch.next = clock
      BY <2>5, <2>6
    <3>2. text[a].at < batch.next
      BY <1>1, <1>6, <2>3, <2>4, <2>6, <3>1
    <3> QED  BY <1>1, <1>4, <1>6, <2>1, <2>3, <2>4, <2>6, <3>1, <3>2
  <2>7. CASE ~(limit.next < clock)
    BY <2>1, <2>3, <2>4, <2>5, <2>7
  <2> QED  BY <2>6, <2>7
<1> HIDE DEF read, batch
<1>8. /\ text'[t].at = batch.next /\ text'[t].turn = turns + 1 /\ text'[t].asked = clock
      /\ Reserved(t)'
  BY <1>1, <1>2, <1>5 DEF Reserved
<1>9. \A a \in Texts \ {t} : text'[a] = text[a] /\ (Reserved(a)' <=> Reserved(a))
  BY <1>1, <1>2, <1>5 DEF Reserved
<1>10. \/ batch.left = 1 /\ limit'.next = batch.next + rate.per /\ limit'.left = rate.batch
       \/ batch.left > 1 /\ limit'.next = batch.next /\ limit'.left = batch.left - 1
  BY <1>1, <1>2, <1>4 DEF Rest
<1>11. limit' # NoLimit
  BY <1>1, <1>4, <1>10 DEF NoLimit
<1>12. LimitInv'
  <2>1. limit'.left \in 1..rate.batch
    BY <1>1, <1>4, <1>10
  <2>2. ASSUME NEW a \in Texts, Reserved(a)'
        PROVE  /\ text'[a].turn \in 1..turns'
               /\ text'[a].at <= limit'.next
               /\ text'[a].at = limit'.next =>
                     text'[a].turn + rate.batch > turns' + limit'.left
    <3>1. CASE a = t
      BY <1>1, <1>2, <1>4, <1>8, <1>10, <3>1
    <3>2. CASE a # t
      <4>1. Reserved(a) /\ text'[a] = text[a]
        BY <1>9, <2>2, <3>2
      <4>2. /\ text[a].turn \in 1..turns
            /\ text[a].at <= batch.next
            /\ text[a].at = batch.next => text[a].turn + rate.batch > turns + batch.left
        BY <1>7, <4>1
      <4> QED  BY <1>1, <1>2, <1>4, <1>6, <1>10, <4>1, <4>2
    <3> QED  BY <3>1, <3>2
  <2>3. ASSUME NEW a \in Texts, NEW c \in Texts, FullBatch(a, c)'
        PROVE  text'[a].at + rate.per <= limit'.next
    <3>1. CASE c = t
      <4>1. text'[a].turn + rate.batch = turns + 2 /\ text'[a].at = batch.next
        BY <1>1, <1>2, <1>8, <2>3, <3>1 DEF FullBatch
      <4>2. batch.left = 1
        <5>1. CASE a = t
          BY <1>1, <1>4, <1>8, <4>1, <5>1
        <5>2. CASE a # t
          <6>1. Reserved(a) /\ text'[a] = text[a]
            BY <1>9, <2>3, <5>2 DEF FullBatch
          <6>2. text[a].turn + rate.batch > turns + batch.left
            BY <1>7, <4>1, <6>1
          <6> QED  BY <1>1, <1>4, <4>1, <6>1, <6>2
        <5> QED  BY <5>1, <5>2
      <4> QED  BY <1>1, <1>4, <1>10, <4>1, <4>2
    <3>2. CASE c # t
      <4>1. Reserved(c) /\ text'[c] = text[c] /\ text[c].turn \in 1..turns
        BY <1>7, <1>9, <2>3, <3>2 DEF FullBatch
      <4>2. a # t
        <5>1. text'[c].turn + 1 = text'[a].turn + rate.batch
          BY <1>2, <2>3 DEF FullBatch
        <5> QED  BY <1>1, <1>8, <4>1, <5>1
      <4>3. text'[a] = text[a] /\ FullBatch(a, c)
        BY <1>2, <1>9, <2>3, <4>1, <4>2 DEF FullBatch
      <4>4. text[a].at + rate.per <= limit.next /\ limit.next <= batch.next
        BY <1>7, <4>1, <4>3 DEF TurnInv, LimitInv
      <4>5. limit'.next >= batch.next /\ limit'.next \in Nat
        BY <1>1, <1>4, <1>10
      <4>6. limit.next \in Nat
        BY DEF TextTypeOK, Limit
      <4> QED  BY <1>1, <1>4, <1>6, <4>3, <4>4, <4>5, <4>6
    <3> QED  BY <3>1, <3>2
  <2>4. \A a, c \in Texts : FullBatch(a, c)' => text'[a].at + rate'.per <= limit'.next
    BY <1>2, <2>3
  <2> QED  BY <1>2, <1>11, <2>1, <2>2, <2>4 DEF LimitInv
<1>13. LastInv'
  <2>1. text'[t].turn = turns' /\ limit'.next \in {text'[t].at, text'[t].at + rate'.per}
    BY <1>2, <1>8, <1>10
  <2>2. Reserved(t)'
    BY <1>8
  <2>3. \E a \in Texts : /\ Reserved(a)'
                         /\ text'[a].turn = turns'
                         /\ limit'.next \in {text'[a].at, text'[a].at + rate'.per}
    BY <1>1, <2>1, <2>2
  <2> QED  BY <2>3 DEF LastInv
<1>14. TextsInTurn'
  <2>1. ASSUME NEW a \in Texts, NEW b \in Texts,
               Reserved(a)', Reserved(b)', text'[a].turn < text'[b].turn
        PROVE  /\ text'[a].at <= text'[b].at
               /\ text'[a].turn + rate.batch <= text'[b].turn =>
                     text'[a].at < text'[b].at
    <3>1. CASE a # t /\ b # t
      BY <1>9, <2>1, <3>1 DEF TurnInv, TextsInTurn
    <3>2. CASE a # t /\ b = t
      <4>1. Reserved(a) /\ text'[a] = text[a]
        BY <1>9, <2>1, <3>2
      <4>2. /\ text[a].turn \in 1..turns
            /\ text[a].at <= batch.next
            /\ text[a].at = batch.next => text[a].turn + rate.batch > turns + batch.left
        BY <1>7, <4>1
      <4> QED  BY <1>1, <1>4, <1>6, <1>8, <3>2, <4>1, <4>2
    <3>3. CASE a = t
      <4>1. b # t
        BY <1>1, <1>8, <2>1, <3>3
      <4>2. text'[b].turn \in 1..turns
        BY <1>7, <1>9, <2>1, <4>1
      <4> QED  BY <1>1, <1>8, <2>1, <3>3, <4>2
    <3> QED  BY <3>1, <3>2, <3>3
  <2>2. ASSUME NEW a \in Texts, NEW b \in Texts, NEW c \in Texts,
               FullBatch(a, c)', Reserved(b)', text'[c].turn < text'[b].turn
        PROVE  text'[a].at + rate.per <= text'[b].at
    <3>1. c # t
      <4>1. CASE b # t
        <5>1. text'[b].turn \in 1..turns
          BY <1>7, <1>9, <2>2, <4>1
        <5> QED  BY <1>1, <1>8, <2>2, <5>1
      <4>2. CASE b = t
        BY <1>1, <1>8, <2>2, <4>2
      <4> QED  BY <4>1, <4>2
    <3>2. Reserved(c) /\ text'[c] = text[c] /\ text[c].turn \in 1..turns
      BY <1>7, <1>9, <2>2, <3>1 DEF FullBatch
    <3>3. a # t
      <4>1. text'[c].turn + 1 = text'[a].turn + rate.batch
        BY <1>2, <2>2 DEF FullBatch
      <4> QED  BY <1>1, <1>8, <3>2, <4>1
    <3>4. text'[a] = text[a] /\ FullBatch(a, c)
      BY <1>2, <1>9, <2>2, <3>2, <3>3 DEF FullBatch
    <3>5. CASE b # t
      BY <1>9, <2>2, <3>2, <3>4, <3>5 DEF TurnInv, TextsInTurn
    <3>6. CASE b = t
      <4>1. text[a].at + rate.per <= limit.next /\ limit.next <= batch.next
        BY <1>7, <3>2, <3>4 DEF TurnInv, LimitInv
      <4>2. limit.next \in Nat
        BY DEF TextTypeOK, Limit
      <4> QED  BY <1>1, <1>4, <1>6, <1>8, <3>4, <3>6, <4>1, <4>2
    <3> QED  BY <3>5, <3>6
  <2>3. /\ \A a, b \in Texts :
              Reserved(a)' /\ Reserved(b)' /\ text'[a].turn < text'[b].turn =>
                  /\ text'[a].at <= text'[b].at
                  /\ text'[a].turn + rate'.batch <= text'[b].turn =>
                        text'[a].at < text'[b].at
        /\ \A a, b, c \in Texts :
              FullBatch(a, c)' /\ Reserved(b)' /\ text'[c].turn < text'[b].turn =>
                  text'[a].at + rate'.per <= text'[b].at
    BY <1>2, <2>1, <2>2
  <2> QED  BY <2>3 DEF TextsInTurn
<1>15. HeldBackOnlyByOthers'
  <2> SUFFICES ASSUME NEW b \in Texts, Reserved(b)', text'[b].at > text'[b].asked
               PROVE  \E a \in Texts : /\ Reserved(a)'
                                       /\ text'[b].turn = text'[a].turn + 1
                                       /\ text'[b].at \in {text'[a].at, text'[a].at + rate.per}
    BY <1>2 DEF HeldBackOnlyByOthers
  <2>1. CASE b # t
    <3>1. Reserved(b) /\ text'[b] = text[b]
      BY <1>9, <2>1
    <3>2. PICK a \in Texts : /\ Reserved(a)
                             /\ text[b].turn = text[a].turn + 1
                             /\ text[b].at \in {text[a].at, text[a].at + rate.per}
      BY <3>1 DEF TurnInv, HeldBackOnlyByOthers
    <3>3. a # t
      BY <1>3, <3>2
    <3> QED  BY <1>9, <3>1, <3>2, <3>3
  <2>2. CASE b = t
    <3>1. limit # NoLimit /\ batch = limit
      BY <1>4, <1>8, <2>2
    <3>2. PICK a \in Texts : /\ Reserved(a)
                             /\ text[a].turn = turns
                             /\ limit.next \in {text[a].at, text[a].at + rate.per}
      BY <3>1 DEF TurnInv, LastInv
    <3>3. a # t
      BY <1>3, <3>2
    <3> QED  BY <1>8, <1>9, <2>2, <3>1, <3>2, <3>3
  <2> QED  BY <2>1, <2>2
<1> QED  BY <1>12, <1>13, <1>14, <1>15

LEMMA TurnStep ==
    ASSUME TextTypeOK, TurnInv, [TextNext]_textVars
    PROVE  TurnInv'
<1>1. PlanInv' /\ LockInv'
  BY PlanStep, LimitLockStep DEF TurnInv
<1>2. LimitInv' /\ LastInv' /\ TextsInTurn' /\ HeldBackOnlyByOthers'
  <2>1. ASSUME NEW w \in Planners, Reserve(w)
        PROVE  LimitInv' /\ LastInv' /\ TextsInTurn' /\ HeldBackOnlyByOthers'
    BY <2>1, ReserveTurn
  <2> QED  BY <2>1, QuietTurn
<1> QED  BY <1>1, <1>2 DEF TurnInv

LEMMA TurnTheorem == TextSpec => []TurnInv
<1>1. TextTypeOK /\ TurnInv /\ [TextNext]_textVars => TurnInv'
  BY TurnStep
<1> QED  BY InitTurn, TextTypeCorrect, <1>1, PTL DEF TextSpec

(* Times are given out in order, never more of them alike than a batch     *)
(* has, however many transactions reserve at once and however many fail.   *)
THEOREM TextsInTurnTheorem == TextSpec => []TextsInTurn
<1>1. TurnInv => TextsInTurn
  BY DEF TurnInv
<1> QED  BY TurnTheorem, <1>1, PTL

(* The limit never makes a text wait for more than the one before it.      *)
THEOREM HeldBackTheorem == TextSpec => []HeldBackOnlyByOthers
<1>1. TurnInv => HeldBackOnlyByOthers
  BY DEF TurnInv
<1> QED  BY TurnTheorem, <1>1, PTL
-----------------------------------------------------------------------------
(* Arithmetic of a day of d ticks.                                         *)
LEMMA Division ==
    ASSUME NEW a \in Int, NEW d \in Nat, d > 0
    PROVE  /\ a % d \in 0..d - 1
           /\ a \div d \in Int
           /\ a = d * (a \div d) + (a % d)
  OBVIOUS

LEMMA WholeDays ==
    ASSUME NEW p \in Int, NEW q \in Int, p > q, NEW d \in Nat
    PROVE  d * p >= d * q + d
  OBVIOUS

(* A remainder is the only one.                                            *)
LEMMA OneRemainder ==
    ASSUME NEW p \in Int, NEW q \in Int, NEW d \in Nat, d > 0,
           NEW r \in 0..d - 1, NEW s \in 0..d - 1,
           d * p + r = d * q + s
    PROVE  r = s
<1>1. ~(p > q)
  BY WholeDays
<1>2. ~(q > p)
  BY WholeDays
<1>3. p = q
  BY <1>1, <1>2
<1> QED  BY <1>3

(* Later the same day.                                                     *)
LEMMA SameDay ==
    ASSUME NEW a \in Int, NEW k \in Nat, NEW d \in Nat, d > 0, (a % d) + k < d
    PROVE  (a + k) % d = (a % d) + k
<1>1. /\ a = d * (a \div d) + (a % d)
      /\ a + k = d * ((a + k) \div d) + ((a + k) % d)
  BY Division
<1>2. /\ a % d \in 0..d - 1 /\ a \div d \in Int
      /\ (a + k) % d \in 0..d - 1 /\ (a + k) \div d \in Int
  BY Division
<1>3. (a % d) + k \in 0..d - 1
  BY <1>2
<1>4. d * ((a + k) \div d) + ((a + k) % d) = d * (a \div d) + ((a % d) + k)
  BY <1>1, <1>2, <1>3
<1> QED  BY <1>2, <1>3, <1>4, OneRemainder

(* The midnight that ends the day.                                         *)
LEMMA Midnight ==
    ASSUME NEW a \in Int, NEW d \in Nat, d > 0
    PROVE  (a + (d - (a % d))) % d = 0
<1> DEFINE m == a + (d - (a % d))
<1>1. a % d \in 0..d - 1 /\ a \div d \in Int /\ a = d * (a \div d) + (a % d)
  BY Division
<1>2. m = d * ((a \div d) + 1) + 0 /\ m \in Int
  BY <1>1
<1> HIDE DEF m
<1>3. m % d \in 0..d - 1 /\ m \div d \in Int /\ m = d * (m \div d) + (m % d)
  BY <1>2, Division
<1>4. (a \div d) + 1 \in Int /\ 0 \in 0..d - 1
  BY <1>1
<1>5. m % d = 0
  BY <1>2, <1>3, <1>4, OneRemainder
<1> QED  BY <1>5 DEF m

(* In the contact's clock: later the same day, and the day after.          *)
LEMMA LocalLater ==
    ASSUME NEW t \in Texts, NEW time \in Nat
    PROVE  /\ Local(t, time) \in 0..Day - 1
           /\ \A k \in Nat : Local(t, time) + k < Day =>
                 Local(t, time + k) = Local(t, time) + k
           /\ Local(t, time + (Day - Local(t, time))) = 0
<1>1. Day \in Nat /\ Day > 0 /\ Zone[t] \in Nat /\ time + Zone[t] \in Int
  BY SendTimesAssumption
<1>2. Local(t, time) \in 0..Day - 1
  BY <1>1, Division DEF Local
<1>3. ASSUME NEW k \in Nat, Local(t, time) + k < Day
      PROVE  Local(t, time + k) = Local(t, time) + k
  <2>1. (time + k) + Zone[t] = (time + Zone[t]) + k
    BY <1>1
  <2>2. ((time + Zone[t]) + k) % Day = ((time + Zone[t]) % Day) + k
    BY <1>1, <1>3, SameDay DEF Local
  <2> QED  BY <2>1, <2>2 DEF Local
<1>4. Local(t, time + (Day - Local(t, time))) = 0
  <2> DEFINE left == Day - ((time + Zone[t]) % Day)
  <2>1. ((time + Zone[t]) + left) % Day = 0
    BY <1>1, Midnight
  <2>2. left \in Int
    BY <1>1, <1>2 DEF Local
  <2> HIDE DEF left
  <2>3. (time + left) + Zone[t] = (time + Zone[t]) + left
    BY <1>1, <2>2
  <2>4. ((time + left) + Zone[t]) % Day = 0
    BY <2>1, <2>3
  <2> QED  BY <2>4 DEF Local, left
<1> QED  BY <1>2, <1>3, <1>4

(* Outside the window NextAllowed is the first time that is inside it.     *)
THEOREM FirstOpening ==
    ASSUME NEW t \in Texts, NEW time \in Nat, ~Open(t, time)
    PROVE  /\ NextAllowed(t, time) \in Nat
           /\ Open(t, NextAllowed(t, time))
           /\ \A c \in time..NextAllowed(t, time) - 1 : ~Open(t, c)
<1> DEFINE here == Local(t, time)
           next == NextAllowed(t, time)
<1>1. /\ Day \in Nat /\ Opens \in Nat /\ Closes \in Nat
      /\ Opens < Closes /\ Closes <= Day
  BY SendTimesAssumption
<1>2. here \in 0..Day - 1
  BY LocalLater
<1>3. \A k \in Nat : here + k < Day => Local(t, time + k) = here + k
  BY LocalLater
<1>4. next = time - here + Opens + (IF here < Opens THEN 0 ELSE Day)
  BY DEF NextAllowed
<1>5. here < Opens \/ here >= Closes
  BY <1>1, <1>2 DEF Open
<1>8. \A c \in Nat : Local(t, c) \in Nat
  BY LocalLater
<1>9. \A n \in Nat : \A c \in time..n - 1 : c \in Nat
  OBVIOUS
<1> SUFFICES /\ next \in Nat
             /\ Local(t, next) = Opens
             /\ \A c \in time..next - 1 : Local(t, c) < Opens \/ Local(t, c) >= Closes
  BY <1>1, <1>8, <1>9 DEF Open
<1>6. CASE here < Opens
  <2>1. Opens - here \in Nat /\ here + (Opens - here) < Day
    BY <1>1, <1>2, <1>6
  <2>2. next = time + (Opens - here)
    BY <1>1, <1>2, <1>4, <1>6
  <2>3. Local(t, next) = Opens
    BY <1>1, <1>2, <1>3, <2>1, <2>2
  <2>4. ASSUME NEW c \in time..next - 1
        PROVE  Local(t, c) < Opens
    <3>1. c - time \in Nat /\ here + (c - time) < Opens /\ time + (c - time) = c
      BY <1>1, <1>2, <2>1, <2>2
    <3>2. Local(t, time + (c - time)) = here + (c - time)
      BY <1>1, <1>2, <1>3, <3>1
    <3> QED  BY <3>1, <3>2
  <2>5. next \in Nat
    BY <2>1, <2>2
  <2> QED  BY <2>3, <2>4, <2>5
<1>7. CASE here >= Closes
  <2> DEFINE midnight == time + (Day - here)
  <2>1. Local(t, midnight) = 0
    BY LocalLater
  <2>2. midnight \in Nat /\ midnight > time
    BY <1>1, <1>2
  <2>3. ~(here < Opens)
    BY <1>1, <1>2, <1>7
  <2>4. next = midnight + Opens
    BY <1>1, <1>2, <1>4, <2>3
  <2> HIDE DEF midnight
  <2>5. \A k \in Nat : 0 + k < Day => Local(t, midnight + k) = 0 + k
    BY <2>1, <2>2, LocalLater
  <2>6. Local(t, next) = Opens
    BY <1>1, <2>4, <2>5
  <2>7. ASSUME NEW c \in time..next - 1
        PROVE  Local(t, c) < Opens \/ Local(t, c) >= Closes
    <3>1. CASE c < midnight
      <4>1. c - time \in Nat /\ here + (c - time) < Day /\ time + (c - time) = c
        BY <1>1, <1>2, <2>2, <3>1 DEF midnight
      <4>2. Local(t, time + (c - time)) = here + (c - time)
        BY <1>2, <1>3, <4>1
      <4> QED  BY <1>1, <1>2, <1>7, <4>1, <4>2
    <3>2. CASE c >= midnight
      <4>1. c - midnight \in Nat /\ c - midnight < Opens /\ midnight + (c - midnight) = c
        BY <1>1, <2>2, <2>4, <3>2
      <4>2. Local(t, midnight + (c - midnight)) = c - midnight
        BY <1>1, <2>5, <4>1
      <4> QED  BY <4>1, <4>2
    <3> QED  BY <2>2, <3>1, <3>2
  <2>8. next \in Nat
    BY <1>1, <2>2, <2>4
  <2> QED  BY <2>6, <2>7, <2>8
<1> QED  BY <1>5, <1>6, <1>7
-----------------------------------------------------------------------------
LEMMA WindowStep ==
    ASSUME TextTypeOK, SleepsUntilOpening, [TextNext]_textVars
    PROVE  SleepsUntilOpening'
<1> SUFFICES ASSUME NEW a \in Texts, text'[a].state = "asleep"
             PROVE  /\ Open(a, text'[a].run)
                    /\ \A c \in clock'..text'[a].run - 1 : ~Open(a, c)
  BY DEF SleepsUntilOpening, Open, Local
<1>1. text[a].state = "asleep" =>
          /\ Open(a, text[a].run)
          /\ \A c \in clock..text[a].run - 1 : ~Open(a, c)
  BY DEF SleepsUntilOpening
<1>2. clock \in Nat /\ text \in [Texts -> Text] /\ text[a].run \in Nat
  BY SendTimesAssumption DEF TextTypeOK, Text
<1>3. CASE text'[a] = text[a] /\ clock' = clock
  BY <1>1, <1>3
<1>4. CASE Tick
  <2>1. text' = text /\ clock' = clock + 1
    BY <1>4 DEF Tick
  <2>2. \A c \in clock + 1..text[a].run - 1 : c \in clock..text[a].run - 1
    BY <1>2
  <2> QED  BY <1>1, <2>1, <2>2
<1>5. ASSUME NEW w \in Planners, NEW t \in Texts, Postpone(w, t)
      PROVE  /\ Open(a, text'[a].run)
             /\ \A c \in clock'..text'[a].run - 1 : ~Open(a, c)
  <2>1. CASE a = t
    <3>1. text'[a].run = NextAllowed(a, clock) /\ clock' = clock /\ ~Open(a, clock)
      BY <1>2, <1>5, <2>1 DEF Postpone, Text
    <3> QED  BY <1>2, <3>1, FirstOpening
  <2>2. CASE a # t
    BY <1>2, <1>3, <1>5, <2>2 DEF Postpone
  <2> QED  BY <2>1, <2>2
<1>6. ASSUME NEW w \in Planners, NEW t \in Texts, Advance(w, t)
      PROVE  text'[a] = text[a] /\ clock' = clock
  <2>1. text' = [text EXCEPT ![t].state = "planned"] /\ clock' = clock
    BY <1>6 DEF Advance
  <2>2. a # t
    BY <1>2, <2>1 DEF Text
  <2> QED  BY <1>2, <2>1, <2>2
<1>7. ASSUME NEW w \in Planners, Reserve(w)
      PROVE  text'[a] = text[a] /\ clock' = clock
  BY <1>2, <1>7 DEF Reserve
<1>8. ASSUME NEW w \in Planners, Rollback(w)
      PROVE  text'[a] = text[a] /\ clock' = clock
  BY <1>8, RollbackEffect DEF Rollback
<1>9. CASE \E w \in Planners : LockLimit(w)
  BY <1>3, <1>9 DEF LockLimit
<1>10. CASE UNCHANGED textVars
  BY <1>3, <1>10 DEF textVars
<1> QED  BY <1>3, <1>4, <1>5, <1>6, <1>7, <1>8, <1>9, <1>10 DEF TextNext

(* An enrollment outside its window wakes at the first opening of it, for  *)
(* any window and any time zone, however much time passes meanwhile.       *)
THEOREM WindowTheorem == TextSpec => []SleepsUntilOpening
<1>1. TextInit => SleepsUntilOpening
  BY DEF TextInit, SleepsUntilOpening
<1> QED  BY TextTypeCorrect, WindowStep, <1>1, PTL DEF TextSpec
=============================================================================
