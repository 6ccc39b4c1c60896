-------------------------- MODULE EnrollmentsProofs --------------------------
(***************************************************************************)
(* Theorems about Enrollments, for any enrollments, workers, repliers and  *)
(* bounds.                                                                 *)
(*                                                                         *)
(* Whatever the leases do, a step either writes somebody's copy of a row   *)
(* back, or leaves what was sent and planned of that enrollment alone      *)
(* (StepShape).  A row that can be written to is locked, a locked row is   *)
(* active, and no copy counts more than what was sent (OrderInv): that is  *)
(* enough for what holds however late a process is, and for each           *)
(* enrollment to be a Campaign (CampaignInv).  The rest needs that         *)
(* nobody outlives a claim of the enrollment and none of its commits is    *)
(* taken for lost (Undisturbed): then only one process has a copy, and it  *)
(* is the row's (ClaimFor).  That is stated of one enrollment, whatever    *)
(* happens to the others, and of all when no such delay is possible.       *)
(***************************************************************************)
EXTENDS Enrollments, TLAPS

Plans == [state: States, next: Times, sent: Counts, send: BOOLEAN, actions: SUBSET Actions]

(* The row of e becomes this, and the other rows stay.                     *)
RowBecomes(e, state, next, sent, lease) ==
    /\ row' \in [Enrollments -> Row]
    /\ \A d \in Enrollments \ {e} : row'[d] = row[d]
    /\ row'[e].kind = row[e].kind /\ row'[e].state = state /\ row'[e].next = next
    /\ row'[e].sent = sent /\ row'[e].lease = lease

LEMMA Zero == 0 \in Counts /\ Counts \subseteq Nat
  BY EnrollmentsAssumption DEF Counts

LEMMA IdleSlot == Idle \in Slot /\ AtRest \in Desk
  BY Zero DEF Idle, Slot, AtRest, Desk, States

LEMMA LimitBound ==
    ASSUME NEW e \in Enrollments
    PROVE  Limit(e) \in Nat /\ Limit(e) <= MaxOccurrences
  BY EnrollmentsAssumption DEF Limit

(* The shapes of update that the actions use.                              *)
LEMMA RowPut ==
    ASSUME row \in [Enrollments -> Row], NEW e \in Enrollments, NEW r \in Row,
           row' = [row EXCEPT ![e] = r], r.kind = row[e].kind
    PROVE  RowBecomes(e, r.state, r.next, r.sent, r.lease)
  BY DEF RowBecomes

LEMMA RowEnroll ==
    ASSUME row \in [Enrollments -> Row], NEW e \in Enrollments, NEW next \in Times,
           row' = [row EXCEPT ![e].state = "pending", ![e].next = next]
    PROVE  RowBecomes(e, "pending", next, row[e].sent, row[e].lease)
<1>1. "pending" \in States /\ "failed" \in States /\ "soon" \in Times /\ "none" \in Times
      /\ "none" \in Leases
  BY DEF States, Active, Closed, Times, Leases
<1>2. row[e] \in Row
  OBVIOUS
<1>3. ASSUME NEW r \in Row PROVE [r EXCEPT !.state = "pending", !.next = next] \in Row
  BY <1>1 DEF Row
<1>4. PICK r \in Row : r = [row[e] EXCEPT !.state = "pending", !.next = next]
  BY <1>2, <1>3
<1>5. row' = [row EXCEPT ![e] = r]
  BY <1>4
<1>6. r.kind = row[e].kind
  BY <1>2, <1>4 DEF Row
<1>7. RowBecomes(e, r.state, r.next, r.sent, r.lease)
  BY <1>5, <1>6, RowPut
<1> QED  BY <1>2, <1>4, <1>7 DEF Row

LEMMA RowNext ==
    ASSUME row \in [Enrollments -> Row], NEW e \in Enrollments, NEW next \in Times,
           row' = [row EXCEPT ![e].next = next]
    PROVE  RowBecomes(e, row[e].state, next, row[e].sent, row[e].lease)
<1>1. "pending" \in States /\ "failed" \in States /\ "soon" \in Times /\ "none" \in Times
      /\ "none" \in Leases
  BY DEF States, Active, Closed, Times, Leases
<1>2. row[e] \in Row
  OBVIOUS
<1>3. ASSUME NEW r \in Row PROVE [r EXCEPT !.next = next] \in Row
  BY <1>1 DEF Row
<1>4. PICK r \in Row : r = [row[e] EXCEPT !.next = next]
  BY <1>2, <1>3
<1>5. row' = [row EXCEPT ![e] = r]
  BY <1>4
<1>6. r.kind = row[e].kind
  BY <1>2, <1>4 DEF Row
<1>7. RowBecomes(e, r.state, r.next, r.sent, r.lease)
  BY <1>5, <1>6, RowPut
<1> QED  BY <1>2, <1>4, <1>7 DEF Row

LEMMA RowLease ==
    ASSUME row \in [Enrollments -> Row], NEW e \in Enrollments, NEW lease \in Leases,
           row' = [row EXCEPT ![e].lease = lease]
    PROVE  RowBecomes(e, row[e].state, row[e].next, row[e].sent, lease)
<1>1. "pending" \in States /\ "failed" \in States /\ "soon" \in Times /\ "none" \in Times
      /\ "none" \in Leases
  BY DEF States, Active, Closed, Times, Leases
<1>2. row[e] \in Row
  OBVIOUS
<1>3. ASSUME NEW r \in Row PROVE [r EXCEPT !.lease = lease] \in Row
  BY <1>1 DEF Row
<1>4. PICK r \in Row : r = [row[e] EXCEPT !.lease = lease]
  BY <1>2, <1>3
<1>5. row' = [row EXCEPT ![e] = r]
  BY <1>4
<1>6. r.kind = row[e].kind
  BY <1>2, <1>4 DEF Row
<1>7. RowBecomes(e, r.state, r.next, r.sent, r.lease)
  BY <1>5, <1>6, RowPut
<1> QED  BY <1>2, <1>4, <1>7 DEF Row

LEMMA RowRetry ==
    ASSUME row \in [Enrollments -> Row], NEW e \in Enrollments,
           row' = [row EXCEPT ![e].next = "soon", ![e].lease = "none"]
    PROVE  RowBecomes(e, row[e].state, "soon", row[e].sent, "none")
<1>1. "pending" \in States /\ "failed" \in States /\ "soon" \in Times /\ "none" \in Times
      /\ "none" \in Leases
  BY DEF States, Active, Closed, Times, Leases
<1>2. row[e] \in Row
  OBVIOUS
<1>3. ASSUME NEW r \in Row PROVE [r EXCEPT !.next = "soon", !.lease = "none"] \in Row
  BY <1>1 DEF Row
<1>4. PICK r \in Row : r = [row[e] EXCEPT !.next = "soon", !.lease = "none"]
  BY <1>2, <1>3
<1>5. row' = [row EXCEPT ![e] = r]
  BY <1>4
<1>6. r.kind = row[e].kind
  BY <1>2, <1>4 DEF Row
<1>7. RowBecomes(e, r.state, r.next, r.sent, r.lease)
  BY <1>5, <1>6, RowPut
<1> QED  BY <1>2, <1>4, <1>7 DEF Row

LEMMA RowFail ==
    ASSUME row \in [Enrollments -> Row], NEW e \in Enrollments,
           row' = [row EXCEPT ![e].state = "failed", ![e].next = "none", ![e].lease = "none"]
    PROVE  RowBecomes(e, "failed", "none", row[e].sent, "none")
<1>1. "pending" \in States /\ "failed" \in States /\ "soon" \in Times /\ "none" \in Times
      /\ "none" \in Leases
  BY DEF States, Active, Closed, Times, Leases
<1>2. row[e] \in Row
  OBVIOUS
<1>3. ASSUME NEW r \in Row
      PROVE  [r EXCEPT !.state = "failed", !.next = "none", !.lease = "none"] \in Row
  BY <1>1 DEF Row
<1>4. PICK r \in Row : r = [row[e] EXCEPT !.state = "failed", !.next = "none", !.lease = "none"]
  BY <1>2, <1>3
<1>5. row' = [row EXCEPT ![e] = r]
  BY <1>4
<1>6. r.kind = row[e].kind
  BY <1>2, <1>4 DEF Row
<1>7. RowBecomes(e, r.state, r.next, r.sent, r.lease)
  BY <1>5, <1>6, RowPut
<1> QED  BY <1>2, <1>4, <1>7 DEF Row
-----------------------------------------------------------------------------
(* What is planned from a copy that counts `sent'.  A copy may wait,       *)
(* send, or end its enrollment in one of three ways.                       *)
Waits(plan)   == plan.state \in Active /\ ~plan.send /\ plan.actions = {}
Sends(e, sent, plan) ==
    /\ plan.send /\ plan.state = "awaiting_reply" /\ plan.actions = {}
    /\ row[e].kind # "manual" /\ sent < Limit(e) /\ plan.next \in {"interval", "none"}
Ends(e, sent, plan) ==
    /\ ~plan.send
    /\ \/ /\ plan.state = "completed"
          /\ IF row[e].kind = "manual" THEN plan.actions = Tasks
                                       ELSE plan.actions = {} /\ sent >= Limit(e)
       \/ plan.state = "completed" /\ plan.actions = {"reply"}
       \/ plan.state = "suppressed" /\ plan.actions = {}

Follows(e, sent, plan) ==
    /\ plan.sent = IF plan.send THEN sent + 1 ELSE sent
    /\ Waits(plan) \/ Sends(e, sent, plan) \/ Ends(e, sent, plan)

LEMMA AdvanceFollows ==
    ASSUME NEW e \in Enrollments, row[e] \in Row, NEW state \in Active, NEW sent \in Counts,
           NEW plan \in Advance(e, state, sent)
    PROVE  plan \in Plans /\ Follows(e, sent, plan)
<1>1. Limit(e) \in Nat /\ Limit(e) <= MaxOccurrences /\ sent \in Nat /\ MaxOccurrences \in Nat
  BY LimitBound, Zero, EnrollmentsAssumption
<1>2. "completed" \in States /\ "awaiting_reply" \in States /\ state \in States
  BY DEF States, Active, Closed
<1>3. Tasks \in SUBSET Actions /\ {} \in SUBSET Actions
  BY DEF Tasks, Actions
<1> USE DEF Follows, Waits, Sends, Ends
<1>4. CASE row[e].kind = "manual" /\ plan = Closing(sent, Tasks)
  BY <1>2, <1>3, <1>4 DEF Closing, Plan, Plans, Times
<1>5. CASE row[e].kind # "manual" /\ sent >= Limit(e) /\ plan = Closing(sent, {})
  BY <1>2, <1>3, <1>5 DEF Closing, Plan, Plans, Times
<1>6. CASE row[e].kind # "manual" /\ sent < Limit(e) /\ plan = Sending(e, sent)
  <2>1. sent + 1 \in Counts
    BY <1>1, <1>6 DEF Counts
  <2> QED  BY <1>2, <1>3, <1>6, <2>1 DEF Sending, Plan, Plans, Times
<1>7. CASE plan = Plan(state, "soon", sent, FALSE, {})
  BY <1>2, <1>3, <1>7 DEF Plan, Plans, Times
<1>8. \/ row[e].kind = "manual" /\ plan = Closing(sent, Tasks)
      \/ row[e].kind # "manual" /\ sent >= Limit(e) /\ plan = Closing(sent, {})
      \/ row[e].kind # "manual" /\ ~(sent >= Limit(e)) /\ plan = Sending(e, sent)
      \/ plan = Plan(state, "soon", sent, FALSE, {})
  BY DEF Advance
<1>9. ~(sent >= Limit(e)) => sent < Limit(e)
  BY <1>1
<1> QED  BY <1>4, <1>5, <1>6, <1>7, <1>8, <1>9

(* What the counts and the outcome need of it.                             *)
LEMMA PlanBounds ==
    ASSUME NEW e \in Enrollments, NEW sent, NEW plan, Follows(e, sent, plan)
    PROVE  /\ plan.send => sent < Limit(e) /\ plan.sent = sent + 1
           /\ plan.send => plan.next \in {"interval", "none"} /\ plan.state = "awaiting_reply"
           /\ ~plan.send => plan.sent = sent
           /\ plan.actions \in {{}, Tasks, {"reply"}}
           /\ plan.actions # {} => plan.state = "completed"
  BY DEF Follows, Waits, Sends, Ends

LEMMA ReplyFollows ==
    ASSUME NEW e \in Enrollments, NEW text, NEW sent \in Counts
    PROVE  /\ Reply(text, sent) \in Plans /\ Follows(e, sent, Reply(text, sent))
           /\ ~Reply(text, sent).send /\ Reply(text, sent).next = "none"
           /\ Reply(text, sent).state \in Closed
<1>1. "completed" \in States /\ "suppressed" \in States
  BY DEF States, Closed
<1>2. {"reply"} \in SUBSET Actions /\ {} \in SUBSET Actions
  BY DEF Actions
<1>3. CASE text = "stop"
  BY <1>1, <1>2, <1>3 DEF Reply, Plan, Plans, Follows, Ends, Times, Closed
<1>4. CASE text # "stop"
  BY <1>1, <1>2, <1>4 DEF Reply, Closing, Plan, Plans, Follows, Ends, Times, Closed
<1> QED  BY <1>3, <1>4

(* The transaction, for a plan that follows from a copy.                   *)
LEMMA WriteEffect ==
    ASSUME TypeOK, NEW e \in Enrollments, NEW plan \in Plans, Write(e, plan)
    PROVE  /\ Locked(e)
           /\ RowBecomes(e, plan.state, plan.next, plan.sent, "none")
           /\ crm' = crm \cup {<<e, a>> : a \in plan.actions}
           /\ crm' \in SUBSET (Enrollments \X Actions)
           /\ jobs' \in [Enrollments -> SUBSET Nat]
           /\ jobs'[e] = IF plan.send THEN jobs[e] \cup {plan.sent} ELSE jobs[e]
           /\ rested' \in [Enrollments -> BOOLEAN]
           /\ rested'[e] = IF plan.send THEN FALSE ELSE rested[e]
           /\ \A d \in Enrollments \ {e} : jobs'[d] = jobs[d] /\ rested'[d] = rested[d]
<1>1. /\ row \in [Enrollments -> Row] /\ jobs \in [Enrollments -> SUBSET Nat]
      /\ crm \in SUBSET (Enrollments \X Actions) /\ rested \in [Enrollments -> BOOLEAN]
  BY DEF TypeOK
<1>2. /\ plan.state \in States /\ plan.next \in Times /\ plan.sent \in Counts
      /\ plan.send \in BOOLEAN /\ plan.actions \in SUBSET Actions /\ "none" \in Leases
  BY DEF Plans, Leases
<1>3. RowBecomes(e, plan.state, plan.next, plan.sent, "none")
  <2>1. PICK r \in Row :
            r = [kind |-> row[e].kind, state |-> plan.state, next |-> plan.next,
                 sent |-> plan.sent, lease |-> "none"]
    BY <1>1, <1>2 DEF Row
  <2>2. row' = [row EXCEPT ![e] = r]
    BY <2>1 DEF Write
  <2> QED  BY <1>1, <2>1, <2>2, RowPut
<1>4. /\ jobs' \in [Enrollments -> SUBSET Nat]
      /\ jobs'[e] = IF plan.send THEN jobs[e] \cup {plan.sent} ELSE jobs[e]
      /\ \A d \in Enrollments \ {e} : jobs'[d] = jobs[d]
  BY <1>1, <1>2, Zero DEF Write
<1>5. /\ rested' \in [Enrollments -> BOOLEAN]
      /\ rested'[e] = IF plan.send THEN FALSE ELSE rested[e]
      /\ \A d \in Enrollments \ {e} : rested'[d] = rested[d]
  BY <1>1, <1>2 DEF Write
<1>6. /\ crm' = crm \cup {<<e, a>> : a \in plan.actions}
      /\ crm' \in SUBSET (Enrollments \X Actions)
  BY <1>1, <1>2 DEF Write
<1> QED  BY <1>3, <1>4, <1>5, <1>6 DEF Write
-----------------------------------------------------------------------------
(* What the steps do to the workers' and the repliers' copies.             *)
WorkerType ==
    /\ wk \in [Workers -> Slot]
    /\ \A w \in Workers : wk[w].pc = "idle" <=> wk[w].e = None
    /\ \A w \in Workers : wk[w].pc # "idle" => wk[w].state \in Active

LEMMA WorkerGoes ==
    ASSUME WorkerType, NEW w \in Workers, wk[w].pc # "idle",
           NEW s \in {"claimed", "retry", "fail"}, GoTo(w, s)
    PROVE  /\ WorkerType'
           /\ \A v \in Workers \ {w} : wk'[v] = wk[v]
           /\ wk'[w].pc = s /\ wk'[w].e = wk[w].e /\ wk'[w].sent = wk[w].sent
<1>1. /\ wk' \in [Workers -> Slot]
      /\ \A v \in Workers \ {w} : wk'[v] = wk[v]
      /\ wk'[w].pc = s /\ wk'[w].e = wk[w].e /\ wk'[w].sent = wk[w].sent
      /\ wk'[w].state = wk[w].state
  BY DEF WorkerType, GoTo, Slot
<1> QED  BY <1>1 DEF WorkerType

LEMMA WorkerReleases ==
    ASSUME WorkerType, NEW w \in Workers, Release(w)
    PROVE  WorkerType' /\ wk'[w] = Idle /\ \A v \in Workers \ {w} : wk'[v] = wk[v]
<1>1. wk' \in [Workers -> Slot] /\ wk'[w] = Idle /\ \A v \in Workers \ {w} : wk'[v] = wk[v]
  BY IdleSlot DEF WorkerType, Release
<1> QED  BY <1>1 DEF WorkerType, Idle

LEMMA WorkerTakes ==
    ASSUME TypeOK, WorkerType, NEW w \in Workers, NEW e \in Enrollments, Take(w, e),
           row[e].state \in Active
    PROVE  /\ WorkerType'
           /\ \A v \in Workers \ {w} : wk'[v] = wk[v]
           /\ wk'[w].pc = "claimed" /\ wk'[w].e = e /\ wk'[w].sent = row[e].sent
           /\ wk[w].pc = "idle"
<1> DEFINE r == [pc |-> "claimed", e |-> e, state |-> row[e].state, sent |-> row[e].sent]
<1>1. row[e] \in Row
  BY DEF TypeOK
<1>2. r \in Slot
  BY <1>1 DEF Slot, Row
<1>3. wk' = [wk EXCEPT ![w] = r]
  BY DEF Take
<1>4. r.pc = "claimed" /\ r.e = e /\ r.sent = row[e].sent /\ r.state = row[e].state
  OBVIOUS
<1> HIDE DEF r
<1>5. wk' \in [Workers -> Slot] /\ wk'[w] = r /\ \A v \in Workers \ {w} : wk'[v] = wk[v]
  BY <1>2, <1>3 DEF WorkerType
<1> QED  BY <1>4, <1>5, EnrollmentsAssumption DEF WorkerType, Take

(* The row that a worker has in hand.                                      *)
LEMMA WorkerHas ==
    ASSUME TypeOK, NEW w \in Workers, wk[w].pc # "idle"
    PROVE  wk[w].e \in Enrollments /\ wk[w].state \in Active /\ wk[w].sent \in Counts
  BY DEF TypeOK, Slot

LEMMA DeskRests ==
    ASSUME rp \in [Repliers -> Desk], NEW p \in Repliers, rp' = [rp EXCEPT ![p] = AtRest]
    PROVE  /\ rp' \in [Repliers -> Desk]
           /\ rp'[p] = AtRest /\ \A q \in Repliers \ {p} : rp'[q] = rp[q]
  BY IdleSlot

LEMMA DeskWrites ==
    ASSUME rp \in [Repliers -> Desk], NEW p \in Repliers, NEW e,
           rp' = [rp EXCEPT ![p].todo = @ \ {e}]
    PROVE  /\ rp' \in [Repliers -> Desk]
           /\ rp'[p].todo = rp[p].todo \ {e} /\ rp'[p].sent = rp[p].sent
           /\ \A q \in Repliers \ {p} : rp'[q] = rp[q]
  BY DEF Desk

LEMMA DeskClaims ==
    ASSUME TypeOK, NEW p \in Repliers, NEW r \in Replies, NEW free \in SUBSET Enrollments,
           rp' = [rp EXCEPT ![p] = [reply |-> r, todo |-> free,
                                    sent |-> [e \in Enrollments |-> row[e].sent]]]
    PROVE  /\ rp' \in [Repliers -> Desk]
           /\ rp'[p].todo = free /\ rp'[p].sent = [e \in Enrollments |-> row[e].sent]
           /\ \A q \in Repliers \ {p} : rp'[q] = rp[q]
<1>1. [e \in Enrollments |-> row[e].sent] \in [Enrollments -> Counts]
  BY DEF TypeOK, Row
<1>2. [reply |-> r, todo |-> free, sent |-> [e \in Enrollments |-> row[e].sent]] \in Desk
  BY <1>1 DEF Desk
<1> QED  BY <1>2 DEF TypeOK

LEMMA InboxType ==
    ASSUME inbox \in [Replies -> Entry], NEW r \in Replies,
           NEW status \in {"absent", "new", "held", "done"},
           inbox' = [inbox EXCEPT ![r].status = status]
    PROVE  inbox' \in [Replies -> Entry]
  BY DEF Entry

LEMMA UnholdType ==
    ASSUME inbox \in [Replies -> Entry], NEW r \in Replies, Unhold(r)
    PROVE  inbox' \in [Replies -> Entry]
<1>1. CASE inbox[r].status = "done"
  BY <1>1, InboxType DEF Unhold
<1>2. CASE inbox[r].status # "done"
  BY <1>2, InboxType DEF Unhold
<1> QED  BY <1>1, <1>2

(* The rows that a reply claims.                                           *)
LEMMA RowClaims ==
    ASSUME row \in [Enrollments -> Row], NEW p, NEW r, ClaimWorkflowsForReply(p, r)
    PROVE  /\ row' \in [Enrollments -> Row]
           /\ \A e \in Enrollments :
                 /\ row'[e].kind = row[e].kind /\ row'[e].state = row[e].state
                 /\ row'[e].next = row[e].next /\ row'[e].sent = row[e].sent
                 /\ IF row[e].state \in Active /\ row[e].lease # "live"
                    THEN row'[e].lease = "live" ELSE row'[e] = row[e]
<1>1. ASSUME NEW c \in Row
      PROVE  /\ [c EXCEPT !.lease = "live"] \in Row
             /\ [c EXCEPT !.lease = "live"].kind = c.kind
             /\ [c EXCEPT !.lease = "live"].state = c.state
             /\ [c EXCEPT !.lease = "live"].next = c.next
             /\ [c EXCEPT !.lease = "live"].sent = c.sent
             /\ [c EXCEPT !.lease = "live"].lease = "live"
  BY DEF Row, Leases
<1>2. row' = [e \in Enrollments |->
                IF row[e].state \in Active /\ row[e].lease # "live"
                THEN [row[e] EXCEPT !.lease = "live"] ELSE row[e]]
  BY DEF ClaimWorkflowsForReply
<1> QED  BY <1>1, <1>2
-----------------------------------------------------------------------------
LEMMA InitType == Init => TypeOK
<1> SUFFICES ASSUME Init PROVE TypeOK
  OBVIOUS
<1> USE DEF Init
<1>1. row \in [Enrollments -> Row]
  <2>1. [kind: Kinds, state: {"absent"}, next: {"none"}, sent: {0}, lease: {"none"}] \subseteq Row
    BY Zero DEF Row, States, Times, Leases
  <2> QED  BY <2>1
<1>2. wk \in [Workers -> Slot] /\ \A w \in Workers : wk[w].pc = "idle" /\ wk[w].e = None
  BY IdleSlot DEF Idle
<1>3. inbox \in [Replies -> Entry]
  <2>1. [status |-> "absent", text |-> "other", about |-> {}] \in Entry
    BY DEF Entry, Texts
  <2> QED  BY <2>1
<1>4. rp \in [Repliers -> Desk]
  BY IdleSlot
<1> QED  BY <1>1, <1>2, <1>3, <1>4 DEF TypeOK

LEMMA NextType == TypeOK /\ [Next]_vars => TypeOK'
<1> SUFFICES ASSUME TypeOK, [Next]_vars PROVE TypeOK'
  OBVIOUS
<1> USE EnrollmentsAssumption
<1>1. /\ row \in [Enrollments -> Row] /\ jobs \in [Enrollments -> SUBSET Nat]
      /\ crm \in SUBSET (Enrollments \X Actions) /\ enabled \in BOOLEAN
      /\ WorkerType /\ inbox \in [Replies -> Entry] /\ rp \in [Repliers -> Desk]
      /\ rested \in [Enrollments -> BOOLEAN]
  BY DEF TypeOK, WorkerType
<1>2. ASSUME row' \in [Enrollments -> Row], jobs' \in [Enrollments -> SUBSET Nat],
             crm' \in SUBSET (Enrollments \X Actions), enabled' \in BOOLEAN,
             WorkerType', inbox' \in [Replies -> Entry], rp' \in [Repliers -> Desk],
             rested' \in [Enrollments -> BOOLEAN]
      PROVE  TypeOK'
  BY <1>2 DEF TypeOK, WorkerType
<1>3. CASE UNCHANGED vars
  BY <1>1, <1>2, <1>3 DEF vars, WorkerType
<1>4. ASSUME NEW e \in Enrollments, Enroll(e) PROVE TypeOK'
  <2>1. PICK next \in Times : row' = [row EXCEPT ![e].state = "pending", ![e].next = next]
    BY <1>4 DEF Enroll, Times
  <2>2. row' \in [Enrollments -> Row]
    BY <1>1, <2>1, RowEnroll DEF RowBecomes
  <2> QED  BY <1>1, <1>2, <1>4, <2>2 DEF Enroll, effects, WorkerType
<1>5. ASSUME NEW e \in Enrollments, BecomesDue(e) PROVE TypeOK'
  <2>1. row' \in [Enrollments -> Row]
    <3>1. "now" \in Times
      BY DEF Times
    <3> QED  BY <1>1, <1>5, <3>1, RowNext DEF BecomesDue, RowBecomes
  <2>2. rested' \in [Enrollments -> BOOLEAN]
    BY <1>1, <1>5 DEF BecomesDue
  <2> QED  BY <1>1, <1>2, <1>5, <2>1, <2>2 DEF BecomesDue, WorkerType
<1>6. ASSUME NEW e \in Enrollments, LeaseExpires(e) PROVE TypeOK'
  <2>1. row' \in [Enrollments -> Row]
    <3>1. "expired" \in Leases
      BY DEF Leases
    <3> QED  BY <1>1, <1>6, <3>1, RowLease DEF LeaseExpires, RowBecomes
  <2> QED  BY <1>1, <1>2, <1>6, <2>1 DEF LeaseExpires, effects, WorkerType
<1>7. ASSUME NEW b \in BOOLEAN, SetEnabled(b) PROVE TypeOK'
  BY <1>1, <1>2, <1>7 DEF SetEnabled, effects, WorkerType
<1>8. ASSUME NEW w \in Workers, NEW e \in Enrollments, ClaimDueWorkflow(w, e) PROVE TypeOK'
  <2>1. Take(w, e) /\ row[e].state \in Active
    BY <1>8 DEF ClaimDueWorkflow
  <2>2. row' \in [Enrollments -> Row]
    <3>1. "live" \in Leases
      BY DEF Leases
    <3> QED  BY <1>1, <2>1, <3>1, RowLease DEF Take, RowBecomes
  <2>3. WorkerType'
    BY <1>1, <2>1, WorkerTakes
  <2> QED  BY <1>1, <1>2, <2>1, <2>2, <2>3 DEF Take, effects
<1>9. ASSUME NEW w \in Workers, NotEnabled(w) \/ AdvanceError(w) \/ ApplyFails(w) PROVE TypeOK'
  <2>1. wk[w].pc # "idle" /\ (GoTo(w, "retry") \/ GoTo(w, "fail"))
    BY <1>9 DEF NotEnabled, AdvanceError, ApplyFails
  <2>2. WorkerType'
    BY <1>1, <2>1, WorkerGoes
  <2> QED  BY <1>1, <1>2, <1>9, <2>2 DEF NotEnabled, AdvanceError, ApplyFails, effects
<1>10. ASSUME NEW w \in Workers, Apply(w) PROVE TypeOK'
  <2>1. /\ wk[w].e \in Enrollments /\ wk[w].state \in Active /\ wk[w].sent \in Counts
        /\ row[wk[w].e] \in Row /\ wk[w].pc # "idle"
    BY <1>1, <1>10, WorkerHas DEF Apply
  <2>2. PICK plan \in Advance(wk[w].e, wk[w].state, wk[w].sent) :
            Write(wk[w].e, plan) /\ (Release(w) \/ GoTo(w, "retry"))
    BY <1>10 DEF Apply
  <2>3. plan \in Plans
    BY <2>1, AdvanceFollows
  <2>4. /\ row' \in [Enrollments -> Row] /\ crm' \in SUBSET (Enrollments \X Actions)
        /\ jobs' \in [Enrollments -> SUBSET Nat] /\ rested' \in [Enrollments -> BOOLEAN]
    BY <2>1, <2>2, <2>3, WriteEffect DEF RowBecomes
  <2>5. WorkerType'
    BY <1>1, <2>1, <2>2, WorkerGoes, WorkerReleases
  <2> QED  BY <1>1, <1>2, <1>10, <2>4, <2>5 DEF Apply
<1>11. ASSUME NEW w \in Workers, RetryWorkflow(w) PROVE TypeOK'
  <2>1. wk[w].e \in Enrollments
    BY <1>11, WorkerHas DEF RetryWorkflow
  <2>2. row' \in [Enrollments -> Row] /\ WorkerType'
    BY <1>1, <1>11, <2>1, RowRetry, WorkerReleases DEF RetryWorkflow, RowBecomes
  <2> QED  BY <1>1, <1>2, <1>11, <2>2 DEF RetryWorkflow, effects
<1>12. ASSUME NEW w \in Workers, FailWorkflow(w) PROVE TypeOK'
  <2>1. wk[w].e \in Enrollments
    BY <1>12, WorkerHas DEF FailWorkflow
  <2>2. row' \in [Enrollments -> Row] /\ WorkerType'
    BY <1>1, <1>12, <2>1, RowFail, WorkerReleases DEF FailWorkflow, RowBecomes
  <2> QED  BY <1>1, <1>2, <1>12, <2>2 DEF FailWorkflow, effects
<1>13. ASSUME NEW w \in Workers, Abandon(w) PROVE TypeOK'
  <2>1. WorkerType'
    BY <1>1, <1>13, WorkerReleases DEF Abandon
  <2> QED  BY <1>1, <1>2, <1>13, <2>1 DEF Abandon, effects
<1>14. ASSUME NEW r \in Replies, NEW text \in Texts, Arrive(r, text) PROVE TypeOK'
  <2>1. [status |-> "new", text |-> text,
         about |-> {e \in Enrollments : row[e].state \in Active}] \in Entry
    BY DEF Entry
  <2>2. inbox' \in [Replies -> Entry]
    BY <1>1, <1>14, <2>1 DEF Arrive
  <2> QED  BY <1>1, <1>2, <1>14, <2>2 DEF Arrive, effects, WorkerType
<1>15. ASSUME NEW r \in Replies, ReplyLeaseExpires(r) PROVE TypeOK'
  <2>1. inbox' \in [Replies -> Entry]
    BY <1>1, <1>15, UnholdType DEF ReplyLeaseExpires
  <2> QED  BY <1>1, <1>2, <1>15, <2>1 DEF ReplyLeaseExpires, effects, WorkerType
<1>16. ASSUME NEW p \in Repliers, NEW r \in Replies, ClaimWorkflowsForReply(p, r) PROVE TypeOK'
  <2>1. row' \in [Enrollments -> Row]
    BY <1>1, <1>16, RowClaims
  <2>2. inbox' \in [Replies -> Entry]
    BY <1>1, <1>16, InboxType DEF ClaimWorkflowsForReply
  <2>3. PICK free \in SUBSET Enrollments :
            free = {e \in Enrollments : row[e].state \in Active /\ row[e].lease # "live"}
    OBVIOUS
  <2>4. rp' \in [Repliers -> Desk]
    BY <1>16, <2>3, DeskClaims DEF ClaimWorkflowsForReply
  <2> QED  BY <1>1, <1>2, <1>16, <2>1, <2>2, <2>4
           DEF ClaimWorkflowsForReply, effects, WorkerType
<1>17. ASSUME NEW p \in Repliers, NEW e \in Enrollments, ApplyReply(p, e) PROVE TypeOK'
  <2>1. rp[p].sent[e] \in Counts
    BY <1>1 DEF Desk
  <2>2. PICK plan \in Plans : Write(e, plan)
    BY <1>17, <2>1, ReplyFollows DEF ApplyReply
  <2>3. /\ row' \in [Enrollments -> Row] /\ crm' \in SUBSET (Enrollments \X Actions)
        /\ jobs' \in [Enrollments -> SUBSET Nat] /\ rested' \in [Enrollments -> BOOLEAN]
    BY <2>2, WriteEffect DEF RowBecomes
  <2>4. rp' \in [Repliers -> Desk]
    BY <1>1, <1>17, DeskWrites DEF ApplyReply
  <2> QED  BY <1>1, <1>2, <1>17, <2>3, <2>4 DEF ApplyReply, WorkerType
<1>18. ASSUME NEW p \in Repliers, MarkProcessed(p) \/ ReplyFails(p) PROVE TypeOK'
  <2>1. rp[p].reply \in Replies
    BY <1>1, <1>18 DEF MarkProcessed, ReplyFails, Desk
  <2>2. inbox' \in [Replies -> Entry]
    BY <1>1, <1>18, <2>1, InboxType, UnholdType DEF MarkProcessed, ReplyFails
  <2>3. rp' \in [Repliers -> Desk]
    BY <1>1, <1>18, DeskRests DEF MarkProcessed, ReplyFails
  <2> QED  BY <1>1, <1>2, <1>18, <2>2, <2>3 DEF MarkProcessed, ReplyFails, effects, WorkerType
<1> QED  BY <1>3, <1>4, <1>5, <1>6, <1>7, <1>8, <1>9, <1>10, <1>11, <1>12, <1>13, <1>14,
            <1>15, <1>16, <1>17, <1>18 DEF Next, Work, Route

(* The types of everything in Enrollments.                                 *)
THEOREM TypeCorrect == Spec => []TypeOK
  BY InitType, NextType, PTL DEF Spec
-----------------------------------------------------------------------------
(* What a step does to an enrollment.                                      *)

(* Somebody has a copy of e's row that counts c.                           *)
Copy(e, c) == \/ \E w \in Workers : wk[w].e = e /\ wk[w].sent = c
              \/ \E p \in Repliers : e \in rp[p].todo /\ rp[p].sent[e] = c

(* A worker has e's row in hand.                                           *)
AtWork(e) == \E w \in Workers : wk[w].e = e

(* No copy of e is written back.                                           *)
Kept(e) ==
    /\ jobs'[e] = jobs[e]
    /\ \A a \in Actions : <<e, a>> \in crm' <=> <<e, a>> \in crm
    /\ row'[e].kind = row[e].kind /\ row'[e].sent = row[e].sent
    /\ \/ row'[e].state = row[e].state
       \/ row[e].state = "absent" /\ row'[e].state = "pending"
       \/ row'[e].state = "failed" /\ row'[e].lease = "none" /\ AtWork(e)
    /\ row'[e].lease # "none" => row[e].lease # "none" \/ row[e].state \in Active

(* A copy of e that counts c is written back with a plan.                  *)
WrittenBack(e, c, plan) ==
    /\ Copy(e, c) /\ Follows(e, c, plan) /\ Locked(e)
    /\ row'[e].kind = row[e].kind /\ row'[e].sent = plan.sent
    /\ row'[e].state = plan.state /\ row'[e].lease = "none"
    /\ jobs'[e] = IF plan.send THEN jobs[e] \cup {plan.sent} ELSE jobs[e]
    /\ \A a \in Actions : <<e, a>> \in crm' <=> <<e, a>> \in crm \/ a \in plan.actions

Written(e) == \E c \in Counts, plan \in Plans : WrittenBack(e, c, plan)

(* A copy is an old one, or one of the row as it is, which is active if a  *)
(* worker takes it.                                                        *)
CopiesFollow(e) ==
    /\ \A c \in Counts : Copy(e, c)' => Copy(e, c) \/ c = row[e].sent
    /\ AtWork(e)' => AtWork(e) \/ row[e].state \in Active

StepShape ==
    \A e \in Enrollments : (Kept(e) \/ Written(e)) /\ CopiesFollow(e)

LEMMA RowStays ==
    ASSUME UNCHANGED <<row, jobs, crm>>, NEW e \in Enrollments
    PROVE  Kept(e)
  BY DEF Kept

LEMMA RowOnly ==
    ASSUME NEW d \in Enrollments, NEW state, NEW next, NEW lease,
           RowBecomes(d, state, next, row[d].sent, lease), UNCHANGED <<jobs, crm>>,
           \/ state = row[d].state
           \/ row[d].state = "absent" /\ state = "pending"
           \/ state = "failed" /\ lease = "none" /\ AtWork(d),
           lease # "none" => row[d].lease # "none" \/ row[d].state \in Active,
           NEW e \in Enrollments
    PROVE  Kept(e)
<1>1. CASE e = d
  BY <1>1 DEF Kept, RowBecomes
<1>2. CASE e # d
  BY <1>2 DEF Kept, RowBecomes
<1> QED  BY <1>1, <1>2

LEMMA CopiesStay ==
    ASSUME \A w \in Workers : wk'[w] = Idle \/ (wk'[w].e = wk[w].e /\ wk'[w].sent = wk[w].sent),
           \A p \in Repliers : \/ rp'[p] = AtRest
                               \/ rp'[p].todo \subseteq rp[p].todo /\ rp'[p].sent = rp[p].sent,
           NEW e \in Enrollments
    PROVE  CopiesFollow(e)
  BY EnrollmentsAssumption DEF CopiesFollow, Copy, AtWork, Idle, AtRest

LEMMA WriteShape ==
    ASSUME TypeOK, NEW d \in Enrollments, NEW c \in Counts, NEW plan \in Plans,
           Copy(d, c), Follows(d, c, plan), Write(d, plan), NEW e \in Enrollments
    PROVE  Kept(e) \/ Written(e)
<1>1. /\ Locked(d) /\ RowBecomes(d, plan.state, plan.next, plan.sent, "none")
      /\ crm' = crm \cup {<<d, a>> : a \in plan.actions}
      /\ jobs'[d] = IF plan.send THEN jobs[d] \cup {plan.sent} ELSE jobs[d]
      /\ \A b \in Enrollments \ {d} : jobs'[b] = jobs[b]
  BY WriteEffect
<1>2. CASE e = d
  <2>1. \A a \in Actions : <<d, a>> \in crm' <=> <<d, a>> \in crm \/ a \in plan.actions
    BY <1>1
  <2>2. WrittenBack(d, c, plan)
    BY <1>1, <2>1 DEF WrittenBack, RowBecomes
  <2> QED  BY <1>2, <2>2 DEF Written
<1>3. CASE e # d
  <2>1. \A a \in Actions : <<e, a>> \in crm' <=> <<e, a>> \in crm
    BY <1>1, <1>3
  <2> QED  BY <1>1, <1>3, <2>1 DEF Kept, RowBecomes
<1> QED  BY <1>2, <1>3

LEMMA NextShape ==
    ASSUME TypeOK, [Next]_vars
    PROVE  StepShape
<1> SUFFICES ASSUME NEW d \in Enrollments
             PROVE  (Kept(d) \/ Written(d)) /\ CopiesFollow(d)
  BY DEF StepShape
<1> USE EnrollmentsAssumption
<1>1. row \in [Enrollments -> Row] /\ WorkerType /\ rp \in [Repliers -> Desk]
  BY DEF TypeOK, WorkerType
<1>2. ASSUME UNCHANGED <<wk, rp>> PROVE CopiesFollow(d)
  BY <1>2, CopiesStay
<1>3. ASSUME NEW w \in Workers, UNCHANGED rp,
             \A v \in Workers \ {w} : wk'[v] = wk[v],
             wk'[w] = Idle \/ (wk'[w].e = wk[w].e /\ wk'[w].sent = wk[w].sent)
      PROVE  CopiesFollow(d)
  BY <1>3, CopiesStay
<1>4. CASE UNCHANGED vars
  BY <1>2, <1>4, RowStays DEF vars
<1>5. ASSUME NEW e \in Enrollments, Enroll(e) PROVE Kept(d) /\ CopiesFollow(d)
  <2>1. PICK next \in Times : row' = [row EXCEPT ![e].state = "pending", ![e].next = next]
    BY <1>5 DEF Enroll, Times
  <2>2. RowBecomes(e, "pending", next, row[e].sent, row[e].lease)
    BY <1>1, <2>1, RowEnroll
  <2> QED  BY <1>2, <1>5, <2>2, RowOnly DEF Enroll, effects
<1>6. ASSUME NEW e \in Enrollments, BecomesDue(e) PROVE Kept(d) /\ CopiesFollow(d)
  <2>1. "now" \in Times
    BY DEF Times
  <2>2. RowBecomes(e, row[e].state, "now", row[e].sent, row[e].lease)
    BY <1>1, <1>6, <2>1, RowNext DEF BecomesDue
  <2> QED  BY <1>2, <1>6, <2>2, RowOnly DEF BecomesDue
<1>7. ASSUME NEW e \in Enrollments, LeaseExpires(e) PROVE Kept(d) /\ CopiesFollow(d)
  <2>1. "expired" \in Leases
    BY DEF Leases
  <2>2. RowBecomes(e, row[e].state, row[e].next, row[e].sent, "expired")
    BY <1>1, <1>7, <2>1, RowLease DEF LeaseExpires
  <2> QED  BY <1>2, <1>7, <2>2, RowOnly DEF LeaseExpires, effects
<1>8. ASSUME NEW b \in BOOLEAN, SetEnabled(b) PROVE Kept(d) /\ CopiesFollow(d)
  BY <1>2, <1>8, RowStays DEF SetEnabled, effects
<1>9. ASSUME NEW w \in Workers, NEW e \in Enrollments, ClaimDueWorkflow(w, e)
      PROVE  Kept(d) /\ CopiesFollow(d)
  <2>1. Take(w, e) /\ row[e].state \in Active
    BY <1>9 DEF ClaimDueWorkflow
  <2>2. Kept(d)
    <3>1. "live" \in Leases
      BY DEF Leases
    <3>2. RowBecomes(e, row[e].state, row[e].next, row[e].sent, "live")
      BY <1>1, <2>1, <3>1, RowLease DEF Take
    <3> QED  BY <2>1, <3>2, RowOnly DEF Take, effects
  <2>3. /\ \A v \in Workers \ {w} : wk'[v] = wk[v]
        /\ wk'[w].e = e /\ wk'[w].sent = row[e].sent /\ rp' = rp
    BY <1>1, <2>1, WorkerTakes DEF Take
  <2> QED  BY <2>1, <2>2, <2>3 DEF CopiesFollow, Copy, AtWork
<1>10. ASSUME NEW w \in Workers, NotEnabled(w) \/ AdvanceError(w) \/ ApplyFails(w)
       PROVE  Kept(d) /\ CopiesFollow(d)
  <2>1. wk[w].pc # "idle" /\ (GoTo(w, "retry") \/ GoTo(w, "fail"))
    BY <1>10 DEF NotEnabled, AdvanceError, ApplyFails
  <2>2. CopiesFollow(d)
    BY <1>1, <1>3, <1>10, <2>1, WorkerGoes DEF NotEnabled, AdvanceError, ApplyFails
  <2> QED  BY <1>10, <2>2, RowStays DEF NotEnabled, AdvanceError, ApplyFails, effects
<1>11. ASSUME NEW w \in Workers, Apply(w) PROVE (Kept(d) \/ Written(d)) /\ CopiesFollow(d)
  <2>1. /\ wk[w].e \in Enrollments /\ wk[w].state \in Active /\ wk[w].sent \in Counts
        /\ row[wk[w].e] \in Row /\ wk[w].pc # "idle"
    BY <1>1, <1>11, WorkerHas DEF Apply
  <2>2. PICK plan \in Advance(wk[w].e, wk[w].state, wk[w].sent) :
            Write(wk[w].e, plan) /\ (Release(w) \/ GoTo(w, "retry"))
    BY <1>11 DEF Apply
  <2>3. plan \in Plans /\ Follows(wk[w].e, wk[w].sent, plan)
    BY <2>1, AdvanceFollows
  <2>4. Copy(wk[w].e, wk[w].sent)
    BY DEF Copy
  <2>5. Kept(d) \/ Written(d)
    BY <2>1, <2>2, <2>3, <2>4, WriteShape
  <2>6. CopiesFollow(d)
    BY <1>1, <1>3, <1>11, <2>1, <2>2, WorkerGoes, WorkerReleases DEF Apply
  <2> QED  BY <2>5, <2>6
<1>12. ASSUME NEW w \in Workers, RetryWorkflow(w) PROVE Kept(d) /\ CopiesFollow(d)
  <2>1. wk[w].e \in Enrollments
    BY <1>12, WorkerHas DEF RetryWorkflow
  <2>2. RowBecomes(wk[w].e, row[wk[w].e].state, "soon", row[wk[w].e].sent, "none")
    BY <1>1, <1>12, <2>1, RowRetry DEF RetryWorkflow
  <2>3. Kept(d)
    BY <1>12, <2>1, <2>2, RowOnly DEF RetryWorkflow, effects
  <2>4. CopiesFollow(d)
    BY <1>1, <1>3, <1>12, WorkerReleases DEF RetryWorkflow
  <2> QED  BY <2>3, <2>4
<1>13. ASSUME NEW w \in Workers, FailWorkflow(w) PROVE Kept(d) /\ CopiesFollow(d)
  <2>1. wk[w].e \in Enrollments
    BY <1>13, WorkerHas DEF FailWorkflow
  <2>2. RowBecomes(wk[w].e, "failed", "none", row[wk[w].e].sent, "none")
    BY <1>1, <1>13, <2>1, RowFail DEF FailWorkflow
  <2>3. Kept(d)
    BY <1>13, <2>1, <2>2, RowOnly DEF FailWorkflow, effects, AtWork
  <2>4. CopiesFollow(d)
    BY <1>1, <1>3, <1>13, WorkerReleases DEF FailWorkflow
  <2> QED  BY <2>3, <2>4
<1>14. ASSUME NEW w \in Workers, Abandon(w) PROVE Kept(d) /\ CopiesFollow(d)
  <2>1. CopiesFollow(d)
    BY <1>1, <1>3, <1>14, WorkerReleases DEF Abandon
  <2> QED  BY <1>14, <2>1, RowStays DEF Abandon, effects
<1>15. ASSUME NEW r \in Replies, ReplyLeaseExpires(r) \/ \E text \in Texts : Arrive(r, text)
       PROVE  Kept(d) /\ CopiesFollow(d)
  BY <1>2, <1>15, RowStays DEF ReplyLeaseExpires, Arrive, effects
<1>16. ASSUME NEW p \in Repliers, NEW r \in Replies, ClaimWorkflowsForReply(p, r)
       PROVE  Kept(d) /\ CopiesFollow(d)
  <2>1. Kept(d)
    <3>1. UNCHANGED <<jobs, crm>>
      BY <1>16 DEF ClaimWorkflowsForReply, effects
    <3> QED  BY <1>1, <1>16, <3>1, RowClaims DEF Kept
  <2>2. PICK free \in SUBSET Enrollments :
            free = {e \in Enrollments : row[e].state \in Active /\ row[e].lease # "live"}
    OBVIOUS
  <2>3. /\ rp'[p].sent = [e \in Enrollments |-> row[e].sent]
        /\ \A q \in Repliers \ {p} : rp'[q] = rp[q]
    BY <1>16, <2>2, DeskClaims DEF ClaimWorkflowsForReply
  <2>4. wk' = wk
    BY <1>16 DEF ClaimWorkflowsForReply
  <2> QED  BY <2>1, <2>3, <2>4 DEF CopiesFollow, Copy, AtWork
<1>17. ASSUME NEW p \in Repliers, NEW e \in Enrollments, ApplyReply(p, e)
       PROVE  (Kept(d) \/ Written(d)) /\ CopiesFollow(d)
  <2>1. rp[p].sent[e] \in Counts
    BY <1>1 DEF Desk
  <2>2. PICK plan \in Plans : Write(e, plan) /\ Follows(e, rp[p].sent[e], plan)
    BY <1>17, <2>1, ReplyFollows DEF ApplyReply
  <2>3. Copy(e, rp[p].sent[e])
    BY <1>17 DEF Copy, ApplyReply
  <2>4. Kept(d) \/ Written(d)
    BY <2>1, <2>2, <2>3, WriteShape
  <2>5. /\ rp'[p].todo = rp[p].todo \ {e} /\ rp'[p].sent = rp[p].sent
        /\ \A q \in Repliers \ {p} : rp'[q] = rp[q]
    BY <1>1, <1>17, DeskWrites DEF ApplyReply
  <2>6. CopiesFollow(d)
    BY <1>17, <2>5, CopiesStay DEF ApplyReply
  <2> QED  BY <2>4, <2>6
<1>18. ASSUME NEW p \in Repliers, MarkProcessed(p) \/ ReplyFails(p)
       PROVE  Kept(d) /\ CopiesFollow(d)
  <2>1. rp'[p] = AtRest /\ \A q \in Repliers \ {p} : rp'[q] = rp[q]
    BY <1>1, <1>18, DeskRests DEF MarkProcessed, ReplyFails
  <2>2. CopiesFollow(d)
    BY <1>18, <2>1, CopiesStay DEF MarkProcessed, ReplyFails
  <2> QED  BY <1>18, <2>2, RowStays DEF MarkProcessed, ReplyFails, effects
<1> QED  BY <1>4, <1>5, <1>6, <1>7, <1>8, <1>9, <1>10, <1>11, <1>12, <1>13, <1>14,
            <1>15, <1>16, <1>17, <1>18 DEF Next, Work, Route
-----------------------------------------------------------------------------
(* Whatever the leases do.                                                 *)

LEMMA NextLocked ==
    ASSUME TypeOK, LockedIsActive, [Next]_vars
    PROVE  LockedIsActive'
<1> SUFFICES ASSUME NEW e \in Enrollments, row'[e].lease # "none"
             PROVE  row'[e].state \in Active
  BY DEF LockedIsActive
<1>1. (Kept(e) \/ Written(e)) /\ ~Written(e)
  BY NextShape DEF StepShape, Written, WrittenBack
<1> QED  BY <1>1 DEF Kept, LockedIsActive, Active

(* A row that is locked is active: the lock that writing back asks for     *)
(* keeps late processes off closed enrollments.                            *)
THEOREM LockedTheorem == Spec => []LockedIsActive
<1>1. Init => LockedIsActive
  BY DEF Init, LockedIsActive
<1>2. TypeOK /\ LockedIsActive /\ [Next]_vars => LockedIsActive'
  BY NextLocked
<1> QED  BY <1>1, <1>2, TypeCorrect, PTL DEF Spec

(* A closed enrollment stays closed and sends nothing more, however stale  *)
(* the copies that are about.                                              *)
THEOREM ClosedTheorem == Spec => ClosedSendsNothing
<1>1. ASSUME TypeOK, LockedIsActive, [Next]_vars
      PROVE  [\A e \in Enrollments : row[e].state \in Closed =>
                 row'[e].state \in Closed /\ jobs'[e] = jobs[e]]_vars
  <2> SUFFICES ASSUME NEW e \in Enrollments, row[e].state \in Closed
               PROVE  row'[e].state \in Closed /\ jobs'[e] = jobs[e]
    OBVIOUS
  <2>1. row[e].lease = "none"
    BY <1>1 DEF LockedIsActive, Active, Closed
  <2>2. Kept(e)
    BY <1>1, <2>1, NextShape DEF StepShape, Written, WrittenBack, Locked
  <2> QED  BY <2>2 DEF Kept, Closed
<1> QED  BY <1>1, TypeCorrect, LockedTheorem, PTL DEF Spec, ClosedSendsNothing

(* The occurrences sent are the first k, and no copy counts more.          *)
Ordered(e, k) ==
    /\ jobs[e] = 1..k /\ row[e].sent <= k
    /\ \A c \in Counts : Copy(e, c) => c <= k

OrderInv == \A e \in Enrollments : \E k \in 0..Limit(e) : Ordered(e, k)

LEMMA NextOrder ==
    ASSUME TypeOK, OrderInv, [Next]_vars
    PROVE  OrderInv'
<1> SUFFICES ASSUME NEW e \in Enrollments
             PROVE  \E k \in 0..Limit(e)' : Ordered(e, k)'
  BY DEF OrderInv
<1>1. PICK k \in 0..Limit(e) : Ordered(e, k)
  BY DEF OrderInv
<1>2. k \in Nat /\ Limit(e) \in Nat /\ k <= Limit(e) /\ Counts \subseteq Nat
  BY LimitBound, Zero
<1>3. (Kept(e) \/ Written(e)) /\ CopiesFollow(e)
  BY NextShape DEF StepShape
<1>4. row[e].sent \in Counts
  BY DEF TypeOK, Row
<1>5. \A c \in Counts : Copy(e, c)' => c <= k
  BY <1>1, <1>3, <1>4 DEF CopiesFollow, Ordered
<1>6. Limit(e)' = Limit(e)
  BY <1>3 DEF Kept, Written, WrittenBack, Limit
<1>7. CASE Kept(e)
  <2>1. Ordered(e, k)'
    BY <1>1, <1>5, <1>7 DEF Ordered, Kept
  <2> QED  BY <1>6, <2>1
<1>8. CASE Written(e)
  <2>1. PICK c \in Counts, plan \in Plans : WrittenBack(e, c, plan)
    BY <1>8 DEF Written
  <2>2. c \in Nat /\ c <= k
    BY <1>1, <1>2, <2>1 DEF WrittenBack, Ordered
  <2>3. CASE ~plan.send
    <3>1. jobs'[e] = 1..k /\ row'[e].sent = c
      BY <1>1, <2>1, <2>3, PlanBounds DEF WrittenBack, Ordered
    <3>2. Ordered(e, k)'
      BY <1>5, <2>2, <3>1 DEF Ordered
    <3> QED  BY <1>6, <3>2
  <2>4. CASE plan.send
    <3>1. jobs'[e] = (1..k) \cup {c + 1} /\ row'[e].sent = c + 1 /\ c < Limit(e)
      BY <1>1, <2>1, <2>4, PlanBounds DEF WrittenBack, Ordered
    <3>2. CASE c < k
      <4>1. jobs'[e] = 1..k /\ row'[e].sent <= k
        BY <1>2, <2>2, <3>1, <3>2
      <4>2. Ordered(e, k)'
        BY <1>5, <4>1 DEF Ordered
      <4> QED  BY <1>6, <4>2
    <3>3. CASE c = k
      <4>1. jobs'[e] = 1..(k + 1) /\ row'[e].sent <= k + 1 /\ k + 1 \in 0..Limit(e)
        BY <1>2, <3>1, <3>3
      <4>2. \A n \in Counts : Copy(e, n)' => n <= k + 1
        BY <1>2, <1>5
      <4>3. Ordered(e, k + 1)'
        BY <4>1, <4>2 DEF Ordered
      <4> QED  BY <1>6, <4>1, <4>3
    <3> QED  BY <1>2, <2>2, <3>2, <3>3
  <2> QED  BY <2>3, <2>4
<1> QED  BY <1>3, <1>7, <1>8

LEMMA InitOrder == Init => OrderInv
<1> SUFFICES ASSUME Init, NEW e \in Enrollments
             PROVE  Ordered(e, 0) /\ 0 \in 0..Limit(e)
  BY DEF OrderInv
<1>1. row[e].sent = 0 /\ jobs[e] = 1..0
  BY DEF Init
<1>2. \A c \in Counts : ~Copy(e, c)
  BY EnrollmentsAssumption DEF Init, Copy, Idle, AtRest
<1> QED  BY <1>1, <1>2, LimitBound DEF Ordered

(* An enrollment sends its occurrences in order, none twice, none skipped, *)
(* and no more than its workflow allows, however stale the copies.         *)
THEOREM OrderTheorem == Spec => []OccurrencesInOrder
<1>1. TypeOK /\ OrderInv /\ [Next]_vars => OrderInv'
  BY NextOrder
<1>2. OrderInv => OccurrencesInOrder
  BY DEF OrderInv, Ordered, OccurrencesInOrder
<1> QED  BY InitOrder, <1>1, <1>2, TypeCorrect, PTL DEF Spec

LEMMA NextOutcome ==
    ASSUME TypeOK, LockedIsActive, OneOutcome, [Next]_vars
    PROVE  OneOutcome'
<1> SUFFICES ASSUME NEW e \in Enrollments
             PROVE  LET outcome == {a \in Actions : <<e, a>> \in crm'} IN
                    /\ outcome \in {{}, Tasks, {"reply"}}
                    /\ outcome # {} => row'[e].state \in {"completed", "failed"}
  BY DEF OneOutcome
<1> DEFINE was == {a \in Actions : <<e, a>> \in crm}
           is  == {a \in Actions : <<e, a>> \in crm'}
<1>1. was \in {{}, Tasks, {"reply"}} /\ (was # {} => row[e].state \in {"completed", "failed"})
  BY DEF OneOutcome
<1>2. CASE Kept(e)
  <2>1. is = was
    BY <1>2 DEF Kept
  <2> QED  BY <1>1, <1>2, <2>1 DEF Kept
<1>3. CASE Written(e)
  <2>1. PICK c \in Counts, plan \in Plans : WrittenBack(e, c, plan)
    BY <1>3 DEF Written
  <2>2. was = {}
    <3>1. row[e].state \in Active
      BY <2>1 DEF WrittenBack, Locked, LockedIsActive
    <3> QED  BY <1>1, <3>1 DEF Active
  <2>3. plan.actions \subseteq Actions
    BY DEF Plans
  <2>4. is = plan.actions
    BY <2>1, <2>2, <2>3 DEF WrittenBack
  <2> QED  BY <2>1, <2>4, PlanBounds DEF WrittenBack
<1> QED  BY <1>2, <1>3, NextShape DEF StepShape

(* Its own plan and a reply do not both become the outcome of an           *)
(* enrollment for the CRM, and there is none before it is closed.          *)
THEOREM OutcomeTheorem == Spec => []OneOutcome
<1>1. Init => OneOutcome
  BY DEF Init, OneOutcome
<1>2. TypeOK /\ LockedIsActive /\ OneOutcome /\ [Next]_vars => OneOutcome'
  BY NextOutcome
<1> QED  BY <1>1, <1>2, TypeCorrect, LockedTheorem, PTL DEF Spec
-----------------------------------------------------------------------------
(* Each enrollment runs its campaign.  Beyond the above: a row that a      *)
(* worker has in hand is there, and a manual enrollment sends nothing.     *)
HeldInv ==
    \A e \in Enrollments :
        /\ AtWork(e) => row[e].state # "absent"
        /\ row[e].kind = "manual" => jobs[e] = {}

LEMMA NextHeld ==
    ASSUME TypeOK, HeldInv, [Next]_vars
    PROVE  HeldInv'
<1> SUFFICES ASSUME NEW e \in Enrollments
             PROVE  /\ AtWork(e)' => row'[e].state # "absent"
                    /\ row'[e].kind = "manual" => jobs'[e] = {}
  BY DEF HeldInv
<1>1. (Kept(e) \/ Written(e)) /\ CopiesFollow(e)
  BY NextShape DEF StepShape
<1>2. CASE Kept(e)
  BY <1>1, <1>2 DEF HeldInv, Kept, CopiesFollow, Active
<1>3. CASE Written(e)
  <2>1. PICK c \in Counts, plan \in Plans : WrittenBack(e, c, plan)
    BY <1>3 DEF Written
  <2>2. Waits(plan) \/ Sends(e, c, plan) \/ Ends(e, c, plan)
    BY <2>1 DEF WrittenBack, Follows
  <2>3. plan.state # "absent" /\ (plan.send => row[e].kind # "manual")
    BY <2>2 DEF Waits, Sends, Ends, Active
  <2> QED  BY <2>1, <2>3 DEF WrittenBack, HeldInv
<1> QED  BY <1>1, <1>2, <1>3

CampaignInv == TypeOK /\ LockedIsActive /\ OrderInv /\ OneOutcome /\ HeldInv

LEMMA KeptCampaign ==
    ASSUME CampaignInv, NEW e \in Enrollments, Kept(e)
    PROVE  Promise(e)!Step
<1>1. /\ UNCHANGED jobs[e] /\ Length(e)' = Length(e)
  BY DEF Kept, Length, Limit
<1>2. Outcome(e)' = Outcome(e)
  BY DEF Kept, Outcome
<1>3. CASE row'[e].state = row[e].state
  <2>1. Phase(e)' = Phase(e)
    BY <1>3 DEF Phase
  <2> QED  BY <1>1, <1>2, <2>1 DEF Promise!Step, Promise!campaignVars
<1>4. CASE row[e].state = "absent" /\ row'[e].state = "pending"
  <2>1. Phase(e) = "absent" /\ Phase(e)' = "open"
    BY <1>4 DEF Phase, Active
  <2>2. Promise(e)!Start
    BY <1>1, <1>2, <2>1 DEF Promise!Start
  <2> QED  BY <2>2 DEF Promise!Step, Promise!Next
<1>5. CASE row'[e].state = "failed" /\ AtWork(e)
  <2>1. Phase(e) # "absent" /\ Phase(e)' = "failed"
    BY <1>5 DEF CampaignInv, HeldInv, Phase, Active
  <2>2. Promise(e)!Failed
    BY <1>1, <1>2, <2>1 DEF Promise!Failed
  <2> QED  BY <2>2 DEF Promise!Step, Promise!Next
<1> QED  BY <1>3, <1>4, <1>5 DEF Kept

LEMMA WrittenCampaign ==
    ASSUME CampaignInv, NEW e \in Enrollments,
           NEW c \in Counts, NEW plan \in Plans, WrittenBack(e, c, plan)
    PROVE  Promise(e)!Step
<1>1. PICK k \in 0..Limit(e) : Ordered(e, k)
  BY DEF CampaignInv, OrderInv
<1>2. /\ Limit(e) \in Nat /\ Limit(e) > 0 /\ k \in Nat /\ k <= Limit(e)
      /\ c \in Nat /\ c <= k
  <2>1. Limit(e) \in Nat /\ Counts \subseteq Nat
    BY LimitBound, Zero
  <2>2. Limit(e) > 0
    BY EnrollmentsAssumption DEF Limit
  <2> QED  BY <1>1, <2>1, <2>2 DEF WrittenBack, Ordered
<1>3. row[e].state \in Active /\ Phase(e) = "open"
  BY DEF WrittenBack, Locked, CampaignInv, LockedIsActive, Phase
<1>4. Outcome(e) = {}
  BY <1>3 DEF CampaignInv, OneOutcome, Outcome, Active
<1>5. Length(e)' = Length(e) /\ Phase(e)' = IF plan.state \in Active THEN "open" ELSE plan.state
  BY DEF WrittenBack, Length, Limit, Phase
<1>6. Outcome(e)' = plan.actions
  <2>1. plan.actions \subseteq Actions
    BY DEF Plans
  <2>2. \A a \in Actions : <<e, a>> \in crm' <=> <<e, a>> \in crm \/ a \in plan.actions
    BY DEF WrittenBack
  <2> QED  BY <1>4, <2>1, <2>2 DEF Outcome
<1>7. jobs[e] = 1..k /\ jobs'[e] = IF plan.send THEN jobs[e] \cup {c + 1} ELSE jobs[e]
  <2>1. jobs[e] = 1..k
    BY <1>1 DEF Ordered
  <2>2. /\ jobs'[e] = IF plan.send THEN jobs[e] \cup {plan.sent} ELSE jobs[e]
        /\ Follows(e, c, plan)
    BY DEF WrittenBack
  <2>3. plan.send => plan.sent = c + 1
    BY <2>2, PlanBounds
  <2> QED  BY <2>1, <2>2, <2>3
<1>8. CASE Waits(plan)
  <2>1. Phase(e)' = Phase(e) /\ Outcome(e)' = Outcome(e) /\ UNCHANGED jobs[e]
    BY <1>3, <1>4, <1>5, <1>6, <1>7, <1>8 DEF Waits
  <2> QED  BY <1>5, <2>1 DEF Promise!Step, Promise!campaignVars
<1>9. CASE Sends(e, c, plan)
  <2>1. /\ Phase(e)' = Phase(e) /\ Outcome(e)' = Outcome(e)
        /\ Length(e) = Limit(e) /\ jobs'[e] = (1..k) \cup {c + 1} /\ c < Limit(e)
    BY <1>3, <1>4, <1>5, <1>6, <1>7, <1>9 DEF Sends, Active, Length
  <2>2. CASE c < k
    <3>1. (1..k) \cup {c + 1} = 1..k
      BY <1>2, <2>2
    <3> QED  BY <1>5, <1>7, <2>1, <3>1 DEF Promise!Step, Promise!campaignVars
  <2>3. CASE c = k
    <3>1. (1..k) \cup {c + 1} = 1..(k + 1) /\ k + 1 \in 1..Length(e) /\ (k + 1) - 1 = k
      BY <1>2, <2>1, <2>3
    <3>2. Promise(e)!Send
      BY <1>3, <1>5, <1>7, <2>1, <3>1 DEF Promise!Send
    <3> QED  BY <3>2 DEF Promise!Step, Promise!Next
  <2> QED  BY <1>2, <2>2, <2>3
<1>10. CASE Ends(e, c, plan)
  <2>1. UNCHANGED jobs[e]
    BY <1>7, <1>10 DEF Ends
  <2>2. CASE plan.state = "suppressed" /\ plan.actions = {}
    <3>1. Phase(e)' = "suppressed" /\ Outcome(e)' = Outcome(e)
      BY <1>4, <1>5, <1>6, <2>2 DEF Active
    <3>2. Promise(e)!Stopped
      BY <1>3, <1>5, <2>1, <3>1 DEF Promise!Stopped
    <3> QED  BY <3>2 DEF Promise!Step, Promise!Next
  <2>3. CASE plan.state = "completed" /\ plan.actions = {"reply"}
    <3>1. Phase(e)' = "completed" /\ Outcome(e)' = {"reply"}
      BY <1>5, <1>6, <2>3 DEF Active
    <3>2. Promise(e)!Answered
      BY <1>3, <1>5, <2>1, <3>1 DEF Promise!Answered
    <3> QED  BY <3>2 DEF Promise!Step, Promise!Next
  <2>4. CASE /\ plan.state = "completed"
             /\ IF row[e].kind = "manual" THEN plan.actions = Tasks
                                          ELSE plan.actions = {} /\ c >= Limit(e)
    <3>1. Phase(e)' = "completed"
      BY <1>5, <2>4 DEF Active
    <3>2. jobs[e] = 1..Length(e)
      <4>1. CASE row[e].kind = "manual"
        BY <4>1 DEF CampaignInv, HeldInv, Length
      <4>2. CASE row[e].kind # "manual"
        BY <1>2, <1>7, <2>4, <4>2 DEF Length
      <4> QED  BY <4>1, <4>2
    <3>3. Outcome(e)' = IF Length(e) = 0 THEN Tasks ELSE Outcome(e)
      BY <1>2, <1>4, <1>6, <2>4 DEF Length
    <3>4. Promise(e)!Finish
      BY <1>3, <1>5, <2>1, <3>1, <3>2, <3>3 DEF Promise!Finish
    <3> QED  BY <3>4 DEF Promise!Step, Promise!Next
  <2> QED  BY <1>10, <2>2, <2>3, <2>4 DEF Ends
<1> QED  BY <1>8, <1>9, <1>10 DEF WrittenBack, Follows

LEMMA InitCampaign == Init => HeldInv /\ \A e \in Enrollments : Promise(e)!Init
<1> SUFFICES ASSUME Init, NEW e \in Enrollments
             PROVE  /\ ~AtWork(e) /\ jobs[e] = {}
                    /\ Promise(e)!Init
  BY DEF HeldInv
<1>1. row[e].state = "absent" /\ jobs[e] = {} /\ crm = {}
  BY DEF Init
<1>2. ~AtWork(e)
  BY EnrollmentsAssumption DEF Init, AtWork, Idle
<1>3. Phase(e) = "absent" /\ Length(e) \in Nat /\ Outcome(e) = {}
  BY <1>1, LimitBound DEF Phase, Active, Length, Outcome
<1> QED  BY <1>1, <1>2, <1>3 DEF Promise!Init

LEMMA CampaignInvariant == Spec => []CampaignInv
<1>1. Init => HeldInv
  BY InitCampaign
<1>2. TypeOK /\ HeldInv /\ [Next]_vars => HeldInv'
  BY NextHeld
<1>3. Spec => []HeldInv
  BY <1>1, <1>2, TypeCorrect, PTL DEF Spec
<1>4. Spec => []OrderInv
  <2>1. TypeOK /\ OrderInv /\ [Next]_vars => OrderInv'
    BY NextOrder
  <2> QED  BY InitOrder, <2>1, TypeCorrect, PTL DEF Spec
<1>5. TypeOK /\ LockedIsActive /\ OrderInv /\ OneOutcome /\ HeldInv => CampaignInv
  BY DEF CampaignInv
<1> QED  BY <1>3, <1>4, <1>5, TypeCorrect, LockedTheorem, OutcomeTheorem, PTL

(* The engine implements the campaign of each enrollment: whoever is late, *)
(* whatever is lost, every step is one of the campaign or leaves it alone. *)
THEOREM CampaignTheorem == Spec => ImplementsCampaign
<1>1. Init => \A e \in Enrollments : Promise(e)!Init
  BY InitCampaign
<1>2. ASSUME CampaignInv, [Next]_vars, NEW e \in Enrollments PROVE Promise(e)!Step
  <2>1. Kept(e) \/ Written(e)
    BY <1>2, NextShape DEF CampaignInv, StepShape
  <2> QED  BY <1>2, <2>1, KeptCampaign, WrittenCampaign DEF Written
<1>3. CampaignInv /\ [Next]_vars => [\A e \in Enrollments : Promise(e)!Step]_vars
  BY <1>2
<1> QED  BY <1>1, <1>3, CampaignInvariant, PTL DEF Spec, ImplementsCampaign

(* The same, an enrollment at a time: its rows and jobs behave as Campaign *)
(* specifies.                                                              *)
COROLLARY PromiseTheorem == ASSUME NEW e \in Enrollments PROVE Spec => Promise(e)!Spec
<1>1. Init => Promise(e)!Init
  BY InitCampaign
<1>2. CampaignInv /\ [Next]_vars => [Promise(e)!Next]_(Promise(e)!campaignVars)
  <2> SUFFICES ASSUME CampaignInv, [Next]_vars
               PROVE  Promise(e)!Step
    BY DEF Promise!Step, Promise!campaignVars
  <2>1. Kept(e) \/ Written(e)
    BY NextShape DEF CampaignInv, StepShape
  <2> QED  BY <2>1, KeptCampaign, WrittenCampaign DEF Written
<1> QED  BY <1>1, <1>2, CampaignInvariant, PTL DEF Spec, Promise!Spec
-----------------------------------------------------------------------------
(* An enrollment whose claims nobody outlives and whose commits are        *)
(* reported as they are, whatever happens to the others.                   *)

(* The lease of e does not run out under a process that works on e, and no *)
(* worker that has e takes its commit for lost.                            *)
Undisturbed(e) ==
    /\ LeaseExpires(e) => ~Claimed(e)
    /\ \A w \in Workers : wk[w].e = e => ~(Apply(w) /\ LostCommit)

(* Whoever has a copy has the row's claim, alone.                          *)
Exclusive(e) ==
    /\ \A v, w \in Workers : wk[v].e = e /\ wk[w].e = e => v = w
    /\ \A p, q \in Repliers : e \in rp[p].todo /\ e \in rp[q].todo => p = q
    /\ \A w \in Workers, p \in Repliers : ~(wk[w].e = e /\ e \in rp[p].todo)

ClaimFor(e) == Exclusive(e) /\ (Claimed(e) => row[e].lease = "live")

(* Going on, putting copies down, and other rows' leases.                  *)
LEMMA ClaimFrame ==
    ASSUME NEW e \in Enrollments, ClaimFor(e),
           \A w \in Workers : wk'[w].e = e => wk[w].e = e,
           \A p \in Repliers : e \in rp'[p].todo => e \in rp[p].todo,
           Claimed(e)' => row'[e].lease = row[e].lease
    PROVE  ClaimFor(e)'
<1>1. Claimed(e)' => Claimed(e)
  BY DEF Claimed
<1>2. Exclusive(e)'
  BY DEF ClaimFor, Exclusive
<1> QED  BY <1>1, <1>2 DEF ClaimFor

LEMMA NextClaimFor ==
    ASSUME NEW d \in Enrollments, TypeOK, ClaimFor(d), Undisturbed(d), [Next]_vars
    PROVE  ClaimFor(d)'
<1> USE EnrollmentsAssumption
<1>1. row \in [Enrollments -> Row] /\ WorkerType /\ rp \in [Repliers -> Desk]
  BY DEF TypeOK, WorkerType
<1>2. ASSUME UNCHANGED <<wk, rp>>, Claimed(d) => row'[d].lease = row[d].lease
      PROVE  ClaimFor(d)'
  <2>1. Claimed(d)' => Claimed(d)
    BY <1>2 DEF Claimed
  <2> QED  BY <1>2, <2>1, ClaimFrame
<1>3. ASSUME NEW w \in Workers, UNCHANGED rp, wk'[w] = Idle \/ wk'[w].e = wk[w].e,
             \A v \in Workers \ {w} : wk'[v] = wk[v],
             Claimed(d)' => row'[d].lease = row[d].lease
      PROVE  ClaimFor(d)'
  <2>1. \A v \in Workers : wk'[v].e = d => wk[v].e = d
    BY <1>3 DEF Idle
  <2> QED  BY <1>3, <2>1, ClaimFrame
<1>4. CASE UNCHANGED vars
  BY <1>2, <1>4 DEF vars
<1>5. ASSUME NEW e \in Enrollments, Enroll(e) PROVE ClaimFor(d)'
  <2>1. PICK next \in Times : row' = [row EXCEPT ![e].state = "pending", ![e].next = next]
    BY <1>5 DEF Enroll, Times
  <2>2. RowBecomes(e, "pending", next, row[e].sent, row[e].lease)
    BY <1>1, <2>1, RowEnroll
  <2> QED  BY <1>2, <1>5, <2>2 DEF Enroll, RowBecomes
<1>6. ASSUME NEW e \in Enrollments, BecomesDue(e) PROVE ClaimFor(d)'
  <2>1. "now" \in Times
    BY DEF Times
  <2>2. RowBecomes(e, row[e].state, "now", row[e].sent, row[e].lease)
    BY <1>1, <1>6, <2>1, RowNext DEF BecomesDue
  <2> QED  BY <1>2, <1>6, <2>2 DEF BecomesDue, RowBecomes
<1>7. ASSUME NEW e \in Enrollments, LeaseExpires(e) PROVE ClaimFor(d)'
  <2>1. "expired" \in Leases
    BY DEF Leases
  <2>2. RowBecomes(e, row[e].state, row[e].next, row[e].sent, "expired")
    BY <1>1, <1>7, <2>1, RowLease DEF LeaseExpires
  <2>3. e = d => ~Claimed(d)
    BY <1>7 DEF Undisturbed
  <2> QED  BY <1>2, <1>7, <2>2, <2>3 DEF LeaseExpires, RowBecomes
<1>8. ASSUME NEW w \in Workers, NEW e \in Enrollments, ClaimDueWorkflow(w, e) PROVE ClaimFor(d)'
  <2>1. Take(w, e) /\ row[e].lease # "live" /\ row[e].state \in Active
    BY <1>8 DEF ClaimDueWorkflow
  <2>2. "live" \in Leases
    BY DEF Leases
  <2>3. RowBecomes(e, row[e].state, row[e].next, row[e].sent, "live")
    BY <1>1, <2>1, <2>2, RowLease DEF Take
  <2>4. wk'[w].e = e /\ \A v \in Workers \ {w} : wk'[v] = wk[v]
    BY <1>1, <2>1, WorkerTakes
  <2>5. rp' = rp
    BY <2>1 DEF Take
  <2>6. CASE e = d
    <3>1. ~Claimed(d)
      BY <2>1, <2>6 DEF ClaimFor
    <3>2. Exclusive(d)'
      BY <2>4, <2>5, <3>1 DEF Exclusive, Claimed
    <3> QED  BY <2>3, <2>6, <3>2 DEF ClaimFor, RowBecomes
  <2>7. CASE e # d
    <3>1. \A v \in Workers : wk'[v].e = d => wk[v].e = d
      BY <2>4, <2>7
    <3> QED  BY <2>3, <2>5, <2>7, <3>1, ClaimFrame DEF RowBecomes
  <2> QED  BY <2>6, <2>7
<1>9. ASSUME NEW w \in Workers, NotEnabled(w) \/ AdvanceError(w) \/ ApplyFails(w) PROVE ClaimFor(d)'
  <2>1. wk[w].pc # "idle" /\ (GoTo(w, "retry") \/ GoTo(w, "fail"))
    BY <1>9 DEF NotEnabled, AdvanceError, ApplyFails
  <2> QED  BY <1>1, <1>3, <1>9, <2>1, WorkerGoes DEF NotEnabled, AdvanceError, ApplyFails
(* A worker that is done with its row, which nobody else has.              *)
<1>10. ASSUME NEW w \in Workers, Release(w), UNCHANGED rp, wk[w].pc # "idle",
              wk[w].e # d => row'[d] = row[d]
       PROVE  ClaimFor(d)'
  <2>1. wk'[w] = Idle /\ \A v \in Workers \ {w} : wk'[v] = wk[v]
    BY <1>1, <1>10, WorkerReleases
  <2>2. ASSUME wk[w].e = d PROVE ~Claimed(d)'
    <3>1. \A v \in Workers : wk'[v].e # d
      BY <2>1, <2>2 DEF ClaimFor, Exclusive, Idle
    <3>2. \A p \in Repliers : d \notin rp'[p].todo
      BY <1>10, <2>2 DEF ClaimFor, Exclusive
    <3> QED  BY <3>1, <3>2 DEF Claimed
  <2> QED  BY <1>3, <1>10, <2>1, <2>2
<1>11. ASSUME NEW w \in Workers, Apply(w) PROVE ClaimFor(d)'
  <2>1. wk[w].pc = "claimed" /\ rp' = rp
    BY <1>11 DEF Apply
  <2>2. wk[w].e \in Enrollments /\ wk[w].state \in Active /\ wk[w].sent \in Counts
    BY <2>1, WorkerHas
  <2>3. PICK plan \in Advance(wk[w].e, wk[w].state, wk[w].sent) :
            Write(wk[w].e, plan) /\ (Release(w) \/ (GoTo(w, "retry") /\ LostCommit))
    BY <1>11 DEF Apply
  <2>4. wk[w].e # d => row'[d] = row[d]
    <3>1. row[wk[w].e] \in Row
      BY <1>1, <2>2
    <3>2. plan \in Plans
      BY <2>2, <3>1, AdvanceFollows
    <3>3. \A b \in Enrollments \ {wk[w].e} : row'[b] = row[b]
      BY <2>2, <2>3, <3>2, WriteEffect DEF RowBecomes
    <3> QED  BY <3>3
  <2>5. CASE Release(w)
    BY <1>10, <2>1, <2>4, <2>5
  <2>6. CASE GoTo(w, "retry") /\ LostCommit
    <3>1. /\ wk'[w].e = wk[w].e /\ wk'[w].pc = "retry"
          /\ \A v \in Workers \ {w} : wk'[v] = wk[v]
      BY <1>1, <2>1, <2>6, WorkerGoes
    <3>2. wk[w].e # d
      BY <1>11, <2>6 DEF Undisturbed
    <3> QED  BY <1>3, <2>1, <2>4, <3>1, <3>2
  <2> QED  BY <2>3, <2>5, <2>6
<1>12. ASSUME NEW w \in Workers, RetryWorkflow(w) PROVE ClaimFor(d)'
  <2>1. wk[w].e \in Enrollments
    BY <1>12, WorkerHas DEF RetryWorkflow
  <2>2. RowBecomes(wk[w].e, row[wk[w].e].state, "soon", row[wk[w].e].sent, "none")
    BY <1>1, <1>12, <2>1, RowRetry DEF RetryWorkflow
  <2> QED  BY <1>10, <1>12, <2>2 DEF RetryWorkflow, RowBecomes
<1>13. ASSUME NEW w \in Workers, FailWorkflow(w) PROVE ClaimFor(d)'
  <2>1. wk[w].e \in Enrollments
    BY <1>13, WorkerHas DEF FailWorkflow
  <2>2. RowBecomes(wk[w].e, "failed", "none", row[wk[w].e].sent, "none")
    BY <1>1, <1>13, <2>1, RowFail DEF FailWorkflow
  <2> QED  BY <1>10, <1>13, <2>2 DEF FailWorkflow, RowBecomes
<1>14. ASSUME NEW w \in Workers, Abandon(w) PROVE ClaimFor(d)'
  BY <1>10, <1>14 DEF Abandon
<1>15. CASE \/ \E b \in BOOLEAN : SetEnabled(b)
            \/ \E r \in Replies : ReplyLeaseExpires(r) \/ \E text \in Texts : Arrive(r, text)
  BY <1>2, <1>15 DEF SetEnabled, ReplyLeaseExpires, Arrive
<1>16. ASSUME NEW p \in Repliers, NEW r \in Replies, ClaimWorkflowsForReply(p, r) PROVE ClaimFor(d)'
  <2>1. PICK free \in SUBSET Enrollments :
            free = {e \in Enrollments : row[e].state \in Active /\ row[e].lease # "live"}
    OBVIOUS
  <2>2. /\ rp'[p].todo = free /\ \A q \in Repliers \ {p} : rp'[q] = rp[q]
        /\ wk' = wk
    BY <1>16, <2>1, DeskClaims DEF ClaimWorkflowsForReply
  <2>3. CASE d \in free
    <3>1. ~Claimed(d)
      BY <2>1, <2>3 DEF ClaimFor
    <3>2. Exclusive(d)'
      BY <2>2, <3>1 DEF Exclusive, Claimed
    <3>3. row'[d].lease = "live"
      BY <1>1, <1>16, <2>1, <2>3, RowClaims
    <3> QED  BY <3>2, <3>3 DEF ClaimFor
  <2>4. CASE d \notin free
    <3>1. Exclusive(d)' /\ (Claimed(d)' => Claimed(d))
      BY <2>2, <2>4 DEF ClaimFor, Exclusive, Claimed
    <3>2. row[d].lease = "live" => row'[d].lease = "live"
      BY <1>1, <1>16, RowClaims
    <3> QED  BY <3>1, <3>2 DEF ClaimFor
  <2> QED  BY <2>3, <2>4
<1>17. ASSUME NEW p \in Repliers, NEW e \in Enrollments, ApplyReply(p, e) PROVE ClaimFor(d)'
  <2>1. rp[p].sent[e] \in Counts /\ e \in rp[p].todo
    BY <1>1, <1>17 DEF Desk, ApplyReply
  <2>2. PICK plan \in Plans : Write(e, plan)
    BY <1>17, <2>1, ReplyFollows DEF ApplyReply
  <2>3. \A b \in Enrollments \ {e} : row'[b] = row[b]
    BY <2>2, WriteEffect DEF RowBecomes
  <2>4. /\ rp'[p].todo = rp[p].todo \ {e} /\ \A q \in Repliers \ {p} : rp'[q] = rp[q]
        /\ wk' = wk
    BY <1>1, <1>17, DeskWrites DEF ApplyReply
  <2>5. e = d => ~Claimed(d)'
    BY <2>1, <2>4 DEF Claimed, ClaimFor, Exclusive
  <2>6. \A q \in Repliers : d \in rp'[q].todo => d \in rp[q].todo
    BY <2>4
  <2> QED  BY <2>3, <2>4, <2>5, <2>6, ClaimFrame
<1>18. ASSUME NEW p \in Repliers, MarkProcessed(p) \/ ReplyFails(p) PROVE ClaimFor(d)'
  <2>1. rp'[p] = AtRest /\ \A q \in Repliers \ {p} : rp'[q] = rp[q]
    BY <1>1, <1>18, DeskRests DEF MarkProcessed, ReplyFails
  <2>2. \A q \in Repliers : d \in rp'[q].todo => d \in rp[q].todo
    BY <2>1 DEF AtRest
  <2>3. UNCHANGED <<row, wk>>
    BY <1>18 DEF MarkProcessed, ReplyFails
  <2> QED  BY <2>2, <2>3, ClaimFrame
<1> QED  BY <1>4, <1>5, <1>6, <1>7, <1>8, <1>9, <1>11, <1>12, <1>13, <1>14,
            <1>15, <1>16, <1>17, <1>18 DEF Next, Work, Route

LEMMA InitClaimFor == ASSUME NEW e \in Enrollments PROVE Init => ClaimFor(e)
  BY EnrollmentsAssumption DEF Init, ClaimFor, Exclusive, Claimed, Idle, AtRest

(* Whoever works on such an enrollment works on it alone, under the row's  *)
(* live claim, however late the processes are with the others.             *)
THEOREM OneClaimTheorem ==
    ASSUME NEW e \in Enrollments
    PROVE  Spec /\ [][Undisturbed(e)]_vars => []ClaimFor(e)
<1>1. Init => ClaimFor(e)
  BY InitClaimFor
<1>2. TypeOK /\ ClaimFor(e) /\ [Next]_vars /\ [Undisturbed(e)]_vars => ClaimFor(e)'
  <2>1. CASE UNCHANGED vars
    BY <2>1, ClaimFrame DEF vars, Claimed
  <2> QED  BY <2>1, NextClaimFor
<1> QED  BY <1>1, <1>2, TypeCorrect, PTL DEF Spec

(* When nobody outlives a claim and no commit is lost, that is every one.  *)
CommitInv == faults \in [fault: Nat, commit: {0}]
ClaimInv  == \A e \in Enrollments : ClaimFor(e)

LEMMA NextCommit ==
    ASSUME MaxLostCommits = 0, CommitInv, [Next]_vars
    PROVE  CommitInv'
<1>1. ~LostCommit
  BY DEF LostCommit, CommitInv
<1>2. Fault => CommitInv'
  BY DEF Fault, CommitInv
<1>3. UNCHANGED faults => CommitInv'
  BY DEF CommitInv
<1> QED  BY <1>1, <1>2, <1>3 DEF vars, Next, Work, Route, Enroll, BecomesDue, LeaseExpires,
   SetEnabled, ClaimDueWorkflow, Take, NotEnabled, AdvanceError, Apply, ApplyFails,
   RetryWorkflow, FailWorkflow, Abandon, Arrive, ReplyLeaseExpires, ClaimWorkflowsForReply,
   ApplyReply, MarkProcessed, ReplyFails

LEMMA ClaimInvariant ==
    ASSUME ~StallsPossible, MaxLostCommits = 0
    PROVE  Spec => [](CommitInv /\ ClaimInv)
<1>1. Init => CommitInv /\ ClaimInv
  <2>1. Init => CommitInv
    BY DEF Init, CommitInv
  <2> QED  BY <2>1, InitClaimFor DEF ClaimInv
<1>2. TypeOK /\ CommitInv /\ ClaimInv /\ [Next]_vars => (CommitInv /\ ClaimInv)'
  <2> SUFFICES ASSUME TypeOK, CommitInv, ClaimInv, [Next]_vars
               PROVE  (CommitInv /\ ClaimInv)'
    OBVIOUS
  <2>1. ASSUME NEW e \in Enrollments PROVE ClaimFor(e)'
    <3>1. ~LostCommit
      BY DEF LostCommit, CommitInv
    <3>2. Undisturbed(e)
      BY <3>1 DEF Undisturbed, LeaseExpires
    <3> QED  BY <3>2, NextClaimFor DEF ClaimInv
  <2> QED  BY <2>1, NextCommit DEF ClaimInv
<1> QED  BY <1>1, <1>2, TypeCorrect, PTL DEF Spec

(* If nobody outlives a claim, an enrollment is in the hands of one worker *)
(* or replier at a time.                                                   *)
THEOREM ExclusiveTheorem ==
    ASSUME ~StallsPossible, MaxLostCommits = 0
    PROVE  Spec => []ExclusiveEnrollment
<1>1. ClaimInv => ExclusiveEnrollment
  BY DEF ClaimInv, ClaimFor, Exclusive, ExclusiveEnrollment
<1> QED  BY <1>1, ClaimInvariant, PTL
-----------------------------------------------------------------------------
(* Every copy is the row's, and the row counts what was sent.              *)
FreshFor(e) ==
    /\ jobs[e] = 1..row[e].sent
    /\ \A c \in Counts : Copy(e, c) => c = row[e].sent

LEMMA NextFreshFor ==
    ASSUME NEW e \in Enrollments, TypeOK, FreshFor(e), ClaimFor(e)', [Next]_vars
    PROVE  FreshFor(e)'
<1>1. (Kept(e) \/ Written(e)) /\ CopiesFollow(e)
  BY NextShape DEF StepShape
<1>2. CASE Kept(e)
  BY <1>1, <1>2 DEF Kept, CopiesFollow, FreshFor
<1>3. CASE Written(e)
  <2>1. PICK c \in Counts, plan \in Plans : WrittenBack(e, c, plan)
    BY <1>3 DEF Written
  <2>2. c \in Nat /\ c = row[e].sent /\ jobs[e] = 1..c
    BY <2>1, Zero DEF WrittenBack, FreshFor
  <2>3. jobs'[e] = 1..row'[e].sent
    <3>1. CASE plan.send
      <4>1. jobs'[e] = (1..c) \cup {c + 1} /\ row'[e].sent = c + 1
        BY <2>1, <2>2, <3>1, PlanBounds DEF WrittenBack
      <4>2. (1..c) \cup {c + 1} = 1..(c + 1)
        BY <2>2
      <4> QED  BY <4>1, <4>2
    <3>2. CASE ~plan.send
      BY <2>1, <2>2, <3>2, PlanBounds DEF WrittenBack
    <3> QED  BY <3>1, <3>2
  <2>4. ~Claimed(e)'
    BY <2>1 DEF WrittenBack, ClaimFor
  <2>5. \A n \in Counts : ~Copy(e, n)'
    BY <2>4 DEF Copy, Claimed
  <2> QED  BY <2>3, <2>5 DEF FreshFor
<1> QED  BY <1>1, <1>2, <1>3

LEMMA InitFreshFor == ASSUME NEW e \in Enrollments PROVE Init => FreshFor(e)
<1> SUFFICES ASSUME Init PROVE FreshFor(e)
  OBVIOUS
<1>1. row[e].sent = 0 /\ jobs[e] = 1..0
  BY DEF Init
<1>2. \A c \in Counts : ~Copy(e, c)
  BY EnrollmentsAssumption DEF Init, Copy, Idle, AtRest
<1> QED  BY <1>1, <1>2 DEF FreshFor

(* sent_count tells exactly which occurrences of such an enrollment were   *)
(* sent.                                                                   *)
THEOREM OneSentTheorem ==
    ASSUME NEW e \in Enrollments
    PROVE  Spec /\ [][Undisturbed(e)]_vars => [](jobs[e] = 1..row[e].sent)
<1>1. Init => FreshFor(e)
  BY InitFreshFor
<1>2. TypeOK /\ FreshFor(e) /\ ClaimFor(e)' /\ [Next]_vars => FreshFor(e)'
  BY NextFreshFor
<1>3. FreshFor(e) => jobs[e] = 1..row[e].sent
  BY DEF FreshFor
<1> QED  BY <1>1, <1>2, <1>3, OneClaimTheorem, TypeCorrect, PTL DEF Spec

(* If nobody outlives a claim and no commit is lost, sent_count tells      *)
(* exactly which occurrences were sent.                                    *)
THEOREM SentTheorem ==
    ASSUME ~StallsPossible, MaxLostCommits = 0
    PROVE  Spec => []SentIsExact
<1> DEFINE FreshInv == \A e \in Enrollments : FreshFor(e)
<1>1. Init => FreshInv
  BY InitFreshFor
<1>2. TypeOK /\ FreshInv /\ ClaimInv' /\ [Next]_vars => FreshInv'
  BY NextFreshFor DEF ClaimInv
<1>3. FreshInv => SentIsExact
  BY DEF FreshFor, SentIsExact
<1> QED  BY <1>1, <1>2, <1>3, ClaimInvariant, TypeCorrect, PTL DEF Spec
-----------------------------------------------------------------------------
(* Until the interval since its last send has passed, an enrollment is not *)
(* due, not about to be, and in no worker's hands.                         *)
Resting(e) ==
    /\ row[e].next \notin {"now", "soon"} /\ row[e].state # "absent"
    /\ \A w \in Workers : wk[w].e # e

RestFor(e) == rested[e] \/ Resting(e)

(* The message of e that a step sends is the first, or comes after a rest. *)
SendsRested(e) == jobs'[e] # jobs[e] => rested[e]

LEMMA RestFrame ==
    ASSUME NEW e \in Enrollments, RestFor(e), rested'[e] = rested[e], jobs'[e] = jobs[e],
           \A w \in Workers : wk'[w].e = e => wk[w].e = e,
           ~rested[e] =>
               /\ row'[e].next = row[e].next \/ row'[e].next = "none"
               /\ row'[e].state = row[e].state \/ row'[e].state \in Closed
    PROVE  RestFor(e)' /\ SendsRested(e)
<1>1. Resting(e) /\ ~rested[e] => Resting(e)'
  BY DEF Resting, Closed
<1> QED  BY <1>1 DEF RestFor, SendsRested

LEMMA NextRestFor ==
    ASSUME NEW d \in Enrollments, TypeOK, ClaimFor(d)', RestFor(d), [Next]_vars
    PROVE  RestFor(d)' /\ SendsRested(d)
<1> USE EnrollmentsAssumption
<1>1. /\ row \in [Enrollments -> Row] /\ WorkerType /\ rp \in [Repliers -> Desk]
      /\ rested \in [Enrollments -> BOOLEAN]
  BY DEF TypeOK, WorkerType
<1> DEFINE Goal == RestFor(d)' /\ SendsRested(d)
(* The row of another enrollment, and nobody takes d.                      *)
<1>2. ASSUME row'[d] = row[d], rested'[d] = rested[d], jobs'[d] = jobs[d],
             \A w \in Workers : wk'[w].e = d => wk[w].e = d
      PROVE  Goal
  BY <1>2, RestFrame
<1>3. CASE UNCHANGED vars
  BY <1>2, <1>3 DEF vars
<1>4. ASSUME NEW e \in Enrollments, Enroll(e) PROVE Goal
  <2>1. PICK next \in Times : row' = [row EXCEPT ![e].state = "pending", ![e].next = next]
    BY <1>4 DEF Enroll, Times
  <2>2. RowBecomes(e, "pending", next, row[e].sent, row[e].lease)
    BY <1>1, <2>1, RowEnroll
  <2>3. UNCHANGED <<jobs, rested, wk>> /\ row[e].state = "absent"
    BY <1>4 DEF Enroll, effects
  <2>4. CASE d = e
    BY <2>3, <2>4 DEF RestFor, Resting, SendsRested
  <2>5. CASE d # e
    BY <1>2, <2>2, <2>3, <2>5 DEF RowBecomes
  <2> QED  BY <2>4, <2>5
<1>5. ASSUME NEW e \in Enrollments, BecomesDue(e) PROVE Goal
  <2>1. "now" \in Times
    BY DEF Times
  <2>2. RowBecomes(e, row[e].state, "now", row[e].sent, row[e].lease)
    BY <1>1, <1>5, <2>1, RowNext DEF BecomesDue
  <2>3. UNCHANGED <<jobs, wk>>
    BY <1>5 DEF BecomesDue
  <2>4. CASE d = e
    <3>1. rested'[d]
      BY <1>1, <1>5, <2>4 DEF BecomesDue, RestFor, Resting
    <3> QED  BY <2>3, <3>1 DEF RestFor, SendsRested
  <2>5. CASE d # e
    <3>1. rested'[d] = rested[d]
      BY <1>1, <1>5, <2>5 DEF BecomesDue
    <3> QED  BY <1>2, <2>2, <2>3, <2>5, <3>1 DEF RowBecomes
  <2> QED  BY <2>4, <2>5
<1>6. ASSUME NEW e \in Enrollments, LeaseExpires(e) PROVE Goal
  <2>1. "expired" \in Leases
    BY DEF Leases
  <2>2. RowBecomes(e, row[e].state, row[e].next, row[e].sent, "expired")
    BY <1>1, <1>6, <2>1, RowLease DEF LeaseExpires
  <2>3. row'[d].next = row[d].next /\ row'[d].state = row[d].state
    BY <2>2 DEF RowBecomes
  <2>4. UNCHANGED <<jobs, rested, wk>>
    BY <1>6 DEF LeaseExpires, effects
  <2> QED  BY <2>3, <2>4, RestFrame
<1>7. ASSUME NEW w \in Workers, NEW e \in Enrollments, ClaimDueWorkflow(w, e) PROVE Goal
  <2>1. Take(w, e) /\ row[e].next = "now" /\ row[e].state \in Active
    BY <1>7 DEF ClaimDueWorkflow
  <2>2. "live" \in Leases
    BY DEF Leases
  <2>3. RowBecomes(e, row[e].state, row[e].next, row[e].sent, "live")
    BY <1>1, <2>1, <2>2, RowLease DEF Take
  <2>4. wk'[w].e = e /\ \A v \in Workers \ {w} : wk'[v] = wk[v]
    BY <1>1, <2>1, WorkerTakes
  <2>5. UNCHANGED <<jobs, rested>>
    BY <2>1 DEF Take, effects
  <2>6. CASE d = e
    BY <2>1, <2>5, <2>6 DEF RestFor, Resting, SendsRested
  <2>7. CASE d # e
    <3>1. \A v \in Workers : wk'[v].e = d => wk[v].e = d
      BY <2>4, <2>7
    <3> QED  BY <1>2, <2>3, <2>5, <2>7, <3>1 DEF RowBecomes
  <2> QED  BY <2>6, <2>7
<1>8. ASSUME NEW w \in Workers, NotEnabled(w) \/ AdvanceError(w) \/ ApplyFails(w) PROVE Goal
  <2>1. wk[w].pc # "idle" /\ (GoTo(w, "retry") \/ GoTo(w, "fail"))
    BY <1>8 DEF NotEnabled, AdvanceError, ApplyFails
  <2>2. wk'[w].e = wk[w].e /\ \A v \in Workers \ {w} : wk'[v] = wk[v]
    BY <1>1, <2>1, WorkerGoes
  <2>3. UNCHANGED <<row, jobs, rested>>
    BY <1>8 DEF NotEnabled, AdvanceError, ApplyFails, effects
  <2> QED  BY <1>2, <2>2, <2>3
<1>9. ASSUME NEW w \in Workers, Apply(w) PROVE Goal
  <2>1. wk[w].pc = "claimed"
    BY <1>9 DEF Apply
  <2>2. wk[w].e \in Enrollments /\ wk[w].state \in Active /\ wk[w].sent \in Counts
    BY <2>1, WorkerHas
  <2>3. PICK e \in Enrollments : e = wk[w].e
    BY <2>2
  <2>4. PICK plan \in Advance(e, wk[w].state, wk[w].sent) :
            Write(e, plan) /\ (Release(w) \/ GoTo(w, "retry"))
    BY <1>9, <2>3 DEF Apply
  <2>5. plan \in Plans /\ Follows(e, wk[w].sent, plan)
    <3>1. row[e] \in Row
      BY <1>1
    <3> QED  BY <2>2, <2>4, <3>1, AdvanceFollows
  <2>6. \A v \in Workers : wk'[v].e = d => wk[v].e = d
    BY <1>1, <2>1, <2>4, WorkerGoes, WorkerReleases DEF Idle
  <2>7. /\ RowBecomes(e, plan.state, plan.next, plan.sent, "none")
        /\ rested'[e] = IF plan.send THEN FALSE ELSE rested[e]
        /\ \A b \in Enrollments \ {e} : jobs'[b] = jobs[b] /\ rested'[b] = rested[b]
    BY <2>4, <2>5, WriteEffect
  <2>8. CASE d = e
    <3>1. rested[d]
      BY <2>3, <2>8 DEF RestFor, Resting
    <3>2. CASE plan.send
      <4>1. plan.next \in {"interval", "none"} /\ plan.state = "awaiting_reply"
        BY <2>5, <3>2 DEF Follows, Waits, Sends, Ends
      <4>2. ~Claimed(d)'
        BY <2>7, <2>8 DEF RowBecomes, ClaimFor
      <4>3. Resting(d)'
        BY <2>7, <2>8, <4>1, <4>2 DEF RowBecomes, Resting, Claimed
      <4> QED  BY <3>1, <4>3 DEF RestFor, SendsRested
    <3>3. CASE ~plan.send
      BY <2>7, <2>8, <3>1, <3>3 DEF RestFor, SendsRested
    <3> QED  BY <3>2, <3>3
  <2>9. CASE d # e
    BY <1>2, <2>6, <2>7, <2>9 DEF RowBecomes
  <2> QED  BY <2>8, <2>9
<1>10. ASSUME NEW w \in Workers, RetryWorkflow(w) \/ FailWorkflow(w) PROVE Goal
  <2>1. wk[w].pc # "idle" /\ UNCHANGED <<jobs, rested>>
    BY <1>10 DEF RetryWorkflow, FailWorkflow, effects
  <2>2. wk[w].e \in Enrollments
    BY <2>1, WorkerHas
  <2>3. \A b \in Enrollments \ {wk[w].e} : row'[b] = row[b]
    BY <1>1, <1>10, <2>2, RowRetry, RowFail DEF RetryWorkflow, FailWorkflow, RowBecomes
  <2>4. \A v \in Workers : wk'[v].e = d => wk[v].e = d
    <3>1. Release(w)
      BY <1>10 DEF RetryWorkflow, FailWorkflow
    <3>2. wk'[w] = Idle /\ \A v \in Workers \ {w} : wk'[v] = wk[v]
      BY <1>1, <3>1, WorkerReleases
    <3> QED  BY <3>2 DEF Idle
  <2>5. CASE wk[w].e = d
    BY <2>1, <2>5 DEF RestFor, Resting, SendsRested
  <2>6. CASE wk[w].e # d
    BY <1>2, <2>1, <2>3, <2>4, <2>6
  <2> QED  BY <2>5, <2>6
<1>11. ASSUME NEW w \in Workers, Abandon(w) PROVE Goal
  <2>1. wk'[w] = Idle /\ \A v \in Workers \ {w} : wk'[v] = wk[v]
    BY <1>1, <1>11, WorkerReleases DEF Abandon
  <2> QED  BY <1>2, <1>11, <2>1 DEF Abandon, effects, Idle
<1>12. CASE \/ \E b \in BOOLEAN : SetEnabled(b)
            \/ \E r \in Replies : ReplyLeaseExpires(r) \/ \E text \in Texts : Arrive(r, text)
            \/ \E p \in Repliers : MarkProcessed(p) \/ ReplyFails(p)
  BY <1>2, <1>12
     DEF SetEnabled, ReplyLeaseExpires, Arrive, MarkProcessed, ReplyFails, effects
<1>13. ASSUME NEW p \in Repliers, NEW r \in Replies, ClaimWorkflowsForReply(p, r) PROVE Goal
  <2>1. UNCHANGED <<jobs, rested, wk>>
    BY <1>13 DEF ClaimWorkflowsForReply, effects
  <2>2. row'[d].next = row[d].next /\ row'[d].state = row[d].state
    BY <1>1, <1>13, RowClaims
  <2> QED  BY <2>1, <2>2, RestFrame
<1>14. ASSUME NEW p \in Repliers, NEW e \in Enrollments, ApplyReply(p, e) PROVE Goal
  <2>1. rp[p].sent[e] \in Counts
    BY <1>1 DEF Desk
  <2>2. PICK plan \in Plans :
            Write(e, plan) /\ ~plan.send /\ plan.next = "none" /\ plan.state \in Closed
    BY <1>14, <2>1, ReplyFollows DEF ApplyReply
  <2>3. /\ RowBecomes(e, plan.state, plan.next, plan.sent, "none")
        /\ jobs'[e] = jobs[e] /\ rested'[e] = rested[e]
        /\ \A b \in Enrollments \ {e} : jobs'[b] = jobs[b] /\ rested'[b] = rested[b]
    BY <2>2, WriteEffect
  <2>4. wk' = wk
    BY <1>14 DEF ApplyReply
  <2>5. CASE d = e
    <3>1. row'[d].next = "none" /\ row'[d].state \in Closed
      BY <2>2, <2>3, <2>5 DEF RowBecomes
    <3> QED  BY <2>3, <2>4, <2>5, <3>1, RestFrame
  <2>6. CASE d # e
    BY <1>2, <2>3, <2>4, <2>6 DEF RowBecomes
  <2> QED  BY <2>5, <2>6
<1> QED  BY <1>3, <1>4, <1>5, <1>6, <1>7, <1>8, <1>9, <1>10, <1>11, <1>12, <1>13, <1>14
         DEF Next, Work, Route

(* Two messages of such an enrollment are a repeat interval apart.         *)
THEOREM OneRepeatsTheorem ==
    ASSUME NEW e \in Enrollments
    PROVE  Spec /\ [][Undisturbed(e)]_vars
           => [][jobs'[e] # jobs[e] /\ jobs[e] # {} => rested[e]]_vars
<1>1. Init => RestFor(e)
  BY DEF Init, RestFor
<1>2. TypeOK /\ ClaimFor(e)' /\ RestFor(e) /\ [Next]_vars => RestFor(e)' /\ SendsRested(e)
  BY NextRestFor
<1>3. SendsRested(e) => [jobs'[e] # jobs[e] /\ jobs[e] # {} => rested[e]]_vars
  BY DEF SendsRested
<1> QED  BY <1>1, <1>2, <1>3, OneClaimTheorem, TypeCorrect, PTL DEF Spec

(* If nobody outlives a claim and no commit is lost, two messages of an    *)
(* enrollment are a repeat interval apart.                                 *)
THEOREM RepeatsTheorem ==
    ASSUME ~StallsPossible, MaxLostCommits = 0
    PROVE  Spec => RepeatsAreApart
<1> DEFINE RestInv == \A e \in Enrollments : RestFor(e)
<1>1. Init => RestInv
  BY DEF Init, RestFor
<1>2. ASSUME TypeOK, ClaimInv', RestInv, [Next]_vars
      PROVE  \A e \in Enrollments : RestFor(e)' /\ SendsRested(e)
  BY <1>2, NextRestFor DEF ClaimInv
<1>3. TypeOK /\ ClaimInv' /\ RestInv /\ [Next]_vars => RestInv'
  BY <1>2
<1>4. TypeOK /\ ClaimInv' /\ RestInv /\ [Next]_vars
      => [\A e \in Enrollments : jobs'[e] # jobs[e] /\ jobs[e] # {} => rested[e]]_vars
  BY <1>2 DEF SendsRested
<1> QED  BY <1>1, <1>3, <1>4, ClaimInvariant, TypeCorrect, PTL DEF Spec, RepeatsAreApart
=============================================================================
