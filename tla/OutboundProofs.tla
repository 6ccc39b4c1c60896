--------------------------- MODULE OutboundProofs ---------------------------
(***************************************************************************)
(* Theorems about OutboundQueue, for any number of jobs, numbers, workers, *)
(* faults and retries.  Each is an invariance argument: a conjunct holds   *)
(* initially and each action keeps it.                                     *)
(***************************************************************************)
EXTENDS OutboundQueue, TLAPS

LEMMA BumpType ==
    ASSUME NEW n \in 0..RetryLimit
    PROVE  Bump(n) \in 0..RetryLimit
  BY OutboundAssumption DEF Bump

(* Type correctness: rows, worker slots and the control tables always have *)
(* the values their readers expect, and an idle worker holds no job.       *)
LEMMA InitType == Init => TypeOK
  BY OutboundAssumption
  DEF Init, TypeOK, NoRow, Idle, Row, Slot, Statuses, Leases, Times, Steps

LEMMA EnqueueType ==
    ASSUME TypeOK, NEW j \in Jobs, NEW t \in Times, Insert(j, t)
    PROVE  TypeOK'
<1>1. Queued(t) \in Row
  BY OutboundAssumption DEF Queued, Row, Statuses, Leases, Times
<1>2. row' \in [Jobs -> Row]
  BY <1>1 DEF TypeOK, Insert
<1>3. UNCHANGED <<suppressed, paused, stopping, wk, accepted, lateSends, pausedSends, faults>>
  BY DEF Insert, history
<1> QED  BY <1>2, <1>3 DEF TypeOK

LEMMA CancelQueuedType ==
    ASSUME TypeOK, NEW n \in Numbers, CancelQueued(n)
    PROVE  row' \in [Jobs -> Row]
  BY DEF TypeOK, CancelQueued, Row, Statuses

LEMMA TakeType ==
    ASSUME TypeOK, NEW w \in Workers, NEW j \in Jobs, Claim(w, j)
    PROVE  TypeOK'
<1>1. row[j] \in Row /\ row[j].attempts \in 0..RetryLimit
  BY DEF TypeOK, Row
<1>2. [row[j] EXCEPT !.status = "sending", !.attempts = Bump(row[j].attempts),
                    !.lease = "live"] \in Row
  BY <1>1, BumpType DEF Row, Statuses, Leases
<1>3. row' \in [Jobs -> Row]
  BY <1>2 DEF TypeOK, Claim, Take
<1>4. [pc |-> "claimed", job |-> j, tries |-> Bump(row[j].attempts)] \in Slot
  BY <1>1, BumpType DEF Slot, Steps
<1>5. wk' = [wk EXCEPT ![w] = [pc |-> "claimed", job |-> j, tries |-> Bump(row[j].attempts)]]
  BY DEF Claim, Take
<1>6. wk' \in [Workers -> Slot]
  BY <1>4, <1>5 DEF TypeOK
<1>7. \A v \in Workers : wk'[v].pc = "idle" <=> wk'[v].job = NoJob
  BY <1>5, OutboundAssumption DEF TypeOK
<1>8. UNCHANGED <<suppressed, paused, stopping, accepted, lateSends, pausedSends, faults>>
  BY DEF Claim, Take, history
<1> QED  BY <1>3, <1>6, <1>7, <1>8 DEF TypeOK

LEMMA GoToType ==
    ASSUME TypeOK, NEW w \in Workers, wk[w].pc # "idle",
           NEW s \in Steps \ {"idle"}, GoTo(w, s)
    PROVE  /\ wk' \in [Workers -> Slot]
           /\ \A v \in Workers : wk'[v].pc = "idle" <=> wk'[v].job = NoJob
           /\ Held(w) \in Jobs
  BY DEF TypeOK, GoTo, Slot, Held

LEMMA ReleaseType ==
    ASSUME TypeOK, NEW w \in Workers, Release(w)
    PROVE  /\ wk' \in [Workers -> Slot]
           /\ \A v \in Workers : wk'[v].pc = "idle" <=> wk'[v].job = NoJob
<1>1. Idle \in Slot /\ Idle.pc = "idle" /\ Idle.job = NoJob
  BY OutboundAssumption DEF Idle, Slot, Steps
<1> QED  BY <1>1 DEF TypeOK, Release

LEMMA AcceptsType ==
    ASSUME TypeOK, NEW w \in Workers, Held(w) \in Jobs, ProviderAccepts(w)
    PROVE  /\ accepted' \in SUBSET Jobs
           /\ lateSends' \in [Workers -> [Numbers -> Nat]]
           /\ pausedSends' \in [Workers -> Nat]
<1>1. accepted' \in SUBSET Jobs
  BY DEF TypeOK, ProviderAccepts
<1>2. [n \in Numbers |-> IF n = NumberOf[Held(w)] /\ n \in suppressed
                        THEN lateSends[w][n] + 1 ELSE lateSends[w][n]] \in [Numbers -> Nat]
  BY DEF TypeOK
<1>3. lateSends' \in [Workers -> [Numbers -> Nat]]
  BY <1>2 DEF TypeOK, ProviderAccepts
<1>4. pausedSends' \in [Workers -> Nat]
  BY DEF TypeOK, ProviderAccepts
<1> QED  BY <1>1, <1>3, <1>4

LEMMA EndType ==
    ASSUME TypeOK, NEW w \in Workers, NEW s \in Steps \ {"idle"}, NEW r \in Row,
           EndIteration(w, s, r)
    PROVE  TypeOK'
<1>1. row' \in [Jobs -> Row]
  BY DEF TypeOK, EndIteration
<1>2. /\ Release(w)
      /\ UNCHANGED <<suppressed, paused, stopping, accepted, lateSends, pausedSends, faults>>
  BY DEF EndIteration, history
<1> QED  BY <1>1, <1>2, ReleaseType DEF TypeOK

LEMMA HeldRow ==
    ASSUME TypeOK, NEW w \in Workers, wk[w].pc # "idle"
    PROVE  /\ Held(w) \in Jobs
           /\ row[Held(w)] \in Row
           /\ [row[Held(w)] EXCEPT !.status = "sent", !.lease = "none"] \in Row
           /\ [row[Held(w)] EXCEPT !.status = "failed", !.lease = "none"] \in Row
           /\ [row[Held(w)] EXCEPT !.status = "queued", !.when = "later", !.lease = "none"] \in Row
<1>1. Held(w) \in Jobs /\ row[Held(w)] \in Row
  BY DEF TypeOK, Held, Slot
<1> QED  BY <1>1 DEF Row, Statuses, Leases, Times

(* The end of an iteration writes the row of the worker's job alone.       *)
LEMMA EndEffect ==
    ASSUME TypeOK, NEW w \in Workers, NEW step, NEW newRow,
           EndIteration(w, step, newRow), step # "idle"
    PROVE  /\ Held(w) \in Jobs /\ row'[Held(w)] = newRow
           /\ \A i \in Jobs : i # Held(w) => row'[i] = row[i]
<1>1. row' = [row EXCEPT ![Held(w)] = newRow] /\ wk[w].pc # "idle"
  BY DEF EndIteration
<1>2. Held(w) \in Jobs /\ row \in [Jobs -> Row]
  BY <1>1, HeldRow DEF TypeOK
<1> QED  BY <1>1, <1>2

LEMMA NextType == TypeOK /\ [Next]_vars => TypeOK'
<1> SUFFICES ASSUME TypeOK, [Next]_vars PROVE TypeOK'
  OBVIOUS
<1>1. CASE UNCHANGED vars
  BY <1>1 DEF TypeOK, vars
<1>2. ASSUME NEW j \in Jobs, NEW t \in Times, Insert(j, t) PROVE TypeOK'
  BY <1>2, EnqueueType
<1>3. ASSUME NEW j \in Jobs, BecomesDue(j) PROVE TypeOK'
  BY <1>3 DEF TypeOK, BecomesDue, Row, Times, history
<1>4. ASSUME NEW j \in Jobs, LeaseExpires(j) PROVE TypeOK'
  BY <1>4 DEF TypeOK, LeaseExpires, Row, Leases, history
<1>5. ASSUME NEW n \in Numbers, StopInsert(n) PROVE TypeOK'
  BY <1>5 DEF TypeOK, StopInsert, history
<1>6. ASSUME NEW n \in Numbers, StopCancel(n) PROVE TypeOK'
  BY <1>6, CancelQueuedType DEF TypeOK, StopCancel, history
<1>7. ASSUME NEW n \in Numbers, StopHandlerDies(n) PROVE TypeOK'
  BY <1>7, OutboundAssumption DEF TypeOK, StopHandlerDies, history
<1>8. ASSUME NEW n \in Numbers, WorkflowStop(n) PROVE TypeOK'
  BY <1>8, CancelQueuedType DEF TypeOK, WorkflowStop, history
<1>9. ASSUME NEW p \in BOOLEAN, SetSendingPaused(p) PROVE TypeOK'
  BY <1>9 DEF TypeOK, SetSendingPaused, history
<1>10. ASSUME NEW w \in Workers, NEW j \in Jobs, Claim(w, j) PROVE TypeOK'
  BY <1>10, TakeType
<1>11. ASSUME NEW w \in Workers, SendingPaused(w) PROVE TypeOK'
  BY <1>11, GoToType DEF TypeOK, SendingPaused, Steps, history
<1>12. ASSUME NEW w \in Workers, IsSuppressed(w) PROVE TypeOK'
  BY <1>12, GoToType DEF TypeOK, IsSuppressed, Steps, history
<1>13. ASSUME NEW w \in Workers, SendAccepted(w) PROVE TypeOK'
  BY <1>13, GoToType, AcceptsType DEF TypeOK, SendAccepted, Steps
<1>14. ASSUME NEW w \in Workers, SendLost(w) PROVE TypeOK'
  BY <1>14, GoToType, AcceptsType DEF TypeOK, SendLost, AfterTransient, Steps
<1>15. ASSUME NEW w \in Workers, SendFailed(w) PROVE TypeOK'
  BY <1>15, GoToType DEF TypeOK, SendFailed, AfterTransient, Steps, history
<1>16. ASSUME NEW w \in Workers, SendRefused(w) PROVE TypeOK'
  BY <1>16, GoToType DEF TypeOK, SendRefused, AfterRefusal, AfterTransient, Steps, history
<1>17. ASSUME NEW w \in Workers, BlockInsert(w) PROVE TypeOK'
  BY <1>17, GoToType, OutboundAssumption DEF TypeOK, BlockInsert, Steps, history
<1>18. ASSUME NEW w \in Workers, BlockCancel(w) PROVE TypeOK'
  BY <1>18, GoToType, CancelQueuedType, OutboundAssumption DEF TypeOK, BlockCancel, Steps, history
<1>19. ASSUME NEW w \in Workers, Complete(w) PROVE TypeOK'
  BY <1>19, EndType, HeldRow DEF Complete, EndIteration, Steps
<1>20. ASSUME NEW w \in Workers, Retry(w) PROVE TypeOK'
  BY <1>20, EndType, HeldRow DEF Retry, EndIteration, Steps
<1>21. ASSUME NEW w \in Workers, Fail(w) PROVE TypeOK'
  BY <1>21, EndType, HeldRow DEF Fail, EndIteration, Steps
<1>22. ASSUME NEW w \in Workers, StoreError(w) PROVE TypeOK'
  <2>1. faults' \in 0..MaxFaults
    BY <1>22, OutboundAssumption DEF TypeOK, StoreError
  <2>2. CASE wk[w].pc \in {"claimed", "unpaused"}
    BY <1>22, <2>1, <2>2, GoToType DEF TypeOK, StoreError, Steps, history
  <2>3. CASE wk[w].pc \in {"blocked", "blockedCancel"}
    BY <1>22, <2>1, <2>3, GoToType DEF TypeOK, StoreError, Steps, history
  <2>4. CASE wk[w].pc \notin {"claimed", "unpaused", "blocked", "blockedCancel"}
    BY <1>22, <2>1, <2>4, ReleaseType DEF TypeOK, StoreError, history
  <2> QED  BY <2>2, <2>3, <2>4
<1>23. ASSUME NEW w \in Workers, Crash(w) PROVE TypeOK'
  BY <1>23, ReleaseType, OutboundAssumption DEF TypeOK, Crash, history
<1> QED
  BY <1>1, <1>2, <1>3, <1>4, <1>5, <1>6, <1>7, <1>8, <1>9, <1>10, <1>11, <1>12,
     <1>13, <1>14, <1>15, <1>16, <1>17, <1>18, <1>19, <1>20, <1>21, <1>22, <1>23
  DEF Next, Work, Enqueue, EnqueueWorkflow, Times

(* Every variable keeps its type, and a worker is idle exactly while it    *)
(* holds no job: claims, retries, crashes and failed calls included.       *)
THEOREM TypeCorrect == Spec => []TypeOK
  BY InitType, NextType, PTL DEF Spec
-----------------------------------------------------------------------------
(* The actions that write a row; every other step leaves all rows alone.   *)
LEMMA RowWriters ==
    ASSUME [Next]_vars
    PROVE  \/ UNCHANGED row
           \/ \E j \in Jobs, t \in Times : Insert(j, t)
           \/ \E j \in Jobs : BecomesDue(j)
           \/ \E j \in Jobs : LeaseExpires(j)
           \/ \E n \in Numbers : CancelQueued(n) /\ UNCHANGED accepted
           \/ \E w \in Workers, j \in Jobs : Claim(w, j)
           \/ \E w \in Workers : /\ wk[w].pc # "idle"
                                 /\ CancelQueued(NumberOf[Held(w)])
                                 /\ UNCHANGED accepted
           \/ \E w \in Workers : Complete(w)
           \/ \E w \in Workers : Retry(w)
           \/ \E w \in Workers : Fail(w)
  BY DEF Next, vars, Work, Enqueue, EnqueueWorkflow, Times, StopInsert, StopCancel,
         StopHandlerDies, WorkflowStop, SetSendingPaused, SendingPaused, IsSuppressed,
         SendAccepted, SendLost, SendFailed, SendRefused, BlockInsert, BlockCancel,
         StoreError, Crash

(* A job is leased exactly while it is "sending": no row of the queue is   *)
(* lost in a state nobody looks for, and no settled row is up for a claim. *)
LEMMA NextLease == TypeOK /\ LeaseIffSending /\ [Next]_vars => LeaseIffSending'
<1> SUFFICES ASSUME TypeOK, LeaseIffSending, [Next]_vars
             PROVE  LeaseIffSending'
  OBVIOUS
<1> USE DEF LeaseIffSending, TypeOK
<1>1. CASE UNCHANGED row
  BY <1>1
<1>2. ASSUME NEW j \in Jobs, NEW t \in Times, Insert(j, t) PROVE LeaseIffSending'
  BY <1>2 DEF Insert, Queued
<1>3. ASSUME NEW j \in Jobs, BecomesDue(j) PROVE LeaseIffSending'
  BY <1>3 DEF BecomesDue, Row
<1>4. ASSUME NEW j \in Jobs, LeaseExpires(j) PROVE LeaseIffSending'
  BY <1>4 DEF LeaseExpires, Row
<1>5. ASSUME NEW n, CancelQueued(n) PROVE LeaseIffSending'
  BY <1>5 DEF CancelQueued, Row
<1>6. ASSUME NEW w \in Workers, NEW j \in Jobs, Claim(w, j) PROVE LeaseIffSending'
  BY <1>6 DEF Claim, Take, Row
<1>7. ASSUME NEW w \in Workers, Complete(w) PROVE LeaseIffSending'
  BY <1>7, HeldRow DEF Complete, EndIteration, Row
<1>8. ASSUME NEW w \in Workers, Retry(w) PROVE LeaseIffSending'
  BY <1>8, HeldRow DEF Retry, EndIteration, Row
<1>9. ASSUME NEW w \in Workers, Fail(w) PROVE LeaseIffSending'
  BY <1>9, HeldRow DEF Fail, EndIteration, Row
<1> QED
  BY <1>1, <1>2, <1>3, <1>4, <1>5, <1>6, <1>7, <1>8, <1>9, RowWriters

(* A job is leased exactly while it is "sending", so a claim finds it      *)
(* again after its worker has died.                                        *)
THEOREM LeaseTheorem == Spec => []LeaseIffSending
<1>1. Init => LeaseIffSending
  BY DEF Init, LeaseIffSending, NoRow
<1> QED
  BY <1>1, TypeCorrect, NextLease, PTL DEF Spec
-----------------------------------------------------------------------------
(* "Sent" is only written by a worker whose request the provider took.     *)
SentInv == /\ SentWasAccepted
           /\ \A w \in Workers : wk[w].pc = "accepted" => Held(w) \in accepted

LEMMA AcceptedGrows == [Next]_vars => accepted \subseteq accepted'
  BY DEF Next, vars, Work, Enqueue, EnqueueWorkflow, Insert, BecomesDue, LeaseExpires,
         StopInsert, StopCancel, StopHandlerDies, WorkflowStop, SetSendingPaused,
         Claim, Take, SendingPaused, IsSuppressed, SendAccepted, SendLost, SendFailed,
         SendRefused, ProviderAccepts, BlockInsert, BlockCancel, Complete, Retry, Fail,
         EndIteration, StoreError, Crash

(* The three ways a worker's slot changes.                                 *)
LEMMA GoToEffect ==
    ASSUME TypeOK, NEW v \in Workers, NEW s, GoTo(v, s)
    PROVE  /\ wk'[v].pc = s /\ wk'[v].job = wk[v].job
           /\ \A w \in Workers : w # v => wk'[w] = wk[w]
  BY DEF TypeOK, Slot, GoTo

LEMMA ReleaseEffect ==
    ASSUME TypeOK, NEW v \in Workers, Release(v)
    PROVE  /\ wk'[v].pc = "idle" /\ wk'[v].job = NoJob
           /\ \A w \in Workers : w # v => wk'[w] = wk[w]
  BY DEF TypeOK, Slot, Release, Idle

LEMMA ClaimEffect ==
    ASSUME TypeOK, NEW v \in Workers, NEW j \in Jobs, Claim(v, j)
    PROVE  /\ wk'[v].pc = "claimed" /\ wk'[v].job = j
           /\ \A w \in Workers : w # v => wk'[w] = wk[w]
  BY DEF TypeOK, Slot, Claim, Take

(* A worker reaches "accepted" by SendAccepted alone.                      *)
LEMMA AcceptedStep ==
    ASSUME TypeOK, [Next]_vars, NEW w \in Workers, wk'[w].pc = "accepted"
    PROVE  \/ wk'[w] = wk[w]
           \/ wk'[w].job = wk[w].job /\ accepted' = accepted \cup {wk[w].job}
<1>1. ASSUME NEW v \in Workers, SendAccepted(v)
      PROVE  \/ wk'[w] = wk[w]
             \/ wk'[w].job = wk[w].job /\ accepted' = accepted \cup {wk[w].job}
  BY <1>1, GoToEffect DEF SendAccepted, ProviderAccepts, Held
<1>2. \/ UNCHANGED wk
      \/ \E v \in Workers, j \in Jobs : Claim(v, j)
      \/ \E v \in Workers : SendAccepted(v) \/ Release(v)
      \/ \E v \in Workers, s \in Steps \ {"accepted"} : GoTo(v, s)
  BY DEF Next, vars, Work, Enqueue, EnqueueWorkflow, Insert, BecomesDue, LeaseExpires,
         StopInsert, StopCancel, StopHandlerDies, WorkflowStop, SetSendingPaused,
         SendingPaused, IsSuppressed, SendLost, SendFailed, SendRefused, AfterRefusal,
         AfterTransient, BlockInsert, BlockCancel, Complete, Retry, Fail,
         EndIteration, StoreError, Crash, Steps
<1> QED  BY <1>1, <1>2, ClaimEffect, ReleaseEffect, GoToEffect

LEMMA NextSent == TypeOK /\ SentInv /\ [Next]_vars => SentInv'
<1> SUFFICES ASSUME TypeOK, SentInv, [Next]_vars PROVE SentInv'
  OBVIOUS
<1>0. accepted \subseteq accepted'
  BY AcceptedGrows
<1>1. \A w \in Workers : wk'[w].pc = "accepted" => wk'[w].job \in accepted'
  BY <1>0, AcceptedStep DEF SentInv, Held
<1>2. ASSUME NEW j \in Jobs, row'[j].status = "sent", row[j].status # "sent"
      PROVE  j \in accepted
  <2>0. row \in [Jobs -> Row] /\ row[j] \in Row
    BY DEF TypeOK
  <2>1. \E w \in Workers : Complete(w) /\ Held(w) = j
    <3>1. CASE UNCHANGED row
      BY <1>2, <3>1
    <3>2. ASSUME NEW i \in Jobs, NEW t \in Times, Insert(i, t) PROVE FALSE
      BY <1>2, <2>0, <3>2 DEF Insert, Queued
    <3>3. ASSUME NEW i \in Jobs, BecomesDue(i) PROVE FALSE
      <4>1. row' = [row EXCEPT ![i].when = "now"]
        BY <3>3 DEF BecomesDue
      <4>2. row'[j].status = row[j].status
        BY <2>0, <4>1 DEF Row
      <4> QED  BY <1>2, <4>2
    <3>4. ASSUME NEW i \in Jobs, LeaseExpires(i) PROVE FALSE
      <4>1. row' = [row EXCEPT ![i].lease = "expired"]
        BY <3>4 DEF LeaseExpires
      <4>2. row'[j].status = row[j].status
        BY <2>0, <4>1 DEF Row
      <4> QED  BY <1>2, <4>2
    <3>5. ASSUME NEW n, CancelQueued(n) PROVE FALSE
      <4>1. row'[j] = IF NumberOf[j] = n /\ row[j].status = "queued"
                      THEN [row[j] EXCEPT !.status = "cancelled"] ELSE row[j]
        BY <3>5 DEF CancelQueued
      <4>2. row'[j].status \in {"cancelled", row[j].status}
        BY <2>0, <4>1 DEF Row
      <4> QED  BY <1>2, <4>2
    <3>6. ASSUME NEW w \in Workers, NEW i \in Jobs, Claim(w, i) PROVE FALSE
      <4>1. row' = [row EXCEPT ![i].status = "sending", ![i].attempts = Bump(@),
                               ![i].lease = "live"]
        BY <3>6 DEF Claim, Take
      <4>2. row'[j].status \in {"sending", row[j].status}
        BY <2>0, <4>1 DEF Row
      <4> QED  BY <1>2, <4>2
    <3>7. ASSUME NEW w \in Workers, Complete(w) PROVE Held(w) = j
      BY <1>2, <3>7, EndEffect DEF Complete
    <3>8. ASSUME NEW w \in Workers, Retry(w) PROVE FALSE
      <4>1. row[Held(w)] \in Row
        BY <3>8, HeldRow DEF Retry, EndIteration
      <4>2. /\ row'[Held(w)] = [row[Held(w)] EXCEPT !.status = "queued", !.when = "later",
                                                 !.lease = "none"]
            /\ Held(w) # j => row'[j] = row[j]
        BY <3>8, EndEffect DEF Retry
      <4>3. row'[Held(w)].status = "queued"
        BY <4>1, <4>2 DEF Row
      <4> QED  BY <1>2, <4>2, <4>3
    <3>9. ASSUME NEW w \in Workers, Fail(w) PROVE FALSE
      <4>1. row[Held(w)] \in Row
        BY <3>9, HeldRow DEF Fail, EndIteration
      <4>2. /\ row'[Held(w)] = [row[Held(w)] EXCEPT !.status = "failed", !.lease = "none"]
            /\ Held(w) # j => row'[j] = row[j]
        BY <3>9, EndEffect DEF Fail
      <4>3. row'[Held(w)].status = "failed"
        BY <4>1, <4>2 DEF Row
      <4> QED  BY <1>2, <4>2, <4>3
    <3> QED  BY <3>1, <3>2, <3>3, <3>4, <3>5, <3>6, <3>7, <3>8, <3>9, RowWriters
  <2> QED  BY <2>1 DEF SentInv, Complete, EndIteration
<1> QED  BY <1>0, <1>1, <1>2 DEF SentInv, SentWasAccepted, Held

LEMMA SentInvariant == Spec => []SentInv
<1>1. Init => SentInv
  BY DEF Init, SentInv, SentWasAccepted, NoRow, Idle
<1> QED  BY <1>1, TypeCorrect, NextSent, PTL DEF Spec

(* No row says sent of a message the provider never took.                  *)
THEOREM SentTheorem == Spec => []SentWasAccepted
<1>1. SentInv => SentWasAccepted
  BY DEF SentInv
<1> QED  BY <1>1, SentInvariant, PTL
-----------------------------------------------------------------------------
(* What a worker sends late is bounded: a send may be late only if the     *)
(* worker was cleared before the number was suppressed, and suppressions   *)
(* are never taken back, so it is not cleared for that number again.       *)
LateInv ==
    \A w \in Workers, n \in Numbers :
        /\ lateSends[w][n] <= 1
        /\ lateSends[w][n] # 0 => n \in suppressed
        /\ wk[w].pc = "cleared" /\ NumberOf[wk[w].job] = n => lateSends[w][n] = 0

(* Every step but a send and a passed suppression check leaves the history *)
(* alone, takes no suppression back and clears no worker.                  *)
LEMMA LateFrame ==
    ASSUME TypeOK, [Next]_vars,
           ~ \E w \in Workers : SendAccepted(w) \/ SendLost(w) \/ IsSuppressed(w)
    PROVE  /\ UNCHANGED lateSends
           /\ suppressed \subseteq suppressed'
           /\ \A w \in Workers : wk'[w].pc = "cleared" => wk'[w] = wk[w]
<1>1. UNCHANGED lateSends /\ suppressed \subseteq suppressed'
  BY DEF Next, vars, history, Work, Enqueue, EnqueueWorkflow, Insert, BecomesDue, LeaseExpires,
         StopInsert, StopCancel, StopHandlerDies, WorkflowStop, SetSendingPaused,
         Claim, Take, SendingPaused, SendFailed,
         SendRefused, BlockInsert, BlockCancel, Complete, Retry, Fail,
         EndIteration, StoreError, Crash
<1>2. \/ UNCHANGED wk
      \/ \E v \in Workers, j \in Jobs : Claim(v, j)
      \/ \E v \in Workers : Release(v)
      \/ \E v \in Workers, s \in Steps \ {"cleared"} : GoTo(v, s)
  BY DEF Next, vars, Work, Enqueue, EnqueueWorkflow, Insert, BecomesDue, LeaseExpires,
         StopInsert, StopCancel, StopHandlerDies, WorkflowStop, SetSendingPaused,
         SendingPaused, SendFailed, SendRefused, AfterRefusal,
         AfterTransient, BlockInsert, BlockCancel, Complete, Retry, Fail,
         EndIteration, StoreError, Crash, Steps
<1>3. \A w \in Workers : wk'[w].pc = "cleared" => wk'[w] = wk[w]
  BY <1>2, ClaimEffect, ReleaseEffect, GoToEffect
<1> QED  BY <1>1, <1>3

LEMMA NextLate == TypeOK /\ LateInv /\ [Next]_vars => LateInv'
<1> SUFFICES ASSUME TypeOK, LateInv, [Next]_vars PROVE LateInv'
  OBVIOUS
<1> USE DEF TypeOK, Slot
<1>1. ASSUME NEW v \in Workers, SendAccepted(v) \/ SendLost(v) PROVE LateInv'
  <2>1. wk[v].pc = "cleared" /\ ProviderAccepts(v) /\ UNCHANGED suppressed
    BY <1>1 DEF SendAccepted, SendLost
  <2>2. \A w \in Workers : wk'[w].pc = "cleared" => wk'[w] = wk[w] /\ w # v
    BY <1>1 DEF SendAccepted, SendLost, GoTo, AfterTransient
  <2>3. \A w \in Workers, n \in Numbers : w # v => lateSends'[w][n] = lateSends[w][n]
    BY <2>1 DEF ProviderAccepts
  <2>4. \A n \in Numbers :
          lateSends'[v][n] = IF n = NumberOf[Held(v)] /\ n \in suppressed
                             THEN lateSends[v][n] + 1 ELSE lateSends[v][n]
    BY <2>1 DEF ProviderAccepts
  <2>5. ASSUME NEW n \in Numbers
        PROVE  lateSends'[v][n] <= 1 /\ (lateSends'[v][n] # 0 => n \in suppressed)
    BY <2>1, <2>4 DEF LateInv, Held
  <2> QED  BY <2>1, <2>2, <2>3, <2>5 DEF LateInv
<1>2. ASSUME NEW v \in Workers, IsSuppressed(v) PROVE LateInv'
  <2>1. UNCHANGED <<lateSends, suppressed>> /\ wk[v].pc = "unpaused"
    BY <1>2 DEF IsSuppressed, history
  <2>2. \A w \in Workers : wk'[w].job = wk[w].job /\ (w # v => wk'[w] = wk[w])
    BY <1>2 DEF IsSuppressed, GoTo
  <2>3. wk'[v].pc = "cleared" => NumberOf[wk[v].job] \notin suppressed
    BY <1>2 DEF IsSuppressed, GoTo, Held
  <2>4. \A n \in Numbers : n \notin suppressed => lateSends[v][n] = 0
    BY DEF LateInv
  <2>5. ASSUME NEW w \in Workers, NEW n \in Numbers,
               wk'[w].pc = "cleared", NumberOf[wk'[w].job] = n
        PROVE  lateSends[w][n] = 0
    <3>1. CASE w = v
      BY <2>2, <2>3, <2>4, <2>5, <3>1
    <3>2. CASE w # v
      BY <2>2, <2>5, <3>2 DEF LateInv
    <3> QED  BY <3>1, <3>2
  <2> QED  BY <2>1, <2>5 DEF LateInv
<1>3. CASE ~ \E w \in Workers : SendAccepted(w) \/ SendLost(w) \/ IsSuppressed(w)
  BY <1>3, LateFrame DEF LateInv
<1> QED  BY <1>1, <1>2, <1>3

(* After a STOP each worker may get one more message out to the number,    *)
(* never two.                                                              *)
THEOREM LateTheorem == Spec => []OneLateSendPerWorker
<1>1. Init => LateInv
  BY DEF Init, LateInv, Idle
<1>2. LateInv => OneLateSendPerWorker
  BY DEF LateInv, OneLateSendPerWorker
<1> QED
  BY <1>1, <1>2, TypeCorrect, NextLate, PTL DEF Spec
-----------------------------------------------------------------------------
(* The same argument for the pause switch, which can be turned off again:  *)
(* the count then starts anew.                                             *)
PauseInv ==
    \A w \in Workers :
        /\ pausedSends[w] <= 1
        /\ pausedSends[w] # 0 => paused
        /\ wk[w].pc \in {"unpaused", "cleared"} => pausedSends[w] = 0

LEMMA PauseFrame ==
    ASSUME TypeOK, [Next]_vars,
           ~ \E w \in Workers : SendAccepted(w) \/ SendLost(w) \/ SendingPaused(w),
           ~ \E p \in BOOLEAN : SetSendingPaused(p)
    PROVE  /\ UNCHANGED <<pausedSends, paused>>
           /\ \A w \in Workers : wk'[w].pc \in {"unpaused", "cleared"}
                                 => wk[w].pc \in {"unpaused", "cleared"}
<1>1. UNCHANGED <<pausedSends, paused>>
  BY DEF Next, vars, history, Work, Enqueue, EnqueueWorkflow, Insert, BecomesDue, LeaseExpires,
         StopInsert, StopCancel, StopHandlerDies, WorkflowStop,
         Claim, Take, IsSuppressed, SendFailed,
         SendRefused, BlockInsert, BlockCancel, Complete, Retry, Fail,
         EndIteration, StoreError, Crash
<1>2. \/ UNCHANGED wk
      \/ \E v \in Workers, j \in Jobs : Claim(v, j)
      \/ \E v \in Workers : Release(v)
      \/ \E v \in Workers : IsSuppressed(v)
      \/ \E v \in Workers, s \in Steps \ {"unpaused", "cleared"} : GoTo(v, s)
  BY DEF Next, vars, Work, Enqueue, EnqueueWorkflow, Insert, BecomesDue, LeaseExpires,
         StopInsert, StopCancel, StopHandlerDies, WorkflowStop,
         SendFailed, SendRefused, AfterRefusal,
         AfterTransient, BlockInsert, BlockCancel, Complete, Retry, Fail,
         EndIteration, StoreError, Crash, Steps
<1>3. \A w \in Workers : wk'[w].pc \in {"unpaused", "cleared"}
                        => wk[w].pc \in {"unpaused", "cleared"}
  <2>1. ASSUME NEW v \in Workers, IsSuppressed(v)
        PROVE  \A w \in Workers : wk[w].pc = wk'[w].pc \/ wk[w].pc = "unpaused"
    BY <2>1, GoToEffect DEF IsSuppressed
  <2> QED  BY <1>2, <2>1, ClaimEffect, ReleaseEffect, GoToEffect
<1> QED  BY <1>1, <1>3

LEMMA NextPause == TypeOK /\ PauseInv /\ [Next]_vars => PauseInv'
<1> SUFFICES ASSUME TypeOK, PauseInv, [Next]_vars PROVE PauseInv'
  OBVIOUS
<1> USE DEF TypeOK, Slot
<1>1. ASSUME NEW v \in Workers, SendAccepted(v) \/ SendLost(v) PROVE PauseInv'
  <2>1. wk[v].pc = "cleared" /\ ProviderAccepts(v) /\ UNCHANGED paused
    BY <1>1 DEF SendAccepted, SendLost
  <2>2. \A w \in Workers : wk'[w].pc \in {"unpaused", "cleared"} => wk'[w] = wk[w] /\ w # v
    BY <1>1 DEF SendAccepted, SendLost, GoTo, AfterTransient
  <2>3. /\ \A w \in Workers : w # v => pausedSends'[w] = pausedSends[w]
        /\ pausedSends'[v] = IF paused THEN pausedSends[v] + 1 ELSE pausedSends[v]
    BY <2>1 DEF ProviderAccepts
  <2> QED  BY <2>1, <2>2, <2>3 DEF PauseInv
<1>2. ASSUME NEW v \in Workers, SendingPaused(v) PROVE PauseInv'
  <2>1. UNCHANGED <<pausedSends, paused>>
    BY <1>2 DEF SendingPaused, history
  <2>2. \A w \in Workers : w # v => wk'[w] = wk[w]
    BY <1>2 DEF SendingPaused, GoTo
  <2>3. wk'[v].pc \in {"unpaused", "cleared"} => ~paused
    BY <1>2 DEF SendingPaused, GoTo
  <2> QED  BY <2>1, <2>2, <2>3 DEF PauseInv
<1>3. ASSUME NEW p \in BOOLEAN, SetSendingPaused(p) PROVE PauseInv'
  BY <1>3 DEF SetSendingPaused, PauseInv
<1>4. CASE /\ ~ \E w \in Workers : SendAccepted(w) \/ SendLost(w) \/ SendingPaused(w)
           /\ ~ \E p \in BOOLEAN : SetSendingPaused(p)
  BY <1>4, PauseFrame DEF PauseInv
<1> QED  BY <1>1, <1>2, <1>3, <1>4

(* After the operator pauses sending each worker may get one more message  *)
(* out, never two.                                                         *)
THEOREM PauseTheorem == Spec => []OnePausedSendPerWorker
<1>1. Init => PauseInv
  BY DEF Init, PauseInv, Idle
<1>2. PauseInv => OnePausedSendPerWorker
  BY DEF PauseInv, OnePausedSendPerWorker
<1> QED
  BY <1>1, <1>2, TypeCorrect, NextPause, PTL DEF Spec
-----------------------------------------------------------------------------
(* A job whose lease no worker outlives is, while it is in a worker's      *)
(* hands, a "sending" row with a live lease and in nobody else's hands,    *)
(* whatever happens to the leases of the other jobs.                       *)
LeasedFor(j) ==
    \A w \in Workers : wk[w].job = j =>
        /\ row[j].status = "sending" /\ row[j].lease = "live"
        /\ \A v \in Workers : v # w => wk[v].job # j

(* No worker outlives its lease of j in this step.                         *)
NoOverrun(j) == LeaseExpires(j) => \A w \in Workers : ~Holds(w, j)

(* What the steps that do not write the row of j leave as it was.          *)
LEMMA LeasedFrame ==
    ASSUME NEW j \in Jobs, LeasedFor(j),
           \A w \in Workers : wk'[w].job = j => wk[w].job = j,
           \A w \in Workers : wk'[w].job = j =>
               row'[j].status = row[j].status /\ row'[j].lease = row[j].lease
    PROVE  LeasedFor(j)'
  BY DEF LeasedFor

(* A worker comes to a job by a claim alone.                               *)
LEMMA SlotWriters ==
    ASSUME [Next]_vars
    PROVE  \/ UNCHANGED wk
           \/ \E v \in Workers, j \in Jobs : Claim(v, j)
           \/ \E v \in Workers : Release(v)
           \/ \E v \in Workers, s \in Steps : GoTo(v, s)
  BY DEF Next, vars, Work, Enqueue, EnqueueWorkflow, Insert, BecomesDue, LeaseExpires,
         StopInsert, StopCancel, StopHandlerDies, WorkflowStop, SetSendingPaused,
         SendingPaused, IsSuppressed, SendAccepted, SendLost, SendFailed, SendRefused,
         AfterRefusal, AfterTransient, BlockInsert, BlockCancel, Complete, Retry, Fail,
         EndIteration, StoreError, Crash, Steps

LEMMA NextLeasedFor ==
    ASSUME NEW j \in Jobs, TypeOK, LeasedFor(j), NoOverrun(j), [Next]_vars
    PROVE  LeasedFor(j)'
<1>1. row \in [Jobs -> Row] /\ j # NoJob
  BY OutboundAssumption DEF TypeOK
<1>2. ASSUME NEW v \in Workers, Claim(v, j) PROVE LeasedFor(j)'
  <2>1. \A w \in Workers : wk[w].job # j
    BY <1>2 DEF LeasedFor, Claim
  <2>2. row'[j].status = "sending" /\ row'[j].lease = "live"
    <3>1. row' = [row EXCEPT ![j].status = "sending", ![j].attempts = Bump(@),
                             ![j].lease = "live"]
      BY <1>2 DEF Claim, Take
    <3> QED  BY <1>1, <3>1 DEF Row
  <2>3. wk'[v].job = j /\ \A w \in Workers : w # v => wk'[w] = wk[w]
    BY <1>2, ClaimEffect
  <2> QED  BY <2>1, <2>2, <2>3 DEF LeasedFor
<1>3. ASSUME \A v \in Workers : ~Claim(v, j) PROVE LeasedFor(j)'
  <2>1. \A w \in Workers : wk'[w].job = j => wk[w].job = j
    BY <1>1, <1>3, SlotWriters, GoToEffect, ReleaseEffect, ClaimEffect
  <2>2. ASSUME NEW w \in Workers, wk'[w].job = j
        PROVE  row'[j].status = row[j].status /\ row'[j].lease = row[j].lease
    <3> DEFINE Same == row'[j].status = row[j].status /\ row'[j].lease = row[j].lease
    <3>1. /\ wk[w].job = j /\ row[j].status = "sending" /\ row[j].lease = "live"
          /\ \A v \in Workers : v # w => wk[v].job # j
      BY <2>1, <2>2 DEF LeasedFor
    <3>2. CASE UNCHANGED row
      BY <3>2
    <3>3. ASSUME NEW i \in Jobs, NEW t \in Times, Insert(i, t) PROVE Same
      BY <1>1, <3>1, <3>3 DEF Insert
    <3>4. ASSUME NEW i \in Jobs, BecomesDue(i) PROVE Same
      BY <1>1, <3>1, <3>4 DEF BecomesDue
    <3>5. ASSUME NEW i \in Jobs, LeaseExpires(i) PROVE Same
      <4>1. i # j
        BY <3>1, <3>5 DEF NoOverrun, Holds
      <4> QED  BY <1>1, <3>5, <4>1 DEF LeaseExpires
    <3>6. ASSUME NEW n, CancelQueued(n) PROVE Same
      BY <3>1, <3>6 DEF CancelQueued
    <3>7. ASSUME NEW v \in Workers, NEW i \in Jobs, Claim(v, i) PROVE Same
      <4>1. i # j
        BY <1>3, <3>7
      <4> QED  BY <1>1, <3>7, <4>1 DEF Claim, Take
    <3>8. ASSUME NEW v \in Workers, NEW s \in Steps \ {"idle"}, NEW r, EndIteration(v, s, r)
          PROVE  Same
      <4>1. wk'[v].job = NoJob
        BY <3>8, ReleaseEffect DEF EndIteration
      <4>2. v # w
        BY <1>1, <2>2, <4>1
      <4> QED  BY <3>1, <3>8, <4>2, EndEffect DEF Held
    <3>9. ASSUME NEW v \in Workers, Complete(v) \/ Retry(v) \/ Fail(v) PROVE Same
      BY <3>8, <3>9 DEF Complete, Retry, Fail, Steps
    <3> QED  BY <3>2, <3>3, <3>4, <3>5, <3>6, <3>7, <3>9, RowWriters
  <2> QED  BY <2>1, <2>2, LeasedFrame
<1> QED  BY <1>2, <1>3

LEMMA InitLeasedFor == ASSUME NEW j \in Jobs PROVE Init => LeasedFor(j)
  BY OutboundAssumption DEF Init, LeasedFor, Idle

(* A job whose lease nobody outlives is, while it is in a worker's hands,  *)
(* "sending" under a live lease and in one worker's hands: however late    *)
(* the workers are with other jobs, no two of them work on this one.       *)
THEOREM JobLeasedTheorem ==
    ASSUME NEW j \in Jobs
    PROVE  Spec /\ [][NoOverrun(j)]_vars => []LeasedFor(j)
<1>1. Init => LeasedFor(j)
  BY InitLeasedFor
<1>2. TypeOK /\ LeasedFor(j) /\ [Next]_vars /\ [NoOverrun(j)]_vars => LeasedFor(j)'
  <2>1. CASE UNCHANGED vars
    BY <2>1 DEF vars, LeasedFor
  <2> QED  BY <2>1, NextLeasedFor
<1> QED  BY <1>1, <1>2, TypeCorrect, PTL DEF Spec

(* A job in a worker's hands cannot be claimed, cancelled or finished by   *)
(* anybody else, provided that no worker outlives its lease.               *)
THEOREM LeasedTheorem ==
    ASSUME ~StallsPossible
    PROVE  Spec => [](HolderHasLease /\ ExclusiveClaim)
<1> DEFINE LeasedInv == \A j \in Jobs : LeasedFor(j)
<1>1. Init => LeasedInv
  BY InitLeasedFor
<1>2. TypeOK /\ LeasedInv /\ [Next]_vars => LeasedInv'
  <2>1. \A j \in Jobs : NoOverrun(j)
    BY DEF NoOverrun, LeaseExpires
  <2> QED  BY <2>1, NextLeasedFor
<1>3. TypeOK /\ LeasedInv => HolderHasLease /\ ExclusiveClaim
  BY HeldRow DEF LeasedFor, HolderHasLease, ExclusiveClaim, Held
<1> QED
  BY <1>1, <1>2, <1>3, TypeCorrect, PTL DEF Spec
-----------------------------------------------------------------------------
(* Outbox.  The step that matters for each writer of a row is what it does *)
(* to the phase of a job that is open.                                     *)
PhaseOf(r) == IF r.status \in {"queued", "sending"} THEN "open" ELSE r.status

LEMMA SamePhase ==
    ASSUME \A j \in Jobs : PhaseOf(row'[j]) = PhaseOf(row[j])
    PROVE  UNCHANGED phase
  BY DEF phase, PhaseOf

LEMMA OnePhase ==
    ASSUME NEW i \in Jobs, NEW p, PhaseOf(row'[i]) = p,
           \A j \in Jobs : j # i => row'[j] = row[j]
    PROVE  phase' = [phase EXCEPT ![i] = p]
<1>1. phase' = [j \in Jobs |-> PhaseOf(row'[j])] /\ phase = [j \in Jobs |-> PhaseOf(row[j])]
  BY DEF phase, PhaseOf
<1> QED  BY <1>1

LEMMA AcceptedWriters ==
    ASSUME [Next]_vars, accepted' # accepted
    PROVE  \E w \in Workers : /\ wk[w].pc = "cleared"
                              /\ accepted' = accepted \cup {Held(w)}
                              /\ UNCHANGED row
  BY DEF Next, vars, Work, Enqueue, EnqueueWorkflow, Insert, BecomesDue, LeaseExpires,
         StopInsert, StopCancel, StopHandlerDies, WorkflowStop, SetSendingPaused,
         Claim, Take, SendingPaused, IsSuppressed, SendAccepted, SendLost, SendFailed,
         SendRefused, ProviderAccepts, BlockInsert, BlockCancel, Complete, Retry, Fail,
         EndIteration, StoreError, Crash

BoxStep == [Box!Next]_<<phase, accepted>>

LEMMA StepImplementsOutbox ==
    ASSUME TypeOK, SentInv, HolderHasLease, [Next]_vars
    PROVE  BoxStep
<1> USE DEF TypeOK, Row
<1>1. CASE accepted' # accepted
  <2>1. PICK w \in Workers : /\ wk[w].pc = "cleared"
                             /\ accepted' = accepted \cup {Held(w)}
                             /\ UNCHANGED row
    BY <1>1, AcceptedWriters
  <2>2. phase[Held(w)] = "open" /\ Held(w) \in Jobs /\ UNCHANGED phase
    BY <2>1, HeldRow DEF HolderHasLease, phase
  <2>3. Box!Accept(Held(w))
    BY <2>1, <2>2 DEF Box!Accept
  <2> QED  BY <2>2, <2>3 DEF BoxStep, Box!Next
<1>2. CASE UNCHANGED <<row, accepted>>
  BY <1>2 DEF BoxStep, phase
<1> SUFFICES ASSUME UNCHANGED accepted PROVE BoxStep
  BY <1>1
<1>3. ASSUME \A j \in Jobs : PhaseOf(row'[j]) = PhaseOf(row[j]) PROVE BoxStep
  BY <1>3, SamePhase DEF BoxStep
<1>4. ASSUME NEW j \in Jobs, NEW t \in Times, Insert(j, t) PROVE BoxStep
  <2>1. phase[j] = "absent" /\ phase' = [phase EXCEPT ![j] = "open"]
    BY <1>4, OnePhase DEF Insert, Queued, phase, PhaseOf
  <2> QED  BY <2>1 DEF BoxStep, Box!Next, Box!Submit
<1>5. ASSUME NEW j \in Jobs, BecomesDue(j) \/ LeaseExpires(j) PROVE BoxStep
  <2>1. \A i \in Jobs : row'[i].status = row[i].status
    <3>1. CASE BecomesDue(j)
      BY <3>1 DEF BecomesDue
    <3>2. CASE LeaseExpires(j)
      BY <3>2 DEF LeaseExpires
    <3> QED  BY <1>5, <3>1, <3>2
  <2> QED  BY <1>3, <2>1 DEF PhaseOf
<1>6. ASSUME NEW n, CancelQueued(n) PROVE BoxStep
  <2> DEFINE S == {j \in Jobs : NumberOf[j] = n /\ row[j].status = "queued"}
  <2>1. \A j \in Jobs : PhaseOf(row'[j]) = IF j \in S THEN "cancelled" ELSE PhaseOf(row[j])
    BY <1>6 DEF CancelQueued, PhaseOf
  <2>2. phase' = [j \in Jobs |-> IF j \in S THEN "cancelled" ELSE phase[j]]
    BY <2>1 DEF phase, PhaseOf
  <2>3. \A j \in S : phase[j] = "open"
    BY DEF phase
  <2>4. Box!Cancel(S) /\ S \in SUBSET Jobs
    BY <2>2, <2>3 DEF Box!Cancel
  <2> QED  BY <2>4 DEF BoxStep, Box!Next
<1>7. ASSUME NEW w \in Workers, NEW j \in Jobs, Claim(w, j) PROVE BoxStep
  <2>1. row[j].status \in {"queued", "sending"} /\ row'[j].status = "sending"
        /\ \A i \in Jobs : i # j => row'[i] = row[i]
    BY <1>7 DEF Claim, Take
  <2> QED  BY <1>3, <2>1 DEF PhaseOf
<1>8. ASSUME NEW w \in Workers, Complete(w) PROVE BoxStep
  <2>1. wk[w].pc = "accepted" /\ Held(w) \in Jobs /\ Held(w) \in accepted
    BY <1>8, HeldRow DEF Complete, EndIteration, SentInv
  <2>2. phase[Held(w)] = "open"
    BY <2>1 DEF HolderHasLease, phase
  <2>3. row'[Held(w)].status = "sent" /\ \A j \in Jobs : j # Held(w) => row'[j] = row[j]
    BY <1>8, <2>1 DEF Complete, EndIteration
  <2>4. phase' = [phase EXCEPT ![Held(w)] = "sent"]
    BY <2>1, <2>3, OnePhase DEF PhaseOf
  <2> QED  BY <2>1, <2>2, <2>4 DEF BoxStep, Box!Next, Box!Deliver
<1>9. ASSUME NEW w \in Workers, Retry(w) PROVE BoxStep
  <2>1. wk[w].pc = "requeue" /\ Held(w) \in Jobs /\ row[Held(w)].status = "sending"
    BY <1>9, HeldRow DEF Retry, EndIteration, HolderHasLease
  <2>2. row'[Held(w)].status = "queued" /\ \A j \in Jobs : j # Held(w) => row'[j] = row[j]
    BY <1>9, <2>1 DEF Retry, EndIteration
  <2> QED  BY <1>3, <2>1, <2>2 DEF PhaseOf
<1>10. ASSUME NEW w \in Workers, Fail(w) PROVE BoxStep
  <2>1. wk[w].pc = "drop" /\ Held(w) \in Jobs
    BY <1>10, HeldRow DEF Fail, EndIteration
  <2>2. phase[Held(w)] = "open"
    BY <2>1 DEF HolderHasLease, phase
  <2>3. row'[Held(w)].status = "failed" /\ \A j \in Jobs : j # Held(w) => row'[j] = row[j]
    BY <1>10, <2>1 DEF Fail, EndIteration
  <2>4. phase' = [phase EXCEPT ![Held(w)] = "failed"]
    BY <2>1, <2>3, OnePhase DEF PhaseOf
  <2> QED  BY <2>1, <2>2, <2>4 DEF BoxStep, Box!Next, Box!GiveUp
<1> QED
  BY <1>2, <1>4, <1>5, <1>6, <1>7, <1>8, <1>9, <1>10, RowWriters

(* The queue keeps the Outbox's promise when no worker outlives its lease: *)
(* every statement of every process is one abstract step or invisible.     *)
THEOREM OutboxTheorem ==
    ASSUME ~StallsPossible
    PROVE  Spec => ImplementsOutbox
<1>1. Init => Box!Init
  BY DEF Init, Box!Init, NoRow, phase
<1>2. TypeOK /\ SentInv /\ HolderHasLease /\ [Next]_vars => [Box!Next]_<<phase, accepted>>
  BY StepImplementsOutbox DEF BoxStep
<1> QED
  BY <1>1, <1>2, TypeCorrect, SentInvariant, LeasedTheorem, PTL DEF Spec, ImplementsOutbox, Box!Spec

(* A settled job is final: what is sent, failed or cancelled stays so.     *)
THEOREM SettledTheorem ==
    ASSUME ~StallsPossible
    PROVE  Spec => SettledIsFinal
<1>1. ASSUME [Box!Next]_<<phase, accepted>>, TypeOK, TypeOK'
      PROVE  \A j \in Jobs : row[j].status \in Settled => row'[j].status = row[j].status
  <2>1. \A j \in Jobs : phase[j] \in Settled => phase'[j] = phase[j]
    BY <1>1 DEF Box!Next, Box!Submit, Box!Accept, Box!Deliver, Box!GiveUp, Box!Cancel,
                phase, Settled
  <2>2. \A j \in Jobs : row[j].status \in Statuses /\ row'[j].status \in Statuses
    BY <1>1 DEF TypeOK, Row
  <2>3. \A j \in Jobs : row[j].status \in Settled => phase[j] = row[j].status
    BY DEF phase, Settled
  <2>4. \A j \in Jobs : phase'[j] \in Settled => row'[j].status = phase'[j]
    BY <2>2 DEF phase, Settled, Statuses
  <2> QED  BY <2>1, <2>3, <2>4
<1> QED
  BY <1>1, TypeCorrect, OutboxTheorem, PTL DEF Spec, SettledIsFinal, ImplementsOutbox, Box!Spec
-----------------------------------------------------------------------------
(* Outbox for one job, whatever becomes of the leases of the others.       *)
One(j) == INSTANCE Outbox WITH Jobs <- {j}, phase <- [i \in {j} |-> phase[i]],
                               accepted <- accepted \cap {j}
OneVars(j) == <<[i \in {j} |-> phase[i]], accepted \cap {j}>>
OneStep(j) == [One(j)!Next]_(OneVars(j))

(* What becomes of a job's phase in a step in which nothing is accepted.   *)
PhaseMove(j) ==
    \/ phase'[j] = phase[j]
    \/ phase[j] = "absent" /\ phase'[j] = "open"
    \/ phase[j] = "open" /\ phase'[j] \in {"failed", "cancelled"}
    \/ phase[j] = "open" /\ phase'[j] = "sent" /\ j \in accepted

LEMMA NextPhaseMove ==
    ASSUME NEW j \in Jobs, TypeOK, SentInv, LeasedFor(j), [Next]_vars
    PROVE  PhaseMove(j)
<1>1. row \in [Jobs -> Row] /\ row[j] \in Row
  BY DEF TypeOK
<1>2. phase[j] = PhaseOf(row[j]) /\ phase'[j] = PhaseOf(row'[j])
  BY DEF phase, PhaseOf
<1>3. CASE row'[j].status = row[j].status
  BY <1>2, <1>3 DEF PhaseMove, PhaseOf
<1>4. ASSUME NEW i \in Jobs, NEW t \in Times, Insert(i, t) PROVE PhaseMove(j)
  <2>1. CASE i = j
    <3>1. row[j].status = "absent" /\ row'[j].status = "queued"
      BY <1>1, <1>4, <2>1 DEF Insert, Queued
    <3> QED  BY <1>2, <3>1 DEF PhaseMove, PhaseOf
  <2>2. CASE i # j
    BY <1>1, <1>3, <1>4, <2>2 DEF Insert
  <2> QED  BY <2>1, <2>2
<1>5. ASSUME NEW i \in Jobs, BecomesDue(i) PROVE PhaseMove(j)
  BY <1>1, <1>3, <1>5 DEF BecomesDue
<1>6. ASSUME NEW i \in Jobs, LeaseExpires(i) PROVE PhaseMove(j)
  BY <1>1, <1>3, <1>6 DEF LeaseExpires
<1>7. ASSUME NEW n, CancelQueued(n) PROVE PhaseMove(j)
  <2>1. CASE NumberOf[j] = n /\ row[j].status = "queued"
    <3>1. row'[j].status = "cancelled"
      BY <1>1, <1>7, <2>1 DEF CancelQueued
    <3> QED  BY <1>2, <2>1, <3>1 DEF PhaseMove, PhaseOf
  <2>2. CASE ~(NumberOf[j] = n /\ row[j].status = "queued")
    BY <1>3, <1>7, <2>2 DEF CancelQueued
  <2> QED  BY <2>1, <2>2
<1>8. ASSUME NEW w \in Workers, NEW i \in Jobs, Claim(w, i) PROVE PhaseMove(j)
  <2>1. CASE i = j
    <3>1. row[j].status \in {"queued", "sending"} /\ row'[j].status = "sending"
      BY <1>1, <1>8, <2>1 DEF Claim, Take
    <3> QED  BY <1>2, <3>1 DEF PhaseMove, PhaseOf
  <2>2. CASE i # j
    BY <1>1, <1>3, <1>8, <2>2 DEF Claim, Take
  <2> QED  BY <2>1, <2>2
<1>9. ASSUME NEW w \in Workers, Complete(w) \/ Retry(w) \/ Fail(w) PROVE PhaseMove(j)
  <2>1. CASE Held(w) # j
    BY <1>3, <1>9, <2>1, EndEffect DEF Complete, Retry, Fail
  <2>2. CASE Held(w) = j
    <3>1. phase[j] = "open"
      BY <1>2, <2>2 DEF LeasedFor, Held, PhaseOf
    <3>2. CASE Complete(w)
      <4>1. j \in accepted
        BY <2>2, <3>2 DEF Complete, EndIteration, SentInv
      <4>2. row'[j] = [row[j] EXCEPT !.status = "sent", !.lease = "none"]
        BY <2>2, <3>2, EndEffect DEF Complete
      <4>3. row'[j].status = "sent"
        BY <1>1, <4>2 DEF Row
      <4> QED  BY <1>2, <3>1, <4>1, <4>3 DEF PhaseMove, PhaseOf
    <3>3. CASE Retry(w)
      <4>1. row'[j] = [row[j] EXCEPT !.status = "queued", !.when = "later", !.lease = "none"]
        BY <2>2, <3>3, EndEffect DEF Retry
      <4>2. row'[j].status = "queued"
        BY <1>1, <4>1 DEF Row
      <4> QED  BY <1>2, <3>1, <4>2 DEF PhaseMove, PhaseOf
    <3>4. CASE Fail(w)
      <4>1. row'[j] = [row[j] EXCEPT !.status = "failed", !.lease = "none"]
        BY <2>2, <3>4, EndEffect DEF Fail
      <4>2. row'[j].status = "failed"
        BY <1>1, <4>1 DEF Row
      <4> QED  BY <1>2, <3>1, <4>2 DEF PhaseMove, PhaseOf
    <3> QED  BY <1>9, <3>2, <3>3, <3>4
  <2> QED  BY <2>1, <2>2
<1>10. CASE UNCHANGED row
  BY <1>3, <1>10
<1> QED  BY <1>4, <1>5, <1>6, <1>7, <1>8, <1>9, <1>10, RowWriters

LEMMA StepImplementsOne ==
    ASSUME NEW j \in Jobs, TypeOK, SentInv, LeasedFor(j), [Next]_vars
    PROVE  OneStep(j)
<1> DEFINE mine == [i \in {j} |-> phase[i]]
<1>1. CASE accepted' # accepted
  <2>1. PICK w \in Workers : /\ wk[w].pc = "cleared"
                             /\ accepted' = accepted \cup {Held(w)}
                             /\ UNCHANGED row
    BY <1>1, AcceptedWriters
  <2>2. UNCHANGED mine
    BY <2>1 DEF phase
  <2>3. CASE Held(w) = j
    <3>1. mine[j] = "open"
      BY <2>3 DEF LeasedFor, Held, phase
    <3>2. (accepted \cap {j})' = (accepted \cap {j}) \cup {j}
      BY <2>1, <2>3
    <3> QED  BY <2>2, <3>1, <3>2 DEF OneStep, OneVars, One!Next, One!Accept
  <2>4. CASE Held(w) # j
    BY <2>1, <2>2, <2>4 DEF OneStep, OneVars
  <2> QED  BY <2>3, <2>4
<1>2. CASE UNCHANGED accepted
  <2>1. PhaseMove(j)
    BY NextPhaseMove
  <2>2. mine[j] = phase[j] /\ mine'[j] = phase'[j] /\ mine' = [i \in {j} |-> phase'[j]]
        /\ [mine EXCEPT ![j] = phase'[j]] = [i \in {j} |-> phase'[j]]
    OBVIOUS
  <2>3. CASE phase'[j] = phase[j]
    BY <1>2, <2>2, <2>3 DEF OneStep, OneVars
  <2>4. CASE phase[j] = "absent" /\ phase'[j] = "open"
    BY <1>2, <2>2, <2>4 DEF OneStep, OneVars, One!Next, One!Submit
  <2>5. CASE phase[j] = "open" /\ phase'[j] = "failed"
    BY <1>2, <2>2, <2>5 DEF OneStep, OneVars, One!Next, One!GiveUp
  <2>6. CASE phase[j] = "open" /\ phase'[j] = "sent" /\ j \in accepted
    BY <1>2, <2>2, <2>6 DEF OneStep, OneVars, One!Next, One!Deliver
  <2>7. CASE phase[j] = "open" /\ phase'[j] = "cancelled"
    <3>1. One(j)!Cancel({j})
      BY <1>2, <2>2, <2>7 DEF One!Cancel
    <3> QED  BY <3>1 DEF OneStep, One!Next
  <2> QED  BY <2>1, <2>3, <2>4, <2>5, <2>6, <2>7 DEF PhaseMove
<1> QED  BY <1>1, <1>2

(* The queue keeps the Outbox's promise of every job whose lease nobody    *)
(* outlives, even while workers outlive those of other jobs.               *)
THEOREM JobOutboxTheorem ==
    ASSUME NEW j \in Jobs
    PROVE  Spec /\ [][NoOverrun(j)]_vars => One(j)!Spec
<1>1. Init => One(j)!Init
  BY DEF Init, One!Init, NoRow, phase
<1>2. TypeOK /\ SentInv /\ LeasedFor(j) /\ [Next]_vars => [One(j)!Next]_(OneVars(j))
  BY StepImplementsOne DEF OneStep
<1> QED
  BY <1>1, <1>2, TypeCorrect, SentInvariant, JobLeasedTheorem, PTL DEF Spec, One!Spec, OneVars

(* And such a job, once it is sent, failed or cancelled, stays so.         *)
THEOREM JobSettledTheorem ==
    ASSUME NEW j \in Jobs
    PROVE  Spec /\ [][NoOverrun(j)]_vars
           => [][row[j].status \in Settled => row'[j].status = row[j].status]_vars
<1>1. ASSUME TypeOK, TypeOK', SentInv, LeasedFor(j), [Next]_vars, row[j].status \in Settled
      PROVE  row'[j].status = row[j].status
  <2>1. PhaseMove(j) /\ row'[j] \in Row
    BY <1>1, NextPhaseMove DEF TypeOK
  <2>2. phase[j] = row[j].status /\ phase[j] \in Settled /\ phase'[j] = PhaseOf(row'[j])
    BY <1>1 DEF phase, Settled, PhaseOf
  <2>3. phase'[j] = phase[j]
    BY <2>1, <2>2 DEF PhaseMove, Settled
  <2> QED  BY <2>2, <2>3 DEF PhaseOf, Settled
<1>2. TypeOK /\ TypeOK' /\ SentInv /\ LeasedFor(j) /\ [Next]_vars
      => [row[j].status \in Settled => row'[j].status = row[j].status]_vars
  BY <1>1
<1> QED  BY <1>2, TypeCorrect, SentInvariant, JobLeasedTheorem, PTL DEF Spec
=============================================================================
