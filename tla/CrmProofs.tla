----------------------------- MODULE CrmProofs -----------------------------
(***************************************************************************)
(* Theorems about CrmQueue, for any jobs, any finite number of workers and *)
(* any bounds, with workers that outlive their leases.  The argument: the  *)
(* notes a job has, and those it can still get, are at most one more than  *)
(* its excuses (ShareInv).                                                 *)
(***************************************************************************)
EXTENDS CrmQueue, FiniteSetTheorems, TLAPS

(* The types, and that only an archive job is at the archive's first step. *)
CrmTypeInv ==
    /\ CrmTypeOK
    /\ \A w \in CRMWorkers : hand[w].pc = "archive" => hand[w].job \in Archives

(* The rows that the statements write.                                     *)
LEMMA RowType ==
    ASSUME NEW r \in CRMRow
    PROVE  /\ [r EXCEPT !.status = "queued", !.when = "now"] \in CRMRow
           /\ [r EXCEPT !.status = "queued", !.when = "later", !.lease = "none"] \in CRMRow
           /\ [r EXCEPT !.status = "done", !.lease = "none"] \in CRMRow
           /\ [r EXCEPT !.status = "failed", !.lease = "none"] \in CRMRow
  BY DEF CRMRow, CRMEnds

LEMMA ClaimedRowType ==
    ASSUME crm \in [CRMJobs -> CRMRow], NEW j \in CRMJobs, NEW n \in 0..CRMRetryLimit,
           crm' = [crm EXCEPT ![j].status = "running", ![j].attempts = n,
                              ![j].lease = "live"]
    PROVE  crm' \in [CRMJobs -> CRMRow]
<1>1. [crm[j] EXCEPT !.status = "running", !.attempts = n, !.lease = "live"] \in CRMRow
  BY DEF CRMRow, CRMEnds
<1> QED  BY <1>1

LEMMA HandType ==
    ASSUME hand \in [CRMWorkers -> CRMHand], NEW w \in CRMWorkers,
           NEW pc \in {"note", "complete", "error"}, CRMStep(w, pc),
           hand[w].pc # "idle",
           \A v \in CRMWorkers : hand[v].pc = "idle" <=> hand[v].job = NoCRMJob,
           \A v \in CRMWorkers : hand[v].pc = "archive" => hand[v].job \in Archives
    PROVE  /\ hand' \in [CRMWorkers -> CRMHand]
           /\ \A v \in CRMWorkers : hand'[v].pc = "idle" <=> hand'[v].job = NoCRMJob
           /\ \A v \in CRMWorkers : hand'[v].pc = "archive" => hand'[v].job \in Archives
  BY DEF CRMStep, CRMHand

LEMMA PutDownType ==
    ASSUME hand \in [CRMWorkers -> CRMHand], NEW w \in CRMWorkers, PutDown(w),
           \A v \in CRMWorkers : hand[v].pc = "idle" <=> hand[v].job = NoCRMJob,
           \A v \in CRMWorkers : hand[v].pc = "archive" => hand[v].job \in Archives
    PROVE  /\ hand' \in [CRMWorkers -> CRMHand]
           /\ \A v \in CRMWorkers : hand'[v].pc = "idle" <=> hand'[v].job = NoCRMJob
           /\ \A v \in CRMWorkers : hand'[v].pc = "archive" => hand'[v].job \in Archives
<1>1. EmptyHand \in CRMHand
  BY CRMAssumption DEF EmptyHand, CRMHand
<1> QED  BY <1>1 DEF PutDown, EmptyHand

LEMMA CrmInitType == CrmInit => CrmTypeInv
<1> SUFFICES ASSUME CrmInit PROVE CrmTypeInv
  OBVIOUS
<1> USE CRMAssumption DEF CrmInit
<1>1. crm \in [CRMJobs -> CRMRow]
  BY DEF CRMRow
<1>2. hand \in [CRMWorkers -> CRMHand]
  BY DEF EmptyHand, CRMHand
<1>3. \A w \in CRMWorkers : hand[w].pc = "idle" /\ hand[w].job = NoCRMJob
  BY DEF EmptyHand
<1>4. notes \in [CRMJobs -> Nat] /\ excuses \in [CRMJobs -> Nat]
  OBVIOUS
<1>5. archived \in SUBSET Archives /\ mishaps \in 0..MaxMishaps
  OBVIOUS
<1> QED  BY <1>1, <1>2, <1>3, <1>4, <1>5 DEF CrmTypeInv, CrmTypeOK

LEMMA CrmNextType == CrmTypeInv /\ [CrmNext]_crmVars => CrmTypeInv'
<1> SUFFICES ASSUME CrmTypeInv, [CrmNext]_crmVars PROVE CrmTypeInv'
  OBVIOUS
<1> USE CRMAssumption DEF CrmTypeInv, CrmTypeOK
<1>1. CASE UNCHANGED crmVars
  BY <1>1 DEF crmVars
<1>2. ASSUME NEW S \in SUBSET CRMJobs, InsertCRM(S) PROVE CrmTypeInv'
  <2>1. crm' \in [CRMJobs -> CRMRow]
    <3>1. \A j \in CRMJobs :
             [crm[j] EXCEPT !.status = "queued", !.when = "now"] \in CRMRow
      BY RowType
    <3> QED  BY <1>2, <3>1 DEF InsertCRM
  <2> QED  BY <1>2, <2>1 DEF InsertCRM
<1>3. ASSUME NEW j \in CRMJobs, CRMBecomesDue(j) \/ CRMLeaseExpires(j) PROVE CrmTypeInv'
  <2>1. crm[j] \in CRMRow
    OBVIOUS
  <2>2. [crm[j] EXCEPT !.when = "now"] \in CRMRow
        /\ [crm[j] EXCEPT !.lease = "expired"] \in CRMRow
    BY <2>1 DEF CRMRow
  <2>3. crm' \in [CRMJobs -> CRMRow]
    BY <1>3, <2>2 DEF CRMBecomesDue, CRMLeaseExpires
  <2> QED  BY <1>3, <2>3 DEF CRMBecomesDue, CRMLeaseExpires
<1>4. ASSUME NEW j \in CRMJobs, CRMOverrun(j) PROVE CrmTypeInv'
  <2>1. crm' \in [CRMJobs -> CRMRow]
    BY <1>4 DEF CRMOverrun, CRMRow
  <2> QED  BY <1>4, <2>1 DEF CRMOverrun, Mishap, Excuse
<1>5. ASSUME NEW w \in CRMWorkers, NEW j \in CRMJobs, ClaimCRM(w, j) PROVE CrmTypeInv'
  <2>1. Bump(crm[j].attempts) \in 0..CRMRetryLimit
    BY DEF Bump, CRMRow
  <2>2. crm' \in [CRMJobs -> CRMRow]
    <3>1. crm' = [crm EXCEPT ![j].status = "running",
                             ![j].attempts = Bump(crm[j].attempts),
                             ![j].lease = "live"]
      BY <1>5 DEF ClaimCRM, CRMTake
    <3> QED  BY <2>1, <3>1, ClaimedRowType
  <2>3. hand' \in [CRMWorkers -> CRMHand]
    <3>1. [pc |-> IF j \in Archives THEN "archive" ELSE "note",
           job |-> j, tries |-> Bump(crm[j].attempts)] \in CRMHand
      BY <2>1 DEF CRMHand
    <3> QED  BY <1>5, <3>1 DEF ClaimCRM, CRMTake
  <2>4. \A v \in CRMWorkers :
           /\ hand'[v].pc = "idle" <=> hand'[v].job = NoCRMJob
           /\ hand'[v].pc = "archive" => hand'[v].job \in Archives
    BY <1>5 DEF ClaimCRM, CRMTake
  <2> QED  BY <1>5, <2>2, <2>3, <2>4 DEF ClaimCRM, CRMTake
<1>6. ASSUME NEW w \in CRMWorkers,
             ArchiveConversation(w) \/ CRMCallFails(w)
      PROVE CrmTypeInv'
  BY <1>6, HandType DEF ArchiveConversation, CRMCallFails, CRMJobOf
<1>7. ASSUME NEW w \in CRMWorkers, CreateNote(w) \/ CRMCallLost(w) PROVE CrmTypeInv'
  <2>1. hand[w].job \in CRMJobs
    BY <1>7 DEF CreateNote, CRMCallLost, CRMHand
  <2>2. notes' \in [CRMJobs -> Nat] /\ excuses' \in [CRMJobs -> Nat]
        /\ archived' \in SUBSET Archives
    BY <1>7, <2>1 DEF CreateNote, CRMCallLost, Excuse, CRMJobOf
  <2> QED  BY <1>7, <2>2, HandType DEF CreateNote, CRMCallLost
<1>8. ASSUME NEW w \in CRMWorkers, CompleteCRM(w) \/ RetryCRM(w) \/ FailCRM(w)
      PROVE CrmTypeInv'
  <2>1. hand[w].job \in CRMJobs
    BY <1>8 DEF CompleteCRM, RetryCRM, FailCRM, CRMHand
  <2>2. crm' \in [CRMJobs -> CRMRow]
    <3> DEFINE r == crm[hand[w].job]
    <3>1. /\ [r EXCEPT !.status = "done", !.lease = "none"] \in CRMRow
          /\ [r EXCEPT !.status = "queued", !.when = "later", !.lease = "none"] \in CRMRow
          /\ [r EXCEPT !.status = "failed", !.lease = "none"] \in CRMRow
      BY <2>1, RowType
    <3> QED  BY <1>8, <3>1 DEF CompleteCRM, RetryCRM, FailCRM, CRMEnd, CRMJobOf
  <2>3. PutDown(w) /\ UNCHANGED <<notes, archived, excuses, mishaps>>
    BY <1>8 DEF CompleteCRM, RetryCRM, FailCRM, CRMEnd
  <2> QED  BY <2>2, <2>3, PutDownType
<1>9. ASSUME NEW w \in CRMWorkers, CRMAbandon(w) PROVE CrmTypeInv'
  <2>1. hand[w].job \in CRMJobs
    BY <1>9 DEF CRMAbandon, CRMHand
  <2>2. excuses' \in [CRMJobs -> Nat] /\ mishaps' \in 0..MaxMishaps
    BY <1>9, <2>1 DEF CRMAbandon, Excuse, Mishap, CRMJobOf
  <2> QED  BY <1>9, <2>2, PutDownType DEF CRMAbandon
<1> QED  BY <1>1, <1>2, <1>3, <1>4, <1>5, <1>6, <1>7, <1>8, <1>9 DEF CrmNext, CRMWork

LEMMA CrmTypeInvariant == CrmSpec => []CrmTypeInv
  BY CrmInitType, CrmNextType, PTL DEF CrmSpec

(* The types of everything in CrmQueue; a worker without a job is idle.    *)
THEOREM CrmTypeCorrect == CrmSpec => []CrmTypeOK
<1>1. CrmTypeInv => CrmTypeOK
  BY DEF CrmTypeInv
<1> QED  BY CrmTypeInvariant, <1>1, PTL
-----------------------------------------------------------------------------
(* What the workers' places say of HighLevel.                              *)
NoteInv ==
    /\ \A w \in CRMWorkers :
          /\ hand[w].pc = "complete" => notes[hand[w].job] > 0
          /\ hand[w].pc = "note" /\ hand[w].job \in Archives => hand[w].job \in archived
    /\ \A j \in CRMJobs : crm[j].status = "done" => notes[j] > 0
    /\ \A j \in Archives : notes[j] > 0 => j \in archived

(* The notes that are still to come without a new excuse: one for each     *)
(* worker that has the job and has not made its note, and one if a worker  *)
(* may still take the job.                                                 *)
Holders(j) == {w \in CRMWorkers : hand[w].job = j}
Busy(j)    == {w \in CRMWorkers : hand[w].job = j /\ hand[w].pc # "complete"}
Free(j)    == IF \/ crm[j].status \in {"absent", "queued"}
                 \/ crm[j].lease = "expired"
                 \/ crm[j].lease = "live" /\ Holders(j) = {}
              THEN 1 ELSE 0

ShareInv ==
    \A j \in CRMJobs : notes[j] + Cardinality(Busy(j)) + Free(j) <= 1 + excuses[j]
LEMMA InitExplained == CrmInit => NoteInv /\ ShareInv
<1> SUFFICES ASSUME CrmInit PROVE NoteInv /\ ShareInv
  OBVIOUS
<1>1. \A w \in CRMWorkers : hand[w].pc = "idle" /\ hand[w].job = NoCRMJob
  BY DEF CrmInit, EmptyHand
<1>2. \A j \in CRMJobs : /\ crm[j].status = "absent" /\ crm[j].lease = "none"
                         /\ notes[j] = 0 /\ excuses[j] = 0
  BY DEF CrmInit
<1>3. NoteInv
  BY <1>1, <1>2, CRMAssumption DEF NoteInv
<1>4. ASSUME NEW j \in CRMJobs
      PROVE  notes[j] + Cardinality(Busy(j)) + Free(j) <= 1 + excuses[j]
  <2>1. Busy(j) = {}
    BY <1>1, CRMAssumption DEF Busy
  <2>2. Cardinality(Busy(j)) = 0
    BY <2>1, FS_EmptySet
  <2>3. Free(j) = 1
    BY <1>2 DEF Free
  <2> QED  BY <1>2, <2>2, <2>3
<1> QED  BY <1>3, <1>4 DEF ShareInv

LEMMA NoteStep ==
    ASSUME CrmTypeInv, NoteInv, [CrmNext]_crmVars
    PROVE  NoteInv'
<1> USE CRMAssumption
<1>1. /\ hand \in [CRMWorkers -> CRMHand] /\ notes \in [CRMJobs -> Nat]
      /\ crm \in [CRMJobs -> CRMRow]
      /\ \A w \in CRMWorkers : hand[w].pc = "idle" <=> hand[w].job = NoCRMJob
      /\ \A w \in CRMWorkers : hand[w].pc = "archive" => hand[w].job \in Archives
  BY DEF CrmTypeInv, CrmTypeOK
<1>2. \A w \in CRMWorkers : hand[w].pc # "idle" => hand[w].job \in CRMJobs
  BY <1>1 DEF CRMHand
<1>3. CASE /\ UNCHANGED <<hand, notes, archived>>
           /\ \A j \in CRMJobs : crm'[j].status = "done" => crm[j].status = "done"
  BY <1>3 DEF NoteInv
<1>4. ASSUME NEW S \in SUBSET CRMJobs, InsertCRM(S) PROVE NoteInv'
  <2>1. \A j \in CRMJobs : crm'[j] = crm[j]
                  \/ crm'[j] = [crm[j] EXCEPT !.status = "queued", !.when = "now"]
    BY <1>4 DEF InsertCRM
  <2>2. \A r \in CRMRow : [r EXCEPT !.status = "queued", !.when = "now"].status = "queued"
    BY DEF CRMRow
  <2>3. \A j \in CRMJobs : crm[j] \in CRMRow
    BY <1>1
  <2>4. \A j \in CRMJobs : crm'[j].status \in {crm[j].status, "queued"}
    BY <2>1, <2>2, <2>3
  <2>5. UNCHANGED <<hand, notes, archived>>
    BY <1>4 DEF InsertCRM
  <2> QED  BY <1>3, <2>4, <2>5
<1>5. ASSUME NEW j \in CRMJobs, CRMBecomesDue(j) \/ CRMLeaseExpires(j) \/ CRMOverrun(j)
      PROVE  NoteInv'
  <2>1. CASE CRMBecomesDue(j)
    BY <1>1, <1>3, <2>1 DEF CRMBecomesDue, CRMRow
  <2>2. CASE CRMLeaseExpires(j)
    BY <1>1, <1>3, <2>2 DEF CRMLeaseExpires, CRMRow
  <2>3. CASE CRMOverrun(j)
    BY <1>1, <1>3, <2>3 DEF CRMOverrun, CRMRow
  <2> QED  BY <1>5, <2>1, <2>2, <2>3
<1>6. CASE UNCHANGED crmVars
  BY <1>6 DEF NoteInv, crmVars
<1>7. ASSUME NEW w \in CRMWorkers, NEW j \in CRMJobs, ClaimCRM(w, j) PROVE NoteInv'
  <2>1. hand'[w].job = j /\ hand'[w].pc = (IF j \in Archives THEN "archive" ELSE "note")
    BY <1>1, <1>7 DEF ClaimCRM, CRMTake
  <2>2. \A v \in CRMWorkers \ {w} : hand'[v] = hand[v]
    BY <1>1, <1>7 DEF ClaimCRM, CRMTake
  <2>3. \A i \in CRMJobs : crm'[i].status = "done" => crm[i].status = "done"
    BY <1>1, <1>7 DEF ClaimCRM, CRMTake, CRMRow
  <2>4. UNCHANGED <<notes, archived>>
    BY <1>7 DEF ClaimCRM, CRMTake
  <2> QED  BY <2>1, <2>2, <2>3, <2>4 DEF NoteInv
<1>8. ASSUME NEW w \in CRMWorkers, ArchiveConversation(w) \/ CRMCallFails(w) \/ CRMCallLost(w)
      PROVE  NoteInv'
  <2>1. /\ crm' = crm /\ hand'[w].job = hand[w].job
        /\ hand'[w].pc \in {"note", "error"} /\ hand[w].job \in CRMJobs
        /\ hand'[w].pc = "note" => archived' = archived \cup {hand[w].job}
    BY <1>1, <1>2, <1>8 DEF ArchiveConversation, CRMCallFails, CRMCallLost, CRMStep,
                            CRMJobOf, CRMHand
  <2>2. \A v \in CRMWorkers \ {w} : hand'[v] = hand[v]
    BY <1>1, <1>8 DEF ArchiveConversation, CRMCallFails, CRMCallLost, CRMStep
  <2>3. /\ archived \subseteq archived'
        /\ \A j \in CRMJobs : notes[j] > 0 => notes'[j] > 0
        /\ \A j \in Archives : notes'[j] > 0 => j \in archived'
    <3>1. CASE UNCHANGED notes
      BY <1>8, <3>1 DEF ArchiveConversation, CRMCallFails, CRMCallLost, NoteInv
    <3>2. CASE hand[w].pc = "note" /\ UNCHANGED archived
               /\ notes' = [notes EXCEPT ![hand[w].job] = @ + 1]
      BY <1>1, <2>1, <3>2 DEF NoteInv
    <3> QED  BY <1>8, <3>1, <3>2
             DEF ArchiveConversation, CRMCallFails, CRMCallLost, CRMJobOf
  <2>4. \A v \in CRMWorkers \ {w} : hand[v].pc # "idle" => hand[v].job \in CRMJobs
    BY <1>2
  <2> QED  BY <2>1, <2>2, <2>3, <2>4 DEF NoteInv
<1>9. ASSUME NEW w \in CRMWorkers, CreateNote(w) PROVE NoteInv'
  <2> DEFINE k == hand[w].job
  <2>1. /\ k \in CRMJobs /\ hand[w].pc = "note" /\ UNCHANGED <<crm, archived>>
        /\ notes' = [notes EXCEPT ![k] = @ + 1]
    BY <1>2, <1>9 DEF CreateNote, CRMJobOf
  <2>2. hand'[w].job = k /\ hand'[w].pc = "complete"
    BY <1>1, <1>9 DEF CreateNote, CRMStep
  <2>3. \A v \in CRMWorkers \ {w} : hand'[v] = hand[v]
    BY <1>1, <1>9 DEF CreateNote, CRMStep
  <2>4. k \in Archives => k \in archived
    BY <2>1 DEF NoteInv
  <2> HIDE DEF k
  <2>5. notes'[k] > 0 /\ \A j \in CRMJobs : notes[j] > 0 => notes'[j] > 0
    BY <1>1, <2>1
  <2>6. \A j \in CRMJobs \ {k} : notes'[j] = notes[j]
    BY <1>1, <2>1
  <2> QED  BY <1>2, <2>1, <2>2, <2>3, <2>4, <2>5, <2>6 DEF NoteInv
<1>10. ASSUME NEW w \in CRMWorkers, CompleteCRM(w) \/ RetryCRM(w) \/ FailCRM(w)
       PROVE  NoteInv'
  <2> DEFINE k == hand[w].job
  <2>1. k \in CRMJobs /\ UNCHANGED <<notes, archived>> /\ PutDown(w)
    BY <1>2, <1>10 DEF CompleteCRM, RetryCRM, FailCRM, CRMEnd
  <2>2. hand'[w].pc = "idle" /\ \A v \in CRMWorkers \ {w} : hand'[v] = hand[v]
    BY <1>1, <2>1 DEF PutDown, EmptyHand
  <2>3. crm[k] \in CRMRow
    BY <1>1, <2>1
  <2>4. crm'[k].status = "done" => hand[w].pc = "complete"
    <3>1. CASE CompleteCRM(w)
      BY <3>1 DEF CompleteCRM
    <3>2. CASE RetryCRM(w)
      BY <1>1, <2>1, <2>3, <3>2 DEF RetryCRM, CRMEnd, CRMJobOf, CRMRow
    <3>3. CASE FailCRM(w)
      BY <1>1, <2>1, <2>3, <3>3 DEF FailCRM, CRMEnd, CRMJobOf, CRMRow
    <3> QED  BY <1>10, <3>1, <3>2, <3>3
  <2>5. \A j \in CRMJobs \ {k} : crm'[j] = crm[j]
    BY <1>1, <1>10, <2>1 DEF CompleteCRM, RetryCRM, FailCRM, CRMEnd, CRMJobOf
  <2>6. hand[w].pc = "complete" => notes[k] > 0
    BY DEF NoteInv
  <2> HIDE DEF k
  <2> QED  BY <2>1, <2>2, <2>4, <2>5, <2>6 DEF NoteInv
<1>11. ASSUME NEW w \in CRMWorkers, CRMAbandon(w) PROVE NoteInv'
  BY <1>1, <1>11 DEF CRMAbandon, PutDown, EmptyHand, NoteInv
<1> QED  BY <1>4, <1>5, <1>6, <1>7, <1>8, <1>9, <1>10, <1>11 DEF CrmNext, CRMWork
LEMMA BusyCounts ==
    ASSUME NEW j \in CRMJobs
    PROVE  /\ IsFiniteSet(Busy(j)) /\ Cardinality(Busy(j)) \in Nat
           /\ Cardinality(Busy(j))' \in Nat
           /\ Free(j) \in {0, 1} /\ Free(j)' \in {0, 1}
<1>1. IsFiniteSet(CRMWorkers)
  BY CRMAssumption
<1>2. Busy(j) \in SUBSET CRMWorkers /\ Busy(j)' \in SUBSET CRMWorkers
  BY DEF Busy
<1>3. IsFiniteSet(Busy(j)) /\ IsFiniteSet(Busy(j)')
  BY <1>1, <1>2, FS_Subset
<1>4. Cardinality(Busy(j)) \in Nat /\ Cardinality(Busy(j)') \in Nat
  BY <1>3, FS_CardinalityType
<1> QED  BY <1>3, <1>4 DEF Free

(* A worker that leaves a job is one less that has a note to make.         *)
LEMMA OneLess ==
    ASSUME NEW j \in CRMJobs, NEW w \in Busy(j), Busy(j)' = Busy(j) \ {w}
    PROVE  Cardinality(Busy(j))' = Cardinality(Busy(j)) - 1
  BY BusyCounts, FS_RemoveElement

LEMMA OneMore ==
    ASSUME NEW j \in CRMJobs, NEW w, w \notin Busy(j), Busy(j)' = Busy(j) \cup {w}
    PROVE  Cardinality(Busy(j))' = Cardinality(Busy(j)) + 1
  BY BusyCounts, FS_AddElement

LEMMA ShareStep ==
    ASSUME CrmTypeInv, ShareInv, [CrmNext]_crmVars
    PROVE  ShareInv'
<1> SUFFICES ASSUME NEW i \in CRMJobs
             PROVE  notes'[i] + Cardinality(Busy(i))' + Free(i)' <= 1 + excuses'[i]
  BY DEF ShareInv
<1> DEFINE Goal == notes'[i] + Cardinality(Busy(i))' + Free(i)' <= 1 + excuses'[i]
<1> USE CRMAssumption
<1>1. /\ hand \in [CRMWorkers -> CRMHand] /\ crm \in [CRMJobs -> CRMRow]
      /\ notes \in [CRMJobs -> Nat] /\ excuses \in [CRMJobs -> Nat]
      /\ \A w \in CRMWorkers : hand[w].pc = "idle" <=> hand[w].job = NoCRMJob
  BY DEF CrmTypeInv, CrmTypeOK
<1>2. /\ notes[i] + Cardinality(Busy(i)) + Free(i) <= 1 + excuses[i]
      /\ notes[i] \in Nat /\ excuses[i] \in Nat /\ crm[i] \in CRMRow
      /\ Cardinality(Busy(i)) \in Nat /\ Cardinality(Busy(i))' \in Nat
      /\ Free(i) \in {0, 1} /\ Free(i)' \in {0, 1}
  BY <1>1, BusyCounts DEF ShareInv
<1>3. \A w \in CRMWorkers : hand[w].pc # "idle" => hand[w].job \in CRMJobs
  BY <1>1 DEF CRMHand
(* The three ways in which a step leaves job i its shares.                 *)
<1>4. ASSUME UNCHANGED hand, notes'[i] = notes[i],
             \/ Free(i)' <= Free(i) /\ excuses'[i] = excuses[i]
             \/ excuses'[i] = excuses[i] + 1
      PROVE  Goal
  <2>1. Busy(i)' = Busy(i)
    BY <1>4 DEF Busy
  <2> QED  BY <1>1, <1>2, <1>4, <2>1
<1>5. ASSUME notes'[i] = notes[i], excuses'[i] = excuses[i],
             Busy(i)' = Busy(i), Holders(i)' = Holders(i), crm'[i] = crm[i]
      PROVE  Goal
  <2>1. Free(i)' = Free(i)
    BY <1>5 DEF Free
  <2> QED  BY <1>2, <1>5, <2>1
(* A worker that moves on, or puts down, another job than i.               *)
<1>6. ASSUME NEW w \in CRMWorkers, hand[w].job # i, hand'[w].job # i,
             \A v \in CRMWorkers \ {w} : hand'[v] = hand[v]
      PROVE  Busy(i)' = Busy(i) /\ Holders(i)' = Holders(i)
  BY <1>6 DEF Busy, Holders
<1>7. CASE UNCHANGED crmVars
  BY <1>5, <1>7 DEF crmVars, Busy, Holders
<1>8. ASSUME NEW S \in SUBSET CRMJobs, InsertCRM(S) PROVE Goal
  <2>1. Free(i)' <= Free(i)
    <3>1. CASE i \in S /\ crm[i].status = "absent"
      BY <1>2, <3>1 DEF Free
    <3>2. CASE ~(i \in S /\ crm[i].status = "absent")
      <4>1. crm'[i] = crm[i] /\ Holders(i)' = Holders(i)
        BY <1>8, <3>2 DEF InsertCRM, Holders
      <4> QED  BY <1>2, <4>1 DEF Free
    <3> QED  BY <3>1, <3>2
  <2> QED  BY <1>2, <1>4, <1>8, <2>1 DEF InsertCRM
<1>9. ASSUME NEW j \in CRMJobs, CRMBecomesDue(j) \/ CRMLeaseExpires(j) PROVE Goal
  <2>1. Free(i)' <= Free(i)
    <3>1. CASE i = j
      <4>1. CASE CRMBecomesDue(j)
        BY <1>2, <3>1, <4>1 DEF CRMBecomesDue, Free
      <4>2. CASE CRMLeaseExpires(j)
        <5>1. Holders(j) = {} /\ crm[j].lease = "live"
          BY <4>2 DEF CRMLeaseExpires, Holders, CRMJobOf
        <5>2. Free(i) = 1
          BY <3>1, <5>1 DEF Free
        <5> QED  BY <1>2, <5>2
      <4> QED  BY <1>9, <4>1, <4>2
    <3>2. CASE i # j
      <4>1. crm'[i] = crm[i] /\ Holders(i)' = Holders(i)
        BY <1>1, <1>9, <3>2 DEF CRMBecomesDue, CRMLeaseExpires, Holders
      <4> QED  BY <1>2, <4>1 DEF Free
    <3> QED  BY <3>1, <3>2
  <2> QED  BY <1>2, <1>4, <1>9, <2>1 DEF CRMBecomesDue, CRMLeaseExpires
<1>10. ASSUME NEW j \in CRMJobs, CRMOverrun(j) PROVE Goal
  <2>1. CASE i = j
    BY <1>1, <1>2, <1>4, <1>10, <2>1 DEF CRMOverrun, Excuse
  <2>2. CASE i # j
    <3>1. crm'[i] = crm[i] /\ excuses'[i] = excuses[i] /\ UNCHANGED <<hand, notes>>
      BY <1>1, <1>10, <2>2 DEF CRMOverrun, Excuse
    <3> QED  BY <1>5, <3>1 DEF Busy, Holders
  <2> QED  BY <2>1, <2>2
<1>11. ASSUME NEW w \in CRMWorkers, NEW j \in CRMJobs, ClaimCRM(w, j) PROVE Goal
  <2>1. /\ hand[w].job = NoCRMJob /\ UNCHANGED <<notes, excuses>>
        /\ hand'[w].job = j /\ hand'[w].pc # "complete"
        /\ \A v \in CRMWorkers \ {w} : hand'[v] = hand[v]
    BY <1>1, <1>11 DEF ClaimCRM, CRMTake
  <2>2. CASE i # j
    <3>1. crm'[i] = crm[i]
      BY <1>1, <1>11, <2>2 DEF ClaimCRM, CRMTake
    <3> QED  BY <1>5, <1>6, <2>1, <2>2, <3>1
  <2>3. CASE i = j
    <3>1. w \notin Busy(i) /\ Busy(i)' = Busy(i) \cup {w} /\ w \in Holders(i)'
      BY <2>1, <2>3 DEF Busy, Holders
    <3>2. Cardinality(Busy(i))' = Cardinality(Busy(i)) + 1
      BY <3>1, OneMore
    <3>3. Free(i) = 1
      BY <1>11, <2>3 DEF ClaimCRM, Free
    <3>4. crm'[i].status = "running" /\ crm'[i].lease = "live"
      BY <1>1, <1>2, <1>11, <2>3 DEF ClaimCRM, CRMTake, CRMRow
    <3>5. Free(i)' = 0
      BY <3>1, <3>4 DEF Free
    <3> QED  BY <1>2, <2>1, <3>2, <3>3, <3>5
  <2> QED  BY <2>2, <2>3
(* Calls: the rows stay, the worker keeps its job.                         *)
<1>12. ASSUME NEW w \in CRMWorkers, NEW pc \in {"note", "complete", "error"},
              hand[w].pc \in {"archive", "note"}, CRMStep(w, pc), UNCHANGED crm
       PROVE  /\ hand[w].job \in CRMJobs /\ Free(i)' = Free(i)
              /\ Busy(i)' = IF pc = "complete" THEN Busy(i) \ {w} ELSE Busy(i)
              /\ hand[w].job = i <=> w \in Busy(i)
  <2>1. /\ hand'[w].job = hand[w].job /\ hand'[w].pc = pc
        /\ \A v \in CRMWorkers \ {w} : hand'[v] = hand[v]
    BY <1>1, <1>12 DEF CRMStep, CRMHand
  <2>2. Holders(i)' = Holders(i)
    BY <2>1 DEF Holders
  <2> QED  BY <1>3, <1>12, <2>1, <2>2 DEF Busy, Free
<1>13. ASSUME NEW w \in CRMWorkers, ArchiveConversation(w) \/ CRMCallFails(w) \/ CRMCallLost(w)
       PROVE  Goal
  <2>1. PICK pc \in {"note", "error"} :
           hand[w].pc \in {"archive", "note"} /\ CRMStep(w, pc) /\ UNCHANGED crm
    BY <1>13 DEF ArchiveConversation, CRMCallFails, CRMCallLost
  <2>2. hand[w].job \in CRMJobs /\ Free(i)' = Free(i) /\ Busy(i)' = Busy(i)
    BY <1>12, <2>1
  <2>3. \/ UNCHANGED <<notes, excuses>>
        \/ /\ notes' = [notes EXCEPT ![hand[w].job] = @ + 1]
           /\ excuses' = [excuses EXCEPT ![hand[w].job] = @ + 1]
    BY <1>13 DEF ArchiveConversation, CRMCallFails, CRMCallLost, Excuse, CRMJobOf
  <2>4. \/ notes'[i] = notes[i] /\ excuses'[i] = excuses[i]
        \/ notes'[i] = notes[i] + 1 /\ excuses'[i] = excuses[i] + 1
    BY <1>1, <2>2, <2>3
  <2> QED  BY <1>2, <2>2, <2>4
<1>14. ASSUME NEW w \in CRMWorkers, CreateNote(w) PROVE Goal
  <2>1. /\ hand[w].job \in CRMJobs /\ Free(i)' = Free(i)
        /\ Busy(i)' = Busy(i) \ {w}
        /\ hand[w].job = i <=> w \in Busy(i)
    BY <1>12, <1>14 DEF CreateNote
  <2>2. notes' = [notes EXCEPT ![hand[w].job] = @ + 1] /\ UNCHANGED excuses
    BY <1>14 DEF CreateNote, CRMJobOf
  <2>3. CASE hand[w].job = i
    <3>1. Cardinality(Busy(i))' = Cardinality(Busy(i)) - 1
      BY <2>1, <2>3, OneLess
    <3>2. notes'[i] = notes[i] + 1
      BY <1>1, <2>2, <2>3
    <3> QED  BY <1>2, <2>1, <2>2, <3>1, <3>2
  <2>4. CASE hand[w].job # i
    <3>1. Busy(i)' = Busy(i) /\ notes'[i] = notes[i]
      BY <1>1, <2>1, <2>2, <2>4
    <3> QED  BY <1>2, <2>1, <2>2, <3>1
  <2> QED  BY <2>3, <2>4
(* A worker that puts its job down.                                        *)
<1>15. ASSUME NEW w \in CRMWorkers, hand[w].pc # "idle", PutDown(w)
       PROVE  /\ hand[w].job \in CRMJobs /\ hand'[w].job = NoCRMJob
              /\ \A v \in CRMWorkers \ {w} : hand'[v] = hand[v]
              /\ Busy(i)' = Busy(i) \ {w}
              /\ hand[w].job = i /\ hand[w].pc # "complete" <=> w \in Busy(i)
  <2>1. /\ hand'[w].job = NoCRMJob
        /\ \A v \in CRMWorkers \ {w} : hand'[v] = hand[v]
    BY <1>1, <1>15 DEF PutDown, EmptyHand
  <2> QED  BY <1>3, <1>15, <2>1 DEF Busy
<1>16. ASSUME NEW w \in CRMWorkers, CompleteCRM(w) \/ RetryCRM(w) \/ FailCRM(w)
       PROVE  Goal
  <2>1. /\ PutDown(w) /\ UNCHANGED <<notes, excuses>>
        /\ hand[w].pc \in {"complete", "error"}
    BY <1>16 DEF CompleteCRM, RetryCRM, FailCRM, CRMEnd
  <2>2. /\ hand[w].job \in CRMJobs /\ hand'[w].job = NoCRMJob
        /\ \A v \in CRMWorkers \ {w} : hand'[v] = hand[v]
        /\ Busy(i)' = Busy(i) \ {w}
        /\ hand[w].job = i /\ hand[w].pc # "complete" <=> w \in Busy(i)
    BY <1>15, <2>1
  <2>3. CASE hand[w].job # i
    <3>1. crm'[i] = crm[i]
      BY <1>1, <1>16, <2>2, <2>3 DEF CompleteCRM, RetryCRM, FailCRM, CRMEnd, CRMJobOf
    <3>2. Busy(i)' = Busy(i) /\ Holders(i)' = Holders(i)
      BY <1>6, <2>2, <2>3
    <3> QED  BY <1>5, <2>1, <3>1, <3>2
  <2>4. CASE hand[w].job = i /\ hand[w].pc = "error"
    <3>1. Cardinality(Busy(i))' = Cardinality(Busy(i)) - 1
      BY <2>2, <2>4, OneLess
    <3> QED  BY <1>2, <2>1, <3>1
  <2>5. CASE hand[w].job = i /\ hand[w].pc = "complete"
    <3>1. CompleteCRM(w)
      BY <1>16, <2>5 DEF RetryCRM, FailCRM
    <3>2. crm'[i].status = "done" /\ crm'[i].lease = "none"
      BY <1>1, <1>2, <2>5, <3>1 DEF CompleteCRM, CRMEnd, CRMJobOf, CRMRow
    <3>3. Free(i)' = 0
      BY <3>2 DEF Free
    <3>4. Busy(i)' = Busy(i)
      BY <2>2, <2>5
    <3> QED  BY <1>2, <2>1, <3>3, <3>4
  <2> QED  BY <2>1, <2>3, <2>4, <2>5
<1>17. ASSUME NEW w \in CRMWorkers, CRMAbandon(w) PROVE Goal
  <2>1. /\ PutDown(w) /\ UNCHANGED <<crm, notes>> /\ hand[w].pc # "idle"
        /\ IF hand[w].pc = "complete" THEN Excuse(hand[w].job) ELSE UNCHANGED excuses
    BY <1>17 DEF CRMAbandon, CRMJobOf
  <2>2. /\ hand[w].job \in CRMJobs /\ hand'[w].job = NoCRMJob
        /\ \A v \in CRMWorkers \ {w} : hand'[v] = hand[v]
        /\ Busy(i)' = Busy(i) \ {w}
        /\ hand[w].job = i /\ hand[w].pc # "complete" <=> w \in Busy(i)
    BY <1>15, <2>1
  <2>3. CASE hand[w].job # i
    <3>1. Busy(i)' = Busy(i) /\ Holders(i)' = Holders(i)
      BY <1>6, <2>2, <2>3
    <3>2. excuses'[i] = excuses[i]
      BY <1>1, <2>1, <2>2, <2>3 DEF Excuse
    <3> QED  BY <1>5, <2>1, <3>1, <3>2
  <2>4. CASE hand[w].job = i /\ hand[w].pc # "complete"
    <3>1. Cardinality(Busy(i))' = Cardinality(Busy(i)) - 1
      BY <2>2, <2>4, OneLess
    <3> QED  BY <1>2, <2>1, <2>4, <3>1
  <2>5. CASE hand[w].job = i /\ hand[w].pc = "complete"
    <3>1. excuses'[i] = excuses[i] + 1
      BY <1>1, <2>1, <2>5 DEF Excuse
    <3>2. Busy(i)' = Busy(i)
      BY <2>2, <2>5
    <3> QED  BY <1>2, <2>1, <3>1, <3>2
  <2> QED  BY <2>3, <2>4, <2>5
<1> QED  BY <1>7, <1>8, <1>9, <1>10, <1>11, <1>13, <1>14, <1>16, <1>17
         DEF CrmNext, CRMWork

LEMMA ExplainedInvariant == CrmSpec => [](NoteInv /\ ShareInv)
<1>1. /\ CrmTypeInv /\ NoteInv /\ ShareInv /\ [CrmNext]_crmVars
      => NoteInv' /\ ShareInv'
  BY NoteStep, ShareStep
<1> QED  BY InitExplained, CrmTypeInvariant, <1>1, PTL DEF CrmSpec

(* However workers crash, overtake each other and lose answers: a job that *)
(* is done has its note, an archive job its conversation marked, and no    *)
(* job gets more than one note without a reason of its own for each.       *)
THEOREM NotesTheorem == CrmSpec => []NotesAreExplained
<1>1. CrmTypeInv /\ NoteInv /\ ShareInv => NotesAreExplained
  <2> SUFFICES ASSUME CrmTypeInv, NoteInv, ShareInv, NEW j \in CRMJobs
               PROVE  notes[j] <= 1 + excuses[j]
    BY DEF NotesAreExplained, NoteInv
  <2>1. notes[j] + Cardinality(Busy(j)) + Free(j) <= 1 + excuses[j]
        /\ notes[j] \in Nat /\ excuses[j] \in Nat
    BY DEF ShareInv, CrmTypeInv, CrmTypeOK
  <2> QED  BY <2>1, BusyCounts
<1> QED  BY CrmTypeInvariant, ExplainedInvariant, <1>1, PTL
=============================================================================
