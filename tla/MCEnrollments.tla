--------------------------- MODULE MCEnrollments ---------------------------
(* Small instances of the workflow engine for TLC.                         *)
EXTENDS Enrollments, TLC

CONSTANTS e1, e2, w1, w2, r1, r2, p1, p2

(* Every kind of workflow.                                                 *)
AnyKind == [e \in {e1} |-> Kinds]

(* One that repeats; all that meet are in the same conversation.           *)
OneRecurring == (e1 :> {"recurring"})
RecurringAndSingle == (e1 :> {"recurring"}) @@ (e2 :> {"single"})

ProcessSymmetry == Permutations({w1, w2}) \cup Permutations({p1, p2})
=============================================================================
