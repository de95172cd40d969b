--------------------------- MODULE SearchRefinement ---------------------------
(***************************************************************************)
(* The publication protocol of SearchPublication implements the search of  *)
(* AcknowledgedSearch.  When an answer takes effect is only known later (a *)
(* query may read a publication that SQLite commits before the answer is   *)
(* given), so a history variable keeps what was committed since each       *)
(* question.                                                               *)
(***************************************************************************)
EXTENDS SearchPublication

CONSTANT NoTarget

ASSUME NoTargetAssumption == NoTarget \notin Targets

VARIABLE moments  \* history: committed sets since a query that is still open was admitted

Asking(q) == query[q].pc \in {"admitted", "ran"}

HistoryInit == Init /\ moments = [q \in Queries |-> {}]

HistoryNext ==
  /\ Next
  /\ moments' = [q \in Queries |->
       IF ~Asking(q)' THEN {} ELSE {canonical'} \cup (IF Asking(q) THEN moments[q] ELSE {})]

HistorySpec == HistoryInit /\ [][HistoryNext]_<<vars, moments>>

Acknowledged == INSTANCE AcknowledgedSearch WITH
  committed <- canonical,
  acknowledged <- acked,
  asked <- [q \in Queries |-> IF Asking(q) \/ Answered(q) THEN query[q].target ELSE NoTarget],
  answer <- [q \in Queries |-> IF Answered(q) THEN query[q].seen ELSE {}]

\* Refinement: whatever fails, is retried, rebuilt or restarted, a query that is
\* answered between transactions saw exactly what SQLite held for its target at one
\* moment between its question and its answer (execute_prepared's readiness checks,
\* the quarantine around the two commits, the reconciliation at startup).
ImplementsAcknowledgedSearch == Acknowledged!Spec
===============================================================================
