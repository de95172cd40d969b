-------------------------- MODULE AcknowledgedSearch --------------------------
(***************************************************************************)
(* What search over accepted graphs promises, without the two stores, the  *)
(* quarantine or the rebuild: one set of committed publications, and       *)
(* queries that are answered with that set as it was at one moment between *)
(* the question and the answer.  A publication is acknowledged only once   *)
(* it is committed, so an answer holds everything acknowledged before its  *)
(* question was asked.  A question may be withdrawn: queries are refused   *)
(* while a target is not ready, and a restart forgets them.                *)
(***************************************************************************)
CONSTANTS Publications, Targets, TargetOf, Queries, NoTarget

VARIABLES
  committed,     \* publications that are canonical
  acknowledged,  \* publications answered with success
  asked,         \* target of each open or answered question
  moments,       \* what was committed at each moment since an open question was asked
  answer         \* publications in the answer

vars == <<committed, acknowledged, asked, moments, answer>>

Open(q) == moments[q] # {}

Init ==
  /\ committed = {} /\ acknowledged = {}
  /\ asked = [q \in Queries |-> NoTarget]
  /\ moments = [q \in Queries |-> {}]
  /\ answer = [q \in Queries |-> {}]

\* An open question also sees the moment after the commit.
Commit(p) ==
  /\ committed' = committed \cup {p}
  /\ moments' = [q \in Queries |-> IF Open(q) THEN moments[q] \cup {committed'} ELSE {}]
  /\ UNCHANGED <<acknowledged, asked, answer>>

Acknowledge(p) ==
  /\ p \in committed
  /\ acknowledged' = acknowledged \cup {p}
  /\ UNCHANGED <<committed, asked, moments, answer>>

Ask(q, t) ==
  /\ ~Open(q)
  /\ asked' = [asked EXCEPT ![q] = t]
  /\ moments' = [moments EXCEPT ![q] = {committed}]
  /\ answer' = [answer EXCEPT ![q] = {}]
  /\ UNCHANGED <<committed, acknowledged>>

Answer(q) ==
  /\ \E M \in moments[q] :
       answer' = [answer EXCEPT ![q] = { p \in M : TargetOf[p] = asked[q] }]
  /\ moments' = [moments EXCEPT ![q] = {}]
  /\ UNCHANGED <<committed, acknowledged, asked>>

Withdraw(Q) ==
  /\ \A q \in Q : Open(q)
  /\ asked' = [q \in Queries |-> IF q \in Q THEN NoTarget ELSE asked[q]]
  /\ moments' = [q \in Queries |-> IF q \in Q THEN {} ELSE moments[q]]
  /\ UNCHANGED <<committed, acknowledged, answer>>

Next ==
  \/ \E p \in Publications : Commit(p) \/ Acknowledge(p)
  \/ \E q \in Queries : Answer(q) \/ \E t \in Targets : Ask(q, t)
  \/ \E Q \in SUBSET Queries : Withdraw(Q)

Spec == Init /\ [][Next]_vars
===============================================================================
