----------------------------- MODULE MCApprovals -----------------------------
(* Instances of the approval coordinator and of its composition with the       *)
(* product's observers and decision route.                                     *)
EXTENDS ApprovalObservation

CONSTANTS i1, i2, c1, c2, c3, c4, r1, r2, r3, r4

\* i1 is answered by two attempts, i2 by one; c4 is an unrecorded child's call.
TwoAttempts == [c \in Calls |-> IF c \in {c3, c4} THEN i2 ELSE i1]
OneEach == [r \in Requests |-> CASE r = r1 -> c1 [] r = r2 -> c2 [] r = r3 -> c3 [] r = r4 -> c4]
\* A grant for r1 covers r2; r3 only overlaps it.
Scopes == [r \in Requests |-> CASE r = r1 -> {1, 2} [] r = r3 -> {2, 3} [] OTHER -> {1}]

\* One interaction, whose two attempts ask once each.
OneInteraction == [c \in Calls |-> i1]
OnePerAttempt == [r \in Requests |-> IF r = r2 THEN c2 ELSE c1]

\* A grant for either request covers the other ...
SameScope == [r \in Requests |-> {1}]

\* ... and the attempts, each with its request, are interchangeable.
Interchangeable ==
  {f \in Permutations({c1, c2, r1, r2}) :
     \A r \in {r1, r2} : f[r] \in {r1, r2} /\ f[CallOf[r]] = CallOf[f[r]]}
==============================================================================
