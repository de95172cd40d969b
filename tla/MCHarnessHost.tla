---------------------------- MODULE MCHarnessHost ----------------------------
(* The two parts of the harness host that outlive a call: the approvals of a    *)
(* session, with every client and every poll, and the provider access of its    *)
(* turns, with the parties around it.  They share no state, so each behaviour   *)
(* is one of the first or one of the second; neither restricts the other.       *)
EXTENDS ApprovalCoordinator, ProviderRemoval, TLC

CONSTANTS i1, i2, c1, c2, c3, c4, r1, r2, r3, r4, l1, p1, p2, n1, n2

VARIABLE part

\* i1 is answered by two attempts, i2 by one; c4 is an unrecorded child's call.
TwoAttempts == [c \in Calls |-> IF c \in {c3, c4} THEN i2 ELSE i1]
OneEach == [r \in Requests |-> CASE r = r1 -> c1 [] r = r2 -> c2 [] r = r3 -> c3 [] r = r4 -> c4]
\* A grant for r1 covers r2; r3 only overlaps it.
Scopes == [r \in Requests |-> CASE r = r1 -> {1, 2} [] r = r3 -> {2, 3} [] OTHER -> {1}]

\* One lease for two providers, and two deliveries of the completion it pays for.
Plan == [l \in Leases |-> {p1, p2}]
Roster == p1 :> 1 @@ p2 :> 2
SameLease == [n \in Runs |-> l1]
SameCompletion == [n \in Runs |-> 1]
FirstOfPlan == [l \in Leases |-> p1]

HostVars == <<coordinator, leaseVars, part>>

HostPartsInit == Init /\ RemovalInit /\ part \in {"approvals", "leases"}

HostPartsNext ==
  \/ part = "approvals" /\ CoordinatorNext /\ UNCHANGED <<leaseVars, part>>
  \/ part = "leases" /\ RemovalNext /\ UNCHANGED <<coordinator, part>>

\* In a behaviour of the approvals no lease is admitted, and no fair step is enabled.
HostPartsSpec == HostPartsInit /\ [][HostPartsNext]_HostVars /\ RemovalFairness

\* Type invariant of both parts.
HostPartsTypeOK == TypeOK /\ RemovalTypeOK
==============================================================================
