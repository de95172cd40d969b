-------------------------- MODULE HarnessHostProofs --------------------------
(* What the approvals of a session and the provider access of its turns keep,   *)
(* each alone, they keep in one host: neither part writes what the other reads. *)
EXTENDS MCHarnessHost, ApprovalProofs, ProviderRemovalProofs

\* A step of the host is a step of its approvals or leaves them alone.
LEMMA ApprovalsAlone == HostPartsSpec => CoordinatorSpec
<1>1. HostPartsInit => Init
  BY DEF HostPartsInit
<1>2. [HostPartsNext]_HostVars => [CoordinatorNext]_coordinator
  BY DEF HostPartsNext, HostVars
<1>. QED
  BY <1>1, <1>2, PTL DEF HostPartsSpec, CoordinatorSpec

\* A step of the host is a step of its provider access or leaves it alone.
LEMMA LeasesAlone == HostPartsSpec => RemovalSpec
<1>1. HostPartsInit => RemovalInit
  BY DEF HostPartsInit
<1>2. [HostPartsNext]_HostVars => [RemovalNext]_leaseVars
  BY DEF HostPartsNext, HostVars
<1>. QED
  BY <1>1, <1>2, PTL DEF HostPartsSpec, RemovalSpec

\* The approval and lease state of a host always has its type, whatever clients,
\* polls, removals and deliveries do and in whatever order.
THEOREM HostTypeCorrect == HostPartsSpec => []HostPartsTypeOK
<1>1. TypeOK /\ RemovalTypeOK => HostPartsTypeOK
  BY DEF HostPartsTypeOK
<1>. QED
  BY <1>1, ApprovalsAlone, LeasesAlone, CoordinatorTypeCorrect, RemovalTypeCorrect, PTL

\* Every safety property of the approvals and of the provider access holds of the host
\* that runs both.
THEOREM HostKeepsBothPromises ==
  HostPartsSpec =>
    /\ []NoOrphanedRequest /\ []BacklogBounded /\ []ReviewedOnly /\ []StreamTellsTheTruth
    /\ []AccessHeldWhileTurnRuns /\ []OneTurnPerLease /\ []NoStrandedLease
BY ApprovalsAlone, LeasesAlone, NothingOrphaned, BacklogWithinBounds, OnlyReviewedProceed,
   StreamsAreTrue, AccessHeld, OneTurn, NothingStranded, PTL
==============================================================================
