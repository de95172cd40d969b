SPECIFICATION HostPartsSpec
CONSTANTS
  i1 = i1
  i2 = i2
  c1 = c1
  c2 = c2
  c3 = c3
  c4 = c4
  r1 = r1
  r2 = r2
  r3 = r3
  r4 = r4
  l1 = l1
  p1 = p1
  p2 = p2
  n1 = n1
  n2 = n2
  NoRequest = NoRequest
  Interactions = {i1, i2}
  Calls = {c1, c2, c3, c4}
  Requests = {r1, r2, r3, r4}
  InteractionOf <- TwoAttempts
  CallOf <- OneEach
  Scope <- Scopes
  Unobserved = {c4}
  MaxStream = 3
  MaxSession = 4
  MaxTombstones = 1
  MaxGrants = 1
  Leases = {l1}
  Providers = {p1, p2}
  ProvidersOf <- Plan
  Position <- Roster
  Runs = {n1, n2}
  LeaseOf <- SameLease
  CompletionOf <- SameCompletion
  Children = {n2}
  ForceStoppable = {n1}
  Orchestrator <- FirstOfPlan
  MaxLeaseFaults = 1
  MaxBoots = 1
CHECK_DEADLOCK FALSE
INVARIANTS
  HostPartsTypeOK
  NoOrphanedRequest
  BacklogBounded
  ReviewedOnly
  StreamTellsTheTruth
  AccessHeldWhileTurnRuns
  OneTurnPerLease
  NoStrandedLease
PROPERTIES
  RemovalFinishes
