SPECIFICATION FairSpec
CONSTANTS
  p1 = p1
  p2 = p2
  p3 = p3
  t1 = t1
  t2 = t2
  NoPublication = NoPublication
  Publications = {p1, p2}
  Targets = {t1, t2}
  TargetOf <- TwoTargets
  Queries = {}
  Dark = {p1}
  Disconnecting = {p2}
  MaxRevision = 2
  MaxRestarts = 2
INVARIANTS
  TypeOK
  ReadyIsReconciled
PROPERTIES
  RebuildSettles
