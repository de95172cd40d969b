SPECIFICATION Spec
CONSTANTS
  p1 = p1
  p2 = p2
  p3 = p3
  t1 = t1
  t2 = t2
  NoPublication = NoPublication
  Publications = {p1, p2}
  Targets = {t1}
  TargetOf <- OneTarget
  Queries = {q1}
  Dark = {p1}
  Disconnecting = {p2}
  MaxRevision = 4
  MaxRestarts = 2
INVARIANT
  NoUnacknowledgedRead
