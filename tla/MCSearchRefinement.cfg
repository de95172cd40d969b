SPECIFICATION HistorySpec
CONSTANTS
  p1 = p1
  p2 = p2
  p3 = p3
  t1 = t1
  t2 = t2
  NoPublication = NoPublication
  NoTarget = NoTarget
  Publications = {p1, p2, p3}
  Targets = {t1, t2}
  TargetOf <- ContendedAndDamaged
  Queries = {q1}
  Dark = {}
  Disconnecting = {p1, p2}
  MaxRevision = 2
  MaxRestarts = 1
SYMMETRY Contenders
INVARIANTS
  QuarantineExact
  NoUnacknowledgedRead
  EqualRevisionEqualContent
  AcknowledgedIsVisible
PROPERTIES
  ImplementsAcknowledgedSearch
