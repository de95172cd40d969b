SPECIFICATION Spec
CONSTANTS
  c1 = c1
  c2 = c2
  l1 = l1
  l2 = l2
  l3 = l3
  NoLayer = NoLayer
  LegacyKey = flat
  Completions = {c1}
  Layers = {l1, l2, l3}
  Owner <- OwnerOne
  Keys = {k1, k2, flat}
  Lease <- NoLease
  Contracted = {}
  Required <- NotRequired
  Candidates <- LinksOne
  Flags = {TRUE}
  MaxEpoch = 1
  MaxHead = 3
INVARIANTS
  HistoryConsistent
  EverCurrentReachable
  AcceptedClosed
  AcceptedExpandAcyclic
  NoStrandedDraft
PROPERTIES
  AcceptedGrows
