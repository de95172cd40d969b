SPECIFICATION Spec
CONSTANTS
  c1 = c1
  c2 = c2
  l1 = l1
  l2 = l2
  l3 = l3
  NoLayer = NoLayer
  LegacyKey = flat
  Completions = {c1, c2}
  Layers = {l1, l2}
  Owner <- OwnerShared
  Keys = {k1, flat}
  Lease <- LeaseShared
  Contracted = {c2}
  Required <- RequiredShared
  Candidates <- LinksShared
  Flags = {TRUE}
  MaxEpoch = 1
  MaxHead = 2
INVARIANTS
  OutputIsFinal
  NoLostPresentation
  EveryRevisionProjected
  AcceptedExpandAcyclic
