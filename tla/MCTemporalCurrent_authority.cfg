SPECIFICATION Spec
CONSTANTS
  c1 = c1
  c2 = c2
  l1 = l1
  l2 = l2
  l3 = l3
  NoLayer = NoLayer
  LegacyKey = flat
  Completions = {c1}
  Layers = {l1, l2}
  Owner <- OwnerTwo
  Keys = {k1, k2, flat}
  Lease <- NoLease
  Contracted = {c1}
  Required <- NotRequired
  Candidates <- LinksTwo
  Flags = {TRUE, FALSE}
  MaxEpoch = 3
  MaxHead = 3
INVARIANTS
  TypeOK
  AuthorsInOrder
  DarkCompletionFlat
  SubmitNotStale
PROPERTIES
  TerminalFrozen
  ImplementsCompletionLog
