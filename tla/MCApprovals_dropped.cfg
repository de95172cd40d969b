SPECIFICATION ObservationSpec
CONSTANTS
  i1 = i1
  i2 = i2
  c1 = c1
  c2 = c2
  c3 = c3
  c4 = c4
  r1 = r1
  r2 = r2
  r3 = r3
  r4 = r4
  NoRequest = NoRequest
  NoCall = NoCall
  Interactions = {i1}
  Calls = {c1, c2}
  Requests = {r1, r2}
  InteractionOf <- OneInteraction
  CallOf <- OnePerAttempt
  Scope <- Scopes
  Unobserved = {}
  MaxStream = 4
  MaxSession = 4
  MaxTombstones = 1
  MaxGrants = 1
  MaxFaults = 1
CHECK_DEADLOCK FALSE
INVARIANT
  KeptUntilFinalAcknowledgement
