SPECIFICATION FairChildSpec
CONSTANTS
  a = a
  b = b
  Kids = {a, b}
  Watches = {{a, b}, {b}}
  Authoring = {a}
  PageLimit = 1
  FailureLimit = 1
  MaxExtras = 1
CHECK_DEADLOCK FALSE
INVARIANTS
  FeedExact
PROPERTIES
  ChangesMoveForward
  EndIsObserved
