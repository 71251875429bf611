SPECIFICATION Spec
CONSTANTS
  Portals = {p1}
  Workers = {w1, w2}
  None = None
  MaxTries = 2
  MaxRequests = 2
  MaxRetries = 1
  MaxCrashes = 1
SYMMETRY Symmetry
INVARIANTS
  TypeOK
  ShownIsKnown
  QueuedHasTaker
CHECK_DEADLOCK FALSE
