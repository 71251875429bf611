SPECIFICATION Spec
CONSTANTS
  Events = {e1, e2, e3}
  Actions <- WaitFirst
  Workers = {w1, w2}
  None = None
  MaxRuns = 1
  MaxTries = 2
  MaxMishaps = 1
SYMMETRY Symmetry
INVARIANTS
  TypeOK
  NothingSkipped
  ActsWithinBounds
CHECK_DEADLOCK FALSE
