SPECIFICATION Spec
CONSTANTS
  MaxEvents = 3
  Rules = {r1, r2}
  Batches = {b1, b2}
  None = None
  Ghost = Ghost
  MaxAttempts = 2
  MaxFaults = 2
  Patient = TRUE
  InOrder = FALSE
SYMMETRY Symmetry
INVARIANTS
  TypeOK
  HandledByOne
  CancelledLeavesNothing
  PointsArrive
  Delivered
CHECK_DEADLOCK FALSE
