SPECIFICATION Spec
CONSTANTS
  MaxEvents = 2
  Rules = {r1, r2}
  Batches = {b1}
  None = None
  Ghost = Ghost
  MaxAttempts = 2
  MaxFaults = 1
  Patient = FALSE
  InOrder = TRUE
SYMMETRY Symmetry
INVARIANT
  CancelledLeavesNothing
CHECK_DEADLOCK FALSE
