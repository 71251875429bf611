SPECIFICATION FairSpec
CONSTANTS
  j1 = j1
  j2 = j2
  j3 = j3
  k1 = k1
  Jobs = {j1, j2, j3}
  KeyOf <- KeyOfJobs
  Batches = {b1, b2}
  None = None
  Ghost = Ghost
  MaxAttempts = 2
  Limit = 2
  MaxCrashes = 1
INVARIANTS
  TypeOK
  Ownership
  DeadLettered
PROPERTY
  Settles
CHECK_DEADLOCK FALSE
