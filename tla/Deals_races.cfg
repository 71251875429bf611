SPECIFICATION Spec
CONSTANTS
  Requests = {c1, c2, c3}
  Amounts = {0, 1}
  Lines = {l1, l2}
  MaxSnaps = 2
  MaxVersion = 2
SYMMETRY Symmetry
INVARIANTS
  TypeOK
  NoStaleMoney
  SnapshotMatchesDeal
  NothingLeftPending
  ApprovedStands
CHECK_DEADLOCK FALSE
