SPECIFICATION Spec
CONSTANTS
  Rows = {s1, s2, s3, s4}
  Requests = {q1, q2}
  Tokens = {t1}
  None = None
SYMMETRY Symmetry
INVARIANTS
  TypeOK
  NoSessionOutlivesReset
PROPERTY
  ImplementsLogins
CHECK_DEADLOCK FALSE
