SPECIFICATION Spec
CONSTANTS
  Units = {u1, u2}
  Holds = {h1}
  Reservations = {r1, r2}
  Agents = {a1, a2}
  Leads = {l1}
  Clerks = {c1}
  None = None
  Durations = {1}
  MaxTime = 1
  MaxExpiry = 2
  InitialStock = {"available"}
  EditTargets = {"available", "on_hold", "sold"}
  Paths = {"deal"}
SYMMETRY Symmetry
INVARIANTS
  NoDoubleReservation
  NoDoubleBooking
  ReservedUnitBacked
PROPERTIES
  HoldProtects
  ImplementsClaims
CHECK_DEADLOCK FALSE
