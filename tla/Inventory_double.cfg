SPECIFICATION Spec
CONSTANTS
  Units = {u1}
  Holds = {h1}
  Reservations = {r1, r2, r3}
  Agents = {a1, a2}
  Leads = {}
  Clerks = {c1}
  None = None
  Durations = {1}
  MaxTime = 1
  MaxExpiry = 2
  InitialStock = {"available"}
  EditTargets = {"available", "on_hold", "sold"}
  Paths = {"cancel_ended"}
INVARIANT
  NoDoubleReservation
CHECK_DEADLOCK FALSE
