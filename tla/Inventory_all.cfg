SPECIFICATION FairSpec
CONSTANTS
  Units = {u1}
  Holds = {h1, h2}
  Reservations = {r1}
  Agents = {a1}
  Leads = {}
  Clerks = {c1}
  None = None
  Durations = {1}
  MaxTime = 2
  MaxExpiry = 2
  InitialStock = {"available"}
  EditTargets = {"available", "on_hold", "sold"}
  Paths = {"status", "override", "import", "cancel_ended", "deal"}
INVARIANTS
  TypeOK
  OneActiveHold
  ExpiryScheduled
PROPERTIES
  NeverExpiredEarly
  EndedStaysEnded
  OverdueEnds
CHECK_DEADLOCK FALSE
