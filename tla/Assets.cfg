SPECIFICATION Spec
CONSTANTS
  b1 = b1
  b2 = b2
  m1 = m1
  c1 = c1
  c2 = c2
  Bookings = {b1}
  Editors = {m1}
  Bookers = {c1}
  Horizon = 2
  Transitions <- Decisions
SYMMETRY Symmetry
INVARIANTS
  ClearedDaysStayClear
  ChecksAgree
CHECK_DEADLOCK FALSE
