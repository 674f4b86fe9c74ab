SPECIFICATION Spec
CONSTANTS
  p1 = p1
  p2 = p2
  Procs = {p1, p2}
  Citadel = p2
  Keys = {k1, k2}
  NULL = null
  MaxNodes = 2
  MaxItems = 3
SYMMETRY Symmetry
INVARIANTS TypeOK ListedOnce  TicketedMeet
CHECK_DEADLOCK FALSE
