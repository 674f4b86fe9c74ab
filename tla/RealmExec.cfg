SPECIFICATION Spec
CONSTANTS
  Procs = {p1, p2}
  Boot = p1
  Citadel = daemon
  Files = {f1}
  PublicFiles = {}
  Pipes = {}
  Ptys = {}
  Exempt = {}
  Identifiers = {i1, i2, i3}
  PUBLIC = public
  ZERO = zero
  NONE = none
  Faults = {{}}
  Numbered = {TRUE, FALSE}
  Overlap = TRUE
  MaxTickets = 1
SYMMETRY Symmetry
INVARIANT TaintFollowsData
CHECK_DEADLOCK FALSE
