SPECIFICATION Spec
CONSTANTS
  Procs = {p1, p2}
  Boot = p1
  Citadel = daemon
  Files = {f1, f2}
  PublicFiles = {}
  Pipes = {}
  Ptys = {tty}
  Exempt = {}
  Identifiers = {i1, i2}
  PUBLIC = public
  ZERO = zero
  NONE = none
  Faults = {{}}
  Numbered = {TRUE}
  Overlap = FALSE
  MaxTickets = 1
SYMMETRY Symmetry
INVARIANTS TypeOK TaintFollowsData LabelFollowsData
PROPERTY DeclassifyClears
CHECK_DEADLOCK FALSE
