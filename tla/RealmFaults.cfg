SPECIFICATION Spec
CONSTANTS
  Procs = {p1, p2}
  Boot = p1
  Citadel = p2
  Files = {f1}
  PublicFiles = {}
  Pipes = {pipe}
  Ptys = {}
  Exempt = {}
  Identifiers = {i1, i2}
  PUBLIC = public
  ZERO = zero
  NONE = none
  Faults = {{}, {"get"}, {"in_realm"}, {"identifier"}, {"in_realm", "identifier"}}
  Numbered = {TRUE, FALSE}
  Overlap = FALSE
  MaxTickets = 1
SYMMETRY Symmetry
INVARIANTS TaintFollowsData LabelFollowsData
CHECK_DEADLOCK FALSE
