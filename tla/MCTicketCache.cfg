SPECIFICATION Spec
CONSTANTS
  Pids = {p1, p2}
  Identifiers = {i1, i2}
  PTY = pty
  Operations = {pty, open}
  Expiry = 2
  PidReuse = FALSE
  MaxClock = 4
SYMMETRY Symmetry
INVARIANTS TypeOK RingOrdered DecisionExact  HoldsOnlyOwn
CHECK_DEADLOCK FALSE
