SPECIFICATION Spec
CONSTANTS
  Files = {f1}
  Fds = {d1, d2}
  Labels = {l1, l2}
  SOCKET = socket
  ACCEPTED = accepted
  NONE = none
  Second = 1
  TicketExpiry = 2
  Latency = 0
  Boot = 2
  MaxClock = 4
  MaxForks = 1
  MaxEntries = 2
SYMMETRY Symmetry
INVARIANTS TypeOK NamesBacked 
CHECK_DEADLOCK FALSE
