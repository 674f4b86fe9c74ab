SPECIFICATION Spec
CONSTANTS
  MaxTickets = 3
  Expiry = 2
  MaxClock = 6
  Interleaved = TRUE
INVARIANT WiredAtEnd
CHECK_DEADLOCK FALSE
