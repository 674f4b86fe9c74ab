SPECIFICATION Spec
CONSTANTS
  MaxTickets = 5
  Expiry = 3
  MaxClock = 9
  Interleaved = FALSE
INVARIANTS TypeOK RingsMatch WiredAtEnd NoBadPointer
PROPERTIES CheckReturns ImplementsCache
CHECK_DEADLOCK FALSE
