SPECIFICATION Spec
CONSTANTS
  Clients = {c1}
  Requests <- OperationMessages
  Early = TRUE
  Faults = {}
  Backlog = 1
  MaxRandom = 6
  MaxStarts = 1
  NONE = none
SYMMETRY Symmetry
INVARIANTS PromiseKept
CHECK_DEADLOCK FALSE
