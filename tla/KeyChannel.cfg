SPECIFICATION Spec
CONSTANTS
  Clients = {c1, c2}
  Requests <- OperationMessages
  Early = FALSE
  Faults = {"challenge"}
  Backlog = 1
  MaxRandom = 7
  MaxStarts = 2
  NONE = none
SYMMETRY Symmetry
INVARIANTS TypeOK KeysAgree PromiseKept 
CHECK_DEADLOCK FALSE
