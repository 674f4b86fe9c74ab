SPECIFICATION Spec
CONSTANTS
  Clients = {c1, c2}
  Paths = {p1, p2}
  Inodes = {f1}
  Ids = {i1, i2, i3}
  NONE = none
  f1 = f1
  i1 = i1
  Found <- MCFound
  CacheExpiry = 0
  MaxClock = 1
  Backlog = 1
  MaxRequests = 2
INVARIANTS TypeOK TranslatedSinceClaim
PROPERTIES RequestsAccepted Stops
CHECK_DEADLOCK FALSE
