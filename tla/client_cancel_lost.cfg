\* One request, cancelled once, whose peer may fall silent.
SPECIFICATION LocalFairSpec
CONSTANTS
  Sessions = {s1}
  Ids = {i1}
  Users = {u1}
  Workers = {w1}
  None = None
  MaxCancels = 1
  MaxParts = 1
  UniqueIds = TRUE
CHECK_DEADLOCK FALSE
PROPERTIES
  CancelledIsReported
