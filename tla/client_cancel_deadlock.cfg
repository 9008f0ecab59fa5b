\* One request cancelled twice by two threads.
SPECIFICATION FairSpec
CONSTANTS
  Sessions = {s1}
  Ids = {i1}
  Users = {u1, u2}
  Workers = {w1}
  None = None
  MaxCancels = 2
  MaxParts = 0
  UniqueIds = TRUE
CHECK_DEADLOCK FALSE
PROPERTIES
  CancelledIsReported
