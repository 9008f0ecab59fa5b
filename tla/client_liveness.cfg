\* Ids of active requests are distinct and an id is cancelled at most once:
\* nothing can block for ever, and close() ends every request.
SPECIFICATION FairSpec
CONSTANTS
  Sessions = {s1, s2}
  Ids = {i1, i2}
  Users = {u1, u2}
  Workers = {w1, w2}
  None = None
  MaxCancels = 1
  MaxParts = 0
  UniqueIds = TRUE
INVARIANTS
  LiveIsRegistered
  ClosedMeansReported
  NoLockCycle
PROPERTIES
  EveryRequestReported
  CloseReturns
