\* Two requests, names with two addresses, one partial transfer each, peers
\* that may reset connections but answer in the end.
SPECIFICATION FairSpec
CONSTANTS
  Requests = {r1, r2}
  None = None
  MaxEndpoints = 2
  MaxParts = 1
  PeersReset = TRUE
CHECK_DEADLOCK FALSE
INVARIANTS
  TypeOK
  OutcomeHonest
  ClosedMeansReported
PROPERTIES
  CancelStopsChain
  EveryRequestReported
  CloseReturns
