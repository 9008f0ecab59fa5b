\* One request whose peer may reset the connection once it has the request.
SPECIFICATION FairSpec
CONSTANTS
  Requests = {r1}
  None = None
  MaxEndpoints = 1
  MaxParts = 0
  PeersReset = TRUE
CHECK_DEADLOCK FALSE
PROPERTIES
  EveryOutcomeReported
