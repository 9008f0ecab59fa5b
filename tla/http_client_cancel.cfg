\* One request, cancelled while it is connected; its name has two addresses.
SPECIFICATION FairSpec
CONSTANTS
  Requests = {r1}
  None = None
  MaxEndpoints = 2
  MaxParts = 0
  PeersReset = FALSE
CHECK_DEADLOCK FALSE
PROPERTIES
  ConnectCancelAnnounced
