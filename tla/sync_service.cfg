\* Each of the three servers with two clients and a stranger.
SPECIFICATION FairSpec
CONSTANTS
  Clients = {c1, c2}
  Peers = {c1, c2, stranger}
  None = None
CHECK_DEADLOCK FALSE
INVARIANTS
  TypeOK
  StopIsFinal
PROPERTIES
  ImplementsRequestResponse
  OnlyStrangersStall
