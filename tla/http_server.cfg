\* One client that sends any request and one that sends none, both of
\* which may leave or reset, served by two threads.
SPECIFICATION FairSpec
CONSTANTS
  c1 = c1
  c2 = c2
  Clients = {c1, c2}
  Workers = {w1, w2}
  None = None
  Sends <- AllAgainstSilent
  MaxAcceptErrors = 1
CHECK_DEADLOCK FALSE
INVARIANTS
  TypeOK
  ServiceOwnedOnce
  ResponseFitsRequest
  
PROPERTIES
  ImplementsRequestResponse
  ServiceEnds
