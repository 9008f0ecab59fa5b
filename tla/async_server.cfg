\* Two clients served by two threads, one accept that fails.
SPECIFICATION FairSpec
CONSTANTS
  Clients = {c1, c2}
  Workers = {w1, w2}
  None = None
  MaxAcceptErrors = 1
CHECK_DEADLOCK FALSE
INVARIANTS
  TypeOK
  NoUseAfterDelete
  OneActivity
  StopLeavesOnlyOutstanding
PROPERTIES
  ImplementsRequestResponse
  EveryoneAccepted
  EveryRequestAnswered
  ServiceFreed
  StopReturns
