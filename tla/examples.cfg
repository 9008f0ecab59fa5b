\* One group of example programs after the other.
SPECIFICATION FairSpec
CONSTANTS
  MessageSize = 9
  Delimiter = 4
  RequestSize = 4
  ResponseSize = 4
  PoolThreads = {w1, w2, w3, w4}
  MaxTasks = 6
  NoTask = NoTask
CHECK_DEADLOCK FALSE
INVARIANTS
  TransferExact
  CountExact
  OutcomesTrue
PROPERTIES
  EveryExampleEnds
