\* Two servers and a network that duplicates one datagram; no stranger.
SPECIFICATION Spec
CONSTANTS
  Others = {}
  MaxDuplicates = 1
CHECK_DEADLOCK FALSE
INVARIANT SecondIsFromServer2
