SPECIFICATION FairSpec
CONSTANTS
  Blocks = {1, 3, 5}
  Rates = {2, 3, 4, 7}
  Channels = {1, 2, 3, 4, 6, 8}
  Requests = {0, 1, 2, 5}
  XLen = 2
  MaxInt = 15
  MaxTotal = 16
INVARIANTS
  NoDrift
PROPERTIES
  NoLatency
  WriteReturns
CHECK_DEADLOCK FALSE
