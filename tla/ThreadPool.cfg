SPECIFICATION FairSpec
CONSTANTS
  MaxThreads = 3
  Batch = 2
  Ranges = {1, 3}
  MaxJobs = 3
  MaxBarriers = 2
  MaxStarts = 2
INVARIANTS
  NothingLeftBehind
PROPERTIES
  ImplementsPhases
  StopReturns
CHECK_DEADLOCK FALSE
