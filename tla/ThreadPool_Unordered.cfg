SPECIFICATION FairSpec
CONSTANTS
  MaxThreads = 2
  Batch = 2
  Ranges = {1, 2}
  MaxJobs = 2
  MaxBarriers = 1
  MaxStarts = 2
PROPERTY JobsRun
CHECK_DEADLOCK FALSE
