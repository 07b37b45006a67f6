SPECIFICATION FairSpec
CONSTANTS
  Threads = {t1, t2}
  Variables = {v1, v2}
  MaxThreads = 2
  MaxUses = 3
INVARIANTS
  EachItsOwn
  DiesWithThread
PROPERTIES
  CallsReturn
CHECK_DEADLOCK FALSE
