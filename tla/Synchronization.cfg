SPECIFICATION Spec
CONSTANTS
  Callers = {c1, c2, c3}
  Threads = {t1, t2, t3}
  SpinLimit = 1
  MaxSignal = 2
  MaxPermits = 2
INVARIANTS
  RunsClaimedTask
  WakeupsBalance
PROPERTIES
  ImplementsCalls
  CallInApartmentReturns
  ImplementsSemaphore
