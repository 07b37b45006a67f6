SPECIFICATION FairSpec
CONSTANTS
  Clients = {c1, c2}
  Players = {c1}
  Devices = {d1}
  Builds <- MCBuilds
  Endpoints <- MCEndpoints
  GetsLoggerFirst = TRUE
  MaxQueued = 1
INVARIANTS
  NoDanglingUse
  QuietAfterShutdown
  OpensWhatItNamed
PROPERTIES
  CallsReturn
