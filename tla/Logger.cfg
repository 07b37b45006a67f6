SPECIFICATION FairSpec
CONSTANTS
  Clients = {c1, c2}
  Callbacks = {f}
  Levels = {10, 20}
  MaxMessages = 3
INVARIANTS
  TypeOK
  FirstInFirstOut
  NoLostWakeup
  DrainedOnExit
PROPERTIES
  EverythingLogged
