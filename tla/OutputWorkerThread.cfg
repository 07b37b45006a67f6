SPECIFICATION FairSpec
CONSTANTS
  mixahead = 2
  destination_frames = 2
  MaxRequest = 3
  MaxWrites = 4
INVARIANTS
  TypeOK
  LoopsNeverSpin
  EachBufferOnce
  StreamInOrder
  InitialMixIsReady
  DestructorFreesQueued
PROPERTIES
  ShortOnlyOnUnderrun
  CallsReturn
  ImplementsFrameStream
