SPECIFICATION FairSpec
CONSTANTS
  mixahead = 2
  destination_frames = 2
  bufferSize = 5
INVARIANTS
  NothingLost
  StopEndsMixing
PROPERTIES
  StopReturns
  FedAgain
