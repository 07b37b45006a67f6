SPECIFICATION FairSpec
CONSTANTS
  mixahead = 2
  destination_frames = 2
  alsa_buffer_frames = 5
INVARIANTS
  WritesFit
  StopEndsIo
PROPERTIES
  StopReturns
  PlaybackResumes
