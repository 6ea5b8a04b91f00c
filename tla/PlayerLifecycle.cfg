SPECIFICATION Spec
CONSTANTS
  RingSize = 4
  MaxTrack = 3
  MaxBuffer = 2
  MaxCalls = 3
INVARIANTS
  PlayerInv
PROPERTIES
  StopSilencesNothing
  PlaybackEnds
CHECK_DEADLOCK FALSE
