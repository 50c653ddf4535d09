SPECIFICATION FairSpec
CONSTANTS
  MaxConnects = 2
  MaxPackets = 2
  MaxFrames = 1
  MaxParts = 2
  MaxLength = 2
INVARIANTS
  RepliesMatch
  FramesAreWhole
PROPERTIES
  CallsReturn
  LossEndsMonitor
CHECK_DEADLOCK FALSE
