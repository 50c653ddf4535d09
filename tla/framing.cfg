SPECIFICATION Spec
CONSTANTS
  MaxPackets = 3
  MaxLen = 2
  MaxTotal = 2
INVARIANTS
  HeadersAreHeaders
  FramesComeWhole
  OnlyBrokenFramesAreLost
CHECK_DEADLOCK FALSE
