SPECIFICATION FairSpec
CONSTANTS
  Files <- MCFiles
  BufferFrames = 2
  NoName = NoName
  NoFrame = NoFrame
  MaxFrames = 4
  MaxSessions = 2
INVARIANTS
  StartReturns
