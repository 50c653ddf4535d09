SPECIFICATION FairSpec
CONSTANTS
  Boxes = 0
  Clients = {}
  PipeFrames = 1
  NoJpeg = NoJpeg
  MaxJpegs = 1
  MaxPrints = 0
  QueueFrames = 1
  HwAvailable = TRUE
  NoRaw = NoRaw
  MaxRaw = 1
  MaxStarts = 2
INVARIANTS
  StopIsSynchronous
  FfmpegInput
  RunsStayApart
PROPERTIES
  FruitlessRunFallsBack
  StopReturns
  DeadFfmpegIsCleared
  CameraReconnects
CHECK_DEADLOCK FALSE
