SPECIFICATION Spec
CONSTANTS
  Senders = {s1, s2}
  Callbacks = {f1}
  NoFn = NoFn
  NoFrame = NoFrame
  Embedded = Embedded
  Peer = peer
  Hosts = {peer, other}
  Localhost = localhost
  NoHost = NoHost
  FrameIds = {1}
  MaxChunks = 2
  MaxCalls = 2
  NetSize = 2
  MaxRestarts = 1
INVARIANTS
  TargetIsFirstHeard
  FrameIntact
  LossIsLocal
  StopEndsReceiving
