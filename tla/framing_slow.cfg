SPECIFICATION Spec
CONSTANTS
  MaxPackets = 3
  MaxLen = 2
  MaxTotal = 2
INVARIANTS
  SkippingIsRecoverable
CHECK_DEADLOCK FALSE
