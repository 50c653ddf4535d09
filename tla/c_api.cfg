SPECIFICATION MCSpec
CONSTANTS
  Objects = {o1, o2}
  NoObject = NoObject
  Clients = {"c1", "c2"}
  NumChannels = 2
  MaxCalls = 3
  MaxTimeouts = 1
SYMMETRY MCSymmetry
CHECK_DEADLOCK FALSE
INVARIANTS
  NoCallAfterFree
  ReplacedIsDone
  SettingsStayWhole
  UpdatesAreAtomic
  AnswersAreTrue
