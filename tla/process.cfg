SPECIFICATION FairSpec
CONSTANT MaxSpawns <- MCMaxSpawns
INVARIANTS
  NothingIsLeft
  OverdueOnlyIfStuck
PROPERTY
  OwnersGoOn
CHECK_DEADLOCK FALSE
