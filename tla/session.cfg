SPECIFICATION FairSpec
CONSTANTS
  MaxId = 3
  MaxCmd = 2
  Input <- MCInput
  Bulks <- MCBulks
  FlushEvery = 2
  MayFail = {2}
  MayLose = {"load", "measure"}
INVARIANTS
  TypeOK
  LagBounded
  Converges
  ExitDrained
PROPERTIES
  ReadEnds
  QuitEnds
CHECK_DEADLOCK FALSE
