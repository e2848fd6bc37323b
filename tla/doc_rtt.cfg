CONSTANTS
  MaxId = 3
  MaxCmd = 2
  Input <- MCInput
  Bulks <- MCBulks
  FlushEvery = 2
  MayFail = {}
  MayLose = {}
SPECIFICATION Spec
INVARIANT RttPerCommand
CHECK_DEADLOCK FALSE
