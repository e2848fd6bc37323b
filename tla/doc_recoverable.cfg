SPECIFICATION Spec
CONSTANTS
  Member <- TwoMembers
  Op = {o1, o2}
  Getter = {}
  Id = {i1, i2}
  Tolerance = 1
  Strategy = "leastloaded"
  Known <- TwoKnown
  SaveMayFail = FALSE
  MaxLeaderCrash = 1
  MaxMemberCrash = 0
  MaxSilence = 0
  NoInfo = NoInfo
  NoMember = NoMember
  NoProc = NoProc
  Watcher = Watcher
  NoFile = NoFile
  Partial = Partial
  Mixed = Mixed
INVARIANTS
  AckedRecoverable
CHECK_DEADLOCK FALSE
