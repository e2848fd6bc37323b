SPECIFICATION Spec
CONSTANTS
  Member <- ThreeMembers
  Op = {o1}
  Getter = {}
  Id = {i1}
  Tolerance = 2
  Strategy = "leastloaded"
  Known <- ThreeKnown
  SaveMayFail = FALSE
  MaxLeaderCrash = 0
  MaxMemberCrash = 0
  MaxSilence = 0
  NoInfo = NoInfo
  NoMember = NoMember
  NoProc = NoProc
  Watcher = Watcher
  NoFile = NoFile
  Partial = Partial
  Mixed = Mixed
INVARIANTS
  ToleratesNFailures
CHECK_DEADLOCK FALSE
