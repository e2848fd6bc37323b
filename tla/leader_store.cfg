SPECIFICATION Spec
CONSTANTS
  Member <- ThreeMembers
  Op = {o1, o2}
  Getter = {}
  Id = {i1, i2}
  Tolerance = 2
  Strategy = "leastloaded"
  Known <- ThreeKnown
  SaveMayFail = FALSE
  MaxLeaderCrash = 1
  MaxMemberCrash = 0
  MaxSilence = 0
  NoInfo = NoInfo
  NoMember = NoMember
  NoProc = NoProc
  Watcher = Watcher
  NoFile = NoFile
  Partial = Partial
  Mixed = Mixed
SYMMETRY Requests
INVARIANTS
  TypeOK
  IndexReplicated
  SettledSurvives
  CountCoversIndex
  AckedIndexed
PROPERTIES
  ImplementsIndex
CHECK_DEADLOCK FALSE
