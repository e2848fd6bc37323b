SPECIFICATION FairSpec
CONSTANTS
  Member <- TwoMembers
  Op = {o1}
  Getter = {g1}
  Id = {i1}
  Tolerance = 1
  Strategy = "leastloaded"
  Known <- TwoKnown
  SaveMayFail = TRUE
  MaxLeaderCrash = 1
  MaxMemberCrash = 1
  MaxSilence = 0
  NoInfo = NoInfo
  NoMember = NoMember
  NoProc = NoProc
  Watcher = Watcher
  NoFile = NoFile
  Partial = Partial
  Mixed = Mixed
PROPERTIES
  StoreEnds
  GetEnds
CHECK_DEADLOCK FALSE
