SPECIFICATION Spec
CONSTANTS
  Member <- TwoMembers
  Op = {o1}
  Getter = {g1}
  Id = {i1}
  Tolerance = 1
  Strategy = "leastloaded"
  Known <- OneKnown
  SaveMayFail = TRUE
  MaxLeaderCrash = 1
  MaxMemberCrash = 0
  MaxSilence = 1
  NoInfo = NoInfo
  NoMember = NoMember
  NoProc = NoProc
  Watcher = Watcher
  NoFile = NoFile
  Partial = Partial
  Mixed = Mixed
INVARIANTS
  MembersMatchLog
  UnsavedIsPending
  ReadsSettled
CHECK_DEADLOCK FALSE
