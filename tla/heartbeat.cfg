SPECIFICATION FairSpec
CONSTANTS
  HeartbeatTimeout = 9
  HeartbeatInterval = 3
  RegisterLimit = 4
  DialLimit = 3
  RpcLimit = 1
  Pause = 3
  Jitter = 1
  SaveMayFail = TRUE
  MaxLeaderCrash = 1
  MaxExit = 2
  NoEntry = NoEntry
  Torn = Torn
INVARIANTS
  TypeOK
  NoFalseDown
  DeadDetected
  JoinedKnown
PROPERTIES
  Revives
CHECK_DEADLOCK FALSE
