SPECIFICATION FairSpec
CONSTANTS
  NClients = 2
  MaxSent <- MCMaxSent
  BulkCounts = {2}
  FlushEvery = 3
  MayLose = {1}
  Rtts = {2, 3}
  Cuts = {1, 5, 9}
INVARIANTS
  TypeOK
  StatsMatchRows
  OnlyTornMissed
  ReportedWereSent
PROPERTIES
  ToolEnds
CHECK_DEADLOCK FALSE
