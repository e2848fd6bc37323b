SPECIFICATION FairDispatch
CONSTANTS
  Addr <- MCAddr
  Silent <- MCSilent
  Tolerance = 2
  Slot = {s1, s2}
  Getter = {g}
  MaxLoad = 4
INVARIANTS
  TypeOK
  SpreadBounded
  P2CClosedForm
  OneConnection
PROPERTIES
  LonelyMaximumSpared
  ReplicationEnds
CHECK_DEADLOCK FALSE
