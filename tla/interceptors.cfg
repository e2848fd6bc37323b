SPECIFICATION FairSpec
CONSTANTS
  Req = {r1, r2}
  MaxCrash = 1
  NoId = NoId
INVARIANTS
  TypeOK
  CountedBeforeAnswer
  OneClosingEntry
  IdTellsRequest
PROPERTIES
  AllAnswered
CHECK_DEADLOCK FALSE
