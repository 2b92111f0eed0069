SPECIFICATION FairSpec
CONSTANTS
  RingSize = 3
  LineBuf = 1
  MaxReadyLines = 2
  MaxLen = 2
INVARIANTS
  TypeOK
  ShiftFollowsKeys
  SpinsOnlyAfterWait
PROPERTIES
  ImplementsLineStream
  ReadyLineIsRead
CHECK_DEADLOCK FALSE
