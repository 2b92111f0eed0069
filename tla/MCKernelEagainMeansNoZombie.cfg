SPECIFICATION Spec
CONSTANTS
  MaxProcs = 4
  PidLimit = 7
  NoProc = NoProc
  Slice = 2
  MaxSleep = 2
INVARIANT EagainMeansNoZombie
CHECK_DEADLOCK FALSE
