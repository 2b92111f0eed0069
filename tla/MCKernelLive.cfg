SPECIFICATION FairSpec
CONSTANTS
  MaxProcs = 3
  PidLimit = 5
  NoProc = NoProc
  Slice = 2
  MaxSleep = 2
PROPERTIES
  EveryProcessRuns
  ImplementsFairness
CHECK_DEADLOCK FALSE
