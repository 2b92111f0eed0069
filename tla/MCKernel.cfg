SPECIFICATION Spec
CONSTANTS
  MaxProcs = 4
  PidLimit = 7
  NoProc = NoProc
  Slice = 2
  MaxSleep = 2
INVARIANTS
  TypeOK
  PidsUnique
  QueueIsAlive
  FrontRuns
  IdleIsFinal
  ParentAlive
PROPERTIES
  SliceIsEnforced
  SlotLifeCycle
  ImplementsRoundRobin
CHECK_DEADLOCK FALSE
