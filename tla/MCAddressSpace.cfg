SPECIFICATION Spec
CONSTANTS
  NumFrames = 8
  Reserved = {0}
  Procs = {p1}
  FirstProc = p1
  HeaderPages = 1
  PageSize = 2
  BrkPages = 2
  MmapPages = 3
  Unmapped = Unmapped
INVARIANTS
  TypeOK
  FreeCountExact
  FramesOwned
  AcceptedIsMapped
  AreasDisjoint
PROPERTY LeaksOnlyOnCollision
CHECK_DEADLOCK FALSE
