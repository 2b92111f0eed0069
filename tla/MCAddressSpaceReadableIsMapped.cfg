SPECIFICATION Spec
CONSTANTS
  NumFrames = 6
  Reserved = {0}
  Procs = {p1, p2}
  FirstProc = p1
  HeaderPages = 0
  PageSize = 2
  BrkPages = 1
  MmapPages = 2
  Unmapped = Unmapped
INVARIANT ReadableIsMapped
CHECK_DEADLOCK FALSE
