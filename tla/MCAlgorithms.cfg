SPECIFICATION Spec
CONSTANTS
  Strings <- MCStrings
  LongestVec = 3
  MaxArgv = 2
  MaxEnvp = 2
  MaxStr = 2
  WordBytes = 2
  PageWords = 24
  StackLo = 100
  Width = 7
  TimerHz = 3
  PerSecond = 10
  Cols = 3
  Rows = 2
  Glyphs = {"g", "h"}
  MaxText = 9
  FirstFd = 4
  FileLimit = 1
  Bytes = {b1, b2}
  MaxWrite = 2
  HeapBytes = 3
  MaxFd = 7
INVARIANTS
  ArgsArrive
  FailureKeepsStack
  SleepIsWholeTicks
  RowShowsText
  FilesTypeOK
  ClosedStaysClosed
  NamedFilesBounded
PROPERTIES
  FilesOnlyGrow
CHECK_DEADLOCK FALSE
