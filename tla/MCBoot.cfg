SPECIFICATION FairSpec
CONSTANTS
  NumFrames = 7
  Reserved = {0}
  MemoryMaps <- MCMemoryMaps
  Video <- MCVideo
  HeapPages = 1
  StackFrames = 1
  ImageFrames = 2
  RingSize = 3
  Window = 2
  Keys = {k1, k2}
  MaxBytes = 4
INVARIANTS
  TypeOK
  FreeIsUsable
  KeyFates
PROPERTIES
  RingIsFifo
  WindowNeverSpins
  BootEnds
CHECK_DEADLOCK FALSE
