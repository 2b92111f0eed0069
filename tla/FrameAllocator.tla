--------------------------- MODULE FrameAllocator ---------------------------
(***************************************************************************)
(* The bitmap allocator of physical frames, src/memory.rs: the set of      *)
(* frames whose bit is set, and the separate counter FREE_COUNT.  Frames   *)
(* beyond the bitmap do not exist for it and are left out.                 *)
(***************************************************************************)
EXTENDS Integers, FiniteSets

CONSTANTS
  NumFrames,   \* FRAME_BITMAP_BITS
  Reserved     \* never free: frame 0, video memory, what boot has taken

Frames == 0 .. (NumFrames - 1)

ASSUME FramesAssumption ==
  /\ NumFrames \in Nat \ {0}
  /\ Reserved \subseteq Frames
  /\ 0 \in Reserved

VARIABLES
  used,       \* indices whose bit is 1
  freeCount   \* FREE_COUNT

frameVars == <<used, freeCount>>

FreeFrames == Frames \ used

\* allocate_frame_inner: the lowest free frame.
AllocateFrame(f) ==
  /\ f \in FreeFrames
  /\ \A g \in FreeFrames : f <= g
  /\ used' = used \cup {f}
  /\ freeCount' = freeCount - 1

\* Mutant: FREE_COUNT is forgotten.
DeallocateFrameUncounted(f) ==
  /\ used' = IF f = 0 THEN used ELSE used \ {f}
  /\ UNCHANGED freeCount

\* deallocate_frame_inner ignores frame 0 and frames that are already free.
DeallocateFrame(f) ==
  IF f = 0 \/ f \notin used
  THEN UNCHANGED frameVars
  ELSE /\ used' = used \ {f}
       /\ freeCount' = freeCount + 1

=============================================================================
