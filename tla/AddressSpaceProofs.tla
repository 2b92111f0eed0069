------------------------- MODULE AddressSpaceProofs -------------------------
(***************************************************************************)
(* Proofs about AddressSpace, for any number of frames, pages, processes   *)
(* and any page size.                                                      *)
(*                                                                         *)
(* Every step does one of four things to page table and bitmap: nothing,   *)
(* map a fresh frame, unmap a page and free its frame, or lose a frame on  *)
(* a page that is mapped already (MemoryStep).  The invariant of the       *)
(* memory, MemInv, is proved against these four; the windows of break,     *)
(* areas and page loops, WindowInv, against the system calls.              *)
(***************************************************************************)
EXTENDS AddressSpace, FiniteSetTheorems, TLAPS

USE FramesAssumption, SpaceAssumption

\* Bitmap, counter and page table agree.
MemInv ==
  /\ used \subseteq Frames
  /\ Reserved \subseteq used
  /\ pt \in [Pages -> Frames \cup {Unmapped}]
  /\ FreeCountExact
  /\ FramesOwned

\* What a page loop will store when it is done is inside its window.
GoalOK ==
  /\ op.kind \in {"grow", "shrink"} => op.goal \in BrkBase .. BrkLimit
  /\ op.kind = "mmap" => /\ [start |-> op.first, pages |-> op.goal] \in Areas
                         /\ op.first + op.goal <= EndMmapPage

\* Break, areas, NEXT_MMAP and the page loop stay in their windows.
WindowInv ==
  /\ live \subseteq Procs
  /\ brkEnd \in [Procs -> BrkBase .. BrkLimit]
  /\ vmAreas \in [Procs -> SUBSET Areas]
  /\ \A p \in Procs : \A a \in vmAreas[p] : a.start + a.pages <= EndMmapPage
  /\ nextMmap \in FirstMmapPage .. EndMmapPage
  /\ op \in Ops
  /\ GoalOK
  /\ lastLoad \in {"ok", "failed"}

Inv == MemInv /\ WindowInv

-----------------------------------------------------------------------------

\* There are NumFrames frames.
LEMMA FramesFinite ==
  IsFiniteSet(Frames) /\ Cardinality(Frames) = NumFrames
  BY FS_Interval DEF Frames

\* The layout: windows follow each other, and boot's pages are pages.
LEMMA Layout ==
  /\ FirstMmapPage \in Nat /\ EndMmapPage \in Nat
  /\ FirstBrkPage <= FirstMmapPage /\ FirstMmapPage < EndMmapPage
  /\ BrkBase \in Nat /\ BrkLimit \in Nat /\ BrkBase <= BrkLimit
  /\ BootPages \subseteq Pages
  /\ {TextPage, FirstImagePage, StackPage, ChildStackPage} \subseteq Pages
  <1>1. /\ FirstMmapPage \in Nat /\ EndMmapPage \in Nat
        /\ FirstBrkPage <= FirstMmapPage /\ FirstMmapPage < EndMmapPage
        /\ FirstBrkPage \in Nat
    BY DEF FirstBrkPage, FirstMmapPage, EndMmapPage
  <1>2. BrkBase \in Nat /\ BrkLimit \in Nat /\ BrkBase <= BrkLimit
    BY <1>1 DEF BrkBase, BrkLimit
  <1>3. {TextPage, FirstImagePage, StackPage, ChildStackPage} \subseteq Pages
    BY DEF TextPage, FirstImagePage, StackPage, ChildStackPage, Pages,
           FirstBrkPage, FirstMmapPage, EndMmapPage
  <1>4. BootPages \subseteq Pages
    BY DEF BootPages, ImagePages, TextPage, FirstImagePage, StackPage, Pages,
           FirstBrkPage, FirstMmapPage, EndMmapPage
  <1> QED
    BY <1>1, <1>2, <1>3, <1>4

\* Division by the page size finds the page that holds an address.
LEMMA PageBounds ==
  ASSUME NEW addr \in Nat
  PROVE  /\ PageOf(addr) \in Nat
         /\ PageSize * PageOf(addr) <= addr
         /\ addr < PageSize * PageOf(addr) + PageSize
  BY DEF PageOf

\* An address between two page boundaries lies in a page between them.
LEMMA PageBetween ==
  ASSUME NEW addr \in Nat, NEW lo \in Nat, NEW hi \in Nat,
         lo * PageSize <= addr, addr < hi * PageSize
  PROVE  PageOf(addr) \in lo .. (hi - 1)
  <1>1. /\ PageOf(addr) \in Nat /\ PageSize * PageOf(addr) <= addr
        /\ addr < PageSize * PageOf(addr) + PageSize
    BY PageBounds
  <1>2. PageSize * PageOf(addr) < PageSize * hi
    BY <1>1
  <1>3. PageOf(addr) < hi
    BY <1>1, <1>2
  <1>4. PageSize * lo < PageSize * (PageOf(addr) + 1)
    BY <1>1
  <1>5. lo < PageOf(addr) + 1
    BY <1>1, <1>4
  <1> QED
    BY <1>1, <1>3, <1>5

\* Rounding up to a page boundary goes to the page of the last address that
\* still rounds to it.
LEMMA PageOfAlignUp ==
  ASSUME NEW addr \in Nat
  PROVE  PageOf(AlignUp(addr)) = PageOf(addr + PageSize - 1)
  <1>1. PageOf(addr + PageSize - 1) \in Nat
    BY PageBounds
  <1>2. AlignUp(addr) = PageOf(addr + PageSize - 1) * PageSize
    BY DEF AlignUp, PageOf
  <1>3. \A q \in Nat : (q * PageSize) \div PageSize = q
    OBVIOUS
  <1> QED
    BY <1>1, <1>2, <1>3 DEF PageOf

-----------------------------------------------------------------------------

\* allocate_frame_inner keeps FREE_COUNT equal to the number of free bits.
LEMMA AllocateCounts ==
  ASSUME used \subseteq Frames, FreeCountExact, NEW f, AllocateFrame(f)
  PROVE  f \in Frames \ used /\ used' = used \cup {f} /\ FreeCountExact'
  <1>1. f \in FreeFrames /\ FreeFrames' = FreeFrames \ {f}
    BY DEF AllocateFrame, FreeFrames, Frames
  <1>2. IsFiniteSet(FreeFrames)
    BY FramesFinite, FS_Subset DEF FreeFrames
  <1>3. Cardinality(FreeFrames') = Cardinality(FreeFrames) - 1
    BY <1>1, <1>2, FS_RemoveElement
  <1> QED
    BY <1>1, <1>3 DEF AllocateFrame, FreeCountExact, FreeFrames

\* deallocate_frame_inner does too, here for a used frame other than frame 0.
LEMMA DeallocateCounts ==
  ASSUME used \subseteq Frames, FreeCountExact, NEW f \in used, f # 0,
         DeallocateFrame(f)
  PROVE  used' = used \ {f} /\ FreeCountExact'
  <1>1. FreeFrames' = FreeFrames \cup {f} /\ f \notin FreeFrames
    BY DEF DeallocateFrame, FreeFrames, Frames
  <1>2. IsFiniteSet(FreeFrames)
    BY FramesFinite, FS_Subset DEF FreeFrames
  <1>3. Cardinality(FreeFrames') = Cardinality(FreeFrames) + 1
    BY <1>1, <1>2, FS_AddElement
  <1> QED
    BY <1>3 DEF DeallocateFrame, FreeCountExact

-----------------------------------------------------------------------------
(* The three ways in which a step edits page table and bitmap. *)

\* Mapping an unmapped page to a fresh frame keeps memory consistent and loses
\* no frame.
LEMMA MapKeeps ==
  ASSUME MemInv, NEW page \in Pages, ~IsMapped(page), MapFresh(page)
  PROVE  MemInv' /\ Leaked' = Leaked
  <1>1. PICK f \in Frames : AllocateFrame(f) /\ pt' = [pt EXCEPT ![page] = f]
    BY DEF MapFresh
  <1>2. f \in Frames \ used /\ used' = used \cup {f} /\ FreeCountExact'
    BY <1>1, AllocateCounts DEF MemInv
  <1>3. /\ pt' \in [Pages -> Frames \cup {Unmapped}]
        /\ pt'[page] = f /\ \A q \in Pages \ {page} : pt'[q] = pt[q]
    BY <1>1 DEF MemInv
  <1>4. f # Unmapped /\ \A q \in Pages : pt[q] # f
    BY <1>2 DEF MemInv, FramesOwned, IsMapped
  <1>5. FramesOwned'
    BY <1>2, <1>3, <1>4 DEF MemInv, FramesOwned, IsMapped
  <1>6. MappedFrames' = MappedFrames \cup {f}
    BY <1>3, <1>4 DEF MappedFrames, IsMapped
  <1>7. Leaked' = Leaked
    BY <1>2, <1>6 DEF Leaked
  <1> QED
    BY <1>2, <1>3, <1>5, <1>7 DEF MemInv

\* So does unmapping a page and freeing its frame.
LEMMA UnmapKeeps ==
  ASSUME MemInv, NEW page \in Pages, UnmapAndFree(page)
  PROVE  MemInv' /\ Leaked' = Leaked
  <1>1. CASE ~IsMapped(page)
    BY <1>1 DEF UnmapAndFree, frameVars, MemInv, FreeCountExact, FreeFrames,
                FramesOwned, IsMapped, Leaked, MappedFrames
  <1>2. CASE IsMapped(page)
    <2> DEFINE f == pt[page]
    <2>1. /\ f \in used \ Reserved /\ f # 0 /\ f # Unmapped
          /\ \A q \in Pages : pt[q] = f => q = page
      BY <1>2 DEF MemInv, FramesOwned, IsMapped
    <2>2. DeallocateFrame(f) /\ pt' = [pt EXCEPT ![page] = Unmapped]
      BY <1>2 DEF UnmapAndFree
    <2> HIDE DEF f
    <2>3. used' = used \ {f} /\ FreeCountExact'
      BY <2>1, <2>2, DeallocateCounts DEF MemInv
    <2>4. /\ pt' \in [Pages -> Frames \cup {Unmapped}]
          /\ pt'[page] = Unmapped /\ \A q \in Pages \ {page} : pt'[q] = pt[q]
      BY <2>2 DEF MemInv
    <2>5. FramesOwned'
      BY <2>1, <2>3, <2>4 DEF MemInv, FramesOwned, IsMapped
    <2>6. MappedFrames' = MappedFrames \ {f} /\ f \in MappedFrames
      <3>1. pt[page] = f
        BY DEF f
      <3> QED
        BY <2>1, <2>4, <3>1 DEF MappedFrames
    <2>7. Leaked' = Leaked
      BY <2>3, <2>6 DEF Leaked
    <2> QED
      BY <2>1, <2>3, <2>4, <2>5, <2>7 DEF MemInv
  <1> QED
    BY <1>1, <1>2

\* A frame that is taken and mapped nowhere is lost, and nothing else.
LEMMA LoseKeeps ==
  ASSUME MemInv, NEW f \in Frames, AllocateFrame(f), pt' = pt
  PROVE  /\ MemInv'
         /\ Leaked \subseteq Leaked' /\ Cardinality(Leaked' \ Leaked) = 1
  <1>1. f \in Frames \ used /\ used' = used \cup {f} /\ FreeCountExact'
    BY AllocateCounts DEF MemInv
  <1>2. FramesOwned'
    BY <1>1 DEF MemInv, FramesOwned, IsMapped
  <1>3. MappedFrames' = MappedFrames /\ f \notin MappedFrames
    BY <1>1 DEF MappedFrames, MemInv, FramesOwned, IsMapped
  <1>4. Leaked' = Leaked \cup {f} /\ f \notin Leaked
    BY <1>1, <1>3 DEF Leaked, MemInv
  <1>5. Leaked' \ Leaked = {f}
    BY <1>4
  <1> QED
    BY <1>1, <1>2, <1>4, <1>5, FS_Singleton DEF MemInv

\* A step that leaves page table and bitmap alone.
LEMMA SameKeeps ==
  ASSUME MemInv, UNCHANGED <<frameVars, pt>>
  PROVE  MemInv' /\ Leaked' = Leaked
  BY DEF frameVars, MemInv, FreeCountExact, FreeFrames, FramesOwned, IsMapped,
         Leaked, MappedFrames

-----------------------------------------------------------------------------

\* mmap or the loader meets a page that is mapped, with a frame already in hand.
Collision ==
  /\ op.kind \in {"mmap", "load"} /\ IsMapped(op.page) /\ op' = Idle
  /\ pt' = pt /\ \E f \in Frames : AllocateFrame(f)

\* A page loop that has a page left is at a page.
LEMMA LoopAtPage ==
  ASSUME op \in Ops, op.kind # "idle", op.page <= op.last
  PROVE  op.page \in Pages
  BY Layout DEF Ops, Idle, Pages

\* Every step does one of four things to memory.
LEMMA MemoryStep ==
  ASSUME WindowInv, [Next]_vars
  PROVE  \/ UNCHANGED <<frameVars, pt>>
         \/ \E page \in Pages : ~IsMapped(page) /\ MapFresh(page)
         \/ \E page \in Pages : UnmapAndFree(page)
         \/ Collision
  <1>1. ASSUME NEW p \in Procs, NEW child \in Procs,
               SysFork(p, child) \/ SysForkFail(p)
        PROVE  \/ UNCHANGED <<frameVars, pt>>
               \/ \E page \in Pages : ~IsMapped(page) /\ MapFresh(page)
    BY <1>1, Layout DEF SysFork, SysForkFail, ForkChildStack
  <1>2. ASSUME NEW p \in Procs,
               \/ \E addr \in BrkBase .. BrkLimit :
                    SysBrkGrow(p, addr) \/ SysBrkShrink(p, addr)
               \/ \E n \in 1 .. MmapPages : SysMmapAnywhere(p, n)
               \/ \E a \in Areas : SysMmapAt(p, a.start, a.pages) \/ SysMunmap(p, a)
               \/ SysExecve(p) \/ SysExit(p)
        PROVE  UNCHANGED <<frameVars, pt>>
    BY <1>2 DEF SysBrkGrow, SysBrkShrink, SysMmapAnywhere, SysMmapAt, SysMunmap,
                SysExecve, SysExit
  <1>3. CASE BrkGrowPage
    <2>1. op.page \in Pages
      BY <1>3, LoopAtPage DEF BrkGrowPage, WindowInv
    <2> QED
      BY <1>3, <2>1 DEF BrkGrowPage
  <1>4. CASE BrkShrinkPage
    <2>1. op.page \in Pages
      BY <1>4, LoopAtPage DEF BrkShrinkPage, WindowInv
    <2> QED
      BY <1>4, <2>1 DEF BrkShrinkPage
  <1>5. CASE BrkDone \/ MmapDone
    BY <1>5 DEF BrkDone, MmapDone
  <1>6. ASSUME op.kind \in {"mmap", "load"}, op.page <= op.last, MapNewPage
        PROVE  \/ UNCHANGED <<frameVars, pt>>
               \/ \E page \in Pages : ~IsMapped(page) /\ MapFresh(page)
               \/ Collision
    <2>1. op.page \in Pages
      BY <1>6, LoopAtPage DEF WindowInv
    <2> QED
      BY <1>6, <2>1 DEF MapNewPage, Collision
  <1>7. CASE MmapPage \/ LoadPage
    BY <1>6, <1>7 DEF MmapPage, LoadPage
  <1>8. CASE MunmapPage \/ UnloadPage
    <2>1. op.page <= op.last => op.page \in Pages
      BY <1>8, LoopAtPage DEF MunmapPage, UnloadPage, WindowInv
    <2> QED
      BY <1>8, <2>1 DEF MunmapPage, UnloadPage
  <1>9. CASE UNCHANGED vars
    BY <1>9 DEF vars
  <1> QED
    BY <1>1, <1>2, <1>3, <1>4, <1>5, <1>7, <1>8, <1>9 DEF Next

\* Memory stays consistent, and frames are lost in collisions only.
LEMMA StepKeepsMemory ==
  ASSUME Inv, [Next]_vars
  PROVE  /\ MemInv'
         /\ Leaked' # Leaked =>
              /\ op.kind \in {"mmap", "load"} /\ IsMapped(op.page) /\ op' = Idle
              /\ Leaked \subseteq Leaked' /\ Cardinality(Leaked' \ Leaked) = 1
  <1>1. CASE UNCHANGED <<frameVars, pt>>
    BY <1>1, SameKeeps DEF Inv
  <1>2. CASE \E page \in Pages : ~IsMapped(page) /\ MapFresh(page)
    BY <1>2, MapKeeps DEF Inv
  <1>3. CASE \E page \in Pages : UnmapAndFree(page)
    BY <1>3, UnmapKeeps DEF Inv
  <1>4. CASE Collision
    BY <1>4, LoseKeeps DEF Inv, Collision
  <1> QED
    BY <1>1, <1>2, <1>3, <1>4, MemoryStep DEF Inv

-----------------------------------------------------------------------------
(* Windows: what a system call asks for stays inside them, page by page. *)

\* A fresh page loop whose bounds are pages is a loop.
LEMMA LoopInOps ==
  ASSUME NEW kind \in {"grow", "shrink", "mmap", "munmap", "unload", "load"},
         NEW p \in Procs, NEW first \in Pages, NEW last \in Pages, NEW goal \in Nat
  PROVE  Loop(kind, p, first, last, goal) \in Ops
  BY DEF Loop, Ops

\* The fields of a page loop that is under way.
LEMMA OpFields ==
  ASSUME Inv, op.kind # "idle"
  PROVE  /\ op.page \in Int /\ op.first \in Int /\ op.last \in Int
         /\ op.goal \in Nat /\ op.proc \in Procs
  <1>1. /\ op.page \in Pages \cup {EndMmapPage} /\ op.first \in Pages
        /\ op.last \in Pages /\ op.goal \in Nat /\ op.proc \in Procs
    BY DEF Inv, WindowInv, Ops, Idle
  <1>2. EndMmapPage \in Int /\ Pages \subseteq Int
    BY Layout DEF Pages
  <1> QED
    BY <1>1, <1>2

\* The next page is a page or the end of the last window.
LEMMA AdvanceKeeps ==
  ASSUME op \in Ops, op.kind # "idle", GoalOK, op.page <= op.last, Advance
  PROVE  op' \in Ops /\ GoalOK'
  <1>1. op.page + 1 \in Pages \cup {EndMmapPage}
    BY Layout DEF Ops, Idle, Pages
  <1>2. op' \in Ops
    BY <1>1 DEF Ops, Idle, Advance
  <1>3. /\ op'.kind = op.kind /\ op'.first = op.first /\ op'.goal = op.goal
    BY DEF Ops, Idle, Advance
  <1> QED
    BY <1>2, <1>3 DEF GoalOK

\* A call that is over leaves nothing to store.
LEMMA IdleKeeps ==
  ASSUME op' = Idle
  PROVE  op' \in Ops /\ GoalOK'
  BY DEF Ops, Idle, GoalOK

\* Growing and shrinking the break walk over pages of the break or the page
\* right behind them.
LEMMA BrkLoop ==
  ASSUME NEW p \in Procs, NEW addr \in BrkBase .. BrkLimit, WindowInv,
         SysBrkGrow(p, addr) \/ SysBrkShrink(p, addr)
  PROVE  op' \in Ops /\ GoalOK'
  <1>1. /\ brkEnd[p] \in Nat /\ addr \in Nat
        /\ BrkBase <= brkEnd[p] /\ brkEnd[p] <= BrkLimit
        /\ BrkBase <= addr /\ addr <= BrkLimit
    BY Layout DEF WindowInv
  <1>2. \A a \in Nat : BrkBase <= a /\ a < BrkLimit => PageOf(a) \in Pages
    <2> SUFFICES ASSUME NEW a \in Nat, BrkBase <= a, a < BrkLimit
                 PROVE  PageOf(a) \in Pages
      OBVIOUS
    <2>1. PageOf(a) \in FirstBrkPage .. (FirstMmapPage - 1)
      BY PageBetween, Layout DEF BrkBase, BrkLimit, FirstBrkPage
    <2> QED
      BY <2>1, Layout DEF Pages, FirstBrkPage
  <1>3. CASE SysBrkGrow(p, addr)
    <2>1. PageOf(brkEnd[p]) \in Pages /\ PageOf(addr - 1) \in Pages
      BY <1>1, <1>2, <1>3, Layout DEF SysBrkGrow
    <2>2. op' = Loop("grow", p, PageOf(brkEnd[p]), PageOf(addr - 1), addr)
      BY <1>3 DEF SysBrkGrow
    <2> QED
      BY <1>1, <2>1, <2>2, LoopInOps DEF GoalOK, Loop
  <1>4. CASE SysBrkShrink(p, addr)
    <2>1. PageOf(brkEnd[p] - 1) \in Pages
      BY <1>1, <1>2, <1>4, Layout DEF SysBrkShrink
    <2>2. PageOf(AlignUp(addr)) \in Pages
      <3> DEFINE top == addr + PageSize - 1
                 hi  == FirstMmapPage + 1
      <3>1. /\ top \in Nat /\ hi \in Nat /\ FirstBrkPage \in Nat
            /\ FirstBrkPage * PageSize <= top /\ top < hi * PageSize
        BY <1>1, Layout DEF BrkBase, BrkLimit, FirstBrkPage
      <3>2. PageOf(AlignUp(addr)) = PageOf(top)
        BY <1>1, PageOfAlignUp
      <3> HIDE DEF top, hi
      <3>3. PageOf(top) \in FirstBrkPage .. (hi - 1)
        BY <3>1, PageBetween
      <3> QED
        BY <3>2, <3>3, Layout DEF Pages, FirstBrkPage, hi
    <2>3. op' = Loop("shrink", p, PageOf(AlignUp(addr)), PageOf(brkEnd[p] - 1), addr)
      BY <1>4 DEF SysBrkShrink
    <2> QED
      BY <1>1, <2>1, <2>2, <2>3, LoopInOps DEF GoalOK, Loop
  <1> QED
    BY <1>3, <1>4

\* mmap and munmap walk over pages of the mmap window.
LEMMA AreaLoop ==
  ASSUME NEW p \in Procs, NEW start \in Nat, NEW n \in 1 .. MmapPages,
         NEW kind \in {"mmap", "munmap"},
         FirstMmapPage <= start, start + n <= EndMmapPage,
         op' = Loop(kind, p, start, start + n - 1, n)
  PROVE  op' \in Ops /\ GoalOK'
  <1>1. start \in Pages /\ start + n - 1 \in Pages /\ n \in Nat
    BY Layout DEF Pages
  <1>2. [start |-> start, pages |-> n] \in Areas
    BY Layout DEF Areas
  <1> QED
    BY <1>1, <1>2, LoopInOps DEF GoalOK, Loop

\* Every system call and every page of its loop keeps the windows.
LEMMA StepKeepsWindows ==
  ASSUME WindowInv, [Next]_vars
  PROVE  WindowInv'
  <1> USE DEF WindowInv
  <1>1. ASSUME NEW p \in Procs, NEW addr \in BrkBase .. BrkLimit,
               SysBrkGrow(p, addr) \/ SysBrkShrink(p, addr)
        PROVE  WindowInv'
    BY <1>1, BrkLoop DEF SysBrkGrow, SysBrkShrink, procVars
  <1>2. ASSUME NEW p \in Procs, NEW n \in 1 .. MmapPages, SysMmapAnywhere(p, n)
        PROVE  WindowInv'
    <2>1. nextMmap' \in FirstMmapPage .. EndMmapPage
      BY <1>2, Layout DEF SysMmapAnywhere
    <2>2. op' \in Ops /\ GoalOK'
      BY <1>2, AreaLoop, IdleKeeps, Layout DEF SysMmapAnywhere
    <2> QED
      BY <1>2, <2>1, <2>2 DEF SysMmapAnywhere, procVars
  <1>3. ASSUME NEW p \in Procs, NEW a \in Areas, SysMmapAt(p, a.start, a.pages)
        PROVE  WindowInv'
    <2>1. a.start \in Nat /\ a.pages \in 1 .. MmapPages
      BY Layout DEF Areas
    <2>2. op' \in Ops /\ GoalOK'
      BY <1>3, <2>1, AreaLoop DEF SysMmapAt
    <2> QED
      BY <1>3, <2>2 DEF SysMmapAt, procVars
  <1>4. ASSUME NEW p \in Procs, NEW a \in Areas, SysMunmap(p, a)
        PROVE  WindowInv'
    <2>1. /\ a.start \in Nat /\ a.pages \in 1 .. MmapPages
          /\ FirstMmapPage <= a.start /\ a.start + a.pages <= EndMmapPage
      BY <1>4, Layout DEF Areas, SysMunmap
    <2>2. op' \in Ops /\ GoalOK'
      BY <1>4, <2>1, AreaLoop DEF SysMunmap
    <2> QED
      BY <1>4, <2>2 DEF SysMunmap
  <1>5. ASSUME NEW p \in Procs, NEW child \in Procs, SysFork(p, child)
        PROVE  WindowInv'
    BY <1>5 DEF SysFork, GoalOK
  <1>6. ASSUME NEW p \in Procs, SysForkFail(p)
        PROVE  WindowInv'
    BY <1>6 DEF SysForkFail, procVars, GoalOK
  <1>7. ASSUME NEW p \in Procs, SysExecve(p)
        PROVE  WindowInv'
    <2>1. op' \in Ops /\ GoalOK'
      BY <1>7, Layout, LoopInOps DEF SysExecve, GoalOK, Loop
    <2> QED
      BY <1>7, <2>1 DEF SysExecve, procVars
  <1>8. ASSUME NEW p \in Procs, SysExit(p)
        PROVE  WindowInv'
    BY <1>8, Layout DEF SysExit, GoalOK
  <1>9. CASE BrkGrowPage \/ BrkShrinkPage \/ MmapPage
    BY <1>9, AdvanceKeeps, IdleKeeps
       DEF BrkGrowPage, BrkShrinkPage, MmapPage, MapNewPage, procVars
  <1>10. CASE BrkDone
    <2>1. op.goal \in BrkBase .. BrkLimit
      BY <1>10 DEF BrkDone, GoalOK
    <2> QED
      BY <1>10, <2>1, IdleKeeps DEF BrkDone
  <1>11. CASE MmapDone
    <2>1. /\ [start |-> op.first, pages |-> op.goal] \in Areas
          /\ op.first + op.goal <= EndMmapPage
      BY <1>11 DEF MmapDone, GoalOK
    <2> DEFINE new == [start |-> op.first, pages |-> op.goal]
    <2>2. new.start + new.pages <= EndMmapPage
      BY <2>1
    <2>3. \A p \in Procs : vmAreas'[p] \subseteq vmAreas[p] \cup {new}
      BY <1>11 DEF MmapDone
    <2>4. vmAreas' \in [Procs -> SUBSET Areas]
      BY <1>11, <2>1 DEF MmapDone
    <2> HIDE DEF new
    <2>5. \A p \in Procs : \A a \in vmAreas'[p] : a.start + a.pages <= EndMmapPage
      BY <2>2, <2>3
    <2> QED
      BY <1>11, <2>4, <2>5, IdleKeeps DEF MmapDone
  <1>12. CASE MunmapPage \/ LoadPage
    BY <1>12, AdvanceKeeps, IdleKeeps DEF MunmapPage, LoadPage, MapNewPage, procVars
  <1>13. CASE UnloadPage
    <2>1. op.proc \in Procs /\ op.kind = "unload"
      BY <1>13 DEF UnloadPage, Ops, Idle
    <2>2. op' \in Ops /\ GoalOK'
      <3>1. CASE op.page <= op.last /\ Advance
        BY <2>1, <3>1, AdvanceKeeps
      <3>2. CASE op' = Loop("load", op.proc, FirstImagePage, TextPage, 0)
        <4>1. op' \in Ops
          BY <2>1, <3>2, Layout, LoopInOps
        <4>2. op'.kind = "load"
          BY <3>2 DEF Loop
        <4> QED
          BY <4>1, <4>2 DEF GoalOK
      <3> QED
        BY <1>13, <3>1, <3>2 DEF UnloadPage
    <2> QED
      BY <1>13, <2>2 DEF UnloadPage, procVars
  <1>14. CASE UNCHANGED vars
    BY <1>14 DEF vars, procVars, GoalOK
  <1> QED
    BY <1>1, <1>2, <1>3, <1>4, <1>5, <1>6, <1>7, <1>8, <1>9, <1>10, <1>11, <1>12,
       <1>13, <1>14 DEF Next

-----------------------------------------------------------------------------

\* Boot maps the stack and the image to frames of their own.
LEMMA InitInv ==
  ASSUME Init
  PROVE  Inv
  <1>1. PICK frame \in [BootPages -> Frames \ Reserved] :
          /\ \A p, q \in BootPages : BootedBefore(p, q) => frame[p] < frame[q]
          /\ used = Reserved \cup {frame[p] : p \in BootPages}
          /\ pt = [page \in Pages |->
                     IF page \in BootPages THEN frame[page] ELSE Unmapped]
    BY DEF Init
  <1>2. \A p, q \in BootPages : frame[p] = frame[q] => p = q
    BY <1>1 DEF BootedBefore, BootPages, ImagePages, FirstImagePage, TextPage,
                StackPage, Frames
  <1>3. used \subseteq Frames /\ Reserved \subseteq used
    BY <1>1
  <1>4. /\ pt \in [Pages -> Frames \cup {Unmapped}]
        /\ \A page \in Pages : IsMapped(page) =>
             page \in BootPages /\ pt[page] = frame[page]
    BY <1>1 DEF IsMapped
  <1>5. FramesOwned
    BY <1>1, <1>2, <1>4 DEF FramesOwned, IsMapped
  <1>6. FreeCountExact
    BY DEF Init, FreeCountExact, FreeFrames
  <1>7. WindowInv
    BY Layout, SpaceAssumption DEF Init, WindowInv, Ops, Idle, GoalOK
  <1> QED
    BY <1>3, <1>4, <1>5, <1>6, <1>7 DEF Inv, MemInv

\* The invariant implies the type of the state.
LEMMA InvTypes ==
  ASSUME Inv
  PROVE  TypeOK
  <1>1. Cardinality(FreeFrames) \in 0 .. NumFrames
    <2>1. IsFiniteSet(FreeFrames) /\ Cardinality(FreeFrames) <= Cardinality(Frames)
      BY FramesFinite, FS_Subset DEF FreeFrames
    <2> QED
      BY <2>1, FramesFinite, FS_CardinalityType
  <1> QED
    BY <1>1 DEF Inv, MemInv, WindowInv, FreeCountExact, TypeOK

\* The inductive invariant: bitmap, counter and page table agree, and break,
\* areas, NEXT_MMAP and page loops stay in their windows.
THEOREM SpaceInv == Spec => []Inv
  <1>1. Init => Inv
    BY InitInv
  <1>2. Inv /\ [Next]_vars => Inv'
    BY StepKeepsMemory, StepKeepsWindows DEF Inv
  <1> QED
    BY <1>1, <1>2, PTL DEF Spec

\* The state of brk, mmap, munmap, fork and execve is well typed and inside the
\* windows that process.rs lays out.
THEOREM SpaceTypeCorrect == Spec => []TypeOK
  BY SpaceInv, InvTypes, PTL

\* FREE_COUNT is the number of free bits after any sequence of calls.
THEOREM FreeCountCorrect == Spec => []FreeCountExact
  <1>1. Inv => FreeCountExact
    BY DEF Inv, MemInv
  <1> QED
    BY <1>1, SpaceInv, PTL

\* No two user pages share a frame, and no mapped frame is free or reserved.
THEOREM OwnedCorrect == Spec => []FramesOwned
  <1>1. Inv => FramesOwned
    BY DEF Inv, MemInv
  <1> QED
    BY <1>1, SpaceInv, PTL

\* Only mmap and execve on a page that is mapped lose a frame, one each time.
THEOREM LeaksCorrect == Spec => LeaksOnlyOnCollision
  <1>1. Inv /\ [Next]_vars =>
          [Leaked' # Leaked =>
             /\ op.kind \in {"mmap", "load"} /\ IsMapped(op.page) /\ op' = Idle
             /\ Leaked \subseteq Leaked' /\ Cardinality(Leaked' \ Leaked) = 1]_vars
    BY StepKeepsMemory
  <1> QED
    BY <1>1, SpaceInv, PTL DEF Spec, LeaksOnlyOnCollision

-----------------------------------------------------------------------------
(***************************************************************************)
(* What the kernel promises a process that never forks: its areas never    *)
(* overlap, and what the kernel accepts as its memory is mapped.           *)
(*                                                                         *)
(* Both are about complete calls; in the middle of a loop over pages the   *)
(* heap, an area or the image is partly mapped.  LoopInv says how far each *)
(* loop has come, so that the call's last step finds its range mapped, or  *)
(* free of other areas.                                                    *)
(***************************************************************************)

\* One process.  Its image may have a header page.
Alone == Procs = {FirstProc}

Mapped == {page \in Pages : IsMapped(page)}

MyAreas == vmAreas[FirstProc]

Span(a) == a.start .. (a.start + a.pages - 1)

\* The pages the loop has been through.
Done == op.first .. (op.page - 1)

\* The break's pages are mapped, except those a shrinking break gives up.
HeapInv ==
  \A page \in Pages :
    /\ FirstBrkPage <= page /\ page * PageSize < brkEnd[FirstProc]
    /\ op.kind = "shrink" => page < op.first
    => page \in Mapped

\* Every page of every area is mapped, and areas do not overlap.
AreaInv ==
  /\ \A a \in MyAreas : Span(a) \subseteq Mapped
  /\ \A a, b \in MyAreas :
       a # b => a.start + a.pages <= b.start \/ b.start + b.pages <= a.start

\* execve has unloaded the text page and not loaded it again.
Reloading ==
  (op.kind = "unload" /\ op.page = 1) \/ (op.kind = "load" /\ op.page # 1)

\* Stack and header page stay mapped.  The text page is mapped unless execve is
\* about to load it again or the last load has failed.  Without a header page no
\* load fails: it has at least the frame of the text page.
ImageInv ==
  /\ StackPage \in Mapped /\ (HeaderPages = 1 => FirstImagePage \in Mapped)
  /\ TextPage \in Mapped <=> ~Reloading /\ lastLoad = "ok"
  /\ HeaderPages = 0 => lastLoad = "ok" /\ (Reloading => FreeFrames # {})

\* map_brk_grow has mapped what it has been through.
GrowLoop ==
  /\ op.first = PageOf(brkEnd[FirstProc]) /\ op.last = PageOf(op.goal - 1)
  /\ FirstBrkPage <= op.page /\ op.last < FirstMmapPage
  /\ Done \subseteq Mapped

\* map_brk_shrink is above the new break.
ShrinkLoop ==
  /\ op.first = PageOf(AlignUp(op.goal)) /\ op.goal < brkEnd[FirstProc]
  /\ FirstBrkPage <= op.first /\ op.first <= op.page
  /\ op.last < FirstMmapPage

\* mmap has mapped what it has been through, and none of it is in an area.
MmapLoop ==
  /\ FirstMmapPage <= op.page /\ op.last = op.first + op.goal - 1
  /\ Done \subseteq Mapped
  /\ \A a \in MyAreas : Done \cap Span(a) = {}

\* What munmap goes through is in no area any more.
MunmapLoop ==
  /\ FirstMmapPage <= op.first /\ op.first <= op.page
  /\ \A a \in MyAreas : (op.first .. op.last) \cap Span(a) = {}

\* execve unloads the text page; loading gets past no header page.
UnloadLoop == op.last = 0 /\ op.page \in {0, 1}

LoadLoop ==
  /\ op.last = 0
  /\ \/ HeaderPages = 0 /\ op.page \in {0, 1}
     \/ HeaderPages = 1 /\ op.page = FirstImagePage

\* How far the loop in progress has come.
LoopInv ==
  /\ op.kind = "grow"   => GrowLoop
  /\ op.kind = "shrink" => ShrinkLoop
  /\ op.kind = "mmap"   => MmapLoop
  /\ op.kind = "munmap" => MunmapLoop
  /\ op.kind = "unload" => UnloadLoop
  /\ op.kind = "load"   => LoadLoop

OneInv == HeapInv /\ AreaInv /\ ImageInv /\ LoopInv

-----------------------------------------------------------------------------
(* What a step does to the set of mapped pages. *)

\* allocate_frame and map_to add a page.
LEMMA MapAdds ==
  ASSUME MemInv, NEW page \in Pages, MapFresh(page)
  PROVE  Mapped' = Mapped \cup {page}
  <1>1. PICK f \in Frames : pt' = [pt EXCEPT ![page] = f]
    BY DEF MapFresh
  <1> QED
    BY <1>1 DEF MemInv, Mapped, IsMapped

\* unmap_4k_and_free_bitmap removes one, and leaves its frame free.
LEMMA UnmapRemoves ==
  ASSUME MemInv, NEW page \in Pages, UnmapAndFree(page)
  PROVE  Mapped' = Mapped \ {page} /\ (page \in Mapped => FreeFrames' # {})
  <1>1. CASE ~IsMapped(page)
    BY <1>1 DEF UnmapAndFree, Mapped, IsMapped
  <1>2. CASE IsMapped(page)
    <2>1. /\ DeallocateFrame(pt[page]) /\ pt' = [pt EXCEPT ![page] = Unmapped]
          /\ pt[page] \in used \ Reserved /\ used \subseteq Frames
      BY <1>2 DEF UnmapAndFree, MemInv, FramesOwned
    <2>2. Mapped' = Mapped \ {page}
      BY <2>1 DEF MemInv, Mapped, IsMapped
    <2>3. pt[page] \in FreeFrames'
      BY <2>1 DEF DeallocateFrame, FreeFrames, Frames
    <2> QED
      BY <2>2, <2>3
  <1> QED
    BY <1>1, <1>2

\* A step that leaves the page table alone leaves them alone.
LEMMA SameMapped ==
  ASSUME pt' = pt
  PROVE  Mapped' = Mapped
  BY DEF Mapped, IsMapped

-----------------------------------------------------------------------------
(* Pages of the break. *)

\* A page that starts below an address is at most the page of the last address
\* before it.
LEMMA StartsBelow ==
  ASSUME NEW page \in Nat, NEW addr \in Nat, page * PageSize < addr
  PROVE  page <= PageOf(addr - 1)
  <1>1. /\ PageOf(addr - 1) \in Nat
        /\ addr - 1 < PageSize * PageOf(addr - 1) + PageSize
    <2>1. page * PageSize \in Nat
      OBVIOUS
    <2>2. addr - 1 \in Nat
      BY <2>1
    <2> QED
      BY <2>2, PageBounds
  <1>2. PageSize * page < PageSize * (PageOf(addr - 1) + 1)
    BY <1>1
  <1>3. page < PageOf(addr - 1) + 1
    BY <1>1, <1>2
  <1> QED
    BY <1>1, <1>3

\* A page below the page of an address starts below that address.
LEMMA BelowStarts ==
  ASSUME NEW page \in Nat, NEW addr \in Nat, page < PageOf(addr)
  PROVE  page * PageSize < addr
  <1>1. PageOf(addr) \in Nat /\ PageSize * PageOf(addr) <= addr
    BY PageBounds
  <1>2. PageSize * page < PageSize * PageOf(addr)
    BY <1>1
  <1> QED
    BY <1>1, <1>2

\* A page that starts below an address is below the address rounded up.
LEMMA StartsBelowUp ==
  ASSUME NEW page \in Nat, NEW addr \in Nat, page * PageSize < addr
  PROVE  page < PageOf(AlignUp(addr))
  <1> DEFINE top == addr + PageSize - 1
             lo  == page + 1
             hi  == top + 1
  <1>1. /\ top \in Nat /\ lo \in Nat /\ hi \in Nat
        /\ lo * PageSize <= top /\ top < hi * PageSize
    <2>1. lo * PageSize = page * PageSize + PageSize
      OBVIOUS
    <2>2. page * PageSize \in Nat
      OBVIOUS
    <2>3. hi * PageSize >= hi
      OBVIOUS
    <2> QED
      BY <2>1, <2>2, <2>3
  <1>2. PageOf(AlignUp(addr)) = PageOf(top)
    BY PageOfAlignUp
  <1>3. PageOf(top) \in Nat /\ PageOf(top) >= lo
    <2> HIDE DEF top, lo, hi
    <2>1. PageOf(top) \in lo .. (hi - 1)
      BY <1>1, PageBetween
    <2> QED
      BY <1>1, <2>1
  <1> QED
    BY <1>1, <1>2, <1>3

-----------------------------------------------------------------------------

\* Boot maps stack and image; there is no heap and no area yet.
LEMMA InitOne ==
  ASSUME Init
  PROVE  OneInv
  <1>1. /\ {StackPage, TextPage, FirstImagePage} \subseteq BootPages
        /\ BootPages \subseteq Pages
    BY Layout, SpaceAssumption DEF BootPages, ImagePages, FirstImagePage, TextPage
  <1>2. BootPages \subseteq Mapped
    BY <1>1 DEF Init, Mapped, IsMapped
  <1>3. HeapInv
    <2> SUFFICES ASSUME NEW page \in Pages, FirstBrkPage <= page,
                        page * PageSize < BrkBase
                 PROVE  FALSE
      BY DEF Init, HeapInv
    <2>1. page \in Int /\ FirstBrkPage \in Nat
      BY Layout DEF Pages, FirstBrkPage
    <2>2. FirstBrkPage * PageSize <= page * PageSize
      BY <2>1
    <2> QED
      BY <2>1, <2>2 DEF BrkBase
  <1>4. MyAreas = {}
    BY DEF Init, MyAreas
  <1>5. op.kind = "idle" /\ ~Reloading /\ lastLoad = "ok"
    BY DEF Init, Idle, Reloading
  <1>6. ImageInv
    BY <1>1, <1>2, <1>5 DEF ImageInv
  <1> QED
    BY <1>3, <1>4, <1>5, <1>6 DEF OneInv, AreaInv, LoopInv

\* Outside execve's loops the image stays as it is.
LEMMA ImageKept ==
  ASSUME OneInv, ~Reloading, ~Reloading', lastLoad' = lastLoad,
         Mapped \cap {StackPage, FirstImagePage} \subseteq Mapped',
         TextPage \in Mapped' <=> TextPage \in Mapped
  PROVE  ImageInv'
  BY DEF OneInv, ImageInv, FirstImagePage, TextPage, StackPage

\* A step that ends a call, or makes none, with the mapped pages, the break and
\* the areas as they are.
LEMMA QuietKeeps ==
  ASSUME OneInv, ~Reloading, Mapped \subseteq Mapped',
         TextPage \in Mapped' => TextPage \in Mapped, op.kind # "shrink",
         op'.kind = "idle", brkEnd' = brkEnd, vmAreas' = vmAreas,
         lastLoad' = lastLoad
  PROVE  OneInv'
  <1>1. HeapInv'
    BY DEF OneInv, HeapInv
  <1>2. AreaInv'
    BY DEF OneInv, AreaInv, MyAreas
  <1>3. ImageInv'
    BY ImageKept DEF Reloading
  <1>4. LoopInv'
    BY DEF LoopInv
  <1> QED
    BY <1>1, <1>2, <1>3, <1>4 DEF OneInv

\* A step that starts a call with the memory as it is.
LEMMA StartKeeps ==
  ASSUME OneInv, op = Idle, Mapped' = Mapped, brkEnd' = brkEnd,
         MyAreas' \subseteq MyAreas, lastLoad' = lastLoad, ~Reloading', LoopInv'
  PROVE  OneInv'
  <1>1. op.kind = "idle" /\ ~Reloading
    BY DEF Idle, Reloading
  <1>2. HeapInv'
    BY <1>1 DEF OneInv, HeapInv
  <1>3. AreaInv'
    BY DEF OneInv, AreaInv
  <1>4. ImageInv'
    BY <1>1, ImageKept
  <1> QED
    BY <1>2, <1>3, <1>4 DEF OneInv

\* sys_brk's loops start inside the window of the break.
LEMMA BrkStarts ==
  ASSUME Inv, OneInv, Alone, NEW p \in Procs, NEW addr \in BrkBase .. BrkLimit,
         SysBrkGrow(p, addr) \/ SysBrkShrink(p, addr)
  PROVE  OneInv'
  <1>1. /\ p = FirstProc /\ op = Idle /\ brkEnd' = brkEnd /\ Mapped' = Mapped
        /\ MyAreas' = MyAreas /\ lastLoad' = lastLoad
    BY SameMapped DEF Alone, SysBrkGrow, SysBrkShrink, procVars, MyAreas
  <1>2. /\ addr \in Nat /\ brkEnd[p] \in Nat /\ BrkBase <= addr
        /\ BrkBase <= brkEnd[p] /\ brkEnd[p] <= BrkLimit /\ addr <= BrkLimit
        /\ FirstBrkPage \in Nat /\ FirstMmapPage \in Nat
    BY Layout DEF Inv, WindowInv, FirstBrkPage
  <1>3. \A a \in Nat : BrkBase <= a /\ a < BrkLimit =>
          PageOf(a) \in FirstBrkPage .. (FirstMmapPage - 1)
    BY <1>2, PageBetween DEF BrkBase, BrkLimit
  <1>4. CASE SysBrkGrow(p, addr)
    <2>1. op' = Loop("grow", p, PageOf(brkEnd[p]), PageOf(addr - 1), addr)
          /\ addr > brkEnd[p]
      BY <1>4 DEF SysBrkGrow
    <2>2. /\ PageOf(brkEnd[p]) \in FirstBrkPage .. (FirstMmapPage - 1)
          /\ PageOf(addr - 1) \in FirstBrkPage .. (FirstMmapPage - 1)
      BY <1>2, <1>3, <2>1, Layout
    <2>3. LoopInv' /\ ~Reloading'
      <3>1. /\ op'.kind = "grow" /\ op'.first = PageOf(brkEnd[p])
            /\ op'.page = op'.first /\ op'.last = PageOf(addr - 1) /\ op'.goal = addr
        BY <2>1 DEF Loop
      <3>2. Done' = {}
        BY <2>2, <3>1 DEF Done
      <3>3. GrowLoop'
        BY <1>1, <1>2, <2>2, <3>1, <3>2 DEF GrowLoop
      <3> QED
        BY <3>1, <3>3 DEF LoopInv, Reloading
    <2> QED
      BY <1>1, <2>3, StartKeeps
  <1>5. CASE SysBrkShrink(p, addr)
    <2>1. op' = Loop("shrink", p, PageOf(AlignUp(addr)), PageOf(brkEnd[p] - 1), addr)
          /\ addr < brkEnd[p]
      BY <1>5 DEF SysBrkShrink
    <2>2. PageOf(brkEnd[p] - 1) \in FirstBrkPage .. (FirstMmapPage - 1)
      BY <1>2, <1>3, <2>1, Layout
    <2>3. PageOf(AlignUp(addr)) \in Nat /\ FirstBrkPage <= PageOf(AlignUp(addr))
      <3> DEFINE top == addr + PageSize - 1
                 hi  == FirstMmapPage + 1
      <3>1. /\ top \in Nat /\ hi \in Nat
            /\ FirstBrkPage * PageSize <= top /\ top < hi * PageSize
        BY <1>2 DEF BrkBase, BrkLimit
      <3>2. PageOf(AlignUp(addr)) = PageOf(top)
        BY <1>2, PageOfAlignUp
      <3> HIDE DEF top, hi
      <3>3. PageOf(top) \in FirstBrkPage .. (hi - 1)
        BY <1>2, <3>1, PageBetween
      <3> QED
        BY <1>2, <3>1, <3>2, <3>3
    <2>4. LoopInv' /\ ~Reloading'
      <3>1. /\ op'.kind = "shrink" /\ op'.first = PageOf(AlignUp(addr))
            /\ op'.page = op'.first /\ op'.last = PageOf(brkEnd[p] - 1)
            /\ op'.goal = addr
        BY <2>1 DEF Loop
      <3>2. ShrinkLoop'
        BY <1>1, <1>2, <2>1, <2>2, <2>3, <3>1 DEF ShrinkLoop
      <3> QED
        BY <3>1, <3>2 DEF LoopInv, Reloading
    <2> QED
      BY <1>1, <2>4, StartKeeps
  <1> QED
    BY <1>4, <1>5

\* mmap starts with nothing done; munmap has taken its area off the list, and
\* that area overlaps none that is left.
LEMMA AreaStarts ==
  ASSUME Inv, OneInv, Alone, NEW p \in Procs,
         \/ \E n \in 1 .. MmapPages : SysMmapAnywhere(p, n)
         \/ \E a \in Areas : SysMmapAt(p, a.start, a.pages) \/ SysMunmap(p, a)
  PROVE  OneInv'
  <1>1. /\ p = FirstProc /\ op = Idle /\ brkEnd' = brkEnd /\ Mapped' = Mapped
        /\ lastLoad' = lastLoad
    BY SameMapped DEF Alone, SysMmapAnywhere, SysMmapAt, SysMunmap, procVars
  <1>2. op.kind = "idle" /\ ~Reloading
    BY <1>1 DEF Idle, Reloading
  <1>3. ASSUME NEW start \in Nat, NEW n \in Nat, FirstMmapPage <= start,
               op' = Loop("mmap", p, start, start + n - 1, n), vmAreas' = vmAreas
        PROVE  OneInv'
    <2>1. /\ op'.kind = "mmap" /\ op'.first = start /\ op'.page = start
          /\ op'.last = start + n - 1 /\ op'.goal = n
      BY <1>3 DEF Loop
    <2>2. LoopInv' /\ ~Reloading'
      <3>1. Done' = {}
        BY <2>1 DEF Done
      <3>2. MmapLoop'
        BY <1>3, <2>1, <3>1 DEF MmapLoop
      <3> QED
        BY <2>1, <3>2 DEF LoopInv, Reloading
    <2> QED
      BY <1>1, <1>3, <2>2, StartKeeps DEF MyAreas
  <1>4. ASSUME NEW n \in 1 .. MmapPages, SysMmapAnywhere(p, n)
        PROVE  OneInv'
    <2>1. nextMmap \in Nat /\ FirstMmapPage <= nextMmap /\ n \in Nat
      BY Layout DEF Inv, WindowInv
    <2>2. vmAreas' = vmAreas
      BY <1>4 DEF SysMmapAnywhere, procVars
    <2>3. CASE op' = Idle
      BY <1>1, <1>2, <2>2, <2>3, QuietKeeps DEF Idle
    <2>4. CASE op' = Loop("mmap", p, nextMmap, nextMmap + n - 1, n)
      BY <1>3, <2>1, <2>2, <2>4
    <2> QED
      BY <1>4, <2>3, <2>4 DEF SysMmapAnywhere
  <1>5. ASSUME NEW a \in Areas, SysMmapAt(p, a.start, a.pages)
        PROVE  OneInv'
    <2>1. a.start \in Nat /\ a.pages \in Nat /\ FirstMmapPage <= a.start
      BY Layout DEF Areas
    <2>2. /\ vmAreas' = vmAreas
          /\ op' = Loop("mmap", p, a.start, a.start + a.pages - 1, a.pages)
      BY <1>5 DEF SysMmapAt, procVars
    <2> QED
      BY <1>3, <2>1, <2>2
  <1>6. ASSUME NEW a \in Areas, SysMunmap(p, a)
        PROVE  OneInv'
    <2>1. a.start \in Nat /\ a.pages \in Nat /\ FirstMmapPage <= a.start
      BY Layout DEF Areas
    <2>2. /\ a \in MyAreas /\ MyAreas' = MyAreas \ {a} /\ MyAreas \subseteq Areas
          /\ op' = Loop("munmap", p, a.start, a.start + a.pages - 1, a.pages)
      BY <1>1, <1>6 DEF SysMunmap, MyAreas, Inv, WindowInv
    <2>3. \A b \in MyAreas' : Span(a) \cap Span(b) = {}
      <3> SUFFICES ASSUME NEW b \in MyAreas, b # a, NEW q \in Span(a), q \in Span(b)
                   PROVE  FALSE
        BY <2>2
      <3>1. b.start \in Nat /\ b.pages \in Nat
        BY <2>2, Layout DEF Areas
      <3>2. a.start + a.pages <= b.start \/ b.start + b.pages <= a.start
        BY <2>2 DEF OneInv, AreaInv
      <3> QED
        BY <2>1, <3>1, <3>2 DEF Span
    <2>4. LoopInv' /\ ~Reloading'
      <3>1. /\ op'.kind = "munmap" /\ op'.first = a.start /\ op'.page = a.start
            /\ op'.last = a.start + a.pages - 1
        BY <2>2 DEF Loop
      <3>2. op'.first .. op'.last = Span(a)
        BY <3>1 DEF Span
      <3>3. MunmapLoop'
        BY <2>1, <2>3, <3>1, <3>2 DEF MunmapLoop
      <3> QED
        BY <3>1, <3>3 DEF LoopInv, Reloading
    <2> QED
      BY <1>1, <2>2, <2>4, StartKeeps
  <1> QED
    BY <1>4, <1>5, <1>6

-----------------------------------------------------------------------------

\* The loop's fields have their types, and its next page is the only change.
LEMMA AdvanceFacts ==
  ASSUME Inv, op.kind # "idle", Advance
  PROVE  /\ op.page \in Int /\ op.first \in Int /\ op.last \in Int
         /\ op.goal \in Nat
         /\ op'.kind = op.kind /\ op'.first = op.first /\ op'.last = op.last
         /\ op'.goal = op.goal /\ op'.page = op.page + 1
         /\ Done' \subseteq Done \cup {op.page}
  <1>1. /\ op.page \in Int /\ op.first \in Int /\ op.last \in Int
        /\ op.goal \in Nat
        /\ op'.kind = op.kind /\ op'.first = op.first /\ op'.last = op.last
        /\ op'.goal = op.goal /\ op'.page = op.page + 1
    BY Layout DEF Inv, WindowInv, Ops, Idle, Advance, Pages
  <1> QED
    BY <1>1 DEF Done

\* A page of an area of the process is in the mmap window.
LEMMA SpanWindow ==
  ASSUME Inv, NEW a \in MyAreas, NEW page \in Span(a)
  PROVE  page \in Pages /\ FirstMmapPage <= page
  <1>1. a \in Areas /\ a.start + a.pages <= EndMmapPage
    BY DEF Inv, WindowInv, MyAreas
  <1>2. a.start \in Nat /\ FirstMmapPage <= a.start /\ a.pages \in Nat
    BY <1>1, Layout DEF Areas
  <1> QED
    BY <1>1, <1>2, Layout DEF Span, Pages

\* A page of the break is below the mmap window.
LEMMA HeapWindow ==
  ASSUME Inv, NEW page \in Pages, page * PageSize < brkEnd[FirstProc]
  PROVE  page < FirstMmapPage
  <1>1. brkEnd[FirstProc] \in Nat /\ brkEnd[FirstProc] <= BrkLimit
    BY Layout DEF Inv, WindowInv
  <1>2. page \in Int /\ FirstMmapPage \in Nat
    BY Layout DEF Pages
  <1>3. page * PageSize < FirstMmapPage * PageSize
    BY <1>1, <1>2 DEF BrkLimit
  <1> QED
    BY <1>2, <1>3

\* map_brk_grow and map_user_anon_pages go on after a page that is now mapped;
\* for the latter the page was in no area, for it was not mapped.
LEMMA MapStepKeeps ==
  ASSUME Inv, OneInv, op.kind \in {"grow", "mmap"}, op.page <= op.last,
         Mapped' = Mapped \cup {op.page}, Advance,
         op.kind = "mmap" => op.page \notin Mapped,
         brkEnd' = brkEnd, vmAreas' = vmAreas, lastLoad' = lastLoad
  PROVE  OneInv'
  <1>1. /\ op.page \in Int /\ op.first \in Int /\ op.last \in Int
        /\ op'.kind = op.kind /\ op'.first = op.first /\ op'.last = op.last
        /\ op'.goal = op.goal /\ op'.page = op.page + 1
        /\ Done' \subseteq Done \cup {op.page}
    BY AdvanceFacts
  <1>2. MyAreas' = MyAreas
    BY DEF MyAreas
  <1>3. HeapInv' /\ AreaInv'
    <2>1. HeapInv'
      BY <1>1 DEF OneInv, HeapInv
    <2>2. AreaInv'
      BY <1>2 DEF OneInv, AreaInv
    <2> QED
      BY <2>1, <2>2
  <1>4. ImageInv'
    <2>1. GrowLoop \/ MmapLoop
      BY DEF OneInv, LoopInv
    <2>2. FirstBrkPage <= op.page
      BY <1>1, <2>1, Layout DEF GrowLoop, MmapLoop, FirstBrkPage
    <2>3. TextPage # op.page
      BY <1>1, <2>2 DEF TextPage, FirstBrkPage
    <2> QED
      BY <1>1, <2>3, ImageKept DEF Reloading
  <1>5. CASE op.kind = "grow"
    <2>1. GrowLoop
      BY <1>5 DEF OneInv, LoopInv
    <2>2. FirstBrkPage \in Nat
      BY DEF FirstBrkPage
    <2>3. FirstBrkPage <= op'.page
      BY <1>1, <2>1, <2>2 DEF GrowLoop
    <2>4. Done' \subseteq Mapped'
      BY <1>1, <2>1 DEF GrowLoop
    <2>5. GrowLoop'
      BY <1>1, <2>1, <2>3, <2>4 DEF GrowLoop
    <2>6. LoopInv'
      BY <1>1, <1>5, <2>5 DEF LoopInv
    <2> QED
      BY <1>3, <1>4, <2>6 DEF OneInv
  <1>6. CASE op.kind = "mmap"
    <2>1. MmapLoop /\ FirstMmapPage \in Nat
      BY <1>6, Layout DEF OneInv, LoopInv
    <2>2. \A a \in MyAreas : op.page \notin Span(a)
      BY <1>6 DEF OneInv, AreaInv
    <2>3. \A a \in MyAreas' : Done' \cap Span(a) = {}
      BY <1>1, <1>2, <2>1, <2>2 DEF MmapLoop
    <2>4. FirstMmapPage <= op'.page
      BY <1>1, <2>1 DEF MmapLoop
    <2>5. Done' \subseteq Mapped'
      BY <1>1, <2>1 DEF MmapLoop
    <2>6. MmapLoop'
      BY <1>1, <2>1, <2>3, <2>4, <2>5 DEF MmapLoop
    <2>7. LoopInv'
      BY <1>1, <1>6, <2>6 DEF LoopInv
    <2> QED
      BY <1>3, <1>4, <2>7 DEF OneInv
  <1> QED
    BY <1>5, <1>6

\* map_brk_shrink and munmap unmap no page that is accepted: the pages of a
\* shrinking break are above the new one, those of munmap in no area.
LEMMA UnmapStepKeeps ==
  ASSUME Inv, OneInv, op.kind \in {"shrink", "munmap"}, op.page <= op.last,
         Mapped' = Mapped \ {op.page}, Advance,
         brkEnd' = brkEnd, vmAreas' = vmAreas, lastLoad' = lastLoad
  PROVE  OneInv'
  <1>1. /\ op.page \in Int /\ op.first \in Int /\ op.last \in Int
        /\ op'.kind = op.kind /\ op'.first = op.first /\ op'.last = op.last
        /\ op'.goal = op.goal /\ op'.page = op.page + 1
    BY AdvanceFacts
  <1>2. MyAreas' = MyAreas
    BY DEF MyAreas
  <1>3. /\ op.kind = "shrink" => ShrinkLoop
        /\ op.kind = "munmap" => MunmapLoop
        /\ FirstBrkPage \in Nat /\ FirstMmapPage \in Nat
        /\ FirstBrkPage <= FirstMmapPage
    BY Layout DEF OneInv, LoopInv, FirstBrkPage
  <1>4. ImageInv'
    <2>1. FirstBrkPage <= op.page
      BY <1>1, <1>3 DEF ShrinkLoop, MunmapLoop
    <2>2. op.page \notin {StackPage, TextPage, FirstImagePage}
      BY <1>1, <2>1, SpaceAssumption
         DEF StackPage, TextPage, FirstImagePage, FirstBrkPage
    <2> QED
      BY <1>1, <2>2, ImageKept DEF Reloading
  <1>5. LoopInv'
    <2>1. op.kind = "shrink" => ShrinkLoop'
      BY <1>1, <1>3 DEF ShrinkLoop
    <2>2. ASSUME op.kind = "munmap" PROVE MunmapLoop'
      <3>1. /\ FirstMmapPage <= op.first /\ op.first <= op.page
            /\ \A a \in MyAreas : (op.first .. op.last) \cap Span(a) = {}
        BY <1>3, <2>2 DEF MunmapLoop
      <3>2. op'.first <= op'.page
        BY <1>1, <3>1
      <3>3. \A a : Span(a)' = Span(a)
        BY DEF Span
      <3> QED
        BY <1>1, <1>2, <3>1, <3>2, <3>3 DEF MunmapLoop
    <2> QED
      BY <1>1, <2>1, <2>2 DEF LoopInv
  <1>6. HeapInv'
    <2> SUFFICES ASSUME NEW page \in Pages, FirstBrkPage <= page,
                        page * PageSize < brkEnd[FirstProc],
                        op.kind = "shrink" => page < op.first
                 PROVE  page \in Mapped'
      BY <1>1 DEF HeapInv
    <2>1. page \in Mapped
      BY DEF OneInv, HeapInv
    <2>2. page \in Int /\ page < FirstMmapPage
      BY HeapWindow, Layout DEF Pages
    <2>3. page # op.page
      BY <1>1, <1>3, <2>2 DEF ShrinkLoop, MunmapLoop
    <2> QED
      BY <2>1, <2>3
  <1>7. \A a \in MyAreas : op.page \notin Span(a)
    <2>1. CASE op.kind = "shrink"
      <3>1. op.page < FirstMmapPage
        BY <1>1, <1>3, <2>1 DEF ShrinkLoop
      <3>2. \A a \in MyAreas : \A page \in Span(a) : ~(page < FirstMmapPage)
        <4> SUFFICES ASSUME NEW a \in MyAreas, NEW page \in Span(a)
                     PROVE  ~(page < FirstMmapPage)
          OBVIOUS
        <4>1. page \in Pages /\ FirstMmapPage <= page
          BY SpanWindow
        <4>2. page \in Int
          BY <4>1, Layout DEF Pages
        <4> QED
          BY <1>3, <4>1, <4>2
      <3> QED
        BY <3>1, <3>2
    <2>2. CASE op.kind = "munmap"
      <3>1. op.page \in op.first .. op.last
        <4>1. op.first <= op.page
          BY <1>3, <2>2 DEF MunmapLoop
        <4>2. /\ op.page \in Int /\ op.first \in Int /\ op.last \in Int
              /\ op.page <= op.last
          BY <1>1
        <4> QED
          BY <4>1, <4>2
      <3> QED
        BY <1>3, <2>2, <3>1 DEF MunmapLoop
    <2> QED
      BY <2>1, <2>2
  <1>8. AreaInv'
    BY <1>2, <1>7 DEF OneInv, AreaInv
  <1> QED
    BY <1>4, <1>5, <1>6, <1>8 DEF OneInv

\* When the break is stored, every page below it has been mapped or was never
\* unmapped.
LEMMA BrkDoneKeeps ==
  ASSUME Inv, OneInv, Alone, BrkDone
  PROVE  OneInv'
  <1>1. /\ op.kind \in {"grow", "shrink"} /\ op.page > op.last
        /\ op'.kind = "idle" /\ Mapped' = Mapped /\ MyAreas' = MyAreas
        /\ lastLoad' = lastLoad
    BY SameMapped DEF BrkDone, MyAreas, Idle
  <1>2. /\ op.page \in Int /\ op.first \in Int /\ op.last \in Int
        /\ op.goal \in Nat /\ op.proc = FirstProc
    BY <1>1, OpFields DEF Alone
  <1>3. brkEnd'[FirstProc] = op.goal /\ brkEnd[FirstProc] \in Nat
    BY <1>2, Layout DEF BrkDone, Inv, WindowInv
  <1>4. HeapInv'
    <2> SUFFICES ASSUME NEW page \in Pages, FirstBrkPage <= page,
                        page * PageSize < op.goal
                 PROVE  page \in Mapped
      BY <1>1, <1>3 DEF HeapInv
    <2>1. page \in Nat
      BY DEF Pages, FirstBrkPage
    <2>2. CASE op.kind = "grow"
      <3>0. GrowLoop
        BY <2>2 DEF OneInv, LoopInv
      <3>1. page <= op.last
        BY <1>2, <2>1, <3>0, StartsBelow DEF GrowLoop
      <3>2. CASE op.first <= page
        BY <1>1, <1>2, <2>1, <3>0, <3>1, <3>2 DEF GrowLoop, Done
      <3>3. CASE page < op.first
        <4>1. page * PageSize < brkEnd[FirstProc]
          BY <1>3, <2>1, <3>0, <3>3, BelowStarts DEF GrowLoop
        <4> QED
          BY <2>2, <4>1 DEF OneInv, HeapInv
      <3> QED
        BY <1>2, <2>1, <3>2, <3>3
    <2>3. CASE op.kind = "shrink"
      <3>0. ShrinkLoop
        BY <2>3 DEF OneInv, LoopInv
      <3>1. page < op.first
        BY <1>2, <2>1, <3>0, StartsBelowUp DEF ShrinkLoop
      <3>2. page * PageSize < brkEnd[FirstProc]
        <4>1. op.goal < brkEnd[FirstProc]
          BY <3>0 DEF ShrinkLoop
        <4> QED
          BY <1>2, <1>3, <2>1, <4>1
      <3> QED
        BY <3>1, <3>2 DEF OneInv, HeapInv
    <2> QED
      BY <1>1, <2>2, <2>3
  <1>5. AreaInv'
    BY <1>1 DEF OneInv, AreaInv
  <1>6. ImageInv' /\ LoopInv'
    BY <1>1, ImageKept DEF Reloading, LoopInv
  <1> QED
    BY <1>4, <1>5, <1>6 DEF OneInv

\* When mmap records its area, every page of it was mapped by the call, hence in
\* no other area.
LEMMA MmapDoneKeeps ==
  ASSUME Inv, OneInv, Alone, MmapDone
  PROVE  OneInv'
  <1>1. /\ op.kind = "mmap" /\ op.page > op.last
        /\ op'.kind = "idle" /\ Mapped' = Mapped /\ brkEnd' = brkEnd
        /\ lastLoad' = lastLoad
    BY SameMapped DEF MmapDone, Idle
  <1>2. /\ op.page \in Int /\ op.first \in Int /\ op.last \in Int
        /\ op.goal \in Nat /\ op.goal >= 1 /\ op.proc = FirstProc
    <2>1. [start |-> op.first, pages |-> op.goal] \in Areas
      BY <1>1 DEF Inv, WindowInv, GoalOK
    <2>2. op.goal \in Nat /\ op.goal >= 1
      BY <2>1 DEF Areas
    <2> QED
      BY <1>1, <2>2, OpFields DEF Alone
  <1> DEFINE new == [start |-> op.first, pages |-> op.goal]
  <1>3. MyAreas' = MyAreas \cup {new} /\ MyAreas \subseteq Areas
    BY <1>2 DEF MmapDone, MyAreas, Inv, WindowInv
  <1>4. new.start = op.first /\ new.pages = op.goal
    OBVIOUS
  <1> HIDE DEF new
  <1>5. MmapLoop /\ op.last = op.first + op.goal - 1
    BY <1>1 DEF OneInv, LoopInv, MmapLoop
  <1>6. Span(new) \subseteq Done
    BY <1>1, <1>2, <1>4, <1>5 DEF Span, Done
  <1>7. Span(new) \subseteq Mapped /\ \A a \in MyAreas : Span(new) \cap Span(a) = {}
    BY <1>5, <1>6 DEF MmapLoop
  <1>8. \A a \in MyAreas : \/ a.start + a.pages <= new.start
                           \/ new.start + new.pages <= a.start
    <2> TAKE a \in MyAreas
    <2>1. a.start \in Nat /\ a.pages \in Nat /\ a.pages >= 1
      BY <1>3, Layout DEF Areas
    <2>2. CASE a.start <= new.start /\ new.start < a.start + a.pages
      <3>1. new.start \in Span(new) /\ new.start \in Span(a)
        BY <1>2, <1>4, <2>1, <2>2 DEF Span
      <3> QED
        BY <1>7, <3>1
    <2>3. CASE new.start <= a.start /\ a.start < new.start + new.pages
      <3>1. a.start \in Span(new) /\ a.start \in Span(a)
        BY <1>2, <1>4, <2>1, <2>3 DEF Span
      <3> QED
        BY <1>7, <3>1
    <2> QED
      BY <1>2, <1>4, <2>1, <2>2, <2>3
  <1>9. AreaInv'
    <2>1. \A a \in MyAreas' : Span(a) \subseteq Mapped'
      BY <1>1, <1>3, <1>7 DEF OneInv, AreaInv
    <2>2. \A a, b \in MyAreas' :
            a # b => a.start + a.pages <= b.start \/ b.start + b.pages <= a.start
      BY <1>3, <1>8 DEF OneInv, AreaInv
    <2> QED
      BY <2>1, <2>2 DEF AreaInv
  <1>10. HeapInv'
    BY <1>1 DEF OneInv, HeapInv
  <1>11. ImageInv' /\ LoopInv'
    BY <1>1, ImageKept DEF Reloading, LoopInv
  <1> QED
    BY <1>9, <1>10, <1>11 DEF OneInv

\* execve unloads the text page, which frees a frame if it was mapped.  Loading
\* maps it again, or fails at the header page, which is still mapped.
LEMMA ReloadKeeps ==
  ASSUME Inv, OneInv, UnloadPage \/ LoadPage
  PROVE  OneInv'
  <1>1. /\ op.kind \in {"unload", "load"} /\ op.last = 0
        /\ op.kind = "unload" => op.page \in {0, 1}
        /\ op.kind = "load" => LoadLoop
        /\ brkEnd' = brkEnd /\ vmAreas' = vmAreas /\ MyAreas' = MyAreas
    <2>1. /\ op.kind \in {"unload", "load"}
          /\ brkEnd' = brkEnd /\ vmAreas' = vmAreas
      BY DEF UnloadPage, LoadPage, procVars
    <2>2. (op.kind = "unload" /\ UnloadLoop) \/ (op.kind = "load" /\ LoadLoop)
      BY <2>1 DEF OneInv, LoopInv
    <2> QED
      BY <2>1, <2>2 DEF UnloadLoop, LoadLoop, MyAreas
  <1>2. /\ TextPage \in Pages /\ TextPage = 0 /\ StackPage = 1
        /\ FirstImagePage = 0 - HeaderPages /\ FirstImagePage \in Pages
        /\ HeaderPages \in {0, 1}
    BY Layout, SpaceAssumption DEF TextPage, StackPage, FirstImagePage
  <1>3. ASSUME Mapped \ {TextPage} \subseteq Mapped', op'.kind # "shrink"
        PROVE  /\ HeapInv' /\ AreaInv' /\ StackPage \in Mapped'
               /\ HeaderPages = 1 => FirstImagePage \in Mapped'
    <2>1. op.kind # "shrink"
      BY <1>1
    <2>2. HeapInv'
      BY <1>1, <1>2, <1>3, <2>1 DEF OneInv, HeapInv, FirstBrkPage
    <2>3. \A a \in MyAreas : TextPage \notin Span(a)
      BY <1>2, SpanWindow, Layout DEF FirstBrkPage
    <2>4. AreaInv'
      BY <1>1, <1>3, <2>3 DEF OneInv, AreaInv
    <2>5. StackPage # TextPage /\ (HeaderPages = 1 => FirstImagePage # TextPage)
      BY <1>2
    <2> QED
      BY <1>3, <2>2, <2>4, <2>5 DEF OneInv, ImageInv
  <1>4. CASE op.kind = "unload" /\ op.page = 0
    <2>1. UnmapAndFree(TextPage) /\ Advance /\ lastLoad' = lastLoad
      BY <1>1, <1>2, <1>4 DEF UnloadPage, LoadPage
    <2>2. /\ op'.kind = "unload" /\ op'.page = 1 /\ op'.last = 0
      BY <1>1, <1>4, <2>1, AdvanceFacts
    <2>3. HeaderPages = 0 => TextPage \in Mapped
      BY <1>4 DEF OneInv, ImageInv, Reloading
    <2>4. Mapped' = Mapped \ {TextPage} /\ (HeaderPages = 0 => FreeFrames' # {})
      BY <1>2, <2>1, <2>3, UnmapRemoves DEF Inv
    <2>5. /\ HeapInv' /\ AreaInv' /\ StackPage \in Mapped'
          /\ HeaderPages = 1 => FirstImagePage \in Mapped'
      BY <1>3, <2>2, <2>4
    <2>6. ImageInv'
      BY <2>1, <2>2, <2>4, <2>5 DEF OneInv, ImageInv, Reloading
    <2>7. LoopInv'
      BY <2>2 DEF LoopInv, UnloadLoop
    <2> QED
      BY <2>5, <2>6, <2>7 DEF OneInv
  <1>5. CASE op.kind = "unload" /\ op.page = 1
    <2>1. /\ op' = Loop("load", op.proc, FirstImagePage, TextPage, 0)
          /\ UNCHANGED <<frameVars, pt>> /\ lastLoad' = lastLoad
      BY <1>1, <1>5 DEF UnloadPage, LoadPage
    <2>2. Mapped' = Mapped /\ FreeFrames' = FreeFrames
      BY <2>1, SameMapped DEF frameVars, FreeFrames
    <2>3. op'.kind = "load" /\ op'.page = FirstImagePage /\ op'.last = 0
      BY <1>2, <2>1 DEF Loop
    <2>4. Reloading /\ Reloading'
      BY <1>2, <1>5, <2>3 DEF Reloading
    <2>5. HeapInv' /\ AreaInv'
      BY <1>3, <2>2, <2>3
    <2>6. ImageInv'
      BY <2>1, <2>2, <2>4 DEF OneInv, ImageInv
    <2>7. LoopInv'
      BY <1>2, <2>3 DEF LoopInv, LoadLoop
    <2> QED
      BY <2>5, <2>6, <2>7 DEF OneInv
  <1>6. CASE op.kind = "load" /\ HeaderPages = 0 /\ op.page = 0
    <2>1. MapNewPage /\ ~IsMapped(TextPage) /\ FreeFrames # {}
      <3>1. TextPage \notin Mapped /\ FreeFrames # {}
        BY <1>6 DEF OneInv, ImageInv, Reloading
      <3>2. MapNewPage
        BY <1>1, <1>6 DEF UnloadPage, LoadPage
      <3> QED
        BY <1>2, <3>1, <3>2 DEF Mapped
    <2>2. MapFresh(TextPage) /\ Advance
      BY <1>2, <1>6, <2>1 DEF MapNewPage
    <2>3. Mapped' = Mapped \cup {TextPage}
      BY <1>2, <2>2, MapAdds DEF Inv
    <2>4. op'.kind = "load" /\ op'.page = 1 /\ op'.last = 0
      BY <1>1, <1>6, <2>2, AdvanceFacts
    <2>5. lastLoad' = "ok"
      <3>1. LoadPage
        BY <1>1, <1>6 DEF UnloadPage
      <3>2. op' # Idle
        BY <2>4 DEF Idle
      <3> QED
        BY <3>1, <3>2 DEF LoadPage
    <2>6. HeapInv' /\ AreaInv' /\ StackPage \in Mapped'
      BY <1>3, <2>3, <2>4
    <2>7. ImageInv'
      BY <1>6, <2>3, <2>4, <2>5, <2>6 DEF ImageInv, Reloading
    <2>8. LoopInv'
      BY <1>6, <2>4 DEF LoopInv, LoadLoop
    <2> QED
      BY <2>6, <2>7, <2>8 DEF OneInv
  <1>7. CASE op.kind = "load" /\ HeaderPages = 0 /\ op.page = 1
    <2>1. op'.kind = "idle" /\ Mapped' = Mapped /\ lastLoad' = "ok"
      BY <1>1, <1>7, SameMapped DEF UnloadPage, LoadPage, Idle
    <2>2. lastLoad = "ok"
      BY <1>7 DEF OneInv, ImageInv
    <2> QED
      BY <1>1, <1>7, <2>1, <2>2, QuietKeeps DEF Reloading
  <1>8. CASE op.kind = "load" /\ HeaderPages = 1 /\ op.page = FirstImagePage
    <2>1. IsMapped(op.page) /\ TextPage \notin Mapped
      BY <1>2, <1>8 DEF OneInv, ImageInv, Reloading, Mapped
    <2>2. MapNewPage /\ op.page <= op.last
      BY <1>1, <1>2, <1>8 DEF UnloadPage, LoadPage
    <2>3. op' = Idle /\ pt' = pt
      BY <2>1, <2>2 DEF MapNewPage
    <2>4. Mapped' = Mapped /\ op'.kind = "idle" /\ lastLoad' = "failed"
      BY <1>8, <2>2, <2>3, SameMapped DEF UnloadPage, LoadPage, Idle
    <2>5. HeapInv' /\ AreaInv'
      BY <1>3, <2>4
    <2>6. ImageInv'
      BY <1>8, <2>1, <2>4 DEF OneInv, ImageInv
    <2>7. LoopInv'
      BY <2>4 DEF LoopInv
    <2> QED
      BY <2>5, <2>6, <2>7 DEF OneInv
  <1> QED
    BY <1>1, <1>4, <1>5, <1>6, <1>7, <1>8 DEF LoadLoop

-----------------------------------------------------------------------------

\* Every system call and every page of its loop keeps the invariant of the one
\* process.
LEMMA StepKeepsOne ==
  ASSUME Alone, Inv, OneInv, [Next]_vars
  PROVE  OneInv'
  <1>1. ASSUME NEW p \in Procs, NEW child \in Procs, SysFork(p, child)
        PROVE  OneInv'
    BY <1>1 DEF SysFork, Alone
  <1>2. ASSUME NEW p \in Procs, SysForkFail(p)
        PROVE  OneInv'
    <2>1. /\ op.kind = "idle" /\ op' = op /\ brkEnd' = brkEnd /\ vmAreas' = vmAreas
          /\ lastLoad' = lastLoad
      BY <1>2 DEF SysForkFail, Idle, procVars
    <2>2. Mapped \subseteq Mapped' /\ (TextPage \in Mapped' => TextPage \in Mapped)
      <3>1. CASE UNCHANGED <<frameVars, pt>>
        BY <3>1, SameMapped
      <3>2. CASE MapFresh(ChildStackPage)
        BY <3>2, MapAdds, Layout DEF Inv, TextPage, ChildStackPage
      <3> QED
        BY <1>2, <3>1, <3>2 DEF SysForkFail, ForkChildStack
    <2> QED
      BY <2>1, <2>2, QuietKeeps DEF Reloading
  <1>3. ASSUME NEW p \in Procs, SysExecve(p)
        PROVE  OneInv'
    <2>1. /\ op = Idle /\ Mapped' = Mapped /\ brkEnd' = brkEnd
          /\ MyAreas' = MyAreas /\ op' = Loop("unload", p, 0, 0, 0)
          /\ lastLoad' = lastLoad
      BY <1>3, SameMapped DEF SysExecve, procVars, MyAreas, TextPage
    <2>2. op'.kind = "unload" /\ op'.page = 0 /\ op'.last = 0
      BY <2>1 DEF Loop
    <2>3. LoopInv' /\ ~Reloading'
      BY <2>2 DEF LoopInv, UnloadLoop, Reloading
    <2> QED
      BY <2>1, <2>3, StartKeeps
  <1>4. ASSUME NEW p \in Procs, SysExit(p)
        PROVE  OneInv'
    <2>1. /\ op.kind = "idle" /\ op' = op /\ Mapped' = Mapped /\ p = FirstProc
          /\ lastLoad' = lastLoad
      BY <1>4, SameMapped DEF SysExit, Idle, Alone
    <2>2. MyAreas' = {} /\ brkEnd'[FirstProc] = BrkBase
      BY <1>4, <2>1 DEF SysExit, MyAreas, Inv, WindowInv
    <2>3. HeapInv'
      <3> SUFFICES ASSUME NEW page \in Pages, FirstBrkPage <= page,
                          page * PageSize < BrkBase
                   PROVE  FALSE
        BY <2>2 DEF HeapInv
      <3>1. page \in Int /\ FirstBrkPage \in Nat
        BY Layout DEF Pages, FirstBrkPage
      <3>2. \A a, b \in Int, c \in Nat : a <= b => a * c <= b * c
        OBVIOUS
      <3>3. PageSize \in Nat /\ page * PageSize \in Int /\ FirstBrkPage * PageSize \in Int
        BY <3>1
      <3>4. FirstBrkPage * PageSize <= page * PageSize
        BY <3>1, <3>2, <3>3
      <3> QED
        BY <3>3, <3>4 DEF BrkBase
    <2>4. AreaInv'
      BY <2>2 DEF AreaInv
    <2>5. ImageInv' /\ LoopInv'
      BY <2>1, ImageKept DEF Reloading, LoopInv
    <2> QED
      BY <2>3, <2>4, <2>5 DEF OneInv
  <1>5. CASE BrkGrowPage
    <2>1. /\ op.kind = "grow" /\ op.page <= op.last /\ op.page \in Pages
          /\ brkEnd' = brkEnd /\ vmAreas' = vmAreas /\ lastLoad' = lastLoad
      BY <1>5, LoopAtPage DEF BrkGrowPage, procVars, Inv, WindowInv
    <2>2. CASE IsMapped(op.page) /\ Advance /\ UNCHANGED <<frameVars, pt>>
      <3>1. Mapped' = Mapped \cup {op.page}
        BY <2>1, <2>2, SameMapped DEF Mapped
      <3> QED
        BY <2>1, <2>2, <3>1, MapStepKeeps
    <2>3. CASE MapFresh(op.page) /\ Advance
      BY <2>1, <2>3, MapAdds, MapStepKeeps DEF Inv
    <2>4. CASE op' = Idle /\ UNCHANGED <<frameVars, pt>>
      BY <2>1, <2>4, SameMapped, QuietKeeps DEF Reloading, Idle
    <2> QED
      BY <1>5, <2>2, <2>3, <2>4 DEF BrkGrowPage
  <1>6. CASE MmapPage
    <2>1. /\ op.kind = "mmap" /\ op.page <= op.last /\ op.page \in Pages
          /\ brkEnd' = brkEnd /\ vmAreas' = vmAreas /\ lastLoad' = lastLoad
      BY <1>6, LoopAtPage DEF MmapPage, procVars, Inv, WindowInv
    <2>2. CASE ~IsMapped(op.page) /\ MapFresh(op.page) /\ Advance
      <3>1. op.page \notin Mapped
        BY <2>2 DEF Mapped
      <3> QED
        BY <2>1, <2>2, <3>1, MapAdds, MapStepKeeps DEF Inv
    <2>3. CASE op' = Idle /\ pt' = pt
      BY <2>1, <2>3, SameMapped, QuietKeeps DEF Reloading, Idle
    <2> QED
      BY <1>6, <2>2, <2>3 DEF MmapPage, MapNewPage
  <1>7. CASE BrkShrinkPage
    <2>1. /\ op.kind = "shrink" /\ op.page <= op.last /\ op.page \in Pages
          /\ UnmapAndFree(op.page) /\ Advance
          /\ brkEnd' = brkEnd /\ vmAreas' = vmAreas /\ lastLoad' = lastLoad
      BY <1>7, LoopAtPage DEF BrkShrinkPage, procVars, Inv, WindowInv
    <2> QED
      BY <2>1, UnmapRemoves, UnmapStepKeeps DEF Inv
  <1>8. CASE MunmapPage
    <2>1. /\ op.kind = "munmap" /\ brkEnd' = brkEnd /\ vmAreas' = vmAreas
          /\ lastLoad' = lastLoad
      BY <1>8 DEF MunmapPage, procVars
    <2>2. CASE op.page <= op.last /\ UnmapAndFree(op.page) /\ Advance
      <3>1. op.page \in Pages
        BY <2>1, <2>2, LoopAtPage DEF Inv, WindowInv
      <3> QED
        BY <2>1, <2>2, <3>1, UnmapRemoves, UnmapStepKeeps DEF Inv
    <2>3. CASE op' = Idle /\ UNCHANGED <<frameVars, pt>>
      BY <2>1, <2>3, SameMapped, QuietKeeps DEF Reloading, Idle
    <2> QED
      BY <1>8, <2>2, <2>3 DEF MunmapPage
  <1>9. CASE UNCHANGED vars
    <2>1. Mapped' = Mapped /\ op' = op /\ FreeFrames' = FreeFrames
          /\ brkEnd' = brkEnd /\ MyAreas' = MyAreas /\ lastLoad' = lastLoad
      BY <1>9, SameMapped DEF vars, frameVars, procVars, FreeFrames, MyAreas
    <2>2. HeapInv' /\ AreaInv'
      BY <2>1 DEF OneInv, HeapInv, AreaInv
    <2>3. ImageInv'
      BY <2>1 DEF OneInv, ImageInv, Reloading
    <2>4. LoopInv'
      BY <2>1 DEF OneInv, LoopInv, GrowLoop, ShrinkLoop, MmapLoop, MunmapLoop,
                  UnloadLoop, LoadLoop, Done
    <2> QED
      BY <2>2, <2>3, <2>4 DEF OneInv
  <1> QED
    BY <1>1, <1>2, <1>3, <1>4, <1>5, <1>6, <1>7, <1>8, <1>9, BrkStarts, AreaStarts,
       BrkDoneKeeps, MmapDoneKeeps, ReloadKeeps DEF Next

\* The inductive invariant of a process that never forks, for an image with or
\* without a header page: heap, areas, stack and header page are mapped, areas do
\* not overlap, and the text page is mapped between calls unless the last load of
\* the image failed.
THEOREM OneProcessInv ==
  ASSUME Alone
  PROVE  Spec => []OneInv
  <1>1. Init => OneInv
    BY InitOne
  <1>2. Inv /\ OneInv /\ [Next]_vars => OneInv'
    BY StepKeepsOne
  <1>3. Spec => []Inv
    BY SpaceInv
  <1> QED
    BY <1>1, <1>2, <1>3, PTL DEF Spec

\* A process that never forks has no two areas that overlap, however often it
\* maps at an address of its choice, unmaps and lets NEXT_MMAP run on.
THEOREM AreasCorrect ==
  ASSUME Alone
  PROVE  Spec => []AreasDisjoint
  <1>1. Inv /\ OneInv => AreasDisjoint
    BY DEF Alone, Inv, WindowInv, OneInv, AreaInv, MyAreas, AreasDisjoint
  <1>2. Spec => []Inv
    BY SpaceInv
  <1> QED
    BY <1>1, <1>2, OneProcessInv, PTL

\* Between two calls of a process that never forks, whether its image has a header
\* page or not, the addresses that the checks of user.rs accept are mapped:
\* stack, break and areas after calls that failed half way too, the text page
\* exactly when the last load of the image did not fail.
THEOREM AcceptedCorrect ==
  ASSUME Alone
  PROVE  Spec => []AcceptedIsMapped
  <1>1. Inv /\ OneInv => AcceptedIsMapped
    <2> SUFFICES ASSUME Inv, OneInv, op = Idle, NEW p \in live,
                        NEW addr \in 0 .. (EndMmapPage * PageSize - 1),
                        UserRegionIsReadable(p, addr)
                 PROVE  IsMapped(PageOf(addr)) <=>
                          ~(PageOf(addr) = TextPage /\ lastLoad = "failed")
      BY DEF AcceptedIsMapped
    <2>1. p = FirstProc /\ op.kind = "idle" /\ ~Reloading
      BY DEF Alone, Inv, WindowInv, Idle, Reloading
    <2>2. addr \in Nat /\ addr < EndMmapPage * PageSize
      BY Layout
    <2>3. /\ PageOf(addr) \in Nat /\ PageSize * PageOf(addr) <= addr
      BY <2>2, PageBounds
    <2>4. PageOf(addr) \in 0 .. (EndMmapPage - 1)
      BY <2>2, PageBetween, Layout
    <2>5. PageOf(addr) \in Pages
      BY <2>4, Layout DEF Pages
    <2>6. CASE PageOf(addr) \in {0, StackPage}
      <3>1. lastLoad \in {"ok", "failed"}
        BY DEF Inv, WindowInv
      <3>2. CASE PageOf(addr) = TextPage
        BY <2>1, <2>5, <3>1, <3>2 DEF OneInv, ImageInv, Mapped
      <3>3. CASE PageOf(addr) = StackPage
        BY <2>1, <2>5, <3>3 DEF OneInv, ImageInv, TextPage, StackPage, Mapped
      <3> QED
        BY <2>6, <3>2, <3>3 DEF TextPage
    <2>9. ASSUME PageOf(addr) \in Mapped, FirstBrkPage <= PageOf(addr)
          PROVE  IsMapped(PageOf(addr)) /\ PageOf(addr) # TextPage
      BY <2>3, <2>9 DEF Mapped, FirstBrkPage, TextPage
    <2>7. CASE CoversBrkHeap(p, addr)
      <3>1. /\ BrkBase <= addr /\ addr < brkEnd[FirstProc]
            /\ brkEnd[FirstProc] \in Nat
        <4>1. FirstProc \in Procs
          BY <2>1 DEF Inv, WindowInv
        <4>2. brkEnd[FirstProc] \in Nat
          BY <4>1, Layout DEF Inv, WindowInv
        <4> QED
          BY <2>1, <2>2, <2>7, <4>2 DEF CoversBrkHeap
      <3>2. FirstBrkPage <= PageOf(addr)
        <4>1. FirstBrkPage \in Nat /\ EndMmapPage \in Nat
          BY Layout DEF FirstBrkPage
        <4>2. FirstBrkPage * PageSize <= addr
          BY <3>1 DEF BrkBase
        <4>3. PageOf(addr) \in FirstBrkPage .. (EndMmapPage - 1)
          BY <2>2, <4>1, <4>2, PageBetween
        <4> QED
          BY <4>1, <4>3
      <3>3. PageOf(addr) * PageSize < brkEnd[FirstProc]
        BY <2>2, <2>3, <3>1
      <3>4. PageOf(addr) \in Mapped
        BY <2>1, <2>5, <3>2, <3>3 DEF OneInv, HeapInv
      <3> QED
        BY <2>9, <3>2, <3>4
    <2>8. CASE CoversMmapRead(p, addr)
      <3>1. PICK a \in MyAreas : /\ addr >= a.start * PageSize
                                 /\ addr + 1 <= (a.start + a.pages) * PageSize
        BY <2>1, <2>8 DEF CoversMmapRead, MyAreas
      <3>2. a.start \in Nat /\ a.pages \in Nat
        BY Layout DEF Inv, WindowInv, MyAreas, Areas
      <3> DEFINE hi == a.start + a.pages
      <3>3. /\ hi \in Nat /\ a.start * PageSize <= addr /\ addr < hi * PageSize
        BY <2>2, <3>1, <3>2
      <3>4. PageOf(addr) \in a.start .. (hi - 1)
        <4> HIDE DEF hi
        <4> QED
          BY <2>2, <3>2, <3>3, PageBetween
      <3>5. PageOf(addr) \in Span(a)
        BY <3>2, <3>4 DEF Span
      <3>6. PageOf(addr) \in Mapped
        BY <3>5 DEF OneInv, AreaInv
      <3>7. FirstBrkPage <= PageOf(addr)
        BY <2>3, <3>5, SpanWindow, Layout DEF FirstBrkPage
      <3> QED
        BY <2>9, <3>6, <3>7
    <2> QED
      BY <2>6, <2>7, <2>8 DEF UserRegionIsReadable
  <1>2. Spec => []Inv
    BY SpaceInv
  <1> QED
    BY <1>1, <1>2, OneProcessInv, PTL

\* If the image starts at USER_TEXT_BASE, execve of a process that never forks
\* always loads it again: the frame of the text page it has just freed is enough.
THEOREM ReloadSucceeds ==
  ASSUME Alone, HeaderPages = 0
  PROVE  Spec => []ReadableIsMapped
  <1>1. OneInv /\ AcceptedIsMapped => ReadableIsMapped
    BY DEF OneInv, ImageInv, AcceptedIsMapped, ReadableIsMapped
  <1> QED
    BY <1>1, OneProcessInv, AcceptedCorrect, PTL

=============================================================================
