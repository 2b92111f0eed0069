---------------------------- MODULE AddressSpace ----------------------------
(***************************************************************************)
(* The user half of the one page table all processes share, and the        *)
(* system calls that edit it: brk, mmap, munmap, fork's child stack and    *)
(* execve's reload of the image (src/process.rs, src/elf.rs,               *)
(* src/paging.rs).  Each process has its own break and its own list of     *)
(* mapped areas; the page table and the bump pointer NEXT_MMAP are global. *)
(*                                                                         *)
(* A call that maps or unmaps a range is a loop over pages; the model      *)
(* takes one step per page (op), so that what holds of the page table      *)
(* holds between any two pages.  Interrupts are masked and every call      *)
(* starts in state Idle, so calls do not interleave.                       *)
(*                                                                         *)
(* Pages are numbered from USER_TEXT_BASE, page n being 0x400000 + n pages.*)
(* A page has PageSize addresses, enough for a break inside a page.  All   *)
(* these pages share page tables that boot has allocated, so map_to takes  *)
(* no frame for a table and fails only on a page that is mapped already.   *)
(***************************************************************************)
EXTENDS FrameAllocator

CONSTANTS
  Procs,      \* processes, by slot
  FirstProc,  \* init
  PageSize,   \* Size4KiB::SIZE
  BrkPages,   \* pages between USER_BRK_BASE and USER_BRK_LIMIT
  MmapPages,  \* pages between USER_MMAP_BASE and USER_MMAP_LIMIT
  HeaderPages, \* pages of init.elf's PT_LOAD segment below USER_TEXT_BASE
  Unmapped    \* no translation

\* The segment ends in the text page; it starts there, or in a header page just
\* below USER_TEXT_BASE as in the committed assets/init.elf.
TextPage       == 0
FirstImagePage == TextPage - HeaderPages
ImagePages     == FirstImagePage .. TextPage
StackPage      == 1
ChildStackPage == 2
FirstBrkPage   == 4
FirstMmapPage  == FirstBrkPage + BrkPages
EndMmapPage    == FirstMmapPage + MmapPages
Pages          == -1 .. (EndMmapPage - 1)

BrkBase  == FirstBrkPage * PageSize
BrkLimit == FirstMmapPage * PageSize

ASSUME SpaceAssumption ==
  /\ FirstProc \in Procs
  /\ PageSize \in Nat \ {0}
  /\ BrkPages \in Nat /\ MmapPages \in Nat \ {0}
  /\ HeaderPages \in {0, 1}
  /\ Unmapped \notin Frames
  /\ Cardinality(Frames \ Reserved) >= 3

VARIABLES
  pt,         \* the page table: a frame or Unmapped for every user page
  live,       \* processes that can make system calls
  brkEnd,     \* Process::brk_end
  vmAreas,    \* Process::vm_areas, as start page and number of pages
  nextMmap,   \* NEXT_MMAP as a page, capped at the end of the window
  op,         \* the page loop in progress
  lastLoad    \* history: "failed" if the last load of the image failed, or "ok"

procVars == <<live, brkEnd, vmAreas>>
vars == <<frameVars, pt, procVars, nextMmap, op, lastLoad>>

Idle == [kind |-> "idle"]

Loop(kind, p, first, last, goal) ==
  [kind |-> kind, proc |-> p, first |-> first, page |-> first, last |-> last,
   goal |-> goal]

Areas == [start : FirstMmapPage .. (EndMmapPage - 1), pages : 1 .. MmapPages]

PageOf(addr)  == addr \div PageSize
AlignUp(addr) == ((addr + PageSize - 1) \div PageSize) * PageSize

IsMapped(page) == pt[page] # Unmapped

MappedFrames == {pt[page] : page \in {q \in Pages : pt[q] # Unmapped}}

BootPages == {StackPage} \cup ImagePages

\* kernel_main maps the stack and then the image, page by page, to the lowest
\* free frames.
BootedBefore(p, q) == q # StackPage /\ (p = StackPage \/ p < q)

Init ==
  /\ \E frame \in [BootPages -> Frames \ Reserved] :
       /\ \A p, q \in BootPages : BootedBefore(p, q) => frame[p] < frame[q]
       /\ used = Reserved \cup {frame[p] : p \in BootPages}
       /\ \A p \in BootPages, f \in Frames \ used : frame[p] < f
       /\ pt = [page \in Pages |->
                  IF page \in BootPages THEN frame[page] ELSE Unmapped]
  /\ freeCount = Cardinality(Frames \ used)
  /\ live = {FirstProc}
  /\ brkEnd = [p \in Procs |-> BrkBase]
  /\ vmAreas = [p \in Procs |-> {}]
  /\ nextMmap = FirstMmapPage
  /\ op = Idle
  /\ lastLoad = "ok"

-----------------------------------------------------------------------------

\* allocate_frame and map_to of an unmapped page.
MapFresh(page) ==
  \E f \in Frames : AllocateFrame(f) /\ pt' = [pt EXCEPT ![page] = f]

\* Mutant: the frame is freed, the entry stays.
FreeWithoutUnmap(page) ==
  IF IsMapped(page)
  THEN DeallocateFrame(pt[page]) /\ UNCHANGED pt
  ELSE UNCHANGED <<frameVars, pt>>

\* Mutant: unmap_4k alone.
UnmapWithoutFree(page) ==
  pt' = [pt EXCEPT ![page] = Unmapped] /\ UNCHANGED frameVars

\* unmap_4k_and_free_bitmap; an unmapped page is an error the loops ignore.
UnmapAndFree(page) ==
  IF IsMapped(page)
  THEN DeallocateFrame(pt[page]) /\ pt' = [pt EXCEPT ![page] = Unmapped]
  ELSE UNCHANGED <<frameVars, pt>>

Advance == op' = [op EXCEPT !.page = @ + 1]

\* sys_brk above the current break enters map_brk_grow.
SysBrkGrow(p, addr) ==
  /\ op = Idle /\ p \in live
  /\ addr > brkEnd[p] /\ addr <= BrkLimit
  /\ op' = Loop("grow", p, PageOf(brkEnd[p]), PageOf(addr - 1), addr)
  /\ UNCHANGED <<frameVars, pt, procVars, nextMmap, lastLoad>>

\* One page of map_brk_grow: a page that is already mapped is kept; without a
\* free frame the call fails, the break stays and the pages mapped so far do too.
BrkGrowPage ==
  /\ op.kind = "grow"
  /\ op.page <= op.last
  /\ \/ IsMapped(op.page) /\ Advance /\ UNCHANGED <<frameVars, pt>>
     \/ ~IsMapped(op.page) /\ MapFresh(op.page) /\ Advance
     \/ /\ ~IsMapped(op.page) /\ FreeFrames = {}
        /\ op' = Idle /\ UNCHANGED <<frameVars, pt>>
  /\ UNCHANGED <<procVars, nextMmap, lastLoad>>

\* Mutant: the page that holds the new break is unmapped too.
SysBrkShrinkRoundsDown(p, addr) ==
  /\ op = Idle /\ p \in live
  /\ addr >= BrkBase /\ addr < brkEnd[p]
  /\ op' = Loop("shrink", p, PageOf(addr), PageOf(brkEnd[p] - 1), addr)
  /\ UNCHANGED <<frameVars, pt, procVars, nextMmap, lastLoad>>

\* sys_brk below the current break enters map_brk_shrink, whose loop starts at
\* the first whole page above the new break and may be empty.
SysBrkShrink(p, addr) ==
  /\ op = Idle /\ p \in live
  /\ addr >= BrkBase /\ addr < brkEnd[p]
  /\ op' = Loop("shrink", p, PageOf(AlignUp(addr)), PageOf(brkEnd[p] - 1), addr)
  /\ UNCHANGED <<frameVars, pt, procVars, nextMmap, lastLoad>>

BrkShrinkPage ==
  /\ op.kind = "shrink"
  /\ op.page <= op.last
  /\ UnmapAndFree(op.page)
  /\ Advance
  /\ UNCHANGED <<procVars, nextMmap, lastLoad>>

\* Both directions end by storing the new break.
BrkDone ==
  /\ op.kind \in {"grow", "shrink"}
  /\ op.page > op.last
  /\ brkEnd' = [brkEnd EXCEPT ![op.proc] = op.goal]
  /\ op' = Idle
  /\ UNCHANGED <<frameVars, pt, live, vmAreas, nextMmap, lastLoad>>

\* sys_mmap with addr = 0: the bump pointer moves by the size asked for even
\* when the range does not fit and the call fails.
SysMmapAnywhere(p, n) ==
  /\ op = Idle /\ p \in live
  /\ nextMmap' = IF nextMmap + n > EndMmapPage THEN EndMmapPage ELSE nextMmap + n
  /\ op' = IF nextMmap + n > EndMmapPage THEN Idle
           ELSE Loop("mmap", p, nextMmap, nextMmap + n - 1, n)
  /\ UNCHANGED <<frameVars, pt, procVars, lastLoad>>

\* sys_mmap at a page-aligned address inside the window; NEXT_MMAP stays.
SysMmapAt(p, start, n) ==
  /\ op = Idle /\ p \in live
  /\ start >= FirstMmapPage /\ start + n <= EndMmapPage
  /\ op' = Loop("mmap", p, start, start + n - 1, n)
  /\ UNCHANGED <<frameVars, pt, procVars, nextMmap, lastLoad>>

\* Mutant: a mapped page is skipped, as map_brk_grow does.
MapNewPageSkipsMapped ==
  \/ ~IsMapped(op.page) /\ MapFresh(op.page) /\ Advance
  \/ IsMapped(op.page) /\ Advance /\ UNCHANGED <<frameVars, pt>>

\* One page of the mapping loops of mmap and of the ELF loader.  The frame is
\* taken before map_to notices that the page is mapped; then the call fails and
\* neither that frame nor the pages before it are given back.
MapNewPage ==
  \/ ~IsMapped(op.page) /\ MapFresh(op.page) /\ Advance
  \/ /\ IsMapped(op.page)
     /\ \E f \in Frames : AllocateFrame(f)
     /\ op' = Idle /\ UNCHANGED pt
  \/ FreeFrames = {} /\ op' = Idle /\ UNCHANGED <<frameVars, pt>>

\* map_user_anon_pages
MmapPage ==
  /\ op.kind = "mmap"
  /\ op.page <= op.last
  /\ MapNewPage
  /\ UNCHANGED <<procVars, nextMmap, lastLoad>>

\* Mutant: the area records bytes instead of pages.
MmapDoneBytes ==
  /\ op.kind = "mmap"
  /\ op.page > op.last
  /\ vmAreas' = [vmAreas EXCEPT
                   ![op.proc] = @ \cup {[start |-> op.first,
                                        pages |-> op.goal * PageSize]}]
  /\ op' = Idle
  /\ UNCHANGED <<frameVars, pt, live, brkEnd, nextMmap, lastLoad>>

\* sys_mmap records the new area.
MmapDone ==
  /\ op.kind = "mmap"
  /\ op.page > op.last
  /\ vmAreas' = [vmAreas EXCEPT
                   ![op.proc] = @ \cup {[start |-> op.first, pages |-> op.goal]}]
  /\ op' = Idle
  /\ UNCHANGED <<frameVars, pt, live, brkEnd, nextMmap, lastLoad>>

\* sys_munmap of exactly one of the caller's areas: the area goes first.
SysMunmap(p, a) ==
  /\ op = Idle /\ p \in live
  /\ a \in vmAreas[p]
  /\ vmAreas' = [vmAreas EXCEPT ![p] = @ \ {a}]
  /\ op' = Loop("munmap", p, a.start, a.start + a.pages - 1, a.pages)
  /\ UNCHANGED <<frameVars, pt, live, brkEnd, nextMmap, lastLoad>>

MunmapPage ==
  /\ op.kind = "munmap"
  /\ \/ op.page <= op.last /\ UnmapAndFree(op.page) /\ Advance
     \/ op.page > op.last /\ op' = Idle /\ UNCHANGED <<frameVars, pt>>
  /\ UNCHANGED <<procVars, nextMmap, lastLoad>>

\* sys_fork's memory side: the one child stack page is mapped unless an earlier
\* fork did, and the child gets a copy of the break and of the areas.
ForkChildStack ==
  \/ IsMapped(ChildStackPage) /\ UNCHANGED <<frameVars, pt>>
  \/ ~IsMapped(ChildStackPage) /\ MapFresh(ChildStackPage)

SysFork(p, child) ==
  /\ op = Idle /\ p \in live /\ child \in Procs \ live
  /\ ForkChildStack
  /\ live' = live \cup {child}
  /\ brkEnd' = [brkEnd EXCEPT ![child] = brkEnd[p]]
  /\ vmAreas' = [vmAreas EXCEPT ![child] = vmAreas[p]]
  /\ UNCHANGED <<nextMmap, op, lastLoad>>

\* A fork whose stack copy fails has already mapped the page.
SysForkFail(p) ==
  /\ op = Idle /\ p \in live
  /\ ForkChildStack
  /\ UNCHANGED <<procVars, nextMmap, op, lastLoad>>

\* sys_execve past its argument checks: unmap_old_image_best_effort frees the
\* pages from USER_TEXT_BASE to USER_IMAGE_END, load_elf_mapped maps the segment
\* again.  What follows a complete load changes no mapping.
SysExecve(p) ==
  /\ op = Idle /\ p \in live
  /\ op' = Loop("unload", p, TextPage, TextPage, 0)
  /\ UNCHANGED <<frameVars, pt, procVars, nextMmap, lastLoad>>

UnloadPage ==
  /\ op.kind = "unload"
  /\ \/ op.page <= op.last /\ UnmapAndFree(op.page) /\ Advance
     \/ /\ op.page > op.last
        /\ op' = Loop("load", op.proc, FirstImagePage, TextPage, 0)
        /\ UNCHANGED <<frameVars, pt>>
  /\ UNCHANGED <<procVars, nextMmap, lastLoad>>

LoadPage ==
  /\ op.kind = "load"
  /\ \/ op.page <= op.last /\ MapNewPage
     \/ op.page > op.last /\ op' = Idle /\ UNCHANGED <<frameVars, pt>>
  /\ lastLoad' = IF op.page <= op.last /\ op' = Idle THEN "failed" ELSE "ok"
  /\ UNCHANGED <<procVars, nextMmap>>

\* exit, and later wait4 of the zombie, drop the break and the areas with the
\* process and unmap nothing.
SysExit(p) ==
  /\ op = Idle /\ p \in live
  /\ live' = live \ {p}
  /\ brkEnd' = [brkEnd EXCEPT ![p] = BrkBase]
  /\ vmAreas' = [vmAreas EXCEPT ![p] = {}]
  /\ UNCHANGED <<frameVars, pt, nextMmap, op, lastLoad>>

Next ==
  \/ \E p \in Procs :
       \/ \E addr \in BrkBase .. BrkLimit : SysBrkGrow(p, addr) \/ SysBrkShrink(p, addr)
       \/ \E n \in 1 .. MmapPages : SysMmapAnywhere(p, n)
       \/ \E a \in Areas : SysMmapAt(p, a.start, a.pages) \/ SysMunmap(p, a)
       \/ \E child \in Procs : SysFork(p, child)
       \/ SysForkFail(p) \/ SysExecve(p) \/ SysExit(p)
  \/ BrkGrowPage \/ BrkShrinkPage \/ BrkDone
  \/ MmapPage \/ MmapDone \/ MunmapPage
  \/ UnloadPage \/ LoadPage

Spec == Init /\ [][Next]_vars

-----------------------------------------------------------------------------
(* What the kernel believes user memory to be: src/user.rs, for one byte. *)

CoversBrkHeap(p, addr) == addr >= BrkBase /\ addr + 1 <= brkEnd[p]

CoversMmapRead(p, addr) ==
  \E a \in vmAreas[p] : /\ addr >= a.start * PageSize
                        /\ addr + 1 <= (a.start + a.pages) * PageSize

\* user_region_is_readable_range: image from USER_TEXT_BASE, the one stack page
\* 0x401000, break and mapped areas of the current process.
UserRegionIsReadable(p, addr) ==
  \/ PageOf(addr) = 0
  \/ PageOf(addr) = StackPage
  \/ CoversBrkHeap(p, addr)
  \/ CoversMmapRead(p, addr)

-----------------------------------------------------------------------------

Ops ==
  {Idle} \cup
  [kind : {"grow", "shrink", "mmap", "munmap", "unload", "load"}, proc : Procs,
   first : Pages, page : Pages \cup {EndMmapPage}, last : Pages, goal : Nat]

\* Types, and that break, areas, NEXT_MMAP and every page loop stay inside the
\* windows that process.rs lays out.
TypeOK ==
  /\ used \subseteq Frames
  /\ freeCount \in 0 .. NumFrames
  /\ pt \in [Pages -> Frames \cup {Unmapped}]
  /\ live \subseteq Procs
  /\ brkEnd \in [Procs -> BrkBase .. BrkLimit]
  /\ vmAreas \in [Procs -> SUBSET Areas]
  /\ nextMmap \in FirstMmapPage .. EndMmapPage
  /\ op \in Ops
  /\ lastLoad \in {"ok", "failed"}

\* FREE_COUNT, kept apart from the bitmap, is the number of free bits.
FreeCountExact == freeCount = Cardinality(FreeFrames)

\* Every mapped user page has a frame of its own that the bitmap marks used and
\* that boot did not reserve: no sequence of brk, mmap, munmap, fork, execve and
\* exit, failing ones included, makes two pages share a frame or maps a free one.
FramesOwned ==
  \A page \in Pages : IsMapped(page) =>
    /\ pt[page] \in used \ Reserved
    /\ \A other \in Pages : pt[other] = pt[page] => other = page

\* Frames that are marked used although nothing maps them.
Leaked == used \ (Reserved \cup MappedFrames)

\* Frames leak in one case only: mmap or execve runs into a mapped page and loses
\* the one frame it took for it.  break, munmap, fork and exit lose none.
LeaksOnlyOnCollision ==
  [][Leaked' # Leaked =>
       /\ op.kind \in {"mmap", "load"} /\ IsMapped(op.page) /\ op' = Idle
       /\ Leaked \subseteq Leaked' /\ Cardinality(Leaked' \ Leaked) = 1]_vars

\* A byte that the kernel accepts as user memory is mapped, so that reading it in
\* a system call cannot fault, with one exception: an execve that fails to load
\* the image has lost the text page, and it stays lost until a load succeeds.
\* True of a process that never forks.
AcceptedIsMapped ==
  op = Idle =>
    \A p \in live, addr \in 0 .. (EndMmapPage * PageSize - 1) :
      UserRegionIsReadable(p, addr) =>
        (IsMapped(PageOf(addr)) <=>
           ~(PageOf(addr) = TextPage /\ lastLoad = "failed"))

\* "Readable: mapped image" and so on (user_region_is_readable_range): every byte
\* that the kernel accepts from a process is mapped.
ReadableIsMapped ==
  op = Idle =>
    \A p \in live, addr \in 0 .. (EndMmapPage * PageSize - 1) :
      UserRegionIsReadable(p, addr) => IsMapped(PageOf(addr))

\* A process's areas never overlap.  True of a process that never forks.
AreasDisjoint ==
  \A p \in live : \A a, b \in vmAreas[p] :
    a # b => a.start + a.pages <= b.start \/ b.start + b.pages <= a.start

=============================================================================
