# A TLA+ model of the rockos kernel

rockos is a small x86-64 kernel for one CPU. This directory models it from boot to the
system calls: processes and scheduler, the path of registers through a system call,
physical frames and user memory, keyboard and terminal, files, and the algorithms of
execve, nanosleep and the text screen. TLC checks the models on small instances; TLAPS
proves the main safety properties of processes, scheduler, register frames, user memory,
files, standard input and boot for every size. Paths below are relative to the root of the repository, `process.rs` means
`src/process.rs` of the kernel crate.

## 1. Survey

| Component | State | Operations | Interacts with |
|---|---|---|---|
| Process table (`process.rs`) | `TABLE` of 32 slots, `CURRENT_SLOT` | fork, `mark_exited`, `wait_reap`, PID and slot allocation | scheduler, user memory |
| Scheduler (`scheduler.rs`) | `SCHED.runnable`, `NEED_RESCHED`, slice start | enqueue, rotate, tail of a system call, exit path, idle loop, timer tick | process table, timer, frames of registers |
| System calls (`syscall.rs`) | none of its own | dispatch of read, write, open, close, mmap, munmap, brk, sched_yield, nanosleep, getpid, fork, execve, exit, wait4, getppid | everything |
| Register frames (`syscall.rs`, `task.rs`, `scheduler.rs`) | kernel stack, `Process::save`, `pending_rax`, `CURRENT_KSTACK_TOP` | push at entry, save in the tail, restore, pop | scheduler, fork, execve |
| Physical frames (`memory.rs`) | bitmap, `FREE_COUNT` | allocate, deallocate, boot scan | paging, heap |
| User memory (`process.rs`, `paging.rs`) | one page table, `brk_end`, `vm_areas`, `NEXT_MMAP` | brk, mmap, munmap, child stack of fork | frames, region checks |
| Region checks (`user.rs`) | image bounds | readable and writable ranges | every call that takes a pointer |
| ELF loader, execve (`elf.rs`, `process.rs`) | mapped image | unmap the old image, map the new one, build the stack | user memory, register frames |
| Interrupts (`interrupts.rs`, `pit.rs`) | `TICKS` | timer, keyboard, faults | scheduler, TTY |
| TTY, keyboard (`tty.rs`, `keyboard.rs`) | scancode ring, edit buffer, ready lines | interrupt, line discipline, blocking read | files, heap |
| Files (`fs.rs`) | global descriptor table | open, close, read, write | TTY |
| Boot (`main.rs`, `heap.rs`) | where `kernel_main` is | memory scan, heap, self-test, keyboard window, first process | frames, keyboard, interrupts |
| Text screen (`vga.rs`) | cursor, cells | write a byte | |
| GDT, TSS, serial port | set up once; output | | |

What is hard about it, and hard to test:

* **Who runs.** The running process stays at the front of the queue. The tail of a
  system call saves registers by `CURRENT_SLOT` but rotates the queue by its front.
* **Interrupts.** A system call runs with interrupts masked, until the handler waits
  in `enable_and_hlt`. From there on it, and its tail, run with interrupts enabled.
* **PIDs and slots** are reused, parents are remembered by PID, orphans are not
  re-parented.
* **One frame of words, counted three times**: push order, save offsets, pop order.
* **One page table, many processes**: fork copies the bookkeeping, not the memory.
* **Half-finished loops**: brk, mmap and the ELF loader map page by page and can stop
  in the middle.
* **Locks met by handlers**: a handler that meets a spin lock held by the code it
  interrupted spins for ever.
* **Two readers of one port**: during boot both polling and IRQ1 empty the keyboard
  controller.
* **Limits**: 32 slots, 1024 PIDs, frames, the mmap window, 128 ready lines,
  64 files, one page for the initial stack.

`PROJECT.json` lists these hazards one by one with the line where each bites.

## 2. Modules

| Module | Models | EXTENDS |
|---|---|---|
| `ProcessTable` | table scans of `process.rs` | |
| `Scheduler` | queue, flag and slice of `scheduler.rs` | `ProcessTable` |
| `Kernel` | system calls, timer and faults over both | `Scheduler` |
| `RoundRobin` | abstract: a ring of tasks whose front has the CPU | |
| `SyscallFrame` | registers through `syscall_entry`, the tail and `syscall_user_return` | |
| `FrameAllocator` | bitmap and counter of `memory.rs` | |
| `AddressSpace` | brk, mmap, munmap, fork, execve, exit on the page table; region check | `FrameAllocator` |
| `Keyboard` | the scancode ring | |
| `Tty` | the line discipline of `tty.rs` | |
| `Console` | keyboard, its interrupt, terminal and `read(0, ...)`, lock by lock | `Keyboard`, `Tty` |
| `LineStream` | abstract: lines of input, handed out in order | |
| `Boot` | `kernel_main` up to ring 3, with interrupts | `FrameAllocator`, `Keyboard` |
| `Files` | descriptors and RAM files of `fs.rs` | |
| `ExecStack` | argument vectors and initial stack of execve | |
| `Nanosleep` | conversion of a timespec to ticks | |
| `Vga` | the text screen | |
| `KernelProofs`, `AddressSpaceProofs`, `FilesProofs`, `BootProofs`, `SyscallFrameProofs`, `ConsoleProofs` | theorems | the module they are about |
| `InductionProofs` | induction over numbers, recursive functions, flattening of sequences | |
| `AlgorithmProofs` | theorems about the last three components | `ExecStack`, `Nanosleep`, `Vga`, `InductionProofs` |
| `MCKernel`, `MCSyscallFrame`, `MCAddressSpace`, `MCConsole`, `MCBoot`, `MCAlgorithms` | instances for TLC | |

Operators whose comment begins with *Mutant* are wrong versions of the definition
that follows them. No specification uses them; they are there to show that a
property notices the mistake when they take the definition's place.

### Kernel

`procs` is `TABLE`, `currentSlot` is `CURRENT_SLOT`, `runnable` and `needResched` are
the queue and `NEED_RESCHED`. `TICKS` and the start of the slice are only compared by
their difference, which is `elapsed`, capped at the slice. `mode` says what the CPU
does: user code, a wait inside nanosleep or a read, the idle loop, or one of three ends
(panic, fault handler, spinning on a lock held by the interrupted code).

A handler with its tail is one action, because interrupts are masked: `SysFork`,
`SysExit`, `SysWait4Reap` and so on all end in `CompleteSyscall` or
`ScheduleAfterExit`, which end in `PickNext`, as the code does. Nanosleep and the
blocking read are two actions with ticks in between. In the tail of these a tick may
land between taking the flag and restarting the slice (`lateTick`), or while `SCHED`
is held (`TickHitsSchedLock`, which ends the behaviour, as it does the machine).

Fork may fail nondeterministically: `sys_fork` reads its own stack pointer where it
wants the system call's frame, so the outcome of the stack copy depends on unrelated
words. `orphans` is a history variable, used by properties only.

`RoundRobin` is what table and queue promise together: the front of a ring of live tasks
runs; a turn, a spawn, an exit and the reaping of a zombie are its only steps. The
refinement maps the queue to the ring, the exited slots to the zombies and the three
ends to `stopped`.

### SyscallFrame

A kernel stack is a function from word index to symbolic word, and each action is the
sequence of pushes or pops of one piece of code. Which task is switched to is left open.
`save_from_dispatch_rsp` is called with a pointer one word above the layout it
documents, and `syscall_user_return` pops one word below what `restore_to_kstack` wrote.
The two shifts cancel for a task that came through a tail (`ReturnsToCaller`), and do
not for a freshly forked one (`ChildStartsOnItsStack`). `ReturnsToCaller` speaks of rip,
rsp, rflags, rbx, rbp, r12, r13 and the result: r14 is overwritten at entry, and r15
falls victim to the shift. A successful execve is to start another program instead of
returning (`ExecStartsNewProgram`), but the tail saves the caller's frame over the one
execve has stored. `atEntry` and `returned` are history variables; `NewImage` in `atEntry`
marks a task whose execve has succeeded.

### AddressSpace

`pt` is the user part of the page table. A range is handled one page per step, with
`op` as the loop's state, so that every place where a loop may stop is a state. Other
calls start only when `op` is idle: nothing interrupts such a loop. Breaks are
addresses, areas are page ranges. `HeaderPages` says whether the image's segment starts
at `USER_TEXT_BASE` or, as that of the committed `assets/init.elf`, one page below. An
execve unmaps the old image from `USER_TEXT_BASE` on and then maps the new one: with a
header page the load meets that page, fails, and the caller is left without text.
`lastLoad` is a history variable that says so, and `AcceptedIsMapped` excepts just that
page; `ReadableIsMapped` is the claim without exception.

Page flags and contents, and page-table frames, are left out: all user pages lie under
page tables that boot has already created, so `map_to` takes no frame of its own.

### Console

One action per stretch between two points where a handler may run: taking `TTY`, reading
under it, `enable_and_hlt`, taking and releasing `SCHED` in the tail. `intr` is the
interrupt flag: a read starts with it off, and `EnableAndHlt` turns it on until the
return. A handler is one step. If it needs a lock that the interrupted code holds, the
step is `IrqSpins`.

The keyboard reports one event (`KeyEvents`: a make or break code, perhaps behind E0)
whose codes reach the controller one by one; `KeyboardIrq` takes a code to the ring and,
through `FeedScancode`, to the terminal. Scancodes are classes of codes; a key with a
character has a plain and a shifted one.

`LineStream` is what a reader may rely on. `edit` is the edit buffer, `stream` the ready
lines one behind the other: a partial read, which puts the rest of the line back, is then
simply a piece taken off the front.

### Boot

`pc` walks through `kernel_main`. The memory map is an input; `Scan` is
`BitmapFrameAllocator::new`. From `InterruptsInit` on, key bytes, mouse bytes and ticks
arrive at any step. `read_scancode` is four steps (lock the ring, pop it, read the
status, read the data), so that IRQ1 can empty the controller between the last two. `port`
keeps its last byte, because reading the data port of an empty controller yields it
again. The history `takers` lists who has read the last key byte: the interrupt, which
passes it to ring and terminal, polling, which passes it to the boot screen, or polling
that takes it for a mouse byte and drops it. What the terminal does with a byte is in
`Tty`.

When `load_elf` refuses the image, `map_user_blob` maps a built-in program at the same
place. That succeeds if the load had mapped nothing; if it failed with the segment
mapped, the text page collides and the `expect` panics (`MapUserBlob`).

### Files

One table for all processes, each call one step. `files` maps a descriptor to its
contents. Calls with a refused pointer, length or name change nothing and are left out;
writes that the heap cannot hold stop the machine, as `alloc_error` does.

### ExecStack, Nanosleep, Vga

Pure algorithms, each a small state machine over all inputs within the bounds and
checked against what it is for: a program that walks its stack as the ABI says finds its
arguments; the ticks of a sleep are those of exact arithmetic, saturated; the cursor's
row shows what was printed. Integers of `Nanosleep` have `Width` bits, and the one
unchecked multiplication panics in a development build and wraps in a release build.
Words of the stack page are numbers or groups of bytes, so that padding and alignment
are modelled as they are.

## 3. Runs

| Run | Instance | Shows | States |
|---|---|---|---|
| `kernel` | 4 slots, PIDs 1..6, slice 2, sleeps up to 2 | safety of processes and queue; slices are enforced; `RoundRobin` is implemented | 122,172 |
| `kernel_live` | 3 slots, PIDs 1..4 | every live process keeps being scheduled; the ring's fairness is implemented | 3,651 |
| `frame` | 3 tasks, 2 register generations | `ReturnsToCaller` | 331,096, up to symmetry |
| `space` | 1 process, header page, 7 usable frames, break of 2 pages, window of 3 | accepted memory is mapped, but for the text after a failed load; areas are disjoint, frames owned and counted | 1,154,940 |
| `space_fork` | 2 processes, no header page, 4 usable frames | frames owned, and lost only on a collision, with a shared page table | 97,650 |
| `console` | edit buffer of 1, 2 ready lines, ring of 3, reads of 0 to 2 bytes | `LineStream` is implemented; no lost wake-up; handlers spin only after a wait | 384,729 |
| `boot` | 12 memory maps of 7 frames, window of 2 ticks, 4 bytes, ring of 3 | frames handed out are usable; what may become of a key byte; boot ends | 365,466 |
| `algorithms` | vectors of up to 3 of 4 strings, page of 24 words; all pairs of 7-bit integers; screen of 2 by 3, texts of 9 bytes; file limit 1, 4 descriptors, writes of up to 2 bytes, heap of 3 | execve's stack, nanosleep's ticks, the screen; descriptors are not reused, contents only grow | 256,240 |

Why these bounds are enough:

* **kernel**: four slots give a full table, a grandchild, an orphan and a sibling at
  once. Six PIDs exceed the slots, so a PID is free again while an orphan still names it.
  A slice of two ticks has an inside and an end.
* **frame**: three tasks have one to leave, one to enter and one to disturb both.
* **space**, **space_fork**: a page has two addresses, so a break can lie inside a page; a window of three
  pages has areas that are equal, apart and overlapping; the frames run out before the
  pages do.
* **console**: a line is a character and its end, so a read of one byte splits it and a
  read of two takes it whole; two ready lines have an order and a full queue; a read of no
  bytes is the one that never returns.
* **boot**: usable regions start at frame 0 or behind it, lie across video memory and
  reach beyond the bitmap; frames run out in heap, stack or image; four bytes overfill
  the ring.
* **algorithms** runs four parts that do not interact, one at a time (`part`). Vectors are longer than their limits, strings are empty, shorter than a
  word, as long as one and cut, and the largest do not fit the page; at 7 bits the
  products overflow on both sides; nine bytes pass the last row of six cells. The file limit
  of one is reached by named files alone and by `/dev/null`, and four descriptors allow
  opens after closes.

The machine may really stop (panic, fault, lock, last exit), so deadlock is not an
error in the kernel, boot and console runs; nor is it in the others, where the last task
or process may exit, an algorithm ends, or a named bound is reached.

**Fairness.**

* `Kernel`: the timer keeps ticking, which the PIT does, and a system call that can be
  made is eventually made. The second is an assumption on programs and on the keyboard:
  the kernel switches only in system calls, so a program that makes none keeps the CPU for
  ever.
* `Console` and `Boot`: the CPU executes its next instruction, and the timer keeps ticking.
  Nothing is assumed of the keyboard. `ReadyLineIsRead` rests on the tick: a line that
  completes after the read has looked, and whose interrupt is over before the halt, is
  found at the next one.

### Disagreements

Four runs refute a sentence of a comment. Each is an entry of `findings` in
`PROJECT.json` with the quotation.

| Run | Sentence | What happens |
|---|---|---|
| `kernel_eagain_zombie` | EAGAIN means no zombie child | the scan stops at the first running child |
| `frame_child` | the child's RSP is mirrored | the child's rsp is popped from another field |
| `frame_exec` | execve builds the initial stack of the new program | the tail overwrites the new registers: the caller goes on at its old rip and rsp |
| `space_accepted` | readable memory is mapped | a shrink by one process unmaps another's heap |

More that the models show, without a run of its own: a process that got a reused PID can
reap a zombie of the PID's earlier holder; buffers on a forked child's stack page are
refused by the region checks; execve of the committed image meets the header page it did
not unmap, fails and leaves the caller without text (so `frame_exec` needs an image without
one, and `space_accepted` has none); execve by a forked child builds the new stack in the
parent's stack page; wait4 with a bad status pointer loses the status; fork panics on a full
table; one oversized mmap uses up the window; a key that IRQ1 takes between the two port
reads of polling is passed on twice, and a mouse byte that follows it there is returned as
a key; boot panics instead of falling back to the built-in program (`README.md:11` of the
repository) when the load failed with pages mapped; a blocking read of no bytes never returns;
O_NONBLOCK, once set, holds for every process and for good; the frame self-test keeps the
frame if there is only one.

## 4. Proofs

All theorems hold for every value of the constants that satisfies the named assumptions.

| Module | Theorem | Property | Assumptions |
|---|---|---|---|
| `KernelProofs` | `TypeCorrect` | `TypeOK` | `TableAssumption`, `SliceAssumption`, `SleepAssumption`: sizes are positive, there is a PID, an empty slot is not a process |
| | `PidsCorrect` | `PidsUnique` | |
| | `QueueCorrect` | `QueueIsAlive` | |
| | `FrontCorrect` | `FrontRuns` | |
| | `IdleCorrect` | `IdleIsFinal` | |
| | `SliceCorrect` | `SliceIsEnforced` | |
| | `ExpiredCorrect` | a slice that has run out is flagged (`ExpiredIsFlagged`) | |
| | `WaitIsBounded` | at most `MaxProcs` in the queue, and `NoOvertaking` | |
| | `ParentCorrect` | `ParentAlive` | |
| | `LifeCycleCorrect` | `SlotLifeCycle` | |
| | `RoundRobinCorrect` | `ImplementsRoundRobin` | |
| `AddressSpaceProofs` | `SpaceTypeCorrect` | `TypeOK` | `FramesAssumption`, `SpaceAssumption`: frame 0 is reserved, three frames are free at boot, the mmap window is not empty |
| | `FreeCountCorrect` | `FreeCountExact` | |
| | `OwnedCorrect` | `FramesOwned` | |
| | `LeaksCorrect` | `LeaksOnlyOnCollision` | |
| | `AreasCorrect` | `AreasDisjoint` | the same, and `Alone`: one process |
| | `AcceptedCorrect` | `AcceptedIsMapped` | |
| | `ReloadSucceeds` | `ReadableIsMapped` | the same, `Alone`, and no header page |
| `FilesProofs` | `ClosedCorrect` | `ClosedStaysClosed` | `FilesAssumption`: descriptors start above 2 |
| | `NamedCorrect` | `NamedFilesBounded` | |
| | `GrowCorrect` | `FilesOnlyGrow` | |
| | `FilesTypeCorrect` | `FilesTypeOK` | |
| `BootProofs` | `FatesCorrect` | `KeyFates` | `FramesAssumption`, `BootAssumption`, `RingAssumption` |
| | `FreeCorrect` | `FreeIsUsable` | |
| | `RingCorrect` | `RingIsFifo` | |
| | `WindowCorrect` | `WindowNeverSpins` | |
| | `BootTypeCorrect` | `TypeOK` | |
| `SyscallFrameProofs` | `FrameTypeCorrect` | `TypeOK` | `FrameAssumption` |
| | `ReturnCorrect` | `ReturnsToCaller` | |
| `ConsoleProofs` | `ConsoleTypeCorrect` | `TypeOK` | `RingAssumption`, `TtyAssumption`, `LenAssumption` |
| | `ShiftCorrect` | `ShiftFollowsKeys` | |
| | `SpinsCorrect` | `SpinsOnlyAfterWait` | |
| | `LineStreamCorrect` | `ImplementsLineStream` | |
| | `LinesComplete` | ready lines are whole (`StreamInv`) | |
| | `ReadMovesOnCorrect` | a read that has a line only moves on (`ReadMovesOn`) | |
| `AlgorithmProofs` | `SleepCorrect` | `SleepIsWholeTicks` | `NanosleepAssumption`: sizes are positive and the ticks of one second, times the nanoseconds of one, fit the integers |
| | `RowCorrect` | `RowShowsText` | `VgaAssumption`: there is a row and a column |
| | `ArgsCorrect` | `ArgsArrive` | `ExecAssumption`: sizes and limits are positive, strings are sequences |
| | `FailureCorrect` | `FailureKeepsStack` | |

**Kernel.** The inductive invariant `Inv` is the conjunction of the first five. They need
each other: that the exit path's `retain` removes exactly the process that ran needs the
queue to be without duplicates; that rotation leaves a live process at the front needs
every entry to be alive; that the front is the running process needs both; and that only
the last exit leads to idling needs the queue to hold all live processes. `Retain` is
defined by rank rather than by recursion so that its effect (order-preserving,
duplicate-free, everything but the slot) can be proved without induction. The remaining
theorems follow from `Inv` and a step lemma each.

**RoundRobin.** The same `Inv` carries the refinement: it says that the front of the queue
is `currentSlot`, so the abstract ring's front ends, spawns and reaps where the code uses
the slot. What the tail does to the ring is one lemma (`TailTurns`), and fork, exit and
reaping have one each; the other actions are a plain tail, a stop, or no step of the ring.

**Waiting for the CPU.** `WaitIsBounded` is the safety half of `EveryProcessRuns`. The
queue has no duplicates, so it is no longer than the process table (`QueueFits`), and every
step of the ring that changes it moves all but the front up by one (`RingMoves`): a process
has the CPU after at most `MaxProcs - 1` changes. `SliceCorrect` bounds the time between
them for processes that call the kernel: an expired slice is flagged (`ExpiredCorrect`), a
flagged tail rotates (`FlaggedTail`), and a late tick raises the flag for a new slice only.

**AddressSpace.** `Inv` has two halves. `MemInv`: the bitmap holds the reserved frames, no
two pages share a frame, mapped frames are marked, and the counter is exact. Every step
is, as far as memory goes, one of four: map a page with a frame just taken, unmap one and
free its frame, take a frame and lose it, or nothing (`MemoryStep`); a lemma shows for
each that it keeps `MemInv` (`MapKeeps`, `UnmapKeeps`, `LoseKeeps`, `SameKeeps`), and only
the third adds to the lost frames. `WindowInv`: break, areas, `NEXT_MMAP` and the page
loop stay in their windows, and so does what the loop will store at its end (`GoalOK`).
The second half is needed because a loop maps `op.page`, which must be a page.

**One process.** `AcceptedIsMapped` and `AreasDisjoint` are about complete calls, so the
invariant `OneInv` says how far the loop in progress has come. `HeapInv`: the pages of the
break are mapped, except those a shrinking break is giving up. `AreaInv`: areas are mapped
and disjoint. `ImageInv`: stack and header page stay mapped, and the text page is mapped
except while execve is about to load it again (`Reloading`) and after a load that failed; an
image without a header page finds the frame that was just freed, so its load cannot fail,
which is `ReloadSucceeds`. `LoopInv`: a growing break and mmap have mapped every page they
have passed; for mmap these pages are in no area, because mmap fails on a page that is mapped
and every page of an area is; what munmap passes is in no area any more; each loop has a
conjunct of its own (`GrowLoop` to `LoadLoop`). With two processes the argument breaks where
`space_accepted` shows it: another process's loop unmaps pages of this one's heap.

**Files.** `Inv` adds to the properties that all descriptors, open or closed, are below
`NEXT_FD`: that is why none comes back. Named files are among the open ones, so the test
of the table's size bounds them. What calls return is typed apart from it (`Results`).

**Boot.** `Inv` has four parts that hardly touch each other. `FatesInv` makes `KeyFates`
inductive: between the two port reads of polling, a key it has seen is still there, or the
interrupt has taken the last key, or a mouse byte has come. `MaskInv`: the ring is locked only
with interrupts masked. `FrameInv`: what the scan has marked used stays marked and the counter
is exact. The last: the ring's indices are in range. That the ring is a queue is proved of its
contents, written as a function of tail and distance (`Span`, `Cell`): a push adds a cell at
the end, a pop removes the first. For the type invariant `RestInv` and `PendingInv` add the
ticks, the status and the pending interrupt.

**SyscallFrame.** The save is one word off and the return is off by the same word, so the
invariant says where a register really is: a task that does not run has each preserved
register in the save of the field `Below` it and its result in `pending_rax` (`Parked`); the
one that runs has its registers in its own kernel stack from entry to tail. Nothing is said
of a task that comes out of execve. The rest is that no two fields share an offset.

**Console.** `WireInv` gives the four stages of a key event: nothing on the wire, an ordinary
code to come, an extended event to come, or its second code. Keyboard and terminal agree
on the shift keys in all but the second, where they will once the code is fed. `CallInv`:
until its first `hlt` a read runs with interrupts masked, so a handler that meets a lock
meets it in a read that has waited.

**LineStream.** The mapping flattens the queue of ready lines into one stream of bytes. Two
facts about the queue carry the refinement (`StreamInv`): each ready line ends in its only
newline, so the stream has as many line ends as the queue has lines and the abstract limit
is the code's; and outside a read's last steps nothing has been handed out. What an
interrupt does to the terminal is one of four steps (`Fed`): a character, an erasure, the
end of a line, or none. What a read does is one (`Takes`): it takes a piece of the stream's
front that does not pass a line end, and the put-back of a line's rest leaves exactly the
remaining stream. The other steps of the console are no step of the stream.

**Waiting for a line.** `ReadMovesOn` is the safety half of `ReadyLineIsRead`. A blocking read
is about to halt, asleep, about to look, or looks with the lock held (`Progress`). An interrupt can only add lines
behind the first (`FeedQueues`) and moves the read on if at all, so a line that arrives
between the look and `hlt` is still there at the next look; with room for a byte a read that
looks at a line gets one (`ReadGets`), because no ready line is empty (`LinesComplete`).

**Induction.** The library's induction theorems take an operator, which the provers cannot
instantiate. `NatSetInduction` says the same of a set: one that holds 0 and with every number
the next holds all of them, because a least number outside would have a predecessor inside.
From it follow that a function can be defined by recursion (`RecursionExists`), that the
flattening of a sequence of sequences, which the library defines recursively, exists, and
what it is after an addition at either end (`FlattenAppend`, `FlattenCons`).

**Nanosleep.** `SleepInv` says that a finished call has slept what `Ticks` computes. That this
is the exact number of ticks rests on two facts: seconds and nanoseconds divide separately
because the seconds' part has no remainder (`DivideSum`), and adding after saturating gives
what saturating the sum does (`SaturateSum`). The bounds of the integers are written with
`Pow2`, a recursive function, because the provers do not know `^`.

**Vga.** `VgaInv` says that the cursor's row shows the text since the newline. A glyph moves
the column on, or starts the next row when this one is full (`NextColumn`), and the rows
begin again at the top after the last; the glyph's cell is in the row the cursor then has,
behind those that show the line so far (`GlyphKeepsScreen`).

**ExecStack.** `ExecInv` follows the call stage by stage. `LaidOut`: while strings are pushed,
the kernel's copy holds the count, tables of zeros and, behind them, each pushed string
whole, at the address kept for it. `Written`: the finished copy, with the tables filled in,
fits the page and is in it. Because strings lie behind the tables, filling these in changes
no string. Until the last stage the page is as it was, which is `FailureKeepsStack`.

Only model-checked: liveness (`EveryProcessRuns`, `ImplementsFairness`, `ReadyLineIsRead`,
`BootEnds`), which is outside what the proof system handles. For `EveryProcessRuns` and
`ReadyLineIsRead` what is missing is only that the next step happens (fairness); that the
steps lead there is proved, as above. Every other property of a passing run is a theorem.

## 5. Not modelled

* GDT, TSS, PIC and PIT programming, MSRs, serial output: tables and registers set up once,
  and port I/O without state.
* The heap allocator, a library. That an 8 KiB-aligned process box fits the heap and the
  4 KiB kernel stack is a fact of sizes the models do not have.
* Parsing of ELF headers: there is one built-in image. Whether it is accepted is a choice
  (`LoadElf` and `MapUserBlob` of `Boot`, a failed load in `AddressSpace` and `ExecStack`).
* Page flags, and with them the writable region check.
* Contents of memory, apart from the kernel stacks and the initial stack page.
* An interrupt between `pop rsp` and `sysretq`, when a call that has waited returns with
  interrupts enabled: the stack it would use is the program's.
