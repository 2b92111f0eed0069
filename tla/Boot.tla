-------------------------------- MODULE Boot --------------------------------
(***************************************************************************)
(* kernel_main (src/main.rs): the scan of the memory map, the heap, the    *)
(* frame self-test, and then, with interrupts enabled, the keyboard        *)
(* window and the set-up of the first process, up to ring 3.               *)
(*                                                                         *)
(* In the window the boot code pops the scancode ring and polls the        *)
(* keyboard controller while the keyboard interrupt empties the controller *)
(* and fills the ring.  Handlers run to their end with interrupts masked,  *)
(* so a handler is one step.  The terminal that the interrupt feeds is     *)
(* module Tty; here takers tells who has read the last key byte: "irq" for *)
(* ring and terminal, "poll" for the boot screen, "dropped" for polling    *)
(* that took it for a mouse byte.                                          *)
(***************************************************************************)
EXTENDS FrameAllocator, Keyboard

CONSTANTS
  MemoryMaps,   \* the maps the bootloader may hand over: sequences of Regions
  Video,        \* frames of ISA video memory, 0xA0 .. 0xBF in the code
  HeapPages,    \* frames of the heap's 64 pages and of their page tables
  StackFrames,  \* frames of the user stack's page and of its page tables
  ImageFrames,  \* frames of the pages of init.elf
  Window,       \* warm_ticks, 200 in the code
  Keys,         \* bytes the keyboard may send
  MaxBytes      \* bound on the bytes the controller receives during boot

\* A region of the memory map covers the frames from start up to end.
Regions == [usable : BOOLEAN, start : Nat, end : Nat]

ASSUME BootAssumption ==
  /\ MemoryMaps \subseteq Seq(Regions)
  /\ Video \subseteq Frames
  /\ {HeapPages, StackFrames, ImageFrames, Window, MaxBytes} \subseteq Nat

VARIABLES
  map,      \* boot_info.memory_map
  pc,       \* where kernel_main is, see Places
  intr,     \* the interrupt flag
  irq1,     \* IRQ1 is pending
  port,     \* the controller's output buffer: full, aux and the byte last put there
  status,   \* the status that the polling code has read
  ring,     \* SCANCODE_QUEUE
  left,     \* ticks left of the keyboard window
  sent,     \* history: keyboard bytes that reached the controller
  takers    \* history: who has read the last of them, in order

portVars == <<irq1, port, sent>>
takeVars == <<ring, takers>>
vars == <<frameVars, map, pc, intr, portVars, status, takeVars, left>>

\* "memory", "heap", "test", "irqs": the steps before interrupts are enabled;
\* "wait": wait_ticks(1);  "window": the loop test;  "read": read_scancode;
\* "pop": SCANCODE_QUEUE is locked;  "poll", "data": the two port reads;
\* "halt", "hlt": before and in hlt;  "stack", "image", "process", "sched": the
\* first process, the last two with the heap or SCHED locked;  "user": ring 3;
\* "panic": an expect failed;  "hung": a handler spins on a lock.
Places == {"memory", "heap", "test", "irqs", "wait", "window", "read", "pop",
           "poll", "data", "halt", "hlt", "stack", "image", "process", "sched",
           "user", "panic", "hung"}

Init ==
  /\ map \in MemoryMaps
  /\ used = Frames /\ freeCount = 0
  /\ pc = "memory" /\ intr = FALSE
  /\ irq1 = FALSE /\ port = [full |-> FALSE, aux |-> FALSE, byte |-> NoByte]
  /\ status = "none"
  /\ ring = EmptyRing
  /\ left = Window
  /\ sent = 0 /\ takers = <<>>

-----------------------------------------------------------------------------

\* Frames of the usable regions, the part beyond the bitmap cut off.
UsableFrames(m) ==
  {f \in Frames : \E i \in DOMAIN m : m[i].usable /\ f >= m[i].start /\ f < m[i].end}

\* Mutant: frame 0 and video memory are reserved before the regions are freed.
ScanReservesFirst(m) == (({0} \cup Video \cup Frames) \ UsableFrames(m))

\* BitmapFrameAllocator::new: all bits set, usable regions cleared, frame 0 and
\* video memory set again.
Scan(m) == (Frames \ UsableFrames(m)) \cup {0} \cup Video

\* memory::init: FREE_COUNT is counted in the finished bitmap.
MemoryInit ==
  /\ pc = "memory"
  /\ used' = Scan(map)
  /\ freeCount' = Cardinality(Frames \ used')
  /\ pc' = "heap"
  /\ UNCHANGED <<map, intr, portVars, status, takeVars, left>>

\* The lowest n free frames are taken, one by one, or all of them and a panic.
TakeFrames(n, next) ==
  LET lower(f) == {g \in FreeFrames : g < f}
      taken    == {f \in FreeFrames : Cardinality(lower(f)) < n}
  IN  /\ used' = used \cup taken
      /\ freeCount' = freeCount - Cardinality(taken)
      /\ pc' = IF Cardinality(taken) = n THEN next ELSE "panic"

\* heap::init
HeapInit ==
  /\ pc = "heap"
  /\ TakeFrames(HeapPages, "test")
  /\ UNCHANGED <<map, intr, portVars, status, takeVars, left>>

\* The self-test takes two frames and gives both back.  With only one free
\* frame that one is taken and kept.
FrameTest ==
  /\ pc = "test"
  /\ IF Cardinality(FreeFrames) = 1
     THEN used' = used \cup FreeFrames /\ freeCount' = freeCount - 1
     ELSE UNCHANGED frameVars
  /\ pc' = "irqs"
  /\ UNCHANGED <<map, intr, portVars, status, takeVars, left>>

\* interrupts::init ends in sti.
InterruptsInit ==
  /\ pc = "irqs"
  /\ intr' = TRUE /\ pc' = "wait"
  /\ UNCHANGED <<frameVars, map, portVars, status, takeVars, left>>

-----------------------------------------------------------------------------

\* A byte reaches the controller's empty output buffer; a mouse's raises no IRQ1.
ByteArrives(byte, aux) ==
  /\ ~port.full
  /\ sent < MaxBytes
  /\ port' = [full |-> TRUE, aux |-> aux, byte |-> byte]
  /\ irq1' = (irq1 \/ ~aux)
  /\ sent' = IF aux THEN sent ELSE sent + 1
  /\ takers' = IF aux THEN takers ELSE <<>>
  /\ UNCHANGED <<frameVars, map, pc, intr, status, ring, left>>

RingHeld  == pc = "pop"
HeapHeld  == pc = "process"
SchedHeld == pc = "sched"

\* Mutant: the status is not looked at.
HandleKeyboardIrqBlind ==
  /\ port' = [port EXCEPT !.full = FALSE]
  /\ ring' = TryPush(ring, port.byte) /\ takers' = Append(takers, "irq")

\* handle_keyboard_irq: an empty buffer is left alone, a mouse byte is dropped,
\* a key goes to the ring and to the terminal.
HandleKeyboardIrq ==
  /\ port' = [port EXCEPT !.full = FALSE]
  /\ IF port.full /\ ~port.aux
     THEN ring' = TryPush(ring, port.byte) /\ takers' = Append(takers, "irq")
     ELSE UNCHANGED takeVars

\* An interrupt ends hlt, and the loop tests the clock again.
AfterIrq == IF pc = "hlt" THEN "window" ELSE pc

\* keyboard_interrupt_handler when it meets no lock.  Feeding the terminal may
\* need the heap or not.
KeyboardIrq ==
  /\ intr /\ irq1
  /\ ~RingHeld
  /\ irq1' = FALSE
  /\ HandleKeyboardIrq
  /\ pc' = AfterIrq
  /\ UNCHANGED <<frameVars, map, intr, sent, status, left>>

\* timer_interrupt_handler; the first tick ends wait_ticks(1).
TimerIrq ==
  /\ intr /\ ~SchedHeld
  /\ left' = IF pc # "wait" /\ left > 0 THEN left - 1 ELSE left
  /\ pc' = IF pc = "wait" THEN "window" ELSE AfterIrq
  /\ UNCHANGED <<frameVars, map, intr, portVars, status, takeVars>>

\* The keyboard handler finds the ring, or on the way into the terminal the
\* heap, locked by the code it interrupted; or the timer handler finds SCHED.
IrqSpins ==
  /\ intr
  /\ \/ irq1 /\ port.full /\ ~port.aux /\ (RingHeld \/ HeapHeld)
     \/ SchedHeld
  /\ pc' = "hung" /\ intr' = FALSE
  /\ UNCHANGED <<frameVars, map, portVars, status, takeVars, left>>

-----------------------------------------------------------------------------

\* while ticks() < keyboard_until
WindowTest ==
  /\ pc = "window"
  /\ pc' = IF left = 0 THEN "stack" ELSE "read"
  /\ UNCHANGED <<frameVars, map, intr, portVars, status, takeVars, left>>

\* Mutant: the ring is locked with interrupts enabled.
LockRingUnmasked ==
  /\ pc = "read"
  /\ pc' = "pop"
  /\ UNCHANGED <<frameVars, map, intr, portVars, status, takeVars, left>>

\* pop_scancode: cli, lock ...
LockRing ==
  /\ pc = "read"
  /\ pc' = "pop" /\ intr' = FALSE
  /\ UNCHANGED <<frameVars, map, portVars, status, takeVars, left>>

\* Mutant: the byte is read and stays.
PopScancodeKeeps ==
  /\ pc = "pop"
  /\ pc' = IF RingIsEmpty(ring) THEN "poll" ELSE "read"
  /\ intr' = TRUE
  /\ UNCHANGED <<frameVars, map, portVars, status, takeVars, left>>

\* ... try_pop, unlock, sti.  A byte is printed and the inner loop goes on; on
\* an empty ring read_scancode polls.
PopScancode ==
  /\ pc = "pop"
  /\ IF RingIsEmpty(ring) THEN pc' = "poll" /\ UNCHANGED ring
     ELSE pc' = "read" /\ ring' = PopRest(ring)
  /\ intr' = TRUE
  /\ UNCHANGED <<frameVars, map, portVars, status, takers, left>>

\* read_scancode_poll_port reads the status ...
PollStatus ==
  /\ pc = "poll"
  /\ IF port.full THEN pc' = "data" /\ status' = IF port.aux THEN "aux" ELSE "key"
     ELSE pc' = "halt" /\ UNCHANGED status
  /\ UNCHANGED <<frameVars, map, intr, portVars, takeVars, left>>

\* ... and then the data, whatever is there by now: the interrupt may have taken
\* the byte, and then the port still shows it or a later one.  What is read is
\* returned as a key, or dropped, by the status read before.
PollData ==
  /\ pc = "data"
  /\ port' = [port EXCEPT !.full = FALSE]
  /\ takers' = IF port.aux THEN takers
               ELSE IF status = "key" THEN Append(takers, "poll")
               ELSE IF port.full THEN Append(takers, "dropped") ELSE takers
  /\ pc' = IF status = "key" THEN "read" ELSE "halt"
  /\ status' = "none"
  /\ UNCHANGED <<frameVars, map, intr, irq1, sent, ring, left>>

Hlt ==
  /\ pc = "halt"
  /\ pc' = "hlt"
  /\ UNCHANGED <<frameVars, map, intr, portVars, status, takeVars, left>>

-----------------------------------------------------------------------------

\* map_user_stack
MapUserStack ==
  /\ pc = "stack"
  /\ TakeFrames(StackFrames, "image")
  /\ UNCHANGED <<map, intr, portVars, status, takeVars, left>>

\* load_elf of the built-in image.  Out of frames it fails, and then the expect
\* of map_user_blob does too.
LoadElf ==
  /\ pc = "image"
  /\ TakeFrames(ImageFrames, "process")
  /\ UNCHANGED <<map, intr, portVars, status, takeVars, left>>

\* map_user_blob after an image that load_elf refused: before it mapped anything,
\* or with the segment mapped, so that map_to of the text page fails and with it
\* the expect.
MapUserBlob ==
  /\ pc = "image"
  /\ TakeFrames(1, "process") \/ TakeFrames(ImageFrames + 1, "panic")
  /\ UNCHANGED <<map, intr, portVars, status, takeVars, left>>

\* process::init boxes the first process.
ProcessInit ==
  /\ pc = "process"
  /\ pc' = "sched"
  /\ UNCHANGED <<frameVars, map, intr, portVars, status, takeVars, left>>

\* scheduler::init, and iretq to ring 3.
SchedulerInit ==
  /\ pc = "sched"
  /\ pc' = "user"
  /\ UNCHANGED <<frameVars, map, intr, portVars, status, takeVars, left>>

BootStep ==
  \/ MemoryInit \/ HeapInit \/ FrameTest \/ InterruptsInit
  \/ WindowTest \/ LockRing \/ PopScancode \/ PollStatus \/ PollData \/ Hlt
  \/ MapUserStack \/ LoadElf \/ MapUserBlob \/ ProcessInit \/ SchedulerInit

Next ==
  \/ BootStep
  \/ \E byte \in Keys, aux \in BOOLEAN : ByteArrives(byte, aux)
  \/ KeyboardIrq \/ TimerIrq \/ IrqSpins

Spec == Init /\ [][Next]_vars

\* The CPU executes the next instruction and the PIT keeps ticking.
FairSpec == Spec /\ WF_vars(BootStep) /\ WF_vars(TimerIrq)

-----------------------------------------------------------------------------

TypeOK ==
  /\ used \subseteq Frames /\ freeCount \in 0 .. NumFrames
  /\ pc \in Places /\ intr \in BOOLEAN /\ irq1 \in BOOLEAN
  /\ port \in [full : BOOLEAN, aux : BOOLEAN, byte : Keys \cup {NoByte}]
  /\ status \in {"none", "aux", "key"}
  /\ ring.head \in 0 .. (RingSize - 1) /\ ring.tail \in 0 .. (RingSize - 1)
  /\ left \in 0 .. Window
  /\ sent \in 0 .. MaxBytes /\ takers \in Seq({"irq", "poll", "dropped"})

\* Whatever the memory map says, the allocator holds only frames of usable
\* regions, and never frame 0 or video memory ("Never hand out physical page 0",
\* src/memory.rs), and its counter is exact from the scan on.
FreeIsUsable ==
  pc # "memory" => /\ FreeFrames \subseteq UsableFrames(map) \ ({0} \cup Video)
                   /\ freeCount = Cardinality(FreeFrames)

\* What becomes of a key byte when interrupt and polling interleave: none is lost
\* in the controller, the interrupt passes each on at most once and never one that
\* polling has had.  Polling returns a byte a second time only if the interrupt took
\* it between the two port reads, and drops one only if it came between them.
KeyFates ==
  /\ takers \in {<<>>, <<"irq">>, <<"poll">>, <<"dropped">>, <<"irq", "poll">>}
  /\ takers = <<>> <=> sent = 0 \/ (port.full /\ ~port.aux)

\* The ring is a queue: the interrupt appends, or drops the byte when RingSize - 1
\* bytes wait; the boot code takes the oldest.
RingIsFifo ==
  [][LET old == RingContents(ring)  new == RingContents(ring)'
     IN  IF takers' = Append(takers, "irq")
         THEN new = IF Len(old) < RingSize - 1 THEN Append(old, port.byte) ELSE old
         ELSE new = old \/ (old # <<>> /\ new = Tail(old))
    ]_vars

\* "Uses `cli` so it does not race the IRQ" (src/keyboard.rs): no handler spins
\* while the boot code is in the keyboard window.
WindowNeverSpins ==
  [][pc' = "hung" => pc \in {"process", "sched", "hung"}]_vars

\* Boot comes to ring 3, unless an expect fails or a handler spins: neither the
\* window nor a halt in it lasts for ever.
BootEnds == <>(pc \in {"user", "panic", "hung"})

=============================================================================
