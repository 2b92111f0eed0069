------------------------------ MODULE Console -------------------------------
(***************************************************************************)
(* Standard input after boot: the keyboard, its interrupt, the terminal    *)
(* and read(0, ...), on one CPU, at the grain of the locks that both the   *)
(* interrupted code and the interrupt handlers take.                       *)
(*                                                                         *)
(* A system call starts with interrupts masked.  A blocking read that      *)
(* finds no line executes sti; hlt and loops: from then on it, and its     *)
(* tail, run with interrupts enabled.  Handlers run to their end with      *)
(* interrupts masked, so a handler is one step; one that meets a lock held *)
(* by the code it interrupted spins for ever.                              *)
(***************************************************************************)
EXTENDS Keyboard, Tty, SequencesExt

CONSTANT MaxLen   \* longest read, 8192 in the code

ASSUME LenAssumption == MaxLen \in Nat \ {0}

VARIABLES
  wire,       \* codes of the last key event that the controller has not handed out
  full,       \* the controller's output buffer holds Head(wire)
  irq1,       \* IRQ1 is pending
  down,       \* history: the shift keys that are pressed
  ring,       \* SCANCODE_QUEUE
  tty,        \* TTY
  nonblock,   \* STDIN_NONBLOCK
  pc,         \* where the CPU is, see Places
  intr,       \* the interrupt flag
  want,       \* length of the read in progress
  got,        \* history: the bytes it has read
  waited      \* history: it has executed hlt

keyVars  == <<wire, full, irq1, down>>
callVars == <<pc, intr, want, got, waited>>
vars     == <<keyVars, ring, tty, nonblock, callVars>>

\* "user": ring 3;  "try": the read is about to lock TTY;  "locked": it holds
\* TTY;  "empty": it has found nothing;  "hlt": halted;  "tail": about to lock
\* SCHED;  "sched": the tail holds SCHED;  "hung": a handler spins on a lock.
Places == {"user", "try", "locked", "empty", "hlt", "tail", "sched", "hung"}

\* The keyboard window of boot saw no key, or the ring has been emptied since.
Init ==
  /\ wire = <<>> /\ full = FALSE /\ irq1 = FALSE /\ down = {}
  /\ ring = EmptyRing
  /\ tty = NewTty
  /\ nonblock = FALSE
  /\ pc = "user" /\ intr = TRUE /\ want = 0 /\ got = <<>> /\ waited = FALSE

-----------------------------------------------------------------------------

\* The codes of one key event: a make or break code, or E0 and one of either.
KeyEvents ==
  {<<c>> : c \in Makes \cup Breaks} \cup {<<"e0", c>> : c \in Makes \cup Breaks}

\* The keyboard reports an event.  An extended key never is a shift key: a code
\* that looks like one after E0 is a filler the keyboard inserts.
KeyEvent(e) ==
  /\ wire = <<>>
  /\ wire' = e
  /\ down' = CASE e = <<"lshift">>    -> down \cup {"lshift"}
               [] e = <<"rshift">>    -> down \cup {"rshift"}
               [] e = <<"lshift up">> -> down \ {"lshift"}
               [] e = <<"rshift up">> -> down \ {"rshift"}
               [] OTHER               -> down
  /\ UNCHANGED <<full, irq1, ring, tty, nonblock, callVars>>

\* The controller takes the next code and raises IRQ1.
CodeArrives ==
  /\ wire # <<>> /\ ~full
  /\ full' = TRUE /\ irq1' = TRUE
  /\ UNCHANGED <<wire, down, ring, tty, nonblock, callVars>>

\* Which handler would spin on a lock that the interrupted code holds.
TtyHeld == pc = "locked"

SchedHeld == pc = "sched"

\* An interrupt ends hlt.
AfterIrq == IF pc = "hlt" THEN "try" ELSE pc

\* keyboard_interrupt_handler, handle_keyboard_irq: the code goes to the ring
\* and to the terminal.  Without polling the output buffer is always full here.
\* Nobody reads the ring after boot, so its bytes are not told apart.
KeyboardIrq ==
  /\ intr /\ irq1
  /\ ~TtyHeld
  /\ irq1' = FALSE /\ full' = FALSE /\ wire' = Tail(wire)
  /\ ring' = TryPush(ring, "byte")
  /\ tty' = FeedScancode(tty, Head(wire))
  /\ pc' = AfterIrq
  /\ UNCHANGED <<down, nonblock, intr, want, got, waited>>

\* Mutant: a tick does not end hlt.
TimerIrqKeepsHalting ==
  /\ intr /\ ~SchedHeld
  /\ UNCHANGED vars

\* timer_interrupt_handler: here it matters only as what ends hlt.
TimerIrq ==
  /\ intr /\ ~SchedHeld
  /\ pc' = AfterIrq
  /\ UNCHANGED <<keyVars, ring, tty, nonblock, intr, want, got, waited>>

\* The handler spins on TTY, or on SCHED, for ever.
IrqSpins ==
  /\ intr
  /\ (irq1 /\ TtyHeld) \/ SchedHeld
  /\ pc' = "hung" /\ intr' = FALSE
  /\ UNCHANGED <<keyVars, ring, tty, nonblock, want, got, waited>>

-----------------------------------------------------------------------------

\* sys_open of /dev/stdin or /dev/tty with O_NONBLOCK: for every process, and
\* for good.
SysOpenNonblock ==
  /\ pc = "user"
  /\ nonblock' = TRUE
  /\ UNCHANGED <<keyVars, ring, tty, callVars>>

\* Mutant: SFMASK leaves the interrupt flag alone.
SysReadUnmasked(len) ==
  /\ pc = "user"
  /\ pc' = "try" /\ intr' = TRUE /\ want' = len /\ waited' = FALSE
  /\ UNCHANGED <<keyVars, ring, tty, nonblock, got>>

\* syscall_entry and the checks of sys_read, for a range that is accepted.
SysRead(len) ==
  /\ pc = "user"
  /\ pc' = "try" /\ intr' = FALSE /\ want' = len /\ waited' = FALSE
  /\ UNCHANGED <<keyVars, ring, tty, nonblock, got>>

LockTty ==
  /\ pc = "try"
  /\ pc' = "locked"
  /\ UNCHANGED <<keyVars, ring, tty, nonblock, intr, want, got, waited>>

\* tty::read with the lock held, to its release.  Zero bytes, be it for want of
\* a line or of room, send a blocking read to hlt; a non-blocking one returns.
TtyRead ==
  /\ pc = "locked"
  /\ IF tty.readyLines = <<>> THEN got' = <<>> /\ UNCHANGED tty
     ELSE got' = ReadBytes(tty, want) /\ tty' = ReadRest(tty, want)
  /\ pc' = IF got' = <<>> /\ ~nonblock THEN "empty" ELSE "tail"
  /\ UNCHANGED <<keyVars, ring, nonblock, intr, want, waited>>

\* enable_and_hlt: no interrupt is taken between the two instructions.
EnableAndHlt ==
  /\ pc = "empty"
  /\ pc' = "hlt" /\ intr' = TRUE /\ waited' = TRUE
  /\ UNCHANGED <<keyVars, ring, tty, nonblock, want, got>>

\* complete_syscall_and_schedule takes SCHED to turn the queue and to pick.
LockSched ==
  /\ pc = "tail"
  /\ pc' = "sched" /\ got' = <<>>
  /\ UNCHANGED <<keyVars, ring, tty, nonblock, intr, want, waited>>

\* ... releases it and returns to ring 3, where interrupts are enabled.
ReturnToUser ==
  /\ pc = "sched"
  /\ pc' = "user" /\ intr' = TRUE /\ want' = 0 /\ waited' = FALSE
  /\ UNCHANGED <<keyVars, ring, tty, nonblock, got>>

-----------------------------------------------------------------------------

ReadStep == LockTty \/ TtyRead \/ EnableAndHlt \/ LockSched \/ ReturnToUser

Next ==
  \/ \E e \in KeyEvents : KeyEvent(e)
  \/ CodeArrives
  \/ KeyboardIrq \/ TimerIrq \/ IrqSpins
  \/ SysOpenNonblock
  \/ \E len \in 0 .. MaxLen : SysRead(len)
  \/ ReadStep

Spec == Init /\ [][Next]_vars

\* The CPU executes the next instruction and the PIT keeps ticking.
FairSpec == Spec /\ WF_vars(ReadStep) /\ WF_vars(TimerIrq)

-----------------------------------------------------------------------------

\* Types, with the limits of the edit buffer and of the ready queue: the rest of
\* a line that read puts back never makes the queue longer than Enter may.
TypeOK ==
  /\ wire \in KeyEvents \cup {<<c>> : c \in Scancodes} \cup {<<>>}
  /\ full \in BOOLEAN /\ irq1 \in BOOLEAN /\ intr \in BOOLEAN
  /\ down \subseteq Shifts
  /\ ring.head \in 0 .. (RingSize - 1) /\ ring.tail \in 0 .. (RingSize - 1)
  /\ tty.lineEdit \in Seq(Chars) /\ Len(tty.lineEdit) <= LineBuf
  /\ Len(tty.readyLines) <= MaxReadyLines
  /\ pc \in Places /\ want \in 0 .. MaxLen
  /\ nonblock \in BOOLEAN /\ waited \in BOOLEAN

\* Once the codes of every key event have arrived, the terminal's shift flags
\* are the keyboard's, whatever extended keys and fillers came in between, and
\* no prefix is left to swallow the next key.
ShiftFollowsKeys ==
  wire = <<>> => /\ tty.shiftLeft <=> "lshift" \in down
                 /\ tty.shiftRight <=> "rshift" \in down
                 /\ ~tty.e0Prefix

\* A handler spins only on a system call that has waited: until its first hlt a
\* read runs with interrupts masked, locks, pops, and unlocks undisturbed.
SpinsOnlyAfterWait == pc = "hung" => waited

LS == INSTANCE LineStream WITH
        MaxEdit  <- LineBuf,
        MaxLines <- MaxReadyLines,
        edit     <- tty.lineEdit,
        stream   <- FlattenSeq(tty.readyLines)

\* Ring, prefix, shift state, interrupts and partial reads implement a stream of
\* lines: bytes are handed out once, in order and never beyond a line's end, and
\* a line is lost only when MAX_READY_LINES lines wait.
ImplementsLineStream == LS!Spec

\* A read that halts with room for a byte, while a line is ready, returns it or a
\* handler hangs: a line that comes in after the read has looked and before it
\* halts is found at the next tick.
ReadyLineIsRead ==
  pc = "hlt" /\ want > 0 /\ tty.readyLines # <<>> ~> pc \in {"tail", "hung"}

=============================================================================
