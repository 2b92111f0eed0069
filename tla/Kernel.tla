------------------------------- MODULE Kernel -------------------------------
(***************************************************************************)
(* Processes, system calls and the timer of the kernel, composed from the  *)
(* process table and the scheduler.                                        *)
(*                                                                         *)
(* A system call enters with interrupts masked (SFMASK), so a handler and  *)
(* its tail run as one step, except where the handler itself re-enables    *)
(* interrupts and halts: nanosleep and a blocking read of standard input   *)
(* are a step into mode "sleep" or "stdin" and a step out of it, and every *)
(* other process waits meanwhile.                                          *)
(*                                                                         *)
(* Processes are taken to run arbitrary programs: any system call may come *)
(* at any time, and the program may fault, which stops the machine.        *)
(***************************************************************************)
EXTENDS Scheduler

CONSTANT MaxSleep   \* bound on the ticks of one nanosleep

ASSUME SleepAssumption == MaxSleep \in Nat \ {0}

VARIABLES
  sleepLeft,   \* ticks until the deadline of the nanosleep in progress
  orphans      \* history: occupied slots whose forking process has exited

vars == <<tableVars, schedVars, sleepLeft, orphans>>

Init ==
  /\ TableInit
  /\ SchedInit
  /\ sleepLeft = 0
  /\ orphans = {}

-----------------------------------------------------------------------------

\* sys_fork: the child takes the least free PID and the first free slot, with
\* the caller as parent, and joins the back of the queue; both enqueueing and
\* note_yield raise the flag, so the tail turns the queue.
\* The handler samples its own stack pointer, not the frame of the system
\* call, so whether the sampled user_rsp lies in the stack page, and with it
\* whether the stack copy succeeds, is a free choice: SysForkFail.
SysFork ==
  /\ mode = "user"
  /\ \E pid \in Pids, slot \in Slots :
       LET child == [pid    |-> pid,
                     parent |-> CurrentPid(procs, currentSlot),
                     exited |-> FALSE]
       IN  /\ IsAllocPid(procs, pid)
           /\ IsAllocSlot(procs, slot)
           /\ CompleteSyscall([procs EXCEPT ![slot] = child],
                              Enqueue(runnable, slot), TRUE, FALSE)
  /\ UNCHANGED <<sleepLeft, orphans>>

\* sys_fork's -ENOMEM returns: no PID, no frame, or the stack copy failed.
SysForkFail ==
  /\ mode = "user"
  /\ CompleteSyscall(procs, runnable, needResched, FALSE)
  /\ UNCHANGED <<sleepLeft, orphans>>

\* alloc_slot().unwrap() on a full table: the panic handler loops with
\* interrupts masked.
SysForkPanic ==
  /\ mode = "user"
  /\ FreeSlots(procs) = {}
  /\ FreePids(procs) # {}
  /\ mode' = "panic"
  /\ UNCHANGED <<tableVars, runnable, needResched, elapsed, sleepLeft, orphans>>

\* exit_and_schedule: the caller becomes a zombie and leaves the queue.
SysExit ==
  /\ mode = "user"
  /\ ScheduleAfterExit(MarkExited(procs, currentSlot))
  /\ orphans' = orphans \cup Children(procs, CurrentPid(procs, currentSlot))
  /\ UNCHANGED sleepLeft

\* sys_wait4 when wait_reap finds a child: its slot is cleared first, and only
\* then is the status pointer checked, so the success and the -EFAULT return
\* leave the same table.
SysWait4Reap(target) ==
  /\ mode = "user"
  /\ \E slot \in Slots :
       /\ Reaps(procs, CurrentPid(procs, currentSlot), target, slot)
       /\ CompleteSyscall([procs EXCEPT ![slot] = NoProc],
                          runnable, needResched, FALSE)
       /\ orphans' = orphans \ {slot}
  /\ UNCHANGED sleepLeft

\* sys_wait4 when wait_reap finds none: -EAGAIN.
SysWait4Again(target) ==
  /\ mode = "user"
  /\ \A slot \in Slots :
       ~Reaps(procs, CurrentPid(procs, currentSlot), target, slot)
  /\ CompleteSyscall(procs, runnable, needResched, FALSE)
  /\ UNCHANGED <<sleepLeft, orphans>>

\* sched_yield raises the flag that the tail then takes.
SysSchedYield ==
  /\ mode = "user"
  /\ CompleteSyscall(procs, runnable, TRUE, FALSE)
  /\ UNCHANGED <<sleepLeft, orphans>>

\* sys_nanosleep past its argument checks: at least one tick.
SysNanosleep ==
  /\ mode = "user"
  /\ mode' = "sleep"
  /\ sleepLeft' \in 1 .. MaxSleep
  /\ UNCHANGED <<tableVars, runnable, needResched, elapsed, orphans>>

NanosleepDone ==
  /\ mode = "sleep"
  /\ sleepLeft = 0
  /\ \E lateTick \in BOOLEAN :
       CompleteSyscall(procs, runnable, needResched, lateTick)
  /\ UNCHANGED <<sleepLeft, orphans>>

\* fs::sys_read of fd 0 without O_NONBLOCK while no line is ready.
SysReadStdin ==
  /\ mode = "user"
  /\ mode' = "stdin"
  /\ UNCHANGED <<tableVars, runnable, needResched, elapsed, sleepLeft, orphans>>

\* The keyboard has delivered a line and the read returns it.
StdinLine ==
  /\ mode = "stdin"
  /\ \E lateTick \in BOOLEAN :
       CompleteSyscall(procs, runnable, needResched, lateTick)
  /\ UNCHANGED <<sleepLeft, orphans>>

\* The tail of a call that has waited runs with interrupts enabled, and so does
\* the idle loop after its first hlt: a tick that lands while rotate_runnable or
\* pick_next_and_restore holds SCHED spins in on_timer_tick for ever.
TickHitsSchedLock ==
  /\ mode \in {"stdin", "idle"} \/ (mode = "sleep" /\ sleepLeft = 0)
  /\ mode' = "hung"
  /\ UNCHANGED <<tableVars, runnable, needResched, elapsed, sleepLeft, orphans>>

\* Every system call that leaves processes and queue alone: getpid, getppid,
\* write, open, close, brk, mmap, munmap, execve, non-blocking reads, errors.
SysOther ==
  /\ mode = "user"
  /\ CompleteSyscall(procs, runnable, needResched, FALSE)
  /\ UNCHANGED <<sleepLeft, orphans>>

\* A fault in ring 3 ends in a handler that masks interrupts and halts.
UserFault ==
  /\ mode = "user"
  /\ mode' = "halted"
  /\ UNCHANGED <<tableVars, runnable, needResched, elapsed, sleepLeft, orphans>>

\* Mutant: the deadline of nanosleep is tested for equality, and ticks on.
TimerTickOverruns ==
  /\ mode \in {"user", "sleep", "stdin", "idle"}
  /\ TickSlice
  /\ sleepLeft' = IF mode = "sleep" THEN sleepLeft - 1 ELSE sleepLeft
  /\ UNCHANGED <<tableVars, runnable, mode, orphans>>

\* timer_interrupt_handler: in ring 3, or in the kernel inside hlt.
TimerTick ==
  /\ mode \in {"user", "sleep", "stdin", "idle"}
  /\ TickSlice
  /\ sleepLeft' = IF mode = "sleep" /\ sleepLeft > 0 THEN sleepLeft - 1
                                                     ELSE sleepLeft
  /\ UNCHANGED <<tableVars, runnable, mode, orphans>>

-----------------------------------------------------------------------------

Targets == {-1} \cup Pids

\* A system call of the running process, or the end of one that waited.
Syscall ==
  \/ SysFork \/ SysForkFail \/ SysForkPanic
  \/ SysExit
  \/ \E target \in Targets : SysWait4Reap(target) \/ SysWait4Again(target)
  \/ SysSchedYield
  \/ SysNanosleep \/ NanosleepDone
  \/ SysReadStdin \/ StdinLine
  \/ SysOther

Next == Syscall \/ UserFault \/ TimerTick \/ TickHitsSchedLock

Spec == Init /\ [][Next]_vars

\* The PIT keeps ticking and, as an assumption on the programs and on whoever
\* types, every process makes another system call and every read gets its line.
FairSpec == Spec /\ WF_vars(TimerTick) /\ WF_vars(Syscall)

-----------------------------------------------------------------------------

\* Types of the process, scheduler and clock state, and the bound of a sleep: the
\* deadline of nanosleep is never overrun.
TypeOK ==
  /\ procs \in [Slots -> Process \cup {NoProc}]
  /\ currentSlot \in Slots
  /\ runnable \in Seq(Slots)
  /\ needResched \in BOOLEAN
  /\ elapsed \in 0 .. Slice
  /\ mode \in Modes
  /\ sleepLeft \in 0 .. MaxSleep
  /\ orphans \subseteq Slots

\* No two occupied slots carry the same PID, zombies included: alloc_pid may
\* reuse a PID only after wait_reap has cleared the slot that carried it.
PidsUnique ==
  \A s, r \in Occupied(procs) : procs[s].pid = procs[r].pid => s = r

\* The run queue holds every live process exactly once and nothing else: no
\* process is lost by fork, exit, rotation or reaping, and none runs twice per
\* round.  It is why pick_next_and_restore never meets a stale entry.
QueueIsAlive ==
  /\ \A i, j \in DOMAIN runnable : runnable[i] = runnable[j] => i = j
  /\ \A s \in Slots : InQueue(runnable, s) <=> Alive(procs, s)

\* A process runs, or waits inside a system call.
OnCpu == mode \in {"user", "sleep", "stdin"}

\* While a process runs or waits inside its system call, CURRENT_SLOT names it,
\* it is alive and it is the front of the queue: the tail that saves registers
\* by CURRENT_SLOT and turns the queue acts on one and the same process.
FrontRuns ==
  OnCpu => runnable # <<>> /\ Head(runnable) = currentSlot

\* The kernel idles only when every process has exited, so the hlt loop of
\* pick_next_and_restore never keeps a runnable process waiting.
IdleIsFinal ==
  mode = "idle" => runnable = <<>> /\ \A s \in Slots : ~Alive(procs, s)

\* Until the process that forked it exits, a process's parent field names a
\* live process: getppid and wait_reap look up the right one.
ParentAlive ==
  \A s \in Occupied(procs) \ orphans :
    \/ procs[s].parent = 0
    \/ \E p \in Slots : Alive(procs, p) /\ procs[p].pid = procs[s].parent

\* The life of a slot: a process keeps its PID and parent and becomes a zombie
\* only by its own exit; the slot empties only when a zombie is reaped by the
\* running process that carries its parent's PID, never under the kernel stack
\* in use.
SlotLife(s) ==
  LET p == procs[s]  q == procs'[s]
  IN  /\ p # NoProc /\ q # NoProc =>
           /\ q.pid = p.pid /\ q.parent = p.parent
           /\ p.exited => q.exited
           /\ q.exited /\ ~p.exited => s = currentSlot
      /\ p # NoProc /\ q = NoProc =>
           p.exited /\ p.parent = procs[currentSlot].pid /\ s # currentSlot

SlotLifeCycle == [][\A s \in Slots : SlotLife(s)]_vars

\* "wait4 returns EAGAIN when no zombie child" (src/scheduler.rs): a process that
\* gets EAGAIN for any child has no zombie child.
EagainMeansNoZombie ==
  LET me == CurrentPid(procs, currentSlot)
  IN  mode = "user" /\ (\A s \in Slots : ~Reaps(procs, me, -1, s)) =>
        \A s \in Children(procs, me) : ~procs[s].exited

Stopped == mode \in {"panic", "halted", "hung"}

\* Every live process keeps getting the CPU until it exits or the machine
\* stops: time slices, yields, forks and exits never starve it.
EveryProcessRuns ==
  \A s \in Slots :
    Alive(procs, s) ~> \/ mode = "user" /\ currentSlot = s
                       \/ ~Alive(procs, s)
                       \/ Stopped

-----------------------------------------------------------------------------

RR == INSTANCE RoundRobin WITH
        Tasks   <- Slots,
        First   <- 0,
        ring    <- runnable,
        zombies <- {s \in Occupied(procs) : procs[s].exited},
        stopped <- Stopped

\* A process whose slice has run out completes no further system call and keeps
\* the CPU ahead of the others, however calls, waits, late ticks and exits
\* interleave: the first return to ring 3 is to the next process of the ring or,
\* when it is alone, starts a new slice.
SliceIsEnforced ==
  [][elapsed = Slice /\ mode' = "user" =>
       RR!MoveOn \/ (Len(runnable) = 1 /\ elapsed' = 0)]_vars

\* Table, queue, flag and slice together implement a round-robin ring: an exit
\* removes exactly the running process and keeps the order of the others, a
\* child gets its first turn before its parent's next one, and a zombie stays
\* until it is reaped.
ImplementsRoundRobin == RR!Spec

\* The flag that ticks, yields and forks raise makes the ring move on: the front
\* does not keep the CPU for ever while others wait.
ImplementsFairness == RR!Fairness

=============================================================================
