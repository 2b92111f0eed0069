----------------------------- MODULE Scheduler ------------------------------
(***************************************************************************)
(* The round-robin scheduler of src/scheduler.rs: the queue of runnable    *)
(* slots, the reschedule flag and the time slice.  The running process     *)
(* stays at the front of the queue while it runs; a switch happens only in *)
(* the tail of a system call or after an exit.                             *)
(*                                                                         *)
(* TICKS and last_started_tick are only ever compared by their difference, *)
(* so the model keeps that difference, capped at the slice: elapsed.       *)
(***************************************************************************)
EXTENDS ProcessTable, Sequences, FiniteSets

CONSTANT Slice   \* SLICE, 12 ticks in the code

ASSUME SliceAssumption == Slice \in Nat \ {0}

VARIABLES
  runnable,      \* SchedState::runnable
  needResched,   \* NEED_RESCHED
  elapsed,       \* min(TICKS - last_started_tick, Slice)
  mode           \* what the CPU is doing, see Modes

schedVars == <<runnable, needResched, elapsed, mode>>

\* "user": in ring 3;  "sleep", "stdin": a system call waits with hlt;
\* "idle": pick_next_and_restore found no process;
\* "panic": the panic handler's loop;  "halted": a fault handler's loop;
\* "hung": the timer interrupt spins on a lock that the interrupted code holds.
Modes == {"user", "sleep", "stdin", "idle", "panic", "halted", "hung"}

SchedInit ==
  /\ runnable = <<0>>
  /\ needResched = FALSE
  /\ elapsed = 0
  /\ mode = "user"

-----------------------------------------------------------------------------

InQueue(q, slot) == \E i \in DOMAIN q : q[i] = slot

\* enqueue_new_task's queue update.
Enqueue(q, slot) == IF InQueue(q, slot) THEN q ELSE Append(q, slot)

\* Mutant: the queue does not turn.
RotateNothing(q) == q

\* rotate_runnable: the front goes to the back.
Rotate(q) == IF q = <<>> THEN q ELSE Append(Tail(q), Head(q))

\* Mutant: the predicate of retain is inverted.
RetainOnly(q, slot) == SelectSeq(q, LAMBDA x : x = slot)

\* VecDeque::retain(|x| x != slot): the entries other than slot, in order.
\* The j-th entry kept is the one with j kept entries up to and including it.
Retain(q, slot) ==
  LET kept   == {i \in 1 .. Len(q) : q[i] # slot}
      nth(j) == CHOOSE i \in kept : Cardinality({k \in kept : k <= i}) = j
  IN  [j \in 1 .. Cardinality(kept) |-> q[nth(j)]]

\* on_timer_tick's two assignments, for the tick that now arrives.
TickSlice ==
  /\ elapsed' = IF elapsed < Slice THEN elapsed + 1 ELSE Slice
  /\ needResched' = (needResched \/ elapsed + 1 >= Slice)

\* Mutant: the process that will run is popped off the queue.
PickNextPops(t, q) ==
  LET live == {i \in 1 .. Len(q) : Alive(t, q[i])}
  IN  \/ /\ live = {}
         /\ runnable' = <<>>
         /\ mode' = "idle"
         /\ UNCHANGED currentSlot
      \/ \E i \in live :
         /\ \A j \in live : i <= j
         /\ runnable' = SubSeq(q, i + 1, Len(q))
         /\ currentSlot' = q[i]
         /\ mode' = "user"

\* pick_next_and_restore on table t and queue q: entries that are not alive
\* are popped off the front and the first alive one runs; without one, the CPU
\* idles in hlt with the current slot left as it was.
PickNext(t, q) ==
  LET live == {i \in 1 .. Len(q) : Alive(t, q[i])}
  IN  \/ /\ live = {}
         /\ runnable' = <<>>
         /\ mode' = "idle"
         /\ UNCHANGED currentSlot
      \/ \E i \in live :
         /\ \A j \in live : i <= j
         /\ runnable' = SubSeq(q, i, Len(q))
         /\ currentSlot' = q[i]
         /\ mode' = "user"

\* Mutant: the queue turns after the next process has been picked.
CompleteSyscallTurnsLate(t, q, resched, lateTick) ==
  /\ procs' = t
  /\ needResched' = (lateTick /\ resched /\ elapsed + 1 >= Slice)
  /\ elapsed' = IF resched THEN 0 ELSE elapsed
  /\ currentSlot' = Head(q)
  /\ mode' = "user"
  /\ runnable' = IF resched THEN Rotate(q) ELSE q

\* Mutant: the flag is taken but the slice is not restarted.
CompleteSyscallKeepsSlice(t, q, resched, lateTick) ==
  /\ procs' = t
  /\ needResched' = (lateTick /\ resched /\ elapsed + 1 >= Slice)
  /\ elapsed' = elapsed
  /\ PickNext(t, IF resched THEN Rotate(q) ELSE q)

\* complete_syscall_and_schedule, when the handler left table t, queue q and
\* reschedule flag resched: the flag is taken and, if it was up, the queue
\* turns and a new slice starts.  A handler that has waited in hlt returns here
\* with interrupts enabled, and then a tick can land between taking the flag and
\* restarting the slice: lateTick.
CompleteSyscall(t, q, resched, lateTick) ==
  /\ procs' = t
  /\ needResched' = (lateTick /\ resched /\ elapsed + 1 >= Slice)
  /\ elapsed' = IF resched THEN 0 ELSE elapsed
  /\ PickNext(t, IF resched THEN Rotate(q) ELSE q)

\* schedule_after_exit: the current slot leaves the queue and the next process
\* runs.  The flag is raised and stays up; the slice is not restarted.
ScheduleAfterExit(t) ==
  /\ procs' = t
  /\ needResched' = TRUE
  /\ PickNext(t, Retain(runnable, currentSlot))
  /\ UNCHANGED elapsed

=============================================================================
