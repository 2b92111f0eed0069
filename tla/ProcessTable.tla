---------------------------- MODULE ProcessTable ----------------------------
(***************************************************************************)
(* The process table of src/process.rs: a fixed array of slots, each empty *)
(* or holding a process with its PID, its parent's PID and whether it has  *)
(* exited.  The operators below are the table scans of the kernel; the     *)
(* system calls that use them are actions of module Kernel.                *)
(*                                                                         *)
(* Abstracted: saved registers and pending_rax (module SyscallFrame),      *)
(* brk_end and vm_areas (module AddressSpace), the value of an exit code.  *)
(***************************************************************************)
EXTENDS Integers

CONSTANTS
  MaxProcs,   \* slots of the table: 32 in the code
  PidLimit,   \* PIDs are below this bound: 1024 in the code
  NoProc      \* an empty slot, Option::None

Slots == 0 .. (MaxProcs - 1)

Pids == 1 .. (PidLimit - 1)

\* parent = 0 stands for Option::None, as getppid reports it.
Process == [pid : Pids, parent : {0} \cup Pids, exited : BOOLEAN]

ASSUME TableAssumption ==
  /\ MaxProcs \in Nat \ {0}
  /\ PidLimit \in Nat \ {0, 1}
  /\ NoProc \notin Process

VARIABLES
  procs,        \* TABLE
  currentSlot   \* CURRENT_SLOT

tableVars == <<procs, currentSlot>>

\* process::init: slot 0 holds init, PID 1, without a parent.
TableInit ==
  /\ procs = [s \in Slots |->
                IF s = 0 THEN [pid |-> 1, parent |-> 0, exited |-> FALSE]
                         ELSE NoProc]
  /\ currentSlot = 0

-----------------------------------------------------------------------------

Occupied(t) == {s \in Slots : t[s] # NoProc}

\* slot_is_alive_runnable: the slot holds a process without an exit code.
Alive(t, s) == s \in Occupied(t) /\ ~t[s].exited

\* current_pid falls back to 1 on an empty slot.
CurrentPid(t, s) == IF s \in Occupied(t) THEN t[s].pid ELSE 1

FreeSlots(t) == Slots \ Occupied(t)

\* ProcessTable::alloc_slot returns the first empty slot.  The table is built
\* with all its slots, so the branch that grows the vector is never taken.
IsAllocSlot(t, slot) ==
  /\ slot \in FreeSlots(t)
  /\ \A s \in FreeSlots(t) : slot <= s

\* Mutant: zombies no longer keep their PID.
FreePidsOfLive(t) ==
  {p \in 2 .. (PidLimit - 1) : \A s \in Slots : Alive(t, s) => t[s].pid # p}

FreePids(t) ==
  {p \in 2 .. (PidLimit - 1) : \A s \in Occupied(t) : t[s].pid # p}

\* alloc_pid returns the least PID from 2 on that no process, running or
\* exited, still carries.
IsAllocPid(t, pid) ==
  /\ pid \in FreePids(t)
  /\ \A p \in FreePids(t) : pid <= p

-----------------------------------------------------------------------------

\* The processes whose parent field carries PID me.
Children(t, me) == {s \in Occupied(t) : t[s].parent = me}

\* wait4's first argument: negative for any child, else one PID.
Matches(pid, target) == target < 0 \/ pid = target

\* Mutant: the exit code is not looked at.
ReapsRunning(t, me, target, slot) ==
  slot \in Children(t, me) /\ Matches(t[slot].pid, target)

\* Mutant: the parent is not looked at.
ReapsStrangers(t, me, target, slot) ==
  slot \in Occupied(t) /\ t[slot].exited /\ Matches(t[slot].pid, target)

\* wait_reap scans the slots upwards.  It gives up at the first child that has
\* not exited, whatever its PID, and skips exited children that do not match.
Reaps(t, me, target, slot) ==
  /\ slot \in Children(t, me)
  /\ t[slot].exited
  /\ Matches(t[slot].pid, target)
  /\ \A c \in Children(t, me) :
       c < slot => t[c].exited /\ ~Matches(t[c].pid, target)

\* mark_exited records the exit code of the process in a slot.
MarkExited(t, slot) ==
  IF slot \in Occupied(t) THEN [t EXCEPT ![slot].exited = TRUE] ELSE t

=============================================================================
