---------------------------- MODULE SyscallFrame ----------------------------
(***************************************************************************)
(* The path of a task's registers through a system call: the pushes of     *)
(* syscall_entry, SyscallSaved::save_from_dispatch_rsp in the tail,        *)
(* restore_to_kstack for the task that runs next, and the pops of          *)
(* syscall_user_return (src/syscall.rs, src/task.rs, src/scheduler.rs).    *)
(*                                                                         *)
(* A kernel stack is the function from i to the word at top - 8*i; word 0  *)
(* is the one just above the stack.  Which task runs next is left open:    *)
(* module Scheduler decides it.  Register values are symbolic: UserWord    *)
(* tells the task, the register and one of a few generations apart.        *)
(***************************************************************************)
EXTENDS Integers

CONSTANTS
  Tasks,   \* processes, by slot
  Init0,   \* the task that enters ring 3 at boot
  Gens,    \* generations of register contents a program may load
  NoRegs,  \* no system call entered yet
  NewImage \* execve has replaced the program that entered

ASSUME FrameAssumption == Init0 \in Tasks

\* Word offsets of SyscallSaved's fields from dispatch_rsp, as documented on
\* save_from_dispatch_rsp and used by it and by restore_to_kstack.
Offset ==
  [user_rsp |-> 10, user_rip |-> 9, user_rflags |-> 8, rbx |-> 7, rbp |-> 6,
   r12 |-> 5, r13 |-> 4, r14 |-> 3, r15 |-> 2]

\* The registers the frame is about: %rsp, %rip (in rcx), %rflags (in r11) and
\* the callee-saved ones, under the names of SyscallSaved.
Fields == DOMAIN Offset

UserWord(t, f, g) == <<"user", t, f, g>>
StackTop(t)       == <<"kstack_top", t>>
Above             == <<"above_kstack">>
RetAddr           == <<"ret">>
Zero              == <<"zero">>
Bootstrap(f)      == <<"bootstrap", f>>
Sampled(f)        == <<"sampled", f>>
Ret(t, g)         == <<"rax", t, g>>

Words ==
  {Above, RetAddr, Zero}
  \cup {UserWord(t, f, g) : t \in Tasks, f \in Fields, g \in Gens}
  \cup {StackTop(t) : t \in Tasks}
  \cup {Bootstrap(f) : f \in Fields} \cup {Sampled(f) : f \in Fields}
  \cup {Ret(t, g) : t \in Tasks, g \in Gens}

VARIABLES
  live,        \* tasks with a process table entry
  current,     \* CURRENT_SLOT
  kstackTop,   \* the task whose stack CURRENT_KSTACK_TOP points at
  cpu,         \* the registers of Fields
  rax,
  kstack,      \* Process::kstack, its topmost words
  saved,       \* Process::save
  pendingRax,  \* Process::pending_rax
  phase,       \* "user", "dispatch", "tail", or "resumed": back in ring 3
  atEntry,     \* history: the registers with which a task's program entered the
               \* kernel, NoRegs or NewImage
  returned     \* history: what its system call returned

vars == <<live, current, kstackTop, cpu, rax, kstack, saved, pendingRax,
          phase, atEntry, returned>>

\* SyscallSaved::bootstrap_user clears the callee-saved registers.
BootstrapUser ==
  [f \in Fields |-> IF f \in {"user_rsp", "user_rip", "user_rflags"}
                    THEN Bootstrap(f) ELSE Zero]

\* The first task enters ring 3 with iretq, not through a frame.
Init ==
  /\ live = {Init0} /\ current = Init0 /\ kstackTop = Init0
  /\ cpu = BootstrapUser
  /\ rax = Zero
  /\ kstack = [t \in Tasks |-> [i \in 0 .. 11 |-> IF i = 0 THEN Above ELSE Zero]]
  /\ saved = [t \in Tasks |-> BootstrapUser]
  /\ pendingRax = [t \in Tasks |-> Zero]
  /\ phase = "user"
  /\ atEntry = [t \in Tasks |-> NoRegs]
  /\ returned = [t \in Tasks |-> Zero]

-----------------------------------------------------------------------------

\* save_from_dispatch_rsp, with dispatch_rsp = top - 8*base.
SaveFromDispatchRsp(words, base) == [f \in Fields |-> words[base - Offset[f]]]

\* restore_to_kstack writes from top - 88 upwards: the return address, a zero
\* pad and the fields.
RestoreToKstack(words, s) ==
  [i \in 0 .. 11 |->
     IF i = 11 THEN RetAddr
     ELSE IF i = 10 THEN Zero
     ELSE IF \E f \in Fields : 11 - Offset[f] = i
     THEN s[CHOOSE f \in Fields : 11 - Offset[f] = i]
     ELSE words[i]]

\* Mutant: the pops start at the return address.
PopFrameUnskipped(words) == [f \in Fields |-> words[13 - Offset[f]]]

\* syscall_user_return from rsp = top - 88: eight bytes are skipped, then r15,
\* r14 ... rcx and rsp are popped from top - 80 upwards.
PopFrame(words) == [f \in Fields |-> words[12 - Offset[f]]]

\* syscall_entry loads CURRENT_KSTACK_TOP into r14, then pushes user_rsp, rcx,
\* r11, rbx, rbp, r12, r13, r14 and r15 from top - 8 downwards; the call of
\* syscall_dispatch leaves its return address at top - 88.
PushFrame(words, regs, top) ==
  [i \in 0 .. 11 |->
     IF i = 11 THEN RetAddr
     ELSE IF \E f \in Fields : 11 - Offset[f] = i
     THEN LET f == CHOOSE f \in Fields : 11 - Offset[f] = i
          IN  IF f = "r14" THEN top ELSE regs[f]
     ELSE words[i]]

-----------------------------------------------------------------------------

\* The program runs and loads its registers.
UserRuns(g) ==
  /\ phase \in {"user", "resumed"}
  /\ phase' = "user"
  /\ cpu' = [f \in Fields |-> UserWord(current, f, g)]
  /\ UNCHANGED <<live, current, kstackTop, rax, kstack, saved, pendingRax,
                 atEntry, returned>>

SyscallEntry ==
  /\ phase \in {"user", "resumed"}
  /\ phase' = "dispatch"
  /\ kstack' = [kstack EXCEPT
                  ![kstackTop] = PushFrame(@, cpu, StackTop(kstackTop))]
  /\ cpu' = [cpu EXCEPT !["r14"] = StackTop(kstackTop)]
  /\ atEntry' = [atEntry EXCEPT ![current] = cpu]
  /\ UNCHANGED <<live, current, kstackTop, rax, saved, pendingRax, returned>>

\* A handler that only returns a value.
DispatchReturns(g) ==
  /\ phase = "dispatch"
  /\ phase' = "tail"
  /\ rax' = Ret(current, g)
  /\ returned' = [returned EXCEPT ![current] = rax']
  /\ UNCHANGED <<live, current, kstackTop, cpu, kstack, saved, pendingRax,
                 atEntry>>

\* sys_fork takes its own rsp for dispatch_rsp, so the child's save holds words
\* of sys_fork's stack frame; user_rsp is mirrored into the child's stack.
DispatchFork(child, g) ==
  /\ phase = "dispatch"
  /\ child \notin live
  /\ phase' = "tail"
  /\ live' = live \cup {child}
  /\ saved' = [saved EXCEPT ![child] = [f \in Fields |-> Sampled(f)]]
  /\ pendingRax' = [pendingRax EXCEPT ![child] = Zero]
  /\ kstack' = [kstack EXCEPT
                  ![child] = [i \in 0 .. 11 |-> IF i = 0 THEN Above ELSE Zero]]
  /\ atEntry' = [atEntry EXCEPT ![child] = NoRegs]
  /\ rax' = Ret(current, g)
  /\ returned' = [returned EXCEPT ![current] = rax', ![child] = Zero]
  /\ UNCHANGED <<current, kstackTop, cpu>>

\* sys_execve whose load succeeds stores a bootstrap save for the caller; the tail
\* follows.  One that fails is DispatchReturns.
DispatchExec ==
  /\ phase = "dispatch"
  /\ phase' = "tail"
  /\ saved' = [saved EXCEPT ![current] = BootstrapUser]
  /\ pendingRax' = [pendingRax EXCEPT ![current] = Zero]
  /\ rax' = Zero
  /\ returned' = [returned EXCEPT ![current] = Zero]
  /\ atEntry' = [atEntry EXCEPT ![current] = NewImage]
  /\ UNCHANGED <<live, current, kstackTop, cpu, kstack>>

\* The second half of pick_next_and_restore: make next current, rebuild its
\* frame from its save s and pending value r, and return through it.
RestoreAndReturn(next, s, r) ==
  /\ current' = next
  /\ kstackTop' = next
  /\ kstack' = [kstack EXCEPT ![next] = RestoreToKstack(@, s)]
  /\ cpu' = PopFrame(kstack'[next])
  /\ rax' = r
  /\ phase' = "resumed"

\* Mutant: a task that has exited may be picked.
SyscallTailAny(next) ==
  /\ phase = "tail"
  /\ saved' = [saved EXCEPT
                 ![current] = SaveFromDispatchRsp(kstack[kstackTop], 10)]
  /\ pendingRax' = [pendingRax EXCEPT ![current] = rax]
  /\ RestoreAndReturn(next, saved'[next], pendingRax'[next])
  /\ UNCHANGED <<live, atEntry, returned>>

\* complete_syscall_and_schedule with dispatch_rsp = top - 80: syscall_entry
\* passes its own rsp, after the return address was popped.
SyscallTail(next) ==
  /\ phase = "tail"
  /\ next \in live
  /\ saved' = [saved EXCEPT
                 ![current] = SaveFromDispatchRsp(kstack[kstackTop], 10)]
  /\ pendingRax' = [pendingRax EXCEPT ![current] = rax]
  /\ RestoreAndReturn(next, saved'[next], pendingRax'[next])
  /\ UNCHANGED <<live, atEntry, returned>>

\* exit never reaches the tail; the next task is restored from its save.
DispatchExit(next) ==
  /\ phase = "dispatch"
  /\ next \in live \ {current}
  /\ live' = live \ {current}
  /\ RestoreAndReturn(next, saved[next], pendingRax[next])
  /\ UNCHANGED <<saved, pendingRax, atEntry, returned>>

Next ==
  \/ \E g \in Gens : UserRuns(g) \/ DispatchReturns(g)
  \/ SyscallEntry
  \/ \E child \in Tasks, g \in Gens : DispatchFork(child, g)
  \/ DispatchExec
  \/ \E next \in Tasks : SyscallTail(next) \/ DispatchExit(next)

Spec == Init /\ [][Next]_vars

-----------------------------------------------------------------------------

Regs == [Fields -> Words]

\* Types, and that the task made current by pick_next_and_restore is a live one.
TypeOK ==
  /\ live \subseteq Tasks /\ current \in live /\ kstackTop \in Tasks
  /\ cpu \in Regs /\ rax \in Words
  /\ kstack \in [Tasks -> [0 .. 11 -> Words]]
  /\ saved \in [Tasks -> Regs]
  /\ pendingRax \in [Tasks -> Words]
  /\ phase \in {"user", "dispatch", "tail", "resumed"}
  /\ atEntry \in [Tasks -> Regs \cup {NoRegs, NewImage}]
  /\ returned \in [Tasks -> Words]

\* The registers that come back as they were: syscall_entry overwrites r14 before
\* it is pushed, and r15 is popped from the word below its own.
Preserved == Fields \ {"r14", "r15"}

\* The program of t has made a system call that returns to it.
Called(t) == atEntry[t] \notin {NoRegs, NewImage}

\* Whatever other tasks did meanwhile, a task that returns from a system call, a
\* successful execve excepted, continues at its own rip with its own rsp, rflags,
\* rbx, rbp, r12 and r13, and finds its own result in rax.  The tail reads the
\* frame one word too high and syscall_user_return pops one word below what
\* restore_to_kstack wrote: the two shifts cancel.
ReturnsToCaller ==
  phase = "resumed" /\ Called(current) =>
    /\ \A f \in Preserved : cpu[f] = atEntry[current][f]
    /\ rax = returned[current]

\* "child stack is 0x402000..0x403000, RSP mirrored" (sys_fork): a child starts
\* with the stack pointer that sys_fork stored in its save.
ChildStartsOnItsStack ==
  phase = "resumed" /\ atEntry[current] = NoRegs =>
    cpu["user_rsp"] = saved[current]["user_rsp"]

\* "SysV amd64 initial stack: argc, argv[] ..." (build_exec_stack), which sys_execve
\* stores with the entry point for its caller: the new program starts at its entry
\* point, on the stack built for it.
ExecStartsNewProgram ==
  phase = "resumed" /\ atEntry[current] = NewImage =>
    \A f \in {"user_rip", "user_rsp"} : cpu[f] = Bootstrap(f)

=============================================================================
