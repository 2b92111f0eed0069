------------------------- MODULE SyscallFrameProofs -------------------------
(***************************************************************************)
(* Theorems about SyscallFrame, for any number of tasks, any contents of   *)
(* the registers and any order in which tasks are switched.                *)
(*                                                                         *)
(* Save and return disagree by one word: the word that belongs to a field  *)
(* travels in the save of the field below it, and returns from there.      *)
(***************************************************************************)
EXTENDS SyscallFrame, TLAPS

\* The field in whose place of the save a preserved register travels.
Below ==
  [user_rsp |-> "user_rip", user_rip |-> "user_rflags", user_rflags |-> "rbx",
   rbx |-> "rbp", rbp |-> "r12", r12 |-> "r13", r13 |-> "r14"]

\* The save and the pending value of t bring it back to where it entered.
Parked(t) ==
  Called(t) =>
    /\ \A f \in Preserved : saved[t][Below[f]] = atEntry[t][f]
    /\ pendingRax[t] = returned[t]

\* Tasks that do not run are parked; the one that runs has its registers in its
\* own kernel stack from entry to tail, and its result in rax in the tail.
Inv ==
  /\ TypeOK
  /\ kstackTop = current
  /\ \A t \in live \ {current} : Parked(t)
  /\ phase \in {"dispatch", "tail"} /\ Called(current) =>
       \A f \in Preserved : kstack[current][11 - Offset[f]] = atEntry[current][f]
  /\ phase = "tail" => rax = returned[current]
  /\ ReturnsToCaller

-----------------------------------------------------------------------------

\* The fields, and that no two share an offset.
LEMMA FieldFacts ==
  /\ Fields = {"user_rsp", "user_rip", "user_rflags", "rbx", "rbp", "r12", "r13",
               "r14", "r15"}
  /\ \A f \in Fields : Offset[f] \in 2 .. 10
  /\ \A f, g \in Fields : Offset[f] = Offset[g] => f = g
  /\ Preserved \subseteq Fields
  /\ \A f \in Preserved : Below[f] \in Fields /\ Offset[Below[f]] = Offset[f] - 1
  /\ \A f \in Preserved : f # "r14"
<1>1. Fields = {"user_rsp", "user_rip", "user_rflags", "rbx", "rbp", "r12", "r13",
                "r14", "r15"}
  BY DEF Fields, Offset
<1>2. \A f \in Fields : Offset[f] \in 2 .. 10
  BY <1>1 DEF Offset
<1>3. \A f, g \in Fields : Offset[f] = Offset[g] => f = g
  BY <1>1 DEF Offset
<1>4. \A f \in Preserved : Below[f] \in Fields /\ Offset[Below[f]] = Offset[f] - 1
  BY <1>1 DEF Preserved, Offset, Below
<1> QED
  BY <1>1, <1>2, <1>3, <1>4 DEF Preserved

\* Which field's word is at an index of the frame.
LEMMA FieldAt ==
  ASSUME NEW f \in Fields
  PROVE  /\ 11 - Offset[f] \in 1 .. 9
         /\ \E g \in Fields : 11 - Offset[g] = 11 - Offset[f]
         /\ (CHOOSE g \in Fields : 11 - Offset[g] = 11 - Offset[f]) = f
<1>1. \A g \in Fields : 11 - Offset[g] = 11 - Offset[f] => g = f
  BY FieldFacts
<1> QED
  BY <1>1, FieldFacts

\* syscall_entry leaves each register but r14 at its offset.
LEMMA PushedWord ==
  ASSUME NEW words, NEW regs, NEW top, NEW f \in Preserved
  PROVE  PushFrame(words, regs, top)[11 - Offset[f]] = regs[f]
<1>1. f \in Fields /\ f # "r14"
  BY FieldFacts
<1> DEFINE i == 11 - Offset[f]
<1>2. i \in 0 .. 11 /\ i # 11 /\ (\E g \in Fields : 11 - Offset[g] = i)
      /\ (CHOOSE g \in Fields : 11 - Offset[g] = i) = f
  BY <1>1, FieldAt
<1> HIDE DEF i
<1>3. PushFrame(words, regs, top)[i] = regs[f]
  BY <1>1, <1>2 DEF PushFrame
<1> QED
  BY <1>3 DEF i

\* syscall_user_return finds a register in the place of the field below it.
LEMMA PoppedWord ==
  ASSUME NEW words, NEW s, NEW f \in Preserved
  PROVE  PopFrame(RestoreToKstack(words, s))[f] = s[Below[f]]
<1> DEFINE b == Below[f]
           i == 11 - Offset[b]
<1>1. f \in Fields /\ b \in Fields /\ 12 - Offset[f] = i
  BY FieldFacts
<1>2. i \in 0 .. 11 /\ i # 11 /\ i # 10 /\ (\E g \in Fields : 11 - Offset[g] = i)
      /\ (CHOOSE g \in Fields : 11 - Offset[g] = i) = b
  BY <1>1, FieldAt
<1> HIDE DEF i, b
<1>3. RestoreToKstack(words, s)[i] = s[b]
  BY <1>2 DEF RestoreToKstack
<1>4. PopFrame(RestoreToKstack(words, s))[f] = RestoreToKstack(words, s)[i]
  BY <1>1 DEF PopFrame
<1> QED
  BY <1>3, <1>4 DEF b

\* The tail saves a register in the place of the field below it.
LEMMA SavedWord ==
  ASSUME NEW words, NEW f \in Preserved
  PROVE  SaveFromDispatchRsp(words, 10)[Below[f]] = words[11 - Offset[f]]
<1>1. Below[f] \in Fields /\ 10 - Offset[Below[f]] = 11 - Offset[f]
  BY FieldFacts
<1> QED
  BY <1>1 DEF SaveFromDispatchRsp

-----------------------------------------------------------------------------

\* The words the operations of the frame put together are words.
LEMMA FrameTypes ==
  ASSUME NEW words \in [0 .. 11 -> Words], NEW regs \in Regs, NEW top \in Words
  PROVE  /\ PushFrame(words, regs, top) \in [0 .. 11 -> Words]
         /\ RestoreToKstack(words, regs) \in [0 .. 11 -> Words]
<1>1. {RetAddr, Zero, Above} \subseteq Words
  BY DEF Words
<1>2. ASSUME NEW i \in 0 .. 11, \E f \in Fields : 11 - Offset[f] = i
      PROVE  (CHOOSE f \in Fields : 11 - Offset[f] = i) \in Fields
  BY <1>2
<1>3. \A f \in Fields : regs[f] \in Words
  BY DEF Regs
<1>4. PushFrame(words, regs, top) \in [0 .. 11 -> Words]
  <2> SUFFICES ASSUME NEW i \in 0 .. 11
               PROVE  PushFrame(words, regs, top)[i] \in Words
    BY DEF PushFrame
  <2>1. CASE i # 11 /\ \E f \in Fields : 11 - Offset[f] = i
    <3> DEFINE f == CHOOSE f \in Fields : 11 - Offset[f] = i
    <3>1. f \in Fields
      BY <2>1, <1>2
    <3>2. PushFrame(words, regs, top)[i] = IF f = "r14" THEN top ELSE regs[f]
      BY <2>1 DEF PushFrame
    <3> HIDE DEF f
    <3> QED
      BY <3>1, <3>2, <1>3
  <2>2. CASE i = 11
    BY <2>2, <1>1 DEF PushFrame
  <2>3. CASE i # 11 /\ ~\E f \in Fields : 11 - Offset[f] = i
    BY <2>3 DEF PushFrame
  <2> QED
    BY <2>1, <2>2, <2>3
<1>5. RestoreToKstack(words, regs) \in [0 .. 11 -> Words]
  BY <1>1, <1>2, <1>3 DEF RestoreToKstack
<1> QED
  BY <1>4, <1>5

\* Both ways of reading a frame read words of it.
LEMMA ReadTypes ==
  ASSUME NEW words \in [0 .. 11 -> Words]
  PROVE  PopFrame(words) \in Regs /\ SaveFromDispatchRsp(words, 10) \in Regs
<1>1. \A f \in Fields : 12 - Offset[f] \in 0 .. 11 /\ 10 - Offset[f] \in 0 .. 11
  BY FieldFacts
<1> QED
  BY <1>1 DEF PopFrame, SaveFromDispatchRsp, Regs

\* The first task runs, and nobody is parked.
LEMMA InitInv == Init => Inv
<1> SUFFICES ASSUME Init PROVE Inv
  OBVIOUS
<1>1. BootstrapUser \in Regs
  BY DEF BootstrapUser, Regs, Words
<1>2. {Zero, Above} \subseteq Words
  BY DEF Words
<1>3. TypeOK
  BY <1>1, <1>2, FrameAssumption DEF Init, TypeOK
<1> QED
  BY <1>3, FrameAssumption DEF Init, Inv, ReturnsToCaller, Called

\* A task that runs loads its registers and enters the kernel.
LEMMA EntryKeeps ==
  ASSUME Inv, SyscallEntry \/ \E g \in Gens : UserRuns(g)
  PROVE  Inv'
<1> USE DEF Inv
<1>1. ASSUME NEW g \in Gens, UserRuns(g) PROVE Inv'
  <2>1. cpu' \in Regs
    BY <1>1 DEF UserRuns, TypeOK, Regs, Words
  <2>2. TypeOK'
    BY <1>1, <2>1 DEF UserRuns, TypeOK
  <2> QED
    BY <1>1, <2>2 DEF UserRuns, Parked, ReturnsToCaller, Called
<1>2. CASE SyscallEntry
  <2>1. current \in Tasks /\ StackTop(current) \in Words
    BY DEF TypeOK, Words
  <2>2. TypeOK'
    <3>1. kstack' \in [Tasks -> [0 .. 11 -> Words]]
      BY <1>2, <2>1, FrameTypes DEF SyscallEntry, TypeOK
    <3>2. cpu' \in Regs
      BY <1>2, <2>1 DEF SyscallEntry, TypeOK, Regs
    <3> QED
      BY <1>2, <3>1, <3>2 DEF SyscallEntry, TypeOK
  <2>3. \A t \in live' \ {current'} : Parked(t)'
    BY <1>2 DEF SyscallEntry, Parked, TypeOK, Called
  <2>4. \A f \in Preserved : kstack'[current][11 - Offset[f]] = cpu[f]
    BY <1>2, <2>1, PushedWord DEF SyscallEntry, TypeOK
  <2>5. atEntry'[current] = cpu
    BY <1>2, <2>1 DEF SyscallEntry, TypeOK
  <2> QED
    BY <1>2, <2>2, <2>3, <2>4, <2>5 DEF SyscallEntry, ReturnsToCaller
<1> QED
  BY <1>1, <1>2

\* A handler changes nothing of the caller's frame; a child has not entered yet.
LEMMA DispatchKeeps ==
  ASSUME Inv,
         \/ \E g \in Gens : DispatchReturns(g)
         \/ \E child \in Tasks, g \in Gens : DispatchFork(child, g)
         \/ DispatchExec
  PROVE  Inv'
<1> USE DEF Inv
<1>0. current \in Tasks
  BY DEF TypeOK
<1>1. ASSUME NEW g \in Gens, DispatchReturns(g) PROVE Inv'
  <2>1. Ret(current, g) \in Words
    BY <1>0 DEF Words
  <2>2. TypeOK'
    BY <1>0, <1>1, <2>1 DEF DispatchReturns, TypeOK
  <2>3. returned'[current] = rax' /\ \A t \in Tasks \ {current} : returned'[t] = returned[t]
    BY <1>0, <1>1 DEF DispatchReturns, TypeOK
  <2>4. \A t \in live' \ {current'} : Parked(t)'
    BY <1>1, <2>3 DEF DispatchReturns, Parked, TypeOK, Called
  <2> QED
    BY <1>1, <2>2, <2>3, <2>4 DEF DispatchReturns, ReturnsToCaller, Called
<1>2. ASSUME NEW child \in Tasks, NEW g \in Gens, DispatchFork(child, g) PROVE Inv'
  <2>1. Ret(current, g) \in Words /\ {Zero, Above} \subseteq Words
    BY <1>0 DEF Words
  <2>2. [f \in Fields |-> Sampled(f)] \in Regs
    BY DEF Regs, Words
  <2>3. child # current
    BY <1>2 DEF DispatchFork, TypeOK
  <2>4. TypeOK'
    <3>1. saved' \in [Tasks -> Regs] /\ pendingRax' \in [Tasks -> Words]
      BY <1>2, <2>1, <2>2 DEF DispatchFork, TypeOK
    <3>2. kstack' \in [Tasks -> [0 .. 11 -> Words]]
      BY <1>2, <2>1 DEF DispatchFork, TypeOK
    <3>3. /\ atEntry' \in [Tasks -> Regs \cup {NoRegs, NewImage}]
          /\ returned' \in [Tasks -> Words]
      BY <1>2, <2>1 DEF DispatchFork, TypeOK
    <3> QED
      BY <1>2, <2>1, <3>1, <3>2, <3>3 DEF DispatchFork, TypeOK
  <2>5. /\ returned'[current] = rax' /\ atEntry'[child] = NoRegs
        /\ kstack'[current] = kstack[current] /\ atEntry'[current] = atEntry[current]
    BY <1>0, <1>2, <2>3 DEF DispatchFork, TypeOK
  <2>6. ASSUME NEW t \in live \ {current} PROVE Parked(t)'
    <3>1. t \in Tasks /\ t # child /\ t # current
      BY <1>2 DEF DispatchFork, TypeOK
    <3>2. /\ atEntry'[t] = atEntry[t] /\ saved'[t] = saved[t]
          /\ pendingRax'[t] = pendingRax[t] /\ returned'[t] = returned[t]
      BY <1>2, <3>1 DEF DispatchFork, TypeOK
    <3> QED
      BY <3>2 DEF Parked, Called
  <2>7. \A t \in live' \ {current'} : Parked(t)'
    BY <1>2, <2>5, <2>6 DEF DispatchFork, Parked, Called
  <2> QED
    BY <1>2, <2>4, <2>5, <2>7 DEF DispatchFork, ReturnsToCaller, Called
<1>3. CASE DispatchExec
  <2>1. Zero \in Words /\ BootstrapUser \in Regs
    BY DEF Words, BootstrapUser, Regs
  <2>2. TypeOK'
    BY <1>3, <2>1 DEF DispatchExec, TypeOK
  <2>3. rax' = returned'[current] /\ ~Called(current)'
    BY <1>0, <1>3 DEF DispatchExec, TypeOK, Called
  <2>4. \A t \in live' \ {current'} : Parked(t)'
    BY <1>3 DEF DispatchExec, Parked, TypeOK, Called
  <2> QED
    BY <1>3, <2>2, <2>3, <2>4 DEF DispatchExec, ReturnsToCaller, Called
<1> QED
  BY <1>1, <1>2, <1>3

\* A task that is parked, and restored from its save, is back where it entered.
LEMMA RestoreKeeps ==
  ASSUME TypeOK, NEW next \in Tasks, NEW s \in Regs, NEW r \in Words,
         RestoreAndReturn(next, s, r),
         UNCHANGED <<atEntry, returned>>,
         Called(next) =>
           /\ \A f \in Preserved : s[Below[f]] = atEntry[next][f]
           /\ r = returned[next]
  PROVE  /\ ReturnsToCaller'
         /\ current' = next /\ kstackTop' = next /\ phase' = "resumed"
         /\ cpu' \in Regs /\ rax' \in Words
         /\ kstack' \in [Tasks -> [0 .. 11 -> Words]]
<1>1. kstack'[next] = RestoreToKstack(kstack[next], s)
  BY DEF RestoreAndReturn, TypeOK
<1>2. kstack[next] \in [0 .. 11 -> Words]
  BY DEF TypeOK
<1>3. RestoreToKstack(kstack[next], s) \in [0 .. 11 -> Words]
  <2>1. Zero \in Words
    BY DEF Words
  <2> QED
    BY <1>2, <2>1, FrameTypes
<1>4. kstack' \in [Tasks -> [0 .. 11 -> Words]]
  BY <1>3 DEF RestoreAndReturn, TypeOK
<1>5. cpu' = PopFrame(RestoreToKstack(kstack[next], s))
  BY <1>1 DEF RestoreAndReturn
<1>6. cpu' \in Regs
  BY <1>3, <1>5, ReadTypes
<1>7. \A f \in Preserved : cpu'[f] = s[Below[f]]
  BY <1>5, PoppedWord
<1> QED
  BY <1>4, <1>6, <1>7 DEF RestoreAndReturn, ReturnsToCaller, Called

\* The switch parks the task that leaves and restores a parked one.
LEMMA SwitchKeeps ==
  ASSUME Inv, NEW next \in Tasks, SyscallTail(next) \/ DispatchExit(next)
  PROVE  Inv'
<1> USE DEF Inv
<1>0. current \in Tasks
  BY DEF TypeOK
<1>1. CASE SyscallTail(next)
  <2> DEFINE own == SaveFromDispatchRsp(kstack[current], 10)
  <2>1. own \in Regs
    BY <1>0, ReadTypes DEF TypeOK
  <2>2. Called(current) => \A f \in Preserved : own[Below[f]] = atEntry[current][f]
    BY <1>1, SavedWord DEF SyscallTail
  <2>3. /\ saved' = [saved EXCEPT ![current] = own]
        /\ pendingRax' = [pendingRax EXCEPT ![current] = rax]
        /\ RestoreAndReturn(next, saved'[next], pendingRax'[next])
        /\ UNCHANGED <<live, atEntry, returned>> /\ next \in live /\ phase = "tail"
    BY <1>1 DEF SyscallTail
  <2> HIDE DEF own
  <2>4. saved' \in [Tasks -> Regs] /\ pendingRax' \in [Tasks -> Words]
    BY <2>1, <2>3 DEF TypeOK
  <2>5. ASSUME NEW t \in live \ {current} PROVE Parked(t)'
    <3>1. t \in Tasks /\ saved'[t] = saved[t] /\ pendingRax'[t] = pendingRax[t]
      BY <2>3 DEF TypeOK
    <3> QED
      BY <2>3, <3>1 DEF Parked, Called
  <2>6. \A t \in live : Parked(t)'
    <3>1. saved'[current] = own /\ pendingRax'[current] = returned[current]
      BY <1>0, <2>3 DEF TypeOK
    <3>2. ASSUME NEW t, t = current PROVE Parked(t)'
      BY <2>2, <2>3, <3>1, <3>2 DEF Parked, Called
    <3> QED
      BY <2>5, <3>2
  <2>7. /\ ReturnsToCaller'
        /\ current' = next /\ kstackTop' = next /\ phase' = "resumed"
        /\ cpu' \in Regs /\ rax' \in Words
        /\ kstack' \in [Tasks -> [0 .. 11 -> Words]]
    <3>1. saved'[next] \in Regs /\ pendingRax'[next] \in Words
      BY <2>4
    <3>2. Called(next) =>
            /\ \A f \in Preserved : saved'[next][Below[f]] = atEntry[next][f]
            /\ pendingRax'[next] = returned[next]
      BY <2>3, <2>6 DEF Parked, Called
    <3> QED
      BY <2>3, <3>1, <3>2, RestoreKeeps
  <2>8. TypeOK'
    BY <2>3, <2>4, <2>7 DEF TypeOK
  <2> QED
    BY <2>3, <2>6, <2>7, <2>8
<1>2. CASE DispatchExit(next)
  <2>1. /\ next \in live \ {current} /\ live' = live \ {current}
        /\ RestoreAndReturn(next, saved[next], pendingRax[next])
        /\ UNCHANGED <<saved, pendingRax, atEntry, returned>>
    BY <1>2 DEF DispatchExit
  <2>2. /\ ReturnsToCaller'
        /\ current' = next /\ kstackTop' = next /\ phase' = "resumed"
        /\ cpu' \in Regs /\ rax' \in Words
        /\ kstack' \in [Tasks -> [0 .. 11 -> Words]]
    <3>1. saved[next] \in Regs /\ pendingRax[next] \in Words
      BY DEF TypeOK
    <3>2. Parked(next)
      BY <2>1
    <3> QED
      BY <2>1, <3>1, <3>2, RestoreKeeps DEF Parked
  <2>3. TypeOK'
    BY <2>1, <2>2 DEF TypeOK
  <2>4. \A t \in live' \ {current'} : Parked(t)'
    BY <2>1 DEF Parked, Called
  <2> QED
    BY <2>2, <2>3, <2>4
<1> QED
  BY <1>1, <1>2

-----------------------------------------------------------------------------

\* The invariant of the frame holds at any time.
THEOREM FrameInv == Spec => []Inv
<1>1. Inv /\ [Next]_vars => Inv'
  <2>1. ASSUME Inv, UNCHANGED vars PROVE Inv'
    BY <2>1 DEF Inv, vars, TypeOK, Parked, ReturnsToCaller, Called
  <2> QED
    BY <2>1, EntryKeeps, DispatchKeeps, SwitchKeeps DEF Next
<1> QED
  BY <1>1, InitInv, PTL DEF Spec

\* The state of the frame is well typed, and a live task is current.
THEOREM FrameTypeCorrect == Spec => []TypeOK
<1>1. Inv => TypeOK
  BY DEF Inv
<1> QED BY <1>1, FrameInv, PTL

\* For any number of tasks, a system call that does not replace the program
\* returns to where it was made with the preserved registers and its own result.
THEOREM ReturnCorrect == Spec => []ReturnsToCaller
<1>1. Inv => ReturnsToCaller
  BY DEF Inv
<1> QED BY <1>1, FrameInv, PTL

=============================================================================
