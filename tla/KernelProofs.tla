---------------------------- MODULE KernelProofs ----------------------------
(***************************************************************************)
(* Proofs about Kernel for every number of slots, PIDs, slice and sleep    *)
(* bound.  Inv below is the inductive invariant; each system call ends in  *)
(* CompleteSyscall or ScheduleAfterExit, so the lemmas describe those two  *)
(* once and the step theorem cites them per action.                        *)
(***************************************************************************)
EXTENDS Kernel, SequenceTheorems, FiniteSetTheorems, TLAPS

\* Queue q lists the live processes of table t, each once.
Lists(q, t) ==
  /\ q \in Seq(Slots)
  /\ \A i, j \in 1 .. Len(q) : q[i] = q[j] => i = j
  /\ \A s \in Slots : (\E i \in 1 .. Len(q) : q[i] = s) <=> Alive(t, s)

Tables == [Slots -> Process \cup {NoProc}]

-----------------------------------------------------------------------------
(* Sequences *)

\* Removing the front of a queue without repetitions by value, as retain does,
\* is removing its first entry.
LEMMA RetainFront ==
  ASSUME NEW q \in Seq(Slots), q # <<>>,
         \A i, j \in 1 .. Len(q) : q[i] = q[j] => i = j
  PROVE  Retain(q, Head(q)) = Tail(q)
<1> DEFINE n == Len(q)
           kept == {i \in 1 .. n : q[i] # Head(q)}
           nth(j) == CHOOSE i \in kept : Cardinality({k \in kept : k <= i}) = j
<1>1. n \in Nat /\ n >= 1 /\ Head(q) = q[1]
  BY EmptySeq, HeadTailProperties
<1>2. kept = 2 .. n
  BY <1>1
<1>3. Cardinality(kept) = n - 1
  <2>1. Cardinality(2 .. n) = n - 1
    BY <1>1, FS_Interval
  <2> HIDE DEF kept
  <2> QED
    BY <1>2, <2>1
<1>4. ASSUME NEW i \in kept
      PROVE  Cardinality({k \in kept : k <= i}) = i - 1
  <2>1. {k \in kept : k <= i} = 2 .. i
    BY <1>1, <1>2
  <2>2. i \in 2 .. n
    BY <1>2
  <2>3. Cardinality(2 .. i) = i - 1
    BY <1>1, <2>2, FS_Interval
  <2> HIDE DEF kept
  <2> QED
    BY <2>1, <2>3
<1>5. ASSUME NEW j \in 1 .. (n - 1)
      PROVE  nth(j) = j + 1
  <2>1. j + 1 \in kept
    BY <1>1, <1>2
  <2>2. \A i \in kept : Cardinality({k \in kept : k <= i}) = j <=> i = j + 1
    BY <1>1, <1>2, <1>4
  <2> HIDE DEF kept
  <2> QED
    BY <2>1, <2>2
<1>6. Retain(q, Head(q)) = [j \in 1 .. (n - 1) |-> q[j + 1]]
  <2>1. Retain(q, Head(q)) = [j \in 1 .. Cardinality(kept) |-> q[nth(j)]]
    BY DEF Retain
  <2> HIDE DEF kept, nth
  <2> QED
    BY <1>3, <1>5, <2>1
<1>7. Tail(q) = [j \in 1 .. (n - 1) |-> q[j + 1]]
  <2>1. /\ Tail(q) \in Seq(Slots) /\ Len(Tail(q)) = n - 1
        /\ \A j \in 1 .. Len(Tail(q)) : Tail(q)[j] = q[j + 1]
    BY HeadTailProperties
  <2>2. Tail(q) \in [1 .. (n - 1) -> Slots]
    BY <2>1, LenProperties
  <2> QED
    BY <2>1, <2>2
<1> QED
  BY <1>6, <1>7

\* Turning the queue keeps it a list of the same processes, still not empty.
LEMMA RotateLists ==
  ASSUME NEW q, NEW t, Lists(q, t), q # <<>>
  PROVE  Lists(Rotate(q), t) /\ Rotate(q) # <<>>
<1> DEFINE n == Len(q)
           r == Append(Tail(q), Head(q))
<1>1. q \in Seq(Slots) /\ n \in Nat /\ n >= 1 /\ Head(q) = q[1] /\ Head(q) \in Slots
  BY EmptySeq, HeadTailProperties DEF Lists
<1>2. /\ Tail(q) \in Seq(Slots) /\ Len(Tail(q)) = n - 1
      /\ \A i \in 1 .. (n - 1) : Tail(q)[i] = q[i + 1]
  BY <1>1, HeadTailProperties
<1>3. /\ r \in Seq(Slots) /\ r # <<>> /\ Len(r) = n
      /\ \A i \in 1 .. (n - 1) : r[i] = q[i + 1]
      /\ r[n] = q[1]
  BY <1>1, <1>2, AppendProperties
<1>4. Rotate(q) = r
  BY DEF Rotate
<1> HIDE DEF r
<1>5. ASSUME NEW i \in 1 .. n, NEW j \in 1 .. n, r[i] = r[j]
      PROVE  i = j
  <2>1. \A k, l \in 1 .. n : q[k] = q[l] => k = l
    BY DEF Lists
  <2>2. CASE i = n /\ j # n
    <3>1. j + 1 \in 1 .. n /\ q[j + 1] = q[1]
      BY <1>1, <1>3, <1>5, <2>2
    <3> QED BY <1>1, <2>1, <3>1
  <2>3. CASE i # n /\ j = n
    <3>1. i + 1 \in 1 .. n /\ q[i + 1] = q[1]
      BY <1>1, <1>3, <1>5, <2>3
    <3> QED BY <1>1, <2>1, <3>1
  <2>4. CASE i # n /\ j # n
    <3>1. i + 1 \in 1 .. n /\ j + 1 \in 1 .. n /\ q[i + 1] = q[j + 1]
      BY <1>1, <1>3, <1>5, <2>4
    <3> QED BY <1>1, <2>1, <3>1
  <2> QED BY <2>2, <2>3, <2>4
<1>6. ASSUME NEW s \in Slots
      PROVE  (\E i \in 1 .. n : r[i] = s) <=> (\E i \in 1 .. n : q[i] = s)
  <2>1. ASSUME NEW i \in 1 .. n, r[i] = s PROVE \E k \in 1 .. n : q[k] = s
    <3>1. CASE i = n
      BY <1>1, <1>3, <2>1, <3>1
    <3>2. CASE i # n
      BY <1>1, <1>3, <2>1, <3>2
    <3> QED BY <3>1, <3>2
  <2>2. ASSUME NEW i \in 1 .. n, q[i] = s PROVE \E k \in 1 .. n : r[k] = s
    <3>1. CASE i = 1
      BY <1>1, <1>3, <2>2, <3>1
    <3>2. CASE i # 1
      <4>1. i - 1 \in 1 .. (n - 1) /\ r[i - 1] = q[i]
        BY <1>1, <1>3, <3>2
      <4> QED BY <1>1, <2>2, <4>1
    <3> QED BY <3>1, <3>2
  <2> QED BY <2>1, <2>2
<1> QED
  BY <1>3, <1>4, <1>5, <1>6 DEF Lists

\* Appending the slot of a new live process extends the list by that process.
LEMMA EnqueueLists ==
  ASSUME NEW q, NEW t \in Tables, Lists(q, t),
         NEW slot \in FreeSlots(t), NEW child \in Process, ~child.exited
  PROVE  /\ Lists(Enqueue(q, slot), [t EXCEPT ![slot] = child])
         /\ Enqueue(q, slot) # <<>>
<1> DEFINE n == Len(q)
           r == Append(q, slot)
           u == [t EXCEPT ![slot] = child]
<1>1. slot \in Slots /\ ~Alive(t, slot) /\ q \in Seq(Slots) /\ n \in Nat
  BY LenProperties DEF FreeSlots, Alive, Lists
<1>2. /\ r \in Seq(Slots) /\ r # <<>> /\ Len(r) = n + 1
      /\ \A i \in 1 .. n : r[i] = q[i]
      /\ r[n + 1] = slot
  BY <1>1, AppendProperties
<1>3. \A i \in 1 .. n : q[i] # slot
  BY <1>1 DEF Lists
<1>4. Enqueue(q, slot) = r
  BY <1>1, <1>3, LenProperties DEF Enqueue, InQueue
<1>5. \A s \in Slots : Alive(u, s) <=> s = slot \/ Alive(t, s)
  BY <1>1, TableAssumption DEF Alive, Occupied, Tables
<1> HIDE DEF r, u
<1>6. \A i, j \in 1 .. (n + 1) : r[i] = r[j] => i = j
  BY <1>1, <1>2, <1>3 DEF Lists
<1>7. ASSUME NEW s \in Slots
      PROVE  (\E i \in 1 .. (n + 1) : r[i] = s)
               <=> s = slot \/ \E i \in 1 .. n : q[i] = s
  BY <1>1, <1>2
<1>8. Lists(r, u)
  BY <1>2, <1>5, <1>6, <1>7 DEF Lists
<1> QED
  BY <1>2, <1>4, <1>8 DEF u

\* When the process at the front exits, the rest of the queue lists the rest.
LEMMA ExitLists ==
  ASSUME NEW q, NEW t \in Tables, Lists(q, t), q # <<>>
  PROVE  Lists(Tail(q), MarkExited(t, Head(q)))
<1> DEFINE n == Len(q)
           h == Head(q)
           u == MarkExited(t, h)
<1>1. q \in Seq(Slots) /\ n \in Nat /\ n >= 1 /\ h = q[1] /\ h \in Slots
  BY EmptySeq, HeadTailProperties DEF Lists
<1>2. /\ Tail(q) \in Seq(Slots) /\ Len(Tail(q)) = n - 1
      /\ \A i \in 1 .. (n - 1) : Tail(q)[i] = q[i + 1]
  BY <1>1, HeadTailProperties
<1>3. h \in Occupied(t)
  BY <1>1 DEF Lists, Alive
<1>4. \A s \in Slots : Alive(u, s) <=> s # h /\ Alive(t, s)
  BY <1>1, <1>3, TableAssumption
     DEF MarkExited, Alive, Occupied, Tables, Process
<1> HIDE DEF u
<1>5. \A i, j \in 1 .. (n - 1) : Tail(q)[i] = Tail(q)[j] => i = j
  BY <1>1, <1>2 DEF Lists
<1>6. ASSUME NEW s \in Slots
      PROVE  (\E i \in 1 .. (n - 1) : Tail(q)[i] = s)
               <=> s # h /\ \E i \in 1 .. n : q[i] = s
  <2>1. ASSUME NEW i \in 1 .. (n - 1), Tail(q)[i] = s
        PROVE  s # h /\ \E k \in 1 .. n : q[k] = s
    BY <1>1, <1>2, <2>1 DEF Lists
  <2>2. ASSUME s # h, NEW i \in 1 .. n, q[i] = s
        PROVE  \E k \in 1 .. (n - 1) : Tail(q)[k] = s
    <3>1. i - 1 \in 1 .. (n - 1) /\ Tail(q)[i - 1] = q[i]
      BY <1>1, <1>2, <2>2
    <3> QED BY <2>2, <3>1
  <2> QED BY <2>1, <2>2
<1>7. Lists(Tail(q), u)
  BY <1>2, <1>4, <1>5, <1>6 DEF Lists
<1> QED
  BY <1>7 DEF u


-----------------------------------------------------------------------------
(* The scheduler *)

\* With a live process at the front, pick_next_and_restore pops nothing and
\* runs that process.
LEMMA PickNextFront ==
  ASSUME NEW t, NEW q, Lists(q, t), q # <<>>, PickNext(t, q)
  PROVE  /\ runnable' = q /\ currentSlot' = Head(q) /\ mode' = "user"
         /\ Head(q) \in Slots
<1> DEFINE live == {i \in 1 .. Len(q) : Alive(t, q[i])}
<1>1. /\ q \in Seq(Slots) /\ Len(q) \in Nat /\ Len(q) >= 1
      /\ Head(q) = q[1] /\ Head(q) \in Slots
  BY EmptySeq, HeadTailProperties DEF Lists
<1>2. 1 \in live
  BY <1>1 DEF Lists
<1>3. PICK i \in live : /\ \A j \in live : i <= j
                        /\ runnable' = SubSeq(q, i, Len(q))
                        /\ currentSlot' = q[i]
                        /\ mode' = "user"
  BY <1>2 DEF PickNext
<1>4. i = 1
  BY <1>1, <1>2, <1>3
<1> QED
  BY <1>1, <1>3, <1>4, SubSeqFull

\* With an empty queue it idles.
LEMMA PickNextEmpty ==
  ASSUME NEW t, PickNext(t, <<>>)
  PROVE  runnable' = <<>> /\ mode' = "idle" /\ currentSlot' = currentSlot
<1>1. {i \in 1 .. Len(<<>>) : Alive(t, <<>>[i])} = {}
  BY EmptySeq
<1> QED
  BY <1>1 DEF PickNext

\* The tail of a system call leaves a queue that lists the live processes and
\* runs its front.
LEMMA TailSchedules ==
  ASSUME NEW t, NEW q, NEW resched \in BOOLEAN, NEW late \in BOOLEAN,
         Lists(q, t), q # <<>>, elapsed \in 0 .. Slice,
         CompleteSyscall(t, q, resched, late)
  PROVE  /\ procs' = t
         /\ Lists(runnable', t) /\ runnable' # <<>>
         /\ currentSlot' = Head(runnable') /\ currentSlot' \in Slots
         /\ mode' = "user"
         /\ needResched' \in BOOLEAN
         /\ elapsed' \in 0 .. Slice
         /\ elapsed' = IF resched THEN 0 ELSE elapsed
<1> DEFINE r == IF resched THEN Rotate(q) ELSE q
<1>1. Lists(r, t) /\ r # <<>>
  BY RotateLists
<1>2. PickNext(t, r)
  BY DEF CompleteSyscall
<1> HIDE DEF r
<1>3. /\ runnable' = r /\ currentSlot' = Head(r) /\ mode' = "user"
      /\ Head(r) \in Slots
  BY <1>1, <1>2, PickNextFront
<1>4. /\ procs' = t
      /\ elapsed' = IF resched THEN 0 ELSE elapsed
      /\ needResched' \in BOOLEAN
  BY DEF CompleteSyscall
<1>5. elapsed' \in 0 .. Slice
  BY <1>4, SliceAssumption
<1> QED
  BY <1>1, <1>3, <1>4, <1>5

\* After an exit the queue lists the remaining processes; it runs its front,
\* or idles when there is none.
LEMMA ExitSchedules ==
  ASSUME procs \in Tables, Lists(runnable, procs), runnable # <<>>,
         currentSlot = Head(runnable),
         ScheduleAfterExit(MarkExited(procs, currentSlot))
  PROVE  /\ procs' = MarkExited(procs, currentSlot)
         /\ Lists(runnable', procs')
         /\ needResched' = TRUE /\ elapsed' = elapsed
         /\ \/ /\ runnable' # <<>> /\ mode' = "user"
               /\ currentSlot' = Head(runnable') /\ currentSlot' \in Slots
            \/ /\ runnable' = <<>> /\ mode' = "idle"
               /\ currentSlot' = currentSlot
<1> DEFINE t == MarkExited(procs, currentSlot)
           q == Tail(runnable)
<1>1. Retain(runnable, currentSlot) = q
  BY RetainFront DEF Lists
<1>2. Lists(q, t)
  BY ExitLists
<1>3. procs' = t /\ needResched' = TRUE /\ elapsed' = elapsed /\ PickNext(t, q)
  BY <1>1 DEF ScheduleAfterExit
<1> HIDE DEF t, q
<1>4. CASE q # <<>>
  BY <1>2, <1>3, <1>4, PickNextFront DEF t
<1>5. CASE q = <<>>
  BY <1>2, <1>3, <1>5, PickNextEmpty DEF t
<1> QED
  BY <1>4, <1>5

-----------------------------------------------------------------------------
(* The inductive invariant *)

\* Neither FrontRuns nor QueueIsAlive is inductive alone: an exit removes the
\* right entry only because the caller is the front and occurs once, and the
\* queue keeps listing the live processes only because the caller is one.
Inv == TypeOK /\ PidsUnique /\ QueueIsAlive /\ FrontRuns /\ IdleIsFinal

USE DEF OnCpu

\* What Inv says of the queue, in the form of the lemmas above.
LEMMA InvLists ==
  ASSUME TypeOK
  PROVE  QueueIsAlive <=> Lists(runnable, procs)
BY LenProperties DEF TypeOK, QueueIsAlive, Lists, InQueue

\* While a process is on the CPU, the current slot holds a live process, and
\* current_pid is its PID.
LEMMA CurrentAlive ==
  ASSUME Inv, OnCpu
  PROVE  /\ Alive(procs, currentSlot) /\ currentSlot \in Occupied(procs)
         /\ CurrentPid(procs, currentSlot) = procs[currentSlot].pid
         /\ procs[currentSlot] \in Process
<1>1. Lists(runnable, procs) /\ runnable # <<>> /\ currentSlot = Head(runnable)
  BY InvLists DEF Inv, FrontRuns
<1>2. runnable \in Seq(Slots) /\ Len(runnable) >= 1 /\ Head(runnable) = runnable[1]
  BY <1>1, EmptySeq, HeadTailProperties DEF Lists
<1>3. Alive(procs, currentSlot)
  BY <1>1, <1>2, LenProperties DEF Lists, Inv, TypeOK
<1> QED
  BY <1>3 DEF Alive, Occupied, CurrentPid, Inv, TypeOK

\* A step that ends in ring 3 with its queue in order re-establishes Inv.
LEMMA Running ==
  ASSUME procs' \in Tables, PidsUnique',
         Lists(runnable', procs'), runnable' # <<>>,
         currentSlot' = Head(runnable'), currentSlot' \in Slots,
         mode' = "user", needResched' \in BOOLEAN, elapsed' \in 0 .. Slice,
         sleepLeft' \in 0 .. MaxSleep, orphans' \subseteq Slots
  PROVE  Inv'
<1>1. TypeOK'
  BY DEF TypeOK, Tables, Lists, Modes
<1>2. QueueIsAlive'
  BY <1>1, LenProperties DEF QueueIsAlive, Lists, InQueue
<1>3. FrontRuns' /\ IdleIsFinal'
  BY DEF FrontRuns, IdleIsFinal
<1> QED
  BY <1>1, <1>2, <1>3 DEF Inv

\* A tail on an unchanged table.
LEMMA PlainTail ==
  ASSUME Inv, OnCpu, NEW resched \in BOOLEAN, NEW late \in BOOLEAN,
         CompleteSyscall(procs, runnable, resched, late),
         UNCHANGED <<sleepLeft, orphans>>
  PROVE  Inv'
<1>1. Lists(runnable, procs) /\ runnable # <<>> /\ elapsed \in 0 .. Slice
  BY InvLists DEF Inv, FrontRuns, TypeOK
<1>2. /\ procs' = procs
      /\ Lists(runnable', procs) /\ runnable' # <<>>
      /\ currentSlot' = Head(runnable') /\ currentSlot' \in Slots
      /\ mode' = "user" /\ needResched' \in BOOLEAN /\ elapsed' \in 0 .. Slice
  BY <1>1, TailSchedules
<1>3. PidsUnique'
  BY <1>2 DEF Inv, PidsUnique, Occupied
<1> QED
  BY <1>2, <1>3, Running DEF Inv, TypeOK, Tables

\* sys_fork keeps the invariant: the child's slot was free, its PID unused, and
\* the queue had no entry for it.
LEMMA ForkInv ==
  ASSUME Inv, SysFork
  PROVE  Inv'
<1>1. PICK pid \in Pids, slot \in Slots :
        LET child == [pid    |-> pid,
                      parent |-> CurrentPid(procs, currentSlot),
                      exited |-> FALSE]
        IN  /\ IsAllocPid(procs, pid)
            /\ IsAllocSlot(procs, slot)
            /\ CompleteSyscall([procs EXCEPT ![slot] = child],
                               Enqueue(runnable, slot), TRUE, FALSE)
  BY DEF SysFork
<1> DEFINE child == [pid    |-> pid,
                     parent |-> CurrentPid(procs, currentSlot),
                     exited |-> FALSE]
           t == [procs EXCEPT ![slot] = child]
           q == Enqueue(runnable, slot)
<1>2. mode = "user" /\ UNCHANGED <<sleepLeft, orphans>>
  BY DEF SysFork
<1>3. child \in Process /\ ~child.exited
  BY <1>2, CurrentAlive DEF Process
<1>4. slot \in FreeSlots(procs) /\ pid \in FreePids(procs)
  BY <1>1 DEF IsAllocSlot, IsAllocPid
<1>5. procs \in Tables /\ Lists(runnable, procs) /\ elapsed \in 0 .. Slice
  BY InvLists DEF Inv, TypeOK, Tables
<1>6. t \in Tables
  BY <1>3, <1>5 DEF Tables
<1>7. Lists(q, t) /\ q # <<>>
  BY <1>3, <1>4, <1>5, EnqueueLists
<1>8. CompleteSyscall(t, q, TRUE, FALSE)
  BY <1>1
<1>9. child.pid = pid
  OBVIOUS
<1> HIDE DEF child
<1>10. /\ t[slot] = child
       /\ \A s \in Slots : s # slot => t[s] = procs[s]
  BY <1>5 DEF Tables
<1> HIDE DEF t, q
<1>11. /\ procs' = t
       /\ Lists(runnable', t) /\ runnable' # <<>>
       /\ currentSlot' = Head(runnable') /\ currentSlot' \in Slots
       /\ mode' = "user" /\ needResched' \in BOOLEAN /\ elapsed' \in 0 .. Slice
  BY <1>5, <1>7, <1>8, TailSchedules
<1>12. PidsUnique'
  <2>1. SUFFICES ASSUME NEW s \in Occupied(t), NEW r \in Occupied(t),
                        t[s].pid = t[r].pid
                 PROVE  s = r
    BY <1>11 DEF PidsUnique, Occupied
  <2>2. \A x \in Occupied(t) : x # slot => x \in Occupied(procs) /\ t[x] = procs[x]
    BY <1>10 DEF Occupied
  <2>3. \A x \in Occupied(procs) : procs[x].pid # pid
    BY <1>4 DEF FreePids
  <2>4. CASE s # slot /\ r # slot
    BY <2>1, <2>2, <2>4 DEF Inv, PidsUnique
  <2>5. CASE s = slot \/ r = slot
    BY <1>9, <1>10, <2>1, <2>2, <2>3, <2>5
  <2> QED BY <2>4, <2>5
<1> QED
  BY <1>2, <1>6, <1>11, <1>12, Running DEF Inv, TypeOK

\* Clearing a zombie's slot does not touch the queue.
LEMMA ReapInv ==
  ASSUME Inv, NEW target \in Targets, SysWait4Reap(target)
  PROVE  Inv'
<1>1. PICK slot \in Slots :
        /\ Reaps(procs, CurrentPid(procs, currentSlot), target, slot)
        /\ CompleteSyscall([procs EXCEPT ![slot] = NoProc],
                           runnable, needResched, FALSE)
        /\ orphans' = orphans \ {slot}
  BY DEF SysWait4Reap
<1> DEFINE t == [procs EXCEPT ![slot] = NoProc]
<1>2. mode = "user" /\ sleepLeft' = sleepLeft
  BY DEF SysWait4Reap
<1>3. /\ procs \in Tables /\ Lists(runnable, procs) /\ runnable # <<>>
      /\ elapsed \in 0 .. Slice /\ needResched \in BOOLEAN
  BY <1>2, InvLists DEF Inv, TypeOK, Tables, FrontRuns
<1>4. slot \in Occupied(procs) /\ procs[slot].exited
  BY <1>1 DEF Reaps, Children
<1>5. /\ t \in Tables
      /\ t[slot] = NoProc
      /\ \A s \in Slots : s # slot => t[s] = procs[s]
  BY <1>3 DEF Tables
<1>6. CompleteSyscall(t, runnable, needResched, FALSE)
  BY <1>1
<1> HIDE DEF t
<1>7. \A s \in Slots : Alive(t, s) <=> Alive(procs, s)
  BY <1>4, <1>5 DEF Alive, Occupied
<1>8. Lists(runnable, t)
  BY <1>3, <1>7 DEF Lists
<1>9. /\ procs' = t
      /\ Lists(runnable', t) /\ runnable' # <<>>
      /\ currentSlot' = Head(runnable') /\ currentSlot' \in Slots
      /\ mode' = "user" /\ needResched' \in BOOLEAN /\ elapsed' \in 0 .. Slice
  BY <1>3, <1>6, <1>8, TailSchedules
<1>10. PidsUnique'
  BY <1>5, <1>9 DEF PidsUnique, Occupied, Inv
<1> QED
  BY <1>1, <1>2, <1>5, <1>9, <1>10, Running DEF Inv, TypeOK

\* Marking the running process as exited keeps the table a table and its PIDs.
LEMMA ExitTable ==
  ASSUME Inv, OnCpu
  PROVE  LET t == MarkExited(procs, currentSlot)
         IN  /\ t \in Tables
             /\ Occupied(t) = Occupied(procs)
             /\ \A s \in Occupied(procs) : /\ t[s].pid = procs[s].pid
                                           /\ t[s].parent = procs[s].parent
             /\ \A s \in Slots : Alive(t, s) <=> s # currentSlot /\ Alive(procs, s)
             /\ \A s \in Slots : s # currentSlot => t[s] = procs[s]
             /\ t[currentSlot].exited
<1> DEFINE p == procs[currentSlot]
           t == [procs EXCEPT ![currentSlot] = [p EXCEPT !.exited = TRUE]]
<1>1. procs \in Tables /\ currentSlot \in Slots
  BY DEF Inv, TypeOK, Tables
<1>2. currentSlot \in Occupied(procs) /\ p \in Process
  BY CurrentAlive
<1>3. MarkExited(procs, currentSlot) = t
  BY <1>2 DEF MarkExited
<1>4. /\ [p EXCEPT !.exited = TRUE] \in Process
      /\ [p EXCEPT !.exited = TRUE].pid = p.pid
      /\ [p EXCEPT !.exited = TRUE].parent = p.parent
      /\ [p EXCEPT !.exited = TRUE].exited
  BY <1>2 DEF Process
<1>5. /\ t \in Tables
      /\ t[currentSlot] = [p EXCEPT !.exited = TRUE]
      /\ \A s \in Slots : s # currentSlot => t[s] = procs[s]
  BY <1>1, <1>4 DEF Tables
<1>6. t[currentSlot] # NoProc /\ procs[currentSlot] # NoProc
  BY <1>2, <1>4, <1>5, TableAssumption
<1> HIDE DEF t, p
<1>7. Occupied(t) = Occupied(procs)
  BY <1>5, <1>6 DEF Occupied
<1>8. \A s \in Occupied(procs) : /\ t[s].pid = procs[s].pid
                                 /\ t[s].parent = procs[s].parent
  BY <1>4, <1>5 DEF Occupied, p
<1>9. \A s \in Slots : Alive(t, s) <=> s # currentSlot /\ Alive(procs, s)
  BY <1>4, <1>5, <1>7 DEF Alive
<1> QED
  BY <1>3, <1>4, <1>5, <1>7, <1>8, <1>9

\* exit_and_schedule keeps the invariant, whether another process runs next or
\* the kernel idles.
LEMMA ExitInv ==
  ASSUME Inv, SysExit
  PROVE  Inv'
<1> DEFINE t == MarkExited(procs, currentSlot)
<1>1. /\ mode = "user" /\ ScheduleAfterExit(t) /\ sleepLeft' = sleepLeft
      /\ orphans' = orphans \cup Children(procs, CurrentPid(procs, currentSlot))
  BY DEF SysExit
<1>2. /\ procs \in Tables /\ Lists(runnable, procs) /\ runnable # <<>>
      /\ currentSlot = Head(runnable)
  BY <1>1, InvLists DEF Inv, TypeOK, Tables, FrontRuns
<1>3. /\ procs' = t /\ Lists(runnable', procs')
      /\ needResched' = TRUE /\ elapsed' = elapsed
      /\ \/ /\ runnable' # <<>> /\ mode' = "user"
            /\ currentSlot' = Head(runnable') /\ currentSlot' \in Slots
         \/ /\ runnable' = <<>> /\ mode' = "idle"
            /\ currentSlot' = currentSlot
  BY <1>1, <1>2, ExitSchedules
<1>4. /\ t \in Tables /\ Occupied(t) = Occupied(procs)
      /\ \A s \in Occupied(procs) : t[s].pid = procs[s].pid
  BY <1>1, ExitTable
<1> HIDE DEF t
<1>5. PidsUnique'
  BY <1>3, <1>4 DEF Inv, PidsUnique, Occupied
<1>6. orphans' \subseteq Slots
  BY <1>1 DEF Inv, TypeOK, Children, Occupied
<1>7. CASE mode' = "user"
  BY <1>1, <1>3, <1>4, <1>5, <1>6, <1>7, Running DEF Inv, TypeOK
<1>8. CASE mode' = "idle"
  <2>1. TypeOK'
    BY <1>1, <1>3, <1>4, <1>6, <1>8 DEF Inv, TypeOK, Tables, Lists, Modes
  <2>2. QueueIsAlive'
    BY <1>3, <2>1, LenProperties DEF QueueIsAlive, Lists, InQueue
  <2>3. FrontRuns'
    BY <1>8 DEF FrontRuns
  <2>4. IdleIsFinal'
    BY <1>3, <1>8, EmptySeq DEF IdleIsFinal, Lists
  <2> QED BY <1>5, <2>1, <2>2, <2>3, <2>4 DEF Inv
<1> QED
  BY <1>3, <1>7, <1>8

-----------------------------------------------------------------------------
(* Theorems *)

\* The state in which kernel_main enters ring 3.
LEMMA InitInv == Init => Inv
<1> SUFFICES ASSUME Init PROVE Inv
  OBVIOUS
<1> DEFINE p == [pid |-> 1, parent |-> 0, exited |-> FALSE]
<1>1. 0 \in Slots /\ 1 \in Pids
  BY TableAssumption DEF Slots, Pids
<1>2. p \in Process /\ ~p.exited
  BY <1>1 DEF Process
<1>3. p # NoProc
  BY <1>2, TableAssumption
<1>4. procs = [s \in Slots |-> IF s = 0 THEN p ELSE NoProc]
  BY DEF Init, TableInit
<1> HIDE DEF p
<1>5. procs[0] = p /\ \A s \in Slots : s # 0 => procs[s] = NoProc
  BY <1>1, <1>4
<1>6. procs \in [Slots -> Process \cup {NoProc}]
  BY <1>2, <1>4
<1>7. runnable \in Seq(Slots) /\ Len(runnable) = 1 /\ runnable[1] = 0
  BY <1>1 DEF Init, SchedInit
<1>8. TypeOK
  <2>1. elapsed \in 0 .. Slice /\ sleepLeft \in 0 .. MaxSleep
    BY SliceAssumption, SleepAssumption DEF Init, SchedInit
  <2>2. /\ needResched \in BOOLEAN /\ mode \in Modes /\ orphans \subseteq Slots
        /\ currentSlot \in Slots
    BY <1>1 DEF Init, SchedInit, TableInit, Modes
  <2> QED BY <1>6, <1>7, <2>1, <2>2 DEF TypeOK
<1>9. PidsUnique
  BY <1>5 DEF PidsUnique, Occupied
<1>10. Lists(runnable, procs)
  <2>1. \A s \in Slots : Alive(procs, s) <=> s = 0
    BY <1>1, <1>2, <1>3, <1>5 DEF Alive, Occupied
  <2> QED BY <1>7, <2>1 DEF Lists
<1>11. FrontRuns /\ IdleIsFinal
  BY <1>1, <1>7 DEF FrontRuns, IdleIsFinal, Init, SchedInit, TableInit
<1> QED
  BY <1>8, <1>9, <1>10, <1>11, InvLists DEF Inv

\* The steps that move only the clock or the mode.
LEMMA QuietInv ==
  ASSUME Inv, UNCHANGED <<procs, currentSlot, runnable>>,
         mode' \in Modes, OnCpu' => OnCpu, mode' = "idle" => mode = "idle",
         needResched' \in BOOLEAN, elapsed' \in 0 .. Slice,
         sleepLeft' \in 0 .. MaxSleep, orphans' = orphans
  PROVE  Inv'
BY DEF Inv, TypeOK, PidsUnique, QueueIsAlive, FrontRuns, IdleIsFinal,
       Occupied, Alive, InQueue

\* Every system call, fault and tick keeps the invariant.
LEMMA NextInv ==
  ASSUME Inv, [Next]_vars
  PROVE  Inv'
<1> USE DEF tableVars, schedVars
<1>0. /\ needResched \in BOOLEAN /\ elapsed \in 0 .. Slice
      /\ sleepLeft \in 0 .. MaxSleep /\ mode \in Modes
  BY DEF Inv, TypeOK
<1>1. CASE SysFork
  BY <1>1, ForkInv
<1>2. CASE SysForkFail \/ SysOther
  BY <1>0, <1>2, PlainTail DEF SysForkFail, SysOther
<1>3. CASE SysForkPanic
  BY <1>0, <1>3, QuietInv DEF SysForkPanic, Modes
<1>4. CASE SysExit
  BY <1>4, ExitInv
<1>5. ASSUME NEW target \in Targets, SysWait4Reap(target)
      PROVE  Inv'
  BY <1>5, ReapInv
<1>6. ASSUME NEW target \in Targets, SysWait4Again(target)
      PROVE  Inv'
  BY <1>0, <1>6, PlainTail DEF SysWait4Again
<1>7. CASE SysSchedYield
  BY <1>7, PlainTail DEF SysSchedYield
<1>8. CASE SysNanosleep
  BY <1>0, <1>8, QuietInv DEF SysNanosleep, Modes
<1>9. CASE NanosleepDone
  BY <1>0, <1>9, PlainTail DEF NanosleepDone
<1>10. CASE SysReadStdin
  BY <1>0, <1>10, QuietInv DEF SysReadStdin, Modes
<1>11. CASE StdinLine
  BY <1>0, <1>11, PlainTail DEF StdinLine
<1>12. CASE UserFault
  BY <1>0, <1>12, QuietInv DEF UserFault, Modes
<1>13. CASE TimerTick
  <2>1. needResched' \in BOOLEAN /\ elapsed' \in 0 .. Slice
    BY <1>0, <1>13, SliceAssumption DEF TimerTick, TickSlice
  <2>2. sleepLeft' \in 0 .. MaxSleep
    BY <1>0, <1>13, SleepAssumption DEF TimerTick
  <2> QED BY <1>0, <1>13, <2>1, <2>2, QuietInv DEF TimerTick
<1>14. CASE TickHitsSchedLock
  BY <1>0, <1>14, QuietInv DEF TickHitsSchedLock, Modes
<1>15. CASE UNCHANGED vars
  BY <1>0, <1>15, QuietInv DEF vars
<1> QED
  BY <1>1, <1>2, <1>3, <1>4, <1>5, <1>6, <1>7, <1>8, <1>9, <1>10, <1>11,
     <1>12, <1>13, <1>14, <1>15 DEF Next, Syscall

\* The kernel always has well-typed state, distinct PIDs, a run queue that is
\* exactly the live processes, and the front of that queue running.
THEOREM InvHolds == Spec => []Inv
BY InitInv, NextInv, PTL DEF Spec

\* The variables always hold values of their types; in particular no wait of
\* nanosleep runs below zero and no slice counter past the slice.
THEOREM TypeCorrect == Spec => []TypeOK
<1>1. Inv => TypeOK
  BY DEF Inv
<1> QED BY <1>1, InvHolds, PTL

\* fork, exit, wait4 and the scheduler never lose or duplicate a live process,
\* for any number of slots.
THEOREM QueueCorrect == Spec => []QueueIsAlive
<1>1. Inv => QueueIsAlive
  BY DEF Inv
<1> QED BY <1>1, InvHolds, PTL

\* The process whose registers the tail saves is the one at the front.
THEOREM FrontCorrect == Spec => []FrontRuns
<1>1. Inv => FrontRuns
  BY DEF Inv
<1> QED BY <1>1, InvHolds, PTL

\* alloc_pid never hands out a PID that a process or a zombie still carries.
THEOREM PidsCorrect == Spec => []PidsUnique
<1>1. Inv => PidsUnique
  BY DEF Inv
<1> QED BY <1>1, InvHolds, PTL

\* The kernel idles only after the last process has exited.
THEOREM IdleCorrect == Spec => []IdleIsFinal
<1>1. Inv => IdleIsFinal
  BY DEF Inv
<1> QED BY <1>1, InvHolds, PTL

-----------------------------------------------------------------------------
(* The time slice *)

\* A slice that has run out is flagged.
ExpiredIsFlagged == elapsed = Slice => needResched

\* A tail restarts the slice exactly when it takes a raised flag.
LEMMA TailFlag ==
  ASSUME ExpiredIsFlagged, NEW t, NEW q, NEW late,
         \/ CompleteSyscall(t, q, needResched, late)
         \/ CompleteSyscall(t, q, TRUE, late)
  PROVE  ExpiredIsFlagged'
BY SliceAssumption DEF CompleteSyscall, ExpiredIsFlagged

\* However system calls, ticks, sleeps and exits interleave, NEED_RESCHED is up
\* when the slice has run out: a late tick between taking the flag and restarting
\* the slice does not lose it.
THEOREM ExpiredCorrect == Spec => []ExpiredIsFlagged
<1>1. Init => ExpiredIsFlagged
  BY SliceAssumption DEF Init, SchedInit, ExpiredIsFlagged
<1>2. ASSUME Inv, ExpiredIsFlagged, [Next]_vars
      PROVE  ExpiredIsFlagged'
  <2> USE DEF tableVars, schedVars
  <2>1. CASE SysFork
    BY <1>2, <2>1, TailFlag DEF SysFork
  <2>2. CASE SysForkFail \/ SysOther \/ SysSchedYield
    BY <1>2, <2>2, TailFlag DEF SysForkFail, SysOther, SysSchedYield
  <2>3. CASE SysExit
    BY <2>3 DEF SysExit, ScheduleAfterExit, ExpiredIsFlagged
  <2>4. ASSUME NEW target \in Targets,
               SysWait4Reap(target) \/ SysWait4Again(target)
        PROVE  ExpiredIsFlagged'
    BY <1>2, <2>4, TailFlag DEF SysWait4Reap, SysWait4Again
  <2>5. CASE NanosleepDone \/ StdinLine
    BY <1>2, <2>5, TailFlag DEF NanosleepDone, StdinLine
  <2>6. CASE TimerTick
    <3>1. elapsed' = Slice => elapsed + 1 >= Slice
      BY <1>2, <2>6, SliceAssumption DEF TimerTick, TickSlice, Inv, TypeOK
    <3>2. needResched' = (needResched \/ elapsed + 1 >= Slice)
      BY <2>6 DEF TimerTick, TickSlice
    <3> QED BY <3>1, <3>2 DEF ExpiredIsFlagged
  <2>7. CASE \/ SysForkPanic \/ SysNanosleep \/ SysReadStdin \/ UserFault
             \/ TickHitsSchedLock \/ UNCHANGED vars
    BY <1>2, <2>7 DEF SysForkPanic, SysNanosleep, SysReadStdin, UserFault,
                      TickHitsSchedLock, vars, ExpiredIsFlagged
  <2> QED
    BY <1>2, <2>1, <2>2, <2>3, <2>4, <2>5, <2>6, <2>7 DEF Next, Syscall
<1> QED
  BY <1>1, <1>2, InvHolds, PTL DEF Spec

-----------------------------------------------------------------------------
(* Parents *)

\* What the two calls that change the set of processes do to the table.
LEMMA ForkTable ==
  ASSUME Inv, SysFork
  PROVE  \E slot \in FreeSlots(procs) :
           /\ procs'[slot] \in Process
           /\ procs'[slot].parent = procs[currentSlot].pid
           /\ ~procs'[slot].exited
           /\ \A s \in Slots : s # slot => procs'[s] = procs[s]
<1>1. mode = "user"
  BY DEF SysFork
<1>2. PICK pid \in Pids, slot \in Slots :
        LET child == [pid    |-> pid,
                      parent |-> CurrentPid(procs, currentSlot),
                      exited |-> FALSE]
        IN  /\ IsAllocSlot(procs, slot)
            /\ procs' = [procs EXCEPT ![slot] = child]
  BY DEF SysFork, CompleteSyscall
<1> DEFINE child == [pid    |-> pid,
                     parent |-> CurrentPid(procs, currentSlot),
                     exited |-> FALSE]
<1>3. /\ child \in Process /\ ~child.exited
      /\ child.parent = procs[currentSlot].pid
  BY <1>1, CurrentAlive DEF Process
<1> HIDE DEF child
<1>4. slot \in FreeSlots(procs)
  BY <1>2 DEF IsAllocSlot
<1>5. procs'[slot] = child /\ \A s \in Slots : s # slot => procs'[s] = procs[s]
  BY <1>2 DEF Inv, TypeOK, child
<1> QED
  BY <1>3, <1>4, <1>5

\* What wait_reap does to the table: it empties one zombie's slot, a child of the
\* running process, and never the slot of the running process itself.
LEMMA ReapTable ==
  ASSUME Inv, NEW target \in Targets, SysWait4Reap(target)
  PROVE  \E slot \in Occupied(procs) :
           /\ procs[slot].exited
           /\ procs[slot].parent = procs[currentSlot].pid
           /\ slot # currentSlot
           /\ procs'[slot] = NoProc
           /\ \A s \in Slots : s # slot => procs'[s] = procs[s]
           /\ orphans' = orphans \ {slot}
<1>1. PICK slot \in Slots :
        /\ Reaps(procs, CurrentPid(procs, currentSlot), target, slot)
        /\ procs' = [procs EXCEPT ![slot] = NoProc]
        /\ orphans' = orphans \ {slot}
  BY DEF SysWait4Reap, CompleteSyscall
<1>2. /\ Alive(procs, currentSlot)
      /\ CurrentPid(procs, currentSlot) = procs[currentSlot].pid
  BY CurrentAlive DEF SysWait4Reap
<1>3. /\ slot \in Occupied(procs) /\ procs[slot].exited
      /\ procs[slot].parent = procs[currentSlot].pid
  BY <1>1, <1>2 DEF Reaps, Children
<1>4. slot # currentSlot
  BY <1>2, <1>3 DEF Alive
<1>5. procs'[slot] = NoProc /\ \A s \in Slots : s # slot => procs'[s] = procs[s]
  BY <1>1 DEF Inv, TypeOK
<1> QED
  BY <1>1, <1>3, <1>4, <1>5

\* What an exit does to the table and to the history.
LEMMA ExitStep ==
  ASSUME Inv, SysExit
  PROVE  /\ procs' = MarkExited(procs, currentSlot) /\ OnCpu
         /\ orphans' = orphans \cup Children(procs, procs[currentSlot].pid)
BY CurrentAlive DEF SysExit, ScheduleAfterExit

\* Every other step leaves the table and the history as they are.
LEMMA TableUnchanged ==
  ASSUME Inv, [Next]_vars, ~SysFork, ~SysExit,
         \A target \in Targets : ~SysWait4Reap(target)
  PROVE  procs' = procs /\ orphans' = orphans
<1> USE DEF tableVars, schedVars
<1>1. CASE SysForkFail \/ SysOther \/ SysSchedYield
  BY <1>1 DEF SysForkFail, SysOther, SysSchedYield, CompleteSyscall
<1>2. ASSUME NEW target \in Targets, SysWait4Again(target)
      PROVE  procs' = procs /\ orphans' = orphans
  BY <1>2 DEF SysWait4Again, CompleteSyscall
<1>3. CASE NanosleepDone \/ StdinLine
  BY <1>3 DEF NanosleepDone, StdinLine, CompleteSyscall
<1>4. CASE TimerTick \/ UNCHANGED vars
  BY <1>4 DEF TimerTick, vars
<1>5. CASE \/ SysForkPanic \/ SysNanosleep \/ SysReadStdin \/ UserFault
           \/ TickHitsSchedLock
  BY <1>5 DEF SysForkPanic, SysNanosleep, SysReadStdin, UserFault,
              TickHitsSchedLock
<1> QED
  BY <1>1, <1>2, <1>3, <1>4, <1>5 DEF Next, Syscall

\* As long as the process that forked it lives, a process's parent field leads
\* to a live process; a PID cannot be recycled under a parent that still runs.
THEOREM ParentCorrect == Spec => []ParentAlive
<1>1. Init => ParentAlive
  BY DEF Init, TableInit, ParentAlive, Occupied
<1>2. ASSUME Inv, ParentAlive, [Next]_vars
      PROVE  ParentAlive'
  <2>1. CASE SysFork
    <3>1. PICK slot \in FreeSlots(procs) :
            /\ procs'[slot].parent = procs[currentSlot].pid
            /\ \A s \in Slots : s # slot => procs'[s] = procs[s]
      BY <1>2, <2>1, ForkTable
    <3>2. Alive(procs, currentSlot) /\ orphans' = orphans
      BY <1>2, <2>1, CurrentAlive DEF SysFork
    <3>3. \A s \in Slots : Alive(procs, s) => /\ Alive(procs, s)'
                                              /\ procs'[s] = procs[s]
      BY <3>1 DEF FreeSlots, Alive, Occupied
    <3>4. SUFFICES ASSUME NEW s \in Slots, procs'[s] # NoProc, s \notin orphans,
                          procs'[s].parent # 0
                   PROVE  \E p \in Slots : /\ Alive(procs, p)'
                                           /\ procs'[p].pid = procs'[s].parent
      BY <3>2 DEF ParentAlive, Occupied
    <3>5. CASE s = slot
      BY <3>1, <3>2, <3>3, <3>5 DEF Alive, Occupied
    <3>6. CASE s # slot
      <4>1. PICK p \in Slots : Alive(procs, p) /\ procs[p].pid = procs[s].parent
        BY <1>2, <3>1, <3>4, <3>6 DEF ParentAlive, Occupied
      <4> QED BY <3>1, <3>3, <3>6, <4>1
    <3> QED BY <3>5, <3>6
  <2>2. CASE SysExit
    <3>1. /\ procs' = MarkExited(procs, currentSlot) /\ OnCpu
          /\ orphans' = orphans \cup Children(procs, procs[currentSlot].pid)
      BY <1>2, <2>2, ExitStep
    <3>2. /\ Occupied(procs') = Occupied(procs)
          /\ \A s \in Occupied(procs) : /\ procs'[s].pid = procs[s].pid
                                        /\ procs'[s].parent = procs[s].parent
          /\ \A s \in Slots :
               Alive(procs', s) <=> s # currentSlot /\ Alive(procs, s)
      BY <1>2, <3>1, ExitTable
    <3>3. SUFFICES ASSUME NEW s \in Occupied(procs), s \notin orphans,
                          s \notin Children(procs, procs[currentSlot].pid),
                          procs[s].parent # 0
                   PROVE  \E p \in Slots : /\ Alive(procs', p)
                                           /\ procs'[p].pid = procs[s].parent
      BY <3>1, <3>2 DEF ParentAlive
    <3>4. PICK p \in Slots : Alive(procs, p) /\ procs[p].pid = procs[s].parent
      BY <1>2, <3>3 DEF ParentAlive
    <3>5. p # currentSlot
      BY <3>3, <3>4 DEF Children
    <3> QED BY <3>2, <3>4, <3>5 DEF Alive
  <2>3. ASSUME NEW target \in Targets, SysWait4Reap(target)
        PROVE  ParentAlive'
    <3>1. PICK slot \in Occupied(procs) :
            /\ procs[slot].exited
            /\ procs'[slot] = NoProc
            /\ \A s \in Slots : s # slot => procs'[s] = procs[s]
            /\ orphans' = orphans \ {slot}
      BY <1>2, <2>3, ReapTable
    <3>2. \A s \in Slots : Alive(procs, s) => /\ Alive(procs', s)
                                              /\ procs'[s] = procs[s]
      BY <3>1 DEF Alive, Occupied
    <3>3. \A s \in Occupied(procs') \ orphans' :
            s \in Occupied(procs) \ orphans /\ procs'[s] = procs[s]
      BY <3>1 DEF Occupied
    <3> QED BY <1>2, <3>2, <3>3 DEF ParentAlive
  <2>4. CASE /\ ~SysFork /\ ~SysExit
             /\ \A target \in Targets : ~SysWait4Reap(target)
    BY <1>2, <2>4, TableUnchanged DEF ParentAlive, Alive, Occupied
  <2> QED BY <2>1, <2>2, <2>3, <2>4
<1> QED
  BY <1>1, <1>2, InvHolds, PTL DEF Spec

\* No interleaving of system calls ends a process other than by its own exit,
\* frees a slot other than a zombie's, or frees the kernel stack in use.
THEOREM LifeCycleCorrect == Spec => SlotLifeCycle
<1>1. ASSUME Inv, [Next]_vars
      PROVE  [\A s \in Slots : SlotLife(s)]_vars
  <2> SUFFICES ASSUME NEW s \in Slots PROVE SlotLife(s)
    OBVIOUS
  <2>1. CASE SysFork
    <3>1. PICK slot \in FreeSlots(procs) :
            \A r \in Slots : r # slot => procs'[r] = procs[r]
      BY <1>1, <2>1, ForkTable
    <3> QED BY <3>1 DEF SlotLife, FreeSlots, Occupied
  <2>2. CASE SysExit
    <3>1. procs' = MarkExited(procs, currentSlot) /\ OnCpu
      BY <1>1, <2>2, ExitStep
    <3>2. /\ Occupied(procs') = Occupied(procs)
          /\ \A r \in Occupied(procs) : /\ procs'[r].pid = procs[r].pid
                                        /\ procs'[r].parent = procs[r].parent
          /\ \A r \in Slots : r # currentSlot => procs'[r] = procs[r]
          /\ procs'[currentSlot].exited
      BY <1>1, <3>1, ExitTable
    <3> QED BY <3>2 DEF SlotLife, Occupied
  <2>3. ASSUME NEW target \in Targets, SysWait4Reap(target)
        PROVE  SlotLife(s)
    BY <1>1, <2>3, ReapTable DEF SlotLife
  <2>4. CASE /\ ~SysFork /\ ~SysExit
             /\ \A target \in Targets : ~SysWait4Reap(target)
    BY <1>1, <2>4, TableUnchanged DEF SlotLife
  <2> QED BY <2>1, <2>2, <2>3, <2>4
<1> QED
  BY <1>1, InvHolds, PTL DEF Spec, SlotLifeCycle

-----------------------------------------------------------------------------
(***************************************************************************)
(* Kernel implements RoundRobin, for every number of slots, PIDs, slice    *)
(* and sleep bound: each system call is one step of the ring or none.      *)
(***************************************************************************)

\* The zombies of table t, as the mapping gives them to RoundRobin.
Zombies(t) == {s \in Occupied(t) : t[s].exited}

\* The mapped step of a tail: the queue stays or turns, and nothing has stopped.
LEMMA TailTurns ==
  ASSUME NEW t, NEW q, NEW resched \in BOOLEAN, NEW late \in BOOLEAN,
         Lists(q, t), q # <<>>, CompleteSyscall(t, q, resched, late)
  PROVE  /\ procs' = t /\ mode' = "user"
         /\ runnable' = IF resched THEN RR!Turned(q) ELSE q
<1> DEFINE r == IF resched THEN Rotate(q) ELSE q
<1>1. Lists(r, t) /\ r # <<>>
  BY RotateLists
<1>2. PickNext(t, r) /\ procs' = t
  BY DEF CompleteSyscall
<1>3. r = IF resched THEN RR!Turned(q) ELSE q
  BY DEF Rotate, RR!Turned
<1> HIDE DEF r
<1> QED
  BY <1>1, <1>2, <1>3, PickNextFront

\* While a process is on the CPU the ring runs.
LEMMA RingRuns ==
  ASSUME Inv, OnCpu
  PROVE  /\ RR!Running
         /\ ~Stopped
         /\ procs \in Tables /\ Lists(runnable, procs)
         /\ runnable # <<>> /\ currentSlot = Head(runnable)
<1>1. ~Stopped
  BY DEF Stopped
<1>2. runnable # <<>> /\ currentSlot = Head(runnable)
  BY DEF Inv, FrontRuns
<1>3. procs \in Tables /\ Lists(runnable, procs)
  BY InvLists DEF Inv, TypeOK, Tables
<1> QED
  BY <1>1, <1>2, <1>3 DEF RR!Running

\* A system call that only completes is a turn of the ring or no step of it.
LEMMA PlainTailStep ==
  ASSUME Inv, OnCpu, NEW resched \in BOOLEAN, NEW late \in BOOLEAN,
         CompleteSyscall(procs, runnable, resched, late)
  PROVE  RR!Turn \/ UNCHANGED RR!vars
<1>1. /\ RR!Running /\ ~Stopped
      /\ Lists(runnable, procs) /\ runnable # <<>>
  BY RingRuns
<1>2. /\ procs' = procs /\ mode' = "user"
      /\ runnable' = IF resched THEN RR!Turned(runnable) ELSE runnable
  BY <1>1, TailTurns
<1>3. Stopped' = Stopped
  BY <1>1, <1>2 DEF Stopped
<1>4. Zombies(procs)' = Zombies(procs)
  BY <1>2 DEF Zombies, Occupied
<1>5. CASE resched
  BY <1>1, <1>2, <1>3, <1>4, <1>5 DEF RR!Turn, Zombies
<1>6. CASE ~resched
  BY <1>2, <1>3, <1>4, <1>6 DEF RR!vars, Zombies
<1> QED
  BY <1>5, <1>6

\* fork puts the child at the back and turns: a Spawn of the child's slot.
LEMMA ForkStep ==
  ASSUME Inv, SysFork
  PROVE  \E s \in Slots : RR!Spawn(s)
<1>1. PICK pid \in Pids, slot \in Slots :
        LET child == [pid    |-> pid,
                      parent |-> CurrentPid(procs, currentSlot),
                      exited |-> FALSE]
        IN  /\ IsAllocPid(procs, pid)
            /\ IsAllocSlot(procs, slot)
            /\ CompleteSyscall([procs EXCEPT ![slot] = child],
                               Enqueue(runnable, slot), TRUE, FALSE)
  BY DEF SysFork
<1> DEFINE child == [pid    |-> pid,
                     parent |-> CurrentPid(procs, currentSlot),
                     exited |-> FALSE]
           t == [procs EXCEPT ![slot] = child]
           q == Enqueue(runnable, slot)
<1>2. mode = "user"
  BY DEF SysFork
<1>3. /\ RR!Running /\ ~Stopped
      /\ procs \in Tables /\ Lists(runnable, procs)
  BY <1>2, RingRuns
<1>4. child \in Process /\ ~child.exited
  BY <1>2, CurrentAlive DEF Process
<1>5. slot \in FreeSlots(procs)
  BY <1>1 DEF IsAllocSlot
<1>6. Lists(q, t) /\ q # <<>>
  BY <1>3, <1>4, <1>5, EnqueueLists
<1>7. CompleteSyscall(t, q, TRUE, FALSE)
  BY <1>1
<1>8. ~Alive(procs, slot) /\ procs[slot] = NoProc
  BY <1>5 DEF FreeSlots, Alive, Occupied
<1>9. slot \notin RR!Members
  BY <1>3, <1>8 DEF RR!Members, Lists
<1>10. q = Append(runnable, slot)
  BY <1>9, LenProperties, <1>3 DEF Enqueue, InQueue, RR!Members, Lists
<1>11. t[slot] = child /\ \A s \in Slots : s # slot => t[s] = procs[s]
  BY <1>3 DEF Tables
<1> HIDE DEF child, t, q
<1>12. procs' = t /\ mode' = "user" /\ runnable' = RR!Turned(q)
  BY <1>6, <1>7, TailTurns
<1>13. Stopped' = Stopped
  BY <1>3, <1>12 DEF Stopped
<1>14. Zombies(procs') = Zombies(procs)
  BY <1>4, <1>8, <1>11, <1>12 DEF Zombies, Occupied
<1>15. slot \notin Zombies(procs)
  BY <1>8 DEF Zombies, Occupied
<1>16. runnable' = RR!Turned(Append(runnable, slot))
  BY <1>10, <1>12
<1>17. RR!Spawn(slot)
  BY <1>3, <1>9, <1>13, <1>14, <1>15, <1>16 DEF RR!Spawn, Zombies
<1> QED
  BY <1>17

\* exit removes the front, and makes it a zombie.
LEMMA ExitRing ==
  ASSUME Inv, SysExit
  PROVE  RR!Exit
<1>1. mode = "user" /\ ScheduleAfterExit(MarkExited(procs, currentSlot))
  BY DEF SysExit
<1>2. /\ RR!Running /\ ~Stopped
      /\ procs \in Tables /\ Lists(runnable, procs)
      /\ runnable # <<>> /\ currentSlot = Head(runnable)
  BY <1>1, RingRuns
<1> DEFINE t == MarkExited(procs, currentSlot)
           q == Tail(runnable)
<1>3. Retain(runnable, currentSlot) = q
  BY <1>2, RetainFront DEF Lists
<1>4. Lists(q, t)
  BY <1>2, ExitLists
<1>5. procs' = t /\ PickNext(t, q)
  BY <1>1, <1>3 DEF ScheduleAfterExit
<1>6. /\ Occupied(t) = Occupied(procs)
      /\ \A s \in Slots : s # currentSlot => t[s] = procs[s]
      /\ t[currentSlot].exited
      /\ currentSlot \in Occupied(procs)
  BY <1>1, ExitTable, CurrentAlive
<1> HIDE DEF t, q
<1>7. runnable' = q /\ mode' \in {"user", "idle"}
  BY <1>4, <1>5, PickNextFront, PickNextEmpty
<1>8. Stopped' = Stopped
  BY <1>2, <1>7 DEF Stopped
<1>9. Zombies(procs') = Zombies(procs) \cup {currentSlot}
  BY <1>5, <1>6 DEF Zombies, Occupied
<1> QED
  BY <1>2, <1>7, <1>8, <1>9 DEF RR!Exit, Zombies, q

\* wait4 removes one zombie, and the tail may turn the ring.
LEMMA ReapStep ==
  ASSUME Inv, NEW target \in Targets, SysWait4Reap(target)
  PROVE  \E s \in Slots : RR!Reap(s)
<1>1. PICK slot \in Slots :
        /\ Reaps(procs, CurrentPid(procs, currentSlot), target, slot)
        /\ CompleteSyscall([procs EXCEPT ![slot] = NoProc],
                           runnable, needResched, FALSE)
  BY DEF SysWait4Reap
<1> DEFINE t == [procs EXCEPT ![slot] = NoProc]
<1>2. mode = "user"
  BY DEF SysWait4Reap
<1>3. /\ RR!Running /\ ~Stopped
      /\ procs \in Tables /\ Lists(runnable, procs) /\ runnable # <<>>
      /\ needResched \in BOOLEAN
  BY <1>2, RingRuns DEF Inv, TypeOK
<1>4. slot \in Zombies(procs)
  BY <1>1 DEF Reaps, Children, Zombies
<1>5. t[slot] = NoProc /\ \A s \in Slots : s # slot => t[s] = procs[s]
  BY <1>3 DEF Tables
<1>6. CompleteSyscall(t, runnable, needResched, FALSE)
  BY <1>1
<1> HIDE DEF t
<1>7. \A s \in Slots : Alive(t, s) <=> Alive(procs, s)
  BY <1>4, <1>5 DEF Alive, Occupied, Zombies
<1>8. Lists(runnable, t)
  BY <1>3, <1>7 DEF Lists
<1>9. /\ procs' = t /\ mode' = "user"
      /\ runnable' = IF needResched THEN RR!Turned(runnable) ELSE runnable
  BY <1>3, <1>6, <1>8, TailTurns
<1>10. Stopped' = Stopped
  BY <1>3, <1>9 DEF Stopped
<1>11. Zombies(procs') = Zombies(procs) \ {slot}
  BY <1>5, <1>9 DEF Zombies, Occupied
<1>12. runnable' \in {runnable, RR!Turned(runnable)}
  BY <1>9
<1>13. RR!Reap(slot)
  BY <1>3, <1>4, <1>10, <1>11, <1>12 DEF RR!Reap, Zombies
<1> QED
  BY <1>13

\* Panic, fault and a lock held under the interrupt stop the machine.
LEMMA StopStep ==
  ASSUME ~Stopped, mode' \in {"panic", "halted", "hung"},
         UNCHANGED <<procs, runnable>>
  PROVE  RR!Stop
<1>1. Stopped' /\ Stopped' = TRUE
  BY DEF Stopped
<1>2. Zombies(procs)' = Zombies(procs)
  BY DEF Zombies, Occupied
<1> QED
  BY <1>1, <1>2 DEF RR!Stop, Zombies

\* Whatever leaves table, queue and the stopping of the machine alone is no step
\* of the ring.
LEMMA QuietStep ==
  ASSUME UNCHANGED <<procs, runnable>>, Stopped' = Stopped
  PROVE  UNCHANGED RR!vars
<1>1. Zombies(procs)' = Zombies(procs)
  BY DEF Zombies, Occupied
<1> QED
  BY <1>1 DEF RR!vars, Zombies

\* Every step of the kernel is a step of the ring or leaves it alone.
LEMMA StepImplements ==
  ASSUME Inv, [Next]_vars
  PROVE  [RR!Next]_(RR!vars)
<1> USE DEF tableVars, schedVars
<1>0. needResched \in BOOLEAN
  BY DEF Inv, TypeOK
<1>1. CASE SysFork
  BY <1>1, ForkStep DEF RR!Next
<1>2. CASE SysForkFail \/ SysOther
  BY <1>0, <1>2, PlainTailStep DEF SysForkFail, SysOther, RR!Next
<1>3. CASE SysForkPanic \/ UserFault \/ TickHitsSchedLock
  BY <1>3, StopStep DEF SysForkPanic, UserFault, TickHitsSchedLock, Stopped, RR!Next
<1>4. CASE SysExit
  BY <1>4, ExitRing DEF RR!Next
<1>5. ASSUME NEW target \in Targets, SysWait4Reap(target)
      PROVE  RR!Next
  BY <1>5, ReapStep DEF RR!Next
<1>6. ASSUME NEW target \in Targets, SysWait4Again(target)
      PROVE  [RR!Next]_(RR!vars)
  BY <1>0, <1>6, PlainTailStep DEF SysWait4Again, RR!Next
<1>7. CASE SysSchedYield
  BY <1>7, PlainTailStep DEF SysSchedYield, RR!Next
<1>8. CASE NanosleepDone \/ StdinLine
  BY <1>0, <1>8, PlainTailStep DEF NanosleepDone, StdinLine, RR!Next
<1>9. CASE SysNanosleep \/ SysReadStdin \/ TimerTick
  BY <1>9, QuietStep DEF SysNanosleep, SysReadStdin, TimerTick, Stopped
<1>10. CASE UNCHANGED vars
  BY <1>10, QuietStep DEF vars, Stopped
<1> QED
  BY <1>1, <1>2, <1>3, <1>4, <1>5, <1>6, <1>7, <1>8, <1>9, <1>10 DEF Next, Syscall

\* Boot leaves a ring of one task.
LEMMA InitImplements == Init => RR!Init
<1> SUFFICES ASSUME Init PROVE RR!Init
  OBVIOUS
<1> DEFINE p == [pid |-> 1, parent |-> 0, exited |-> FALSE]
<1>1. procs = [s \in Slots |-> IF s = 0 THEN p ELSE NoProc]
  BY DEF Init, TableInit
<1>2. ~p.exited
  OBVIOUS
<1> HIDE DEF p
<1>3. Zombies(procs) = {}
  BY <1>1, <1>2 DEF Zombies, Occupied
<1>4. runnable = <<0>> /\ Stopped = FALSE
  BY DEF Init, SchedInit, Stopped
<1> QED
  BY <1>3, <1>4 DEF RR!Init, Zombies

\* The kernel's processes, queue, flag and slice implement the round-robin ring,
\* for every size of the tables: nobody leaves the ring but by an exit at its
\* front, the order of turns is kept, and a zombie leaves only by being reaped.
THEOREM RoundRobinCorrect == Spec => ImplementsRoundRobin
<1>1. Init => RR!Init
  BY InitImplements
<1>2. Inv /\ [Next]_vars => [RR!Next]_(RR!vars)
  BY StepImplements
<1> QED
  BY <1>1, <1>2, InvHolds, PTL DEF Spec, ImplementsRoundRobin, RR!Spec

-----------------------------------------------------------------------------
(***************************************************************************)
(* What the ring says of turns: the safety half of EveryProcessRuns.  A    *)
(* process has at most MaxProcs - 1 others ahead of it, whenever the ring  *)
(* moves it has one less, and a ring whose front has used up its slice     *)
(* moves at the next return to ring 3.                                     *)
(***************************************************************************)

\* The three ways in which a queue can move.
Moves(q, r) ==
  \/ r = RR!Turned(q)
  \/ r = Tail(q)
  \/ \E s \in Slots : r = RR!Turned(Append(q, s))

\* Whichever way a queue moves, those behind the front move one place up.
LEMMA MoveShifts ==
  ASSUME NEW q \in Seq(Slots), q # <<>>, NEW r, Moves(q, r),
         NEW i \in 2 .. Len(q)
  PROVE  i - 1 \in DOMAIN r /\ r[i - 1] = q[i]
<1>1. /\ Len(q) \in Nat /\ Head(q) \in Slots
      /\ Tail(q) \in Seq(Slots) /\ Len(Tail(q)) = Len(q) - 1
      /\ Tail(q)[i - 1] = q[i] /\ i - 1 \in 1 .. (Len(q) - 1)
  BY HeadTailProperties
<1>2. CASE r = Tail(q)
  BY <1>1, <1>2
<1>3. CASE r = RR!Turned(q)
  <2>1. r = Append(Tail(q), Head(q))
    BY <1>3 DEF RR!Turned
  <2> QED
    BY <1>1, <2>1
<1>4. ASSUME NEW s \in Slots, r = RR!Turned(Append(q, s))
      PROVE  i - 1 \in DOMAIN r /\ r[i - 1] = q[i]
  <2> DEFINE u == Append(q, s)
  <2>1. /\ u \in Seq(Slots) /\ Len(u) = Len(q) + 1 /\ u[i] = q[i] /\ u # <<>>
    BY <1>1
  <2>2. r = Append(Tail(u), Head(u))
    BY <1>4 DEF RR!Turned
  <2> HIDE DEF u
  <2>3. /\ Head(u) \in Slots /\ Tail(u) \in Seq(Slots)
        /\ Len(Tail(u)) = Len(q) /\ Tail(u)[i - 1] = q[i]
    BY <1>1, <2>1, HeadTailProperties
  <2> QED
    BY <1>1, <2>2, <2>3
<1> QED
  BY <1>2, <1>3, <1>4 DEF Moves

\* A step of the ring that changes the queue moves it.
LEMMA RingMoves ==
  ASSUME [RR!Next]_(RR!vars), runnable' # runnable
  PROVE  runnable # <<>> /\ Moves(runnable, runnable')
<1>1. CASE RR!Turn
  BY <1>1 DEF RR!Turn, RR!Running, Moves
<1>2. CASE RR!Exit
  BY <1>2 DEF RR!Exit, RR!Running, Moves
<1>3. CASE RR!Stop \/ UNCHANGED RR!vars
  BY <1>3 DEF RR!Stop, RR!vars
<1>4. ASSUME NEW s \in Slots, RR!Spawn(s)
      PROVE  runnable # <<>> /\ Moves(runnable, runnable')
  BY <1>4 DEF RR!Spawn, RR!Running, Moves
<1>5. ASSUME NEW s \in Slots, RR!Reap(s)
      PROVE  runnable # <<>> /\ Moves(runnable, runnable')
  BY <1>5 DEF RR!Reap, RR!Running, Moves
<1> QED
  BY <1>1, <1>2, <1>3, <1>4, <1>5 DEF RR!Next

\* The queue has no more entries than the table has slots.
LEMMA QueueFits ==
  ASSUME Inv
  PROVE  Len(runnable) <= MaxProcs
<1>1. Lists(runnable, procs)
  BY InvLists DEF Inv
<1>2. Len(runnable) \in Nat /\ runnable \in [1 .. Len(runnable) -> Slots]
  BY <1>1, LenProperties DEF Lists
<1>3. MaxProcs \in Nat /\ MaxProcs >= 1
  BY TableAssumption
<1>4. IsFiniteSet(Slots) /\ Cardinality(Slots) = MaxProcs
  BY <1>3, FS_Interval DEF Slots
<1>5. IsFiniteSet(1 .. Len(runnable)) /\ Cardinality(1 .. Len(runnable)) = Len(runnable)
  BY <1>2, FS_Interval
<1>6. ~(MaxProcs < Len(runnable))
  <2> SUFFICES ASSUME MaxProcs < Len(runnable) PROVE FALSE
    OBVIOUS
  <2>1. \E x, y \in 1 .. Len(runnable) : x # y /\ runnable[x] = runnable[y]
    BY <1>2, <1>4, <1>5, FS_PigeonHole
  <2> QED
    BY <1>1, <2>1 DEF Lists
<1> QED
  BY <1>2, <1>3, <1>6

\* Whenever the queue changes, every process behind its front moves exactly one
\* place up: neither a fork nor a reaping nor an exit lets anybody overtake.
NoOvertaking ==
  [][runnable' # runnable =>
       \A i \in 2 .. Len(runnable) :
         i - 1 \in DOMAIN runnable' /\ runnable'[i - 1] = runnable[i]]_vars

\* Bounded waiting: the scheduler's queue holds at most MaxProcs processes and
\* no process is ever overtaken, so a live process is on the CPU after at most
\* MaxProcs - 1 moves of the queue, for any number of slots and any programs.
THEOREM WaitIsBounded == Spec => [](Len(runnable) <= MaxProcs) /\ NoOvertaking
<1>1. Inv => Len(runnable) <= MaxProcs
  BY QueueFits
<1>2. ASSUME Inv, [Next]_vars, runnable' # runnable
      PROVE  \A i \in 2 .. Len(runnable) :
               i - 1 \in DOMAIN runnable' /\ runnable'[i - 1] = runnable[i]
  <2>1. runnable \in Seq(Slots)
    BY <1>2 DEF Inv, TypeOK
  <2>2. runnable # <<>> /\ Moves(runnable, runnable')
    BY <1>2, StepImplements, RingMoves
  <2> QED
    BY <2>1, <2>2, MoveShifts
<1>3. Inv /\ [Next]_vars =>
        [runnable' # runnable =>
           \A i \in 2 .. Len(runnable) :
             i - 1 \in DOMAIN runnable' /\ runnable'[i - 1] = runnable[i]]_vars
  BY <1>2
<1> QED
  BY <1>1, <1>3, InvHolds, PTL DEF Spec, NoOvertaking

\* What SliceIsEnforced asks of the step that ends a slice.
SliceEnds == RR!MoveOn \/ (Len(runnable) = 1 /\ elapsed' = 0)

\* A move of a running ring ends the slice.
LEMMA MoveEnds ==
  ASSUME RR!Running, runnable \in Seq(Slots), Moves(runnable, runnable'),
         Len(runnable) = 1 => elapsed' = 0
  PROVE  SliceEnds
<1>1. Len(runnable) = 1 \/ Len(runnable) > 1
  <2>1. \A q \in Seq(Slots) : q # <<>> => Len(q) \in Nat /\ Len(q) # 0
    BY EmptySeq, LenProperties
  <2>2. \A n \in Nat : n # 0 => n = 1 \/ n > 1
    OBVIOUS
  <2> QED
    BY <2>1, <2>2, Zenon DEF RR!Running
<1>2. CASE Len(runnable) = 1
  BY <1>2 DEF SliceEnds
<1>3. CASE Len(runnable) > 1
  <2>1. \/ runnable' \in {RR!Turned(runnable), Tail(runnable)}
        \/ \E s \in Slots : runnable' = RR!Turned(Append(runnable, s))
    BY DEF Moves
  <2>2. RR!MoveOn
    BY <1>3, <2>1 DEF RR!MoveOn
  <2> QED
    BY <2>2 DEF SliceEnds
<1> QED
  BY <1>1, <1>2, <1>3

\* A tail that takes a raised flag turns the queue and restarts the slice.
LEMMA FlaggedTail ==
  ASSUME Inv, OnCpu, NEW t, NEW late \in BOOLEAN, Lists(runnable, t),
         CompleteSyscall(t, runnable, TRUE, late)
  PROVE  SliceEnds
<1>1. RR!Running /\ runnable # <<>> /\ runnable \in Seq(Slots)
  BY RingRuns DEF Lists
<1>2. runnable' = RR!Turned(runnable)
  BY <1>1, TailTurns
<1>3. elapsed' = 0
  BY DEF CompleteSyscall
<1> QED
  BY <1>1, <1>2, <1>3, MoveEnds DEF Moves

\* Every step that ends in ring 3 with the slice run out ends the slice.
LEMMA SliceStep ==
  ASSUME Inv, ExpiredIsFlagged, Next, vars' # vars,
         elapsed = Slice, mode' = "user"
  PROVE  SliceEnds
<1> USE DEF tableVars, schedVars
<1>0. /\ needResched = TRUE /\ Lists(runnable, procs)
      /\ runnable \in Seq(Slots)
  BY InvLists DEF ExpiredIsFlagged, Inv, TypeOK
<1>1. CASE SysFork
  <2>1. PICK s \in Slots : RR!Spawn(s)
    BY <1>1, ForkStep
  <2>2. elapsed' = 0
    BY <1>1 DEF SysFork, CompleteSyscall
  <2> QED
    BY <1>0, <2>1, <2>2, MoveEnds DEF RR!Spawn, Moves
<1>2. CASE SysForkFail \/ SysOther \/ SysSchedYield
  BY <1>0, <1>2, FlaggedTail DEF SysForkFail, SysOther, SysSchedYield
<1>3. CASE SysExit
  <2>1. RR!Exit
    BY <1>3, ExitRing
  <2>2. ScheduleAfterExit(MarkExited(procs, currentSlot)) /\ mode = "user"
    BY <1>3 DEF SysExit
  <2>3. runnable' # <<>>
    BY <1>0, <2>2, RingRuns, ExitSchedules
  <2>4. Len(runnable) # 1
    BY <1>0, <2>1, <2>3 DEF RR!Exit
  <2> QED
    BY <1>0, <2>1, <2>4, MoveEnds DEF RR!Exit, Moves
<1>4. ASSUME NEW target \in Targets, SysWait4Reap(target)
      PROVE  SliceEnds
  <2>1. PICK slot \in Slots :
          /\ Reaps(procs, CurrentPid(procs, currentSlot), target, slot)
          /\ CompleteSyscall([procs EXCEPT ![slot] = NoProc],
                             runnable, needResched, FALSE)
    BY <1>4 DEF SysWait4Reap
  <2> DEFINE t == [procs EXCEPT ![slot] = NoProc]
  <2>2. /\ CompleteSyscall(t, runnable, TRUE, FALSE) /\ mode = "user"
        /\ procs[slot].exited /\ procs \in Tables
    BY <1>0, <1>4, <2>1 DEF SysWait4Reap, Reaps, Children, Inv, TypeOK, Tables
  <2>3. \A s \in Slots : Alive(t, s) <=> Alive(procs, s)
    BY <2>2 DEF Alive, Occupied, Tables
  <2> HIDE DEF t
  <2>4. Lists(runnable, t)
    BY <1>0, <2>3 DEF Lists
  <2> QED
    BY <2>2, <2>4, FlaggedTail
<1>5. ASSUME NEW target \in Targets, SysWait4Again(target)
      PROVE  SliceEnds
  BY <1>0, <1>5, FlaggedTail DEF SysWait4Again
<1>6. CASE NanosleepDone \/ StdinLine
  BY <1>0, <1>6, FlaggedTail DEF NanosleepDone, StdinLine
<1>7. CASE TimerTick
  <2>1. UNCHANGED <<tableVars, runnable, mode, orphans>> /\ TickSlice
    BY <1>7 DEF TimerTick
  <2>2. UNCHANGED sleepLeft
    BY <1>7, <2>1 DEF TimerTick
  <2>3. UNCHANGED elapsed
    BY <2>1, SliceAssumption DEF TickSlice
  <2>4. UNCHANGED needResched
    BY <1>0, <2>1 DEF TickSlice
  <2> QED
    BY <2>1, <2>2, <2>3, <2>4 DEF vars
<1>8. CASE \/ SysForkPanic \/ SysNanosleep \/ SysReadStdin \/ UserFault
           \/ TickHitsSchedLock
  BY <1>8 DEF SysForkPanic, SysNanosleep, SysReadStdin, UserFault, TickHitsSchedLock
<1> QED
  BY <1>1, <1>2, <1>3, <1>4, <1>5, <1>6, <1>7, <1>8 DEF Next, Syscall

\* However system calls, ticks, sleeps and exits interleave, a process that has
\* used up its slice cannot complete a further system call and keep the CPU ahead
\* of the others, for any slice and any number of processes.
THEOREM SliceCorrect == Spec => SliceIsEnforced
<1>1. Inv /\ ExpiredIsFlagged /\ [Next]_vars =>
        [elapsed = Slice /\ mode' = "user" =>
           RR!MoveOn \/ (Len(runnable) = 1 /\ elapsed' = 0)]_vars
  BY SliceStep DEF SliceEnds
<1> QED
  BY <1>1, InvHolds, ExpiredCorrect, PTL DEF Spec, SliceIsEnforced

=============================================================================
