----------------------------- MODULE BootProofs -----------------------------
(***************************************************************************)
(* Theorems about Boot, for any memory map, any sizes and any number of    *)
(* key bytes and ticks.                                                    *)
(***************************************************************************)
EXTENDS Boot, FiniteSetTheorems, SequenceTheorems, TLAPS

\* Between the two port reads of polling, a key that it has seen is still there,
\* or the interrupt has taken the last key, or a mouse byte has come.
FatesInv ==
  /\ sent \in Nat
  /\ port \in [full : BOOLEAN, aux : BOOLEAN, byte : Keys \cup {NoByte}]
  /\ KeyFates
  /\ port.full /\ ~port.aux => sent > 0
  /\ pc = "data" /\ status = "key" =>
       sent > 0 /\ (port.full \/ port.aux \/ takers = <<"irq">>)

\* The ring is locked only with interrupts masked.
MaskInv == intr \in BOOLEAN /\ (RingHeld => ~intr)

\* From the scan on, what the scan has marked stays marked and the counter
\* is exact.
FrameInv ==
  /\ map \in MemoryMaps
  /\ used \subseteq Frames
  /\ pc # "memory" => Scan(map) \subseteq used /\ freeCount = Cardinality(FreeFrames)

-----------------------------------------------------------------------------

\* Who may read a byte next depends on who has read it.
LEMMA TakersGrow ==
  /\ Append(<<>>, "irq") = <<"irq">> /\ Append(<<>>, "poll") = <<"poll">>
  /\ Append(<<>>, "dropped") = <<"dropped">>
  /\ Append(<<"irq">>, "poll") = <<"irq", "poll">>
<1>1. <<"irq", "poll">> = [i \in 1 .. 2 |-> IF i = 1 THEN "irq" ELSE "poll"]
  OBVIOUS
<1>2. Append(<<"irq">>, "poll") = [i \in 1 .. 2 |-> IF i = 1 THEN "irq" ELSE "poll"]
  OBVIOUS
<1>3. /\ Append(<<>>, "irq") = <<"irq">> /\ Append(<<>>, "poll") = <<"poll">>
      /\ Append(<<>>, "dropped") = <<"dropped">>
  OBVIOUS
<1> QED
  BY <1>1, <1>2, <1>3, Zenon

\* The takers are a sequence of readers.
LEMMA TakersType ==
  ASSUME KeyFates PROVE takers \in Seq({"irq", "poll", "dropped"})
<1>1. CASE takers = <<>>
  BY <1>1
<1>2. CASE takers = <<"irq">>
  BY <1>2
<1>3. CASE takers = <<"poll">>
  BY <1>3
<1>4. CASE takers = <<"dropped">>
  BY <1>4
<1>5. CASE takers = <<"irq", "poll">>
  BY <1>5
<1> QED
  BY <1>1, <1>2, <1>3, <1>4, <1>5 DEF KeyFates

\* What the interrupt appends, no other step leaves behind.
LEMMA TakersDiffer ==
  ASSUME NEW S, NEW t \in Seq(S), NEW a \in S, NEW b \in S, a # b
  PROVE  t # Append(t, a) /\ <<>> # Append(t, a) /\ Append(t, b) # Append(t, a)
  BY AppendProperties

\* The fates hold at the start and after every step.
LEMMA FatesStep ==
  /\ Init => FatesInv
  /\ FatesInv /\ [Next]_vars => FatesInv'
<1>1. Init => FatesInv
  BY DEF Init, FatesInv, KeyFates
<1>2. ASSUME FatesInv, [Next]_vars PROVE FatesInv'
  <2> USE <1>2 DEF FatesInv, KeyFates
  <2>0. ASSUME port' \in [full : BOOLEAN, aux : BOOLEAN, byte : Keys \cup {NoByte}],
               ~port'.full, sent' = sent, sent > 0,
               takers' \in {<<"irq">>, <<"poll">>, <<"dropped">>, <<"irq", "poll">>},
               pc' = "data" => takers' = <<"irq">>
        PROVE  FatesInv'
    <3>1. /\ <<"irq">> # <<>> /\ <<"poll">> # <<>> /\ <<"dropped">> # <<>>
          /\ <<"irq", "poll">> # <<>>
      OBVIOUS
    <3>2. takers' # <<>>
      BY <2>0, <3>1, Zenon
    <3>3. sent' \in Nat /\ sent' # 0 /\ sent' > 0
      BY <2>0
    <3>4. takers' \in {<<>>, <<"irq">>, <<"poll">>, <<"dropped">>, <<"irq", "poll">>}
      BY <2>0, Zenon
    <3> QED
      BY <2>0, <3>2, <3>3, <3>4, Zenon
  <2>1. ASSUME NEW byte \in Keys, NEW aux \in BOOLEAN, ByteArrives(byte, aux)
        PROVE  FatesInv'
    <3>1. CASE aux
      BY <2>1, <3>1 DEF ByteArrives
    <3>2. CASE ~aux
      BY <2>1, <3>2 DEF ByteArrives
    <3> QED BY <3>1, <3>2
  <2>2. CASE KeyboardIrq
    <3>1. /\ port' = [port EXCEPT !.full = FALSE]
          /\ takers' = IF port.full /\ ~port.aux THEN Append(takers, "irq") ELSE takers
          /\ UNCHANGED <<sent, status>> /\ (pc' = "data" => pc = "data")
      BY <2>2 DEF KeyboardIrq, HandleKeyboardIrq, AfterIrq, takeVars
    <3>2. /\ port' \in [full : BOOLEAN, aux : BOOLEAN, byte : Keys \cup {NoByte}]
          /\ ~port'.full /\ port'.aux = port.aux
      BY <3>1
    <3>3. CASE port.full /\ ~port.aux
      <4>1. takers = <<>> /\ takers' = Append(takers, "irq")
        BY <3>1, <3>3
      <4>2. takers' = <<"irq">>
        BY <4>1, TakersGrow, Zenon
      <4>3. sent' = sent /\ sent > 0
        BY <3>1, <3>3
      <4> QED
        BY <3>2, <4>2, <4>3, <2>0
    <3>4. CASE ~(port.full /\ ~port.aux)
      BY <3>1, <3>2, <3>4
    <3> QED
      BY <3>3, <3>4
  <2>3. CASE PollData
    <3>1. /\ port' = [port EXCEPT !.full = FALSE]
          /\ sent' = sent /\ pc = "data" /\ pc' # "data"
      BY <2>3 DEF PollData
    <3>2. /\ port' \in [full : BOOLEAN, aux : BOOLEAN, byte : Keys \cup {NoByte}]
          /\ ~port'.full
      BY <3>1
    <3>3. CASE port.aux \/ (status # "key" /\ ~port.full)
      <4>1. takers' = takers
        BY <2>3, <3>3 DEF PollData
      <4> QED
        BY <3>1, <3>2, <3>3, <4>1
    <3>4. CASE ~port.aux /\ status = "key"
      <4>1. takers' = Append(takers, "poll") /\ takers \in {<<>>, <<"irq">>}
        BY <2>3, <3>1, <3>4 DEF PollData
      <4>2. takers' \in {<<"poll">>, <<"irq", "poll">>}
        BY <4>1, TakersGrow, Zenon
      <4>3. sent' = sent /\ sent > 0
        BY <3>1, <3>4
      <4> QED
        BY <3>1, <3>2, <4>2, <4>3, <2>0
    <3>5. CASE ~port.aux /\ status # "key" /\ port.full
      <4>1. takers = <<>> /\ takers' = Append(takers, "dropped")
        BY <2>3, <3>5 DEF PollData
      <4>2. takers' = <<"dropped">>
        BY <4>1, TakersGrow, Zenon
      <4>3. sent' = sent /\ sent > 0
        BY <3>1, <3>5
      <4> QED
        BY <3>1, <3>2, <4>2, <4>3, <2>0
    <3> QED
      BY <3>3, <3>4, <3>5
  <2>4. CASE PollStatus
    BY <2>4 DEF PollStatus, portVars, takeVars
  <2>5. ASSUME UNCHANGED <<port, sent, takers>>,
               pc' = "data" => pc = "data" /\ status' = status
        PROVE  FatesInv'
    BY <2>5
  <2>6. CASE MemoryInit \/ HeapInit \/ FrameTest \/ InterruptsInit
    BY <2>6, <2>5 DEF MemoryInit, HeapInit, FrameTest, InterruptsInit, TakeFrames,
       portVars, takeVars
  <2>7. CASE WindowTest \/ LockRing \/ PopScancode \/ Hlt
    BY <2>7, <2>5 DEF WindowTest, LockRing, PopScancode, Hlt, portVars, takeVars
  <2>8. CASE MapUserStack \/ LoadElf \/ MapUserBlob \/ ProcessInit \/ SchedulerInit
    BY <2>8, <2>5 DEF MapUserStack, LoadElf, MapUserBlob, ProcessInit, SchedulerInit,
       TakeFrames, portVars, takeVars
  <2>9. CASE TimerIrq \/ IrqSpins \/ UNCHANGED vars
    BY <2>9, <2>5 DEF TimerIrq, IrqSpins, AfterIrq, vars, portVars, takeVars
  <2> QED
    BY <2>1, <2>2, <2>3, <2>4, <2>6, <2>7, <2>8, <2>9 DEF Next, BootStep
<1> QED BY <1>1, <1>2

\* pop_scancode masks interrupts before it takes the lock and unmasks them after
\* it has released it.
LEMMA MaskStep ==
  /\ Init => MaskInv
  /\ MaskInv /\ [Next]_vars => MaskInv'
<1>1. Init => MaskInv
  BY DEF Init, MaskInv, RingHeld
<1>2. ASSUME MaskInv, [Next]_vars PROVE MaskInv'
  <2> USE <1>2 DEF MaskInv, RingHeld
  <2>1. ASSUME NEW byte \in Keys, NEW aux \in BOOLEAN, ByteArrives(byte, aux)
        PROVE  MaskInv'
    BY <2>1 DEF ByteArrives
  <2>2. CASE KeyboardIrq \/ TimerIrq \/ IrqSpins
    BY <2>2 DEF KeyboardIrq, TimerIrq, IrqSpins, AfterIrq
  <2>3. CASE MemoryInit \/ HeapInit \/ FrameTest \/ InterruptsInit
    BY <2>3 DEF MemoryInit, HeapInit, FrameTest, InterruptsInit, TakeFrames
  <2>4. CASE WindowTest \/ LockRing \/ PopScancode \/ PollStatus \/ PollData \/ Hlt
    BY <2>4 DEF WindowTest, LockRing, PopScancode, PollStatus, PollData, Hlt
  <2>5. CASE MapUserStack \/ LoadElf \/ MapUserBlob \/ ProcessInit \/ SchedulerInit
    BY <2>5 DEF MapUserStack, LoadElf, MapUserBlob, ProcessInit, SchedulerInit,
                TakeFrames
  <2>6. CASE UNCHANGED vars
    BY <2>6 DEF vars
  <2> QED
    BY <2>1, <2>2, <2>3, <2>4, <2>5, <2>6 DEF Next, BootStep
<1> QED BY <1>1, <1>2

-----------------------------------------------------------------------------

\* The bitmap has finitely many bits.
LEMMA FramesFinite == IsFiniteSet(Frames)
  BY FramesAssumption, FS_Interval DEF Frames

\* Taking frames one by one marks only free ones and counts each of them.
LEMMA TakeKeeps ==
  ASSUME used \subseteq Frames, freeCount = Cardinality(FreeFrames),
         NEW n, NEW next, TakeFrames(n, next)
  PROVE  /\ used \subseteq used' /\ used' \subseteq Frames
         /\ freeCount' = Cardinality(FreeFrames')
         /\ pc' \in {next, "panic"}
<1> DEFINE lower(f) == {g \in FreeFrames : g < f}
           taken    == {f \in FreeFrames : Cardinality(lower(f)) < n}
<1>1. /\ used' = used \cup taken
      /\ freeCount' = freeCount - Cardinality(taken)
      /\ pc' \in {next, "panic"}
  BY DEF TakeFrames
<1>2. taken \subseteq FreeFrames
  OBVIOUS
<1> HIDE DEF taken, lower
<1>3. FreeFrames' = FreeFrames \ taken
  BY <1>1, <1>2 DEF FreeFrames
<1>4. IsFiniteSet(FreeFrames) /\ IsFiniteSet(taken)
  BY <1>2, FramesFinite, FS_Subset DEF FreeFrames
<1>5. Cardinality(FreeFrames \ taken) = Cardinality(FreeFrames) - Cardinality(taken)
  <2>1. FreeFrames \cap taken = taken
    BY <1>2
  <2> QED
    <3>1. Cardinality(FreeFrames \ taken)
            = Cardinality(FreeFrames) - Cardinality(FreeFrames \cap taken)
      BY <1>4, FS_Difference
    <3> QED BY <2>1, <3>1
<1> QED
  BY <1>1, <1>2, <1>3, <1>5 DEF FreeFrames

\* The scan establishes FrameInv, and every step keeps it.
LEMMA FrameStep ==
  /\ Init => FrameInv
  /\ FrameInv /\ [Next]_vars => FrameInv'
<1>1. Init => FrameInv
  BY DEF Init, FrameInv
<1>2. ASSUME FrameInv, [Next]_vars PROVE FrameInv'
  <2> USE <1>2 DEF FrameInv
  <2>1. ASSUME UNCHANGED <<frameVars, map>>, pc = "memory" => UNCHANGED pc
        PROVE  FrameInv'
    BY <2>1 DEF frameVars, FreeFrames, Scan, UsableFrames
  <2>2. ASSUME NEW byte \in Keys, NEW aux \in BOOLEAN, ByteArrives(byte, aux)
        PROVE  FrameInv'
    BY <2>2, <2>1 DEF ByteArrives
  <2>3. CASE KeyboardIrq \/ TimerIrq
    BY <2>3, <2>1 DEF KeyboardIrq, TimerIrq, AfterIrq
  <2>4. CASE IrqSpins
    BY <2>4, <2>1 DEF IrqSpins, RingHeld, HeapHeld, SchedHeld
  <2>5. CASE MemoryInit
    <3>1. used' = Scan(map) /\ map' = map /\ freeCount' = Cardinality(Frames \ used')
      BY <2>5 DEF MemoryInit
    <3>2. Scan(map) \subseteq Frames
      BY BootAssumption, FramesAssumption DEF Scan, UsableFrames, Frames
    <3> QED
      BY <3>1, <3>2 DEF FreeFrames, Scan, UsableFrames
  <2>6. ASSUME NEW n, NEW next, TakeFrames(n, next), UNCHANGED map, pc # "memory"
        PROVE  FrameInv'
    BY <2>6, TakeKeeps DEF Scan, UsableFrames
  <2>7. CASE HeapInit \/ MapUserStack \/ LoadElf \/ MapUserBlob
    BY <2>7, <2>6 DEF HeapInit, MapUserStack, LoadElf, MapUserBlob
  <2>8. CASE FrameTest
    <3>1. CASE Cardinality(FreeFrames) = 1
      <4>1. /\ used' = used \cup FreeFrames /\ freeCount' = freeCount - 1
            /\ map' = map /\ pc = "test"
        BY <2>8, <3>1 DEF FrameTest
      <4>2. FreeFrames' = {}
        BY <4>1 DEF FreeFrames
      <4> QED
        BY <3>1, <4>1, <4>2, FS_EmptySet DEF FreeFrames, Scan, UsableFrames
    <3>2. CASE Cardinality(FreeFrames) # 1
      BY <2>8, <3>2, <2>1 DEF FrameTest
    <3> QED
      BY <3>1, <3>2
  <2>9. CASE InterruptsInit \/ WindowTest \/ LockRing \/ PopScancode \/ PollStatus
             \/ PollData \/ Hlt \/ ProcessInit \/ SchedulerInit
    BY <2>9, <2>1 DEF InterruptsInit, WindowTest, LockRing, PopScancode, PollStatus,
       PollData, Hlt, ProcessInit, SchedulerInit
  <2>10. CASE UNCHANGED vars
    BY <2>10, <2>1 DEF vars
  <2> QED
    BY <2>2, <2>3, <2>4, <2>5, <2>7, <2>8, <2>9, <2>10 DEF Next, BootStep
<1> QED BY <1>1, <1>2

-----------------------------------------------------------------------------

Rings == [buf  : [0 .. (RingSize - 1) -> Keys \cup {NoByte}],
          head : 0 .. (RingSize - 1), tail : 0 .. (RingSize - 1)]

\* Remainders within one round of the ring.
LEMMA RingMod ==
  ASSUME NEW i \in Int, -RingSize < i, i < 2 * RingSize
  PROVE  i % RingSize = IF i < 0 THEN i + RingSize
                        ELSE IF i < RingSize THEN i ELSE i - RingSize
  BY RingAssumption

\* The cell after a cell.
LEMMA NextCell ==
  ASSUME NEW i \in 0 .. (RingSize - 1)
  PROVE  (i + 1) % RingSize = IF i + 1 < RingSize THEN i + 1 ELSE 0
<1> DEFINE x == i + 1
<1>1. x \in Nat /\ x < 2 * RingSize /\ x <= RingSize
  BY RingAssumption
<1> HIDE DEF x
<1>2. x % RingSize = IF x < RingSize THEN x ELSE 0
  BY <1>1, RingMod, RingAssumption
<1> QED
  BY <1>2 DEF x

\* How many bytes a ring holds, and in which cell the i-th oldest is.
Span(q) == IF q.tail >= q.head THEN q.tail - q.head ELSE q.tail - q.head + RingSize

Cell(q, i) == IF q.head + i - 1 < RingSize THEN q.head + i - 1
              ELSE q.head + i - 1 - RingSize

\* The components of a ring.
LEMMA RingTypes ==
  ASSUME NEW q \in Rings
  PROVE  /\ RingSize \in Nat /\ RingSize > 1
         /\ q.head \in 0 .. (RingSize - 1) /\ q.tail \in 0 .. (RingSize - 1)
         /\ q.buf \in [0 .. (RingSize - 1) -> Keys \cup {NoByte}]
         /\ Span(q) \in 0 .. (RingSize - 1)
         /\ \A i \in 1 .. RingSize : Cell(q, i) \in 0 .. (RingSize - 1)
<1>1. /\ q.head \in 0 .. (RingSize - 1) /\ q.tail \in 0 .. (RingSize - 1)
      /\ q.buf \in [0 .. (RingSize - 1) -> Keys \cup {NoByte}]
  BY DEF Rings
<1> QED
  BY <1>1, RingAssumption DEF Span, Cell

\* The bytes of a ring, by their number and their cells.
LEMMA Contents ==
  ASSUME NEW q \in Rings
  PROVE  /\ RingContents(q) \in Seq(Keys \cup {NoByte})
         /\ Len(RingContents(q)) = Span(q)
         /\ \A i \in 1 .. Span(q) : RingContents(q)[i] = q.buf[Cell(q, i)]
<1>1. (q.tail - q.head) % RingSize = Span(q)
  <2> DEFINE x == q.tail - q.head
  <2>1. x \in Int /\ -RingSize < x /\ x < RingSize
    BY RingTypes
  <2>2. Span(q) = IF x < 0 THEN x + RingSize ELSE x
    BY RingTypes DEF Span
  <2> HIDE DEF x
  <2>3. x % RingSize = Span(q)
    BY <2>1, <2>2, RingMod, RingAssumption
  <2> QED
    BY <2>3 DEF x
<1>2. ASSUME NEW i \in 1 .. Span(q) PROVE (q.head + i - 1) % RingSize = Cell(q, i)
  <2> DEFINE x == q.head + i - 1
  <2>1. x \in Nat /\ x < 2 * RingSize
    BY RingTypes
  <2>2. Cell(q, i) = IF x < RingSize THEN x ELSE x - RingSize
    BY RingTypes DEF Cell
  <2> HIDE DEF x
  <2>3. x % RingSize = Cell(q, i)
    BY <2>1, <2>2, RingMod, RingAssumption
  <2> QED
    BY <2>3 DEF x
<1>3. RingContents(q) = [i \in 1 .. Span(q) |-> q.buf[Cell(q, i)]]
  BY <1>1, <1>2 DEF RingContents
<1>4. \A i \in 1 .. Span(q) : q.buf[Cell(q, i)] \in Keys \cup {NoByte}
  BY RingTypes
<1>5. Span(q) \in Nat
  BY RingTypes
<1> QED
  BY <1>3, <1>4, <1>5

\* try_push appends, or drops the byte when all cells but one are in use.
LEMMA PushContents ==
  ASSUME NEW q \in Rings, NEW b \in Keys \cup {NoByte}
  PROVE  /\ TryPush(q, b) \in Rings
         /\ RingContents(TryPush(q, b)) =
              IF Len(RingContents(q)) < RingSize - 1
              THEN Append(RingContents(q), b) ELSE RingContents(q)
<1> DEFINE next == (q.tail + 1) % RingSize
           r    == [buf |-> [q.buf EXCEPT ![q.tail] = b], head |-> q.head, tail |-> next]
           c    == RingContents(q)
           d    == RingContents(r)
<1>1. next = IF q.tail + 1 < RingSize THEN q.tail + 1 ELSE 0
  BY RingTypes, NextCell
<1>2. next = q.head <=> Span(q) = RingSize - 1
  <2> HIDE DEF next
  <2> QED
    BY <1>1, RingTypes DEF Span
<1>3. c \in Seq(Keys \cup {NoByte}) /\ Len(c) = Span(q)
  BY Contents
<1>4. CASE next = q.head
  <2>1. TryPush(q, b) = q
    BY <1>4 DEF TryPush
  <2> QED
    BY <1>2, <1>3, <1>4, <2>1, RingTypes
<1>5. CASE next # q.head
  <2>1. TryPush(q, b) = r
    BY <1>5 DEF TryPush, Rings
  <2>2. /\ r.head = q.head /\ r.tail = next
        /\ r.buf = [q.buf EXCEPT ![q.tail] = b]
    OBVIOUS
  <2>3. r \in Rings
    <3>1. next \in 0 .. (RingSize - 1)
      BY <1>1, RingTypes
    <3>2. [q.buf EXCEPT ![q.tail] = b] \in [0 .. (RingSize - 1) -> Keys \cup {NoByte}]
      BY RingTypes
    <3> QED
      BY <3>1, <3>2, RingTypes DEF Rings
  <2> HIDE DEF r, next
  <2>4. Span(r) = Span(q) + 1
    <3>1. /\ RingSize \in Nat /\ RingSize > 1
          /\ q.head \in 0 .. (RingSize - 1) /\ q.tail \in 0 .. (RingSize - 1)
      BY RingTypes
    <3>2. CASE q.tail + 1 < RingSize
      BY <1>1, <1>5, <2>2, <3>1, <3>2 DEF Span
    <3>3. CASE q.tail + 1 = RingSize
      BY <1>1, <1>5, <2>2, <3>1, <3>3 DEF Span
    <3> QED BY <3>1, <3>2, <3>3
  <2>5. d \in Seq(Keys \cup {NoByte}) /\ Len(d) = Len(c) + 1
    BY <1>3, <2>3, <2>4, Contents
  <2>6. ASSUME NEW i \in 1 .. Len(c) PROVE d[i] = c[i]
    <3>1. c[i] = q.buf[Cell(q, i)]
      BY <1>3, Contents
    <3>2. d[i] = r.buf[Cell(q, i)]
      <4>1. i \in 1 .. Span(r)
        BY <1>3, <2>4, RingTypes
      <4>2. Cell(r, i) = Cell(q, i)
        BY <2>2 DEF Cell
      <4> QED
        BY <2>3, <4>1, <4>2, Contents
    <3>3. Cell(q, i) # q.tail
      BY <1>3, RingTypes DEF Cell, Span
    <3>4. Cell(q, i) \in 0 .. (RingSize - 1)
      BY <1>3, RingTypes
    <3> QED
      BY <3>1, <3>2, <3>3, <3>4, <2>2, RingTypes
  <2>7. d[Len(c) + 1] = b
    <3>1. d[Len(c) + 1] = r.buf[Cell(r, Len(c) + 1)]
      <4>1. Len(c) + 1 \in 1 .. Span(r)
        BY <1>3, <2>4, RingTypes
      <4> QED
        BY <2>3, <4>1, Contents
    <3>2. Cell(r, Len(c) + 1) = q.tail
      BY <1>3, <2>2, RingTypes DEF Cell, Span
    <3> QED
      BY <3>1, <3>2, <2>2, RingTypes
  <2>8. d = Append(c, b)
    BY <1>3, <2>5, <2>6, <2>7
  <2>9. Len(c) < RingSize - 1
    BY <1>2, <1>3, <1>5, RingTypes
  <2> QED
    BY <2>1, <2>3, <2>8, <2>9
<1> QED BY <1>4, <1>5

\* try_pop takes the oldest byte.
LEMMA PopContents ==
  ASSUME NEW q \in Rings, ~RingIsEmpty(q)
  PROVE  /\ PopRest(q) \in Rings
         /\ RingContents(q) # <<>>
         /\ RingContents(PopRest(q)) = Tail(RingContents(q))
<1> DEFINE first == (q.head + 1) % RingSize
           r == [buf |-> q.buf, head |-> first, tail |-> q.tail]
           c == RingContents(q)
           d == RingContents(r)
<1>1. first = IF q.head + 1 < RingSize THEN q.head + 1 ELSE 0
  BY RingTypes, NextCell
<1>2. PopRest(q) = r
  BY DEF PopRest, Rings
<1>3. r.buf = q.buf /\ r.head = first /\ r.tail = q.tail
  OBVIOUS
<1>4. r \in Rings
  <2>1. first \in 0 .. (RingSize - 1)
    BY <1>1, RingTypes
  <2> QED
    BY <2>1, RingTypes DEF Rings
<1> HIDE DEF r, first
<1>5. Span(r) = Span(q) - 1 /\ Span(q) > 0
  <2>1. q.head # q.tail
    BY DEF RingIsEmpty
  <2>2. /\ RingSize \in Nat /\ q.head \in 0 .. (RingSize - 1)
        /\ q.tail \in 0 .. (RingSize - 1)
    BY RingTypes
  <2>3. CASE q.head + 1 < RingSize
    BY <1>1, <1>3, <2>1, <2>2, <2>3 DEF Span
  <2>4. CASE q.head + 1 = RingSize
    BY <1>1, <1>3, <2>1, <2>2, <2>4 DEF Span
  <2> QED
    BY <2>2, <2>3, <2>4
<1>6. /\ c \in Seq(Keys \cup {NoByte}) /\ Len(c) = Span(q)
      /\ d \in Seq(Keys \cup {NoByte}) /\ Len(d) = Len(c) - 1
  BY <1>4, <1>5, Contents
<1>7. ASSUME NEW i \in 1 .. Len(d) PROVE d[i] = c[i + 1]
  <2>1. i \in 1 .. Span(r) /\ i + 1 \in 1 .. Span(q)
    BY <1>5, <1>6, RingTypes
  <2>2. Cell(r, i) = Cell(q, i + 1)
    <3>1. i \in Nat /\ i >= 1 /\ i < RingSize
      BY <2>1, RingTypes
    <3>2. /\ RingSize \in Nat /\ RingSize > 1 /\ q.head \in 0 .. (RingSize - 1)
      BY RingTypes
    <3> HIDE DEF first, r
    <3>3. CASE q.head + 1 < RingSize
      BY <1>1, <1>3, <3>1, <3>2, <3>3 DEF Cell
    <3>4. CASE q.head + 1 = RingSize
      BY <1>1, <1>3, <3>1, <3>2, <3>4 DEF Cell
    <3> QED BY <3>2, <3>3, <3>4
  <2> QED
    BY <1>3, <1>4, <2>1, <2>2, Contents
<1>8. d = Tail(c) /\ c # <<>>
  BY <1>5, <1>6, <1>7, RingTypes
<1> QED
  BY <1>2, <1>4, <1>8

-----------------------------------------------------------------------------

Inv == FatesInv /\ MaskInv /\ FrameInv /\ ring \in Rings

\* The step of the ring, as RingIsFifo states it.
RingStep ==
  LET old == RingContents(ring)  new == RingContents(ring)'
  IN  IF takers' = Append(takers, "irq")
      THEN new = IF Len(old) < RingSize - 1 THEN Append(old, port.byte) ELSE old
      ELSE new = old \/ (old # <<>> /\ new = Tail(old))

\* Only the interrupt pushes, and only pop_scancode pops.
LEMMA RingKeeps ==
  ASSUME FatesInv, ring \in Rings, [Next]_vars
  PROVE  ring' \in Rings /\ [RingStep]_vars
<1>1. ASSUME UNCHANGED ring, takers' # Append(takers, "irq")
      PROVE  ring' \in Rings /\ [RingStep]_vars
  BY <1>1 DEF RingStep, RingContents
<1>2. /\ takers # Append(takers, "irq") /\ <<>> # Append(takers, "irq")
      /\ Append(takers, "poll") # Append(takers, "irq")
      /\ Append(takers, "dropped") # Append(takers, "irq")
  <2> DEFINE S == {"irq", "poll", "dropped"}
  <2>1. takers \in Seq(S)
    BY TakersType DEF FatesInv
  <2>2. "irq" \in S /\ "poll" \in S /\ "dropped" \in S
    OBVIOUS
  <2> HIDE DEF S
  <2> QED BY <2>1, <2>2, TakersDiffer
<1>3. UNCHANGED takers => takers' # Append(takers, "irq")
  BY <1>2
<1>4. CASE KeyboardIrq
  <2>1. port.byte \in Keys \cup {NoByte}
    BY DEF FatesInv
  <2>2. CASE port.full /\ ~port.aux
    <3>1. ring' = TryPush(ring, port.byte) /\ takers' = Append(takers, "irq")
      BY <1>4, <2>2 DEF KeyboardIrq, HandleKeyboardIrq
    <3>2. RingContents(ring)' = RingContents(TryPush(ring, port.byte))
      BY <3>1 DEF RingContents
    <3>3. TryPush(ring, port.byte) \in Rings
      BY <2>1, PushContents
    <3>4. RingContents(TryPush(ring, port.byte)) =
            IF Len(RingContents(ring)) < RingSize - 1
            THEN Append(RingContents(ring), port.byte) ELSE RingContents(ring)
      BY <2>1, PushContents
    <3>5. RingStep
      BY <3>1, <3>2, <3>4, Zenon DEF RingStep
    <3> QED
      BY <3>1, <3>3, <3>5
  <2>3. CASE ~(port.full /\ ~port.aux)
    BY <1>1, <1>4, <1>3, <2>3 DEF KeyboardIrq, HandleKeyboardIrq, takeVars
  <2> QED
    BY <2>2, <2>3
<1>5. CASE PopScancode
  <2>1. CASE RingIsEmpty(ring)
    BY <1>1, <1>5, <1>3, <2>1 DEF PopScancode
  <2>2. CASE ~RingIsEmpty(ring)
    <3>1. ring' = PopRest(ring) /\ takers' # Append(takers, "irq")
      BY <1>5, <1>3, <2>2 DEF PopScancode
    <3>2. RingContents(ring)' = RingContents(PopRest(ring))
      BY <3>1 DEF RingContents
    <3> QED
      BY <2>2, <3>1, <3>2, PopContents DEF RingStep
  <2> QED
    BY <2>1, <2>2
<1>6. ASSUME NEW byte \in Keys, NEW aux \in BOOLEAN, ByteArrives(byte, aux)
      PROVE  ring' \in Rings /\ [RingStep]_vars
  BY <1>1, <1>6, <1>2, <1>3 DEF ByteArrives
<1>7. CASE TimerIrq \/ IrqSpins \/ PollData \/ UNCHANGED vars
  BY <1>1, <1>7, <1>2, <1>3 DEF TimerIrq, IrqSpins, PollData, takeVars, vars
<1>8. CASE BootStep
  BY <1>1, <1>5, <1>7, <1>8, <1>3 DEF BootStep, MemoryInit, HeapInit, FrameTest,
     InterruptsInit, WindowTest, LockRing, PollStatus, Hlt, MapUserStack,
     LoadElf, MapUserBlob, ProcessInit, SchedulerInit, takeVars
<1> QED
  BY <1>4, <1>6, <1>7, <1>8 DEF Next

\* The four parts of the invariant hold at any time during boot.
THEOREM BootInv == Spec => []Inv
<1>1. Init => ring \in Rings
  <2>1. 0 \in 0 .. (RingSize - 1)
    BY RingAssumption
  <2> QED
    BY <2>1 DEF Init, EmptyRing, Rings
<1>2. Init => Inv
  BY <1>1, FatesStep, MaskStep, FrameStep DEF Inv
<1>3. Inv /\ [Next]_vars => Inv'
  BY FatesStep, MaskStep, FrameStep, RingKeeps DEF Inv
<1> QED
  BY <1>2, <1>3, PTL DEF Spec

\* The rest of the types: where boot is, and what it has left and seen.
RestInv ==
  /\ pc \in Places /\ status \in {"none", "aux", "key"}
  /\ left \in 0 .. Window /\ sent <= MaxBytes
  /\ pc = "memory" => freeCount = 0

\* Neither the ticks of the window nor the bytes run past their bounds.
LEMMA RestStep ==
  /\ Init => RestInv
  /\ Inv /\ RestInv /\ [Next]_vars => RestInv'
<1>1. ASSUME Init PROVE RestInv
  <2>1. /\ pc = "memory" /\ status = "none" /\ left = Window /\ sent = 0
        /\ freeCount = 0
    BY <1>1 DEF Init
  <2> QED BY <2>1, BootAssumption DEF RestInv, Places
<1>2. ASSUME Inv, RestInv, [Next]_vars PROVE RestInv'
  <2> USE <1>2 DEF RestInv, Places
  <2>1. ASSUME NEW byte \in Keys, NEW aux \in BOOLEAN, ByteArrives(byte, aux)
        PROVE  RestInv'
    <3>1. sent \in Nat /\ MaxBytes \in Nat
      BY BootAssumption DEF Inv, FatesInv
    <3> QED BY <2>1, <3>1 DEF ByteArrives, frameVars
  <2>2. CASE KeyboardIrq \/ IrqSpins
    BY <2>2 DEF KeyboardIrq, IrqSpins, AfterIrq, frameVars, portVars
  <2>3. CASE TimerIrq
    <3>1. left' \in 0 .. Window
      BY <2>3, BootAssumption DEF TimerIrq
    <3> QED BY <2>3, <3>1 DEF TimerIrq, AfterIrq, frameVars, portVars
  <2>4. CASE MemoryInit \/ HeapInit \/ FrameTest \/ InterruptsInit
    BY <2>4 DEF MemoryInit, HeapInit, FrameTest, InterruptsInit, TakeFrames, portVars
  <2>5. CASE WindowTest \/ LockRing \/ PopScancode \/ PollStatus \/ PollData \/ Hlt
    BY <2>5 DEF WindowTest, LockRing, PopScancode, PollStatus, PollData, Hlt, portVars
  <2>6. CASE MapUserStack \/ LoadElf \/ MapUserBlob \/ ProcessInit \/ SchedulerInit
    BY <2>6 DEF MapUserStack, LoadElf, MapUserBlob, ProcessInit, SchedulerInit,
                TakeFrames, portVars
  <2>7. CASE UNCHANGED vars
    BY <2>7 DEF vars, frameVars, portVars
  <2> QED
    BY <2>1, <2>2, <2>3, <2>4, <2>5, <2>6, <2>7 DEF Next, BootStep
<1> QED BY <1>1, <1>2

PendingInv == irq1 \in BOOLEAN

\* IRQ1 is pending or not.
LEMMA PendingStep ==
  /\ Init => PendingInv
  /\ PendingInv /\ [Next]_vars => PendingInv'
<1> USE DEF PendingInv
<1>1. ASSUME PendingInv, [Next]_vars PROVE PendingInv'
  <2>1. ASSUME NEW byte \in Keys, NEW aux \in BOOLEAN, ByteArrives(byte, aux)
        PROVE  PendingInv'
    BY <2>1 DEF ByteArrives
  <2>2. CASE KeyboardIrq \/ TimerIrq \/ IrqSpins \/ UNCHANGED vars
    BY <1>1, <2>2 DEF KeyboardIrq, TimerIrq, IrqSpins, vars, portVars
  <2>3. CASE BootStep
    BY <1>1, <2>3 DEF BootStep, MemoryInit, HeapInit, FrameTest,
       InterruptsInit, WindowTest, LockRing, PopScancode, PollStatus, PollData, Hlt,
       MapUserStack, LoadElf, MapUserBlob, ProcessInit, SchedulerInit, portVars
  <2> QED BY <1>1, <2>1, <2>2, <2>3 DEF Next
<1> QED BY <1>1 DEF Init

\* Frames, controller, ring and histories stay within their bounds.
THEOREM BootTypeCorrect == Spec => []TypeOK
<1>1. Inv /\ RestInv /\ PendingInv => TypeOK
  <2> SUFFICES ASSUME Inv, RestInv, PendingInv PROVE TypeOK
    OBVIOUS
  <2>1. freeCount \in 0 .. NumFrames
    <3>1. CASE pc = "memory"
      BY <3>1, FramesAssumption DEF RestInv
    <3>2. CASE pc # "memory"
      <4>1. Cardinality(Frames) = NumFrames
        BY FramesAssumption, FS_Interval DEF Frames
      <4>2. FreeFrames \in SUBSET Frames
        BY DEF FreeFrames
      <4>3. Cardinality(FreeFrames) \in Nat /\ Cardinality(FreeFrames) <= NumFrames
        BY <4>1, <4>2, FramesFinite, FS_Subset, FS_CardinalityType
      <4> QED BY <3>2, <4>3, FramesAssumption DEF Inv, FrameInv
    <3> QED BY <3>1, <3>2
  <2>2. sent \in 0 .. MaxBytes /\ takers \in Seq({"irq", "poll", "dropped"})
    BY TakersType, BootAssumption DEF Inv, FatesInv, RestInv
  <2>3. ring.head \in 0 .. (RingSize - 1) /\ ring.tail \in 0 .. (RingSize - 1)
    BY DEF Inv, Rings
  <2> QED
    BY <2>1, <2>2, <2>3 DEF Inv, FatesInv, MaskInv, FrameInv, RestInv,
                         PendingInv, TypeOK
<1> QED BY <1>1, RestStep, PendingStep, BootInv, PTL DEF Spec

\* However the polling of the boot code and the keyboard interrupt interleave, and
\* for any number of bytes, no key is lost in the controller, the interrupt passes a
\* key on at most once and not after polling, and polling repeats a key only if the
\* interrupt took it between its two port reads.
THEOREM FatesCorrect == Spec => []KeyFates
<1>1. Inv => KeyFates
  BY DEF Inv, FatesInv
<1> QED BY <1>1, BootInv, PTL

\* For any memory map, what the bitmap calls free is usable memory, never frame 0
\* or video memory, and FREE_COUNT is the number of free bits.
THEOREM FreeCorrect == Spec => []FreeIsUsable
<1>1. Inv => FreeIsUsable
  BY DEF Inv, FrameInv, FreeIsUsable, FreeFrames, Scan
<1> QED BY <1>1, BootInv, PTL

\* A ring of any size is a queue that drops bytes only when it is full.
THEOREM RingCorrect == Spec => RingIsFifo
<1>1. Inv /\ [Next]_vars => [RingStep]_vars
  BY RingKeeps DEF Inv
<1> QED BY <1>1, BootInv, PTL DEF Spec, RingIsFifo, RingStep

\* No interrupt handler spins on a lock the keyboard window holds.
THEOREM WindowCorrect == Spec => WindowNeverSpins
<1>1. Inv /\ [Next]_vars => [pc' = "hung" => pc \in {"process", "sched", "hung"}]_vars
  <2> SUFFICES ASSUME Inv, Next, pc' = "hung"
               PROVE  pc \in {"process", "sched", "hung"}
    OBVIOUS
  <2>1. CASE IrqSpins
    BY <2>1 DEF IrqSpins, Inv, MaskInv, RingHeld, HeapHeld, SchedHeld
  <2>2. ASSUME NEW byte \in Keys, NEW aux \in BOOLEAN, ByteArrives(byte, aux)
        PROVE  pc = "hung"
    BY <2>2 DEF ByteArrives
  <2>3. CASE KeyboardIrq \/ TimerIrq
    BY <2>3 DEF KeyboardIrq, TimerIrq, AfterIrq
  <2>4. CASE BootStep
    BY <2>4 DEF BootStep, MemoryInit, HeapInit, FrameTest, TakeFrames,
       InterruptsInit, WindowTest, LockRing, PopScancode, PollStatus, PollData, Hlt,
       MapUserStack, LoadElf, MapUserBlob, ProcessInit, SchedulerInit
  <2> QED
    BY <2>1, <2>2, <2>3, <2>4 DEF Next
<1> QED BY <1>1, BootInv, PTL DEF Spec, WindowNeverSpins

=============================================================================
