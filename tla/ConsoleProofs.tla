--------------------------- MODULE ConsoleProofs ----------------------------
(***************************************************************************)
(* Theorems about Console, for lines, queues and reads of any length.      *)
(***************************************************************************)
EXTENDS Console, InductionProofs, FiniteSetTheorems, SequenceTheorems

Ttys == [shiftLeft : BOOLEAN, shiftRight : BOOLEAN, e0Prefix : BOOLEAN,
         lineEdit : Seq(Chars), readyLines : Seq(Seq(Chars \cup {NL}))]

\* A terminal within its limits.
TtyOK(t) ==
  t \in Ttys /\ Len(t.lineEdit) <= LineBuf /\ Len(t.readyLines) <= MaxReadyLines

Rings == [buf  : [0 .. (RingSize - 1) -> {NoByte, "byte"}],
          head : 0 .. (RingSize - 1), tail : 0 .. (RingSize - 1)]

Codes == Makes \cup Breaks

\* The terminal's flags are those of the keyboard ...
Agree == (tty.shiftLeft <=> "lshift" \in down) /\ (tty.shiftRight <=> "rshift" \in down)

\* ... or will be once it has been fed code c.
AgreeAfter(c) ==
  /\ "lshift" \in down <=> c = "lshift" \/ (tty.shiftLeft /\ c # "lshift up")
  /\ "rshift" \in down <=> c = "rshift" \/ (tty.shiftRight /\ c # "rshift up")

\* Where an event is on its way: arrived, an ordinary code to come, an extended
\* event to come, or the second code of one.
WireInv ==
  \/ wire = <<>> /\ Agree /\ ~tty.e0Prefix
  \/ \E c \in Codes : wire = <<c>> /\ AgreeAfter(c) /\ ~tty.e0Prefix
  \/ \E c \in Codes : wire = <<"e0", c>> /\ Agree /\ ~tty.e0Prefix
  \/ \E c \in Codes : wire = <<c>> /\ Agree /\ tty.e0Prefix

\* The controller's buffer holds a code when IRQ1 is pending.
PortInv ==
  /\ full \in BOOLEAN /\ irq1 \in BOOLEAN /\ down \subseteq Shifts
  /\ irq1 => full
  /\ full => wire # <<>>

\* Until its first hlt a system call runs with interrupts masked.
CallInv ==
  /\ pc \in Places /\ intr \in BOOLEAN /\ waited \in BOOLEAN
  /\ nonblock \in BOOLEAN /\ want \in 0 .. MaxLen
  /\ pc \in {"try", "locked", "empty", "tail", "sched"} /\ ~waited => ~intr
  /\ pc \in {"hlt", "hung"} => waited

Inv == TtyOK(tty) /\ ring \in Rings /\ PortInv /\ WireInv /\ CallInv

-----------------------------------------------------------------------------

\* u is a terminal within its limits with the flags of t.
Keeps(t, u) ==
  /\ TtyOK(u)
  /\ u.shiftLeft = t.shiftLeft /\ u.shiftRight = t.shiftRight
  /\ u.e0Prefix = t.e0Prefix

WithLines(t, e, l) == [t EXCEPT !.lineEdit = e, !.readyLines = l]

\* New lines that keep the limits keep TtyOK.
LEMMA LinesKeep ==
  ASSUME NEW t, TtyOK(t), NEW e \in Seq(Chars), Len(e) <= LineBuf,
         NEW l \in Seq(Seq(Chars \cup {NL})), Len(l) <= MaxReadyLines
  PROVE  Keeps(t, WithLines(t, e, l))
  BY DEF Keeps, TtyOK, Ttys, WithLines

\* Feeding a character keeps the limits and does not touch the flags.
LEMMA FeedCharKeeps ==
  ASSUME NEW t, TtyOK(t), NEW c \in Chars \cup {NL, BS, NoChar}
  PROVE  Keeps(t, FeedChar(t, c))
<1>a. /\ t.lineEdit \in Seq(Chars) /\ Len(t.lineEdit) <= LineBuf
      /\ t.readyLines \in Seq(Seq(Chars \cup {NL}))
      /\ Len(t.readyLines) <= MaxReadyLines
  BY DEF TtyOK, Ttys
<1>0. Chars = {"c", "C"} /\ NL = "NL" /\ BS = "BS" /\ NoChar = "none"
  BY DEF Chars, Plain, Shifted, NL, BS, NoChar
<1>1. CASE c = NoChar
  BY <1>0, <1>1 DEF FeedChar, Keeps
<1>2. CASE c = NL
  <2>1. FeedChar(t, c) = CompleteLine(t)
    BY <1>0, <1>2 DEF FeedChar
  <2> DEFINE l == IF Len(t.readyLines) < MaxReadyLines
                  THEN Append(t.readyLines, Append(t.lineEdit, NL)) ELSE t.readyLines
  <2>2. Append(t.lineEdit, NL) \in Seq(Chars \cup {NL})
    BY <1>a
  <2>3. l \in Seq(Seq(Chars \cup {NL})) /\ Len(l) <= MaxReadyLines
    BY <1>a, <2>2, TtyAssumption
  <2>4. CompleteLine(t) = WithLines(t, <<>>, l)
    BY DEF CompleteLine, TtyOK, Ttys, WithLines
  <2>5. <<>> \in Seq(Chars) /\ Len(<<>>) <= LineBuf
    BY TtyAssumption
  <2> HIDE DEF l
  <2> QED
    BY <2>1, <2>3, <2>4, <2>5, LinesKeep
<1>3. CASE c = BS
  <2>1. FeedChar(t, c) = EraseChar(t)
    BY <1>0, <1>3 DEF FeedChar
  <2> DEFINE e == IF t.lineEdit = <<>> THEN t.lineEdit
                  ELSE SubSeq(t.lineEdit, 1, Len(t.lineEdit) - 1)
  <2>2. e \in Seq(Chars) /\ Len(e) <= LineBuf
    BY <1>a, TtyAssumption
  <2>3. EraseChar(t) = WithLines(t, e, t.readyLines)
    BY DEF EraseChar, TtyOK, Ttys, WithLines
  <2> HIDE DEF e
  <2> QED
    BY <1>a, <2>1, <2>2, <2>3, LinesKeep
<1>4. CASE c \in Chars
  <2>1. FeedChar(t, c) = AppendChar(t, c)
    BY <1>0, <1>4 DEF FeedChar
  <2> DEFINE e == IF Len(t.lineEdit) < LineBuf THEN Append(t.lineEdit, c) ELSE t.lineEdit
  <2>2. e \in Seq(Chars) /\ Len(e) <= LineBuf
    BY <1>4, <1>a, TtyAssumption
  <2>3. AppendChar(t, c) = WithLines(t, e, t.readyLines)
    BY DEF AppendChar, TtyOK, Ttys, WithLines
  <2> HIDE DEF e
  <2> QED
    BY <1>a, <2>1, <2>2, <2>3, LinesKeep
<1> QED BY <1>1, <1>2, <1>3, <1>4

\* What a scancode does to the flags.
LEMMA FeedKeeps ==
  ASSUME NEW t, TtyOK(t), NEW code \in Scancodes
  PROVE  LET u == FeedScancode(t, code)
         IN  /\ TtyOK(u)
             /\ u.e0Prefix <=> ~t.e0Prefix /\ code = "e0"
             /\ t.e0Prefix => u.shiftLeft = t.shiftLeft /\ u.shiftRight = t.shiftRight
             /\ ~t.e0Prefix =>
                  /\ u.shiftLeft <=> code = "lshift" \/ (t.shiftLeft /\ code # "lshift up")
                  /\ u.shiftRight <=> code = "rshift" \/ (t.shiftRight /\ code # "rshift up")
<1> DEFINE u == FeedScancode(t, code)
<1>0. t \in Ttys /\ t.shiftLeft \in BOOLEAN /\ t.shiftRight \in BOOLEAN
      /\ t.e0Prefix \in BOOLEAN
  BY DEF TtyOK, Ttys
<1>1. CASE t.e0Prefix
  <2>1. u = [t EXCEPT !.e0Prefix = FALSE]
    BY <1>1 DEF FeedScancode
  <2> QED
    BY <1>0, <1>1, <2>1 DEF TtyOK, Ttys
<1>2. CASE ~t.e0Prefix
  <2>0. u = FeedKey(t, code)
    BY <1>2 DEF FeedScancode
  <2>1. CASE code = "e0"
    <3>1. u = [t EXCEPT !.e0Prefix = TRUE]
      BY <2>0, <2>1 DEF FeedKey
    <3> QED
      BY <1>0, <1>2, <2>1, <3>1 DEF TtyOK, Ttys
  <2>2. CASE code = "lshift"
    <3>1. u = [t EXCEPT !.shiftLeft = TRUE]
      BY <2>0, <2>2 DEF FeedKey
    <3> QED
      BY <1>0, <1>2, <2>2, <3>1 DEF TtyOK, Ttys
  <2>3. CASE code = "rshift"
    <3>1. u = [t EXCEPT !.shiftRight = TRUE]
      BY <2>0, <2>3 DEF FeedKey
    <3> QED
      BY <1>0, <1>2, <2>3, <3>1 DEF TtyOK, Ttys
  <2>4. CASE code = "lshift up"
    <3>1. u = [t EXCEPT !.shiftLeft = FALSE]
      BY <2>0, <2>4 DEF FeedKey
    <3> QED
      BY <1>0, <1>2, <2>4, <3>1 DEF TtyOK, Ttys
  <2>5. CASE code = "rshift up"
    <3>1. u = [t EXCEPT !.shiftRight = FALSE]
      BY <2>0, <2>5 DEF FeedKey
    <3> QED
      BY <1>0, <1>2, <2>5, <3>1 DEF TtyOK, Ttys
  <2>6. CASE code = "other up"
    <3>1. u = t
      BY <2>0, <2>6 DEF FeedKey
    <3> QED
      BY <1>0, <1>2, <2>6, <3>1
  <2>7. CASE code \in {"char", "enter", "bksp", "fkey"}
    <3> DEFINE c == IF t.shiftLeft \/ t.shiftRight
                    THEN ShiftedChar(code) ELSE ScancodeToChar(code)
    <3>1. u = FeedChar(t, c)
      BY <2>0, <2>7 DEF FeedKey
    <3>2. c \in Chars \cup {NL, BS, NoChar}
      BY <2>7 DEF ShiftedChar, ScancodeToChar, Chars, Plain, Shifted
    <3> HIDE DEF c
    <3>3. TtyOK(u) /\ u.shiftLeft = t.shiftLeft /\ u.shiftRight = t.shiftRight
          /\ u.e0Prefix = t.e0Prefix
      BY <3>1, <3>2, FeedCharKeeps DEF Keeps
    <3> QED
      BY <1>0, <1>2, <2>7, <3>3
  <2> QED
    BY <2>1, <2>2, <2>3, <2>4, <2>5, <2>6, <2>7 DEF Scancodes, Makes, Breaks, Shifts
<1> QED BY <1>1, <1>2

\* A read keeps the limits, since what it puts back was in front before.
LEMMA ReadKeeps ==
  ASSUME NEW t, TtyOK(t), t.readyLines # <<>>, NEW len \in Nat
  PROVE  Keeps(t, ReadRest(t, len))
<1> DEFINE line == Head(t.readyLines)
           l == IF Len(line) <= len THEN Tail(t.readyLines)
                ELSE <<SubSeq(line, len + 1, Len(line))>> \o Tail(t.readyLines)
<1>1. /\ t.lineEdit \in Seq(Chars) /\ Len(t.lineEdit) <= LineBuf
      /\ t.readyLines \in Seq(Seq(Chars \cup {NL}))
      /\ Len(t.readyLines) <= MaxReadyLines
  BY DEF TtyOK, Ttys
<1>2. /\ line \in Seq(Chars \cup {NL})
      /\ Tail(t.readyLines) \in Seq(Seq(Chars \cup {NL}))
      /\ Len(Tail(t.readyLines)) = Len(t.readyLines) - 1
  BY <1>1
<1> HIDE DEF line
<1>3. SubSeq(line, len + 1, Len(line)) \in Seq(Chars \cup {NL})
  BY <1>2
<1>4. l \in Seq(Seq(Chars \cup {NL})) /\ Len(l) <= MaxReadyLines
  <2> DEFINE rest == SubSeq(line, len + 1, Len(line))
             others == Tail(t.readyLines)
  <2>1. rest \in Seq(Chars \cup {NL}) /\ others \in Seq(Seq(Chars \cup {NL}))
        /\ Len(others) \in Nat /\ Len(others) + 1 <= MaxReadyLines
    BY <1>1, <1>2, <1>3, TtyAssumption
  <2>2. l = IF Len(line) <= len THEN others ELSE <<rest>> \o others
    OBVIOUS
  <2> HIDE DEF rest, others, l
  <2>3. <<rest>> \in Seq(Seq(Chars \cup {NL})) /\ Len(<<rest>>) = 1
    BY <2>1
  <2>4. <<rest>> \o others \in Seq(Seq(Chars \cup {NL}))
        /\ Len(<<rest>> \o others) = 1 + Len(others)
    BY <2>1, <2>3
  <2> QED
    <3>1. CASE Len(line) <= len
      BY <2>1, <2>2, <3>1, TtyAssumption
    <3>2. CASE ~(Len(line) <= len)
      BY <2>1, <2>2, <2>4, <3>2, TtyAssumption
    <3> QED
      BY <3>1, <3>2
<1>5. ReadRest(t, len) = WithLines(t, t.lineEdit, l)
  BY DEF ReadRest, TtyOK, Ttys, line, WithLines
<1> HIDE DEF l
<1> QED
  BY <1>1, <1>4, <1>5, LinesKeep

\* Pushing keeps the ring's indices in the ring.
LEMMA PushKeeps ==
  ASSUME NEW q \in Rings
  PROVE  TryPush(q, "byte") \in Rings
<1> DEFINE next == (q.tail + 1) % RingSize
<1>1. q.tail \in 0 .. (RingSize - 1) /\ RingSize \in Nat /\ RingSize > 0
  BY RingAssumption DEF Rings
<1>2. next \in 0 .. (RingSize - 1)
  BY <1>1
<1> HIDE DEF next
<1>3. [q EXCEPT !.buf[q.tail] = "byte", !.tail = next] \in Rings
  BY <1>2 DEF Rings
<1> QED
  BY <1>3 DEF TryPush, next

-----------------------------------------------------------------------------

\* Boot leaves everything empty.
LEMMA InitInv == Init => Inv
<1> SUFFICES ASSUME Init PROVE Inv
  OBVIOUS
<1>1. TtyOK(tty)
  BY TtyAssumption DEF Init, NewTty, TtyOK, Ttys
<1>2. ring \in Rings
  <2>1. 0 \in 0 .. (RingSize - 1)
    BY RingAssumption
  <2> QED
    BY <2>1 DEF Init, EmptyRing, Rings
<1>3. PortInv /\ CallInv
  <2>1. 0 \in 0 .. MaxLen
    BY LenAssumption
  <2>2. PortInv
    BY DEF Init, PortInv
  <2> QED
    BY <2>1, <2>2 DEF Init, CallInv, Places
<1>4. WireInv
  BY DEF Init, WireInv, Agree, NewTty
<1> QED
  BY <1>1, <1>2, <1>3, <1>4 DEF Inv

\* An event that starts is on its way.
LEMMA KeyEventKeeps ==
  ASSUME Inv, NEW e \in KeyEvents, KeyEvent(e)
  PROVE  Inv'
<1>1. wire = <<>> /\ wire' = e /\ UNCHANGED <<full, irq1, ring, tty, nonblock, callVars>>
  BY DEF KeyEvent
<1>2. Agree /\ ~tty.e0Prefix
  BY <1>1 DEF Inv, WireInv
<1>3. PortInv'
  <2>1. down' \subseteq Shifts
    BY DEF Inv, PortInv, KeyEvent, Shifts
  <2>2. ~full
    BY <1>1 DEF Inv, PortInv
  <2> QED
    BY <1>1, <2>1, <2>2 DEF Inv, PortInv
<1>4. CallInv'
  BY <1>1 DEF Inv, CallInv, callVars
<1>5. WireInv'
  <2>1. ASSUME NEW c \in Codes, e = <<c>> PROVE WireInv'
    <3>1. c # "e0"
      BY DEF Codes, Makes, Breaks, Shifts
    <3>2. /\ "lshift" \in down' <=> c = "lshift" \/ ("lshift" \in down /\ c # "lshift up")
          /\ "rshift" \in down' <=> c = "rshift" \/ ("rshift" \in down /\ c # "rshift up")
      BY <2>1 DEF KeyEvent
    <3> QED
      BY <1>1, <1>2, <2>1, <3>2 DEF WireInv, Agree, AgreeAfter
  <2>2. ASSUME NEW c \in Codes, e = <<"e0", c>> PROVE WireInv'
    <3>1. down' = down
      BY <2>2 DEF KeyEvent
    <3> QED
      BY <1>1, <1>2, <2>2, <3>1 DEF WireInv, Agree
  <2> QED
    BY <2>1, <2>2 DEF KeyEvents, Codes
<1> QED
  BY <1>1, <1>3, <1>4, <1>5 DEF Inv

\* The interrupt takes the next code of the event to the terminal.
LEMMA KeyboardIrqKeeps ==
  ASSUME Inv, KeyboardIrq
  PROVE  Inv'
<1>1. /\ intr /\ irq1 /\ ~irq1' /\ ~full' /\ wire' = Tail(wire)
      /\ ring' = TryPush(ring, "byte") /\ tty' = FeedScancode(tty, Head(wire))
      /\ pc' = AfterIrq /\ irq1' = FALSE /\ full' = FALSE
      /\ UNCHANGED <<down, nonblock, intr, want, got, waited>>
  BY DEF KeyboardIrq
<1>2. wire # <<>>
  BY <1>1 DEF Inv, PortInv
<1>3. PortInv' /\ ring' \in Rings
  BY <1>1, PushKeeps DEF Inv, PortInv
<1>4. CallInv'
  BY <1>1 DEF Inv, CallInv, AfterIrq, Places
<1>5. ASSUME NEW code \in Scancodes, Head(wire) = code
      PROVE  /\ TtyOK(tty')
             /\ tty'.e0Prefix <=> ~tty.e0Prefix /\ code = "e0"
             /\ tty.e0Prefix => tty'.shiftLeft = tty.shiftLeft
                                /\ tty'.shiftRight = tty.shiftRight
             /\ ~tty.e0Prefix =>
                  /\ tty'.shiftLeft <=> code = "lshift"
                                        \/ (tty.shiftLeft /\ code # "lshift up")
                  /\ tty'.shiftRight <=> code = "rshift"
                                        \/ (tty.shiftRight /\ code # "rshift up")
  BY <1>1, <1>5, FeedKeeps DEF Inv
<1>6. Codes \cup {"e0"} = Scancodes /\ "e0" \notin Codes
  BY DEF Codes, Scancodes, Makes, Breaks, Shifts
<1>7. ASSUME NEW c \in Codes, wire = <<c>>, AgreeAfter(c), ~tty.e0Prefix
      PROVE  TtyOK(tty') /\ WireInv'
  <2>1. Head(wire) = c /\ wire' = <<>>
    BY <1>1, <1>7
  <2> QED
    BY <1>1, <1>5, <1>6, <1>7, <2>1 DEF WireInv, Agree, AgreeAfter
<1>8. ASSUME NEW c \in Codes, wire = <<"e0", c>>, Agree, ~tty.e0Prefix
      PROVE  TtyOK(tty') /\ WireInv'
  <2>1. Head(wire) = "e0" /\ wire' = <<c>>
    BY <1>1, <1>8
  <2> QED
    BY <1>1, <1>5, <1>6, <1>8, <2>1 DEF WireInv, Agree
<1>9. ASSUME NEW c \in Codes, wire = <<c>>, Agree, tty.e0Prefix
      PROVE  TtyOK(tty') /\ WireInv'
  <2>1. Head(wire) = c /\ wire' = <<>>
    BY <1>1, <1>9
  <2> QED
    BY <1>1, <1>5, <1>6, <1>9, <2>1 DEF WireInv, Agree
<1>10. TtyOK(tty') /\ WireInv'
  BY <1>2, <1>7, <1>8, <1>9 DEF Inv, WireInv
<1> QED
  BY <1>3, <1>4, <1>10 DEF Inv

\* Everything else leaves the event alone.
LEMMA OtherKeeps ==
  ASSUME Inv,
         \/ CodeArrives \/ TimerIrq \/ IrqSpins \/ SysOpenNonblock
         \/ \E len \in 0 .. MaxLen : SysRead(len)
         \/ ReadStep \/ UNCHANGED vars
  PROVE  Inv'
<1>1. ASSUME UNCHANGED <<wire, down, tty>> PROVE WireInv'
  BY <1>1 DEF Inv, WireInv, Agree, AgreeAfter
<1>2. ASSUME UNCHANGED <<keyVars, ring, tty>>, CallInv' PROVE Inv'
  BY <1>1, <1>2 DEF Inv, keyVars, PortInv
<1>3. CASE CodeArrives
  BY <1>1, <1>3 DEF CodeArrives, Inv, PortInv, CallInv, callVars
<1>4. CASE TimerIrq
  BY <1>2, <1>4 DEF TimerIrq, AfterIrq, Inv, CallInv, Places
<1>5. CASE IrqSpins
  BY <1>2, <1>5 DEF IrqSpins, TtyHeld, SchedHeld, Inv, CallInv, Places
<1>6. CASE SysOpenNonblock
  BY <1>2, <1>6 DEF SysOpenNonblock, Inv, CallInv, callVars
<1>7. ASSUME NEW len \in 0 .. MaxLen, SysRead(len) PROVE Inv'
  BY <1>2, <1>7 DEF SysRead, Inv, CallInv, Places
<1>8. CASE LockTty \/ EnableAndHlt \/ LockSched \/ ReturnToUser
  <2>1. CallInv'
    <3>1. CASE LockTty \/ LockSched
      BY <3>1 DEF LockTty, LockSched, Inv, CallInv, Places
    <3>3. CASE EnableAndHlt
      BY <3>3 DEF EnableAndHlt, Inv, CallInv, Places
    <3>2. CASE ReturnToUser
      <4>1. 0 \in 0 .. MaxLen
        BY LenAssumption
      <4> QED
        BY <3>2, <4>1 DEF ReturnToUser, Inv, CallInv, Places
    <3> QED
      BY <1>8, <3>1, <3>2, <3>3
  <2> QED
    BY <1>2, <1>8, <2>1 DEF LockTty, EnableAndHlt, LockSched, ReturnToUser
<1>9. CASE TtyRead
  <2>1. CallInv'
    BY <1>9 DEF TtyRead, Inv, CallInv, Places
  <2>2. CASE tty.readyLines = <<>>
    BY <1>2, <1>9, <2>1, <2>2 DEF TtyRead
  <2>3. CASE tty.readyLines # <<>>
    <3>1. tty' = ReadRest(tty, want) /\ UNCHANGED <<keyVars, ring>>
      BY <1>9, <2>3 DEF TtyRead
    <3>2. /\ TtyOK(tty')
          /\ tty'.shiftLeft = tty.shiftLeft /\ tty'.shiftRight = tty.shiftRight
          /\ tty'.e0Prefix = tty.e0Prefix
      <4>1. want \in Nat /\ TtyOK(tty)
        BY LenAssumption DEF Inv, CallInv
      <4> QED
        BY <2>3, <3>1, <4>1, ReadKeeps DEF Keeps
    <3>3. WireInv'
      BY <3>1, <3>2 DEF Inv, WireInv, Agree, AgreeAfter, keyVars
    <3> QED
      BY <2>1, <3>1, <3>2, <3>3 DEF Inv, PortInv, keyVars
  <2> QED
    BY <2>2, <2>3
<1>10. CASE UNCHANGED vars
  BY <1>2, <1>10 DEF vars, Inv, CallInv, callVars
<1> QED
  BY <1>3, <1>4, <1>5, <1>6, <1>7, <1>8, <1>9, <1>10 DEF ReadStep

-----------------------------------------------------------------------------

\* The invariant of standard input holds at any time.
THEOREM ConsoleInv == Spec => []Inv
<1>1. Inv /\ [Next]_vars => Inv'
  BY KeyEventKeeps, KeyboardIrqKeeps, OtherKeeps DEF Next
<1> QED
  BY <1>1, InitInv, PTL DEF Spec

\* Edit buffer and ready queue keep their limits, whatever they are.
THEOREM ConsoleTypeCorrect == Spec => []TypeOK
<1>1. Inv => TypeOK
  <2> SUFFICES ASSUME Inv PROVE TypeOK
    OBVIOUS
  <2>1. wire \in KeyEvents \cup {<<c>> : c \in Scancodes} \cup {<<>>}
    BY DEF Inv, WireInv, KeyEvents, Codes, Scancodes
  <2>2. ring.head \in 0 .. (RingSize - 1) /\ ring.tail \in 0 .. (RingSize - 1)
    BY DEF Inv, Rings
  <2>3. /\ tty.lineEdit \in Seq(Chars) /\ Len(tty.lineEdit) <= LineBuf
        /\ Len(tty.readyLines) <= MaxReadyLines
    BY DEF Inv, TtyOK, Ttys
  <2> QED
    BY <2>1, <2>2, <2>3 DEF Inv, PortInv, CallInv, TypeOK
<1> QED BY <1>1, ConsoleInv, PTL

\* The terminal's shift flags follow the keys through any sequence of events.
THEOREM ShiftCorrect == Spec => []ShiftFollowsKeys
<1>1. Inv => ShiftFollowsKeys
  BY DEF Inv, WireInv, Agree, ShiftFollowsKeys
<1> QED BY <1>1, ConsoleInv, PTL

\* Only a read that has halted can be met by a handler with a lock held.
THEOREM SpinsCorrect == Spec => []SpinsOnlyAfterWait
<1>1. Inv => SpinsOnlyAfterWait
  BY DEF Inv, CallInv, SpinsOnlyAfterWait
<1> QED BY <1>1, ConsoleInv, PTL

-----------------------------------------------------------------------------
(* Console implements LineStream.                                          *)
-----------------------------------------------------------------------------

StreamBytes == Chars \cup {NL}

\* The positions of line ends in a piece of the stream.
Ends(s) == {i \in 1 .. Len(s) : s[i] = NL}

\* A line has one line end, its last byte.
Line(l) ==
  /\ l \in Seq(StreamBytes) /\ l # <<>>
  /\ l[Len(l)] = NL
  /\ \A i \in 1 .. (Len(l) - 1) : l[i] # NL

\* A queue of lines holds as many lines as its bytes have line ends.
Lines(ls) ==
  /\ ls \in Seq(Seq(StreamBytes))
  /\ \A i \in 1 .. Len(ls) : Line(ls[i])
  /\ Cardinality(Ends(FlattenSeq(ls))) = Len(ls)

\* What the reader is owed is complete lines, and only the tail of a read still
\* has bytes to hand over.
StreamInv == Lines(tty.readyLines) /\ (pc # "tail" => got = <<>>)

\* The line ends of a piece are finitely many.
LEMMA EndsFinite ==
  ASSUME NEW s \in Seq(StreamBytes)
  PROVE  IsFiniteSet(Ends(s)) /\ Cardinality(Ends(s)) \in Nat
<1>1. Len(s) \in Nat /\ Ends(s) \in SUBSET (1 .. Len(s))
  BY DEF Ends
<1> DEFINE n == Len(s)  E == Ends(s)
<1>2. n \in Int /\ 1 \in Int /\ E \in SUBSET (1 .. n)
  BY <1>1
<1> HIDE DEF n, E
<1>3. IsFiniteSet(1 .. n)
  BY <1>2, FS_Interval
<1>4. IsFiniteSet(E)
  BY <1>2, <1>3, FS_Subset
<1>5. Cardinality(E) \in Nat
  BY <1>4, FS_CardinalityType
<1> QED
  BY <1>4, <1>5 DEF E

\* Line ends of two pieces add up.
LEMMA EndsConcat ==
  ASSUME NEW a \in Seq(StreamBytes), NEW b \in Seq(StreamBytes)
  PROVE  Cardinality(Ends(a \o b)) = Cardinality(Ends(a)) + Cardinality(Ends(b))
<1> DEFINE m  == Len(a)
           n  == Len(b)
           c  == a \o b
           B  == Ends(b)
           U  == {m + i : i \in B}
           f  == [i \in B |-> m + i]
<1>1. m \in Nat /\ n \in Nat /\ B \subseteq 1 .. n
  BY DEF Ends
<1>2. /\ c \in Seq(StreamBytes) /\ Len(c) = m + n
      /\ \A i \in 1 .. m : c[i] = a[i]
      /\ \A i \in 1 .. n : c[m + i] = b[i]
  OBVIOUS
<1> HIDE DEF c
<1>3. Ends(c) = Ends(a) \cup U
  <2>1. ASSUME NEW i \in Ends(c) PROVE i \in Ends(a) \cup U
    <3>1. i \in 1 .. (m + n) /\ c[i] = NL
      BY <1>2 DEF Ends
    <3>2. CASE i <= m
      <4>1. i \in 1 .. m
        BY <1>1, <3>1, <3>2
      <4> QED BY <1>2, <3>1, <4>1 DEF Ends
    <3>3. CASE ~(i <= m)
      <4> DEFINE k == i - m
      <4>1. k \in 1 .. n /\ i = m + k
        BY <1>1, <3>1, <3>3
      <4> HIDE DEF k
      <4>2. k \in B
        BY <1>2, <3>1, <4>1 DEF Ends
      <4> QED BY <4>1, <4>2
    <3> QED BY <3>2, <3>3
  <2>2. ASSUME NEW i \in Ends(a) PROVE i \in Ends(c)
    <3>1. i \in 1 .. m /\ a[i] = NL
      BY DEF Ends
    <3>2. i \in 1 .. (m + n)
      BY <1>1, <3>1
    <3> QED BY <1>2, <3>1, <3>2 DEF Ends
  <2>3. ASSUME NEW i \in B PROVE m + i \in Ends(c)
    <3>1. i \in 1 .. n /\ b[i] = NL
      BY DEF Ends
    <3>2. m + i \in 1 .. (m + n)
      BY <1>1, <3>1
    <3> QED BY <1>2, <3>1, <3>2 DEF Ends
  <2> QED BY <2>1, <2>2, <2>3
<1>4. f \in Bijection(B, U)
  <2>1. f \in [B -> U] /\ \A u \in U : \E i \in B : f[i] = u
    OBVIOUS
  <2>2. \A i, j \in B : f[i] = f[j] => i = j
    <3> TAKE i, j \in B
    <3>1. i \in Int /\ j \in Int
      BY <1>1
    <3> QED BY <1>1, <3>1
  <2> HIDE DEF f, U, B
  <2> QED BY <2>1, <2>2 DEF Bijection, Injection, Surjection, IsInjective
<1>5. IsFiniteSet(B) /\ IsFiniteSet(Ends(a))
  BY EndsFinite
<1>6. ExistsBijection(B, U)
  BY <1>4 DEF ExistsBijection
<1>7. Ends(a) \cap U = {}
  <2> SUFFICES ASSUME NEW i \in Ends(a), NEW k \in B, i = m + k PROVE FALSE
    OBVIOUS
  <2>1. i \in 1 .. m /\ k \in 1 .. n
    BY <1>1 DEF Ends
  <2> QED BY <1>1, <2>1
<1> HIDE DEF U, B
<1>8. IsFiniteSet(U) /\ Cardinality(U) = Cardinality(B)
  BY <1>5, <1>6, FS_Bijection
<1>9. Cardinality(Ends(a) \cup U) = Cardinality(Ends(a)) + Cardinality(U)
  <2>1. Cardinality(Ends(a) \cap U) = 0
    BY <1>7, FS_EmptySet
  <2>2. Cardinality(Ends(a)) \in Nat /\ Cardinality(U) \in Nat
    BY <1>5, <1>8, FS_CardinalityType
  <2>3. Cardinality(Ends(a) \cup U)
          = Cardinality(Ends(a)) + Cardinality(U) - Cardinality(Ends(a) \cap U)
    BY <1>5, <1>8, FS_Union
  <2> QED BY <2>1, <2>2, <2>3
<1> QED
  BY <1>3, <1>8, <1>9 DEF c, B

\* A line has one line end, and so has what is left of it.
LEMMA LineEnd ==
  ASSUME NEW l, Line(l)
  PROVE  /\ l \in Seq(StreamBytes) /\ Len(l) \in Nat /\ Len(l) >= 1
         /\ Ends(l) = {Len(l)} /\ Cardinality(Ends(l)) = 1
         /\ \A n \in Nat : n < Len(l) => Line(SubSeq(l, n + 1, Len(l)))
<1>1. l \in Seq(StreamBytes) /\ Len(l) \in Nat /\ Len(l) >= 1
  BY DEF Line
<1>2. Ends(l) = {Len(l)}
  <2>1. ASSUME NEW i \in Ends(l) PROVE i = Len(l)
    <3>1. i \in 1 .. Len(l) /\ l[i] = NL
      BY DEF Ends
    <3>2. i \notin 1 .. (Len(l) - 1)
      BY <3>1 DEF Line
    <3> QED BY <1>1, <3>1, <3>2
  <2>2. Len(l) \in Ends(l)
    BY <1>1 DEF Ends, Line
  <2> QED BY <2>1, <2>2
<1>3. Cardinality(Ends(l)) = 1
  BY <1>2, FS_Singleton
<1>4. ASSUME NEW n \in Nat, n < Len(l) PROVE Line(SubSeq(l, n + 1, Len(l)))
  <2> DEFINE r == SubSeq(l, n + 1, Len(l))
             k == Len(l) - n
  <2>1. /\ k \in Nat /\ k >= 1 /\ r \in Seq(StreamBytes) /\ Len(r) = k
        /\ \A i \in 1 .. k : r[i] = l[n + i]
    BY <1>1, <1>4
  <2>2. n + k = Len(l) /\ \A i \in 1 .. (k - 1) : n + i \in 1 .. (Len(l) - 1) /\ i \in 1 .. k
    BY <1>1, <1>4
  <2> HIDE DEF r, k
  <2>3. k \in 1 .. k /\ r[k] = NL
    BY <2>1, <2>2 DEF Line
  <2>4. \A i \in 1 .. (k - 1) : r[i] # NL
    BY <2>1, <2>2 DEF Line
  <2>5. Line(r)
    BY <2>1, <2>3, <2>4 DEF Line
  <2> QED BY <2>5 DEF r
<1> QED
  BY <1>1, <1>2, <1>3, <1>4

\* A queue with one line more at its end ...
LEMMA LinesAppend ==
  ASSUME NEW ls, Lines(ls), NEW l, Line(l)
  PROVE  /\ Lines(Append(ls, l))
         /\ FlattenSeq(Append(ls, l)) = FlattenSeq(ls) \o l
<1> DEFINE V == Seq(StreamBytes)
           s == FlattenSeq(ls)
<1>1. ls \in Seq(V) /\ l \in V /\ Len(ls) \in Nat
  BY LineEnd DEF Lines
<1>2. FlattenSeq(Append(ls, l)) = s \o l /\ s \in V
  BY <1>1, FlattenAppend, FlattenType
<1>3. Cardinality(Ends(s \o l)) = Len(ls) + 1
  <2>1. Cardinality(Ends(s)) = Len(ls)
    BY DEF Lines
  <2> HIDE DEF s
  <2>2. Cardinality(Ends(s \o l)) = Cardinality(Ends(s)) + Cardinality(Ends(l))
    BY <1>1, <1>2, EndsConcat
  <2> QED BY <2>1, <2>2, LineEnd
<1> HIDE DEF V
<1>4. /\ Append(ls, l) \in Seq(V) /\ Len(Append(ls, l)) = Len(ls) + 1
      /\ Append(ls, l)[Len(ls) + 1] = l
      /\ \A i \in 1 .. Len(ls) : Append(ls, l)[i] = ls[i]
  BY <1>1
<1>5. \A i \in 1 .. (Len(ls) + 1) : Line(Append(ls, l)[i])
  <2> TAKE i \in 1 .. (Len(ls) + 1)
  <2>1. i = Len(ls) + 1 \/ i \in 1 .. Len(ls)
    BY <1>1
  <2> QED BY <1>4, <2>1 DEF Lines
<1> QED
  BY <1>2, <1>3, <1>4, <1>5 DEF Lines, V

\* ... or in front.
LEMMA LinesCons ==
  ASSUME NEW ls, Lines(ls), NEW l, Line(l)
  PROVE  /\ Lines(<<l>> \o ls)
         /\ FlattenSeq(<<l>> \o ls) = l \o FlattenSeq(ls)
<1> DEFINE V   == Seq(StreamBytes)
           s   == FlattenSeq(ls)
           one == <<l>>
           tt  == one \o ls
<1>1. ls \in Seq(V) /\ l \in V /\ Len(ls) \in Nat
  BY LineEnd DEF Lines
<1>2. FlattenSeq(<<l>> \o ls) = l \o s /\ s \in V
  BY <1>1, FlattenCons, FlattenType
<1>3. Cardinality(Ends(l \o s)) = Len(ls) + 1
  <2>1. Cardinality(Ends(s)) = Len(ls)
    BY DEF Lines
  <2> HIDE DEF s
  <2>2. Cardinality(Ends(l \o s)) = Cardinality(Ends(l)) + Cardinality(Ends(s))
    BY <1>1, <1>2, EndsConcat
  <2> QED BY <1>1, <2>1, <2>2, LineEnd
<1> HIDE DEF V
<1>4. one \in Seq(V) /\ Len(one) = 1 /\ one[1] = l
  BY <1>1
<1>0. tt = one \o ls
  OBVIOUS
<1> HIDE DEF one, tt
<1>5. /\ tt \in Seq(V) /\ Len(tt) = Len(ls) + 1 /\ tt[1] = l
      /\ \A i \in 2 .. (Len(ls) + 1) : tt[i] = ls[i - 1]
  <2>1. /\ tt \in Seq(V) /\ Len(tt) = Len(one) + Len(ls)
        /\ \A i \in 1 .. Len(one) + Len(ls) :
             tt[i] = IF i <= Len(one) THEN one[i] ELSE ls[i - Len(one)]
    BY <1>0, <1>1, <1>4, ConcatProperties
  <2>2. tt \in Seq(V) /\ Len(tt) = Len(ls) + 1
    BY <1>1, <1>4, <2>1
  <2>3. tt[1] = one[1]
    BY <1>1, <1>4, <2>1
  <2>4. \A i \in 2 .. (Len(ls) + 1) : tt[i] = ls[i - 1]
    BY <1>1, <1>4, <2>1
  <2> QED BY <1>4, <2>2, <2>3, <2>4
<1>6. \A i \in 1 .. (Len(ls) + 1) : Line(tt[i])
  <2> TAKE i \in 1 .. (Len(ls) + 1)
  <2>1. i = 1 \/ (i \in 2 .. (Len(ls) + 1) /\ i - 1 \in 1 .. Len(ls))
    BY <1>1
  <2> QED BY <1>5, <2>1 DEF Lines
<1> QED
  BY <1>2, <1>3, <1>5, <1>6 DEF Lines, V, tt, one

\* A queue without its first line.
LEMMA LinesTail ==
  ASSUME NEW ls, Lines(ls), ls # <<>>
  PROVE  /\ Line(Head(ls)) /\ Lines(Tail(ls))
         /\ FlattenSeq(ls) = Head(ls) \o FlattenSeq(Tail(ls))
<1> DEFINE V == Seq(StreamBytes)
           l == Head(ls)
           r == Tail(ls)
<1>1. ls \in Seq(V)
  BY DEF Lines
<1> HIDE DEF V
<1>2. /\ Len(ls) \in Nat /\ Len(ls) >= 1 /\ l = ls[1] /\ l \in V
      /\ r \in Seq(V) /\ Len(r) = Len(ls) - 1
      /\ \A i \in 1 .. (Len(ls) - 1) : r[i] = ls[i + 1]
  BY <1>1
<1>3. ls = <<l>> \o r
  BY <1>1, <1>2
<1>4. Line(l)
  BY <1>2 DEF Lines
<1> HIDE DEF l, r
<1>5. \A i \in 1 .. Len(r) : Line(r[i])
  <2> TAKE i \in 1 .. Len(r)
  <2>1. i + 1 \in 1 .. Len(ls) /\ i \in 1 .. (Len(ls) - 1)
    BY <1>2
  <2> QED BY <1>2, <2>1 DEF Lines
<1> DEFINE s == FlattenSeq(r)
<1>6. FlattenSeq(ls) = l \o s /\ s \in V
  BY <1>2, <1>3, FlattenCons, FlattenType DEF V
<1>7. Cardinality(Ends(s)) = Len(r)
  <2>1. Cardinality(Ends(l \o s)) = Len(ls)
    BY <1>6 DEF Lines
  <2> HIDE DEF s
  <2>2. Cardinality(Ends(l \o s)) = Cardinality(Ends(l)) + Cardinality(Ends(s))
    BY <1>2, <1>6, EndsConcat DEF V
  <2>3. Cardinality(Ends(s)) \in Nat
    BY <1>6, EndsFinite DEF V
  <2> QED BY <1>2, <1>4, <2>1, <2>2, <2>3, LineEnd
<1>8. Lines(r)
  BY <1>2, <1>5, <1>7 DEF Lines, V
<1> QED
  BY <1>4, <1>6, <1>8 DEF l, r

\* What a code may do to the line being edited and to the queue: nothing, or a
\* step of the line stream.
Fed(t, u) ==
  \/ u.lineEdit = t.lineEdit /\ u.readyLines = t.readyLines
  \/ \E c \in Chars : /\ Len(t.lineEdit) < LineBuf
                      /\ u.lineEdit = Append(t.lineEdit, c)
                      /\ u.readyLines = t.readyLines
  \/ /\ t.lineEdit # <<>>
     /\ u.lineEdit = SubSeq(t.lineEdit, 1, Len(t.lineEdit) - 1)
     /\ u.readyLines = t.readyLines
  \/ /\ u.lineEdit = <<>>
     /\ FlattenSeq(u.readyLines)
          = IF Cardinality(Ends(FlattenSeq(t.readyLines))) < MaxReadyLines
            THEN FlattenSeq(t.readyLines) \o Append(t.lineEdit, NL)
            ELSE FlattenSeq(t.readyLines)

\* Enter adds a line.
LEMMA CompleteLineFeeds ==
  ASSUME NEW t, TtyOK(t), Lines(t.readyLines)
  PROVE  Fed(t, CompleteLine(t)) /\ Lines(CompleteLine(t).readyLines)
<1> DEFINE l  == Append(t.lineEdit, NL)
           q  == t.readyLines
           q2 == IF Len(q) < MaxReadyLines THEN Append(q, l) ELSE q
           u  == CompleteLine(t)
<1>1. t.lineEdit \in Seq(Chars) /\ Len(t.lineEdit) \in Nat
  BY DEF TtyOK, Ttys
<1>2. Line(l)
  <2>1. /\ l \in Seq(StreamBytes) /\ Len(l) = Len(t.lineEdit) + 1 /\ l[Len(l)] = NL
        /\ l # <<>>
    BY <1>1 DEF StreamBytes
  <2>2. ASSUME NEW i \in 1 .. (Len(l) - 1) PROVE l[i] # NL
    <3>1. i \in 1 .. Len(t.lineEdit)
      BY <1>1, <2>1
    <3>2. l[i] = t.lineEdit[i] /\ t.lineEdit[i] \in Chars
      BY <1>1, <3>1
    <3> QED BY <3>2 DEF Chars, Plain, Shifted, NL
  <2> QED BY <2>1, <2>2 DEF Line
<1>3. u.lineEdit = <<>> /\ u.readyLines = q2
  BY DEF CompleteLine, TtyOK, Ttys
<1>4. Cardinality(Ends(FlattenSeq(q))) = Len(q)
  BY DEF Lines
<1> HIDE DEF l, q, u
<1>5. Lines(q)
  BY DEF q
<1>6. Lines(q2) /\ FlattenSeq(q2) = IF Len(q) < MaxReadyLines
                                    THEN FlattenSeq(q) \o l ELSE FlattenSeq(q)
  BY <1>2, <1>5, LinesAppend
<1> HIDE DEF q2
<1>7. FlattenSeq(u.readyLines) = IF Cardinality(Ends(FlattenSeq(t.readyLines))) < MaxReadyLines
                                 THEN FlattenSeq(t.readyLines) \o Append(t.lineEdit, NL)
                                 ELSE FlattenSeq(t.readyLines)
  BY <1>3, <1>4, <1>6 DEF q, l
<1> QED
  BY <1>3, <1>6, <1>7 DEF Fed, u

\* A character does at most one of these things ...
LEMMA FeedCharFeeds ==
  ASSUME NEW t, TtyOK(t), Lines(t.readyLines), NEW c \in Chars \cup {NL, BS, NoChar}
  PROVE  Fed(t, FeedChar(t, c)) /\ Lines(FeedChar(t, c).readyLines)
<1>0. Chars = {"c", "C"} /\ NL = "NL" /\ BS = "BS" /\ NoChar = "none"
  BY DEF Chars, Plain, Shifted, NL, BS, NoChar
<1>1. CASE c = NoChar
  BY <1>0, <1>1 DEF FeedChar, Fed
<1>2. CASE c = NL
  <2>1. FeedChar(t, c) = CompleteLine(t)
    BY <1>0, <1>2 DEF FeedChar
  <2> QED BY <2>1, CompleteLineFeeds
<1>3. CASE c = BS
  <2>1. FeedChar(t, c) = EraseChar(t)
    BY <1>0, <1>3 DEF FeedChar
  <2>2. /\ EraseChar(t).readyLines = t.readyLines
        /\ EraseChar(t).lineEdit = IF t.lineEdit = <<>> THEN t.lineEdit
                                   ELSE SubSeq(t.lineEdit, 1, Len(t.lineEdit) - 1)
    BY DEF EraseChar, TtyOK, Ttys
  <2> QED BY <2>1, <2>2 DEF Fed
<1>4. CASE c \in Chars
  <2>1. FeedChar(t, c) = AppendChar(t, c)
    BY <1>0, <1>4 DEF FeedChar
  <2>2. /\ AppendChar(t, c).readyLines = t.readyLines
        /\ AppendChar(t, c).lineEdit = IF Len(t.lineEdit) < LineBuf
                                       THEN Append(t.lineEdit, c) ELSE t.lineEdit
    BY DEF AppendChar, TtyOK, Ttys
  <2> QED BY <1>4, <2>1, <2>2 DEF Fed
<1> QED BY <1>1, <1>2, <1>3, <1>4

\* ... and so does a scancode.
LEMMA FeedFeeds ==
  ASSUME NEW t, TtyOK(t), Lines(t.readyLines), NEW code \in Scancodes
  PROVE  Fed(t, FeedScancode(t, code)) /\ Lines(FeedScancode(t, code).readyLines)
<1> DEFINE u == FeedScancode(t, code)
<1>0. t \in Ttys
  BY DEF TtyOK
<1>1. ASSUME u.lineEdit = t.lineEdit, u.readyLines = t.readyLines
      PROVE  Fed(t, u) /\ Lines(u.readyLines)
  BY <1>1 DEF Fed
<1>2. CASE t.e0Prefix
  BY <1>0, <1>1, <1>2 DEF FeedScancode, Ttys
<1>3. CASE ~t.e0Prefix /\ code \in {"char", "enter", "bksp", "fkey"}
  <2> DEFINE c == IF t.shiftLeft \/ t.shiftRight
                  THEN ShiftedChar(code) ELSE ScancodeToChar(code)
  <2>1. u = FeedChar(t, c)
    BY <1>3 DEF FeedScancode, FeedKey
  <2>2. c \in Chars \cup {NL, BS, NoChar}
    BY <1>3 DEF ShiftedChar, ScancodeToChar, Chars, Plain, Shifted
  <2> HIDE DEF c
  <2> QED BY <2>1, <2>2, FeedCharFeeds
<1>4. CASE ~t.e0Prefix /\ code \notin {"char", "enter", "bksp", "fkey"}
  <2>1. u \in {[t EXCEPT !.e0Prefix = TRUE], [t EXCEPT !.shiftLeft = TRUE],
               [t EXCEPT !.shiftRight = TRUE], [t EXCEPT !.shiftLeft = FALSE],
               [t EXCEPT !.shiftRight = FALSE], t}
    BY <1>4 DEF FeedScancode, FeedKey, Scancodes, Makes, Breaks, Shifts
  <2>2. u.lineEdit = t.lineEdit /\ u.readyLines = t.readyLines
    <3> HIDE DEF u
    <3> QED BY <1>0, <2>1 DEF Ttys
  <2> QED BY <1>1, <2>2
<1> QED BY <1>2, <1>3, <1>4

\* Stream s hands out its first bytes b, none beyond a line end, and becomes r.
Takes(s, b, r) ==
  \E n \in 1 .. Len(s) :
    /\ \A i \in Ends(s) : i >= n
    /\ b = SubSeq(s, 1, n)
    /\ r = SubSeq(s, n + 1, Len(s))

\* The front of a concatenation whose first part is longer.
LEMMA TakeFront ==
  ASSUME NEW a \in Seq(StreamBytes), NEW b \in Seq(StreamBytes),
         NEW n \in 1 .. Len(a), \A i \in Ends(a) : i >= n
  PROVE  Takes(a \o b, SubSeq(a, 1, n), SubSeq(a, n + 1, Len(a)) \o b)
<1> DEFINE s == a \o b
           k == Len(a) - n
           x == SubSeq(a, n + 1, Len(a))
<1>1. Len(a) \in Nat /\ Len(b) \in Nat /\ n \in Nat /\ n >= 1 /\ n <= Len(a) /\ k \in Nat
  OBVIOUS
<1>2. /\ s \in Seq(StreamBytes) /\ Len(s) = Len(a) + Len(b)
      /\ \A i \in 1 .. Len(a) : s[i] = a[i]
      /\ \A i \in 1 .. Len(b) : s[Len(a) + i] = b[i]
  OBVIOUS
<1>3. x \in Seq(StreamBytes) /\ Len(x) = k /\ \A i \in 1 .. k : x[i] = a[n + i]
  BY <1>1
<1> HIDE DEF s, x
<1>4. SubSeq(s, 1, n) = SubSeq(a, 1, n)
  <2>1. SubSeq(s, 1, n) = [i \in 1 .. n |-> s[i]] /\ SubSeq(a, 1, n) = [i \in 1 .. n |-> a[i]]
    BY <1>1, <1>2
  <2>2. \A i \in 1 .. n : s[i] = a[i]
    BY <1>1, <1>2
  <2> QED BY <2>1, <2>2
<1>5. SubSeq(s, n + 1, Len(s)) = x \o b
  <2> DEFINE y == SubSeq(s, n + 1, Len(s))
             z == x \o b
             m == k + Len(b)
  <2>1. /\ y \in Seq(StreamBytes) /\ Len(y) = m /\ \A i \in 1 .. m : y[i] = s[n + i]
    BY <1>1, <1>2
  <2>2. /\ z \in Seq(StreamBytes) /\ Len(z) = m /\ \A i \in 1 .. k : z[i] = x[i]
        /\ \A i \in 1 .. Len(b) : z[k + i] = b[i]
    <3>1. /\ z \in Seq(StreamBytes) /\ Len(z) = Len(x) + Len(b)
          /\ \A i \in 1 .. Len(x) + Len(b) : z[i] = IF i <= Len(x) THEN x[i] ELSE b[i - Len(x)]
      BY <1>3, ConcatProperties
    <3> HIDE DEF k, z
    <3>2. \A i \in 1 .. k : z[i] = x[i]
      BY <1>1, <1>3, <3>1
    <3>3. ASSUME NEW i \in 1 .. Len(b) PROVE z[k + i] = b[i]
      <4>1. k + i \in 1 .. k + Len(b) /\ ~(k + i <= k) /\ (k + i) - k = i
        BY <1>1
      <4> QED BY <1>3, <3>1, <4>1
    <3> QED BY <1>3, <3>1, <3>2, <3>3
  <2> HIDE DEF y, z, m
  <2>3. ASSUME NEW i \in 1 .. m PROVE y[i] = z[i]
    <3>1. CASE i <= k
      <4>1. i \in 1 .. k /\ n + i \in 1 .. Len(a)
        BY <1>1, <3>1 DEF m
      <4> QED BY <1>2, <1>3, <2>1, <2>2, <4>1
    <3>2. CASE ~(i <= k)
      <4> DEFINE j == i - k
      <4>1. j \in 1 .. Len(b) /\ i = k + j /\ n + i = Len(a) + j
        BY <1>1, <3>2 DEF m
      <4> HIDE DEF j
      <4> QED BY <1>2, <2>1, <2>2, <4>1
    <3> QED BY <3>1, <3>2
  <2>4. m \in Nat
    BY <1>1 DEF m
  <2>5. y = z
    <3>1. y = [i \in 1 .. m |-> y[i]] /\ z = [i \in 1 .. m |-> z[i]]
      BY <2>1, <2>2, <2>4
    <3> QED BY <2>3, <3>1
  <2> QED BY <2>5 DEF y, z
<1>6. \A i \in Ends(s) : i >= n
  <2> SUFFICES ASSUME NEW i \in Ends(s), ~(i >= n) PROVE FALSE
    OBVIOUS
  <2>1. i \in 1 .. Len(s) /\ s[i] = NL
    BY DEF Ends
  <2>2. i \in 1 .. Len(a)
    BY <1>1, <1>2, <2>1
  <2>3. i \in Ends(a)
    BY <1>2, <2>1, <2>2 DEF Ends
  <2> QED BY <2>3
<1>7. n \in 1 .. Len(s)
  BY <1>1, <1>2
<1> QED
  BY <1>4, <1>5, <1>6, <1>7 DEF Takes, s, x

\* A read hands out bytes of the stream, or has no room for any.
LEMMA ReadTakes ==
  ASSUME NEW t, TtyOK(t), Lines(t.readyLines), t.readyLines # <<>>, NEW len \in Nat,
         NEW u, u = ReadRest(t, len), NEW b, b = ReadBytes(t, len)
  PROVE  /\ u.lineEdit = t.lineEdit /\ Lines(u.readyLines)
         /\ \/ b = <<>> /\ FlattenSeq(u.readyLines) = FlattenSeq(t.readyLines)
            \/ Takes(FlattenSeq(t.readyLines), b, FlattenSeq(u.readyLines))
<1> DEFINE q    == t.readyLines
           line == Head(q)
           r    == Tail(q)
           s    == FlattenSeq(r)
<1>1. Line(line) /\ Lines(r) /\ FlattenSeq(q) = line \o s
  BY LinesTail
<1>2. /\ u.lineEdit = t.lineEdit
      /\ u.readyLines = IF Len(line) <= len THEN r
                        ELSE <<SubSeq(line, len + 1, Len(line))>> \o r
  BY DEF ReadRest, TtyOK, Ttys
<1>3. b = SubSeq(line, 1, IF Len(line) < len THEN Len(line) ELSE len)
  BY DEF ReadBytes
<1>4. s \in Seq(StreamBytes)
  BY <1>1, FlattenType DEF Lines
<1> HIDE DEF line, r
<1>5. /\ line \in Seq(StreamBytes) /\ Len(line) \in Nat /\ Len(line) >= 1
      /\ \A i \in Ends(line) : i = Len(line)
  BY <1>1, LineEnd
<1>6. CASE Len(line) <= len
  <2> DEFINE n == Len(line)
  <2>1. b = SubSeq(line, 1, n) /\ u.readyLines = r
    BY <1>2, <1>3, <1>5, <1>6
  <2>2. n \in 1 .. Len(line) /\ \A i \in Ends(line) : i >= n
    BY <1>5
  <2>3. SubSeq(line, n + 1, Len(line)) = <<>>
    BY <1>5
  <2>4. <<>> \o s = s
    BY <1>4
  <2> HIDE DEF n, s
  <2>5. Takes(line \o s, b, s)
    BY <1>4, <1>5, <2>1, <2>2, <2>3, <2>4, TakeFront
  <2> QED BY <1>1, <1>2, <2>1, <2>5 DEF s
<1>7. CASE ~(Len(line) <= len)
  <2> DEFINE x == SubSeq(line, len + 1, Len(line))
  <2>1. b = SubSeq(line, 1, len) /\ u.readyLines = <<x>> \o r
    BY <1>2, <1>3, <1>5, <1>7
  <2>2. Line(x)
    <3>1. len < Len(line)
      BY <1>5, <1>7
    <3> QED BY <1>1, <3>1, LineEnd
  <2>3. Lines(<<x>> \o r) /\ FlattenSeq(<<x>> \o r) = x \o s
    <3> HIDE DEF x
    <3> QED BY <1>1, <2>2, LinesCons
  <2>4. CASE len = 0
    <3>1. x = line /\ b = <<>>
      BY <1>5, <2>1, <2>4
    <3> QED BY <1>1, <1>2, <2>1, <2>3, <3>1
  <2>5. CASE len # 0
    <3>1. len \in 1 .. Len(line) /\ \A i \in Ends(line) : i >= len
      BY <1>5, <1>7, <2>5
    <3>2. Takes(line \o s, b, x \o s)
      <4> HIDE DEF s
      <4> QED BY <1>4, <1>5, <2>1, <3>1, TakeFront
    <3> QED BY <1>1, <1>2, <2>1, <2>3, <3>2
  <2> QED BY <2>4, <2>5
<1> QED
  BY <1>6, <1>7

-----------------------------------------------------------------------------

\* The code that the keyboard interrupt reads is a scancode.
LEMMA CodeOnWire ==
  ASSUME Inv, irq1
  PROVE  Head(wire) \in Scancodes
<1>1. wire # <<>>
  BY DEF Inv, PortInv
<1>2. PICK c \in Codes : wire = <<c>> \/ wire = <<"e0", c>>
  BY <1>1 DEF Inv, WireInv
<1>3. Head(wire) = c \/ Head(wire) = "e0"
  BY <1>2
<1> QED BY <1>3 DEF Codes, Scancodes

\* A keyboard interrupt is a step of the editor or none.
LEMMA KeyboardIrqStreams ==
  ASSUME Inv, StreamInv, KeyboardIrq
  PROVE  StreamInv' /\ [LS!Next]_(LS!vars)
<1>1. /\ irq1 /\ tty' = FeedScancode(tty, Head(wire)) /\ pc' = AfterIrq /\ got' = got
  BY DEF KeyboardIrq
<1>2. Head(wire) \in Scancodes
  BY <1>1, CodeOnWire
<1>3. Fed(tty, tty') /\ Lines(tty'.readyLines)
  <2>1. TtyOK(tty) /\ Lines(tty.readyLines)
    BY DEF Inv, StreamInv
  <2> QED BY <1>1, <1>2, <2>1, FeedFeeds
<1>4. StreamInv'
  BY <1>1, <1>3 DEF StreamInv, AfterIrq
<1> DEFINE s  == FlattenSeq(tty.readyLines)
           s2 == FlattenSeq(tty'.readyLines)
<1>5. CASE tty'.lineEdit = tty.lineEdit /\ tty'.readyLines = tty.readyLines
  <2>1. UNCHANGED LS!vars
    BY <1>1, <1>5 DEF LS!vars
  <2> QED BY <1>4, <2>1
<1>6. ASSUME NEW c \in Chars, Len(tty.lineEdit) < LineBuf,
             tty'.lineEdit = Append(tty.lineEdit, c), tty'.readyLines = tty.readyLines
      PROVE  LS!Next
  <2>1. LS!Key(c)
    BY <1>1, <1>6 DEF LS!Key
  <2> QED BY <2>1 DEF LS!Next
<1>7. ASSUME tty.lineEdit # <<>>,
             tty'.lineEdit = SubSeq(tty.lineEdit, 1, Len(tty.lineEdit) - 1),
             tty'.readyLines = tty.readyLines
      PROVE  LS!Next
  <2>1. LS!Erase
    BY <1>1, <1>7 DEF LS!Erase
  <2> QED BY <2>1 DEF LS!Next
<1>8. ASSUME tty'.lineEdit = <<>>,
             s2 = IF Cardinality(Ends(s)) < MaxReadyLines
                  THEN s \o Append(tty.lineEdit, NL) ELSE s
      PROVE  LS!Next
  <2>1. LS!LineEnds = Ends(s)
    BY DEF LS!LineEnds, Ends
  <2>2. LS!Cardinality(Ends(s)) = Cardinality(Ends(s))
    BY Zenon DEF LS!Cardinality, Cardinality
  <2>3. LS!Enter
    BY <1>1, <1>8, <2>1, <2>2 DEF LS!Enter
  <2> QED BY <2>3 DEF LS!Next
<1> QED
  BY <1>3, <1>4, <1>5, <1>6, <1>7, <1>8 DEF Fed

\* A read takes a piece off the stream, or nothing.
LEMMA TtyReadStreams ==
  ASSUME Inv, StreamInv, TtyRead
  PROVE  StreamInv' /\ [LS!Next]_(LS!vars)
<1>1. pc = "locked" /\ got = <<>> /\ pc' \in {"empty", "tail"}
  BY DEF TtyRead, StreamInv
<1>2. CASE tty.readyLines = <<>>
  <2>1. got' = <<>> /\ tty' = tty
    BY <1>2 DEF TtyRead
  <2> QED BY <1>1, <2>1 DEF StreamInv, LS!vars
<1>3. CASE tty.readyLines # <<>>
  <2> DEFINE s  == FlattenSeq(tty.readyLines)
             s2 == FlattenSeq(tty'.readyLines)
  <2>1. got' = ReadBytes(tty, want) /\ tty' = ReadRest(tty, want)
    BY <1>3 DEF TtyRead
  <2>2. TtyOK(tty) /\ Lines(tty.readyLines) /\ want \in Nat
    BY LenAssumption DEF Inv, StreamInv, CallInv
  <2>3. /\ tty'.lineEdit = tty.lineEdit /\ Lines(tty'.readyLines)
        /\ (got' = <<>> /\ s2 = s) \/ Takes(s, got', s2)
    BY <1>3, <2>1, <2>2, ReadTakes
  <2>4. pc' # "tail" => got' = <<>>
    BY DEF TtyRead
  <2>5. StreamInv'
    BY <2>3, <2>4 DEF StreamInv
  <2>6. CASE got' = <<>> /\ s2 = s
    BY <1>1, <2>3, <2>5, <2>6 DEF LS!vars
  <2>7. CASE Takes(s, got', s2)
    <3>1. PICK n \in 1 .. Len(s) : /\ \A i \in Ends(s) : i >= n
                                   /\ got' = SubSeq(s, 1, n)
                                   /\ s2 = SubSeq(s, n + 1, Len(s))
      BY <2>7 DEF Takes
    <3>2. LS!LineEnds = Ends(s)
      BY DEF LS!LineEnds, Ends
    <3>3. LS!Take(n)
      BY <1>1, <2>3, <3>1, <3>2 DEF LS!Take
    <3> QED BY <2>5, <3>1, <3>3 DEF LS!Next
  <2> QED BY <2>3, <2>6, <2>7
<1> QED
  BY <1>2, <1>3

\* Every step is a step of the line stream or none.
LEMMA StepStreams ==
  ASSUME Inv, StreamInv, [Next]_vars
  PROVE  StreamInv' /\ [LS!Next]_(LS!vars)
<1>1. CASE LockSched
  <2>1. got' = <<>> /\ tty' = tty
    BY <1>1 DEF LockSched
  <2>2. LS!Done
    BY <2>1 DEF LS!Done
  <2> QED BY <2>1, <2>2 DEF StreamInv, LS!Next
<1>2. ASSUME UNCHANGED <<tty, got>>, pc' = "tail" => pc = "tail",
             pc = "tail" => pc' = "tail"
      PROVE  StreamInv' /\ [LS!Next]_(LS!vars)
  BY <1>2 DEF StreamInv, LS!vars
<1>3. CASE (\E e \in KeyEvents : KeyEvent(e)) \/ CodeArrives \/ SysOpenNonblock
  BY <1>2, <1>3 DEF KeyEvent, CodeArrives, SysOpenNonblock, callVars
<1>4. CASE TimerIrq \/ IrqSpins
  BY <1>2, <1>4 DEF TimerIrq, AfterIrq, IrqSpins, TtyHeld, SchedHeld
<1>5. CASE \E len \in 0 .. MaxLen : SysRead(len)
  BY <1>2, <1>5 DEF SysRead
<1>6. CASE LockTty \/ EnableAndHlt \/ ReturnToUser
  BY <1>2, <1>6 DEF LockTty, EnableAndHlt, ReturnToUser
<1>7. CASE UNCHANGED vars
  BY <1>2, <1>7 DEF vars, callVars
<1> QED
  BY <1>1, <1>3, <1>4, <1>5, <1>6, <1>7, KeyboardIrqStreams, TtyReadStreams
     DEF Next, ReadStep

\* The terminal starts with no line.
LEMMA InitStreams ==
  ASSUME Init
  PROVE  StreamInv /\ LS!Init
<1>1. tty.lineEdit = <<>> /\ tty.readyLines = <<>> /\ got = <<>>
  BY DEF Init, NewTty
<1> DEFINE none == <<>>
           V    == Seq(StreamBytes)
<1>2. none \in Seq(V) /\ Len(none) = 0
  OBVIOUS
<1>3. FlattenSeq(none) = <<>>
  BY <1>2, FlattenType
<1>4. Ends(<<>>) = {} /\ Cardinality({}) = 0
  BY FS_EmptySet DEF Ends
<1>5. Lines(none)
  <2>1. Cardinality(Ends(FlattenSeq(none))) = Len(none)
    BY <1>2, <1>3, <1>4
  <2> HIDE DEF none
  <2> QED BY <1>2, <2>1 DEF Lines, V
<1> QED BY <1>1, <1>3, <1>5 DEF StreamInv, LS!Init

\* The queue of the terminal always consists of complete, non-empty lines.
THEOREM LinesComplete == Spec => []StreamInv
<1>1. Init => StreamInv
  BY InitStreams
<1>2. Inv /\ StreamInv /\ [Next]_vars => StreamInv'
  BY StepStreams
<1> QED
  BY <1>1, <1>2, ConsoleInv, PTL DEF Spec

\* With buffers, queues and reads of any length, standard input implements a
\* stream of lines: interrupts, partial reads and the put-back of what did not fit
\* never lose, repeat or reorder a byte.
THEOREM LineStreamCorrect == Spec => ImplementsLineStream
<1>1. Init => StreamInv /\ LS!Init
  BY InitStreams
<1>2. Inv /\ StreamInv /\ [Next]_vars => StreamInv' /\ [LS!Next]_(LS!vars)
  BY StepStreams
<1> QED
  BY <1>1, <1>2, ConsoleInv, PTL DEF Spec, ImplementsLineStream, LS!Spec

-----------------------------------------------------------------------------
(***************************************************************************)
(* The safety half of ReadyLineIsRead: once a line is ready, a read with   *)
(* room for a byte only moves towards it.                                  *)
(***************************************************************************)

\* A blocking read goes round these places until it has a byte.
Waiting == {"empty", "hlt", "try", "locked"}

Progress(p) ==
  CASE p = "empty"  -> 0
    [] p = "hlt"    -> 1
    [] p = "try"    -> 2
    [] p = "locked" -> 3

\* The read is no further from the line, and the line is still there.
Closer ==
  /\ pc' \in Waiting /\ Progress(pc) <= Progress(pc')
  /\ want' = want
  /\ tty'.readyLines # <<>> /\ Head(tty'.readyLines) = Head(tty.readyLines)

\* While a line is ready, a blocking read of tty.rs with room for a byte never
\* goes back to hlt after it has looked, no interrupt sends it back or takes the
\* line away, and it leaves the loop with a byte or because a handler hangs: it
\* misses no line, whenever the line comes in.
ReadMovesOn ==
  [][want > 0 /\ pc \in Waiting /\ tty.readyLines # <<>> =>
       Closer \/ (pc' = "tail" /\ got' # <<>>) \/ pc' = "hung"]_vars

\* A scancode leaves the ready lines alone or adds one behind them.
LEMMA FeedQueues ==
  ASSUME NEW t, TtyOK(t), NEW code \in Scancodes
  PROVE  FeedScancode(t, code).readyLines
           \in {t.readyLines, Append(t.readyLines, Append(t.lineEdit, NL))}
<1> DEFINE u == FeedScancode(t, code)
           q == Append(t.readyLines, Append(t.lineEdit, NL))
<1>0. t \in Ttys
  BY DEF TtyOK
<1>1. CASE t.e0Prefix
  BY <1>0, <1>1 DEF FeedScancode, Ttys
<1>2. CASE ~t.e0Prefix /\ code \in {"char", "enter", "bksp", "fkey"}
  <2>1. u \in {t, CompleteLine(t), EraseChar(t), AppendChar(t, Plain),
               AppendChar(t, Shifted)}
    BY <1>2 DEF FeedScancode, FeedKey, FeedChar, ShiftedChar, ScancodeToChar, Chars,
                Plain, Shifted, NL, BS, NoChar
  <2> HIDE DEF u
  <2>2. CASE u = CompleteLine(t)
    <3>1. u.readyLines = IF Len(t.readyLines) < MaxReadyLines THEN q ELSE t.readyLines
      BY <1>0, <2>2 DEF CompleteLine, Ttys
    <3> HIDE DEF q
    <3> QED BY <3>1 DEF u, q
  <2>3. CASE u # CompleteLine(t)
    <3>1. u.readyLines = t.readyLines
      BY <1>0, <2>1, <2>3 DEF EraseChar, AppendChar, Ttys
    <3> QED BY <3>1 DEF u
  <2> QED BY <2>2, <2>3
<1>3. CASE ~t.e0Prefix /\ code \notin {"char", "enter", "bksp", "fkey"}
  <2>1. u \in {[t EXCEPT !.e0Prefix = TRUE], [t EXCEPT !.shiftLeft = TRUE],
               [t EXCEPT !.shiftRight = TRUE], [t EXCEPT !.shiftLeft = FALSE],
               [t EXCEPT !.shiftRight = FALSE], t}
    BY <1>3 DEF FeedScancode, FeedKey, Scancodes, Makes, Breaks, Shifts
  <2>2. u.readyLines = t.readyLines
    <3> HIDE DEF u
    <3> QED BY <1>0, <2>1 DEF Ttys
  <2> QED BY <2>2
<1> QED BY <1>1, <1>2, <1>3

\* A read that finds a line returns a byte of it.
LEMMA ReadGets ==
  ASSUME Inv, StreamInv, TtyRead, want > 0, tty.readyLines # <<>>
  PROVE  pc' = "tail" /\ got' # <<>>
<1> DEFINE line == Head(tty.readyLines)
<1>1. want \in Nat /\ want >= 1
  BY LenAssumption DEF Inv, CallInv
<1>2. Line(line)
  BY LinesTail DEF StreamInv
<1>3. line \in Seq(StreamBytes) /\ Len(line) \in Nat /\ Len(line) >= 1
  BY <1>2 DEF Line
<1>4. got' = SubSeq(line, 1, IF Len(line) < want THEN Len(line) ELSE want)
  BY DEF TtyRead, ReadBytes
<1> HIDE DEF line
<1>5. PICK n \in Nat : n >= 1 /\ n <= Len(line) /\ got' = SubSeq(line, 1, n)
  BY <1>1, <1>3, <1>4
<1>6. Len(SubSeq(line, 1, n)) = n
  BY <1>3, <1>5
<1>7. got' # <<>>
  BY <1>5, <1>6
<1> QED BY <1>7 DEF TtyRead

\* Every step keeps a read on its way to a line that is ready.
LEMMA ReadSteps ==
  ASSUME Inv, StreamInv, Next, pc \in Waiting, want > 0, tty.readyLines # <<>>
  PROVE  Closer \/ (pc' = "tail" /\ got' # <<>>) \/ pc' = "hung"
<1>0. \A p \in Waiting : Progress(p) \in 0 .. 3
  BY DEF Waiting, Progress
<1>1. ASSUME UNCHANGED <<tty, want, pc>> PROVE Closer
  BY <1>0, <1>1 DEF Closer
<1>2. CASE (\E e \in KeyEvents : KeyEvent(e)) \/ CodeArrives
  BY <1>1, <1>2 DEF KeyEvent, CodeArrives, callVars
<1>3. pc' = AfterIrq => pc' \in Waiting /\ Progress(pc) <= Progress(pc')
  BY DEF AfterIrq, Waiting, Progress
<1>4. CASE TimerIrq
  BY <1>3, <1>4 DEF TimerIrq, Closer
<1>5. CASE IrqSpins
  BY <1>5 DEF IrqSpins
<1>6. CASE \/ SysOpenNonblock \/ (\E len \in 0 .. MaxLen : SysRead(len))
           \/ LockSched \/ ReturnToUser
  BY <1>6 DEF SysOpenNonblock, SysRead, LockSched, ReturnToUser, Waiting
<1>7. CASE LockTty \/ EnableAndHlt
  <2>1. pc' \in Waiting /\ Progress(pc) <= Progress(pc')
    BY <1>7 DEF LockTty, EnableAndHlt, Waiting, Progress
  <2>2. UNCHANGED <<tty, want>>
    BY <1>7 DEF LockTty, EnableAndHlt
  <2> QED BY <2>1, <2>2 DEF Closer
<1>8. CASE TtyRead
  BY <1>8, ReadGets
<1>9. CASE KeyboardIrq
  <2> DEFINE q == tty.readyLines
             l == Append(tty.lineEdit, NL)
  <2>1. /\ irq1 /\ tty' = FeedScancode(tty, Head(wire)) /\ pc' = AfterIrq
        /\ want' = want
    BY <1>9 DEF KeyboardIrq
  <2>2. TtyOK(tty) /\ q \in Seq(Seq(StreamBytes)) /\ q # <<>>
    BY DEF Inv, StreamInv, Lines
  <2>3. tty'.readyLines \in {q, Append(q, l)}
    BY <2>1, <2>2, CodeOnWire, FeedQueues
  <2>4. l \in Seq(StreamBytes)
    BY <2>2 DEF TtyOK, Ttys, StreamBytes
  <2>5. Append(q, l) # <<>> /\ Head(Append(q, l)) = Head(q)
    <3> DEFINE V == Seq(StreamBytes)
    <3>1. q \in Seq(V) /\ l \in V
      BY <2>2, <2>4
    <3> HIDE DEF V, q, l
    <3>2. q # <<>>
      BY <2>2
    <3> QED BY <3>1, <3>2
  <2>6. tty'.readyLines # <<>> /\ Head(tty'.readyLines) = Head(q)
    <3> HIDE DEF l
    <3> QED BY <2>2, <2>3, <2>5
  <2> QED BY <1>3, <2>1, <2>6 DEF Closer
<1> QED
  BY <1>2, <1>4, <1>5, <1>6, <1>7, <1>8, <1>9 DEF Next, ReadStep

\* No wake-up is lost: with a line ready, a blocking read of standard input only
\* moves towards the line, for buffers, queues and reads of any length.
THEOREM ReadMovesOnCorrect == Spec => ReadMovesOn
<1>1. Inv /\ StreamInv /\ [Next]_vars =>
        [want > 0 /\ pc \in Waiting /\ tty.readyLines # <<>> =>
           Closer \/ (pc' = "tail" /\ got' # <<>>) \/ pc' = "hung"]_vars
  BY ReadSteps
<1> QED
  BY <1>1, ConsoleInv, LinesComplete, PTL DEF Spec, ReadMovesOn

=============================================================================
