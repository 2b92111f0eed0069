-------------------------- MODULE AlgorithmProofs ---------------------------
(***************************************************************************)
(* Proofs about the algorithms of ExecStack, Nanosleep and Vga, each for   *)
(* its own specification and for every size.                               *)
(***************************************************************************)
EXTENDS ExecStack, Nanosleep, Vga, InductionProofs, SequenceTheorems

-----------------------------------------------------------------------------
(* sys_nanosleep                                                           *)
-----------------------------------------------------------------------------

\* The recursive definition of Pow2 defines what it says.
LEMMA Pow2Recursion ==
  /\ Pow2 \in [Nat -> Nat \ {0}]
  /\ Pow2[0] = 1
  /\ \A n \in Nat : Pow2[n + 1] = 2 * Pow2[n]
<1> DEFINE V       == Nat \ {0}
           one     == 1
           D       == [p \in Nat \X V |-> 2 * p[2]]
           Body(f) == [n \in Nat |-> IF n = 0 THEN 1 ELSE 2 * f[n - 1]]
<1>1. one \in V /\ D \in [Nat \X V -> V]
  OBVIOUS
<1>2. \A n \in Nat, x \in V : D[<<n, x>>] = 2 * x
  OBVIOUS
<1> HIDE DEF D, V, one
<1>3. PICK h : Generates(h, V, one, D)
  BY <1>1, RecursionExists
<1>4. h \in [Nat -> V] /\ h[0] = 1 /\ \A n \in Nat : h[n + 1] = 2 * h[n]
  BY <1>2, <1>3 DEF Generates, one
<1>5. h = Body(h)
  <2>1. ASSUME NEW n \in Nat PROVE h[n] = IF n = 0 THEN 1 ELSE 2 * h[n - 1]
    <3>1. CASE n = 0
      BY <1>4, <3>1
    <3>2. CASE n # 0
      <4>1. n - 1 \in Nat /\ (n - 1) + 1 = n
        BY <3>2
      <4> QED BY <1>4, <3>2, <4>1
    <3> QED BY <3>1, <3>2
  <2> QED BY <1>4, <2>1
<1>6. Pow2 = CHOOSE f : f = Body(f)
  BY DEF Pow2
<1> HIDE DEF Body
<1>7. Pow2 = Body(Pow2)
  BY <1>5, <1>6
<1>8. /\ DOMAIN Pow2 = Nat
      /\ Pow2 = [n \in Nat |-> Pow2[n]]
      /\ Pow2[0] = 1
      /\ \A n \in Nat : Pow2[n + 1] = 2 * Pow2[n]
  BY <1>7 DEF Body
<1> DEFINE S == {n \in Nat : Pow2[n] \in V}
<1>9. 0 \in S
  BY <1>8 DEF V
<1>10. ASSUME NEW n \in Nat, n \in S PROVE n + 1 \in S
  <2>1. Pow2[n] \in Nat /\ Pow2[n] # 0
    BY <1>10 DEF V
  <2>2. Pow2[n + 1] = 2 * Pow2[n] /\ n + 1 \in Nat
    BY <1>8
  <2>3. Pow2[n + 1] \in V
    BY <2>1, <2>2 DEF V
  <2> QED BY <2>2, <2>3
<1> HIDE DEF S
<1>11. Nat \subseteq S
  BY <1>9, <1>10, NatSetInduction
<1> QED
  BY <1>8, <1>11 DEF S, V

\* The integers of Width bits are the residues of Pow2[Width], and there is
\* a positive one.
LEMMA IntsOfWidth ==
  /\ MaxInt \in Nat /\ MaxInt >= 1 /\ MinInt \in Int
  /\ MinInt = -MaxInt - 1
  /\ Pow2[Width] \in Nat /\ Pow2[Width] = 2 * MaxInt + 2
<1>1. Width - 1 \in Nat /\ (Width - 1) + 1 = Width
  BY NanosleepAssumption
<1>2. Pow2[Width - 1] \in Nat \ {0} /\ Pow2[Width] = 2 * Pow2[Width - 1]
  BY <1>1, Pow2Recursion
<1>3. PerSecond * TimerHz \in Nat /\ PerSecond * TimerHz >= 1
  BY NanosleepAssumption
<1> QED
  BY <1>2, <1>3, NanosleepAssumption DEF MaxInt, MinInt

\* Wrapping around changes no integer that fits, and yields one that fits.
LEMMA WrapFits ==
  ASSUME NEW x \in Int
  PROVE  /\ Wrap(x) \in Int
         /\ x \in Ints => Wrap(x) = x
<1> DEFINE y == x - MinInt
           m == Pow2[Width]
<1>1. y \in Int /\ m \in Nat /\ m > 0
  BY IntsOfWidth
<1>2. x \in Ints => y >= 0 /\ y < m
  BY IntsOfWidth DEF Ints
<1>3. y + MinInt = x
  BY IntsOfWidth
<1>4. Wrap(x) = (y % m) + MinInt
  BY DEF Wrap
<1> HIDE DEF y, m
<1>5. y % m \in Int
  BY <1>1
<1>6. y >= 0 /\ y < m => y % m = y
  BY <1>1
<1> QED
  BY <1>2, <1>3, <1>4, <1>5, <1>6, IntsOfWidth

\* A natural number is a multiple of the divisor and a remainder.
LEMMA DivideParts ==
  ASSUME NEW b \in Nat, NEW p \in Nat \ {0}
  PROVE  /\ b \div p \in Nat /\ b % p \in 0 .. (p - 1)
         /\ b = (b \div p) * p + (b % p)
OBVIOUS

\* Dividing a sum of a multiple and a rest divides the rest.
LEMMA DivideSum ==
  ASSUME NEW a \in Nat, NEW b \in Nat, NEW p \in Nat \ {0}
  PROVE  /\ (a * p + b) \div p = a + (b \div p)
         /\ (a * p + b) % p = b % p
<1> DEFINE q == b \div p  r == b % p
<1>1. q \in Nat /\ r \in 0 .. (p - 1) /\ b = q * p + r
  BY DivideParts
<1>2. q = b \div p /\ r = b % p
  OBVIOUS
<1> HIDE DEF q, r
<1>3. a * p + b = (a + q) * p + r
  BY <1>1
<1>4. ((a + q) * p + r) \div p = a + q /\ ((a + q) * p + r) % p = r
  BY <1>1
<1> QED
  BY <1>2, <1>3, <1>4

\* Adding to a saturated product and saturating again loses nothing.
LEMMA SaturateSum ==
  ASSUME NEW a \in Nat, NEW b \in Nat
  PROVE  Saturate(Saturate(a) + b) = Saturate(a + b)
BY IntsOfWidth DEF Saturate

\* What saturates is an integer.
LEMMA SaturateType ==
  ASSUME NEW x \in Int
  PROVE  Saturate(x) \in Int /\ Saturate(x) <= MaxInt
BY IntsOfWidth DEF Saturate

\* The ticks of a proper request are the whole ticks of its time.
LEMMA ProperTicks ==
  ASSUME NEW sec \in Nat, NEW nsec \in 0 .. (PerSecond - 1)
  PROVE  LET exact == ((sec * PerSecond + nsec) * TimerHz) \div PerSecond
         IN  /\ nsec * TimerHz \in Ints
             /\ Ticks(sec, nsec) = IF exact < 1 THEN 1 ELSE Saturate(exact)
<1> DEFINE a     == sec * TimerHz
           b     == nsec * TimerHz
           c     == b \div PerSecond
           exact == ((sec * PerSecond + nsec) * TimerHz) \div PerSecond
<1>1. a \in Nat /\ b \in Nat /\ nsec \in Nat
  BY NanosleepAssumption
<1>2. b <= PerSecond * TimerHz
  BY NanosleepAssumption
<1>3. b \in Ints
  BY <1>1, <1>2, IntsOfWidth, NanosleepAssumption DEF Ints
<1>4. (sec * PerSecond + nsec) * TimerHz = a * PerSecond + b
  BY NanosleepAssumption
<1>5. SecondTicks(sec) = Saturate(a)
  BY DEF SecondTicks
<1>6. NanoTicks(nsec) = Quotient(Wrap(b), PerSecond)
  BY DEF NanoTicks
<1>7. c = b \div PerSecond /\ exact = (a * PerSecond + b) \div PerSecond
  BY <1>4
<1> HIDE DEF a, b, c, exact
<1>8. exact = a + c /\ c \in Nat
  <2>1. PerSecond \in Nat \ {0}
    BY NanosleepAssumption
  <2>2. (a * PerSecond + b) \div PerSecond = a + (b \div PerSecond)
    BY <1>1, <2>1, DivideSum
  <2>3. b \div PerSecond \in Nat
    BY <1>1, <2>1, DivideParts
  <2> QED BY <1>7, <2>2, <2>3
<1>9. NanoTicks(nsec) = c
  BY <1>1, <1>3, <1>6, <1>7, WrapFits DEF Quotient
<1>10. Ticks(sec, nsec) = LET sum == Saturate(exact) IN IF sum < 1 THEN 1 ELSE sum
  <2>1. Saturate(Saturate(a) + c) = Saturate(exact)
    BY <1>1, <1>8, SaturateSum
  <2> QED BY <1>5, <1>9, <2>1 DEF Ticks
<1>11. exact \in Nat
  BY <1>1, <1>8
<1>12. Saturate(exact) < 1 <=> exact < 1
  BY <1>11, IntsOfWidth DEF Saturate
<1>13. Ticks(sec, nsec) = IF exact < 1 THEN 1 ELSE Saturate(exact)
  BY <1>10, <1>12
<1> QED
  BY <1>3, <1>13 DEF b, exact

\* Any request at all has a positive number of ticks that fits.
LEMMA AnyTicks ==
  ASSUME NEW sec \in Int, NEW nsec \in Int
  PROVE  Ticks(sec, nsec) \in 1 .. MaxInt
<1>1. SecondTicks(sec) \in Int
  BY SaturateType, NanosleepAssumption DEF SecondTicks
<1> DEFINE x == Wrap(nsec * TimerHz)
<1>2. nsec * TimerHz \in Int
  BY NanosleepAssumption
<1>3. x \in Int
  BY <1>2, WrapFits
<1>4. NanoTicks(nsec) = Quotient(x, PerSecond)
  BY DEF NanoTicks
<1> HIDE DEF x
<1>5. Quotient(x, PerSecond) \in Int
  BY <1>3, NanosleepAssumption DEF Quotient
<1>6. SecondTicks(sec) + NanoTicks(nsec) \in Int
  BY <1>1, <1>4, <1>5
<1> QED
  BY <1>6, SaturateType, IntsOfWidth DEF Ticks

\* A call that has left "asked" computed its ticks from an unchanged request,
\* or panicked because the product of the nanoseconds does not fit.
SleepInv ==
  /\ request \in [sec : Int, nsec : Int]
  /\ asleep \in {"asked", "asleep", "panic"}
  /\ asleep = "asleep" => ticks = Ticks(request.sec, request.nsec)
  /\ asleep = "panic" => request.nsec * TimerHz \notin Ints

\* SleepInv implies the property of the conversion.
LEMMA SleepInvImplies == SleepInv => SleepIsWholeTicks
<1> SUFFICES ASSUME SleepInv PROVE SleepIsWholeTicks
  OBVIOUS
<1> DEFINE sec == request.sec  nsec == request.nsec
<1>1. sec \in Int /\ nsec \in Int
  BY DEF SleepInv
<1>2. asleep = "asleep" => ticks = Ticks(sec, nsec) /\ ticks \in 1 .. MaxInt
  BY <1>1, AnyTicks DEF SleepInv
<1>3. ASSUME asleep # "asked", sec >= 0, nsec \in 0 .. (PerSecond - 1)
      PROVE  LET exact == ((sec * PerSecond + nsec) * TimerHz) \div PerSecond
             IN  asleep = "asleep" /\ ticks = IF exact < 1 THEN 1 ELSE Saturate(exact)
  <2>1. sec \in Nat
    BY <1>1, <1>3
  <2>2. nsec * TimerHz \in Ints
    BY <1>3, <2>1, ProperTicks
  <2>3. asleep = "asleep"
    BY <1>3, <2>2 DEF SleepInv
  <2> QED
    BY <1>2, <1>3, <2>1, <2>3, ProperTicks
<1> QED
  BY <1>2, <1>3 DEF SleepIsWholeTicks

\* For every width, tick rate and resolution, sys_nanosleep sleeps the whole
\* ticks of the time asked for.
THEOREM SleepCorrect == NanosleepSpec => []SleepIsWholeTicks
<1>1. NanosleepInit => SleepInv
  BY IntsOfWidth DEF NanosleepInit, SleepInv, Ints
<1>2. SleepInv /\ [SysNanosleep]_sleepVars => SleepInv'
  BY DEF SleepInv, SysNanosleep, sleepVars
<1> QED
  BY <1>1, <1>2, SleepInvImplies, PTL DEF NanosleepSpec

-----------------------------------------------------------------------------
(* The text screen                                                         *)
-----------------------------------------------------------------------------

\* The last n bytes of the text, and no more, follow its last newline.
Since(n) ==
  /\ n \in 0 .. Len(text)
  /\ \A i \in (Len(text) - n + 1) .. Len(text) : text[i] # Newline
  /\ n = Len(text) \/ text[Len(text) - n] = Newline

\* The column after n bytes of a line.
ColumnAfter(n) == IF n = 0 THEN 0 ELSE ((n - 1) % Cols) + 1

\* The cursor and its row after n bytes since the newline.
ScreenAfter(n) ==
  /\ Since(n)
  /\ col = ColumnAfter(n)
  /\ \A i \in 1 .. col : buffer[row * Cols + i - 1] = text[Len(text) - col + i]

VgaInv ==
  /\ text \in Seq(Glyphs \cup {Newline})
  /\ DOMAIN buffer = Cells
  /\ row \in 0 .. (Rows - 1)
  /\ \E n \in Nat : ScreenAfter(n)

\* There is only one such number, so SinceNewline is it.
LEMMA SinceIsUnique ==
  ASSUME text \in Seq(Glyphs \cup {Newline}), NEW n \in Nat, Since(n)
  PROVE  SinceNewline = n
<1>1. Len(text) \in Nat
  BY LenProperties
<1>2. ASSUME NEW m \in Nat, NEW k \in Nat, Since(m), Since(k), m < k PROVE FALSE
  <2>1. m # Len(text) /\ Len(text) - m \in (Len(text) - k + 1) .. Len(text)
    BY <1>1, <1>2 DEF Since
  <2> QED BY <1>2, <2>1 DEF Since
<1>3. \A m \in 0 .. Len(text) : Since(m) => m = n
  <2> SUFFICES ASSUME NEW m \in 0 .. Len(text), Since(m), m # n PROVE FALSE
    OBVIOUS
  <2>1. m \in Nat /\ (m < n \/ n < m)
    BY <1>1
  <2> QED BY <1>2, <2>1
<1>4. SinceNewline = CHOOSE m \in 0 .. Len(text) : Since(m)
  BY DEF SinceNewline, Since
<1>5. n \in 0 .. Len(text)
  BY DEF Since
<1> QED
  BY <1>3, <1>4, <1>5

\* The remainder of the next number.
LEMMA NextRemainder ==
  ASSUME NEW m \in Nat, NEW p \in Nat \ {0}
  PROVE  (m + 1) % p = IF m % p = p - 1 THEN 0 ELSE (m % p) + 1
<1> DEFINE q == m \div p  r == m % p
<1>1. q \in Nat /\ r \in 0 .. (p - 1) /\ m = q * p + r
  BY DivideParts
<1>2. r = m % p
  OBVIOUS
<1> HIDE DEF q, r
<1>3. CASE r = p - 1
  <2>1. m + 1 = (q + 1) * p + 0
    BY <1>1, <1>3
  <2> DEFINE a == q + 1
  <2>2. a \in Nat
    BY <1>1
  <2> HIDE DEF a
  <2>3. \A z \in Nat : (a * p + z) % p = z % p
    BY <2>2, DivideSum
  <2>4. (a * p + 0) % p = 0 % p /\ 0 % p = 0
    BY <2>3
  <2> QED BY <1>2, <1>3, <2>1, <2>4 DEF a
<1>4. CASE r # p - 1
  <2>1. m + 1 = q * p + (r + 1) /\ r + 1 \in 0 .. (p - 1) /\ r + 1 \in Nat
    BY <1>1, <1>4
  <2>2. (q * p + (r + 1)) % p = (r + 1) % p
    BY <1>1, <2>1, DivideSum
  <2>3. (r + 1) % p = r + 1
    BY <1>1, <2>1
  <2> QED BY <1>2, <1>4, <2>1, <2>2, <2>3
<1> QED
  BY <1>3, <1>4

\* The column after one more byte, and how the column compares with the bytes.
LEMMA NextColumn ==
  ASSUME NEW n \in Nat
  PROVE  /\ ColumnAfter(n) \in Nat /\ ColumnAfter(n) <= n /\ ColumnAfter(n) <= Cols
         /\ ColumnAfter(n + 1) = IF ColumnAfter(n) >= Cols THEN 1 ELSE ColumnAfter(n) + 1
<1>0. Cols \in Nat \ {0}
  BY VgaAssumption
<1>1. CASE n = 0
  <2>1. ColumnAfter(n) = 0 /\ ColumnAfter(n + 1) = (0 % Cols) + 1
    BY <1>1 DEF ColumnAfter
  <2>2. 0 % Cols = 0
    BY <1>0
  <2> QED BY <1>0, <1>1, <2>1, <2>2
<1>2. CASE n # 0
  <2> DEFINE m == n - 1
             r == m % Cols
  <2>1. m \in Nat /\ m + 1 = n
    BY <1>2
  <2>2. ColumnAfter(n) = r + 1 /\ ColumnAfter(n + 1) = ((m + 1) % Cols) + 1
    BY <1>2, <2>1 DEF ColumnAfter
  <2> HIDE DEF m
  <2>3. (m + 1) % Cols = IF r = Cols - 1 THEN 0 ELSE r + 1
    BY <1>0, <2>1, NextRemainder
  <2>4. r \in 0 .. (Cols - 1) /\ r <= m
    <3>1. r \in 0 .. (Cols - 1) /\ m = (m \div Cols) * Cols + r /\ m \div Cols \in Nat
      BY <1>0, <2>1, DivideParts
    <3> QED BY <1>0, <2>1, <3>1
  <2> HIDE DEF r
  <2> QED BY <1>0, <2>1, <2>2, <2>3, <2>4
<1> QED
  BY <1>1, <1>2

\* A row and a column of the screen make a cell of the buffer.
LEMMA CellOf ==
  ASSUME NEW r \in 0 .. (Rows - 1), NEW c \in 0 .. (Cols - 1)
  PROVE  r * Cols + c \in Cells /\ r * Cols \in Nat
<1>1. Rows \in Nat /\ Cols \in Nat /\ r \in Nat /\ c \in Nat
  BY VgaAssumption
<1>2. Rows - 1 - r \in Nat
  BY <1>1
<1>3. (Rows - 1 - r) * Cols \in Nat
  BY <1>1, <1>2
<1>4. (Rows - 1 - r) * Cols = Rows * Cols - Cols - r * Cols
  BY <1>1
<1>5. r * Cols \in Nat /\ Rows * Cols \in Nat
  BY <1>1
<1> QED
  BY <1>1, <1>3, <1>4, <1>5 DEF Cells

\* Printing a byte other than the newline keeps the invariant: the line is one
\* byte longer, and only the cell of that byte is written.
LEMMA GlyphKeepsScreen ==
  ASSUME VgaInv, NEW byte \in Glyphs, byte # Newline,
         text' = Append(text, byte), WriteGlyph(byte)
  PROVE  VgaInv'
<1> DEFINE len == Len(text)
           r   == IF col >= Cols THEN NextRow ELSE row
           c   == IF col >= Cols THEN 0 ELSE col
<1>1. PICK n \in Nat : ScreenAfter(n)
  BY DEF VgaInv
<1>2. /\ text \in Seq(Glyphs \cup {Newline}) /\ text' \in Seq(Glyphs \cup {Newline})
      /\ len \in Nat /\ Len(text') = len + 1 /\ text'[len + 1] = byte
      /\ \A i \in 1 .. len : text'[i] = text[i]
  BY DEF VgaInv
<1>3. /\ Rows \in Nat /\ Rows > 0 /\ Cols \in Nat /\ Cols > 0
      /\ row \in Int /\ 0 <= row /\ row < Rows
  BY VgaAssumption DEF VgaInv
<1>4. /\ n <= len /\ col = ColumnAfter(n) /\ col \in Nat /\ col <= n /\ col <= Cols
      /\ ColumnAfter(n + 1) = IF col >= Cols THEN 1 ELSE col + 1
  <2>1. Since(n) /\ col = ColumnAfter(n)
    BY <1>1 DEF ScreenAfter
  <2>2. n <= len
    BY <1>2, <2>1 DEF Since
  <2> QED BY <2>1, <2>2, NextColumn
<1>5. r \in 0 .. (Rows - 1) /\ c \in 0 .. (Cols - 1)
  BY <1>3, <1>4 DEF NextRow
<1>6. row' = r /\ col' = c + 1 /\ buffer' = [buffer EXCEPT ![r * Cols + c] = byte]
  BY DEF WriteGlyph
<1>7. c = 0 \/ (c = col /\ r = row)
  BY DEF r, c
<1>8. r * Cols + c \in Cells /\ r * Cols \in Nat
  BY <1>5, CellOf
<1>9. col' = ColumnAfter(n + 1)
  BY <1>3, <1>4, <1>6
<1>10. Since(n + 1)'
  <2>1. n + 1 \in 0 .. Len(text')
    BY <1>2, <1>4
  <2>2. ASSUME NEW i \in (Len(text') - (n + 1) + 1) .. Len(text') PROVE text'[i] # Newline
    <3>1. i \in Int /\ i >= len - n + 1 /\ i <= len + 1
      BY <1>2, <1>4, <2>2
    <3>2. CASE i = len + 1
      <4>1. text'[i] = byte
        BY <1>2, <3>2
      <4> QED BY <4>1
    <3>3. CASE i <= len
      <4>1. i \in (len - n + 1) .. len /\ i \in 1 .. len
        BY <1>2, <1>4, <3>1, <3>3
      <4>2. text[i] # Newline
        BY <1>1, <4>1 DEF ScreenAfter, Since
      <4> QED BY <1>2, <4>1, <4>2
    <3>4. i = len + 1 \/ i <= len
      BY <1>2, <3>1
    <3> QED BY <3>2, <3>3, <3>4
  <2>3. n + 1 = Len(text') \/ text'[Len(text') - (n + 1)] = Newline
    <3>1. CASE n = len
      BY <1>2, <3>1
    <3>2. CASE n # len
      <4>1. len - n \in 1 .. len /\ Len(text') - (n + 1) = len - n
        BY <1>2, <1>4, <3>2
      <4>2. text[len - n] = Newline
        BY <1>1, <3>2 DEF ScreenAfter, Since
      <4> QED BY <1>2, <4>1, <4>2
    <3> QED BY <3>1, <3>2
  <2> QED BY <2>1, <2>2, <2>3 DEF Since
<1> HIDE DEF r, c
<1>11. ASSUME NEW i \in 1 .. col'
       PROVE  buffer'[row' * Cols + i - 1] = text'[Len(text') - col' + i]
  <2>1. i \in Nat /\ 1 <= i /\ i <= c + 1 /\ c \in Nat
    BY <1>5, <1>6, <1>11
  <2>2. DOMAIN buffer = Cells
    BY DEF VgaInv
  <2>3. CASE i = c + 1
    <3>1. r * Cols + i - 1 = r * Cols + c /\ Len(text') - col' + i = len + 1
      BY <1>2, <1>6, <1>8, <2>1, <2>3
    <3> QED BY <1>2, <1>6, <1>8, <2>2, <3>1
  <2>4. CASE i # c + 1
    <3>1. c = col /\ r = row /\ i \in 1 .. col
      BY <1>4, <1>7, <2>1, <2>4
    <3>2. r * Cols + i - 1 # r * Cols + c /\ i - 1 \in 0 .. (Cols - 1)
      BY <1>3, <1>5, <1>8, <2>1, <2>4
    <3>3. r * Cols + (i - 1) \in Cells /\ r * Cols + (i - 1) = r * Cols + i - 1
      BY <1>5, <1>8, <2>1, <3>2, CellOf
    <3>4. buffer'[r * Cols + i - 1] = buffer[r * Cols + i - 1]
      BY <1>6, <2>2, <3>2, <3>3
    <3>5. buffer[row * Cols + i - 1] = text[len - col + i]
      BY <1>1, <3>1 DEF ScreenAfter
    <3>6. len - col + i \in 1 .. len /\ Len(text') - col' + i = len - col + i
      <4>1. Len(text') = len + 1 /\ col' = col + 1 /\ len \in Nat /\ col \in Nat
        BY <1>2, <1>4, <1>6, <3>1
      <4>2. i \in Nat /\ 1 <= i /\ i <= col /\ col <= len
        BY <1>2, <1>4, <3>1
      <4> QED BY <4>1, <4>2
    <3> QED BY <1>2, <1>6, <3>1, <3>4, <3>5, <3>6
  <2> QED BY <2>3, <2>4
<1>12. ScreenAfter(n + 1)'
  BY <1>9, <1>10, <1>11 DEF ScreenAfter, ColumnAfter
<1>13. (DOMAIN buffer = Cells)'
  BY <1>6 DEF VgaInv, Cells
<1> QED
  BY <1>2, <1>5, <1>6, <1>12, <1>13 DEF VgaInv

\* A newline starts an empty line in a row of the screen.
LEMMA NewlineKeepsScreen ==
  ASSUME VgaInv, text' = Append(text, Newline), WriteNewline
  PROVE  VgaInv'
<1> DEFINE len == Len(text)
<1>1. /\ text \in Seq(Glyphs \cup {Newline}) /\ text' \in Seq(Glyphs \cup {Newline})
      /\ len \in Nat /\ Len(text') = len + 1 /\ text'[len + 1] = Newline
  BY DEF VgaInv
<1>2. Since(0)'
  BY <1>1 DEF Since
<1>3. ScreenAfter(0)'
  BY <1>2 DEF ScreenAfter, ColumnAfter, WriteNewline
<1>4. row' \in 0 .. (Rows - 1)
  BY VgaAssumption DEF VgaInv, WriteNewline, NextRow
<1>5. (DOMAIN buffer = Cells)'
  BY DEF VgaInv, WriteNewline, Cells
<1> QED
  BY <1>1, <1>3, <1>4, <1>5 DEF VgaInv

\* For a screen of every size, the row of the cursor always shows the text since
\* the last newline.
THEOREM RowCorrect == VgaSpec => []RowShowsText
<1>1. VgaInit => VgaInv
  <2> SUFFICES ASSUME VgaInit PROVE VgaInv
    OBVIOUS
  <2>1. text \in Seq(Glyphs \cup {Newline}) /\ Len(text) = 0
    BY DEF VgaInit
  <2>2. ScreenAfter(0)
    BY <2>1 DEF VgaInit, ScreenAfter, Since, ColumnAfter
  <2> QED BY <2>1, <2>2, VgaAssumption DEF VgaInit, VgaInv, Cells
<1>2. VgaInv /\ [VgaNext]_vgaVars => VgaInv'
  <2> SUFFICES ASSUME VgaInv, [VgaNext]_vgaVars PROVE VgaInv'
    OBVIOUS
  <2>1. ASSUME NEW byte \in Glyphs \cup {Newline}, WriteByte(byte) PROVE VgaInv'
    BY <2>1, GlyphKeepsScreen, NewlineKeepsScreen DEF WriteByte
  <2>2. CASE UNCHANGED vgaVars
    BY <2>2 DEF VgaInv, ScreenAfter, Since, ColumnAfter, Cells, vgaVars
  <2> QED BY <2>1, <2>2 DEF VgaNext
<1>3. VgaInv => RowShowsText
  <2> SUFFICES ASSUME VgaInv PROVE RowShowsText
    OBVIOUS
  <2>1. PICK n \in Nat : ScreenAfter(n)
    BY DEF VgaInv
  <2>2. SinceNewline = n
    BY <2>1, SinceIsUnique DEF VgaInv, ScreenAfter
  <2> QED BY <2>1, <2>2 DEF VgaInv, ScreenAfter, ColumnAfter, RowShowsText
<1> QED
  BY <1>1, <1>2, <1>3, PTL DEF VgaSpec

-----------------------------------------------------------------------------
(* The stack of a new program                                              *)
-----------------------------------------------------------------------------

\* The bytes of the strings, and the words of the kernel's copy of the stack.
StringBytes == UNION {Range(s) : s \in Strings}

StackWords ==
  {Num(n) : n \in Nat} \cup
  {Chunk(b) : b \in [1 .. WordBytes -> StringBytes \cup {NUL}]}

Least(a, b) == IF a < b THEN a ELSE b

\* The constants, one by one, and the strings as sequences of bytes.
LEMMA ExecConstants ==
  /\ MaxArgv \in Nat /\ MaxEnvp \in Nat /\ MaxStr \in Nat /\ PageWords \in Nat
  /\ StackLo \in Nat /\ WordBytes \in Nat \ {0}
  /\ Strings \subseteq Seq(StringBytes)
<1>1. ASSUME NEW s \in Strings PROVE s \in Seq(StringBytes)
  <2>1. s \in Seq(Range(s)) /\ Range(s) \subseteq StringBytes
    BY ExecAssumption DEF StringBytes
  <2> HIDE DEF StringBytes
  <2> DEFINE R == Range(s)
  <2>2. s \in Seq(R) /\ R \subseteq StringBytes
    BY <2>1
  <2> HIDE DEF R
  <2> QED BY <2>2
<1> QED
  BY <1>1, ExecAssumption

\* read_user_cstring keeps the first bytes of a string.
LEMMA CutString ==
  ASSUME NEW s \in Strings
  PROVE  LET n == Least(Len(s), MaxStr)
             t == ReadUserCstring(s)
         IN  n \in Nat /\ t \in Seq(StringBytes) /\ Len(t) = n
             /\ \A k \in 1 .. n : t[k] = s[k]
<1> DEFINE n == Least(Len(s), MaxStr)
           t == ReadUserCstring(s)
<1>1. s \in Seq(StringBytes) /\ Len(s) \in Nat /\ MaxStr \in Nat
  BY ExecConstants
<1>2. n \in Nat /\ n <= Len(s)
  BY <1>1 DEF Least
<1>3. t = SubSeq(s, 1, n)
  BY DEF ReadUserCstring, Least
<1> HIDE DEF n, t
<1>4. t \in Seq(StringBytes) /\ Len(t) = n /\ \A k \in 1 .. n : t[k] = s[k]
  BY <1>1, <1>2, <1>3
<1> QED
  BY <1>2, <1>4 DEF n, t

\* out is the first strings of vec, each cut.
FirstStrings(out, vec, max) ==
  /\ out \in Seq(Seq(StringBytes)) /\ Len(out) = Least(Len(vec), max)
  /\ \A k \in 1 .. Len(out) : vec[k] \in Strings /\ out[k] = ReadUserCstring(vec[k])

\* That is what parse_user_ptrvec returns.
LEMMA ParsedVector ==
  ASSUME NEW vec \in Seq(Strings), NEW max \in Nat
  PROVE  FirstStrings(ParseUserPtrvec(vec, max), vec, max)
<1> DEFINE m   == Least(Len(vec), max)
           out == ParseUserPtrvec(vec, max)
           S   == Seq(StringBytes)
<1>1. m \in Nat /\ m <= Len(vec) /\ Len(vec) \in Nat
  BY DEF Least
<1>2. out = [k \in 1 .. m |-> ReadUserCstring(vec[k])]
  BY DEF ParseUserPtrvec, Least
<1> HIDE DEF m, out
<1>3. \A k \in 1 .. m : vec[k] \in Strings
  BY <1>1
<1>4. \A k \in 1 .. m : ReadUserCstring(vec[k]) \in S
  BY <1>3, CutString
<1> HIDE DEF S
<1>5. out \in Seq(S) /\ Len(out) = m /\ \A k \in 1 .. m : out[k] = ReadUserCstring(vec[k])
  <2>1. out \in [1 .. m -> S]
    BY <1>2, <1>4
  <2> QED BY <1>1, <1>2, <2>1
<1> QED
  BY <1>3, <1>5 DEF FirstStrings, m, out, S

\* A string takes as many words as it needs with its terminator ...
LEMMA StringWordsType ==
  ASSUME NEW s \in Seq(StringBytes)
  PROVE  /\ StringWords(s) \in Seq(StackWords)
         /\ Len(s) \div WordBytes \in Nat
         /\ Len(StringWords(s)) = Len(s) \div WordBytes + 1
<1> DEFINE n == Len(s) \div WordBytes + 1
           b(i) == [j \in 1 .. WordBytes |->
                      LET k == (i - 1) * WordBytes + j
                      IN  IF k <= Len(s) THEN s[k] ELSE NUL]
<1>1. n \in Nat /\ Len(s) \div WordBytes \in Nat /\ Len(s) \in Nat
  <2> DEFINE len == Len(s)
  <2>1. len \in Nat
    OBVIOUS
  <2> HIDE DEF len
  <2>2. len \div WordBytes \in Nat
    BY <2>1, ExecConstants, DivideParts
  <2> QED BY <2>1, <2>2 DEF len
<1>2. StringWords(s) = [i \in 1 .. n |-> Chunk(b(i))]
  BY DEF StringWords
<1>3. ASSUME NEW i \in 1 .. n PROVE b(i) \in [1 .. WordBytes -> StringBytes \cup {NUL}]
  <2> SUFFICES ASSUME NEW j \in 1 .. WordBytes,
                      (i - 1) * WordBytes + j <= Len(s)
               PROVE  s[(i - 1) * WordBytes + j] \in StringBytes
    OBVIOUS
  <2>1. (i - 1) * WordBytes \in Nat
    BY <1>1, ExecConstants
  <2>2. (i - 1) * WordBytes + j \in 1 .. Len(s)
    BY <1>1, <2>1, ExecConstants
  <2> QED BY <2>2
<1> HIDE DEF n, b
<1>4. \A i \in 1 .. n : Chunk(b(i)) \in StackWords
  BY <1>3 DEF StackWords
<1>5. StringWords(s) \in Seq(StackWords) /\ Len(StringWords(s)) = n
  BY <1>1, <1>2, <1>4
<1> QED
  BY <1>1, <1>5 DEF n

\* ... and reading byte by byte yields the string and the terminator.
LEMMA StringByte ==
  ASSUME NEW s \in Seq(StringBytes), NEW m \in 0 .. Len(s)
  PROVE  /\ m \div WordBytes \in 0 .. (Len(s) \div WordBytes)
         /\ StringWords(s)[m \div WordBytes + 1][2][(m % WordBytes) + 1]
              = IF m < Len(s) THEN s[m + 1] ELSE NUL
<1> DEFINE q == m \div WordBytes
           r == m % WordBytes
           n == Len(s) \div WordBytes
<1>1. /\ m \in Nat /\ Len(s) \in Nat /\ m <= Len(s) /\ q \in Nat /\ n \in Nat
      /\ r \in 0 .. (WordBytes - 1) /\ m = q * WordBytes + r
  <2>1. Len(s) \in Nat /\ n \in Nat
    BY StringWordsType
  <2>2. m \in Nat /\ m <= Len(s)
    BY <2>1
  <2>3. q \in Nat /\ r \in 0 .. (WordBytes - 1) /\ m = q * WordBytes + r
    BY <2>2, ExecConstants, DivideParts
  <2> QED BY <2>1, <2>2, <2>3
<1>2. q <= n
  BY <1>1, ExecConstants
<1> DEFINE f == [j \in 1 .. WordBytes |->
                   LET k == (q + 1 - 1) * WordBytes + j
                   IN  IF k <= Len(s) THEN s[k] ELSE NUL]
<1>3. StringWords(s)[q + 1] = Chunk(f)
  BY <1>1, <1>2 DEF StringWords
<1> HIDE DEF q, r
<1>4. (q + 1 - 1) * WordBytes + (r + 1) = m + 1 /\ r + 1 \in 1 .. WordBytes
  BY <1>1, ExecConstants
<1>5. f[r + 1] = IF m + 1 <= Len(s) THEN s[m + 1] ELSE NUL
  BY <1>4
<1> HIDE DEF f
<1>6. StringWords(s)[q + 1][2] = f
  BY <1>3 DEF Chunk
<1> QED
  BY <1>1, <1>2, <1>5, <1>6 DEF q, r

\* The string pushed as number j lies whole on the stack, behind the tables, at
\* the address kept for it.
StringAt(j) ==
  \E w \in Nat :
    /\ strOff[j] = StackLo + w * WordBytes
    /\ TableEnd <= w
    /\ w + Len(StringWords((envp \o argv)[j])) <= Len(v)
    /\ \A i \in 1 .. Len(StringWords((envp \o argv)[j])) :
         v[w + i] = StringWords((envp \o argv)[j])[i]

\* The kernel's copy: the count, tables of zeros, and the strings so far.
LaidOut ==
  /\ v \in Seq(StackWords) /\ TableEnd <= Len(v)
  /\ v[1] = Num(Len(argv))
  /\ \A i \in 2 .. TableEnd : v[i] = Num(0)
  /\ strOff \in Seq(Nat) /\ Len(strOff) <= Len(envp) + Len(argv)
  /\ \A j \in 1 .. Len(strOff) : StringAt(j)

Written ==
  /\ Len(strOff) = Len(envp) + Len(argv) /\ Len(v) <= PageWords
  /\ \A i \in 1 .. Len(v) : page[i] = Filled[i]

ExecInv ==
  /\ userArgv \in Seq(Strings) /\ userEnvp \in Seq(Strings)
  /\ stage \in {"argv", "envp", "load", "strings", "done", "failed"}
  /\ stage \in {"envp", "load", "strings", "done"} =>
       argv = ParseUserPtrvec(userArgv, MaxArgv)
  /\ stage \in {"load", "strings", "done"} =>
       envp = ParseUserPtrvec(userEnvp, MaxEnvp)
  /\ stage \in {"argv", "envp", "load"} => strOff = <<>>
  /\ stage \in {"strings", "done"} => LaidOut
  /\ stage = "done" => Written
  /\ stage # "done" => \A i \in 1 .. PageWords : page[i] = Old
  /\ result # 0 => stage = "failed"

\* The vectors once both are parsed, and where the tables are.
LEMMA ParsedTypes ==
  ASSUME ExecInv, stage \in {"load", "strings", "done"}
  PROVE  /\ argv \in Seq(Seq(StringBytes)) /\ Len(argv) \in Nat
         /\ envp \in Seq(Seq(StringBytes)) /\ Len(envp) \in Nat
         /\ envp \o argv \in Seq(Seq(StringBytes))
         /\ Len(envp \o argv) = Len(envp) + Len(argv)
         /\ EnvTab = Len(argv) + 2
         /\ AuxTab = Len(argv) + Len(envp) + 3
         /\ TableEnd = Len(argv) + Len(envp) + 15
<1>0. /\ userArgv \in Seq(Strings) /\ argv = ParseUserPtrvec(userArgv, MaxArgv)
      /\ userEnvp \in Seq(Strings) /\ envp = ParseUserPtrvec(userEnvp, MaxEnvp)
      /\ MaxArgv \in Nat /\ MaxEnvp \in Nat
  BY ExecConstants DEF ExecInv
<1>1. argv \in Seq(Seq(StringBytes)) /\ Len(argv) \in Nat
  BY <1>0, ParsedVector DEF FirstStrings
<1>2. envp \in Seq(Seq(StringBytes)) /\ Len(envp) \in Nat
  BY <1>0, ParsedVector DEF FirstStrings
<1>3. envp \o argv \in Seq(Seq(StringBytes)) /\ Len(envp \o argv) = Len(envp) + Len(argv)
  BY <1>1, <1>2
<1> QED
  BY <1>1, <1>2, <1>3 DEF EnvTab, AuxTab, TableEnd, ArgvTab, AuxPairs

\* Reserving the tables lays out a stack without strings.
LEMMA TablesLaidOut ==
  ASSUME ExecInv, stage = "load", UNCHANGED <<argv, envp, strOff>>,
         v' = <<Num(Len(argv))>> \o Zeros(TableEnd - 1 + (TableEnd % 2))
  PROVE  LaidOut'
<1> DEFINE n == TableEnd - 1 + (TableEnd % 2)
           z == Zeros(n)
           a == <<Num(Len(argv))>>
<1>1. Len(argv) \in Nat /\ Len(envp) \in Nat /\ TableEnd = Len(argv) + Len(envp) + 15
  BY ParsedTypes
<1>2. n \in Nat /\ TableEnd \in Nat /\ TableEnd >= 15 /\ TableEnd <= n + 1
  BY <1>1
<1>3. z = [i \in 1 .. n |-> Num(0)]
  BY DEF Zeros
<1>4. Num(0) \in StackWords /\ Num(Len(argv)) \in StackWords
  BY <1>1 DEF StackWords
<1> HIDE DEF n
<1>5. z \in Seq(StackWords) /\ Len(z) = n /\ \A i \in 1 .. n : z[i] = Num(0)
  BY <1>2, <1>3, <1>4
<1>6. a \in Seq(StackWords) /\ Len(a) = 1 /\ a[1] = Num(Len(argv))
  BY <1>4
<1>7. v' = a \o z
  BY DEF n
<1> HIDE DEF a, z
<1>8. /\ v' \in Seq(StackWords) /\ Len(v') = n + 1 /\ v'[1] = Num(Len(argv))
      /\ \A i \in 2 .. (n + 1) : v'[i] = z[i - 1]
  <2> DEFINE w == a \o z
  <2>0. /\ w \in Seq(StackWords) /\ Len(w) = Len(a) + Len(z)
        /\ \A i \in 1 .. Len(a) + Len(z) : w[i] = IF i <= Len(a) THEN a[i] ELSE z[i - Len(a)]
    BY <1>5, <1>6, ConcatProperties
  <2> HIDE DEF w
  <2>1. w \in Seq(StackWords) /\ Len(w) = n + 1
    BY <1>2, <1>5, <1>6, <2>0
  <2>2. w[1] = a[1]
    BY <1>2, <1>5, <1>6, <2>0
  <2>3. \A i \in 2 .. (n + 1) : w[i] = z[i - 1]
    BY <1>2, <1>5, <1>6, <2>0
  <2>4. v' = w
    BY <1>7 DEF w
  <2> QED BY <1>6, <2>1, <2>2, <2>3, <2>4
<1>9. \A i \in 2 .. TableEnd : v'[i] = Num(0)
  <2> TAKE i \in 2 .. TableEnd
  <2>1. i \in 2 .. (n + 1) /\ i - 1 \in 1 .. n
    BY <1>2
  <2> QED BY <1>5, <1>8, <2>1
<1>10. (strOff \in Seq(Nat) /\ Len(strOff) = 0)'
  BY DEF ExecInv
<1>11. TableEnd' = TableEnd
  BY DEF TableEnd, AuxTab, EnvTab, ArgvTab
<1>12. (\A j \in 1 .. Len(strOff) : StringAt(j))'
  BY <1>10
<1>13. TableEnd <= Len(v') /\ 0 <= Len(envp) + Len(argv)
  BY <1>1, <1>2, <1>8
<1> QED
  BY <1>8, <1>9, <1>10, <1>11, <1>12, <1>13 DEF LaidOut

\* Pushing a string keeps the tables and the strings before it.
LEMMA PushKeepsLayout ==
  ASSUME ExecInv, PushString
  PROVE  LaidOut'
<1>0. PICK m : m = Len(strOff) + 1
  OBVIOUS
<1> DEFINE s  == (envp \o argv)[m]
           ws == StringWords(s)
           at == StackLo + Len(v) * WordBytes
<1>1. LaidOut /\ stage = "strings"
  BY DEF ExecInv, PushString
<1>2. /\ Len(strOff) \in Nat /\ Len(strOff) < Len(envp) + Len(argv)
      /\ Len(argv) \in Nat /\ Len(envp) \in Nat
      /\ envp \o argv \in Seq(Seq(StringBytes))
      /\ Len(envp \o argv) = Len(envp) + Len(argv)
  BY <1>1, ParsedTypes DEF PushString, LaidOut
<1>3. s \in Seq(StringBytes)
  <2> DEFINE both == envp \o argv
  <2>1. both \in Seq(Seq(StringBytes)) /\ m \in 1 .. Len(both)
    BY <1>0, <1>2
  <2> HIDE DEF both
  <2>2. both[m] \in Seq(StringBytes)
    BY <2>1
  <2> QED BY <2>2 DEF both
<1> HIDE DEF s
<1>4. ws \in Seq(StackWords) /\ Len(ws) \in Nat
  BY <1>3, StringWordsType
<1> HIDE DEF ws
<1>5. /\ v \in Seq(StackWords) /\ strOff \in Seq(Nat) /\ Len(v) \in Nat
      /\ TableEnd \in Nat /\ TableEnd <= Len(v) /\ TableEnd >= 15
  BY <1>1, <1>2, ParsedTypes DEF LaidOut
<1>6. at \in Nat
  BY <1>5, ExecConstants
<1> HIDE DEF at
<1>7. v' = v \o ws /\ strOff' = Append(strOff, at) /\ UNCHANGED <<argv, envp>>
  BY <1>0 DEF PushString, ws, s, at
<1>8. /\ v' \in Seq(StackWords) /\ Len(v') = Len(v) + Len(ws)
      /\ \A i \in 1 .. Len(v) : v'[i] = v[i]
      /\ \A i \in 1 .. Len(ws) : v'[Len(v) + i] = ws[i]
  BY <1>4, <1>5, <1>7
<1>9. /\ strOff' \in Seq(Nat) /\ Len(strOff') = m /\ strOff'[m] = at
      /\ \A j \in 1 .. Len(strOff) : strOff'[j] = strOff[j]
  BY <1>0, <1>5, <1>6, <1>7
<1>10. TableEnd' = TableEnd
  BY <1>7 DEF TableEnd, AuxTab, EnvTab, ArgvTab
<1>11. StringAt(m)'
  <2>1. StringWords((envp' \o argv')[m]) = ws
    BY <1>7 DEF ws, s
  <2>2. TableEnd' <= Len(v) /\ Len(v) + Len(ws) <= Len(v')
    BY <1>4, <1>5, <1>8, <1>10
  <2> QED BY <1>5, <1>8, <1>9, <2>1, <2>2 DEF StringAt, at
<1>12. ASSUME NEW j \in 1 .. Len(strOff) PROVE StringAt(j)'
  <2> DEFINE wj == StringWords((envp \o argv)[j])
  <2>1. PICK w \in Nat : /\ strOff[j] = StackLo + w * WordBytes /\ TableEnd <= w
                         /\ w + Len(wj) <= Len(v)
                         /\ \A i \in 1 .. Len(wj) : v[w + i] = wj[i]
    BY <1>1 DEF LaidOut, StringAt
  <2>2. StringWords((envp' \o argv')[j]) = wj /\ strOff'[j] = strOff[j]
    BY <1>7, <1>9
  <2>3. wj \in Seq(StackWords) /\ Len(wj) \in Nat
    <3> DEFINE both == envp \o argv
    <3>1. both \in Seq(Seq(StringBytes)) /\ j \in 1 .. Len(both)
      BY <1>2
    <3> HIDE DEF both
    <3>2. both[j] \in Seq(StringBytes)
      BY <3>1
    <3>3. (envp \o argv)[j] \in Seq(StringBytes)
      BY <3>2 DEF both
    <3> DEFINE sj == (envp \o argv)[j]
    <3>4. sj \in Seq(StringBytes)
      BY <3>3
    <3> HIDE DEF sj
    <3>5. StringWords(sj) \in Seq(StackWords)
      BY <3>4, StringWordsType
    <3>6. wj = StringWords(sj)
      BY DEF sj
    <3> HIDE DEF wj
    <3> QED BY <3>5, <3>6
  <2> HIDE DEF wj
  <2>4. \A i \in 1 .. Len(wj) : v'[w + i] = wj[i]
    <3> TAKE i \in 1 .. Len(wj)
    <3>1. w + i \in 1 .. Len(v)
      BY <1>5, <2>1, <2>3
    <3> QED BY <1>8, <2>1, <3>1
  <2>5. w + Len(wj) <= Len(v')
    BY <1>4, <1>5, <1>8, <2>1, <2>3
  <2> QED BY <1>10, <2>1, <2>2, <2>4, <2>5 DEF StringAt
<1>13. v'[1] = Num(Len(argv)) /\ \A i \in 2 .. TableEnd : v'[i] = Num(0)
  <2>1. 1 \in 1 .. Len(v) /\ \A i \in 2 .. TableEnd : i \in 1 .. Len(v)
    BY <1>5
  <2> QED BY <1>1, <1>8, <2>1 DEF LaidOut
<1>14. \A j \in 1 .. Len(strOff') : StringAt(j)'
  <2> TAKE j \in 1 .. Len(strOff')
  <2>1. j = m \/ j \in 1 .. Len(strOff)
    BY <1>0, <1>2, <1>9
  <2> QED BY <1>11, <1>12, <2>1
<1>15. TableEnd <= Len(v') /\ Len(strOff') <= Len(envp) + Len(argv)
  BY <1>0, <1>2, <1>4, <1>5, <1>8, <1>9
<1> QED
  BY <1>7, <1>8, <1>9, <1>10, <1>13, <1>14, <1>15 DEF LaidOut

\* The layout depends on the vectors, the copy and the offsets only.
LEMMA LayoutKept ==
  ASSUME UNCHANGED <<argv, envp, v, strOff>>
  PROVE  LaidOut' = LaidOut
BY Zenon DEF LaidOut, StringAt, TableEnd, AuxTab, EnvTab, ArgvTab

\* Every step of execve keeps the invariant.
LEMMA ExecInvStep == ExecInv /\ [ExecNext]_execVars => ExecInv'
<1> SUFFICES ASSUME ExecInv, [ExecNext]_execVars PROVE ExecInv'
  OBVIOUS
<1>1. CASE ParseArgv
  BY <1>1 DEF ExecInv, ParseArgv, Fail
<1>2. CASE ParseEnvp
  BY <1>2 DEF ExecInv, ParseEnvp, Fail
<1>3. CASE LoadElfExec
  <2>1. CASE stage' = "strings"
    <3>1. LaidOut'
      BY <1>3, <2>1, TablesLaidOut DEF LoadElfExec, Fail
    <3> QED BY <1>3, <2>1, <3>1 DEF ExecInv, LoadElfExec, Fail
  <2>2. CASE stage' = "failed"
    BY <1>3, <2>2 DEF ExecInv, LoadElfExec, Fail
  <2> QED BY <1>3, <2>1, <2>2 DEF LoadElfExec, Fail
<1>4. CASE PushString
  <2>1. LaidOut'
    BY <1>4, PushKeepsLayout
  <2> QED BY <1>4, <2>1 DEF ExecInv, PushString
<1>5. CASE WriteStack
  <2>1. /\ stage = "strings" /\ Len(strOff) = Len(envp) + Len(argv)
        /\ UNCHANGED <<userArgv, userEnvp, argv, envp, v, strOff>>
    BY <1>5 DEF WriteStack
  <2>2. LaidOut'
    <3>1. LaidOut
      BY <2>1 DEF ExecInv
    <3> QED BY <2>1, <3>1, LayoutKept
  <2>3. CASE Len(v) > PageWords
    BY <1>5, <2>1, <2>3 DEF ExecInv, WriteStack, Fail
  <2>4. CASE ~(Len(v) > PageWords)
    <3>1. /\ page' = [i \in 1 .. PageWords |-> IF i <= Len(v) THEN Filled[i] ELSE page[i]]
          /\ stage' = "done" /\ result' = result
      BY <1>5, <2>4 DEF WriteStack
    <3>2. Len(v) \in Nat /\ PageWords \in Nat /\ Len(v) <= PageWords
      BY <2>1, <2>4, ExecConstants DEF ExecInv, LaidOut
    <3>3. \A i \in 1 .. Len(v) : page'[i] = Filled[i]
      BY <3>1, <3>2
    <3>4. Filled' = Filled
      BY <2>1 DEF Filled, AuxTab, EnvTab, ArgvTab, Aux
    <3>5. Written'
      BY <2>1, <3>2, <3>3, <3>4 DEF Written
    <3> QED BY <2>1, <2>2, <3>1, <3>5 DEF ExecInv
  <2> QED BY <2>3, <2>4
<1>6. CASE UNCHANGED execVars
  <2>1. UNCHANGED <<userArgv, userEnvp, stage, argv, envp, v, strOff, page, result>>
    BY <1>6 DEF execVars
  <2>2. LaidOut' = LaidOut
    BY <2>1, LayoutKept
  <2>3. Filled' = Filled
    BY <2>1 DEF Filled, AuxTab, EnvTab, ArgvTab, Aux
  <2>4. Written' = Written
    BY <2>1, <2>3 DEF Written
  <2> QED BY <2>1, <2>2, <2>4 DEF ExecInv
<1> QED
  BY <1>1, <1>2, <1>3, <1>4, <1>5, <1>6 DEF ExecNext

\* What the filled tables hold, word by word.
LEMMA FilledTables ==
  ASSUME ExecInv, stage = "done"
  PROVE  /\ Filled[1] = Num(Len(argv))
         /\ \A k \in 1 .. Len(argv) : Filled[k + 1] = Num(strOff[Len(envp) + k])
         /\ Filled[Len(argv) + 2] = Num(0)
         /\ \A k \in 1 .. Len(envp) : Filled[Len(argv) + 2 + k] = Num(strOff[k])
         /\ Filled[Len(argv) + Len(envp) + 3] = Num(0)
         /\ \A k \in 1 .. 12 : Filled[Len(argv) + Len(envp) + 3 + k] = Aux[k]
         /\ \A i \in 1 .. Len(v) : i > TableEnd => Filled[i] = v[i]
<1> DEFINE a == Len(argv)  e == Len(envp)
<1>1. a \in Nat /\ e \in Nat /\ Len(v) \in Nat /\ a + e + 15 <= Len(v) /\ TableEnd = a + e + 15
  <2>1. a \in Nat /\ e \in Nat /\ TableEnd = a + e + 15
    BY ParsedTypes
  <2>2. v \in Seq(StackWords) /\ TableEnd <= Len(v)
    BY DEF ExecInv, LaidOut
  <2>3. Len(v) \in Nat
    BY <2>2
  <2> QED BY <2>1, <2>2, <2>3
<1>2. v[1] = Num(a) /\ \A i \in 2 .. (a + e + 15) : v[i] = Num(0)
  BY <1>1 DEF ExecInv, LaidOut
<1>3. Filled =
        [i \in 1 .. Len(v) |->
           CASE i - 1 - (a + 2)  \in 0 .. (e - 1) -> Num(strOff[i - (a + 2)])
             [] i - 1 - 1 \in 0 .. (a - 1) -> Num(strOff[e + i - 1])
             [] i - 1 - (a + e + 3)  \in 0 .. 11 -> Aux[i - (a + e + 3)]
             [] OTHER -> v[i]]
  <2>1. EnvTab = a + 2 /\ ArgvTab = 1 /\ AuxTab = a + e + 3 /\ 2 * AuxPairs - 1 = 11
    BY ParsedTypes DEF ArgvTab, AuxPairs
  <2> QED BY <2>1 DEF Filled
<1> HIDE DEF a, e
<1>4. Filled[1] = Num(a)
  <2>1. /\ 1 \in 1 .. Len(v) /\ 1 - 1 - (a + 2) \notin 0 .. (e - 1)
        /\ 1 - 1 - 1 \notin 0 .. (a - 1) /\ 1 - 1 - (a + e + 3) \notin 0 .. 11
    BY <1>1
  <2>2. Filled[1] = v[1]
    BY <1>3, <2>1
  <2> QED BY <1>2, <2>2
<1>5. ASSUME NEW k \in 1 .. a PROVE Filled[k + 1] = Num(strOff[e + k])
  <2>1. /\ k + 1 \in 1 .. Len(v) /\ (k + 1) - 1 - (a + 2) \notin 0 .. (e - 1)
        /\ (k + 1) - 1 - 1 \in 0 .. (a - 1) /\ e + (k + 1) - 1 = e + k
        /\ (k + 1) - 1 - (a + e + 3) \notin 0 .. 11
    BY <1>1
  <2> QED BY <1>3, <2>1
<1>6. Filled[a + 2] = Num(0)
  <2> DEFINE i == a + 2
  <2>1. /\ i \in 1 .. Len(v) /\ i - 1 - (a + 2) \notin 0 .. (e - 1)
        /\ i - 1 - 1 \notin 0 .. (a - 1) /\ i - 1 - (a + e + 3) \notin 0 .. 11
        /\ i \in 2 .. (a + e + 15)
    BY <1>1
  <2> HIDE DEF i
  <2>2. Filled[i] = v[i]
    BY <1>3, <2>1
  <2>3. Filled[i] = Num(0)
    BY <1>2, <2>1, <2>2
  <2> QED BY <2>3 DEF i
<1>7. ASSUME NEW k \in 1 .. e PROVE Filled[a + 2 + k] = Num(strOff[k])
  <2>1. /\ a + 2 + k \in 1 .. Len(v) /\ (a + 2 + k) - 1 - (a + 2) \in 0 .. (e - 1)
        /\ (a + 2 + k) - 1 - 1 \notin 0 .. (a - 1) /\ (a + 2 + k) - (a + 2) = k
        /\ (a + 2 + k) - 1 - (a + e + 3) \notin 0 .. 11
    BY <1>1
  <2> QED BY <1>3, <2>1
<1>8. Filled[a + e + 3] = Num(0)
  <2> DEFINE i == a + e + 3
  <2>1. /\ i \in 1 .. Len(v) /\ i - 1 - (a + 2) \notin 0 .. (e - 1)
        /\ i - 1 - 1 \notin 0 .. (a - 1) /\ i - 1 - (a + e + 3) \notin 0 .. 11
        /\ i \in 2 .. (a + e + 15)
    BY <1>1
  <2> HIDE DEF i
  <2>2. Filled[i] = v[i]
    BY <1>3, <2>1
  <2>3. Filled[i] = Num(0)
    BY <1>2, <2>1, <2>2
  <2> QED BY <2>3 DEF i
<1>9. ASSUME NEW k \in 1 .. 12 PROVE Filled[a + e + 3 + k] = Aux[k]
  <2>1. /\ a + e + 3 + k \in 1 .. Len(v) /\ (a + e + 3 + k) - 1 - (a + 2) \notin 0 .. (e - 1)
        /\ (a + e + 3 + k) - 1 - 1 \notin 0 .. (a - 1)
        /\ (a + e + 3 + k) - 1 - (a + e + 3) \in 0 .. 11
        /\ (a + e + 3 + k) - (a + e + 3) = k
    BY <1>1
  <2> QED BY <1>3, <2>1
<1>10. ASSUME NEW i \in 1 .. Len(v), i > TableEnd PROVE Filled[i] = v[i]
  <2>1. /\ i - 1 - (a + 2) \notin 0 .. (e - 1) /\ i - 1 - 1 \notin 0 .. (a - 1)
        /\ i - 1 - (a + e + 3) \notin 0 .. 11
    BY <1>1, <1>10
  <2> QED BY <1>3, <2>1
<1> QED
  BY <1>4, <1>5, <1>6, <1>7, <1>8, <1>9, <1>10 DEF a, e

\* The pointer kept for string j leads to its bytes and a terminator.
LEMMA StringArrives ==
  ASSUME ExecInv, stage = "done", NEW j \in 1 .. Len(strOff),
         NEW s \in Seq(StringBytes), s = (envp \o argv)[j], NEW m \in 0 .. Len(s)
  PROVE  ByteAt(strOff[j] + m) = IF m < Len(s) THEN s[m + 1] ELSE NUL
<1> DEFINE ws == StringWords(s)
           q  == m \div WordBytes
           r  == m % WordBytes
           n  == Len(s) \div WordBytes
<1>1. ws \in Seq(StackWords) /\ Len(ws) = n + 1 /\ n \in Nat
  BY StringWordsType
<1>2. q \in 0 .. n /\ ws[q + 1][2][r + 1] = IF m < Len(s) THEN s[m + 1] ELSE NUL
  BY StringByte
<1>3. PICK w \in Nat : /\ strOff[j] = StackLo + w * WordBytes /\ TableEnd <= w
                       /\ w + Len(ws) <= Len(v)
                       /\ \A i \in 1 .. Len(ws) : v[w + i] = ws[i]
  BY DEF ExecInv, LaidOut, StringAt
<1>4. m \in Nat /\ WordBytes \in Nat \ {0} /\ StackLo \in Nat
  BY ExecConstants
<1>5. (w * WordBytes + m) \div WordBytes = w + q /\ (w * WordBytes + m) % WordBytes = r
  BY <1>4, DivideSum
<1> HIDE DEF ws, q, r, n
<1>6. q \in Nat /\ q + 1 \in 1 .. Len(ws) /\ Len(ws) \in Nat
  BY <1>1, <1>2
<1>7. (strOff[j] + m) - StackLo = w * WordBytes + m
  BY <1>3, <1>4
<1>8. ByteAt(strOff[j] + m) = page[w + q + 1][2][r + 1]
  <2> DEFINE d == ((strOff[j] + m) - StackLo) \div WordBytes
             t == ((strOff[j] + m) - StackLo) % WordBytes
  <2>1. d = w + q /\ t = r
    BY <1>5, <1>7
  <2>2. ByteAt(strOff[j] + m) = page[d + 1][2][t + 1]
    BY DEF ByteAt
  <2> HIDE DEF d, t
  <2> QED BY <2>1, <2>2
<1>9. /\ Len(v) \in Nat /\ TableEnd \in Nat /\ w + q + 1 = w + (q + 1)
      /\ w + q + 1 \in 1 .. Len(v) /\ w + q + 1 > TableEnd
  <2>1. Len(v) \in Nat
    BY DEF ExecInv, LaidOut
  <2>2. TableEnd \in Nat
    BY ParsedTypes
  <2> QED BY <1>3, <1>6, <2>1, <2>2
<1>10. page[w + q + 1] = Filled[w + q + 1]
  BY <1>9 DEF ExecInv, Written
<1>11. Filled[w + q + 1] = v[w + q + 1]
  BY <1>9, FilledTables
<1>12. v[w + q + 1] = ws[q + 1]
  BY <1>3, <1>6, <1>9
<1> QED
  BY <1>2, <1>8, <1>10, <1>11, <1>12

\* A vector arrives whose strings, cut, are those of str_off from o + 1 on and
\* whose pointers the page holds from word i on.
LEMMA VectorArrives ==
  ASSUME ExecInv, stage = "done",
         NEW vec \in Seq(Strings), NEW m \in Nat, m <= Len(vec),
         NEW o \in Nat, o + m <= Len(strOff), NEW i \in Nat,
         \A k \in 1 .. m : (envp \o argv)[o + k] = ReadUserCstring(vec[k]),
         \A k \in 1 .. m : page[i + k - 1] = Num(strOff[o + k]),
         page[i + m] = Num(0)
  PROVE  VectorAt(i, vec, m)
<1> SUFFICES ASSUME NEW k \in 1 .. m
             PROVE  PointsTo(page[i + k - 1], vec[k], Least(Len(vec[k]), MaxStr))
  BY DEF VectorAt, Least
<1> DEFINE s == ReadUserCstring(vec[k])
           n == Least(Len(vec[k]), MaxStr)
           p == strOff[o + k]
<1>1. vec[k] \in Strings
  OBVIOUS
<1>2. s \in Seq(StringBytes) /\ n \in Nat /\ Len(s) = n /\ \A b \in 1 .. n : s[b] = vec[k][b]
  BY <1>1, CutString
<1>3. s = (envp \o argv)[o + k]
  OBVIOUS
<1>4. o + k \in 1 .. Len(strOff)
  <2>1. Len(strOff) \in Nat
    BY DEF ExecInv, LaidOut
  <2> QED BY <2>1
<1> HIDE DEF s, n
<1>5. ASSUME NEW b \in 0 .. n PROVE ByteAt(p + b) = IF b < n THEN s[b + 1] ELSE NUL
  BY <1>2, <1>3, <1>4, StringArrives
<1>6. page[i + k - 1][2] = p
  <2>1. page[i + k - 1] = Num(p)
    OBVIOUS
  <2> HIDE DEF p
  <2> QED BY <2>1 DEF Num
<1>7. p \in Nat
  <2>1. strOff \in Seq(Nat)
    BY DEF ExecInv, LaidOut
  <2> QED BY <1>4, <2>1
<1> HIDE DEF p
<1>8. ByteAt(p + n) = NUL
  BY <1>2, <1>5
<1>9. ASSUME NEW b \in 1 .. n PROVE ByteAt(p + b - 1) = vec[k][b]
  <2>1. b - 1 \in 0 .. n /\ b - 1 < n /\ (b - 1) + 1 = b /\ p + b - 1 = p + (b - 1)
    <3>1. n \in Nat /\ b \in 1 .. n /\ p \in Nat
      BY <1>2, <1>7
    <3> QED BY <3>1
  <2> QED BY <1>2, <1>5, <2>1
<1>10. PointsTo(page[i + k - 1], vec[k], n)
  BY <1>6, <1>8, <1>9 DEF PointsTo
<1> QED
  BY <1>10 DEF n

\* The invariant implies that the program finds its arguments.
LEMMA ExecInvArrives == ExecInv => ArgsArrive
<1> SUFFICES ASSUME ExecInv, stage = "done" PROVE ArgsArrive
  BY DEF ArgsArrive
<1> DEFINE argc == Least(Len(userArgv), MaxArgv)
           envc == Least(Len(userEnvp), MaxEnvp)
<1>0. argc = Least(Len(userArgv), MaxArgv) /\ envc = Least(Len(userEnvp), MaxEnvp)
  OBVIOUS
<1> HIDE DEF argc, envc
<1>1. /\ userArgv \in Seq(Strings) /\ argv = ParseUserPtrvec(userArgv, MaxArgv)
      /\ userEnvp \in Seq(Strings) /\ envp = ParseUserPtrvec(userEnvp, MaxEnvp)
      /\ MaxArgv \in Nat /\ MaxEnvp \in Nat
  BY ExecConstants DEF ExecInv
<1>2. /\ argv \in Seq(Seq(StringBytes)) /\ argc \in Nat /\ Len(argv) = argc
      /\ \A k \in 1 .. argc : argv[k] = ReadUserCstring(userArgv[k])
  <2>1. FirstStrings(argv, userArgv, MaxArgv)
    BY <1>1, ParsedVector
  <2> QED BY <1>0, <2>1 DEF FirstStrings
<1>3. /\ envp \in Seq(Seq(StringBytes)) /\ envc \in Nat /\ Len(envp) = envc
      /\ \A k \in 1 .. envc : envp[k] = ReadUserCstring(userEnvp[k])
  <2>1. FirstStrings(envp, userEnvp, MaxEnvp)
    BY <1>1, ParsedVector
  <2> QED BY <1>0, <2>1 DEF FirstStrings
<1>4. argc <= Len(userArgv) /\ envc <= Len(userEnvp)
  BY <1>0, <1>1 DEF Least
<1> DEFINE S == Seq(StringBytes)
<1>5. /\ \A k \in 1 .. envc : (envp \o argv)[k] = envp[k]
      /\ \A k \in 1 .. argc : (envp \o argv)[envc + k] = argv[k]
  <2>1. argv \in Seq(S) /\ envp \in Seq(S)
    BY <1>2, <1>3
  <2> HIDE DEF S
  <2> QED BY <1>2, <1>3, <2>1
<1>6. /\ Len(strOff) = envc + argc /\ Len(v) \in Nat /\ argc + envc + 15 <= Len(v)
      /\ \A i \in 1 .. Len(v) : page[i] = Filled[i]
  <2>1. LaidOut /\ Written
    BY DEF ExecInv
  <2>2. TableEnd = argc + envc + 15
    BY <1>2, <1>3, ParsedTypes
  <2>3. Len(v) \in Nat /\ argc + envc + 15 <= Len(v)
    BY <2>1, <2>2 DEF LaidOut
  <2> QED BY <1>2, <1>3, <2>1, <2>3 DEF Written
<1>7. /\ page[1] = Num(argc)
      /\ \A k \in 1 .. argc : page[2 + k - 1] = Num(strOff[envc + k])
      /\ page[2 + argc] = Num(0)
  <2>1. /\ 1 \in 1 .. Len(v) /\ argc + 2 \in 1 .. Len(v) /\ 2 + argc = argc + 2
        /\ \A k \in 1 .. argc : k + 1 \in 1 .. Len(v) /\ 2 + k - 1 = k + 1
    <3>1. argc \in Nat /\ envc \in Nat /\ Len(v) \in Nat /\ argc + envc + 15 <= Len(v)
      BY <1>2, <1>3, <1>6
    <3> QED BY <3>1
  <2>2. /\ Filled[1] = Num(argc) /\ Filled[argc + 2] = Num(0)
        /\ \A k \in 1 .. argc : Filled[k + 1] = Num(strOff[envc + k])
    BY <1>2, <1>3, FilledTables
  <2> QED BY <1>6, <2>1, <2>2
<1>8. /\ \A k \in 1 .. envc : page[argc + 3 + k - 1] = Num(strOff[k])
      /\ page[argc + 3 + envc] = Num(0)
  <2>1. /\ argc + envc + 3 \in 1 .. Len(v) /\ argc + 3 + envc = argc + envc + 3
        /\ \A k \in 1 .. envc : argc + 2 + k \in 1 .. Len(v) /\ argc + 3 + k - 1 = argc + 2 + k
    BY <1>2, <1>3, <1>6
  <2>2. /\ Filled[argc + envc + 3] = Num(0)
        /\ \A k \in 1 .. envc : Filled[argc + 2 + k] = Num(strOff[k])
    BY <1>2, <1>3, FilledTables
  <2> QED BY <1>6, <2>1, <2>2
<1>9. \A k \in 1 .. 12 : page[argc + envc + 3 + k] = Aux[k]
  <2>1. \A k \in 1 .. 12 : argc + envc + 3 + k \in 1 .. Len(v)
    BY <1>2, <1>3, <1>6
  <2> QED BY <1>2, <1>3, <1>6, <2>1, FilledTables
<1>10. VectorAt(2, userArgv, argc)
  <2>1. envc + argc <= Len(strOff) /\ 2 \in Nat
    <3>1. envc \in Nat /\ argc \in Nat /\ Len(strOff) = envc + argc
      BY <1>2, <1>3, <1>6
    <3> QED BY <3>1
  <2>2. \A k \in 1 .. argc : (envp \o argv)[envc + k] = ReadUserCstring(userArgv[k])
    BY <1>2, <1>5
  <2> QED BY <1>1, <1>2, <1>3, <1>4, <1>7, <2>1, <2>2, VectorArrives
<1>11. VectorAt(argc + 3, userEnvp, envc)
  <2> DEFINE zero == 0
             i    == argc + 3
  <2>1. zero + envc <= Len(strOff) /\ zero \in Nat /\ i \in Nat
    BY <1>2, <1>3, <1>6
  <2>2. \A k \in 1 .. envc : (envp \o argv)[zero + k] = ReadUserCstring(userEnvp[k])
    <3> TAKE k \in 1 .. envc
    <3>1. zero + k = k
      BY <1>3
    <3> HIDE DEF zero
    <3> QED BY <1>3, <1>5, <3>1
  <2>3. \A k \in 1 .. envc : page[i + k - 1] = Num(strOff[zero + k])
    <3> TAKE k \in 1 .. envc
    <3>1. zero + k = k
      BY <1>3
    <3> HIDE DEF zero
    <3> QED BY <1>8, <3>1
  <2>4. page[i + envc] = Num(0)
    BY <1>8
  <2> HIDE DEF zero, i
  <2>5. VectorAt(i, userEnvp, envc)
    BY <1>1, <1>3, <1>4, <2>1, <2>2, <2>3, <2>4, VectorArrives
  <2> QED BY <2>5 DEF i
<1>12. SubSeq(page, argc + envc + 4, argc + envc + 3 + 2 * AuxPairs) = Aux
  <2> DEFINE b == argc + envc + 3
  <2>1. b \in Nat
    BY <1>2, <1>3
  <2>2. SubSeq(page, b + 1, b + 12) = [k \in 1 .. 12 |-> page[b + k]]
    BY <2>1
  <2>3. Aux = [k \in 1 .. 12 |-> Aux[k]]
    BY DEF Aux
  <2>4. argc + envc + 4 = b + 1 /\ argc + envc + 3 + 2 * AuxPairs = b + 12
    BY <1>2, <1>3 DEF AuxPairs
  <2> HIDE DEF b
  <2>5. \A k \in 1 .. 12 : page[b + k] = Aux[k]
    BY <1>9 DEF b
  <2> QED BY <2>2, <2>3, <2>4, <2>5
<1> QED
  BY <1>0, <1>7, <1>10, <1>11, <1>12 DEF ArgsArrive, Least

\* The initial state satisfies the invariant.
LEMMA ExecInvInit == ExecInit => ExecInv
<1> SUFFICES ASSUME ExecInit PROVE ExecInv
  OBVIOUS
<1>1. userArgv \in Seq(Strings) /\ userEnvp \in Seq(Strings)
  <2>1. ASSUME NEW s \in SeqOf(Strings, LongestVec) PROVE s \in Seq(Strings)
    <3>1. PICK m \in 0 .. LongestVec : s \in [1 .. m -> Strings]
      BY DEF SeqOf
    <3>2. m \in Nat
      BY <3>1, ExecAssumption
    <3> QED BY <3>1, <3>2
  <2> QED BY <2>1 DEF ExecInit
<1> QED
  BY <1>1 DEF ExecInit, ExecInv

\* Whatever vectors a program passes, and for every limit on them and every size
\* of the stack page, a program that execve starts finds its arguments.
THEOREM ArgsCorrect == ExecSpec => []ArgsArrive
  BY ExecInvInit, ExecInvStep, ExecInvArrives, PTL DEF ExecSpec

\* An execve that fails leaves the caller's stack page alone.
THEOREM FailureCorrect == ExecSpec => []FailureKeepsStack
<1>1. ExecInv => FailureKeepsStack
  BY DEF ExecInv, FailureKeepsStack
<1> QED
  BY <1>1, ExecInvInit, ExecInvStep, PTL DEF ExecSpec

=============================================================================
