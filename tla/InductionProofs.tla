-------------------------- MODULE InductionProofs ---------------------------
(***************************************************************************)
(* Induction over the natural numbers, for proofs about recursive          *)
(* functions and about sequences of any length.  The facts are stated for  *)
(* sets and functions, not for operators, so that the provers can          *)
(* instantiate them.                                                       *)
(***************************************************************************)
EXTENDS Integers, Sequences, SequencesExt, WellFoundedInduction, TLAPS

\* A set that holds 0 and with every number the next holds all of them.  A least
\* number outside would have a predecessor inside.
LEMMA NatSetInduction ==
  ASSUME NEW S, 0 \in S, \A n \in Nat : n \in S => n + 1 \in S
  PROVE  Nat \subseteq S
<1> DEFINE R == OpToRel(<, Nat)
           T == Nat \ S
<1> SUFFICES ASSUME T # {} PROVE FALSE
  OBVIOUS
<1>1. IsWellFoundedOn(R, Nat)
  BY NatLessThanWellFounded
<1>2. T \subseteq Nat
  OBVIOUS
<1> HIDE DEF R, T
<1>3. PICK x \in T : \A y \in T : ~(<<y, x>> \in R)
  BY <1>1, <1>2, WFMin
<1>4. x \in Nat /\ x # 0 /\ x - 1 \in Nat
  BY DEF T
<1>5. <<x - 1, x>> \in R
  BY <1>4 DEF R, OpToRel
<1>6. x - 1 \notin T
  BY <1>3, <1>5
<1> QED
  BY <1>4, <1>6 DEF T

-----------------------------------------------------------------------------

\* f starts with c and takes n steps of D.
Iterates(f, n, V, c, D) ==
  /\ f \in [0 .. n -> V]
  /\ f[0] = c
  /\ \A i \in 0 .. (n - 1) : f[i + 1] = D[<<i, f[i]>>]

\* There are iterations of every length ...
LEMMA IterationsExist ==
  ASSUME NEW V, NEW c \in V, NEW D \in [Nat \X V -> V]
  PROVE  \A n \in Nat : \E f : Iterates(f, n, V, c, D)
<1> DEFINE S == {n \in Nat : \E f : Iterates(f, n, V, c, D)}
<1>1. 0 \in S
  <2>1. Iterates([i \in 0 .. 0 |-> c], 0, V, c, D)
    BY DEF Iterates
  <2> QED BY <2>1
<1>2. ASSUME NEW n \in Nat, n \in S PROVE n + 1 \in S
  <2>1. PICK f : Iterates(f, n, V, c, D)
    BY <1>2
  <2> DEFINE g == [i \in 0 .. (n + 1) |-> IF i = n + 1 THEN D[<<n, f[n]>>] ELSE f[i]]
  <2>2. f[n] \in V /\ D[<<n, f[n]>>] \in V
    BY <2>1 DEF Iterates
  <2>3. g \in [0 .. (n + 1) -> V] /\ g[0] = c
    BY <2>1, <2>2 DEF Iterates
  <2>4. \A i \in 0 .. n : g[i + 1] = D[<<i, g[i]>>]
    <3> TAKE i \in 0 .. n
    <3>1. CASE i = n
      <4>1. g[n + 1] = D[<<n, f[n]>>] /\ g[n] = f[n]
        OBVIOUS
      <4> HIDE DEF g
      <4> QED BY <3>1, <4>1
    <3>2. CASE i < n
      <4>1. g[i + 1] = f[i + 1] /\ g[i] = f[i] /\ i \in 0 .. (n - 1)
        BY <3>2
      <4> QED BY <2>1, <4>1 DEF Iterates
    <3> QED BY <3>1, <3>2
  <2> HIDE DEF g
  <2>5. Iterates(g, n + 1, V, c, D)
    BY <2>3, <2>4 DEF Iterates
  <2> QED BY <2>5
<1> HIDE DEF S
<1>3. Nat \subseteq S
  BY <1>1, <1>2, NatSetInduction
<1> QED
  BY <1>3 DEF S

\* ... and they agree as far as both go.
LEMMA IterationsAgree ==
  ASSUME NEW V, NEW c, NEW D, NEW m \in Nat, NEW n \in Nat, m <= n,
         NEW f, NEW g, Iterates(f, m, V, c, D), Iterates(g, n, V, c, D)
  PROVE  f[m] = g[m]
<1> DEFINE S == {i \in Nat : i <= m => f[i] = g[i]}
<1>1. 0 \in S
  BY DEF Iterates
<1>2. ASSUME NEW i \in Nat, i \in S PROVE i + 1 \in S
  <2>1. CASE i + 1 <= m
    <3>1. i \in 0 .. (m - 1) /\ i \in 0 .. (n - 1) /\ f[i] = g[i]
      BY <1>2, <2>1
    <3>2. f[i + 1] = D[<<i, f[i]>>] /\ g[i + 1] = D[<<i, g[i]>>]
      BY <3>1 DEF Iterates
    <3> QED BY <3>1, <3>2
  <2> QED BY <2>1
<1> HIDE DEF S
<1>3. Nat \subseteq S
  BY <1>1, <1>2, NatSetInduction
<1> QED
  BY <1>3 DEF S

\* f starts with c and takes steps of D for ever.
Generates(f, V, c, D) ==
  /\ f \in [Nat -> V]
  /\ f[0] = c
  /\ \A n \in Nat : f[n + 1] = D[<<n, f[n]>>]

\* Every function D of a number and a value generates a function: what a
\* recursive definition needs to mean anything.
LEMMA RecursionExists ==
  ASSUME NEW V, NEW c \in V, NEW D \in [Nat \X V -> V]
  PROVE  \E f : Generates(f, V, c, D)
<1> DEFINE F(n) == CHOOSE f : Iterates(f, n, V, c, D)
           h    == [n \in Nat |-> F(n)[n]]
<1>1. \A n \in Nat : Iterates(F(n), n, V, c, D)
  BY IterationsExist
<1> HIDE DEF F
<1>2. h \in [Nat -> V] /\ h[0] = c
  BY <1>1 DEF Iterates
<1>3. ASSUME NEW n \in Nat PROVE h[n + 1] = D[<<n, h[n]>>]
  <2>1. n + 1 \in Nat /\ n <= n + 1 /\ n \in 0 .. (n + 1 - 1)
    OBVIOUS
  <2>2. F(n + 1)[n + 1] = D[<<n, F(n + 1)[n]>>]
    BY <1>1, <2>1 DEF Iterates
  <2>3. F(n)[n] = F(n + 1)[n]
    BY <1>1, <2>1, IterationsAgree
  <2> QED BY <2>1, <2>2, <2>3
<1> HIDE DEF h
<1>4. Generates(h, V, c, D)
  BY <1>2, <1>3 DEF Generates
<1> QED
  BY <1>4

-----------------------------------------------------------------------------
(* Flattening a sequence of sequences.                                     *)
-----------------------------------------------------------------------------

\* f[i] glues the first i sequences of ss together.
Glues(f, ss, X) ==
  /\ f \in [0 .. Len(ss) -> Seq(X)]
  /\ f[0] = <<>>
  /\ \A i \in 1 .. Len(ss) : f[i] = f[i - 1] \o ss[i]

\* There is such a function ...
LEMMA GluesExist ==
  ASSUME NEW X, NEW ss \in Seq(Seq(X))
  PROVE  \E f : Glues(f, ss, X)
<1> DEFINE V     == Seq(X)
           n     == Len(ss)
           at(i) == IF i \in 1 .. n THEN ss[i] ELSE <<>>
           D     == [p \in Nat \X V |-> p[2] \o at(p[1] + 1)]
           none  == <<>>
<1>1. n \in Nat /\ none \in V
  OBVIOUS
<1>2. ASSUME NEW i \in Nat PROVE at(i) \in V
  OBVIOUS
<1> HIDE DEF at
<1>3. ASSUME NEW a \in V, NEW b \in V PROVE a \o b \in V
  OBVIOUS
<1>4. D \in [Nat \X V -> V] /\ \A i \in Nat, a \in V : D[<<i, a>>] = a \o at(i + 1)
  <2> HIDE DEF V
  <2>1. ASSUME NEW p \in Nat \X V PROVE p[2] \o at(p[1] + 1) \in V
    <3>1. p[2] \in V /\ p[1] + 1 \in Nat
      OBVIOUS
    <3> QED BY <1>2, <1>3, <3>1
  <2> QED BY <2>1
<1> HIDE DEF D, V, none
<1>5. PICK h : Generates(h, V, none, D)
  BY <1>1, <1>4, RecursionExists
<1>6. h \in [Nat -> V] /\ h[0] = none /\ \A i \in Nat : h[i + 1] = h[i] \o at(i + 1)
  BY <1>4, <1>5 DEF Generates
<1> DEFINE f == [i \in 0 .. n |-> h[i]]
<1>7. f \in [0 .. n -> V] /\ f[0] = none
  BY <1>1, <1>6
<1>8. ASSUME NEW i \in 1 .. n PROVE f[i] = f[i - 1] \o ss[i]
  <2>1. i - 1 \in Nat /\ (i - 1) + 1 = i /\ i \in 0 .. n /\ i - 1 \in 0 .. n
    BY <1>1
  <2>2. h[i] = h[i - 1] \o at(i) /\ f[i] = h[i] /\ f[i - 1] = h[i - 1]
    BY <1>6, <2>1
  <2>3. at(i) = ss[i]
    BY DEF at
  <2> QED BY <2>2, <2>3
<1> HIDE DEF f
<1>9. Glues(f, ss, X)
  BY <1>7, <1>8 DEF Glues, V, n, none
<1> QED
  BY <1>9

\* ... and FlattenSeq is its last value.
LEMMA FlattenGlues ==
  ASSUME NEW X, NEW ss \in Seq(Seq(X)), NEW f, Glues(f, ss, X)
  PROVE  FlattenSeq(ss) = f[Len(ss)]
<1> DEFINE n       == Len(ss)
           Body(g) == [i \in 1 .. n |-> IF i = 1 THEN ss[i] ELSE g[i - 1] \o ss[i]]
           flatten == CHOOSE g : g = Body(g)
           h       == [i \in 1 .. n |-> f[i]]
<1>1. n \in Nat
  OBVIOUS
<1>2. CASE n = 0
  <2>1. FlattenSeq(ss) = ss /\ ss = <<>>
    BY <1>2 DEF FlattenSeq
  <2> QED BY <1>2, <2>1 DEF Glues
<1>3. CASE n # 0
  <2>1. FlattenSeq(ss) = flatten[n]
    BY <1>3 DEF FlattenSeq
  <2>2. h = Body(h)
    <3>1. ASSUME NEW i \in 1 .. n PROVE h[i] = IF i = 1 THEN ss[i] ELSE h[i - 1] \o ss[i]
      <4>1. h[i] = f[i - 1] \o ss[i] /\ ss[i] \in Seq(X)
        BY DEF Glues
      <4>2. CASE i = 1
        <5>1. f[i - 1] = <<>>
          BY <4>2 DEF Glues
        <5>2. <<>> \o ss[i] = ss[i]
          BY <4>1
        <5> QED BY <4>1, <4>2, <5>1, <5>2
      <4>3. CASE i # 1
        <5>1. i - 1 \in 1 .. n
          BY <1>1, <4>3
        <5>2. h[i - 1] = f[i - 1]
          BY <5>1
        <5> HIDE DEF h
        <5> QED BY <4>1, <4>3, <5>2
      <4> QED BY <4>2, <4>3
    <3> QED BY <3>1
  <2> HIDE DEF h
  <2>3. flatten = Body(flatten)
    <3> HIDE DEF Body
    <3> QED BY <2>2
  <2>4. \A i \in 1 .. n : flatten[i] = IF i = 1 THEN ss[i] ELSE flatten[i - 1] \o ss[i]
    <3> HIDE DEF flatten
    <3> QED BY <2>3
  <2>5. \A i \in 1 .. n : h[i] = IF i = 1 THEN ss[i] ELSE h[i - 1] \o ss[i]
    BY <2>2
  <2> HIDE DEF flatten, n
  <2> DEFINE S == {i \in Nat : i + 1 \in 1 .. n => flatten[i + 1] = h[i + 1]}
  <2>6. 0 \in S
    BY <2>4, <2>5
  <2>7. ASSUME NEW i \in Nat, i \in S PROVE i + 1 \in S
    <3> SUFFICES ASSUME (i + 1) + 1 \in 1 .. n PROVE flatten[(i + 1) + 1] = h[(i + 1) + 1]
      OBVIOUS
    <3> DEFINE k == (i + 1) + 1
    <3>1. k \in 1 .. n /\ k # 1 /\ k - 1 = i + 1 /\ i + 1 \in 1 .. n
      BY <1>1
    <3>2. flatten[i + 1] = h[i + 1]
      BY <2>7, <3>1
    <3> HIDE DEF k
    <3>3. flatten[k] = flatten[k - 1] \o ss[k] /\ h[k] = h[k - 1] \o ss[k]
      BY <2>4, <2>5, <3>1
    <3>4. flatten[k] = h[k]
      BY <3>1, <3>2, <3>3
    <3> QED BY <3>4 DEF k
  <2> HIDE DEF S
  <2>8. Nat \subseteq S
    BY <2>6, <2>7, NatSetInduction
  <2>9. flatten[n] = h[n]
    <3>1. n - 1 \in S /\ (n - 1) + 1 = n /\ n \in 1 .. n
      BY <1>1, <1>3, <2>8
    <3> QED BY <3>1 DEF S
  <2>10. h[n] = f[n]
    BY <1>1, <1>3 DEF h
  <2> QED BY <2>1, <2>9, <2>10 DEF n
<1> QED
  BY <1>2, <1>3

\* No sequences make no elements, and sequences over X a sequence over X.
LEMMA FlattenType ==
  ASSUME NEW X, NEW ss \in Seq(Seq(X))
  PROVE  FlattenSeq(ss) \in Seq(X) /\ (ss = <<>> => FlattenSeq(ss) = <<>>)
<1>1. PICK f : Glues(f, ss, X)
  BY GluesExist
<1>2. FlattenSeq(ss) = f[Len(ss)]
  BY <1>1, FlattenGlues
<1>3. Len(ss) \in Nat /\ (ss = <<>> => Len(ss) = 0)
  OBVIOUS
<1>4. f \in [0 .. Len(ss) -> Seq(X)] /\ f[0] = <<>>
  BY <1>1 DEF Glues
<1>5. f[Len(ss)] \in Seq(X)
  BY <1>3, <1>4
<1> QED
  BY <1>2, <1>3, <1>4, <1>5

\* A sequence added at the end is added to the result.
LEMMA FlattenAppend ==
  ASSUME NEW X, NEW ss \in Seq(Seq(X)), NEW x \in Seq(X)
  PROVE  FlattenSeq(Append(ss, x)) = FlattenSeq(ss) \o x
<1> DEFINE n  == Len(ss)
           tt == Append(ss, x)
           V  == Seq(X)
<1>1. PICK f : Glues(f, ss, X)
  BY GluesExist
<1>2. FlattenSeq(ss) = f[n]
  BY <1>1, FlattenGlues
<1>3. n \in Nat /\ f \in [0 .. n -> V] /\ f[0] = <<>> /\ x \in V
  BY <1>1 DEF Glues
<1>4. \A i \in 1 .. n : f[i] = f[i - 1] \o ss[i]
  BY <1>1 DEF Glues
<1>5. tt \in Seq(V) /\ Len(tt) = n + 1 /\ tt[n + 1] = x /\ \A i \in 1 .. n : tt[i] = ss[i]
  <2>1. ss \in Seq(V)
    OBVIOUS
  <2> HIDE DEF V
  <2> QED BY <1>3, <2>1
<1> DEFINE g == [i \in 0 .. (n + 1) |-> IF i = n + 1 THEN f[n] \o x ELSE f[i]]
<1>6. f[n] \in V /\ f[n] \o x \in V
  <2>1. f[n] \in V
    BY <1>3
  <2> QED BY <2>1
<1> HIDE DEF V, tt
<1>7. g \in [0 .. (n + 1) -> V] /\ g[0] = <<>> /\ g[n + 1] = f[n] \o x
  BY <1>3, <1>6
<1>8. ASSUME NEW i \in 1 .. (n + 1) PROVE g[i] = g[i - 1] \o tt[i]
  <2>1. CASE i = n + 1
    <3>1. g[i - 1] = f[n]
      BY <1>3, <2>1
    <3> HIDE DEF g
    <3> QED BY <1>5, <1>7, <2>1, <3>1
  <2>2. CASE i # n + 1
    <3>1. i \in 1 .. n /\ g[i] = f[i] /\ g[i - 1] = f[i - 1]
      BY <1>3, <2>2
    <3> HIDE DEF g
    <3> QED BY <1>4, <1>5, <3>1
  <2> QED BY <2>1, <2>2
<1> HIDE DEF g, n
<1>9. Glues(g, tt, X)
  BY <1>5, <1>7, <1>8 DEF Glues, V
<1>10. FlattenSeq(tt) = g[n + 1]
  BY <1>5, <1>9, FlattenGlues DEF V
<1> QED
  BY <1>2, <1>7, <1>10 DEF tt

\* A sequence put in front is put in front of the result.
LEMMA FlattenCons ==
  ASSUME NEW X, NEW ss \in Seq(Seq(X)), NEW x \in Seq(X)
  PROVE  FlattenSeq(<<x>> \o ss) = x \o FlattenSeq(ss)
<1> DEFINE n  == Len(ss)
           tt == <<x>> \o ss
           V  == Seq(X)
<1>1. PICK f : Glues(f, ss, X)
  BY GluesExist
<1>2. FlattenSeq(ss) = f[n]
  BY <1>1, FlattenGlues
<1>3. n \in Nat /\ f \in [0 .. n -> V] /\ f[0] = <<>> /\ x \in V
  BY <1>1 DEF Glues
<1>4. \A i \in 1 .. n : f[i] = f[i - 1] \o ss[i]
  BY <1>1 DEF Glues
<1>5. tt \in Seq(V) /\ Len(tt) = n + 1 /\ tt[1] = x /\ \A i \in 2 .. (n + 1) : tt[i] = ss[i - 1]
  <2>1. ss \in Seq(V) /\ <<x>> \in Seq(V) /\ Len(<<x>>) = 1 /\ <<x>>[1] = x
    OBVIOUS
  <2> DEFINE one == <<x>>
  <2> HIDE DEF V, one
  <2>2. one \in Seq(V) /\ Len(one) = 1 /\ one[1] = x /\ tt = one \o ss
    BY <2>1 DEF one
  <2> HIDE DEF tt
  <2> QED BY <1>3, <2>1, <2>2
<1>6. \A a, b \in V : a \o b \in V
  OBVIOUS
<1>7. \A a, b, c \in V : a \o (b \o c) = (a \o b) \o c
  OBVIOUS
<1>8. x \o <<>> = x /\ <<>> \o x = x
  OBVIOUS
<1> HIDE DEF V, tt
<1> DEFINE g == [i \in 0 .. (n + 1) |-> IF i = 0 THEN <<>> ELSE x \o f[i - 1]]
<1>9. <<>> \in V
  BY DEF V
<1>10. g \in [0 .. (n + 1) -> V] /\ g[0] = <<>> /\ g[n + 1] = x \o f[n]
  <2>1. ASSUME NEW i \in 1 .. (n + 1) PROVE x \o f[i - 1] \in V
    <3>1. i - 1 \in 0 .. n
      BY <1>3
    <3>2. f[i - 1] \in V
      BY <1>3, <3>1
    <3> QED BY <1>3, <1>6, <3>2
  <2> QED BY <1>3, <1>9, <2>1
<1>11. ASSUME NEW i \in 1 .. (n + 1) PROVE g[i] = g[i - 1] \o tt[i]
  <2>1. CASE i = 1
    <3>1. g[i] = x \o f[0] /\ g[i - 1] = <<>>
      BY <1>3, <2>1
    <3> HIDE DEF g
    <3> QED BY <1>3, <1>5, <1>8, <2>1, <3>1
  <2>2. CASE i # 1
    <3> DEFINE k == i - 1
    <3>1. k \in 1 .. n /\ i \in 2 .. (n + 1) /\ k - 1 \in 0 .. n
      BY <1>3, <2>2
    <3>2. g[i] = x \o f[k] /\ g[i - 1] = x \o f[k - 1]
      <4>1. i # 0 /\ i - 1 # 0 /\ i \in 0 .. (n + 1) /\ i - 1 \in 0 .. (n + 1)
        BY <1>3, <2>2
      <4> QED BY <4>1
    <3>3. tt[i] = ss[k]
      BY <1>5, <3>1
    <3> HIDE DEF g, k
    <3>4. f[k] = f[k - 1] \o ss[k] /\ f[k - 1] \in V
      BY <1>3, <1>4, <3>1
    <3>5. ss[k] \in V
      BY <3>1 DEF V, n
    <3>6. x \o (f[k - 1] \o ss[k]) = (x \o f[k - 1]) \o ss[k]
      BY <1>3, <1>7, <3>4, <3>5
    <3> QED BY <3>2, <3>3, <3>4, <3>6
  <2> QED BY <2>1, <2>2
<1> HIDE DEF g, n
<1>12. Glues(g, tt, X)
  BY <1>5, <1>10, <1>11 DEF Glues, V
<1>13. FlattenSeq(tt) = g[n + 1]
  BY <1>5, <1>12, FlattenGlues DEF V
<1> QED
  BY <1>2, <1>10, <1>13 DEF tt

=============================================================================
