------------------------------- MODULE Loops -------------------------------
(***************************************************************************)
(* A loop over a sequence: an accumulator that starts as base is replaced, *)
(* element after element, by Step of it and the element.  The modules      *)
(* whose code loops over a log, a list of indexes, the entries of a block  *)
(* or the pointers of a list take Loop from here, instantiated with their  *)
(* step, and with it the facts that their proofs need of it: what it gives *)
(* for the empty sequence, what one more element changes, and the rule of  *)
(* the loop invariant.  A loop that is not over a sequence but repeated a  *)
(* number of times is a loop over Times of what does not change in it.     *)
(***************************************************************************)
EXTENDS Naturals, Sequences

\* Local, so that an instance of this module does not repeat their theorems.
LOCAL INSTANCE WellFoundedInduction
LOCAL INSTANCE TLAPS

CONSTANT Step(_, _)     \* the accumulator after one more element

Loop(base, s) ==
    LET acc[i \in 0 .. Len(s)] == IF i = 0 THEN base ELSE Step(acc[i - 1], s[i])
    IN  acc[Len(s)]

\* x, n times
Times(n, x) == [i \in 1 .. n |-> x]

-----------------------------------------------------------------------------
\* A set of natural numbers that is not empty has a least element: the form of
\* induction that the provers can use, with the set of counterexamples.
LEMMA NatMin ==
    ASSUME NEW T, T \subseteq Nat, T # {}
    PROVE  \E n \in T : \A m \in T : n <= m
<1> DEFINE R == OpToRel(<, Nat)
<1>1. IsWellFoundedOn(R, Nat)
  BY NatLessThanWellFounded
<1>2. ASSUME NEW m \in T, NEW n \in T, m < n PROVE <<m, n>> \in R
  BY <1>2 DEF OpToRel
<1> HIDE DEF R
<1>3. \E n \in T : \A m \in T : ~(<<m, n>> \in R)
  BY <1>1, WFMin
<1>4. PICK n \in T : \A m \in T : ~(<<m, n>> \in R)
  BY <1>3
<1>5. \A m \in T : ~(m < n)
  BY <1>2, <1>4
<1>6. QED
  BY <1>5

\* The accumulators of the loop over the first n elements of s: as the recursive
\* definition has them, and round by round.
IsLoop(h, base, s, n) == h = [i \in 0 .. n |-> IF i = 0 THEN base ELSE Step(h[i - 1], s[i])]

Rounds(h, base, s, n) ==
    /\ h[0] = base
    /\ \A i \in 1 .. n : h[i] = Step(h[i - 1], s[i])

\* f and g are the same from a to b.
Agree(f, g, a, b) == \A i \in a .. b : f[i] = g[i]

\* The recursive definition runs round by round.
LEMMA LoopRounds ==
    ASSUME NEW base, NEW s, NEW n \in Nat, NEW h, IsLoop(h, base, s, n)
    PROVE  Rounds(h, base, s, n)
<1> DEFINE f(i) == IF i = 0 THEN base ELSE Step(h[i - 1], s[i])
<1>1. h = [i \in 0 .. n |-> f(i)]
  BY DEF IsLoop
<1>2. f(0) = base
  OBVIOUS
<1>3. ASSUME NEW i \in 1 .. n PROVE f(i) = Step(h[i - 1], s[i])
  <2>1. i # 0
    OBVIOUS
  <2>2. QED
    BY <2>1, Zenon
<1> HIDE DEF f
<1>4. \A i \in 0 .. n : h[i] = f(i)
  BY <1>1
<1>5. h[0] = f(0) /\ \A i \in 1 .. n : h[i] = f(i)
  BY <1>4
<1>6. QED
  BY <1>2, <1>3, <1>5, Zenon DEF Rounds

\* The loop can be run for any number of rounds.
LEMMA LoopExists ==
    ASSUME NEW base, NEW s, NEW n \in Nat
    PROVE  \E h : IsLoop(h, base, s, n)
<1> DEFINE Bad == {m \in Nat : ~ \E h : IsLoop(h, base, s, m)}
<1> SUFFICES ASSUME Bad # {} PROVE FALSE
  OBVIOUS
<1>1. PICK m \in Bad : \A k \in Bad : m <= k
  BY NatMin
<1>2. CASE m = 0
  <2> DEFINE h == [i \in 0 .. 0 |-> base]
  <2>1. IsLoop(h, base, s, 0)
    BY DEF IsLoop
  <2>2. QED
    BY <1>2, <2>1
<1>3. CASE m # 0
  <2>1. m - 1 \in Nat /\ m - 1 \notin Bad
    BY <1>1, <1>3
  <2>2. PICK h : IsLoop(h, base, s, m - 1)
    BY <2>1
  <2>3. Rounds(h, base, s, m - 1)
    BY <2>1, <2>2, LoopRounds
  <2> DEFINE v == Step(h[m - 1], s[m])
             g == [i \in 0 .. m |-> IF i = m THEN v ELSE h[i]]
  <2>4. IsLoop(g, base, s, m)
    <3> HIDE DEF v
    <3>1. ASSUME NEW i \in 0 .. m
          PROVE  g[i] = IF i = 0 THEN base ELSE Step(g[i - 1], s[i])
      <4>1. CASE i = m
        BY <4>1, <1>3, <2>1 DEF v
      <4>2. CASE i # m
        <5>1. i \in 0 .. (m - 1) /\ (i # 0 => i - 1 \in 0 .. (m - 1))
          BY <4>2, <1>3, <2>1
        <5>2. /\ i = 0 => h[i] = base
              /\ i # 0 => h[i] = Step(h[i - 1], s[i])
          <6>1. i # 0 => i \in 1 .. (m - 1)
            BY <5>1
          <6>2. QED
            BY <6>1, <2>3, Zenon DEF Rounds
        <5>3. g[i] = h[i] /\ (i # 0 => g[i - 1] = h[i - 1])
          BY <4>2, <5>1, <2>1
        <5> HIDE DEF g
        <5>4. QED
          BY <5>2, <5>3, Zenon
      <4>3. QED
        BY <4>1, <4>2
    <3> HIDE DEF g
    <3>2. g = [i \in 0 .. m |-> g[i]]
      BY DEF g
    <3>3. QED
      BY <3>1, <3>2 DEF IsLoop
  <2>5. QED
    BY <1>1, <2>4
<1>4. QED
  BY <1>2, <1>3

\* The rounds of the loop do not depend on what comes after them.
LEMMA LoopUnique ==
    ASSUME NEW base, NEW s, NEW t, NEW n \in Nat, NEW k \in Nat, n <= k, NEW g, NEW h,
           IsLoop(g, base, s, n), IsLoop(h, base, t, k), Agree(s, t, 1, n)
    PROVE  Agree(g, h, 0, n)
<1> DEFINE Bad == {i \in 0 .. n : g[i] # h[i]}
<1> SUFFICES ASSUME Bad # {} PROVE FALSE
  BY DEF Agree
<1>1. Bad \subseteq Nat
  OBVIOUS
<1>2. PICK m \in Bad : \A j \in Bad : m <= j
  <2> HIDE DEF Bad
  <2> QED BY <1>1, NatMin
<1>3. Rounds(g, base, s, n) /\ Rounds(h, base, t, k)
  BY LoopRounds
<1>4. m # 0
  <2>1. g[0] = base /\ h[0] = base
    BY <1>3, Zenon DEF Rounds
  <2>2. QED
    BY <2>1
<1>5. g[m - 1] = h[m - 1] /\ m \in 1 .. n /\ m \in 1 .. k
  BY <1>2, <1>4
<1>6. g[m] = Step(g[m - 1], s[m]) /\ h[m] = Step(h[m - 1], t[m])
  BY <1>3, <1>5, Zenon DEF Rounds
<1>7. g[m] = h[m]
  BY <1>5, <1>6, Zenon DEF Agree
<1>8. QED
  BY <1>2, <1>7

\* Loop(base, s) is the last accumulator.
LEMMA LoopLast ==
    ASSUME NEW base, NEW s, Len(s) \in Nat
    PROVE  \E h : IsLoop(h, base, s, Len(s)) /\ Loop(base, s) = h[Len(s)]
<1> DEFINE h == CHOOSE h : IsLoop(h, base, s, Len(s))
<1>1. IsLoop(h, base, s, Len(s))
  BY LoopExists
<1>2. Loop(base, s) = h[Len(s)]
  BY DEF Loop, IsLoop
<1>3. QED
  BY <1>1, <1>2

\* A loop over nothing leaves the accumulator as it was.
THEOREM LoopEmpty ==
    ASSUME NEW base
    PROVE  Loop(base, <<>>) = base
<1>1. Len(<<>>) = 0
  OBVIOUS
<1>2. PICK h : IsLoop(h, base, <<>>, Len(<<>>)) /\ Loop(base, <<>>) = h[Len(<<>>)]
  BY <1>1, LoopLast
<1>3. Rounds(h, base, <<>>, 0)
  BY <1>1, <1>2, LoopRounds
<1>4. QED
  BY <1>1, <1>2, <1>3, Zenon DEF Rounds

\* One more element is one more step.
THEOREM LoopAppend ==
    ASSUME NEW base, NEW T, NEW s \in Seq(T), NEW e \in T
    PROVE  Loop(base, Append(s, e)) = Step(Loop(base, s), e)
<1> DEFINE t == Append(s, e)
<1>1. /\ Len(s) \in Nat /\ Len(t) \in Nat
      /\ Len(t) = Len(s) + 1
      /\ t[Len(t)] = e
      /\ Agree(s, t, 1, Len(s))
  BY DEF Agree
<1> HIDE DEF t
<1>2. PICK g : IsLoop(g, base, s, Len(s)) /\ Loop(base, s) = g[Len(s)]
  BY <1>1, LoopLast
<1>3. PICK h : IsLoop(h, base, t, Len(t)) /\ Loop(base, t) = h[Len(t)]
  BY <1>1, LoopLast
<1>4. g[Len(s)] = h[Len(s)]
  <2>1. Len(s) <= Len(t) /\ Len(s) \in 0 .. Len(s)
    BY <1>1
  <2>2. Agree(g, h, 0, Len(s))
    BY <1>1, <1>2, <1>3, <2>1, LoopUnique
  <2>3. QED
    BY <2>1, <2>2 DEF Agree
<1>5. h[Len(t)] = Step(h[Len(s)], e)
  <2>1. Len(t) \in 1 .. Len(t) /\ Len(t) - 1 = Len(s)
    BY <1>1
  <2>2. Rounds(h, base, t, Len(t))
    BY <1>1, <1>3, LoopRounds
  <2>3. QED
    BY <1>1, <2>1, <2>2, Zenon DEF Rounds
<1>6. QED
  BY <1>2, <1>3, <1>4, <1>5, Zenon DEF t

\* The rule of the loop invariant: f[i] is a set the accumulator is in after i
\* rounds, if every round leads from one of these sets into the next.
THEOREM LoopInvariant ==
    ASSUME NEW base, NEW s, Len(s) \in Nat, NEW f, base \in f[0],
           \A i \in 1 .. Len(s) : \A a \in f[i - 1] : Step(a, s[i]) \in f[i]
    PROVE  Loop(base, s) \in f[Len(s)]
<1>1. PICK h : IsLoop(h, base, s, Len(s)) /\ Loop(base, s) = h[Len(s)]
  BY LoopLast
<1>2. Rounds(h, base, s, Len(s))
  BY <1>1, LoopRounds
<1> DEFINE Bad == {i \in 0 .. Len(s) : h[i] \notin f[i]}
<1> SUFFICES ASSUME Bad # {} PROVE FALSE
  <2>1. Len(s) \in 0 .. Len(s)
    OBVIOUS
  <2>2. QED
    BY <1>1, <2>1
<1>3. PICK m \in Bad : \A j \in Bad : m <= j
  <2>1. Bad \subseteq Nat
    OBVIOUS
  <2> HIDE DEF Bad
  <2>2. QED
    BY <2>1, NatMin
<1>4. m # 0
  <2>1. h[0] = base
    BY <1>2, Zenon DEF Rounds
  <2>2. QED
    BY <2>1
<1>5. m \in 1 .. Len(s) /\ h[m - 1] \in f[m - 1]
  BY <1>3, <1>4
<1>6. h[m] = Step(h[m - 1], s[m])
  BY <1>2, <1>5, Zenon DEF Rounds
<1>7. h[m] \in f[m]
  BY <1>5, <1>6, Zenon
<1>8. QED
  BY <1>3, <1>7

\* A loop over two sequences, one after the other, is two loops.
THEOREM LoopConcat ==
    ASSUME NEW base, NEW T, NEW s \in Seq(T), NEW t \in Seq(T)
    PROVE  Loop(base, s \o t) = Loop(Loop(base, s), t)
<1> DEFINE f == [i \in 0 .. Len(t) |-> {Loop(base, s \o SubSeq(t, 1, i))}]
           b == Loop(base, s)
<1>1. Len(t) \in Nat /\ 0 \in 0 .. Len(t) /\ Len(t) \in 0 .. Len(t)
  OBVIOUS
<1>2. \A i \in 0 .. Len(t) : f[i] = {Loop(base, s \o SubSeq(t, 1, i))}
  OBVIOUS
<1> HIDE DEF f
<1>3. SubSeq(t, 1, 0) = <<>> /\ (s \o <<>>) = s /\ SubSeq(t, 1, Len(t)) = t
  OBVIOUS
<1>4. b \in f[0]
  BY <1>1, <1>2, <1>3
<1>5. ASSUME NEW i \in 1 .. Len(t), NEW a \in f[i - 1] PROVE Step(a, t[i]) \in f[i]
  <2> DEFINE u == s \o SubSeq(t, 1, i - 1)
             v == s \o SubSeq(t, 1, i)
  <2>1. i - 1 \in 0 .. Len(t) /\ i \in 0 .. Len(t) /\ t[i] \in T
    OBVIOUS
  <2>2. /\ SubSeq(t, 1, i - 1) \in Seq(T)
        /\ SubSeq(t, 1, i) = Append(SubSeq(t, 1, i - 1), t[i])
    OBVIOUS
  <2>3. u \in Seq(T) /\ v = Append(u, t[i])
    BY <2>1, <2>2
  <2> HIDE DEF u, v
  <2>4. Loop(base, v) = Step(Loop(base, u), t[i])
    BY <2>1, <2>3, LoopAppend
  <2>5. a = Loop(base, u) /\ f[i] = {Loop(base, v)}
    BY <1>2, <2>1 DEF u, v
  <2>6. QED
    BY <2>4, <2>5, Zenon
<1> HIDE DEF b
<1>6. Loop(b, t) \in f[Len(t)]
  BY <1>1, <1>4, <1>5, LoopInvariant
<1>7. QED
  BY <1>1, <1>2, <1>3, <1>6 DEF b
=============================================================================
