---------------------------- MODULE SequenceFacts ----------------------------
(***************************************************************************)
(* Facts about naturals and sequences that the proofs about queues,        *)
(* channels and histories share.                                           *)
(***************************************************************************)
EXTENDS SequencesExt, SequenceTheorems, WellFoundedInduction, TLAPS

\* Every set of naturals with an element has a least one.
LEMMA LeastNatural ==
    ASSUME NEW T, T \subseteq Nat, T # {}
    PROVE  \E x \in T : \A y \in T : x <= y
  <1> DEFINE R == OpToRel(<, Nat)
  <1>1. IsWellFoundedOn(R, Nat)
    BY NatLessThanWellFounded
  <1>2. \A x, y \in Nat : <<y, x>> \in R <=> y < x
    BY DEF OpToRel
  <1> HIDE DEF R
  <1>3. PICK x \in T : \A y \in T : ~(<<y, x>> \in R)
    BY <1>1, WFMin
  <1>4. ASSUME NEW y \in T PROVE x <= y
    <2>1. x \in Nat /\ y \in Nat /\ ~(<<y, x>> \in R)
      BY <1>3
    <2>2. ~(y < x)
      BY <1>2, <2>1
    <2> QED
      BY <2>1, <2>2
  <1> QED
    BY <1>4

\* Induction over the naturals, for the set of those that have a property.
LEMMA InductiveSet ==
    ASSUME NEW S, 0 \in S, \A n \in Nat : n \in S => n + 1 \in S
    PROVE  \A n \in Nat : n \in S
  <1> SUFFICES ASSUME Nat \ S # {} PROVE FALSE
    OBVIOUS
  <1>1. PICK x \in Nat \ S : \A y \in Nat \ S : x <= y
    BY LeastNatural
  <1>2. x # 0 /\ x - 1 \in Nat
    BY <1>1
  <1>3. x - 1 \in S
    BY <1>1, <1>2
  <1> QED
    BY <1>1, <1>2, <1>3

-----------------------------------------------------------------------------
(* Definition by recursion, with the step given as a function. *)

\* The first n + 1 values of the recursion.
Computes(f, n, V, start, step) ==
    /\ f \in [0 .. n -> V]
    /\ f[0] = start
    /\ \A k \in 0 .. n - 1 : f[k + 1] = step[<<k, f[k]>>]

LEMMA ComputesExists ==
    ASSUME NEW V, NEW start \in V, NEW step \in [Nat \X V -> V], NEW n \in Nat
    PROVE  \E f : Computes(f, n, V, start, step)
  <1> DEFINE T == {m \in Nat : \E f : Computes(f, m, V, start, step)}
  <1>1. 0 \in T
    <2> DEFINE f == [k \in 0 .. 0 |-> start]
    <2>1. Computes(f, 0, V, start, step)
      BY DEF Computes
    <2> QED
      BY <2>1
  <1>2. ASSUME NEW m \in Nat, m \in T PROVE m + 1 \in T
    <2>1. PICK f : Computes(f, m, V, start, step)
      BY <1>2
    <2> DEFINE g == [k \in 0 .. m + 1 |-> IF k = m + 1 THEN step[<<m, f[m]>>] ELSE f[k]]
    <2>2. f[m] \in V /\ step[<<m, f[m]>>] \in V
      BY <2>1 DEF Computes
    <2>3. g \in [0 .. m + 1 -> V]
      BY <2>1, <2>2 DEF Computes
    <2>4. g[0] = start
      BY <2>1 DEF Computes
    <2>5. ASSUME NEW k \in 0 .. (m + 1) - 1 PROVE g[k + 1] = step[<<k, g[k]>>]
      <3>1. g[k] = f[k]
        OBVIOUS
      <3>2. CASE k = m
        <4>1. g[m + 1] = step[<<m, f[m]>>]
          OBVIOUS
        <4> HIDE DEF g
        <4> QED
          BY <3>1, <3>2, <4>1
      <3>3. CASE k \in 0 .. m - 1
        <4>1. g[k + 1] = f[k + 1] /\ f[k + 1] = step[<<k, f[k]>>]
          BY <2>1, <3>3 DEF Computes
        <4> QED
          BY <3>1, <4>1
      <3> QED
        BY <3>2, <3>3
    <2> HIDE DEF g
    <2>6. Computes(g, m + 1, V, start, step)
      BY <2>3, <2>4, <2>5 DEF Computes
    <2> QED
      BY <2>6
  <1> HIDE DEF T
  <1>3. n \in T
    BY <1>1, <1>2, InductiveSet
  <1> QED
    BY <1>3 DEF T

LEMMA ComputesAgree ==
    ASSUME NEW V, NEW start, NEW step, NEW m \in Nat, NEW n \in Nat
    PROVE  \A f, g : Computes(f, m, V, start, step) /\ Computes(g, n, V, start, step)
               => \A k \in Nat : k <= m /\ k <= n => f[k] = g[k]
  <1> SUFFICES ASSUME NEW f, Computes(f, m, V, start, step), NEW g, Computes(g, n, V, start, step)
               PROVE  \A k \in Nat : k <= m /\ k <= n => f[k] = g[k]
    OBVIOUS
  <1> DEFINE T == {j \in Nat : j <= m /\ j <= n => f[j] = g[j]}
  <1>1. 0 \in T
    BY DEF Computes
  <1>2. ASSUME NEW j \in Nat, j \in T PROVE j + 1 \in T
    <2>1. SUFFICES ASSUME j + 1 <= m, j + 1 <= n PROVE f[j + 1] = g[j + 1]
      OBVIOUS
    <2>2. j \in 0 .. m - 1 /\ j \in 0 .. n - 1 /\ f[j] = g[j]
      BY <1>2, <2>1
    <2>3. f[j + 1] = step[<<j, f[j]>>]
      BY <2>2 DEF Computes
    <2>4. g[j + 1] = step[<<j, g[j]>>]
      BY <2>2 DEF Computes
    <2> QED
      BY <2>2, <2>3, <2>4
  <1> HIDE DEF T
  <1>3. \A k \in Nat : k \in T
    BY <1>1, <1>2, InductiveSet
  <1> QED
    BY <1>3 DEF T

LEMMA RecursiveFunction ==
    ASSUME NEW V, NEW start \in V, NEW step \in [Nat \X V -> V]
    PROVE  \E f \in [Nat -> V] :
               f[0] = start /\ \A n \in Nat : f[n + 1] = step[<<n, f[n]>>]
  <1> DEFINE t(n) == CHOOSE g : Computes(g, n, V, start, step)
             f == [n \in Nat |-> t(n)[n]]
  <1>1. \A n \in Nat : Computes(t(n), n, V, start, step)
    BY ComputesExists
  <1> HIDE DEF t
  <1>2. \A n \in Nat : t(n)[n] \in V
    BY <1>1 DEF Computes
  <1>3. t(0)[0] = start
    BY <1>1 DEF Computes
  <1>4. ASSUME NEW n \in Nat PROVE t(n + 1)[n + 1] = step[<<n, t(n)[n]>>]
    <2>1. Computes(t(n), n, V, start, step) /\ Computes(t(n + 1), n + 1, V, start, step)
      BY <1>1
    <2>2. t(n + 1)[n + 1] = step[<<n, t(n + 1)[n]>>]
      BY <2>1 DEF Computes
    <2>3. t(n + 1)[n] = t(n)[n]
      <3>1. n + 1 \in Nat /\ n <= n /\ n <= n + 1
        OBVIOUS
      <3>2. ASSUME NEW q \in Nat, NEW a, Computes(a, q, V, start, step),
                   NEW b, Computes(b, n, V, start, step)
            PROVE  \A k \in Nat : k <= q /\ k <= n => a[k] = b[k]
        BY <3>2, ComputesAgree
      <3> QED
        BY <2>1, <3>1, <3>2
    <2> QED
      BY <2>2, <2>3
  <1>5. f \in [Nat -> V]
    BY <1>2
  <1>6. f[0] = start
    BY <1>3
  <1>7. ASSUME NEW n \in Nat PROVE f[n + 1] = step[<<n, f[n]>>]
    <2>1. f[n + 1] = t(n + 1)[n + 1] /\ f[n] = t(n)[n]
      OBVIOUS
    <2> HIDE DEF f
    <2> QED
      BY <1>4, <2>1
  <1> HIDE DEF f
  <1> QED
    BY <1>5, <1>6, <1>7

-----------------------------------------------------------------------------

\* Every element is below the ones that follow it.
Increasing(s) == \A i, j \in DOMAIN s : i < j => s[i] < s[j]

\* What Append does, index by index.
LEMMA AppendAt ==
    ASSUME NEW S, NEW s \in Seq(S), NEW e \in S
    PROVE  /\ Append(s, e) \in Seq(S)
           /\ DOMAIN s = 1 .. Len(s) /\ Len(s) \in Nat
           /\ DOMAIN Append(s, e) = 1 .. Len(s) + 1
           /\ \A i \in 1 .. Len(s) : Append(s, e)[i] = s[i]
           /\ Append(s, e)[Len(s) + 1] = e
  OBVIOUS

\* Appending to a sequence adds one element to its range.
LEMMA RangeOfAppend ==
    ASSUME NEW S, NEW s \in Seq(S), NEW e \in S
    PROVE  Range(Append(s, e)) = Range(s) \cup {e}
  <1>1. 1 .. Len(s) + 1 = (1 .. Len(s)) \cup {Len(s) + 1}
    BY AppendAt
  <1> QED
    BY <1>1, AppendAt DEF Range

\* Appending something larger keeps a sequence increasing.
LEMMA IncreasingAppend ==
    ASSUME NEW S, NEW s \in Seq(S), NEW e \in S,
           Increasing(s), \A i \in DOMAIN s : s[i] < e
    PROVE  Increasing(Append(s, e))
  <1> DEFINE t == Append(s, e)
             n == Len(s)
  <1>1. /\ DOMAIN s = 1 .. n /\ n \in Nat /\ DOMAIN t = 1 .. n + 1
        /\ \A i \in 1 .. n : t[i] = s[i]
        /\ t[n + 1] = e
    BY AppendAt
  <1> HIDE DEF t, n
  <1>2. ASSUME NEW i \in DOMAIN t, NEW j \in DOMAIN t, i < j PROVE t[i] < t[j]
    <2>1. i \in 1 .. n
      BY <1>1, <1>2
    <2>2. CASE j \in 1 .. n
      BY <1>1, <1>2, <2>1, <2>2 DEF Increasing
    <2>3. CASE j = n + 1
      BY <1>1, <2>1, <2>3
    <2> QED
      BY <1>1, <2>2, <2>3
  <1> QED
    BY <1>2 DEF Increasing, t

\* Moving the head of one sequence to the end of the one before it.
LEMMA MoveHead ==
    ASSUME NEW S, NEW s \in Seq(S), NEW t \in Seq(S), t # <<>>
    PROVE  Append(s, Head(t)) \o Tail(t) = s \o t
  <1> DEFINE a == Append(s, Head(t)) \o Tail(t)
             b == s \o t
  <1>1. /\ Head(t) \in S /\ Head(t) = t[1] /\ Tail(t) \in Seq(S) /\ Len(Tail(t)) = Len(t) - 1
        /\ Len(t) \in Nat \ {0} /\ Len(s) \in Nat
        /\ \A i \in 1 .. Len(t) - 1 : Tail(t)[i] = t[i + 1]
    BY HeadTailProperties, EmptySeq, LenProperties
  <1>2. /\ Append(s, Head(t)) \in Seq(S) /\ Len(Append(s, Head(t))) = Len(s) + 1
        /\ \A i \in 1 .. Len(s) : Append(s, Head(t))[i] = s[i]
        /\ Append(s, Head(t))[Len(s) + 1] = t[1]
    BY <1>1, AppendProperties
  <1>3. /\ a \in Seq(S) /\ Len(a) = Len(s) + Len(t)
        /\ \A i \in 1 .. Len(s) + Len(t) :
               a[i] = IF i <= Len(s) + 1 THEN Append(s, Head(t))[i] ELSE Tail(t)[i - (Len(s) + 1)]
    BY <1>1, <1>2, ConcatProperties
  <1>4. /\ b \in Seq(S) /\ Len(b) = Len(s) + Len(t)
        /\ \A i \in 1 .. Len(s) + Len(t) : b[i] = IF i <= Len(s) THEN s[i] ELSE t[i - Len(s)]
    BY ConcatProperties
  <1> HIDE DEF a, b
  <1>5. ASSUME NEW i \in 1 .. Len(s) + Len(t) PROVE a[i] = b[i]
    <2>1. CASE i <= Len(s)
      BY <1>1, <1>2, <1>3, <1>4, <2>1
    <2>2. CASE i = Len(s) + 1
      <3>1. i <= Len(s) + 1 /\ ~(i <= Len(s)) /\ i - Len(s) = 1
        BY <1>1, <2>2
      <3>2. a[i] = Append(s, Head(t))[i]
        BY <1>3, <3>1
      <3>3. b[i] = t[i - Len(s)]
        BY <1>4, <3>1
      <3> QED
        BY <1>2, <2>2, <3>1, <3>2, <3>3
    <2>3. CASE i > Len(s) + 1
      <3>1. a[i] = Tail(t)[i - (Len(s) + 1)] /\ i - (Len(s) + 1) \in 1 .. Len(t) - 1
        BY <1>1, <1>3, <2>3
      <3>2. b[i] = t[i - Len(s)] /\ (i - (Len(s) + 1)) + 1 = i - Len(s)
        BY <1>1, <1>4, <2>3
      <3> QED
        BY <1>1, <3>1, <3>2
    <2> QED
      BY <1>1, <2>1, <2>2, <2>3
  <1>6. a = b
    BY <1>3, <1>4, <1>5, SeqEqual
  <1> QED
    BY <1>6 DEF a, b

\* Appending to the last of two sequences.
LEMMA AppendLast ==
    ASSUME NEW S, NEW s \in Seq(S), NEW t \in Seq(S), NEW e \in S
    PROVE  s \o Append(t, e) = Append(s \o t, e)
  <1>1. Append(t, e) = t \o <<e>> /\ <<e>> \in Seq(S)
    BY AppendIsConcat
  <1>2. s \o t \in Seq(S)
    BY ConcatProperties
  <1>3. Append(s \o t, e) = (s \o t) \o <<e>>
    BY <1>2, AppendIsConcat
  <1> QED
    BY <1>1, <1>3, ConcatAssociative

-----------------------------------------------------------------------------
(* FlattenSeq, which builds its result with a recursive function. *)

\* f is the table FlattenSeq builds for a sequence ss of length n.
Flattens(f, ss, n) == f = [i \in 1 .. n |-> IF i = 1 THEN ss[i] ELSE f[i - 1] \o ss[i]]

LEMMA FlattenUnfold ==
    ASSUME NEW ss, Len(ss) # 0, NEW g, Flattens(g, ss, Len(ss))
    PROVE  \E f : Flattens(f, ss, Len(ss)) /\ FlattenSeq(ss) = f[Len(ss)]
  <1> DEFINE c == CHOOSE f : f = [i \in 1 .. Len(ss) |-> IF i = 1 THEN ss[i] ELSE f[i - 1] \o ss[i]]
  <1>1. c = [i \in 1 .. Len(ss) |-> IF i = 1 THEN ss[i] ELSE c[i - 1] \o ss[i]]
    BY Zenon DEF Flattens
  <1>2. FlattenSeq(ss) = c[Len(ss)]
    BY DEF FlattenSeq
  <1> QED
    BY <1>1, <1>2, Zenon DEF Flattens

LEMMA FlattensRaw ==
    ASSUME NEW f, NEW ss, NEW n, Flattens(f, ss, n), NEW i \in 1 .. n
    PROVE  f[i] = IF i = 1 THEN ss[i] ELSE f[i - 1] \o ss[i]
  BY Zenon DEF Flattens

LEMMA FlattensAt ==
    ASSUME NEW f, NEW ss, NEW n \in Nat, Flattens(f, ss, n), NEW k \in Nat, k + 1 <= n
    PROVE  f[k + 1] = IF k = 0 THEN ss[k + 1] ELSE f[k] \o ss[k + 1]
  <1>1. k + 1 \in 1 .. n /\ (k + 1) - 1 = k /\ (k = 0 <=> k + 1 = 1)
    OBVIOUS
  <1>2. f[k + 1] = IF k + 1 = 1 THEN ss[k + 1] ELSE f[(k + 1) - 1] \o ss[k + 1]
    BY <1>1, FlattensRaw
  <1> QED
    BY <1>1, <1>2

\* Two such tables agree as far as the sequences do.
LEMMA FlattensAgree ==
    ASSUME NEW f, NEW g, NEW ss, NEW tt, NEW m \in Nat \ {0}, NEW n \in Nat, m <= n,
           Flattens(f, ss, m), Flattens(g, tt, n), \A i \in 1 .. m : ss[i] = tt[i]
    PROVE  f[m] = g[m]
  <1> DEFINE S == {k \in Nat : k \in 1 .. m => f[k] = g[k]}
  <1>1. 0 \in S
    OBVIOUS
  <1>2. ASSUME NEW k \in Nat, k \in S PROVE k + 1 \in S
    <2> SUFFICES ASSUME k + 1 \in 1 .. m PROVE f[k + 1] = g[k + 1]
      OBVIOUS
    <2>1. k + 1 <= m /\ k + 1 <= n /\ (k # 0 => k \in 1 .. m)
      OBVIOUS
    <2>2. f[k + 1] = IF k = 0 THEN ss[k + 1] ELSE f[k] \o ss[k + 1]
      BY <2>1, FlattensAt
    <2>3. g[k + 1] = IF k = 0 THEN tt[k + 1] ELSE g[k] \o tt[k + 1]
      BY <2>1, FlattensAt
    <2>4. k # 0 => f[k] = g[k]
      BY <1>2, <2>1
    <2>5. ss[k + 1] = tt[k + 1]
      OBVIOUS
    <2> QED
      BY <2>2, <2>3, <2>4, <2>5, Zenon
  <1> HIDE DEF S
  <1>3. \A k \in Nat : k \in S
    BY <1>1, <1>2, InductiveSet
  <1> QED
    BY <1>3 DEF S

\* A table for one sequence more.
LEMMA FlattensMore ==
    ASSUME NEW S, NEW ss \in Seq(Seq(S)), NEW t \in Seq(S), NEW f, Flattens(f, ss, Len(ss))
    PROVE  \E g : Flattens(g, Append(ss, t), Len(Append(ss, t)))
  <1> DEFINE n == Len(ss)
             tt == Append(ss, t)
             g == [i \in 1 .. n + 1 |-> IF i = n + 1 THEN (IF n = 0 THEN t ELSE f[n] \o t) ELSE f[i]]
  <1>1. /\ n \in Nat /\ Len(tt) = n + 1 /\ tt[n + 1] = t
        /\ \A i \in 1 .. n : tt[i] = ss[i]
    BY AppendProperties, LenProperties
  <1>2. ASSUME NEW i \in 1 .. n + 1 PROVE g[i] = IF i = 1 THEN tt[i] ELSE g[i - 1] \o tt[i]
    <2>1. CASE i = n + 1
      <3>1. CASE n = 0
        BY <1>1, <2>1, <3>1
      <3>2. CASE n # 0
        <4>1. i # 1 /\ i - 1 = n /\ n \in 1 .. n + 1 /\ n # n + 1
          BY <1>1, <2>1, <3>2
        <4>2. g[i - 1] = f[n] /\ g[i] = f[n] \o t /\ tt[i] = t
          BY <1>1, <2>1, <3>2, <4>1, Zenon
        <4> HIDE DEF g, tt
        <4> QED
          BY <4>1, <4>2, Zenon
      <3> QED
        BY <3>1, <3>2
    <2>2. CASE i \in 1 .. n
      <3>1. f[i] = IF i = 1 THEN ss[i] ELSE f[i - 1] \o ss[i]
        BY <2>2, FlattensRaw
      <3>2. g[i] = f[i] /\ tt[i] = ss[i]
        BY <1>1, <2>2
      <3>3. i # 1 => g[i - 1] = f[i - 1]
        BY <1>1, <2>2
      <3> QED
        BY <3>1, <3>2, <3>3
    <2> QED
      BY <1>1, <2>1, <2>2
  <1>3. DOMAIN g = 1 .. Len(tt) /\ \A i \in 1 .. Len(tt) : g[i] = IF i = 1 THEN tt[i] ELSE g[i - 1] \o tt[i]
    BY <1>1, <1>2
  <1>4. g = [i \in 1 .. Len(tt) |-> g[i]]
    BY <1>1
  <1> HIDE DEF g, tt, n
  <1>5. [i \in 1 .. Len(tt) |-> g[i]] = [i \in 1 .. Len(tt) |-> IF i = 1 THEN tt[i] ELSE g[i - 1] \o tt[i]]
    BY <1>3
  <1>6. Flattens(g, tt, Len(tt))
    BY <1>4, <1>5 DEF Flattens
  <1> QED
    BY <1>6 DEF tt

\* Every sequence of sequences has its table.
LEMMA FlattensExists ==
    ASSUME NEW S, NEW ss \in Seq(Seq(S))
    PROVE  \E f : Flattens(f, ss, Len(ss))
  <1> DEFINE T == {n \in Nat : \A tt \in Seq(Seq(S)) : Len(tt) = n => \E f : Flattens(f, tt, Len(tt))}
  <1>1. 0 \in T
    <2> SUFFICES ASSUME NEW tt \in Seq(Seq(S)), Len(tt) = 0 PROVE \E f : Flattens(f, tt, Len(tt))
      OBVIOUS
    <2>1. 1 .. Len(tt) = {}
      OBVIOUS
    <2> DEFINE f == [i \in {} |-> 0]
    <2>2. f = [i \in 1 .. Len(tt) |-> IF i = 1 THEN tt[i] ELSE f[i - 1] \o tt[i]]
      BY <2>1
    <2> HIDE DEF f
    <2> QED
      BY <2>2 DEF Flattens
  <1>2. ASSUME NEW n \in Nat, n \in T PROVE n + 1 \in T
    <2> SUFFICES ASSUME NEW tt \in Seq(Seq(S)), Len(tt) = n + 1 PROVE \E f : Flattens(f, tt, Len(tt))
      OBVIOUS
    <2> DEFINE front == SubSeq(tt, 1, n)
    <2>1. front \in Seq(Seq(S)) /\ Len(front) = n /\ tt[n + 1] \in Seq(S)
      BY SubSeqProperties, ElementOfSeq
    <2>2. tt = Append(front, tt[n + 1])
      BY AppendProperties, SubSeqProperties, ElementOfSeq, SeqEqual
    <2> HIDE DEF front
    <2>3. \E f : Flattens(f, front, Len(front))
      BY <1>2, <2>1
    <2> QED
      BY <2>1, <2>2, <2>3, FlattensMore
  <1> HIDE DEF T
  <1>3. \A n \in Nat : n \in T
    BY <1>1, <1>2, InductiveSet
  <1>4. Len(ss) \in Nat
    BY LenProperties
  <1> QED
    BY <1>3, <1>4 DEF T

\* FlattenSeq of one sequence more appends its elements.
LEMMA FlattenAppend ==
    ASSUME NEW S, NEW ss \in Seq(Seq(S)), NEW t \in Seq(S)
    PROVE  /\ FlattenSeq(Append(ss, t)) = FlattenSeq(ss) \o t
  <1> DEFINE tt == Append(ss, t)
  <1>0. /\ tt \in Seq(Seq(S)) /\ Len(ss) \in Nat /\ Len(tt) = Len(ss) + 1 /\ tt[Len(tt)] = t
        /\ \A i \in 1 .. Len(ss) : ss[i] = tt[i]
    BY AppendProperties, LenProperties
  <1> HIDE DEF tt
  <1>1. PICK g : Flattens(g, tt, Len(tt)) /\ FlattenSeq(tt) = g[Len(tt)]
    <2>1. PICK h : Flattens(h, tt, Len(tt))
      BY <1>0, FlattensExists
    <2>2. Len(tt) # 0
      BY <1>0
    <2> QED
      BY <2>1, <2>2, FlattenUnfold
  <1>2. CASE Len(ss) = 0
    <2>1. ss = <<>> /\ Len(tt) = 1
      BY <1>0, <1>2, EmptySeq
    <2>2. FlattenSeq(ss) = <<>>
      BY <1>2, <2>1 DEF FlattenSeq
    <2>3. g[1] = t
      BY <1>0, <1>1, <2>1, FlattensRaw
    <2> QED
      BY <1>1, <2>1, <2>2, <2>3, ConcatEmptySeq DEF tt
  <1>3. CASE Len(ss) # 0
    <2>1. PICK f : Flattens(f, ss, Len(ss)) /\ FlattenSeq(ss) = f[Len(ss)]
      BY <1>3, FlattensExists, FlattenUnfold
    <2>2. f[Len(ss)] = g[Len(ss)]
      <3>1. Len(ss) <= Len(tt) /\ Len(tt) \in Nat /\ Len(ss) \in Nat \ {0}
        BY <1>0, <1>3
      <3>2. \A i \in 1 .. Len(ss) : ss[i] = tt[i]
        BY <1>0
      <3>3. Flattens(f, ss, Len(ss)) /\ Flattens(g, tt, Len(tt))
        BY <1>1, <2>1
      <3> QED
        BY <3>1, <3>2, <3>3, FlattensAgree
    <2>3. g[Len(tt)] = g[Len(ss)] \o t
      <3>1. Len(tt) \in Nat /\ Len(ss) + 1 <= Len(tt)
        BY <1>0
      <3>2. Flattens(g, tt, Len(tt))
        BY <1>1
      <3>3. g[Len(ss) + 1] = g[Len(ss)] \o tt[Len(ss) + 1]
        BY <1>0, <1>3, <3>1, <3>2, FlattensAt
      <3> QED
        BY <1>0, <3>3
    <2> QED
      BY <1>1, <2>1, <2>2, <2>3 DEF tt
  <1> QED
    BY <1>2, <1>3

=============================================================================
