---------------------------- MODULE StorageProofs ----------------------------
(***************************************************************************)
(* Theorems about the store, for every chain and every width of its        *)
(* integers.                                                               *)
(***************************************************************************)
EXTENDS Storage, SequenceFacts

-----------------------------------------------------------------------------
(* The integers of the keys. *)

\* Quotient and remainder.
LEMMA Division ==
    ASSUME NEW a \in Nat, NEW b \in Nat \ {0}
    PROVE  /\ a \div b \in Nat /\ a % b \in 0 .. b - 1
           /\ a = b * (a \div b) + (a % b)
  OBVIOUS

LEMMA QuotientIsUnique ==
    ASSUME NEW b \in Nat \ {0}, NEW q \in Nat, NEW p \in Nat,
           NEW r \in 0 .. b - 1, NEW s \in 0 .. b - 1, b * q + r = b * p + s
    PROVE  q = p
  <1>1. ASSUME NEW x \in Nat, NEW y \in Nat, x < y PROVE b * x + b <= b * y
    <2>1. PICK d \in Nat : y = x + 1 + d
      <3>1. y - x - 1 \in Nat /\ y = x + 1 + (y - x - 1)
        BY <1>1
      <3> QED
        BY <3>1
    <2>2. b * y = b * x + b + b * d
      BY <2>1
    <2>3. b * d \in Nat
      OBVIOUS
    <2> QED
      BY <2>2, <2>3
  <1>2. ~(q < p) /\ ~(p < q)
    BY <1>1
  <1> QED
    BY <1>2

LEMMA NestedDivision ==
    ASSUME NEW v \in Nat, NEW b \in Nat \ {0}, NEW p \in Nat \ {0}
    PROVE  v \div (b * p) = (v \div p) \div b
  <1> DEFINE q == v \div p
             r == v % p
             t == q \div b
             s == q % b
  <1>1. q \in Nat /\ r \in 0 .. p - 1 /\ v = p * q + r
    OBVIOUS
  <1>2. t \in Nat /\ s \in 0 .. b - 1 /\ q = b * t + s
    BY <1>1
  <1> HIDE DEF q, r, t, s
  <1>3. b * p \in Nat \ {0}
    OBVIOUS
  <1>4. v = (b * p) * t + (p * s + r)
    BY <1>1, <1>2
  <1>5. p * s + r \in 0 .. b * p - 1
    <2>1. PICK d \in Nat : b = s + 1 + d
      BY <1>2
    <2>2. b * p = p * s + p + p * d
      BY <1>2, <2>1
    <2>3. p * d \in Nat /\ p * s \in Nat
      BY <1>2
    <2> QED
      BY <1>1, <2>2, <2>3
  <1>6. v \div (b * p) \in Nat /\ v % (b * p) \in 0 .. b * p - 1
        /\ v = (b * p) * (v \div (b * p)) + (v % (b * p))
    BY <1>3, Division
  <1>7. v \div (b * p) = t
    <2> DEFINE m == b * p
               w == p * s + r
               d == v \div m
               e == v % m
    <2>1. m \in Nat \ {0} /\ w \in 0 .. m - 1 /\ d \in Nat /\ e \in 0 .. m - 1 /\ m * t + w = m * d + e
      BY <1>3, <1>4, <1>5, <1>6
    <2> HIDE DEF m, w, d, e
    <2>2. d = t
      BY <1>2, <2>1, QuotientIsUnique
    <2> QED
      BY <2>2 DEF d, m
  <1> QED
    BY <1>7 DEF t, q

LEMMA PowerDef ==
    /\ Power \in [Nat -> Nat \ {0}]
    /\ Power[0] = 1
    /\ \A n \in Nat : Power[n + 1] = Base * Power[n]
  <1> DEFINE V == Nat \ {0}
             step == [p \in Nat \X V |-> Base * p[2]]
             raw(f) == [n \in Nat |-> IF n = 0 THEN 1 ELSE Base * f[n - 1]]
  <1>1. 1 \in V /\ step \in [Nat \X V -> V]
    BY KeysAssumption
  <1>2. \A n \in Nat : \A x \in V : step[<<n, x>>] = Base * x
    OBVIOUS
  <1> HIDE DEF step
  <1>3. PICK f \in [Nat -> V] : f[0] = 1 /\ \A n \in Nat : f[n + 1] = step[<<n, f[n]>>]
    <2> HIDE DEF V
    <2>1. \A start \in V : \A g \in [Nat \X V -> V] :
              \E f \in [Nat -> V] : f[0] = start /\ \A n \in Nat : f[n + 1] = g[<<n, f[n]>>]
      BY RecursiveFunction
    <2> QED
      BY <1>1, <2>1
  <1>4. ASSUME NEW n \in Nat PROVE f[n] = IF n = 0 THEN 1 ELSE Base * f[n - 1]
    <2>1. CASE n = 0
      BY <1>3, <2>1
    <2>2. CASE n # 0
      <3>1. n - 1 \in Nat /\ (n - 1) + 1 = n
        BY <2>2
      <3>2. f[n] = step[<<n - 1, f[n - 1]>>] /\ f[n - 1] \in V
        BY <1>3, <3>1
      <3> QED
        BY <1>2, <2>2, <3>1, <3>2
    <2> QED
      BY <2>1, <2>2
  <1>5. f = raw(f)
    BY <1>3, <1>4
  <1>6. Power = raw(Power)
    <2>1. Power = CHOOSE g : g = raw(g)
      BY DEF Power
    <2> HIDE DEF raw
    <2> QED
      BY <1>5, <2>1
  <1>7. Power[0] = 1 /\ \A n \in Nat : Power[n + 1] = Base * Power[n]
    BY <1>6
  <1> DEFINE T == {n \in Nat : Power[n] \in V}
  <1>8. 0 \in T /\ \A n \in Nat : n \in T => n + 1 \in T
    BY <1>7, KeysAssumption
  <1> HIDE DEF T
  <1>9. \A n \in Nat : n \in T
    BY <1>8, InductiveSet
  <1>10. \A n \in Nat : Power[n] \in V
    BY <1>9 DEF T
  <1>11. DOMAIN Power = Nat /\ Power = [n \in Nat |-> Power[n]]
    BY <1>6
  <1> QED
    BY <1>7, <1>10, <1>11

\* The digits of an integer.
LEMMA EncodeUintType ==
    ASSUME NEW v \in Nat, NEW w \in Nat
    PROVE  /\ EncodeUint(v, w) \in Seq(Byte) /\ Len(EncodeUint(v, w)) = w
           /\ \A i \in 1 .. w : EncodeUint(v, w)[i] = (v \div Power[w - i]) % Base
  <1>1. ASSUME NEW i \in 1 .. w PROVE (v \div Power[w - i]) % Base \in Byte
    <2>1. w - i \in Nat
      OBVIOUS
    <2>2. Power[w - i] \in Nat \ {0} /\ Base \in Nat \ {0}
      BY <2>1, PowerDef, KeysAssumption
    <2>3. v \div Power[w - i] \in Nat
      BY <2>2, Division
    <2> QED
      BY <2>2, <2>3, Division DEF Byte
  <1> DEFINE d == [i \in 1 .. w |-> (v \div Power[w - i]) % Base]
  <1>2. \A i \in 1 .. w : d[i] \in Byte
    BY <1>1
  <1>3. d = EncodeUint(v, w)
    BY DEF EncodeUint
  <1>4. DOMAIN d = 1 .. w /\ d \in [1 .. w -> Byte]
    BY <1>2
  <1>5. \A i \in 1 .. w : d[i] = (v \div Power[w - i]) % Base
    OBVIOUS
  <1> HIDE DEF d
  <1>6. d \in Seq(Byte) /\ Len(d) = w
    BY <1>4, SeqDef, LenProperties
  <1> QED
    BY <1>3, <1>5, <1>6

\* One more digit.
LEMMA NextDigit ==
    ASSUME NEW v \in Nat, NEW n \in Nat
    PROVE  v \div Power[n] = (v \div Power[n + 1]) * Base + ((v \div Power[n]) % Base)
  <1> DEFINE q == v \div Power[n]
  <1>1. Power[n] \in Nat \ {0} /\ Base \in Nat \ {0} /\ Power[n + 1] = Base * Power[n]
    BY PowerDef, KeysAssumption
  <1>2. q \in Nat
    BY <1>1, Division
  <1>3. v \div Power[n + 1] = q \div Base
    BY <1>1, NestedDivision
  <1> HIDE DEF q
  <1>4. q = Base * (q \div Base) + (q % Base) /\ q \div Base \in Nat
    BY <1>1, <1>2, Division
  <1>5. Base * (q \div Base) = (q \div Base) * Base
    BY <1>1, <1>4
  <1>6. q = (v \div Power[n + 1]) * Base + (q % Base)
    BY <1>3, <1>4, <1>5
  <1> QED
    BY <1>6 DEF q

\* Decoding gives back what was encoded, of a value that fits.
LEMMA DecodeEncode ==
    ASSUME NEW w \in Nat, NEW v \in 0 .. Power[w] - 1
    PROVE  DecodeUint(EncodeUint(v, w)) = v
  <1> DEFINE b == EncodeUint(v, w)
             raw(f) == [n \in 0 .. Len(b) |-> IF n = 0 THEN 0 ELSE f[n - 1] * Base + b[n]]
             known == [n \in 0 .. w |-> v \div Power[w - n]]
  <1>0. v \in Nat /\ Power[w] \in Nat \ {0}
    BY PowerDef
  <1>1. Len(b) = w /\ \A i \in 1 .. w : b[i] = (v \div Power[w - i]) % Base
    BY <1>0, EncodeUintType
  <1>2. DecodeUint(b) = (CHOOSE f : f = raw(f))[Len(b)]
    BY DEF DecodeUint
  <1> HIDE DEF b
  <1>3. ASSUME NEW n \in 0 .. w PROVE known[n] = IF n = 0 THEN 0 ELSE known[n - 1] * Base + b[n]
    <2>1. CASE n = 0
      <3>1. known[0] = v \div Power[w]
        OBVIOUS
      <3>2. v = Power[w] * (v \div Power[w]) + (v % Power[w]) /\ v \div Power[w] \in Nat
            /\ v % Power[w] \in 0 .. Power[w] - 1
        BY <1>0, Division
      <3>3. v = Power[w] * 0 + v
        BY <1>0
      <3>4. v \div Power[w] = 0
        BY <1>0, <3>2, <3>3, QuotientIsUnique
      <3> QED
        BY <2>1, <3>1, <3>4
    <2>2. CASE n # 0
      <3> DEFINE m == w - n
      <3>1. m \in Nat /\ n - 1 \in 0 .. w /\ n \in 1 .. w /\ w - (n - 1) = m + 1
        BY <2>2
      <3>2. known[n] = v \div Power[m] /\ known[n - 1] = v \div Power[m + 1] /\ b[n] = (v \div Power[m]) % Base
        BY <1>1, <3>1
      <3> HIDE DEF m, known
      <3>3. v \div Power[m] = (v \div Power[m + 1]) * Base + ((v \div Power[m]) % Base)
        BY <1>0, <3>1, NextDigit
      <3> QED
        BY <2>2, <3>2, <3>3
    <2> QED
      BY <2>1, <2>2
  <1>4. known = raw(known)
    <2>1. known = [n \in 0 .. w |-> known[n]]
      OBVIOUS
    <2> HIDE DEF known
    <2> QED
      BY <1>1, <1>3, <2>1
  <1>5. PICK c : c = raw(c) /\ DecodeUint(b) = c[w]
    <2> HIDE DEF raw, known
    <2>1. \E f : f = raw(f)
      BY <1>4
    <2> QED
      BY <1>1, <1>2, <2>1
  <1> DEFINE T == {n \in Nat : n \in 0 .. w => c[n] = known[n]}
  <1>6. \A n \in 0 .. w : c[n] = IF n = 0 THEN 0 ELSE c[n - 1] * Base + b[n]
    BY <1>1, <1>5
  <1>7. known[w] = v
    <2>1. known[w] = v \div Power[0] /\ Power[0] = 1
      BY PowerDef
    <2> QED
      BY <1>0, <2>1
  <1> HIDE DEF known
  <1>8. 0 \in T
    BY <1>3, <1>6
  <1>9. ASSUME NEW n \in Nat, n \in T PROVE n + 1 \in T
    <2> SUFFICES ASSUME n + 1 \in 0 .. w PROVE c[n + 1] = known[n + 1]
      OBVIOUS
    <2>1. n \in 0 .. w /\ n + 1 # 0 /\ (n + 1) - 1 = n
      OBVIOUS
    <2>2. c[n] = known[n]
      BY <1>9, <2>1
    <2> QED
      BY <1>3, <1>6, <2>1, <2>2
  <1> HIDE DEF T
  <1>10. w \in T
    BY <1>8, <1>9, InductiveSet
  <1>11. c[w] = v
    BY <1>7, <1>10 DEF T
  <1> QED
    BY <1>5, <1>11 DEF b

\* Two integers that fit have different digits.
LEMMA EncodeUintInjective ==
    ASSUME NEW w \in Nat, NEW u \in 0 .. Power[w] - 1, NEW v \in 0 .. Power[w] - 1,
           EncodeUint(u, w) = EncodeUint(v, w)
    PROVE  u = v
  <1>1. DecodeUint(EncodeUint(u, w)) = u /\ DecodeUint(EncodeUint(v, w)) = v
    BY DecodeEncode
  <1> QED
    BY <1>1

-----------------------------------------------------------------------------
(* The strings of the keys. *)

Code(b) == IF b = Escape THEN <<Escape, Escaped00>> ELSE <<b>>
Codes(s) == [i \in DOMAIN s |-> Code(s[i])]
Flat(s) == FlattenSeq(Codes(s))

\* The parts of two equal concatenations, when the first ones are as long.
LEMMA ConcatSplit ==
    ASSUME NEW S, NEW s \in Seq(S), NEW t \in Seq(S), NEW u \in Seq(S), NEW v \in Seq(S)
    PROVE  s \o t = u \o v /\ Len(s) = Len(u) => s = u /\ t = v
  <1> SUFFICES ASSUME s \o t = u \o v, Len(s) = Len(u)
               PROVE  s = u /\ t = v
    OBVIOUS
  <1>1. Len(s) \in Nat /\ Len(t) \in Nat /\ Len(v) \in Nat /\ Len(t) = Len(v)
    <2>1. Len(s \o t) = Len(s) + Len(t) /\ Len(u \o v) = Len(u) + Len(v)
      BY ConcatProperties
    <2>2. Len(s) \in Nat /\ Len(t) \in Nat /\ Len(v) \in Nat
      BY LenProperties
    <2> QED
      BY <2>1, <2>2
  <1>2. ASSUME NEW i \in 1 .. Len(s) PROVE s[i] = u[i]
    <2>1. (s \o t)[i] = s[i]
      BY <1>1, ConcatProperties
    <2>2. (u \o v)[i] = u[i]
      BY <1>1, ConcatProperties
    <2> QED
      BY <2>1, <2>2
  <1>3. s = u
    BY <1>2, SeqEqual
  <1>4. t = v
    BY <1>3, ConcatSimplifications
  <1> QED
    BY <1>3, <1>4

\* The same, when the last ones are as long.
LEMMA ConcatSplitLast ==
    ASSUME NEW S, NEW s \in Seq(S), NEW t \in Seq(S), NEW u \in Seq(S), NEW v \in Seq(S)
    PROVE  s \o t = u \o v /\ Len(t) = Len(v) => s = u /\ t = v
  <1> SUFFICES ASSUME s \o t = u \o v, Len(t) = Len(v)
               PROVE  s = u /\ t = v
    OBVIOUS
  <1>1. Len(s \o t) = Len(s) + Len(t) /\ Len(u \o v) = Len(u) + Len(v)
    BY ConcatProperties
  <1>2. Len(s) \in Nat /\ Len(t) \in Nat /\ Len(u) \in Nat
    BY LenProperties
  <1>3. Len(s) = Len(u)
    BY <1>1, <1>2
  <1> QED
    BY <1>3, ConcatSplit

\* The elements of the second of two sequences, in their concatenation.
LEMMA ConcatSecond ==
    ASSUME NEW S, NEW s \in Seq(S), NEW t \in Seq(S)
    PROVE  /\ s \o t \in Seq(S) /\ Len(s) \in Nat /\ Len(t) \in Nat /\ Len(s \o t) = Len(s) + Len(t)
           /\ \A i \in Nat : 1 <= i /\ i <= Len(s) => (s \o t)[i] = s[i]
           /\ \A i \in Nat : 1 <= i /\ i <= Len(t) => (s \o t)[Len(s) + i] = t[i]
  <1>1. Len(s) \in Nat /\ Len(t) \in Nat
    BY LenProperties
  <1>2. /\ s \o t \in Seq(S) /\ Len(s \o t) = Len(s) + Len(t)
        /\ \A i \in 1 .. Len(s) + Len(t) : (s \o t)[i] = IF i <= Len(s) THEN s[i] ELSE t[i - Len(s)]
    BY ConcatProperties
  <1>3. \A i \in Nat : 1 <= i /\ i <= Len(s) => (s \o t)[i] = s[i]
    BY <1>1, <1>2
  <1>4. ASSUME NEW i \in Nat, 1 <= i, i <= Len(t) PROVE (s \o t)[Len(s) + i] = t[i]
    <2>1. Len(s) + i \in 1 .. Len(s) + Len(t) /\ ~(Len(s) + i <= Len(s)) /\ (Len(s) + i) - Len(s) = i
      BY <1>1, <1>4
    <2> QED
      BY <1>2, <2>1
  <1> QED
    BY <1>1, <1>2, <1>3, <1>4

\* The code of a byte never ends in the escape byte.
LEMMA CodeType ==
    ASSUME NEW b \in Byte
    PROVE  /\ Code(b) \in Seq(Byte) /\ Len(Code(b)) \in Nat /\ 1 <= Len(Code(b))
           /\ Code(b)[Len(Code(b))] # Escape
           /\ b = Escape => Len(Code(b)) = 2 /\ Code(b)[1] = Escape
           /\ b # Escape => Len(Code(b)) = 1 /\ Code(b) = <<b>>
  <1>1. Escape \in Byte /\ Escaped00 \in Byte /\ Escaped00 # Escape
    BY KeysAssumption DEF Escape, Escaped00, Byte
  <1> HIDE DEF Escape, Escaped00, Byte
  <1> QED
    BY <1>1 DEF Code

LEMMA CodesAppend ==
    ASSUME NEW s \in Seq(Byte), NEW b \in Byte
    PROVE  Codes(s) \in Seq(Seq(Byte)) /\ Codes(Append(s, b)) = Append(Codes(s), Code(b))
  <1>0. Len(s) \in Nat /\ DOMAIN s = 1 .. Len(s)
    BY LenProperties
  <1>1. \A x \in Byte : Code(x) \in Seq(Byte)
    BY CodeType
  <1>2. Codes(s) \in [1 .. Len(s) -> Seq(Byte)] /\ \A i \in 1 .. Len(s) : Codes(s)[i] = Code(s[i])
    BY <1>0, <1>1, ElementOfSeq DEF Codes
  <1>3. Codes(s) \in Seq(Seq(Byte)) /\ Len(Codes(s)) = Len(s)
    BY <1>0, <1>2, SeqDef, LenProperties
  <1> DEFINE t == Append(s, b)
  <1>4. /\ t \in Seq(Byte) /\ Len(t) = Len(s) + 1 /\ t[Len(s) + 1] = b /\ DOMAIN t = 1 .. Len(s) + 1
        /\ \A i \in 1 .. Len(s) : t[i] = s[i]
    BY <1>0, AppendProperties, LenProperties
  <1> HIDE DEF t
  <1>5. Codes(t) \in [1 .. Len(s) + 1 -> Seq(Byte)] /\ \A i \in 1 .. Len(s) + 1 : Codes(t)[i] = Code(t[i])
    BY <1>0, <1>1, <1>4, ElementOfSeq DEF Codes
  <1>6. Codes(t) \in Seq(Seq(Byte)) /\ Len(Codes(t)) = Len(s) + 1
    BY <1>0, <1>5, SeqDef, LenProperties
  <1> DEFINE u == Append(Codes(s), Code(b))
  <1>7. /\ u \in Seq(Seq(Byte)) /\ Len(u) = Len(s) + 1 /\ u[Len(s) + 1] = Code(b)
        /\ \A i \in 1 .. Len(s) : u[i] = Codes(s)[i]
    BY <1>1, <1>3, AppendProperties
  <1> HIDE DEF u
  <1>8. ASSUME NEW i \in 1 .. Len(s) + 1 PROVE Codes(t)[i] = u[i]
    <2>1. CASE i = Len(s) + 1
      BY <1>4, <1>5, <1>7, <2>1
    <2>2. CASE i \in 1 .. Len(s)
      BY <1>2, <1>4, <1>5, <1>7, <2>2
    <2> QED
      BY <1>0, <2>1, <2>2
  <1>9. Codes(t) = u
    BY <1>6, <1>7, <1>8, SeqEqual
  <1> QED
    BY <1>3, <1>9 DEF t, u

\* A sequence that is not empty, without its last element.
LEMMA Unappend ==
    ASSUME NEW S, NEW s \in Seq(S), NEW n \in Nat, Len(s) = n + 1
    PROVE  \E t \in Seq(S), e \in S : s = Append(t, e) /\ Len(t) = n
  <1> DEFINE t == SubSeq(s, 1, n)
  <1>1. t \in Seq(S) /\ Len(t) = n /\ s[n + 1] \in S
    BY SubSeqProperties, ElementOfSeq
  <1>2. s = Append(t, s[n + 1])
    BY AppendProperties, SubSeqProperties, ElementOfSeq, SeqEqual
  <1> HIDE DEF t
  <1> QED
    BY <1>1, <1>2

LEMMA FlatAppend ==
    ASSUME NEW s \in Seq(Byte), NEW b \in Byte
    PROVE  Flat(Append(s, b)) = Flat(s) \o Code(b)
  <1>1. Codes(s) \in Seq(Seq(Byte)) /\ Codes(Append(s, b)) = Append(Codes(s), Code(b)) /\ Code(b) \in Seq(Byte)
    BY CodesAppend, CodeType
  <1>2. FlattenSeq(Append(Codes(s), Code(b))) = FlattenSeq(Codes(s)) \o Code(b)
    BY <1>1, FlattenAppend
  <1> QED
    BY <1>1, <1>2 DEF Flat

LEMMA FlatEmpty ==
    Flat(<<>>) = <<>>
  <1>1. Codes(<<>>) = <<>>
    BY DEF Codes
  <1> QED
    BY <1>1 DEF Flat, FlattenSeq

\* The escaped bytes of a string never end in the escape byte.
LEMMA FlatType ==
    ASSUME NEW s \in Seq(Byte)
    PROVE  /\ Flat(s) \in Seq(Byte)
           /\ s # <<>> => Len(Flat(s)) \in Nat \ {0} /\ Flat(s)[Len(Flat(s))] # Escape
  <1> DEFINE Good(t) == /\ Flat(t) \in Seq(Byte)
                        /\ t # <<>> => Len(Flat(t)) \in Nat \ {0} /\ Flat(t)[Len(Flat(t))] # Escape
             T == {n \in Nat : \A t \in Seq(Byte) : Len(t) = n => Good(t)}
  <1>1. 0 \in T
    <2>1. ASSUME NEW t \in Seq(Byte), Len(t) = 0 PROVE t = <<>>
      BY <2>1, EmptySeq
    <2>2. Good(<<>>)
      BY FlatEmpty, EmptySeq
    <2> HIDE DEF Good
    <2> QED
      BY <2>1, <2>2
  <1>2. ASSUME NEW n \in Nat, n \in T PROVE n + 1 \in T
    <2>1. ASSUME NEW t \in Seq(Byte), Len(t) = n + 1 PROVE Good(t)
      <3>1. PICK u \in Seq(Byte), b \in Byte : t = Append(u, b) /\ Len(u) = n
        BY <2>1, Unappend
      <3>2. Flat(u) \in Seq(Byte)
        BY <1>2, <3>1
      <3>3. Flat(t) = Flat(u) \o Code(b)
        BY <3>1, FlatAppend
      <3>4. Code(b) \in Seq(Byte) /\ Len(Code(b)) \in Nat /\ 1 <= Len(Code(b)) /\ Code(b)[Len(Code(b))] # Escape
        BY CodeType
      <3>5. Len(Flat(u)) \in Nat
        BY <3>2, LenProperties
      <3>6. Flat(t) \in Seq(Byte) /\ Len(Flat(t)) = Len(Flat(u)) + Len(Code(b))
        BY <3>2, <3>3, <3>4, ConcatProperties
      <3> DEFINE m == Len(Flat(u))
                 k == Len(Code(b))
      <3>7. m \in Nat /\ k \in Nat /\ 1 <= k
        BY <3>4, <3>5
      <3>8. Flat(t)[m + k] = Code(b)[k]
        <4>1. \A i \in Nat : 1 <= i /\ i <= Len(Code(b)) => (Flat(u) \o Code(b))[Len(Flat(u)) + i] = Code(b)[i]
          BY <3>2, <3>4, ConcatSecond
        <4> QED
          BY <3>3, <3>7, <4>1
      <3>9. Len(Flat(t)) = m + k /\ Code(b)[k] # Escape
        BY <3>4, <3>6
      <3> HIDE DEF m, k
      <3>10. Len(Flat(t)) \in Nat \ {0}
        BY <3>7, <3>9
      <3> QED
        BY <3>6, <3>8, <3>9, <3>10
    <2> HIDE DEF Good
    <2> QED
      BY <2>1
  <1>3. Len(s) \in Nat
    BY LenProperties
  <1> HIDE DEF T
  <1>4. Len(s) \in T
    BY <1>1, <1>2, <1>3, InductiveSet
  <1> QED
    BY <1>4 DEF T

\* The code of the last byte is what the escaped bytes end in.
LEMMA LastCodeIsUnique ==
    ASSUME NEW s \in Seq(Byte), NEW t \in Seq(Byte), NEW a \in Byte, NEW b \in Byte,
           Flat(s) \o Code(a) = Flat(t) \o Code(b), a # Escape, b = Escape
    PROVE  FALSE
  <1>1. Flat(s) \in Seq(Byte) /\ Flat(t) \in Seq(Byte) /\ Len(Flat(s)) \in Nat /\ Len(Flat(t)) \in Nat
    BY FlatType, LenProperties
  <1>2. /\ Code(a) \in Seq(Byte) /\ Len(Code(a)) = 1
        /\ Code(b) \in Seq(Byte) /\ Code(b)[1] = Escape /\ Len(Code(b)) = 2
    BY CodeType
  <1> DEFINE x == Flat(s) \o Code(a)
             y == Flat(t) \o Code(b)
             n == Len(Flat(t)) + 1
  <1>3. Len(x) = Len(Flat(s)) + 1 /\ x = y
    <2>1. Flat(s) \in Seq(Byte) /\ Code(a) \in Seq(Byte)
      BY <1>1, <1>2
    <2>2. Len(x) = Len(Flat(s)) + Len(Code(a))
      BY <2>1, ConcatSecond
    <2> QED
      BY <1>2, <2>2, Zenon
  <1>4. Len(y) = Len(Flat(t)) + 2
    <2>1. Flat(t) \in Seq(Byte) /\ Code(b) \in Seq(Byte)
      BY <1>1, <1>2
    <2>2. Len(y) = Len(Flat(t)) + Len(Code(b))
      BY <2>1, ConcatSecond
    <2> QED
      BY <1>2, <2>2, Zenon
  <1>5. Len(Flat(s)) = n
    BY <1>1, <1>3, <1>4
  <1>6. x[n] = Flat(s)[n] /\ y[n] = Code(b)[1]
    <2>1. n \in Nat /\ 1 <= n /\ n <= Len(Flat(s))
      BY <1>1, <1>5
    <2>2. x[n] = Flat(s)[n]
      BY <1>1, <1>2, <2>1, ConcatSecond
    <2>3. \A i \in Nat : 1 <= i /\ i <= Len(Code(b)) => y[Len(Flat(t)) + i] = Code(b)[i]
      BY <1>1, <1>2, ConcatSecond
    <2>4. y[n] = Code(b)[1]
      BY CodeType, <2>3
    <2> QED
      BY <2>2, <2>4
  <1>7. s # <<>>
    <2>1. Flat(<<>>) = <<>> /\ Len(<<>>) = 0
      BY FlatEmpty
    <2> QED
      BY <1>1, <1>5, <2>1
  <1>8. Flat(s)[n] # Escape
    BY <1>5, <1>7, FlatType
  <1> HIDE DEF x, y, n
  <1> QED
    BY <1>2, <1>3, <1>6, <1>8

\* Two strings have different escaped bytes.
LEMMA FlatInjective ==
    ASSUME NEW s \in Seq(Byte), NEW t \in Seq(Byte), Flat(s) = Flat(t)
    PROVE  s = t
  <1> DEFINE Same(u, v) == Flat(u) = Flat(v) => u = v
             T == {n \in Nat : \A u, v \in Seq(Byte) : Len(u) = n => Same(u, v)}
  <1>0. \A u \in Seq(Byte) : u # <<>> => Flat(u) # <<>>
    BY FlatType, EmptySeq
  <1>1. 0 \in T
    <2>1. ASSUME NEW u \in Seq(Byte), Len(u) = 0 PROVE u = <<>>
      BY <2>1, EmptySeq
    <2> QED
      BY <1>0, <2>1, FlatEmpty
  <1>2. ASSUME NEW n \in Nat, n \in T PROVE n + 1 \in T
    <2>1. ASSUME NEW u \in Seq(Byte), NEW v \in Seq(Byte), Len(u) = n + 1, Flat(u) = Flat(v)
          PROVE  u = v
      <3>1. PICK x \in Seq(Byte), a \in Byte : u = Append(x, a) /\ Len(x) = n
        BY <2>1, Unappend
      <3>2. u # <<>>
        BY <2>1, EmptySeq
      <3>3. v # <<>>
        BY <1>0, <2>1, <3>2, FlatEmpty
      <3>4. Len(v) \in Nat \ {0}
        BY <3>3, EmptySeq
      <3>5. PICK m \in Nat : Len(v) = m + 1
        <4>1. Len(v) - 1 \in Nat /\ Len(v) = (Len(v) - 1) + 1
          BY <3>4
        <4> QED
          BY <4>1
      <3>6. PICK y \in Seq(Byte), b \in Byte : v = Append(y, b) /\ Len(y) = m
        BY <3>5, Unappend
      <3>7. Flat(x) \o Code(a) = Flat(y) \o Code(b)
        BY <2>1, <3>1, <3>6, FlatAppend
      <3>8. a = Escape <=> b = Escape
        <4>1. a # Escape /\ b = Escape => FALSE
          BY <3>7, LastCodeIsUnique
        <4>2. Flat(y) \o Code(b) = Flat(x) \o Code(a)
          BY <3>7
        <4>3. b # Escape /\ a = Escape => FALSE
          BY <4>2, LastCodeIsUnique
        <4> QED
          BY <4>1, <4>3
      <3>9. /\ Code(a) \in Seq(Byte) /\ Code(b) \in Seq(Byte) /\ Len(Code(a)) = Len(Code(b))
            /\ Code(a) = Code(b) => a = b
        <4>1. CASE a = Escape
          BY <3>8, <4>1, CodeType
        <4>2. CASE a # Escape
          <5>1. /\ Code(a) \in Seq(Byte) /\ Len(Code(a)) = 1 /\ Code(a) = <<a>>
                /\ Code(b) \in Seq(Byte) /\ Len(Code(b)) = 1 /\ Code(b) = <<b>>
            BY <3>8, <4>2, CodeType
          <5>2. <<a>> = <<b>> => a = b
            OBVIOUS
          <5> QED
            BY <5>1, <5>2, Zenon
        <4> QED
          BY <4>1, <4>2
      <3>10. Flat(x) \in Seq(Byte) /\ Flat(y) \in Seq(Byte)
        BY FlatType
      <3>11. Flat(x) = Flat(y) /\ Code(a) = Code(b)
        <4>1. Flat(x) \o Code(a) = Flat(y) \o Code(b) /\ Len(Code(a)) = Len(Code(b))
                  => Flat(x) = Flat(y) /\ Code(a) = Code(b)
          BY <3>9, <3>10, ConcatSplitLast
        <4> QED
          BY <3>7, <3>9, <4>1
      <3>12. x = y
        BY <1>2, <3>1, <3>11
      <3> QED
        BY <3>1, <3>6, <3>9, <3>11, <3>12
    <2> QED
      BY <2>1
  <1>3. Len(s) \in Nat
    BY LenProperties
  <1> HIDE DEF T
  <1>4. Len(s) \in T
    BY <1>1, <1>2, <1>3, InductiveSet
  <1> QED
    BY <1>4 DEF T

LEMMA EncodeStringType ==
    ASSUME NEW s \in Seq(Byte)
    PROVE  /\ EncodeString(s) = <<Marker>> \o Flat(s) \o <<Escape, EscapedTerm>>
           /\ <<Marker>> \in Seq(Byte) /\ <<Escape, EscapedTerm>> \in Seq(Byte)
           /\ Flat(s) \in Seq(Byte) /\ EncodeString(s) \in Seq(Byte)
  <1>1. EncodeString(s) = <<Marker>> \o Flat(s) \o <<Escape, EscapedTerm>>
    BY DEF EncodeString, Flat, Codes, Code
  <1>2. <<Marker>> \in Seq(Byte) /\ <<Escape, EscapedTerm>> \in Seq(Byte)
    BY KeysAssumption DEF Marker, Escape, EscapedTerm, Byte
  <1>3. Flat(s) \in Seq(Byte)
    BY FlatType
  <1>4. <<Marker>> \o Flat(s) \in Seq(Byte)
    BY <1>2, <1>3, ConcatProperties
  <1>5. (<<Marker>> \o Flat(s)) \o <<Escape, EscapedTerm>> \in Seq(Byte)
    BY <1>2, <1>4, ConcatProperties
  <1> QED
    BY <1>1, <1>2, <1>3, <1>5

\* Two strings have different encodings.
LEMMA EncodeStringInjective ==
    ASSUME NEW s \in Seq(Byte), NEW t \in Seq(Byte), EncodeString(s) = EncodeString(t)
    PROVE  s = t
  <1> DEFINE x == <<Marker>> \o Flat(s)
             y == <<Marker>> \o Flat(t)
             z == <<Escape, EscapedTerm>>
  <1>1. /\ EncodeString(s) = x \o z /\ EncodeString(t) = y \o z /\ z \in Seq(Byte)
        /\ <<Marker>> \in Seq(Byte) /\ Flat(s) \in Seq(Byte) /\ Flat(t) \in Seq(Byte)
    BY EncodeStringType
  <1>2. x \in Seq(Byte) /\ y \in Seq(Byte)
    BY <1>1, ConcatProperties
  <1> HIDE DEF z
  <1>3. x = y
    <2> HIDE DEF x, y
    <2> QED
      BY <1>1, <1>2, ConcatSimplifications
  <1>4. Flat(s) = Flat(t)
    BY <1>1, <1>3, ConcatSimplifications
  <1> QED
    BY <1>4, FlatInjective

-----------------------------------------------------------------------------
(* The keys. *)

\* Sequences of one and of two elements.
LEMMA Singleton ==
    ASSUME NEW S, NEW e \in S
    PROVE  <<e>> \in Seq(S) /\ Len(<<e>>) = 1 /\ <<e>>[1] = e
  OBVIOUS

LEMMA Pair ==
    ASSUME NEW S, NEW d \in S, NEW e \in S
    PROVE  /\ <<d, e>> \in Seq(S) /\ Len(<<d, e>>) = 2
           /\ Append(<<>>, e) = <<e>> /\ Append(<<d>>, e) = <<d, e>>
  <1>1. <<>> \in Seq(S) /\ <<e>> \in Seq(S) /\ <<d>> \in Seq(S) /\ <<d, e>> \in Seq(S)
    OBVIOUS
  <1>2. Len(<<>>) = 0 /\ Len(<<e>>) = 1 /\ Len(<<d>>) = 1 /\ Len(<<d, e>>) = 2
    OBVIOUS
  <1>3. Append(<<>>, e) = <<e>>
    <2> DEFINE t == Append(<<>>, e)
    <2>1. t \in Seq(S) /\ Len(t) = 1 /\ t[1] = e
      BY <1>1, <1>2, AppendProperties
    <2>2. \A i \in 1 .. 1 : i = 1
      OBVIOUS
    <2> HIDE DEF t
    <2>3. t = <<e>>
      BY <1>1, <1>2, <2>1, <2>2, SeqEqual
    <2> QED
      BY <2>3 DEF t
  <1>4. Append(<<d>>, e) = <<d, e>>
    <2> DEFINE t == Append(<<d>>, e)
    <2>1. t \in Seq(S) /\ Len(t) = 2 /\ t[1] = d /\ t[2] = e
      BY <1>1, <1>2, AppendProperties
    <2>2. \A i \in 1 .. 2 : i = 1 \/ i = 2
      OBVIOUS
    <2> HIDE DEF t
    <2>3. \A i \in 1 .. 2 : t[i] = <<d, e>>[i]
      BY <2>1, <2>2
    <2>4. t = <<d, e>>
      BY <1>1, <1>2, <2>1, <2>3, SeqEqual
    <2> QED
      BY <2>4 DEF t
  <1> QED
    BY <1>1, <1>2, <1>3, <1>4

\* A key that starts with a prefix: five bytes, the third of which tells the kind.
Prefixed(key, p) ==
    /\ key \in Seq(Byte) /\ Len(key) \in Nat /\ Len(key) >= 5
    /\ key[1] = Marker /\ key[2] = 3 /\ key[3] = p /\ key[4] = Escape /\ key[5] = EscapedTerm

LEMMA PrefixType ==
    ASSUME NEW p \in {1, 2, 3}
    PROVE  LET e == EncodeString(<<3, p>>) IN e \in Seq(Byte) /\ Len(e) = 5 /\ Prefixed(e, p)
  <1>1. 3 \in Byte /\ p \in Byte /\ 3 # Escape /\ p # Escape
    BY KeysAssumption DEF Byte, Escape
  <1>2. <<>> \in Seq(Byte) /\ <<3>> \in Seq(Byte) /\ <<3, p>> \in Seq(Byte) /\ <<p>> \in Seq(Byte)
    BY <1>1
  <1>3. Append(<<>>, 3) = <<3>> /\ Append(<<3>>, p) = <<3, p>>
    BY <1>1, Pair
  <1>4. Code(3) = <<3>> /\ Code(p) = <<p>>
    BY <1>1 DEF Code
  <1>5. Flat(<<3>>) = <<3>>
    <2>1. Flat(Append(<<>>, 3)) = Flat(<<>>) \o Code(3)
      BY <1>1, <1>2, FlatAppend
    <2>2. <<>> \o <<3>> = <<3>>
      BY <1>2, ConcatEmptySeq
    <2> QED
      BY <1>3, <1>4, <2>1, <2>2, FlatEmpty
  <1>6. Flat(<<3, p>>) = <<3>> \o <<p>>
    <2>1. Flat(Append(<<3>>, p)) = Flat(<<3>>) \o Code(p)
      BY <1>1, <1>2, FlatAppend
    <2> QED
      BY <1>3, <1>4, <1>5, <2>1
  <1> DEFINE f == Flat(<<3, p>>)
             m == <<Marker>>
             z == <<Escape, EscapedTerm>>
             e == EncodeString(<<3, p>>)
  <1>7. f \in Seq(Byte) /\ Len(f) = 2 /\ f[1] = 3 /\ f[2] = p
    <2>1. /\ <<3>> \o <<p>> \in Seq(Byte) /\ Len(<<3>> \o <<p>>) = Len(<<3>>) + Len(<<p>>)
          /\ \A i \in Nat : 1 <= i /\ i <= Len(<<3>>) => (<<3>> \o <<p>>)[i] = <<3>>[i]
          /\ \A i \in Nat : 1 <= i /\ i <= Len(<<p>>) => (<<3>> \o <<p>>)[Len(<<3>>) + i] = <<p>>[i]
      BY <1>2, ConcatSecond
    <2>2. Len(<<3>>) = 1 /\ Len(<<p>>) = 1 /\ <<3>>[1] = 3 /\ <<p>>[1] = p
      OBVIOUS
    <2>3. (<<3>> \o <<p>>)[1] = 3 /\ (<<3>> \o <<p>>)[1 + 1] = p
      BY <2>1, <2>2
    <2>4. Len(<<3>> \o <<p>>) = 2
      BY <2>1, <2>2
    <2> QED
      BY <1>6, <2>1, <2>3, <2>4
  <1>8. /\ e = (m \o f) \o z /\ m \in Seq(Byte) /\ z \in Seq(Byte) /\ e \in Seq(Byte)
        /\ Len(m) = 1 /\ Len(z) = 2 /\ m[1] = Marker /\ z[1] = Escape /\ z[2] = EscapedTerm
    BY <1>2, EncodeStringType
  <1> HIDE DEF e, f, m, z
  <1>9. m \o f \in Seq(Byte) /\ Len(m \o f) = 3 /\ (m \o f)[1] = Marker /\ (m \o f)[2] = 3 /\ (m \o f)[3] = p
    <2>0. m \in Seq(Byte) /\ f \in Seq(Byte)
      BY <1>7, <1>8
    <2>1. /\ m \o f \in Seq(Byte) /\ Len(m \o f) = Len(m) + Len(f)
          /\ \A i \in Nat : 1 <= i /\ i <= Len(m) => (m \o f)[i] = m[i]
          /\ \A i \in Nat : 1 <= i /\ i <= Len(f) => (m \o f)[Len(m) + i] = f[i]
      BY <2>0, ConcatSecond
    <2>2. (m \o f)[1] = m[1] /\ (m \o f)[1 + 1] = f[1] /\ (m \o f)[1 + 2] = f[2]
      BY <1>7, <1>8, <2>1
    <2> QED
      BY <1>7, <1>8, <2>1, <2>2
  <1> DEFINE a == m \o f
  <1> HIDE DEF a
  <1>10. e = a \o z /\ a \in Seq(Byte) /\ Len(a) = 3 /\ a[1] = Marker /\ a[2] = 3 /\ a[3] = p
    BY <1>8, <1>9 DEF a
  <1>11. /\ Len(a \o z) = Len(a) + Len(z)
         /\ \A i \in Nat : 1 <= i /\ i <= Len(a) => (a \o z)[i] = a[i]
         /\ \A i \in Nat : 1 <= i /\ i <= Len(z) => (a \o z)[Len(a) + i] = z[i]
    <2>1. a \in Seq(Byte) /\ z \in Seq(Byte)
      BY <1>8, <1>10
    <2> QED
      BY <2>1, ConcatSecond
  <1>12. Len(e) = 5 /\ e[1] = Marker /\ e[2] = 3 /\ e[3] = p
    BY <1>8, <1>10, <1>11
  <1>13. e[3 + 1] = Escape /\ e[3 + 2] = EscapedTerm
    BY <1>8, <1>10, <1>11
  <1>14. 3 + 1 = 4 /\ 3 + 2 = 5 /\ 5 \in Nat /\ 5 >= 5
    OBVIOUS
  <1>15. e[4] = Escape /\ e[5] = EscapedTerm
    BY <1>13, <1>14, Zenon
  <1>16. Prefixed(e, p)
    BY <1>8, <1>12, <1>14, <1>15, Zenon DEF Prefixed
  <1> QED
    BY <1>8, <1>12, <1>16 DEF e

\* A key that starts with such a prefix.
LEMMA PrefixedKey ==
    ASSUME NEW p \in {1, 2, 3}, NEW s \in Seq(Byte)
    PROVE  LET key == EncodeString(<<3, p>>) \o s
           IN  key \in Seq(Byte) /\ key[3] = p /\ Len(key) >= 5 /\ Prefixed(key, p)
  <1> DEFINE e == EncodeString(<<3, p>>)
  <1>1. /\ e \in Seq(Byte) /\ Len(e) = 5
        /\ e[1] = Marker /\ e[2] = 3 /\ e[3] = p /\ e[4] = Escape /\ e[5] = EscapedTerm
    BY PrefixType DEF Prefixed
  <1> HIDE DEF e
  <1>2. /\ e \o s \in Seq(Byte) /\ Len(s) \in Nat /\ Len(e \o s) = Len(e) + Len(s)
        /\ \A i \in Nat : 1 <= i /\ i <= Len(e) => (e \o s)[i] = e[i]
    <2>1. e \in Seq(Byte)
      BY <1>1
    <2> QED
      BY <2>1, ConcatSecond
  <1>3. /\ (e \o s)[1] = Marker /\ (e \o s)[2] = 3 /\ (e \o s)[3] = p
        /\ (e \o s)[4] = Escape /\ (e \o s)[5] = EscapedTerm
    BY <1>1, <1>2
  <1>4. Len(e \o s) >= 5 /\ Len(e \o s) \in Nat
    BY <1>1, <1>2
  <1> QED
    BY <1>2, <1>3, <1>4 DEF e, Prefixed

Heights == 0 .. MaxUint64
TxIndexes == 0 .. MaxUint32

LEMMA WidthFacts ==
    /\ HeightBytes \in Nat /\ IndexBytes \in Nat
    /\ Heights = 0 .. Power[HeightBytes] - 1 /\ TxIndexes = 0 .. Power[IndexBytes] - 1
    /\ Power[HeightBytes] \in Nat \ {0} /\ Power[IndexBytes] \in Nat \ {0}
  BY KeysAssumption, PowerDef DEF Heights, TxIndexes, MaxUint64, MaxUint32

\* What a key of each kind is made of.
LEMMA KeyTypes ==
    ASSUME NEW h \in Heights, NEW i \in TxIndexes, NEW hash \in Seq(Byte)
    PROVE  /\ KeyBlock(h) \in Seq(Byte) /\ KeyBlock(h)[3] = 1 /\ Len(KeyBlock(h)) >= 5
           /\ KeyTx(h, i) \in Seq(Byte) /\ KeyTx(h, i)[3] = 2 /\ Len(KeyTx(h, i)) >= 5
           /\ KeyHashTx(hash) \in Seq(Byte) /\ KeyHashTx(hash)[3] = 3 /\ Len(KeyHashTx(hash)) >= 5
           /\ KeyTx(h, i) = EncodeString(PrefixKeyTxs) \o (EncodeUint(h, HeightBytes) \o EncodeUint(i, IndexBytes))
           /\ Len(KeyLatestHeight) = 1
           /\ Prefixed(KeyBlock(h), 1) /\ Prefixed(KeyTx(h, i), 2) /\ Prefixed(KeyHashTx(hash), 3)
  <1> DEFINE eh == EncodeUint(h, HeightBytes)
             ei == EncodeUint(i, IndexBytes)
  <1>1. eh \in Seq(Byte) /\ ei \in Seq(Byte) /\ EncodeString(hash) \in Seq(Byte)
    <2>1. h \in Nat /\ i \in Nat /\ HeightBytes \in Nat /\ IndexBytes \in Nat
      BY WidthFacts
    <2>2. eh \in Seq(Byte) /\ ei \in Seq(Byte)
      BY <2>1, EncodeUintType
    <2> QED
      BY <2>2, EncodeStringType
  <1>2. eh \o ei \in Seq(Byte)
    BY <1>1, ConcatProperties
  <1>3. KeyTx(h, i) = EncodeString(PrefixKeyTxs) \o (eh \o ei)
    <2>1. EncodeString(<<3, 2>>) \in Seq(Byte)
      BY PrefixType
    <2> DEFINE e == EncodeString(<<3, 2>>)
    <2>2. KeyTx(h, i) = (e \o eh) \o ei
      BY DEF KeyTx, PrefixKeyTxs
    <2> HIDE DEF e, eh, ei
    <2>3. e \in Seq(Byte) /\ eh \in Seq(Byte) /\ ei \in Seq(Byte)
      BY <1>1, <2>1 DEF e
    <2>4. (e \o eh) \o ei = e \o (eh \o ei)
      BY <2>3, ConcatAssociative
    <2> QED
      BY <2>2, <2>4 DEF e, PrefixKeyTxs
  <1> HIDE DEF eh, ei
  <1> DEFINE kb == EncodeString(<<3, 1>>) \o eh
             kt == EncodeString(<<3, 2>>) \o (eh \o ei)
             kh == EncodeString(<<3, 3>>) \o EncodeString(hash)
  <1>4. kb \in Seq(Byte) /\ kb[3] = 1 /\ Len(kb) >= 5 /\ Prefixed(kb, 1)
    <2>1. 1 \in {1, 2, 3}
      OBVIOUS
    <2> QED
      BY <1>1, <2>1, PrefixedKey, Zenon
  <1>5. kt \in Seq(Byte) /\ kt[3] = 2 /\ Len(kt) >= 5 /\ Prefixed(kt, 2)
    <2>1. 2 \in {1, 2, 3}
      OBVIOUS
    <2> QED
      BY <1>2, <2>1, PrefixedKey, Zenon
  <1>6. kh \in Seq(Byte) /\ kh[3] = 3 /\ Len(kh) >= 5 /\ Prefixed(kh, 3)
    <2>1. 3 \in {1, 2, 3}
      OBVIOUS
    <2> QED
      BY <1>1, <2>1, PrefixedKey, Zenon
  <1>7. kb = KeyBlock(h) /\ kt = KeyTx(h, i) /\ kh = KeyHashTx(hash)
    BY <1>3 DEF eh, KeyBlock, KeyHashTx, PrefixKeyBlocks, PrefixKeyTxs, PrefixKeyTxByHash
  <1>8. Len(KeyLatestHeight) = 1
    BY DEF KeyLatestHeight
  <1> HIDE DEF kb, kt, kh
  <1> QED
    BY <1>3, <1>4, <1>5, <1>6, <1>7, <1>8 DEF eh, ei

\* Keys of different kinds differ.
LEMMA KindsAreApart ==
    ASSUME NEW h \in Heights, NEW i \in TxIndexes, NEW hash \in Seq(Byte), NEW n \in Heights
    PROVE  /\ KeyBlock(n) # KeyTx(h, i) /\ KeyBlock(n) # KeyHashTx(hash) /\ KeyBlock(n) # KeyLatestHeight
           /\ KeyTx(h, i) # KeyHashTx(hash) /\ KeyTx(h, i) # KeyLatestHeight
           /\ KeyHashTx(hash) # KeyLatestHeight
  <1>1. KeyBlock(n)[3] = 1 /\ KeyTx(h, i)[3] = 2 /\ KeyHashTx(hash)[3] = 3
    BY KeyTypes
  <1>2. Len(KeyBlock(n)) >= 5 /\ Len(KeyTx(h, i)) >= 5 /\ Len(KeyHashTx(hash)) >= 5 /\ Len(KeyLatestHeight) = 1
    BY KeyTypes
  <1>3. KeyBlock(n) # KeyTx(h, i) /\ KeyBlock(n) # KeyHashTx(hash) /\ KeyTx(h, i) # KeyHashTx(hash)
    BY <1>1
  <1>4. KeyBlock(n) # KeyLatestHeight /\ KeyTx(h, i) # KeyLatestHeight /\ KeyHashTx(hash) # KeyLatestHeight
    <2>1. ~(1 >= 5)
      OBVIOUS
    <2> QED
      BY <1>2, <2>1, Zenon
  <1> QED
    BY <1>3, <1>4

\* Two transactions have different keys.
LEMMA KeyTxInjective ==
    ASSUME NEW h \in Heights, NEW i \in TxIndexes, NEW n \in Heights, NEW j \in TxIndexes,
           KeyTx(h, i) = KeyTx(n, j)
    PROVE  h = n /\ i = j
  <1> DEFINE P == EncodeString(PrefixKeyTxs)
             eh == EncodeUint(h, HeightBytes)
             ei == EncodeUint(i, IndexBytes)
             en == EncodeUint(n, HeightBytes)
             ej == EncodeUint(j, IndexBytes)
  <1>1. /\ eh \in Seq(Byte) /\ ei \in Seq(Byte) /\ en \in Seq(Byte) /\ ej \in Seq(Byte)
        /\ Len(eh) = HeightBytes /\ Len(en) = HeightBytes
    BY WidthFacts, EncodeUintType
  <1>2. P \in Seq(Byte)
    BY PrefixType DEF PrefixKeyTxs
  <1>3. P \o (eh \o ei) = P \o (en \o ej)
    <2>1. \E hash : hash \in Seq(Byte)
      BY EmptySeq
    <2> QED
      BY <2>1, KeyTypes
  <1> HIDE DEF P, eh, ei, en, ej
  <1>4. eh \o ei \in Seq(Byte) /\ en \o ej \in Seq(Byte)
    BY <1>1, ConcatProperties
  <1>5. eh \o ei = en \o ej
    BY <1>2, <1>3, <1>4, ConcatSimplifications
  <1>6. eh \o ei = en \o ej /\ Len(eh) = Len(en) => eh = en /\ ei = ej
    BY <1>1, ConcatSplit
  <1>7. EncodeUint(h, HeightBytes) = EncodeUint(n, HeightBytes) /\ EncodeUint(i, IndexBytes) = EncodeUint(j, IndexBytes)
    BY <1>1, <1>5, <1>6 DEF eh, ei, en, ej
  <1>8. h = n
    BY <1>7, WidthFacts, EncodeUintInjective
  <1>9. i = j
    BY <1>7, WidthFacts, EncodeUintInjective
  <1> QED
    BY <1>8, <1>9

\* Two hashes have different index keys.
LEMMA KeyHashTxInjective ==
    ASSUME NEW s \in Seq(Byte), NEW t \in Seq(Byte), KeyHashTx(s) = KeyHashTx(t)
    PROVE  s = t
  <1> DEFINE P == EncodeString(PrefixKeyTxByHash)
             es == EncodeString(s)
             et == EncodeString(t)
  <1>1. P \in Seq(Byte) /\ es \in Seq(Byte) /\ et \in Seq(Byte)
    BY PrefixType, EncodeStringType DEF PrefixKeyTxByHash
  <1>2. P \o es = P \o et
    BY DEF KeyHashTx
  <1> HIDE DEF P, es, et
  <1>3. es = et
    BY <1>1, <1>2, ConcatSimplifications
  <1> QED
    BY <1>3, EncodeStringInjective DEF es, et

-----------------------------------------------------------------------------
(* The hash index. *)

\* The transactions of the chain, and the key of one.
Txs == UNION {{n} \X DOMAIN Chain[n] : n \in DOMAIN Chain}
TxHash(t) == Chain[t[1]][t[2]]
KeyOf(t) == KeyTx(t[1] - 1, t[2] - 1)

\* What is set under the key of a transaction is that transaction, and what the
\* index holds for a hash is the key of a transaction with that hash, which is set.
Consistent(f) ==
    /\ \A t \in Txs : KeyOf(t) \in DOMAIN f => f[KeyOf(t)] = TxHash(t)
    /\ \A hash \in Hashes : KeyHashTx(hash) \in DOMAIN f =>
           \E t \in Txs : TxHash(t) = hash /\ f[KeyHashTx(hash)] = KeyOf(t) /\ KeyOf(t) \in DOMAIN f

\* A lookup between its two reads.
LookupInv ==
    lookup # NoLookup =>
        \E t \in Txs : TxHash(t) = lookup.hash /\ lookup.key = KeyOf(t) /\ KeyOf(t) \in DOMAIN db

\* A block and its first transactions with their index: all of a block that is
\* saved, and of those that the batch holds the last one as far as the writer is.
Holds(f, n, count) ==
    /\ KeyBlock(n - 1) \in DOMAIN f
    /\ \A i \in DOMAIN Chain[n] : i <= count => KeyHashTx(Chain[n][i]) \in DOMAIN f /\ KeyOf(<<n, i>>) \in DOMAIN f

WriterInv ==
    /\ writer \in [block : 0 .. Len(Chain), tx : Nat, height : BOOLEAN]
    /\ Saved \in 0 .. writer.block
    /\ writer.height =>
           /\ writer.block > 0 /\ ~TxsLeft
           /\ KeyLatestHeight \in DOMAIN batch
           /\ batch[KeyLatestHeight] = EncodeUint(writer.block - 1, HeightBytes)
    /\ \A n \in 1 .. Saved : Holds(db, n, Len(Chain[n]))
    /\ \A n \in Saved + 1 .. writer.block - 1 : Holds(batch, n, Len(Chain[n]))
    /\ writer.block > Saved => Holds(batch, writer.block, writer.tx)

IndexInv == Consistent(db) /\ Consistent(batch) /\ LookupInv /\ WriterInv

\* The chain fits the integers of the keys.
LEMMA ChainType ==
    /\ Len(Chain) \in Nat /\ DOMAIN Chain = 1 .. Len(Chain) /\ 0 .. Len(Chain) \subseteq Heights
    /\ \A n \in DOMAIN Chain :
           /\ Chain[n] \in Seq(Seq(Byte)) /\ DOMAIN Chain[n] = 1 .. Len(Chain[n]) /\ Len(Chain[n]) \in Nat
           /\ 0 .. Len(Chain[n]) \subseteq TxIndexes
           /\ \A i \in DOMAIN Chain[n] : Chain[n][i] \in Seq(Byte)
  <1>1. Chain \in Seq(Seq(Seq(Byte)))
    BY StorageAssumption
  <1>2. Len(Chain) \in Nat /\ DOMAIN Chain = 1 .. Len(Chain) /\ \A n \in DOMAIN Chain : Chain[n] \in Seq(Seq(Byte))
    BY <1>1, LenProperties, ElementOfSeq
  <1>3. Power[HeightBytes] \in Nat \ {0} /\ Power[IndexBytes] \in Nat \ {0}
    BY WidthFacts
  <1>4. Power[HeightBytes] \div 2 \in Nat /\ Power[HeightBytes] \div 2 <= Power[HeightBytes]
    BY <1>3
  <1>5. 0 .. Len(Chain) \subseteq Heights
    BY <1>2, <1>3, <1>4, StorageAssumption DEF Heights, MaxUint64, MaxInt64
  <1>6. ASSUME NEW n \in DOMAIN Chain
        PROVE  /\ Chain[n] \in Seq(Seq(Byte)) /\ DOMAIN Chain[n] = 1 .. Len(Chain[n]) /\ Len(Chain[n]) \in Nat
               /\ 0 .. Len(Chain[n]) \subseteq TxIndexes
               /\ \A i \in DOMAIN Chain[n] : Chain[n][i] \in Seq(Byte)
    <2>1. Chain[n] \in Seq(Seq(Byte))
      BY <1>2
    <2>2. Len(Chain[n]) \in Nat /\ DOMAIN Chain[n] = 1 .. Len(Chain[n])
      BY <2>1, LenProperties
    <2>3. \A i \in 1 .. Len(Chain[n]) : Chain[n][i] \in Seq(Byte)
      BY <2>1, ElementOfSeq
    <2>4. Len(Chain[n]) < MaxUint32
      BY StorageAssumption
    <2>5. 0 .. Len(Chain[n]) \subseteq TxIndexes
      BY <1>3, <2>2, <2>4 DEF TxIndexes, MaxUint32
    <2> QED
      BY <2>1, <2>2, <2>3, <2>5
  <1> QED
    BY <1>2, <1>5, <1>6

LEMMA TxsType ==
    ASSUME NEW n \in DOMAIN Chain, NEW i \in DOMAIN Chain[n]
    PROVE  /\ n - 1 \in Heights /\ i - 1 \in TxIndexes /\ n \in Nat /\ i \in Nat
           /\ <<n, i>> \in Txs /\ TxHash(<<n, i>>) = Chain[n][i] /\ Chain[n][i] \in Seq(Byte)
           /\ KeyOf(<<n, i>>) = KeyTx(n - 1, i - 1)
  <1>1. n - 1 \in 0 .. Len(Chain) /\ i - 1 \in 0 .. Len(Chain[n]) /\ n \in Nat /\ i \in Nat
    BY ChainType
  <1>2. n - 1 \in Heights /\ i - 1 \in TxIndexes /\ Chain[n][i] \in Seq(Byte)
    BY <1>1, ChainType
  <1>3. <<n, i>> \in Txs
    BY DEF Txs
  <1> QED
    BY <1>1, <1>2, <1>3 DEF TxHash, KeyOf

LEMMA TxsElement ==
    ASSUME NEW t \in Txs
    PROVE  \E n \in DOMAIN Chain : \E i \in DOMAIN Chain[n] : t = <<n, i>>
  BY DEF Txs

\* A transaction has a key of its own, which is not one of another kind.
LEMMA KeyOfFacts ==
    ASSUME NEW t \in Txs
    PROVE  /\ TxHash(t) \in Seq(Byte)
           /\ \A u \in Txs : KeyOf(t) = KeyOf(u) => t = u
           /\ \A hash \in Seq(Byte) : KeyOf(t) # KeyHashTx(hash)
           /\ \A h \in Heights : KeyOf(t) # KeyBlock(h)
           /\ KeyOf(t) # KeyLatestHeight
  <1>1. PICK n, i : n \in DOMAIN Chain /\ i \in DOMAIN Chain[n] /\ t = <<n, i>>
    BY TxsElement
  <1>2. /\ n - 1 \in Heights /\ i - 1 \in TxIndexes /\ n \in Nat /\ i \in Nat
        /\ KeyOf(t) = KeyTx(n - 1, i - 1) /\ TxHash(t) \in Seq(Byte)
    BY <1>1, TxsType
  <1>3. ASSUME NEW u \in Txs, KeyOf(t) = KeyOf(u) PROVE t = u
    <2>1. PICK m, j : m \in DOMAIN Chain /\ j \in DOMAIN Chain[m] /\ u = <<m, j>>
      BY TxsElement
    <2>2. m - 1 \in Heights /\ j - 1 \in TxIndexes /\ m \in Nat /\ j \in Nat /\ KeyOf(u) = KeyTx(m - 1, j - 1)
      BY <2>1, TxsType
    <2>3. n - 1 = m - 1 /\ i - 1 = j - 1
      BY <1>2, <1>3, <2>2, KeyTxInjective
    <2>4. n = m /\ i = j
      BY <1>2, <2>2, <2>3
    <2> QED
      BY <1>1, <2>1, <2>4
  <1>4. \A hash \in Seq(Byte) : KeyTx(n - 1, i - 1) # KeyHashTx(hash)
    BY <1>2, KindsAreApart
  <1>5. <<>> \in Seq(Byte)
    BY EmptySeq
  <1>6. \A h \in Heights : KeyBlock(h) # KeyTx(n - 1, i - 1)
    BY <1>2, <1>5, KindsAreApart
  <1>7. KeyTx(n - 1, i - 1) # KeyLatestHeight
    BY <1>2, <1>5, KindsAreApart
  <1> QED
    BY <1>2, <1>3, <1>4, <1>6, <1>7

\* What Over does, key by key.
LEMMA OverAt ==
    ASSUME NEW f, NEW g
    PROVE  /\ DOMAIN Over(f, g) = DOMAIN f \cup DOMAIN g
           /\ \A k \in DOMAIN f : Over(f, g)[k] = f[k]
           /\ \A k \in DOMAIN g : k \notin DOMAIN f => Over(f, g)[k] = g[k]
  BY DEF Over

\* A batch that is applied to the store.
LEMMA OverConsistent ==
    ASSUME NEW f, NEW g, Consistent(f), Consistent(g)
    PROVE  Consistent(Over(f, g))
  <1> DEFINE m == Over(f, g)
  <1>1. /\ DOMAIN m = DOMAIN f \cup DOMAIN g
        /\ \A k \in DOMAIN f : m[k] = f[k]
        /\ \A k \in DOMAIN g : k \notin DOMAIN f => m[k] = g[k]
    BY OverAt
  <1> HIDE DEF m
  <1>2. ASSUME NEW t \in Txs, KeyOf(t) \in DOMAIN m PROVE m[KeyOf(t)] = TxHash(t)
    <2>1. CASE KeyOf(t) \in DOMAIN f
      BY <1>1, <2>1 DEF Consistent
    <2>2. CASE KeyOf(t) \notin DOMAIN f
      BY <1>1, <1>2, <2>2 DEF Consistent
    <2> QED
      BY <2>1, <2>2
  <1>3. ASSUME NEW hash \in Hashes, KeyHashTx(hash) \in DOMAIN m
        PROVE  \E t \in Txs : TxHash(t) = hash /\ m[KeyHashTx(hash)] = KeyOf(t) /\ KeyOf(t) \in DOMAIN m
    <2>1. CASE KeyHashTx(hash) \in DOMAIN f
      BY <1>1, <2>1 DEF Consistent
    <2>2. CASE KeyHashTx(hash) \notin DOMAIN f
      BY <1>1, <1>3, <2>2 DEF Consistent
    <2> QED
      BY <2>1, <2>2
  <1>4. Consistent(m)
    BY <1>2, <1>3 DEF Consistent
  <1> QED
    BY <1>4 DEF m

\* A block or the latest height that is set.
LEMMA PutConsistent ==
    ASSUME NEW f, Consistent(f), NEW key, NEW v,
           \A t \in Txs : KeyOf(t) # key, \A hash \in Hashes : KeyHashTx(hash) # key
    PROVE  Consistent(Put(f, key, v))
  <1> DEFINE m == Put(f, key, v)
  <1>1. DOMAIN m = {key} \cup DOMAIN f /\ \A k \in DOMAIN f : k # key => m[k] = f[k]
    BY DEF Put
  <1> HIDE DEF m
  <1>2. Consistent(m)
    BY <1>1 DEF Consistent
  <1> QED
    BY <1>2 DEF m

\* A transaction that is set with its index entry.
LEMMA EntryConsistent ==
    ASSUME NEW f, Consistent(f), NEW t \in Txs
    PROVE  LET m == Put(Put(f, KeyHashTx(TxHash(t)), KeyOf(t)), KeyOf(t), TxHash(t))
           IN  /\ Consistent(m)
               /\ DOMAIN m = {KeyOf(t), KeyHashTx(TxHash(t))} \cup DOMAIN f
               /\ \A k \in DOMAIN f : k # KeyOf(t) /\ k # KeyHashTx(TxHash(t)) => m[k] = f[k]
  <1> DEFINE key == KeyOf(t)
             index == KeyHashTx(TxHash(t))
             p == Put(f, index, key)
             m == Put(p, key, TxHash(t))
  <1>0. TxHash(t) \in Seq(Byte) /\ key # index
    BY KeyOfFacts
  <1>1. DOMAIN p = {index} \cup DOMAIN f /\ p[index] = key /\ \A k \in DOMAIN f : k # index => p[k] = f[k]
    BY DEF Put
  <1> HIDE DEF p
  <1>2. DOMAIN m = {key} \cup DOMAIN p /\ m[key] = TxHash(t) /\ \A k \in DOMAIN p : k # key => m[k] = p[k]
    BY DEF Put
  <1> HIDE DEF m
  <1>3. /\ DOMAIN m = {key, index} \cup DOMAIN f /\ m[key] = TxHash(t) /\ m[index] = key
        /\ \A k \in DOMAIN f : k # key /\ k # index => m[k] = f[k]
    BY <1>0, <1>1, <1>2
  <1>4. ASSUME NEW u \in Txs, KeyOf(u) \in DOMAIN m PROVE m[KeyOf(u)] = TxHash(u)
    <2>1. KeyOf(u) # index
      BY <1>0, KeyOfFacts
    <2>2. CASE KeyOf(u) = key
      <3>1. u = t
        BY <2>2, KeyOfFacts
      <3> QED
        BY <1>3, <3>1
    <2>3. CASE KeyOf(u) # key
      <3>1. KeyOf(u) \in DOMAIN f /\ m[KeyOf(u)] = f[KeyOf(u)]
        BY <1>3, <1>4, <2>1, <2>3
      <3> QED
        BY <3>1 DEF Consistent
    <2> QED
      BY <2>2, <2>3
  <1>5. ASSUME NEW hash \in Hashes, KeyHashTx(hash) \in DOMAIN m
        PROVE  \E u \in Txs : TxHash(u) = hash /\ m[KeyHashTx(hash)] = KeyOf(u) /\ KeyOf(u) \in DOMAIN m
    <2>1. hash \in Seq(Byte)
      BY StorageAssumption
    <2>2. KeyHashTx(hash) # key
      BY <2>1, KeyOfFacts
    <2>3. CASE KeyHashTx(hash) = index
      <3>1. hash = TxHash(t)
        BY <1>0, <2>1, <2>3, KeyHashTxInjective
      <3> QED
        BY <1>3, <2>3, <3>1
    <2>4. CASE KeyHashTx(hash) # index
      <3>1. KeyHashTx(hash) \in DOMAIN f /\ m[KeyHashTx(hash)] = f[KeyHashTx(hash)]
        BY <1>3, <1>5, <2>2, <2>4
      <3>2. PICK u \in Txs : TxHash(u) = hash /\ f[KeyHashTx(hash)] = KeyOf(u) /\ KeyOf(u) \in DOMAIN f
        BY <3>1 DEF Consistent
      <3> QED
        BY <1>3, <3>1, <3>2
    <2> QED
      BY <2>3, <2>4
  <1>6. Consistent(m)
    BY <1>4, <1>5 DEF Consistent
  <1> QED
    BY <1>3, <1>6 DEF m, p

LEMMA EmptyConsistent ==
    Consistent(Empty) /\ DOMAIN Empty = {}
  BY DEF Consistent, Empty

\* Saved depends on the store alone.
LEMMA SavedUnchanged ==
    ASSUME UNCHANGED db
    PROVE  Saved' = Saved
  BY DEF Saved

LEMMA IndexInit ==
    ASSUME Init
    PROVE  IndexInv
  <1>1. db = Empty /\ batch = Empty /\ lookup = NoLookup /\ writer = [block |-> 0, tx |-> 0, height |-> FALSE]
    BY DEF Init
  <1>2. Saved = 0
    BY <1>1, EmptyConsistent DEF Saved
  <1>3. Len(Chain) \in Nat
    BY ChainType
  <1>4. WriterInv
    BY <1>1, <1>2, <1>3 DEF WriterInv
  <1> QED
    BY <1>1, <1>4, EmptyConsistent DEF IndexInv, LookupInv

\* What the readers leave alone.
LEMMA IndexReaders ==
    ASSUME IndexInv, UNCHANGED <<db, batch, writer>>, LookupInv'
    PROVE  IndexInv'
  <1>1. db' = db /\ batch' = batch /\ writer' = writer /\ Saved' = Saved
    BY SavedUnchanged
  <1>2. WriterInv'
    BY <1>1 DEF IndexInv, WriterInv, TxsLeft, Holds
  <1> QED
    BY <1>1, <1>2 DEF IndexInv, Consistent

LEMMA IndexLookup ==
    ASSUME IndexInv, NEW hash \in Hashes, LookupIndex(hash)
    PROVE  IndexInv'
  <1>1. PICK t \in Txs : TxHash(t) = hash /\ db[KeyHashTx(hash)] = KeyOf(t) /\ KeyOf(t) \in DOMAIN db
    BY DEF IndexInv, Consistent, LookupIndex
  <1>2. lookup' = [hash |-> hash, key |-> KeyOf(t)] /\ db' = db
    BY <1>1 DEF LookupIndex
  <1>3. LookupInv'
    BY <1>1, <1>2 DEF LookupInv
  <1> QED
    BY <1>3, IndexReaders DEF LookupIndex

LEMMA IndexReader ==
    ASSUME IndexInv, Reader
    PROVE  IndexInv'
  <1>1. ASSUME NEW hash \in Hashes, LookupIndex(hash) PROVE IndexInv'
    BY <1>1, IndexLookup
  <1>2. CASE LookupTx
    <2>1. LookupInv'
      BY <1>2 DEF LookupTx, LookupInv, NoLookup
    <2> QED
      BY <1>2, <2>1, IndexReaders DEF LookupTx
  <1>3. CASE UNCHANGED <<db, batch, writer, lookup>>
    <2>1. LookupInv'
      BY <1>3 DEF IndexInv, LookupInv, NoLookup
    <2> QED
      BY <1>3, <2>1, IndexReaders
  <1> QED
    BY <1>1, <1>2, <1>3 DEF Reader, OpenBlocks, OpenTxs, IterNext, CloseIter

\* What the writer sets in the batch, a lookup does not see.
LEMMA LookupWriter ==
    ASSUME LookupInv, UNCHANGED lookup, DOMAIN db \subseteq DOMAIN db'
    PROVE  LookupInv'
  BY DEF LookupInv, NoLookup

LEMMA IndexSetBlock ==
    ASSUME IndexInv, SetBlock
    PROVE  IndexInv'
  <1> DEFINE n == writer.block
  <1>0. /\ n \in 0 .. Len(Chain) /\ n < Len(Chain) /\ ~TxsLeft /\ Len(Chain) \in Nat /\ n + 1 \in DOMAIN Chain
        /\ writer \in [block : 0 .. Len(Chain), tx : Nat, height : BOOLEAN] /\ ~writer.height
        /\ Saved \in 0 .. n
    BY ChainType DEF IndexInv, WriterInv, SetBlock
  <1>1. /\ writer'.block = n + 1 /\ writer'.tx = 0 /\ ~writer'.height
        /\ writer' \in [block : 0 .. Len(Chain), tx : Nat, height : BOOLEAN]
    <2>1. writer' = [writer EXCEPT !.block = n + 1, !.tx = 0]
      BY DEF SetBlock
    <2>2. writer'.block = n + 1 /\ writer'.tx = 0 /\ writer'.height = writer.height
      BY <1>0, <2>1
    <2>3. n + 1 \in 0 .. Len(Chain)
      BY <1>0
    <2>4. writer' \in [block : 0 .. Len(Chain), tx : Nat, height : BOOLEAN]
      BY <1>0, <2>1, <2>3
    <2> QED
      BY <1>0, <2>2, <2>4, Zenon
  <1>2. db' = db /\ lookup' = lookup /\ batch' = Put(batch, KeyBlock(n), n) /\ Saved' = Saved
    BY SavedUnchanged DEF SetBlock
  <1>3. Consistent(batch)' /\ Consistent(db)'
    <2>1. n \in Heights
      BY <1>0, ChainType
    <2>2. \A t \in Txs : KeyOf(t) # KeyBlock(n)
      BY <2>1, KeyOfFacts
    <2>3. 0 \in Heights /\ 0 \in TxIndexes
      BY WidthFacts
    <2>4. \A hash \in Hashes : KeyHashTx(hash) # KeyBlock(n)
      BY <2>1, <2>3, KindsAreApart, StorageAssumption
    <2>5. Consistent(Put(batch, KeyBlock(n), n))
      BY <2>2, <2>4, PutConsistent DEF IndexInv
    <2> QED
      BY <1>2, <2>5 DEF IndexInv, Consistent
  <1>4. LookupInv'
    BY <1>2, LookupWriter DEF IndexInv
  <1>5. DOMAIN batch \subseteq DOMAIN batch'
    BY <1>2 DEF Put
  <1>6. ASSUME NEW k \in Saved + 1 .. n PROVE Holds(batch', k, Len(Chain[k]))
    <2>1. k \in DOMAIN Chain
      BY <1>0, ChainType
    <2>2. Holds(batch, k, Len(Chain[k]))
      <3>1. CASE k < n
        BY <1>0, <3>1 DEF IndexInv, WriterInv
      <3>2. CASE k = n
        <4>1. n > Saved /\ n > 0
          BY <1>0, <3>2
        <4>2. Holds(batch, n, writer.tx)
          BY <4>1 DEF IndexInv, WriterInv
        <4>3. writer.tx \in Nat /\ Len(Chain[n]) \in Nat /\ DOMAIN Chain[n] = 1 .. Len(Chain[n])
          BY <1>0, <2>1, <3>2, ChainType
        <4>4. Len(Chain[n]) <= writer.tx
          BY <1>0, <4>1, <4>3 DEF TxsLeft
        <4>5. \A i \in DOMAIN Chain[n] : i <= writer.tx
          BY <4>3, <4>4
        <4> QED
          BY <3>2, <4>2, <4>5 DEF Holds
      <3> QED
        BY <1>0, <3>1, <3>2
    <2> QED
      BY <1>5, <2>2 DEF Holds
  <1>7. Holds(batch', n + 1, 0)
    <2>1. DOMAIN Chain[n + 1] = 1 .. Len(Chain[n + 1]) /\ Len(Chain[n + 1]) \in Nat
      BY <1>0, ChainType
    <2>2. ~\E i \in DOMAIN Chain[n + 1] : i <= 0
      BY <2>1
    <2>3. KeyBlock((n + 1) - 1) \in DOMAIN batch'
      <3>1. (n + 1) - 1 = n
        BY <1>0
      <3> QED
        BY <1>2, <3>1 DEF Put
    <2> QED
      BY <2>2, <2>3 DEF Holds
  <1>8. WriterInv'
    <2>1. Saved' \in 0 .. writer'.block
      BY <1>0, <1>1, <1>2
    <2>2. \A k \in 1 .. Saved' : Holds(db', k, Len(Chain[k]))
      BY <1>2 DEF IndexInv, WriterInv
    <2>3. \A k \in Saved' + 1 .. writer'.block - 1 : Holds(batch', k, Len(Chain[k]))
      BY <1>0, <1>1, <1>2, <1>6
    <2>4. Holds(batch', writer'.block, writer'.tx)
      BY <1>1, <1>7
    <2> HIDE DEF n
    <2> QED
      BY <1>1, <2>1, <2>2, <2>3, <2>4 DEF WriterInv, Holds
  <1> QED
    BY <1>3, <1>4, <1>8 DEF IndexInv

LEMMA IndexSetTx ==
    ASSUME IndexInv, SetTx
    PROVE  IndexInv'
  <1> DEFINE n == writer.block
             i == writer.tx + 1
             t == <<n, i>>
             index == KeyHashTx(TxHash(t))
  <1>0. /\ n \in 0 .. Len(Chain) /\ n > 0 /\ writer.tx \in Nat /\ writer.tx < Len(Chain[n]) /\ Len(Chain) \in Nat
        /\ writer \in [block : 0 .. Len(Chain), tx : Nat, height : BOOLEAN] /\ TxsLeft
        /\ Saved \in 0 .. n
    BY ChainType DEF IndexInv, WriterInv, SetTx, TxsLeft
  <1>1. ~writer.height
    BY <1>0 DEF IndexInv, WriterInv
  <1>2. n \in DOMAIN Chain /\ i \in DOMAIN Chain[n]
    BY <1>0, ChainType
  <1>3. t \in Txs /\ TxHash(t) = Chain[n][i] /\ KeyOf(t) = KeyTx(n - 1, i - 1) /\ i - 1 = writer.tx
    BY <1>0, <1>2, TxsType
  <1>4. db' = db /\ lookup' = lookup /\ Saved' = Saved
    BY SavedUnchanged DEF SetTx
  <1>5. batch' = Put(Put(batch, KeyHashTx(TxHash(t)), KeyOf(t)), KeyOf(t), TxHash(t))
    BY <1>3 DEF SetTx
  <1>6. /\ writer'.block = n /\ writer'.tx = i /\ ~writer'.height
        /\ writer' \in [block : 0 .. Len(Chain), tx : Nat, height : BOOLEAN]
    <2>1. writer' = [writer EXCEPT !.tx = i]
      BY DEF SetTx
    <2>2. writer'.block = n /\ writer'.tx = i /\ writer'.height = writer.height
      BY <1>0, <2>1
    <2>3. writer' \in [block : 0 .. Len(Chain), tx : Nat, height : BOOLEAN]
      BY <1>0, <2>1
    <2> QED
      BY <1>1, <2>2, <2>3, Zenon
  <1> HIDE DEF t
  <1>7. /\ Consistent(Put(Put(batch, KeyHashTx(TxHash(t)), KeyOf(t)), KeyOf(t), TxHash(t)))
        /\ DOMAIN Put(Put(batch, KeyHashTx(TxHash(t)), KeyOf(t)), KeyOf(t), TxHash(t))
               = {KeyOf(t), KeyHashTx(TxHash(t))} \cup DOMAIN batch
    BY <1>3, EntryConsistent DEF IndexInv
  <1>8. DOMAIN batch \subseteq DOMAIN batch' /\ index \in DOMAIN batch' /\ KeyOf(t) \in DOMAIN batch'
    BY <1>5, <1>7
  <1>9. Consistent(batch)' /\ Consistent(db)'
    BY <1>4, <1>5, <1>7 DEF IndexInv, Consistent
  <1>10. LookupInv'
    BY <1>4, LookupWriter DEF IndexInv
  <1>11. ASSUME n > Saved PROVE Holds(batch', n, i)
    <2>1. Holds(batch, n, writer.tx)
      BY <1>11 DEF IndexInv, WriterInv
    <2>2. DOMAIN Chain[n] = 1 .. Len(Chain[n]) /\ Len(Chain[n]) \in Nat
      BY <1>2, ChainType
    <2>3. ASSUME NEW j \in DOMAIN Chain[n], j <= i
          PROVE  KeyHashTx(Chain[n][j]) \in DOMAIN batch' /\ KeyOf(<<n, j>>) \in DOMAIN batch'
      <3>1. CASE j = i
        <4>1. <<n, j>> = t
          BY <3>1 DEF t
        <4> QED
          BY <1>3, <1>8, <3>1, <4>1
      <3>2. CASE j <= writer.tx
        BY <1>8, <2>1, <3>2 DEF Holds
      <3> QED
        BY <1>0, <2>2, <2>3, <3>1, <3>2
    <2>4. KeyBlock(n - 1) \in DOMAIN batch'
      BY <1>8, <2>1 DEF Holds
    <2> QED
      BY <2>3, <2>4 DEF Holds
  <1>12. WriterInv'
    <2>1. Saved' \in 0 .. writer'.block
      BY <1>0, <1>4, <1>6
    <2>2. \A k \in 1 .. Saved' : Holds(db', k, Len(Chain[k]))
      BY <1>4 DEF IndexInv, WriterInv
    <2>3. \A k \in Saved' + 1 .. writer'.block - 1 : Holds(batch', k, Len(Chain[k]))
      BY <1>4, <1>6, <1>8 DEF IndexInv, WriterInv, Holds
    <2>4. writer'.block > Saved' => Holds(batch', writer'.block, writer'.tx)
      BY <1>4, <1>6, <1>11
    <2> HIDE DEF n, i
    <2> QED
      BY <1>6, <2>1, <2>2, <2>3, <2>4 DEF WriterInv, Holds
  <1> QED
    BY <1>9, <1>10, <1>12 DEF IndexInv

LEMMA IndexSetLatestHeight ==
    ASSUME IndexInv, SetLatestHeight
    PROVE  IndexInv'
  <1> DEFINE n == writer.block
             v == EncodeUint(n - 1, HeightBytes)
  <1>0. /\ n \in 0 .. Len(Chain) /\ Len(Chain) \in Nat /\ Saved \in 0 .. n /\ n > Saved /\ ~TxsLeft
        /\ writer \in [block : 0 .. Len(Chain), tx : Nat, height : BOOLEAN]
    BY ChainType DEF IndexInv, WriterInv, SetLatestHeight
  <1>1. db' = db /\ lookup' = lookup /\ Saved' = Saved /\ batch' = Put(batch, KeyLatestHeight, v)
    BY SavedUnchanged DEF SetLatestHeight
  <1>2. /\ writer'.block = n /\ writer'.tx = writer.tx /\ writer'.height
        /\ writer' \in [block : 0 .. Len(Chain), tx : Nat, height : BOOLEAN]
    <2>1. writer' = [writer EXCEPT !.height = TRUE]
      BY DEF SetLatestHeight
    <2> QED
      BY <1>0, <2>1
  <1>3. Consistent(batch)' /\ Consistent(db)'
    <2>1. \A t \in Txs : KeyOf(t) # KeyLatestHeight
      BY KeyOfFacts
    <2>2. 0 \in Heights /\ 0 \in TxIndexes
      BY WidthFacts
    <2>3. \A hash \in Hashes : KeyHashTx(hash) # KeyLatestHeight
      BY <2>2, KindsAreApart, StorageAssumption
    <2> HIDE DEF v
    <2>4. Consistent(Put(batch, KeyLatestHeight, v))
      BY <2>1, <2>3, PutConsistent DEF IndexInv
    <2> QED
      BY <1>1, <2>4 DEF IndexInv, Consistent
  <1>4. LookupInv'
    BY <1>1, LookupWriter DEF IndexInv
  <1>5. DOMAIN batch \subseteq DOMAIN batch' /\ KeyLatestHeight \in DOMAIN batch' /\ batch'[KeyLatestHeight] = v
    BY <1>1 DEF Put
  <1>6. ~TxsLeft'
    BY <1>0, <1>2 DEF TxsLeft
  <1>7. WriterInv'
    <2>1. Saved' \in 0 .. writer'.block /\ writer'.block > 0
      BY <1>0, <1>1, <1>2
    <2>2. \A k \in 1 .. Saved' : Holds(db', k, Len(Chain[k]))
      BY <1>1 DEF IndexInv, WriterInv
    <2>3. \A k \in Saved' + 1 .. writer'.block - 1 : Holds(batch', k, Len(Chain[k]))
      BY <1>1, <1>2, <1>5 DEF IndexInv, WriterInv, Holds
    <2>4. Holds(batch', writer'.block, writer'.tx)
      BY <1>0, <1>2, <1>5 DEF IndexInv, WriterInv, Holds
    <2>5. batch'[KeyLatestHeight] = EncodeUint(writer'.block - 1, HeightBytes)
      BY <1>2, <1>5
    <2> HIDE DEF n, v
    <2> QED
      BY <1>2, <1>5, <1>6, <2>1, <2>2, <2>3, <2>4, <2>5 DEF WriterInv, Holds
  <1> QED
    BY <1>3, <1>4, <1>7 DEF IndexInv

\* A commit saves what the writer has written.
LEMMA CommitSaves ==
    ASSUME IndexInv, Commit
    PROVE  Saved' = writer.block
  <1> DEFINE n == writer.block
  <1>0. /\ n \in 0 .. Len(Chain) /\ Len(Chain) \in Nat /\ n > 0
        /\ KeyLatestHeight \in DOMAIN batch /\ batch[KeyLatestHeight] = EncodeUint(n - 1, HeightBytes)
    BY ChainType DEF IndexInv, WriterInv, Commit
  <1>1. db' = Over(batch, db)
    BY DEF Commit
  <1>2. KeyLatestHeight \in DOMAIN db' /\ db'[KeyLatestHeight] = EncodeUint(n - 1, HeightBytes)
    BY <1>0, <1>1 DEF Over
  <1>3. n - 1 \in Heights
    <2>1. n - 1 \in 0 .. Len(Chain)
      BY <1>0
    <2> QED
      BY <2>1, ChainType
  <1>4. DecodeUint(EncodeUint(n - 1, HeightBytes)) = n - 1
    BY <1>3, WidthFacts, DecodeEncode
  <1>5. Saved' = DecodeUint(db'[KeyLatestHeight]) + 1
    BY <1>2 DEF Saved
  <1> QED
    BY <1>0, <1>2, <1>4, <1>5

LEMMA IndexCommit ==
    ASSUME IndexInv, Commit
    PROVE  IndexInv'
  <1> DEFINE n == writer.block
  <1>0. /\ n \in 0 .. Len(Chain) /\ Len(Chain) \in Nat /\ Saved \in 0 .. n /\ n > 0 /\ ~TxsLeft
        /\ writer \in [block : 0 .. Len(Chain), tx : Nat, height : BOOLEAN]
        /\ KeyLatestHeight \in DOMAIN batch /\ batch[KeyLatestHeight] = EncodeUint(n - 1, HeightBytes)
    BY ChainType DEF IndexInv, WriterInv, Commit
  <1>1. db' = Over(batch, db) /\ batch' = Empty /\ lookup' = lookup
    BY DEF Commit
  <1>2. /\ writer'.block = n /\ writer'.tx = writer.tx /\ ~writer'.height
        /\ writer' \in [block : 0 .. Len(Chain), tx : Nat, height : BOOLEAN]
    <2>1. writer' = [writer EXCEPT !.height = FALSE]
      BY DEF Commit
    <2> QED
      BY <1>0, <2>1
  <1>3. Consistent(batch)' /\ Consistent(db)'
    <2>1. Consistent(Over(batch, db)) /\ Consistent(Empty)
      BY OverConsistent, EmptyConsistent DEF IndexInv
    <2> QED
      BY <1>1, <2>1 DEF Consistent
  <1>4. DOMAIN db' = DOMAIN batch \cup DOMAIN db /\ db'[KeyLatestHeight] = EncodeUint(n - 1, HeightBytes)
    BY <1>0, <1>1 DEF Over
  <1>5. LookupInv'
    BY <1>1, <1>4, LookupWriter DEF IndexInv
  <1>6. Saved' = n
    BY CommitSaves
  <1>7. ASSUME NEW k \in 1 .. n PROVE Holds(db', k, Len(Chain[k]))
    <2>1. CASE k <= Saved
      <3>1. Holds(db, k, Len(Chain[k]))
        BY <1>0, <2>1 DEF IndexInv, WriterInv
      <3> QED
        BY <1>4, <3>1 DEF Holds
    <2>2. CASE k > Saved /\ k < n
      <3>1. Holds(batch, k, Len(Chain[k]))
        BY <1>0, <2>2 DEF IndexInv, WriterInv
      <3> QED
        BY <1>4, <3>1 DEF Holds
    <2>3. CASE k > Saved /\ k = n
      <3>1. Holds(batch, n, writer.tx)
        BY <2>3 DEF IndexInv, WriterInv
      <3>2. k \in DOMAIN Chain
        BY <1>0, ChainType
      <3>3. writer.tx \in Nat /\ Len(Chain[n]) \in Nat /\ DOMAIN Chain[n] = 1 .. Len(Chain[n])
        BY <1>0, <2>3, <3>2, ChainType
      <3>4. Len(Chain[n]) <= writer.tx
        BY <1>0, <3>3 DEF TxsLeft
      <3>5. \A i \in DOMAIN Chain[n] : i <= writer.tx
        BY <3>3, <3>4
      <3> QED
        BY <1>4, <2>3, <3>1, <3>5 DEF Holds
    <2> QED
      BY <1>0, <2>1, <2>2, <2>3
  <1>8. WriterInv'
    <2>1. Saved' \in 0 .. writer'.block /\ ~(writer'.block > Saved')
      BY <1>0, <1>2, <1>6
    <2>2. \A k \in 1 .. Saved' : Holds(db', k, Len(Chain[k]))
      BY <1>6, <1>7
    <2>3. Saved' + 1 .. writer'.block - 1 = {}
      BY <1>0, <1>2, <1>6
    <2> HIDE DEF n
    <2> QED
      BY <1>2, <2>1, <2>2, <2>3 DEF WriterInv, Holds
  <1> QED
    BY <1>3, <1>5, <1>8 DEF IndexInv

LEMMA IndexRollback ==
    ASSUME IndexInv, Rollback
    PROVE  IndexInv'
  <1>0. Saved \in 0 .. Len(Chain) /\ Len(Chain) \in Nat
    BY ChainType DEF IndexInv, WriterInv
  <1>1. db' = db /\ batch' = Empty /\ lookup' = lookup /\ Saved' = Saved
    BY SavedUnchanged DEF Rollback
  <1>2. /\ writer'.block = Saved /\ ~writer'.height
        /\ writer' \in [block : 0 .. Len(Chain), tx : Nat, height : BOOLEAN]
    <2> DEFINE x == IF Saved = 0 THEN 0 ELSE Len(Chain[Saved])
    <2>1. x \in Nat
      <3>1. Saved # 0 => Saved \in DOMAIN Chain
        BY <1>0, ChainType
      <3> QED
        BY <3>1, ChainType
    <2>2. writer' = [block |-> Saved, tx |-> x, height |-> FALSE]
      BY DEF Rollback
    <2> HIDE DEF x
    <2> QED
      BY <1>0, <2>1, <2>2
  <1>3. Consistent(batch)' /\ Consistent(db)'
    BY <1>1, EmptyConsistent DEF IndexInv, Consistent
  <1>4. LookupInv'
    BY <1>1, LookupWriter DEF IndexInv
  <1>5. WriterInv'
    <2>1. Saved' \in 0 .. writer'.block /\ ~(writer'.block > Saved') /\ Saved' + 1 .. writer'.block - 1 = {}
      BY <1>0, <1>1, <1>2
    <2>2. \A k \in 1 .. Saved' : Holds(db', k, Len(Chain[k]))
      BY <1>1 DEF IndexInv, WriterInv
    <2> QED
      BY <1>2, <2>1, <2>2 DEF WriterInv, Holds
  <1> QED
    BY <1>3, <1>4, <1>5 DEF IndexInv

LEMMA IndexImplies ==
    ASSUME IndexInv
    PROVE  IndexPointsToTx
  <1>1. ASSUME NEW hash \in Hashes, KeyHashTx(hash) \in DOMAIN db
        PROVE  db[KeyHashTx(hash)] \in DOMAIN db /\ db[db[KeyHashTx(hash)]] = hash
    BY <1>1 DEF IndexInv, Consistent
  <1>2. ASSUME lookup # NoLookup PROVE lookup.key \in DOMAIN db /\ db[lookup.key] = lookup.hash
    BY <1>2 DEF IndexInv, Consistent, LookupInv
  <1>3. ASSUME NEW n \in 1 .. Saved, NEW i \in DOMAIN Chain[n] PROVE KeyHashTx(Chain[n][i]) \in DOMAIN db
    <2>1. Holds(db, n, Len(Chain[n]))
      BY DEF IndexInv, WriterInv
    <2>2. n \in DOMAIN Chain
      BY ChainType DEF IndexInv, WriterInv
    <2>3. i <= Len(Chain[n])
      BY <2>2, ChainType
    <2> QED
      BY <2>1, <2>3 DEF Holds
  <1> QED
    BY <1>1, <1>2, <1>3 DEF IndexPointsToTx

LEMMA IndexStep ==
    ASSUME IndexInv, [Next]_vars
    PROVE  IndexInv'
  <1>1. CASE Reader
    BY <1>1, IndexReader
  <1>2. CASE SetBlock
    BY <1>2, IndexSetBlock
  <1>3. CASE SetTx
    BY <1>3, IndexSetTx
  <1>4. CASE SetLatestHeight
    BY <1>4, IndexSetLatestHeight
  <1>5. CASE Commit
    BY <1>5, IndexCommit
  <1>6. CASE Rollback
    BY <1>6, IndexRollback
  <1>7. CASE UNCHANGED vars
    <2>1. UNCHANGED <<db, batch, writer>> /\ UNCHANGED lookup
      BY <1>7 DEF vars
    <2>2. LookupInv'
      BY <2>1, LookupWriter DEF IndexInv
    <2> QED
      BY <2>1, <2>2, IndexReaders
  <1> QED
    BY <1>1, <1>2, <1>3, <1>4, <1>5, <1>6, <1>7 DEF Next, Writer

\* GetTxByHash never meets a dangling index entry: an entry of the hash index
\* that is visible points to a transaction that is visible and has that hash,
\* also between the two reads of a lookup and after any crash or rollback, and
\* every transaction of a saved block has an entry - for every chain and any
\* width of the integers in the keys.
THEOREM IndexNeverDangles == Spec => []IndexPointsToTx
  <1>1. Init => IndexInv
    BY IndexInit
  <1>2. IndexInv /\ [Next]_vars => IndexInv'
    BY IndexStep
  <1>3. IndexInv => IndexPointsToTx
    BY IndexImplies
  <1> QED
    BY <1>1, <1>2, <1>3, PTL DEF Spec

\* The order of two byte strings, by the first byte in which they differ.
LEMMA LexLessAt ==
    ASSUME NEW a \in Seq(Byte), NEW b \in Seq(Byte)
    PROVE  LexLess(a, b) <=>
               \E n \in Nat : /\ n < Len(b) /\ n <= Len(a)
                              /\ \A i \in 1 .. n : a[i] = b[i]
                              /\ n < Len(a) => a[n + 1] < b[n + 1]
  <1>1. Len(a) \in Nat /\ Len(b) \in Nat
    BY LenProperties
  <1>2. ASSUME NEW n \in Nat, n <= Len(a), n <= Len(b)
        PROVE  SubSeq(a, 1, n) = SubSeq(b, 1, n) <=> \A i \in 1 .. n : a[i] = b[i]
    <2>1. /\ SubSeq(a, 1, n) \in Seq(Byte) /\ Len(SubSeq(a, 1, n)) = n
          /\ \A i \in 1 .. n : SubSeq(a, 1, n)[i] = a[i]
      BY <1>1, <1>2, SubSeqProperties
    <2>2. /\ SubSeq(b, 1, n) \in Seq(Byte) /\ Len(SubSeq(b, 1, n)) = n
          /\ \A i \in 1 .. n : SubSeq(b, 1, n)[i] = b[i]
      BY <1>1, <1>2, SubSeqProperties
    <2> DEFINE s == SubSeq(a, 1, n)
               t == SubSeq(b, 1, n)
    <2> HIDE DEF s, t
    <2>3. /\ s \in Seq(Byte) /\ Len(s) = n /\ t \in Seq(Byte) /\ Len(t) = n
          /\ \A i \in 1 .. n : s[i] = a[i] /\ t[i] = b[i]
      BY <2>1, <2>2 DEF s, t
    <2>4. (\A i \in 1 .. n : a[i] = b[i]) => s = t
      BY <2>3, SeqEqual
    <2>5. s = t => \A i \in 1 .. n : a[i] = b[i]
      BY <2>3
    <2> QED
      BY <2>4, <2>5 DEF s, t
  <1>3. 0 .. Len(b) - 1 = {n \in Nat : n < Len(b)}
    BY <1>1
  <1>4. \A n \in Nat : n < Len(b) => n <= Len(b)
    BY <1>1
  <1> QED
    BY <1>2, <1>3, <1>4 DEF LexLess

\* It is irreflexive and asymmetric.
LEMMA LexStrict ==
    ASSUME NEW a \in Seq(Byte), NEW b \in Seq(Byte)
    PROVE  ~LexLess(a, a) /\ ~(LexLess(a, b) /\ LexLess(b, a))
  <1>1. Len(a) \in Nat /\ Len(b) \in Nat
    BY LenProperties
  <1>2. (\A i \in 1 .. Len(a) : a[i] \in Int) /\ (\A i \in 1 .. Len(b) : b[i] \in Int)
    BY ElementOfSeq, KeysAssumption DEF Byte
  <1>3. ~LexLess(a, a)
    <2> SUFFICES ASSUME LexLess(a, a) PROVE FALSE
      OBVIOUS
    <2>1. PICK n \in Nat : n < Len(a) /\ a[n + 1] < a[n + 1]
      BY LexLessAt
    <2> QED
      BY <1>1, <1>2, <2>1, SMTT(20)
  <1>4. ASSUME LexLess(a, b), LexLess(b, a) PROVE FALSE
    <2>1. PICK n \in Nat : n < Len(b) /\ n <= Len(a) /\ (\A i \in 1 .. n : a[i] = b[i]) /\ (n < Len(a) => a[n + 1] < b[n + 1])
      BY <1>4, LexLessAt
    <2>2. PICK m \in Nat : m < Len(a) /\ m <= Len(b) /\ (\A i \in 1 .. m : b[i] = a[i]) /\ (m < Len(b) => b[m + 1] < a[m + 1])
      BY <1>4, LexLessAt
    <2>3. CASE n < m
      <3>1. n + 1 \in 1 .. m /\ n + 1 \in 1 .. Len(a) /\ n < Len(a) /\ n + 1 \in 1 .. Len(b)
        BY <1>1, <2>1, <2>2, <2>3
      <3> QED
        BY <1>2, <2>1, <2>2, <3>1
    <2>4. CASE m < n
      <3>1. m + 1 \in 1 .. n /\ m + 1 \in 1 .. Len(a) /\ m < Len(b) /\ m + 1 \in 1 .. Len(b)
        BY <1>1, <2>1, <2>2, <2>4
      <3> QED
        BY <1>2, <2>1, <2>2, <3>1
    <2>5. CASE m = n
      <3>1. n + 1 \in 1 .. Len(a) /\ n + 1 \in 1 .. Len(b) /\ n < Len(a) /\ n < Len(b)
        BY <1>1, <2>1, <2>2, <2>5
      <3> QED
        BY <1>2, <2>1, <2>2, <2>5, <3>1
    <2> QED
      BY <2>3, <2>4, <2>5
  <1> QED
    BY <1>3, <1>4

\* The order of two concatenations, when the first parts are as long.
LEMMA LexConcat ==
    ASSUME NEW a \in Seq(Byte), NEW b \in Seq(Byte), NEW c \in Seq(Byte), NEW d \in Seq(Byte)
    PROVE  Len(a) = Len(b) => (LexLess(a \o c, b \o d) <=> LexLess(a, b) \/ (a = b /\ LexLess(c, d)))
  <1> DEFINE x == a \o c
             y == b \o d
             l == Len(a)
  <1>1. /\ x \in Seq(Byte) /\ l \in Nat /\ Len(c) \in Nat /\ Len(x) = l + Len(c)
        /\ \A i \in Nat : 1 <= i /\ i <= l => x[i] = a[i]
        /\ \A i \in Nat : 1 <= i /\ i <= Len(c) => x[l + i] = c[i]
    BY ConcatSecond
  <1>0. /\ y \in Seq(Byte) /\ Len(b) \in Nat /\ Len(d) \in Nat /\ Len(y) = Len(b) + Len(d)
        /\ \A i \in Nat : 1 <= i /\ i <= Len(b) => y[i] = b[i]
        /\ \A i \in Nat : 1 <= i /\ i <= Len(d) => y[Len(b) + i] = d[i]
    BY ConcatSecond
  <1> SUFFICES ASSUME Len(b) = l
               PROVE  LexLess(x, y) <=> LexLess(a, b) \/ (a = b /\ LexLess(c, d))
    OBVIOUS
  <1> HIDE DEF x, y, l
  <1>2. /\ y \in Seq(Byte) /\ Len(b) = l /\ Len(d) \in Nat /\ Len(y) = l + Len(d)
        /\ \A i \in Nat : 1 <= i /\ i <= l => y[i] = b[i]
        /\ \A i \in Nat : 1 <= i /\ i <= Len(d) => y[l + i] = d[i]
    BY <1>0
  <1>3. LexLess(x, y) <=>
            \E n \in Nat : /\ n < Len(y) /\ n <= Len(x) /\ (\A i \in 1 .. n : x[i] = y[i])
                           /\ n < Len(x) => x[n + 1] < y[n + 1]
    BY <1>1, <1>2, LexLessAt
  <1>4. LexLess(a, b) <=>
            \E n \in Nat : n < l /\ (\A i \in 1 .. n : a[i] = b[i]) /\ a[n + 1] < b[n + 1]
    <2>1. LexLess(a, b) <=>
            \E n \in Nat : n < Len(b) /\ n <= Len(a) /\ (\A i \in 1 .. n : a[i] = b[i]) /\ (n < Len(a) => a[n + 1] < b[n + 1])
      BY LexLessAt
    <2> QED
      BY <1>1, <1>2, <2>1 DEF l
  <1>5. LexLess(c, d) <=>
            \E n \in Nat : /\ n < Len(d) /\ n <= Len(c) /\ (\A i \in 1 .. n : c[i] = d[i])
                           /\ n < Len(c) => c[n + 1] < d[n + 1]
    BY LexLessAt
  <1>6. ASSUME LexLess(x, y) PROVE LexLess(a, b) \/ (a = b /\ LexLess(c, d))
    <2>1. PICK n \in Nat : /\ n < Len(y) /\ n <= Len(x) /\ (\A i \in 1 .. n : x[i] = y[i])
                           /\ n < Len(x) => x[n + 1] < y[n + 1]
      BY <1>3, <1>6
    <2>2. CASE n < l
      <3>1. \A i \in 1 .. n : a[i] = b[i]
        BY <1>1, <1>2, <2>1, <2>2
      <3>2. x[n + 1] = a[n + 1] /\ y[n + 1] = b[n + 1] /\ n < Len(x)
        BY <1>1, <1>2, <2>2
      <3> QED
        BY <1>4, <2>1, <2>2, <3>1, <3>2
    <2>3. CASE l <= n
      <3>1. \A i \in 1 .. l : a[i] = b[i]
        BY <1>1, <1>2, <2>1, <2>3
      <3>2. a = b
        BY <1>1, <1>2, <3>1, SeqEqual DEF l
      <3>3. PICK m \in Nat : n = l + m
        <4>1. n - l \in Nat /\ n = l + (n - l)
          BY <1>1, <2>3
        <4> QED
          BY <4>1
      <3>4. m < Len(d) /\ m <= Len(c)
        BY <1>1, <1>2, <2>1, <3>3
      <3>5. ASSUME NEW i \in 1 .. m PROVE c[i] = d[i]
        <4>1. l + i \in 1 .. n /\ i \in Nat /\ 1 <= i /\ i <= Len(c) /\ i <= Len(d)
          BY <1>1, <1>2, <3>3, <3>4
        <4> QED
          BY <1>1, <1>2, <2>1, <4>1
      <3>6. ASSUME m < Len(c) PROVE c[m + 1] < d[m + 1]
        <4>1. n + 1 = l + (m + 1) /\ n < Len(x) /\ m + 1 \in Nat /\ 1 <= m + 1 /\ m + 1 <= Len(c) /\ m + 1 <= Len(d)
          BY <1>1, <1>2, <3>3, <3>4, <3>6
        <4>2. x[n + 1] = c[m + 1] /\ y[n + 1] = d[m + 1]
          BY <1>1, <1>2, <4>1
        <4> QED
          BY <2>1, <4>1, <4>2
      <3> QED
        BY <1>5, <3>2, <3>4, <3>5, <3>6
    <2> QED
      BY <1>1, <2>2, <2>3
  <1>7. ASSUME LexLess(a, b) PROVE LexLess(x, y)
    <2>1. PICK n \in Nat : n < l /\ (\A i \in 1 .. n : a[i] = b[i]) /\ a[n + 1] < b[n + 1]
      BY <1>4, <1>7
    <2>2. \A i \in 1 .. n : x[i] = y[i]
      BY <1>1, <1>2, <2>1
    <2>3. x[n + 1] = a[n + 1] /\ y[n + 1] = b[n + 1] /\ n < Len(x) /\ n < Len(y) /\ n <= Len(x)
      BY <1>1, <1>2, <2>1
    <2> QED
      BY <1>3, <2>1, <2>2, <2>3
  <1>8. ASSUME a = b, LexLess(c, d) PROVE LexLess(x, y)
    <2>1. PICK m \in Nat : /\ m < Len(d) /\ m <= Len(c) /\ (\A i \in 1 .. m : c[i] = d[i])
                           /\ m < Len(c) => c[m + 1] < d[m + 1]
      BY <1>5, <1>8
    <2> DEFINE n == l + m
    <2>2. n \in Nat /\ n < Len(y) /\ n <= Len(x)
      BY <1>1, <1>2, <2>1
    <2>3. ASSUME NEW i \in 1 .. n PROVE x[i] = y[i]
      <3>1. CASE i <= l
        BY <1>1, <1>2, <1>8, <3>1
      <3>2. CASE i > l
        <4>1. PICK j \in Nat : i = l + j /\ 1 <= j /\ j <= m
          <5>1. i - l \in Nat /\ i = l + (i - l) /\ 1 <= i - l /\ i - l <= m
            BY <1>1, <3>2
          <5> QED
            BY <5>1
        <4>2. j <= Len(c) /\ j <= Len(d) /\ c[j] = d[j]
          BY <1>1, <1>2, <2>1, <4>1
        <4> QED
          BY <1>1, <1>2, <4>1, <4>2
      <3> QED
        BY <1>1, <3>1, <3>2
    <2>4. ASSUME n < Len(x) PROVE x[n + 1] < y[n + 1]
      <3>1. n + 1 = l + (m + 1) /\ m < Len(c) /\ m + 1 \in Nat /\ 1 <= m + 1 /\ m + 1 <= Len(c) /\ m + 1 <= Len(d)
        BY <1>1, <1>2, <2>1, <2>4
      <3>2. x[n + 1] = c[m + 1] /\ y[n + 1] = d[m + 1]
        BY <1>1, <1>2, <3>1, SMTT(20)
      <3> QED
        BY <2>1, <3>1, <3>2
    <2> HIDE DEF n
    <2> QED
      BY <1>3, <2>2, <2>3, <2>4
  <1> QED
    BY <1>6, <1>7, <1>8

\* The quotients of two integers are in their order.
LEMMA DivisionMonotone ==
    ASSUME NEW u \in Nat, NEW v \in Nat, NEW p \in Nat \ {0}
    PROVE  u <= v => u \div p <= v \div p
  <1> SUFFICES ASSUME u <= v PROVE u \div p <= v \div p
    OBVIOUS
  <1> DEFINE q == u \div p
             r == v \div p
  <1>1. q \in Nat /\ u % p \in 0 .. p - 1 /\ u = p * q + (u % p)
    BY Division
  <1>2. r \in Nat /\ v % p \in 0 .. p - 1 /\ v = p * r + (v % p)
    BY Division
  <1> HIDE DEF q, r
  <1>3. ASSUME r < q PROVE FALSE
    <2>1. PICK d \in Nat : q = r + 1 + d
      <3>1. q - r - 1 \in Nat /\ q = r + 1 + (q - r - 1)
        BY <1>1, <1>2, <1>3
      <3> QED
        BY <3>1
    <2>2. p * q = p * r + p + p * d /\ p * d \in Nat /\ p * r \in Nat /\ p * q \in Nat
      BY <1>1, <1>2, <2>1
    <2> QED
      BY <1>1, <1>2, <2>2
  <1> QED
    BY <1>1, <1>2, <1>3 DEF q, r

\* The bytes of two integers that fit are in their order.
LEMMA EncodeUintLess ==
    ASSUME NEW w \in Nat, NEW u \in 0 .. Power[w] - 1, NEW v \in 0 .. Power[w] - 1, u < v
    PROVE  LexLess(EncodeUint(u, w), EncodeUint(v, w))
  <1> DEFINE a == EncodeUint(u, w)
             b == EncodeUint(v, w)
             q == [n \in 0 .. w |-> u \div Power[w - n]]
             r == [n \in 0 .. w |-> v \div Power[w - n]]
             T == {n \in Nat : n <= w /\ q[n] # r[n]}
  <1>0. u \in Nat /\ v \in Nat /\ u <= v /\ Power[w] \in Nat \ {0} /\ Power[0] = 1
        /\ \A n \in 0 .. w : w - n \in Nat /\ Power[w - n] \in Nat \ {0}
    BY PowerDef
  <1>1. a \in Seq(Byte) /\ Len(a) = w /\ \A i \in 1 .. w : a[i] = (u \div Power[w - i]) % Base
    BY <1>0, EncodeUintType
  <1>2. b \in Seq(Byte) /\ Len(b) = w /\ \A i \in 1 .. w : b[i] = (v \div Power[w - i]) % Base
    BY <1>0, EncodeUintType
  <1>3. \A n \in 0 .. w : q[n] = u \div Power[w - n] /\ r[n] = v \div Power[w - n]
    OBVIOUS
  <1> HIDE DEF a, b, q, r
  <1>4. \A i \in 1 .. w : a[i] = q[i] % Base /\ b[i] = r[i] % Base
    BY <1>1, <1>2, <1>3
  <1>5. \A n \in 0 .. w : q[n] \in Nat /\ r[n] \in Nat /\ q[n] <= r[n]
    <2> TAKE n \in 0 .. w
    <2>1. Power[w - n] \in Nat \ {0}
      BY <1>0
    <2>2. u \div Power[w - n] \in Nat /\ v \div Power[w - n] \in Nat
      BY <1>0, <2>1, Division
    <2>3. u \div Power[w - n] <= v \div Power[w - n]
      BY <1>0, <2>1, DivisionMonotone
    <2> QED
      BY <1>3, <2>2, <2>3
  <1>6. \A n \in 1 .. w : q[n] = q[n - 1] * Base + (q[n] % Base) /\ r[n] = r[n - 1] * Base + (r[n] % Base)
    <2> TAKE n \in 1 .. w
    <2> DEFINE m == w - n
    <2>1. m \in Nat /\ w - (n - 1) = m + 1 /\ n - 1 \in 0 .. w /\ n \in 0 .. w
      OBVIOUS
    <2>2. q[n] = u \div Power[m] /\ r[n] = v \div Power[m] /\ q[n - 1] = u \div Power[m + 1] /\ r[n - 1] = v \div Power[m + 1]
      BY <1>3, <2>1
    <2> HIDE DEF m
    <2>3. u \div Power[m] = (u \div Power[m + 1]) * Base + ((u \div Power[m]) % Base)
      BY <1>0, <2>1, NextDigit
    <2>4. v \div Power[m] = (v \div Power[m + 1]) * Base + ((v \div Power[m]) % Base)
      BY <1>0, <2>1, NextDigit
    <2> QED
      BY <2>2, <2>3, <2>4
  <1>7. q[0] = 0 /\ r[0] = 0
    <2>1. ASSUME NEW x \in 0 .. Power[w] - 1 PROVE x \div Power[w] = 0
      <3>0. x \in Nat
        BY <1>0
      <3>1. x = Power[w] * (x \div Power[w]) + (x % Power[w]) /\ x \div Power[w] \in Nat
            /\ x % Power[w] \in 0 .. Power[w] - 1
        BY <1>0, <3>0, Division
      <3>2. x = Power[w] * 0 + x
        BY <1>0
      <3> QED
        BY <1>0, <3>1, <3>2, QuotientIsUnique
    <2>2. q[0] = u \div Power[w] /\ r[0] = v \div Power[w]
      BY <1>3
    <2> QED
      BY <2>1, <2>2
  <1>8. w \in T
    <2>1. q[w] = u \div Power[0] /\ r[w] = v \div Power[0]
      BY <1>3
    <2>2. q[w] = u /\ r[w] = v
      BY <1>0, <2>1
    <2> QED
      BY <1>0, <2>2
  <1>9. PICK n \in T : \A k \in T : n <= k
    BY <1>8, LeastNatural
  <1>10. n \in 1 .. w /\ n - 1 \in 0 .. w /\ q[n] # r[n] /\ n - 1 \in Nat
    BY <1>7, <1>9
  <1>11. \A k \in 0 .. n - 1 : q[k] = r[k]
    BY <1>9, <1>10
  <1>12. \A i \in 1 .. n - 1 : a[i] = b[i]
    BY <1>4, <1>10, <1>11
  <1>13. a[n] < b[n]
    <2> DEFINE x == q[n - 1] * Base
    <2>1. q[n - 1] = r[n - 1]
      BY <1>10, <1>11
    <2>2. x \in Nat /\ Base \in Nat \ {0}
      BY <1>5, <1>10, KeysAssumption
    <2>3. q[n] = x + (q[n] % Base) /\ r[n] = x + (r[n] % Base)
      BY <1>6, <1>10, <2>1
    <2> HIDE DEF x
    <2>4. q[n] \in Nat /\ r[n] \in Nat /\ q[n] < r[n]
      BY <1>5, <1>10
    <2>5. q[n] % Base \in 0 .. Base - 1 /\ r[n] % Base \in 0 .. Base - 1
      BY <2>2, <2>4, Division
    <2>6. q[n] % Base < r[n] % Base
      BY <2>2, <2>3, <2>4, <2>5
    <2> QED
      BY <1>4, <1>10, <2>6
  <1>14. LexLess(a, b)
    <2>1. n - 1 < Len(b) /\ n - 1 <= Len(a) /\ (n - 1) + 1 = n
      BY <1>1, <1>2, <1>10
    <2> QED
      BY <1>1, <1>2, <1>10, <1>12, <1>13, <2>1, LexLessAt
  <1> QED
    BY <1>14 DEF a, b

LEMMA EncodeUintOrder ==
    ASSUME NEW w \in Nat, NEW u \in 0 .. Power[w] - 1, NEW v \in 0 .. Power[w] - 1
    PROVE  LexLess(EncodeUint(u, w), EncodeUint(v, w)) <=> u < v
  <1>1. u \in Nat /\ v \in Nat
    BY PowerDef
  <1>2. EncodeUint(u, w) \in Seq(Byte) /\ EncodeUint(v, w) \in Seq(Byte)
    BY <1>1, EncodeUintType
  <1>3. CASE u < v
    BY <1>3, EncodeUintLess
  <1>4. CASE u = v
    BY <1>1, <1>2, <1>4, LexStrict
  <1>5. CASE v < u
    <2>1. LexLess(EncodeUint(v, w), EncodeUint(u, w))
      BY <1>5, EncodeUintLess
    <2> QED
      BY <1>1, <1>2, <1>5, <2>1, LexStrict
  <1> QED
    BY <1>1, <1>3, <1>4, <1>5

\* The two parts of a concatenation.
LEMMA SubSeqParts ==
    ASSUME NEW S, NEW s \in Seq(S), NEW t \in Seq(S)
    PROVE  SubSeq(s \o t, 1, Len(s)) = s /\ SubSeq(s \o t, Len(s) + 1, Len(s) + Len(t)) = t
  <1> DEFINE x == s \o t
             l == Len(s)
             m == Len(t)
  <1>1. /\ x \in Seq(S) /\ l \in Nat /\ m \in Nat /\ Len(x) = l + m
        /\ \A i \in Nat : 1 <= i /\ i <= l => x[i] = s[i]
        /\ \A i \in Nat : 1 <= i /\ i <= m => x[l + i] = t[i]
    BY ConcatSecond
  <1>2. s \in Seq(S) /\ t \in Seq(S) /\ Len(s) = l /\ Len(t) = m
    OBVIOUS
  <1> HIDE DEF x, l, m
  <1> DEFINE a == SubSeq(x, 1, l)
             b == SubSeq(x, l + 1, l + m)
  <1>3. a \in Seq(S) /\ Len(a) = l /\ \A i \in 1 .. l : a[i] = x[i]
    BY <1>1, SubSeqProperties
  <1>4. b \in Seq(S) /\ Len(b) = m /\ \A i \in 1 .. m : b[i] = x[l + i]
    BY <1>1, SubSeqProperties
  <1> HIDE DEF a, b
  <1>5. \A i \in 1 .. l : a[i] = s[i]
    BY <1>1, <1>3
  <1>6. \A i \in 1 .. m : b[i] = t[i]
    BY <1>1, <1>4
  <1>7. a = s
    BY <1>2, <1>3, <1>5, SeqEqual
  <1>8. b = t
    BY <1>2, <1>4, <1>6, SeqEqual
  <1> QED
    BY <1>7, <1>8 DEF a, b, x, l, m

\* What follows the prefix of a key.
LEMMA AfterPrefix ==
    ASSUME NEW p \in {1, 2, 3}, NEW s \in Seq(Byte)
    PROVE  AfterString(EncodeString(<<3, p>>) \o s) = s
  <1> DEFINE e == EncodeString(<<3, p>>)
             b == e \o s
             Ends(i) == /\ b[i] = Escape /\ b[i + 1] = EscapedTerm
                        /\ \A j \in 2 .. i - 1 : ~(b[j] = Escape /\ b[j + 1] = EscapedTerm)
             end == CHOOSE i \in 2 .. Len(b) - 1 : Ends(i)
  <1>1. e \in Seq(Byte) /\ Len(e) = 5
    BY PrefixType
  <1>2. Prefixed(b, p)
    BY PrefixedKey
  <1>3. AfterString(b) = SubSeq(b, end + 2, Len(b))
    BY DEF AfterString
  <1>4. Len(b) = Len(e) + Len(s) /\ Len(s) \in Nat
    <2> HIDE DEF e
    <2> QED
      BY <1>1, ConcatProperties, LenProperties
  <1>5. SubSeq(b, Len(e) + 1, Len(e) + Len(s)) = s
    <2> HIDE DEF e
    <2> QED
      BY <1>1, SubSeqParts
  <1> HIDE DEF b, e
  <1>6. 4 \in 2 .. Len(b) - 1
    BY <1>1, <1>4
  <1>7. b[2] # Escape /\ b[3] # Escape /\ b[4] = Escape /\ b[4 + 1] = EscapedTerm
    BY <1>2 DEF Prefixed, Escape
  <1>8. Ends(4)
    <2>1. \A j \in 2 .. 4 - 1 : j = 2 \/ j = 3
      OBVIOUS
    <2> QED
      BY <1>7, <2>1
  <1>9. ASSUME NEW i \in 2 .. Len(b) - 1, Ends(i) PROVE i = 4
    <2>1. CASE i < 4
      <3>1. i = 2 \/ i = 3
        BY <2>1
      <3> QED
        BY <1>7, <1>9, <3>1
    <2>2. CASE i > 4
      <3>1. 4 \in 2 .. i - 1
        BY <2>2
      <3> QED
        BY <1>7, <1>9, <3>1
    <2> QED
      BY <1>1, <1>4, <2>1, <2>2
  <1>10. end = 4
    <2> HIDE DEF Ends
    <2> QED
      BY <1>6, <1>8, <1>9
  <1>11. SubSeq(b, 4 + 2, Len(b)) = s
    <2>1. Len(e) + 1 = 4 + 2 /\ Len(e) + Len(s) = Len(b)
      BY <1>1, <1>4
    <2> QED
      BY <1>5, <2>1
  <1>12. AfterString(b) = s
    <2> HIDE DEF end
    <2> QED
      BY <1>3, <1>10, <1>11
  <1> QED
    BY <1>12 DEF b, e

\* The numbers in a key, as the iterators and the resolvers read them.
LEMMA KeyNumbers ==
    ASSUME NEW h \in Heights, NEW i \in TxIndexes
    PROVE  /\ DecodeUint(SubSeq(AfterString(KeyBlock(h)), 1, HeightBytes)) = h
           /\ DecodeUint(SubSeq(AfterString(KeyTx(h, i)), 1, HeightBytes)) = h
           /\ TxIdx(KeyTx(h, i)) = i
  <1> DEFINE eh == EncodeUint(h, HeightBytes)
             ei == EncodeUint(i, IndexBytes)
  <1>1. h \in Nat /\ i \in Nat /\ HeightBytes \in Nat /\ IndexBytes \in Nat
    BY WidthFacts
  <1>2. eh \in Seq(Byte) /\ ei \in Seq(Byte) /\ Len(eh) = HeightBytes /\ Len(ei) = IndexBytes
    BY <1>1, EncodeUintType
  <1>3. DecodeUint(eh) = h
    BY WidthFacts, DecodeEncode
  <1>4. DecodeUint(ei) = i
    BY WidthFacts, DecodeEncode
  <1>5. KeyTx(h, i) = EncodeString(<<3, 2>>) \o (eh \o ei)
    <2>1. <<>> \in Seq(Byte)
      OBVIOUS
    <2> QED
      BY <2>1, KeyTypes DEF PrefixKeyTxs
  <1>6. KeyBlock(h) = EncodeString(<<3, 1>>) \o eh
    BY DEF KeyBlock, PrefixKeyBlocks
  <1> HIDE DEF eh, ei
  <1>7. eh \o ei \in Seq(Byte)
    BY <1>2, ConcatProperties
  <1>8. AfterString(KeyTx(h, i)) = eh \o ei
    <2>1. 2 \in {1, 2, 3}
      OBVIOUS
    <2> QED
      BY <1>5, <1>7, <2>1, AfterPrefix
  <1>9. AfterString(KeyBlock(h)) = eh
    <2>1. 1 \in {1, 2, 3}
      OBVIOUS
    <2> QED
      BY <1>2, <1>6, <2>1, AfterPrefix
  <1>10. SubSeq(eh \o ei, 1, HeightBytes) = eh /\ SubSeq(eh \o ei, HeightBytes + 1, HeightBytes + IndexBytes) = ei
    <2>1. SubSeq(eh \o ei, 1, Len(eh)) = eh /\ SubSeq(eh \o ei, Len(eh) + 1, Len(eh) + Len(ei)) = ei
      BY <1>2, SubSeqParts
    <2> QED
      BY <1>2, <2>1
  <1>11. SubSeq(eh, 1, HeightBytes) = eh
    <2>1. <<>> \in Seq(Byte) /\ eh \o <<>> = eh
      BY <1>2, ConcatEmptySeq
    <2>2. SubSeq(eh \o <<>>, 1, Len(eh)) = eh
      BY <1>2, <2>1, SubSeqParts
    <2> QED
      BY <1>2, <2>1, <2>2
  <1> QED
    BY <1>3, <1>4, <1>8, <1>9, <1>10, <1>11 DEF TxIdx

\* The order of keys of one kind is that of the numbers in them.
LEMMA KeyOrder ==
    ASSUME NEW h \in Heights, NEW n \in Heights, NEW i \in TxIndexes, NEW j \in TxIndexes
    PROVE  /\ LexLess(KeyBlock(h), KeyBlock(n)) <=> h < n
           /\ LexLess(KeyTx(h, i), KeyTx(n, j)) <=> h < n \/ (h = n /\ i < j)
  <1> DEFINE pb == EncodeString(PrefixKeyBlocks)
             pt == EncodeString(PrefixKeyTxs)
             eh == EncodeUint(h, HeightBytes)
             ei == EncodeUint(i, IndexBytes)
             en == EncodeUint(n, HeightBytes)
             ej == EncodeUint(j, IndexBytes)
  <1>1. /\ eh \in Seq(Byte) /\ ei \in Seq(Byte) /\ en \in Seq(Byte) /\ ej \in Seq(Byte)
        /\ Len(eh) = HeightBytes /\ Len(en) = HeightBytes
    <2>1. h \in Nat /\ i \in Nat /\ n \in Nat /\ j \in Nat /\ HeightBytes \in Nat /\ IndexBytes \in Nat
      BY WidthFacts
    <2> QED
      BY <2>1, EncodeUintType
  <1>2. pb \in Seq(Byte) /\ pt \in Seq(Byte)
    BY PrefixType DEF PrefixKeyBlocks, PrefixKeyTxs
  <1>3. /\ KeyBlock(h) = pb \o eh /\ KeyBlock(n) = pb \o en
        /\ KeyTx(h, i) = pt \o (eh \o ei) /\ KeyTx(n, j) = pt \o (en \o ej)
    <2>1. <<>> \in Seq(Byte)
      OBVIOUS
    <2> QED
      BY <2>1, KeyTypes DEF KeyBlock
  <1>4. LexLess(eh, en) <=> h < n
    BY WidthFacts, EncodeUintOrder
  <1>5. LexLess(ei, ej) <=> i < j
    BY WidthFacts, EncodeUintOrder
  <1>6. eh = en <=> h = n
    BY WidthFacts, EncodeUintInjective
  <1> HIDE DEF pb, pt, eh, ei, en, ej
  <1>7. LexLess(pb \o eh, pb \o en) <=> LexLess(eh, en)
    <2>1. ~LexLess(pb, pb)
      BY <1>2, LexStrict
    <2>2. Len(pb) = Len(pb) => (LexLess(pb \o eh, pb \o en) <=> LexLess(pb, pb) \/ (pb = pb /\ LexLess(eh, en)))
      BY <1>1, <1>2, LexConcat
    <2> QED
      BY <2>1, <2>2
  <1>8. eh \o ei \in Seq(Byte) /\ en \o ej \in Seq(Byte)
    BY <1>1, ConcatProperties
  <1> DEFINE x == eh \o ei
             y == en \o ej
  <1>9. LexLess(x, y) <=> LexLess(eh, en) \/ (eh = en /\ LexLess(ei, ej))
    <2>1. Len(eh) = Len(en) => (LexLess(eh \o ei, en \o ej) <=> LexLess(eh, en) \/ (eh = en /\ LexLess(ei, ej)))
      BY <1>1, LexConcat
    <2> QED
      BY <1>1, <2>1
  <1> HIDE DEF x, y
  <1>10. LexLess(pt \o x, pt \o y) <=> LexLess(x, y)
    <2>1. ~LexLess(pt, pt)
      BY <1>2, LexStrict
    <2>2. x \in Seq(Byte) /\ y \in Seq(Byte)
      BY <1>8 DEF x, y
    <2>3. Len(pt) = Len(pt) => (LexLess(pt \o x, pt \o y) <=> LexLess(pt, pt) \/ (pt = pt /\ LexLess(x, y)))
      BY <1>2, <2>2, LexConcat
    <2> QED
      BY <2>1, <2>3
  <1>11. KeyTx(h, i) = pt \o x /\ KeyTx(n, j) = pt \o y
    BY <1>3 DEF x, y
  <1> QED
    BY <1>3, <1>4, <1>5, <1>6, <1>7, <1>9, <1>10, <1>11

\* Keys of different kinds are in the order of their prefixes, the latest height
\* behind all.
LEMMA KindOrder ==
    ASSUME NEW a, NEW b, NEW p \in {1, 2, 3}, NEW r \in {1, 2, 3}, Prefixed(a, p), Prefixed(b, r)
    PROVE  /\ p < r => LexLess(a, b) /\ ~LexLess(b, a)
           /\ ~LexLess(KeyLatestHeight, a)
  <1>1. a \in Seq(Byte) /\ b \in Seq(Byte) /\ Len(a) \in Nat /\ Len(b) \in Nat /\ Len(a) >= 5 /\ Len(b) >= 5
    BY DEF Prefixed
  <1>2. ASSUME p < r PROVE LexLess(a, b)
    <2>1. \A k \in 1 .. 2 : a[k] = b[k]
      <3>1. \A k \in 1 .. 2 : k = 1 \/ k = 2
        OBVIOUS
      <3> QED
        BY <3>1 DEF Prefixed
    <2>2. a[2 + 1] < b[2 + 1]
      BY <1>2 DEF Prefixed
    <2>3. 2 \in Nat /\ 2 < Len(b) /\ 2 <= Len(a)
      BY <1>1
    <2> QED
      BY <1>1, <2>1, <2>2, <2>3, LexLessAt
  <1>3. LexLess(a, KeyLatestHeight) /\ KeyLatestHeight \in Seq(Byte)
    <2>1. KeyLatestHeight \in Seq(Byte) /\ Len(KeyLatestHeight) = 1 /\ KeyLatestHeight[1] = 3
      BY KeysAssumption DEF KeyLatestHeight, Byte
    <2>2. a[0 + 1] < KeyLatestHeight[0 + 1]
      BY <2>1 DEF Prefixed, Marker
    <2>3. 0 \in Nat /\ 0 < Len(KeyLatestHeight) /\ 0 <= Len(a) /\ \A k \in 1 .. 0 : a[k] = KeyLatestHeight[k]
      BY <1>1, <2>1
    <2> QED
      BY <1>1, <2>1, <2>2, <2>3, LexLessAt
  <1> QED
    BY <1>1, <1>2, <1>3, LexStrict

-----------------------------------------------------------------------------
(* The iterators. *)

\* The keys of the blocks and of the transactions of the first n blocks.
BlockKeys(n) == {KeyBlock(h) : h \in 0 .. n - 1}
TxKeys(n) == {KeyOf(t) : t \in {t \in Txs : t[1] <= n}}

\* Nothing but the first n blocks is stored, with the index and the height.
KeysUpTo(n) == {KeyLatestHeight} \cup {KeyHashTx(hash) : hash \in Seq(Byte)} \cup BlockKeys(n) \cup TxKeys(n)

StoreInv == DOMAIN db \subseteq KeysUpTo(Saved) /\ DOMAIN batch \subseteq KeysUpTo(writer.block)

\* What the iterator is to return: of the keys of its kind that were saved when
\* it was opened, those between its bounds that it does not skip.
SavedKeys == IF iter.kind = "blocks" THEN BlockKeys(asOf) ELSE TxKeys(asOf)
IterRange ==
    IF iter.kind = "blocks" THEN BlockRange(iter.from, iter.to)
    ELSE TxRange(iter.from, iter.to, iter.fromIndex, iter.toIndex)
ToReturn == {k \in Between(SavedKeys, IterRange) : ~Skips(k)}

\* What it has still to return.
Awaited == {k \in iter.left : ~Skips(k)}

IterType ==
    /\ iter \in [kind : {"blocks", "txs"}, dir : {"forward", "backward"}, from : Heights, to : Heights,
                 fromIndex : TxIndexes, toIndex : TxIndexes, left : SUBSET Seq(Byte), got : Seq(Seq(Byte)),
                 done : BOOLEAN]
    /\ asOf \in 0 .. Len(Chain)

IterInv ==
    iter # NoIter =>
        /\ IterType
        /\ ToSet(iter.got) \cup Awaited = ToReturn
        /\ iter.done => iter.left = {}
        /\ \A m, n \in DOMAIN iter.got : m < n => Precedes(iter.got[m], iter.got[n])
        /\ \A n \in DOMAIN iter.got : \A k \in Awaited : Precedes(iter.got[n], k)

LEMMA KeysGrow ==
    ASSUME NEW m \in Nat, NEW n \in Nat, m <= n
    PROVE  KeysUpTo(m) \subseteq KeysUpTo(n)
  <1>1. BlockKeys(m) \subseteq BlockKeys(n)
    BY DEF BlockKeys
  <1>2. TxKeys(m) \subseteq TxKeys(n)
    <2>1. \A t \in Txs : t[1] \in Nat
      BY TxsElement, TxsType
    <2>2. \A t \in Txs : t[1] <= m => t[1] <= n
      BY <2>1
    <2> QED
      BY <2>2 DEF TxKeys
  <1> QED
    BY <1>1, <1>2 DEF KeysUpTo

LEMMA StoreInit ==
    ASSUME Init
    PROVE  StoreInv
  <1>1. DOMAIN db = {} /\ DOMAIN batch = {}
    BY DEF Init, Empty
  <1> QED
    BY <1>1 DEF StoreInv

LEMMA StoreReaders ==
    ASSUME StoreInv, UNCHANGED <<db, batch, writer>>
    PROVE  StoreInv'
  <1>1. Saved' = Saved /\ db' = db /\ batch' = batch /\ writer' = writer
    BY SavedUnchanged
  <1> QED
    BY <1>1 DEF StoreInv

LEMMA StoreStep ==
    ASSUME IndexInv, StoreInv, [Next]_vars
    PROVE  StoreInv'
  <1>0. /\ writer.block \in 0 .. Len(Chain) /\ Len(Chain) \in Nat /\ Saved \in 0 .. writer.block
        /\ writer \in [block : 0 .. Len(Chain), tx : Nat, height : BOOLEAN]
        /\ DOMAIN db \subseteq KeysUpTo(Saved) /\ DOMAIN batch \subseteq KeysUpTo(writer.block)
    BY ChainType DEF IndexInv, WriterInv, StoreInv
  <1>2. CASE Reader \/ UNCHANGED vars
    <2>1. UNCHANGED <<db, batch, writer>>
      BY <1>2 DEF Reader, OpenBlocks, OpenTxs, IterNext, CloseIter, LookupIndex, LookupTx, vars
    <2> QED
      BY <2>1, StoreReaders
  <1>3. CASE SetBlock
    <2> DEFINE n == writer.block
    <2>1. db' = db /\ Saved' = Saved /\ DOMAIN batch' = {KeyBlock(n)} \cup DOMAIN batch
      BY <1>3, SavedUnchanged DEF SetBlock, Put
    <2>2. writer'.block = n + 1
      BY <1>0, <1>3 DEF SetBlock
    <2>3. KeyBlock(n) \in KeysUpTo(n + 1)
      BY <1>0 DEF KeysUpTo, BlockKeys
    <2>4. KeysUpTo(n) \subseteq KeysUpTo(n + 1)
      BY <1>0, KeysGrow
    <2> QED
      BY <1>0, <2>1, <2>2, <2>3, <2>4 DEF StoreInv
  <1>4. CASE SetTx
    <2> DEFINE n == writer.block
               i == writer.tx + 1
               hash == Chain[n][i]
    <2>1. n \in DOMAIN Chain /\ i \in DOMAIN Chain[n]
      <3>1. n > 0 /\ writer.tx \in Nat /\ writer.tx < Len(Chain[n])
        BY <1>0, <1>4 DEF SetTx, TxsLeft
      <3> QED
        BY <1>0, <3>1, ChainType
    <2>2. /\ <<n, i>> \in Txs /\ hash \in Seq(Byte) /\ KeyOf(<<n, i>>) = KeyTx(n - 1, i - 1) /\ i - 1 = writer.tx
      BY <1>0, <2>1, TxsType
    <2>3. /\ db' = db /\ Saved' = Saved /\ writer'.block = n
          /\ batch' = Put(Put(batch, KeyHashTx(hash), KeyTx(n - 1, writer.tx)), KeyTx(n - 1, writer.tx), hash)
      BY <1>0, <1>4, SavedUnchanged DEF SetTx
    <2>4. DOMAIN batch' = {KeyTx(n - 1, writer.tx), KeyHashTx(hash)} \cup DOMAIN batch
      BY <2>3 DEF Put
    <2>5. KeyHashTx(hash) \in KeysUpTo(n)
      BY <2>2 DEF KeysUpTo
    <2>6. KeyTx(n - 1, writer.tx) \in KeysUpTo(n)
      <3>1. <<n, i>>[1] <= n
        BY <1>0
      <3>2. KeyOf(<<n, i>>) \in TxKeys(n)
        BY <2>2, <3>1 DEF TxKeys
      <3> QED
        BY <2>2, <3>2 DEF KeysUpTo
    <2> HIDE DEF n, i, hash
    <2> QED
      BY <1>0, <2>3, <2>4, <2>5, <2>6 DEF StoreInv, n
  <1>5. CASE SetLatestHeight
    <2>1. db' = db /\ Saved' = Saved /\ DOMAIN batch' = {KeyLatestHeight} \cup DOMAIN batch
      BY <1>5, SavedUnchanged DEF SetLatestHeight, Put
    <2>2. writer'.block = writer.block
      BY <1>0, <1>5 DEF SetLatestHeight
    <2>3. KeyLatestHeight \in KeysUpTo(writer.block)
      BY DEF KeysUpTo
    <2> QED
      BY <1>0, <2>1, <2>2, <2>3 DEF StoreInv
  <1>6. CASE Commit
    <2>1. Saved' = writer.block
      BY <1>6, CommitSaves
    <2>2. DOMAIN db' = DOMAIN batch \cup DOMAIN db /\ DOMAIN batch' = {}
      BY <1>6 DEF Commit, Over, Empty
    <2>3. KeysUpTo(Saved) \subseteq KeysUpTo(writer.block)
      BY <1>0, KeysGrow
    <2> QED
      BY <1>0, <2>1, <2>2, <2>3 DEF StoreInv
  <1>7. CASE Rollback
    <2>1. db' = db /\ Saved' = Saved /\ DOMAIN batch' = {}
      BY <1>7, SavedUnchanged DEF Rollback, Empty
    <2> QED
      BY <1>0, <2>1 DEF StoreInv
  <1> QED
    BY <1>2, <1>3, <1>4, <1>5, <1>6, <1>7 DEF Next, Writer

\* The keys of a block and of a transaction of the chain.
LEMMA SavedKeyForms ==
    ASSUME NEW n \in 0 .. Len(Chain)
    PROVE  /\ \A k \in BlockKeys(n) : \E h \in Heights : h < n /\ k = KeyBlock(h) /\ Prefixed(k, 1)
           /\ \A k \in TxKeys(n) : \E h \in Heights : \E i \in TxIndexes :
                  /\ h < n /\ h + 1 \in DOMAIN Chain /\ i < Len(Chain[h + 1])
                  /\ k = KeyTx(h, i) /\ Prefixed(k, 2)
  <1>0. 0 \in Heights /\ 0 \in TxIndexes /\ <<>> \in Seq(Byte) /\ Len(Chain) \in Nat /\ n \in Nat
    BY WidthFacts, ChainType
  <1>1. ASSUME NEW k \in BlockKeys(n) PROVE \E h \in Heights : h < n /\ k = KeyBlock(h) /\ Prefixed(k, 1)
    <2>1. PICK h \in 0 .. n - 1 : k = KeyBlock(h)
      BY DEF BlockKeys
    <2>2. h \in 0 .. Len(Chain) /\ h < n
      BY <1>0
    <2>3. h \in Heights
      BY <2>2, ChainType
    <2>4. Prefixed(KeyBlock(h), 1)
      BY <1>0, <2>3, KeyTypes
    <2> QED
      BY <2>1, <2>2, <2>3, <2>4
  <1>2. ASSUME NEW k \in TxKeys(n)
        PROVE  \E h \in Heights : \E i \in TxIndexes :
                  /\ h < n /\ h + 1 \in DOMAIN Chain /\ i < Len(Chain[h + 1])
                  /\ k = KeyTx(h, i) /\ Prefixed(k, 2)
    <2>1. PICK t \in Txs : t[1] <= n /\ k = KeyOf(t)
      BY DEF TxKeys
    <2>2. PICK m, j : m \in DOMAIN Chain /\ j \in DOMAIN Chain[m] /\ t = <<m, j>>
      BY TxsElement
    <2>3. /\ m - 1 \in Heights /\ j - 1 \in TxIndexes /\ m \in Nat /\ j \in Nat /\ k = KeyTx(m - 1, j - 1)
      BY <2>1, <2>2, TxsType
    <2>4. Prefixed(KeyTx(m - 1, j - 1), 2)
      BY <1>0, <2>3, KeyTypes
    <2>5. m <= n /\ j <= Len(Chain[m]) /\ Len(Chain[m]) \in Nat
      BY <2>1, <2>2, ChainType
    <2>6. m - 1 < n /\ (m - 1) + 1 = m /\ j - 1 < Len(Chain[m])
      BY <1>0, <2>3, <2>5
    <2> QED
      BY <2>2, <2>3, <2>4, <2>6
  <1> QED
    BY <1>1, <1>2

\* Between two bounds of one kind there are only keys of that kind.
LEMMA BetweenKind ==
    ASSUME NEW n \in 0 .. Len(Chain), NEW f, DOMAIN f \subseteq KeysUpTo(n),
           NEW lower, NEW upper, NEW k \in Between(DOMAIN f, [lower |-> lower, upper |-> upper])
    PROVE  /\ Prefixed(lower, 1) /\ Prefixed(upper, 1) => k \in BlockKeys(n)
           /\ Prefixed(lower, 2) /\ Prefixed(upper, 2) => k \in TxKeys(n)
  <1>1. k \in DOMAIN f /\ (k = lower \/ LexLess(lower, k)) /\ LexLess(k, upper)
    BY DEF Between
  <1>2. CASE k = KeyLatestHeight
    <2>1. \A p \in {1, 2, 3} : Prefixed(upper, p) => ~LexLess(KeyLatestHeight, upper)
      BY KindOrder
    <2> QED
      BY <1>1, <1>2, <2>1
  <1>3. ASSUME NEW p \in {1, 2, 3}, NEW r \in {1, 2, 3}, Prefixed(k, p), Prefixed(lower, r), Prefixed(upper, r)
        PROVE  p = r
    <2>1. ~(r < p)
      BY <1>1, <1>3, KindOrder
    <2>2. ~(p < r)
      <3>1. p < r => ~LexLess(lower, k)
        BY <1>3, KindOrder
      <3>2. k = lower => p = r
        BY <1>3 DEF Prefixed
      <3> QED
        BY <1>1, <3>1, <3>2
    <2> QED
      BY <2>1, <2>2
  <1>4. ASSUME NEW hash \in Seq(Byte), k = KeyHashTx(hash)
        PROVE  ~(Prefixed(lower, 1) /\ Prefixed(upper, 1)) /\ ~(Prefixed(lower, 2) /\ Prefixed(upper, 2))
    <2>1. 0 \in Heights /\ 0 \in TxIndexes
      BY WidthFacts
    <2>2. Prefixed(k, 3)
      BY <1>4, <2>1, KeyTypes
    <2> QED
      BY <1>3, <2>2
  <1>5. ASSUME k \in BlockKeys(n) PROVE ~(Prefixed(lower, 2) /\ Prefixed(upper, 2))
    <2>1. Prefixed(k, 1)
      BY <1>5, SavedKeyForms
    <2> QED
      BY <1>3, <2>1
  <1>6. ASSUME k \in TxKeys(n) PROVE ~(Prefixed(lower, 1) /\ Prefixed(upper, 1))
    <2>1. Prefixed(k, 2)
      BY <1>6, SavedKeyForms
    <2> QED
      BY <1>3, <2>1
  <1>7. k \in KeysUpTo(n)
    BY <1>1
  <1> QED
    BY <1>2, <1>4, <1>5, <1>6, <1>7 DEF KeysUpTo

\* The raised bounds are numbers of their type.
LEMMA UpperType ==
    /\ MaxUint64 \in Nat /\ MaxUint32 \in Nat /\ MaxInt64 \in Nat /\ MaxInt64 <= MaxUint64
    /\ \A to \in Heights : UpperBlock(to) \in Heights
    /\ \A to \in TxIndexes : UpperIndex(to) \in TxIndexes
  <1>1. MaxUint64 \in Nat /\ MaxUint32 \in Nat
    BY WidthFacts DEF MaxUint64, MaxUint32
  <1>2. MaxInt64 \in Int /\ MaxInt64 <= MaxUint64
    BY WidthFacts DEF MaxUint64, MaxInt64
  <1>3. MaxInt64 \in Nat
    BY <1>2, ChainType, StorageAssumption
  <1>4. ASSUME NEW m \in Nat, NEW to \in Nat PROVE (to + 1) % (m + 1) \in 0 .. m
    BY Division
  <1> QED
    BY <1>1, <1>2, <1>3, <1>4 DEF UpperBlock, UpperIndex, Heights, TxIndexes

\* The keys an iterator finds between its bounds are those saved of its kind.
LEMMA BetweenBlocks ==
    ASSUME IndexInv, StoreInv, NEW from \in Heights, NEW to \in Heights
    PROVE  Between(DOMAIN db, BlockRange(from, to)) = Between(BlockKeys(Saved), BlockRange(from, to))
  <1> DEFINE lower == KeyBlock(from)
             upper == KeyBlock(UpperBlock(to))
             range == [lower |-> lower, upper |-> upper]
  <1>1. BlockRange(from, to) = range
    BY DEF BlockRange
  <1>2. Prefixed(lower, 1) /\ Prefixed(upper, 1)
    <2>1. <<>> \in Seq(Byte) /\ 0 \in TxIndexes /\ UpperBlock(to) \in Heights
      BY WidthFacts, UpperType, SMTT(20)
    <2> QED
      BY <2>1, KeyTypes
  <1>3. Saved \in 0 .. Len(Chain) /\ DOMAIN db \subseteq KeysUpTo(Saved)
    BY ChainType DEF IndexInv, WriterInv, StoreInv
  <1> HIDE DEF lower, upper
  <1>4. \A k \in Between(DOMAIN db, range) : k \in BlockKeys(Saved)
    BY <1>2, <1>3, BetweenKind
  <1>5. BlockKeys(Saved) \subseteq DOMAIN db
    <2> SUFFICES ASSUME NEW h \in 0 .. Saved - 1 PROVE KeyBlock(h) \in DOMAIN db
      BY DEF BlockKeys
    <2>1. h + 1 \in 1 .. Saved /\ (h + 1) - 1 = h
      BY <1>3
    <2> QED
      BY <2>1 DEF IndexInv, WriterInv, Holds
  <1> HIDE DEF range
  <1> QED
    BY <1>1, <1>4, <1>5 DEF Between

LEMMA BetweenTxs ==
    ASSUME IndexInv, StoreInv, NEW from \in Heights, NEW to \in Heights,
           NEW fromIndex \in TxIndexes, NEW toIndex \in TxIndexes
    PROVE  Between(DOMAIN db, TxRange(from, to, fromIndex, toIndex))
               = Between(TxKeys(Saved), TxRange(from, to, fromIndex, toIndex))
  <1> DEFINE lower == KeyTx(from, fromIndex)
             upper == KeyTx(UpperBlock(to), UpperIndex(toIndex))
             range == [lower |-> lower, upper |-> upper]
  <1>1. TxRange(from, to, fromIndex, toIndex) = range
    BY DEF TxRange
  <1>2. Prefixed(lower, 2) /\ Prefixed(upper, 2)
    <2>1. <<>> \in Seq(Byte) /\ UpperBlock(to) \in Heights /\ UpperIndex(toIndex) \in TxIndexes
      BY UpperType
    <2> QED
      BY <2>1, KeyTypes
  <1>3. Saved \in 0 .. Len(Chain) /\ DOMAIN db \subseteq KeysUpTo(Saved)
    BY ChainType DEF IndexInv, WriterInv, StoreInv
  <1> HIDE DEF lower, upper
  <1>4. \A k \in Between(DOMAIN db, range) : k \in TxKeys(Saved)
    BY <1>2, <1>3, BetweenKind
  <1>5. TxKeys(Saved) \subseteq DOMAIN db
    <2> SUFFICES ASSUME NEW t \in Txs, t[1] <= Saved PROVE KeyOf(t) \in DOMAIN db
      BY DEF TxKeys
    <2>1. PICK m, j : m \in DOMAIN Chain /\ j \in DOMAIN Chain[m] /\ t = <<m, j>>
      BY TxsElement
    <2>2. m \in 1 .. Saved /\ j <= Len(Chain[m])
      BY <1>3, <2>1, ChainType
    <2> QED
      BY <2>1, <2>2 DEF IndexInv, WriterInv, Holds
  <1> HIDE DEF range
  <1> QED
    BY <1>1, <1>4, <1>5 DEF Between

LEMMA SavedAreBytes ==
    ASSUME NEW n \in 0 .. Len(Chain)
    PROVE  BlockKeys(n) \subseteq Seq(Byte) /\ TxKeys(n) \subseteq Seq(Byte)
  BY SavedKeyForms DEF Prefixed

\* An iterator that has just been opened.
LEMMA IterOpened ==
    ASSUME IndexInv, NEW dir \in {"forward", "backward"}, NEW kind \in {"blocks", "txs"},
           NEW from \in Heights, NEW to \in Heights, NEW fromIndex \in TxIndexes, NEW toIndex \in TxIndexes,
           NEW left, asOf' = Saved,
           iter' = [kind |-> kind, dir |-> dir, from |-> from, to |-> to, fromIndex |-> fromIndex, toIndex |-> toIndex,
                    left |-> left, got |-> <<>>, done |-> FALSE],
           left = Between(SavedKeys, IterRange)'
    PROVE  IterInv'
  <1>1. asOf' \in 0 .. Len(Chain)
    BY ChainType DEF IndexInv, WriterInv
  <1>2. SavedKeys' \subseteq Seq(Byte)
    BY <1>1, SavedAreBytes DEF SavedKeys
  <1>3. left \in SUBSET Seq(Byte)
    BY <1>2 DEF Between
  <1>4. IterType'
    BY <1>1, <1>3 DEF IterType
  <1>5. iter'.got = <<>> /\ iter'.left = left /\ ~iter'.done
    OBVIOUS
  <1>6. ToSet(iter'.got) = {} /\ DOMAIN iter'.got = {}
    BY <1>5 DEF ToSet
  <1>7. Awaited' = ToReturn'
    BY <1>5 DEF Awaited, ToReturn
  <1> QED
    BY <1>4, <1>5, <1>6, <1>7 DEF IterInv

LEMMA IterOpenBlocks ==
    ASSUME IndexInv, StoreInv, NEW dir \in {"forward", "backward"}, NEW from \in Heights, NEW to \in Heights,
           OpenBlocks(dir, from, to)
    PROVE  IterInv'
  <1> DEFINE left == Between(DOMAIN db, BlockRange(from, to))
  <1>1. /\ iter' = [kind |-> "blocks", dir |-> dir, from |-> from, to |-> to, fromIndex |-> 0, toIndex |-> 0,
                    left |-> left, got |-> <<>>, done |-> FALSE]
        /\ asOf' = Saved
    BY DEF OpenBlocks
  <1>2. 0 \in TxIndexes
    BY WidthFacts
  <1>3. SavedKeys' = BlockKeys(Saved) /\ IterRange' = BlockRange(from, to)
    BY <1>1 DEF SavedKeys, IterRange
  <1>4. left = Between(SavedKeys, IterRange)'
    BY <1>3, BetweenBlocks
  <1> HIDE DEF left
  <1> QED
    BY <1>1, <1>2, <1>4, IterOpened

LEMMA IterOpenTxs ==
    ASSUME IndexInv, StoreInv, NEW dir \in {"forward", "backward"}, NEW from \in Heights, NEW to \in Heights,
           NEW fromIndex \in TxIndexes, NEW toIndex \in TxIndexes, OpenTxs(dir, from, to, fromIndex, toIndex)
    PROVE  IterInv'
  <1> DEFINE left == Between(DOMAIN db, TxRange(from, to, fromIndex, toIndex))
  <1>1. /\ iter' = [kind |-> "txs", dir |-> dir, from |-> from, to |-> to, fromIndex |-> fromIndex, toIndex |-> toIndex,
                    left |-> left, got |-> <<>>, done |-> FALSE]
        /\ asOf' = Saved
    BY DEF OpenTxs
  <1>3. SavedKeys' = TxKeys(Saved) /\ IterRange' = TxRange(from, to, fromIndex, toIndex)
    BY <1>1 DEF SavedKeys, IterRange
  <1>4. left = Between(SavedKeys, IterRange)'
    BY <1>3, BetweenTxs
  <1> HIDE DEF left
  <1> QED
    BY <1>1, <1>4, IterOpened

LEMMA ToSetAppend ==
    ASSUME NEW S, NEW s \in Seq(S), NEW e \in S
    PROVE  ToSet(Append(s, e)) = ToSet(s) \cup {e}
  <1>1. 1 .. Len(s) + 1 = (1 .. Len(s)) \cup {Len(s) + 1}
    BY AppendAt
  <1> QED
    BY <1>1, AppendAt DEF ToSet

\* A step of the iterator takes the first of what it has still to return.
LEMMA IterStep ==
    ASSUME IterInv, IterNext
    PROVE  IterInv'
  <1>0. /\ iter # NoIter /\ ~iter.done /\ IterType /\ ToSet(iter.got) \cup Awaited = ToReturn
        /\ \A m, n \in DOMAIN iter.got : m < n => Precedes(iter.got[m], iter.got[n])
        /\ \A n \in DOMAIN iter.got : \A k \in Awaited : Precedes(iter.got[n], k)
        /\ asOf' = asOf
    BY DEF IterInv, IterNext
  <1>1. iter.left \subseteq Seq(Byte) /\ iter.got \in Seq(Seq(Byte)) /\ Awaited \subseteq Seq(Byte)
    BY <1>0 DEF IterType, Awaited
  <1>2. ASSUME iter'.kind = iter.kind, iter'.dir = iter.dir, iter'.from = iter.from, iter'.to = iter.to,
               iter'.fromIndex = iter.fromIndex, iter'.toIndex = iter.toIndex
        PROVE  /\ SavedKeys' = SavedKeys /\ IterRange' = IterRange
               /\ \A k : Skips(k)' <=> Skips(k)
               /\ \A k, m : Precedes(k, m)' <=> Precedes(k, m)
               /\ ToReturn' = ToReturn
    <2>1. SavedKeys' = SavedKeys /\ IterRange' = IterRange
      BY <1>0, <1>2 DEF SavedKeys, IterRange
    <2>2. \A k : Skips(k)' <=> Skips(k)
      BY <1>2 DEF Skips
    <2>3. \A k, m : Precedes(k, m)' <=> Precedes(k, m)
      BY <1>2 DEF Precedes
    <2>4. ToReturn' = ToReturn
      BY <2>1, <2>2 DEF ToReturn
    <2> QED
      BY <2>1, <2>2, <2>3, <2>4
  <1>3. CASE Awaited = {}
    <2>1. iter' = [iter EXCEPT !.left = {}, !.done = TRUE]
      BY <1>3 DEF IterNext, Awaited
    <2>2. /\ iter'.kind = iter.kind /\ iter'.dir = iter.dir /\ iter'.from = iter.from /\ iter'.to = iter.to
          /\ iter'.fromIndex = iter.fromIndex /\ iter'.toIndex = iter.toIndex
          /\ iter'.got = iter.got /\ iter'.left = {} /\ iter' # NoIter
      BY <1>0, <2>1 DEF IterType, NoIter
    <2>3. IterType'
      BY <1>0, <2>1 DEF IterType
    <2>4. Awaited' = {}
      BY <2>2 DEF Awaited
    <2>5. ToReturn' = ToReturn /\ \A k, m : Precedes(k, m)' <=> Precedes(k, m)
      BY <1>2, <2>2
    <2> QED
      BY <1>0, <1>3, <2>2, <2>3, <2>4, <2>5 DEF IterInv
  <1>4. CASE Awaited # {}
    <2>1. PICK k \in Awaited :
              /\ \A other \in Awaited \ {k} : Precedes(k, other)
              /\ iter' = [iter EXCEPT !.left = {other \in iter.left : Precedes(k, other)}, !.got = Append(iter.got, k)]
      BY <1>4 DEF IterNext, Awaited
    <2>2. /\ iter'.kind = iter.kind /\ iter'.dir = iter.dir /\ iter'.from = iter.from /\ iter'.to = iter.to
          /\ iter'.fromIndex = iter.fromIndex /\ iter'.toIndex = iter.toIndex /\ iter'.done = iter.done
          /\ iter'.got = Append(iter.got, k) /\ iter'.left = {other \in iter.left : Precedes(k, other)} /\ iter' # NoIter
      BY <1>0, <2>1 DEF IterType, NoIter
    <2>3. k \in Seq(Byte) /\ k \in iter.left
      BY <1>1 DEF Awaited
    <2>4. IterType'
      <3>1. Append(iter.got, k) \in Seq(Seq(Byte)) /\ {other \in iter.left : Precedes(k, other)} \in SUBSET Seq(Byte)
        BY <1>1, <2>3, AppendProperties
      <3> QED
        BY <1>0, <2>1, <3>1 DEF IterType
    <2>5. /\ ToReturn' = ToReturn /\ (\A j : Skips(j)' <=> Skips(j))
          /\ \A j, m : Precedes(j, m)' <=> Precedes(j, m)
      BY <1>2, <2>2
    <2>6. ~Precedes(k, k)
      BY <2>3, LexStrict DEF Precedes
    <2>7. Awaited' = Awaited \ {k}
      <3>1. Awaited' = {other \in iter'.left : ~Skips(other)}
        BY <2>5 DEF Awaited
      <3> QED
        BY <2>1, <2>2, <2>6, <3>1 DEF Awaited
    <2>8. ToSet(iter'.got) = ToSet(iter.got) \cup {k}
      BY <1>1, <2>2, <2>3, ToSetAppend
    <2>9. ToSet(iter'.got) \cup Awaited' = ToReturn'
      BY <1>0, <2>1, <2>5, <2>7, <2>8
    <2> DEFINE l == Len(iter.got)
               t == iter'.got
    <2>10. /\ DOMAIN iter.got = 1 .. l /\ l \in Nat /\ DOMAIN t = 1 .. l + 1
           /\ \A i \in 1 .. l : t[i] = iter.got[i]
           /\ t[l + 1] = k
      BY <1>1, <2>2, <2>3, AppendAt
    <2>11. \A n \in DOMAIN iter.got : Precedes(iter.got[n], k)
      BY <1>0, <2>1
    <2> HIDE DEF l, t
    <2>12. ASSUME NEW m \in DOMAIN t, NEW n \in DOMAIN t, m < n PROVE Precedes(t[m], t[n])
      <3>1. m \in 1 .. l
        BY <2>10, <2>12
      <3>2. CASE n \in 1 .. l
        BY <1>0, <2>10, <2>12, <3>1, <3>2
      <3>3. CASE n = l + 1
        BY <2>10, <2>11, <3>1, <3>3
      <3> QED
        BY <2>10, <3>2, <3>3
    <2>13. ASSUME NEW n \in DOMAIN t, NEW j \in Awaited' PROVE Precedes(t[n], j)
      <3>1. j \in Awaited /\ j # k
        BY <2>7
      <3>2. CASE n \in 1 .. l
        BY <1>0, <2>10, <3>1, <3>2
      <3>3. CASE n = l + 1
        BY <2>1, <2>10, <3>1, <3>3
      <3> QED
        BY <2>10, <3>2, <3>3
    <2>14. ~iter'.done
      BY <1>0, <2>2
    <2> QED
      BY <2>4, <2>5, <2>9, <2>12, <2>13, <2>14 DEF IterInv, t
  <1> QED
    BY <1>3, <1>4

\* The raised bounds, where they do not overflow.
LEMMA UpperValue ==
    ASSUME NEW to \in Nat
    PROVE  /\ to < MaxUint64 => UpperBlock(to) = IF to = 0 THEN MaxInt64 ELSE to + 1
           /\ to < MaxUint32 => UpperIndex(to) = IF to = 0 THEN MaxUint32 ELSE to + 1
  <1>1. ASSUME NEW m \in Nat, to < m PROVE (to + 1) % (m + 1) = to + 1
    <2>1. to + 1 \in 0 .. m /\ m + 1 \in Nat \ {0}
      BY <1>1
    <2> QED
      BY <2>1
  <1> QED
    BY <1>1, UpperType DEF UpperBlock, UpperIndex

\* The numbers of a transaction between the bounds, as the engine sees them.
TxBetween(h, i, from, to, fromIndex, toIndex) ==
    /\ from < h \/ (from = h /\ fromIndex <= i)
    /\ h < UpperBlock(to) \/ (h = UpperBlock(to) /\ i < UpperIndex(toIndex))

\* The keys between the bounds of an iterator, by the numbers in them.
LEMMA BetweenNumbers ==
    ASSUME NEW S, NEW h \in Heights, NEW i \in TxIndexes, NEW from \in Heights, NEW to \in Heights,
           NEW fromIndex \in TxIndexes, NEW toIndex \in TxIndexes
    PROVE  /\ KeyBlock(h) \in Between(S, BlockRange(from, to)) <=>
                  KeyBlock(h) \in S /\ from <= h /\ h < UpperBlock(to)
           /\ KeyTx(h, i) \in Between(S, TxRange(from, to, fromIndex, toIndex)) <=>
                  KeyTx(h, i) \in S /\ TxBetween(h, i, from, to, fromIndex, toIndex)
  <1>0. /\ UpperBlock(to) \in Heights /\ UpperIndex(toIndex) \in TxIndexes
        /\ h \in Nat /\ from \in Nat /\ i \in Nat /\ fromIndex \in Nat
    BY UpperType DEF Heights, TxIndexes
  <1>1. /\ LexLess(KeyBlock(from), KeyBlock(h)) <=> from < h
        /\ LexLess(KeyTx(from, fromIndex), KeyTx(h, i)) <=> from < h \/ (from = h /\ fromIndex < i)
    BY KeyOrder
  <1>2. /\ LexLess(KeyBlock(h), KeyBlock(UpperBlock(to))) <=> h < UpperBlock(to)
        /\ LexLess(KeyTx(h, i), KeyTx(UpperBlock(to), UpperIndex(toIndex))) <=>
               h < UpperBlock(to) \/ (h = UpperBlock(to) /\ i < UpperIndex(toIndex))
    BY <1>0, KeyOrder
  <1>3. KeyBlock(h) = KeyBlock(from) <=> h = from
    BY KeyNumbers
  <1>4. KeyTx(h, i) = KeyTx(from, fromIndex) <=> h = from /\ i = fromIndex
    BY KeyNumbers
  <1>5. KeyBlock(h) \in Between(S, BlockRange(from, to)) <=>
            KeyBlock(h) \in S /\ (h = from \/ from < h) /\ h < UpperBlock(to)
    BY <1>1, <1>2, <1>3 DEF Between, BlockRange
  <1>6. KeyTx(h, i) \in Between(S, TxRange(from, to, fromIndex, toIndex)) <=>
                  /\ KeyTx(h, i) \in S
                  /\ (h = from /\ i = fromIndex) \/ from < h \/ (from = h /\ fromIndex < i)
                  /\ h < UpperBlock(to) \/ (h = UpperBlock(to) /\ i < UpperIndex(toIndex))
    BY <1>1, <1>2, <1>4 DEF Between, TxRange
  <1>7. /\ h = from \/ from < h <=> from <= h
        /\ (h = from /\ i = fromIndex) \/ from < h \/ (from = h /\ fromIndex < i)
               <=> from < h \/ (from = h /\ fromIndex <= i)
    BY <1>0
  <1> QED
    BY <1>5, <1>6, <1>7 DEF TxBetween

\* The saved keys, by the numbers in them.
LEMMA SavedNumbers ==
    ASSUME NEW n \in 0 .. Len(Chain), NEW h \in 0 .. n - 1
    PROVE  /\ h \in Heights /\ h \in Nat /\ h < MaxInt64 /\ h + 1 \in DOMAIN Chain /\ Len(Chain[h + 1]) \in Nat
           /\ KeyBlock(h) \in BlockKeys(n)
           /\ \A i \in 0 .. Len(Chain[h + 1]) - 1 : i \in TxIndexes /\ i < MaxUint32 /\ KeyTx(h, i) \in TxKeys(n)
  <1>1. n \in Nat /\ Len(Chain) \in Nat /\ h \in 0 .. Len(Chain) /\ h + 1 \in 1 .. Len(Chain) /\ h + 1 <= n
    BY ChainType
  <1>2. h \in Heights /\ h + 1 \in DOMAIN Chain
    BY <1>1, ChainType
  <1>3. h < MaxInt64
    BY <1>1, UpperType, StorageAssumption
  <1>4. Len(Chain[h + 1]) \in Nat /\ DOMAIN Chain[h + 1] = 1 .. Len(Chain[h + 1]) /\ 0 .. Len(Chain[h + 1]) \subseteq TxIndexes
        /\ Len(Chain[h + 1]) < MaxUint32
    BY <1>2, ChainType, StorageAssumption
  <1>5. ASSUME NEW i \in 0 .. Len(Chain[h + 1]) - 1 PROVE i \in TxIndexes /\ i < MaxUint32 /\ KeyTx(h, i) \in TxKeys(n)
    <2>1. i \in 0 .. Len(Chain[h + 1]) /\ i + 1 \in DOMAIN Chain[h + 1] /\ i < MaxUint32 /\ (h + 1) - 1 = h /\ (i + 1) - 1 = i
      BY <1>1, <1>4, UpperType
    <2>2. <<h + 1, i + 1>> \in Txs /\ KeyOf(<<h + 1, i + 1>>) = KeyTx(h, i)
      BY <1>2, <2>1, TxsType
    <2>3. <<h + 1, i + 1>>[1] <= n
      BY <1>1
    <2>4. KeyTx(h, i) \in TxKeys(n)
      BY <2>2, <2>3 DEF TxKeys
    <2> QED
      BY <1>4, <2>1, <2>4
  <1> QED
    BY <1>1, <1>2, <1>3, <1>4, <1>5 DEF BlockKeys

\* The numbers of an open iterator.
LEMMA IterNumbers ==
    ASSUME IterType
    PROVE  /\ iter.from \in Heights /\ iter.to \in Heights /\ iter.fromIndex \in TxIndexes /\ iter.toIndex \in TxIndexes
           /\ iter.from \in Nat /\ iter.to \in Nat /\ iter.fromIndex \in Nat /\ iter.toIndex \in Nat
           /\ ~Overflows => iter.to < MaxUint64 /\ iter.toIndex < MaxUint32
           /\ asOf \in 0 .. Len(Chain) /\ 0 \in TxIndexes
  <1>1. /\ iter.from \in Heights /\ iter.to \in Heights /\ iter.fromIndex \in TxIndexes /\ iter.toIndex \in TxIndexes
        /\ asOf \in 0 .. Len(Chain)
    BY DEF IterType
  <1>2. MaxUint64 \in Nat /\ MaxUint32 \in Nat
    BY UpperType
  <1> QED
    BY <1>1, <1>2 DEF Heights, TxIndexes, Overflows

\* What a block iterator is to return is what was asked for.
LEMMA ReturnsBlocks ==
    ASSUME IterType, ~Overflows, iter.kind = "blocks"
    PROVE  ToReturn = AskedBlocks
  <1>0. /\ iter.from \in Heights /\ iter.to \in Heights /\ iter.fromIndex \in TxIndexes /\ iter.toIndex \in TxIndexes
        /\ iter.from \in Nat /\ iter.to \in Nat /\ iter.to < MaxUint64 /\ asOf \in 0 .. Len(Chain) /\ 0 \in TxIndexes
    BY IterNumbers
  <1>1. UpperBlock(iter.to) = IF iter.to = 0 THEN MaxInt64 ELSE iter.to + 1
    BY <1>0, UpperValue
  <1>2. ToReturn = Between(BlockKeys(asOf), BlockRange(iter.from, iter.to))
    <2>1. \A k : ~Skips(k)
      BY DEF Skips
    <2>2. SavedKeys = BlockKeys(asOf) /\ IterRange = BlockRange(iter.from, iter.to)
      BY DEF SavedKeys, IterRange
    <2>3. ToReturn = Between(SavedKeys, IterRange)
      BY <2>1 DEF ToReturn, Between
    <2> QED
      BY <2>2, <2>3
  <1>3. ASSUME NEW h \in 0 .. asOf - 1 PROVE KeyBlock(h) \in ToReturn <=> InBlocks(h)
    <2>1. h \in Heights /\ h \in Nat /\ h < MaxInt64 /\ KeyBlock(h) \in BlockKeys(asOf)
      BY <1>0, SavedNumbers
    <2>2. KeyBlock(h) \in ToReturn <=> iter.from <= h /\ h < UpperBlock(iter.to)
      BY <1>0, <1>2, <2>1, BetweenNumbers
    <2>3. h < UpperBlock(iter.to) <=> iter.to = 0 \/ h <= iter.to
      BY <1>0, <1>1, <2>1
    <2> QED
      BY <2>2, <2>3 DEF InBlocks
  <1>4. ToReturn \subseteq {KeyBlock(h) : h \in 0 .. asOf - 1}
    BY <1>2 DEF Between, BlockKeys
  <1> QED
    BY <1>3, <1>4 DEF AskedBlocks

\* What a transaction iterator is to return, by the numbers.
LEMMA ReturnsTxNumbers ==
    ASSUME IterType, ~Overflows, iter.kind = "txs"
    PROVE  /\ \A h \in 0 .. asOf - 1 : \A i \in 0 .. Len(Chain[h + 1]) - 1 :
                  KeyTx(h, i) \in ToReturn <=> InIndexes(i) /\ iter.from <= h /\ (iter.to = 0 \/ h <= iter.to + 1)
           /\ \A k \in ToReturn : \E h \in 0 .. asOf - 1 : \E i \in 0 .. Len(Chain[h + 1]) - 1 : k = KeyTx(h, i)
  <1>0. /\ iter.from \in Heights /\ iter.to \in Heights /\ iter.fromIndex \in TxIndexes /\ iter.toIndex \in TxIndexes
        /\ iter.from \in Nat /\ iter.to \in Nat /\ iter.to < MaxUint64 /\ asOf \in 0 .. Len(Chain)
        /\ iter.fromIndex \in Nat /\ iter.toIndex \in Nat /\ iter.toIndex < MaxUint32
    BY IterNumbers
  <1>1. UpperBlock(iter.to) = IF iter.to = 0 THEN MaxInt64 ELSE iter.to + 1
    BY <1>0, UpperValue
  <1>2. UpperIndex(iter.toIndex) = IF iter.toIndex = 0 THEN MaxUint32 ELSE iter.toIndex + 1
    BY <1>0, UpperValue
  <1>3. ToReturn = {k \in Between(TxKeys(asOf), TxRange(iter.from, iter.to, iter.fromIndex, iter.toIndex)) : ~Skips(k)}
    BY DEF ToReturn, SavedKeys, IterRange
  <1>4. ASSUME NEW h \in Heights, NEW i \in TxIndexes
        PROVE  KeyTx(h, i) \in Between(TxKeys(asOf), TxRange(iter.from, iter.to, iter.fromIndex, iter.toIndex)) <=>
                   KeyTx(h, i) \in TxKeys(asOf) /\ TxBetween(h, i, iter.from, iter.to, iter.fromIndex, iter.toIndex)
    <2>1. iter.from \in Heights /\ iter.to \in Heights /\ iter.fromIndex \in TxIndexes /\ iter.toIndex \in TxIndexes
      BY <1>0
    <2> QED
      BY <2>1, BetweenNumbers
  <1>5. ASSUME NEW h \in 0 .. asOf - 1, NEW i \in 0 .. Len(Chain[h + 1]) - 1
        PROVE  KeyTx(h, i) \in ToReturn <=> InIndexes(i) /\ iter.from <= h /\ (iter.to = 0 \/ h <= iter.to + 1)
    <2>1. /\ h \in Heights /\ h \in Nat /\ h < MaxInt64 /\ i \in TxIndexes /\ i < MaxUint32 /\ KeyTx(h, i) \in TxKeys(asOf)
          /\ i \in Nat
      BY <1>0, SavedNumbers DEF TxIndexes
    <2>2. Skips(KeyTx(h, i)) <=> ~(iter.fromIndex <= i /\ i < UpperIndex(iter.toIndex))
      <3>1. TxIdx(KeyTx(h, i)) = i
        BY <2>1, KeyNumbers
      <3> QED
        BY <1>0, <2>1, <3>1 DEF Skips
    <2>3. i < UpperIndex(iter.toIndex) <=> iter.toIndex = 0 \/ i <= iter.toIndex
      BY <1>0, <1>2, <2>1
    <2>4. ~Skips(KeyTx(h, i)) <=> InIndexes(i)
      BY <2>2, <2>3 DEF InIndexes
    <2>5. KeyTx(h, i) \in ToReturn <=>
              /\ iter.from < h \/ (iter.from = h /\ iter.fromIndex <= i)
              /\ h < UpperBlock(iter.to) \/ (h = UpperBlock(iter.to) /\ i < UpperIndex(iter.toIndex))
              /\ InIndexes(i)
      <3> DEFINE R == TxRange(iter.from, iter.to, iter.fromIndex, iter.toIndex)
      <3>1. KeyTx(h, i) \in Between(TxKeys(asOf), R) <=>
                KeyTx(h, i) \in TxKeys(asOf) /\ TxBetween(h, i, iter.from, iter.to, iter.fromIndex, iter.toIndex)
        BY <1>4, <2>1, Zenon
      <3>2. KeyTx(h, i) \in ToReturn <=> KeyTx(h, i) \in Between(TxKeys(asOf), R) /\ ~Skips(KeyTx(h, i))
        BY <1>3
      <3> QED
        BY <2>1, <2>4, <3>1, <3>2 DEF TxBetween
    <2>6. InIndexes(i) => iter.fromIndex <= i /\ i < UpperIndex(iter.toIndex)
      BY <2>3 DEF InIndexes
    <2>7. ASSUME InIndexes(i)
          PROVE  /\ iter.from < h \/ (iter.from = h /\ iter.fromIndex <= i) <=> iter.from <= h
                 /\ h < UpperBlock(iter.to) \/ (h = UpperBlock(iter.to) /\ i < UpperIndex(iter.toIndex))
                        <=> iter.to = 0 \/ h <= iter.to + 1
      BY <1>0, <1>1, <2>1, <2>6, <2>7
    <2> QED
      BY <2>5, <2>7
  <1>6. ASSUME NEW k \in ToReturn
        PROVE  \E h \in 0 .. asOf - 1 : \E i \in 0 .. Len(Chain[h + 1]) - 1 : k = KeyTx(h, i)
    <2>1. k \in TxKeys(asOf)
      BY <1>3 DEF Between
    <2>2. PICK h \in Heights, i \in TxIndexes : h < asOf /\ h + 1 \in DOMAIN Chain /\ i < Len(Chain[h + 1]) /\ k = KeyTx(h, i)
      BY <1>0, <2>1, SavedKeyForms
    <2>3. h \in 0 .. asOf - 1 /\ i \in 0 .. Len(Chain[h + 1]) - 1
      BY <1>0, <2>2, ChainType DEF Heights, TxIndexes
    <2> QED
      BY <2>2, <2>3
  <1> QED
    BY <1>5, <1>6

\* So it is what was asked for, and beyond it only such of the next block.
LEMMA ReturnsTxs ==
    ASSUME IterType, ~Overflows, iter.kind = "txs"
    PROVE  /\ AskedTxs \subseteq ToReturn
           /\ ToReturn \subseteq UNION {TxsOf(h) : h \in {h \in 0 .. asOf - 1 : InBlocks(h) \/ h = iter.to + 1}}
  <1>0. iter.to \in Nat /\ asOf \in Nat
    BY IterNumbers, ChainType
  <1>1. ASSUME NEW h \in 0 .. asOf - 1, NEW i \in 0 .. Len(Chain[h + 1]) - 1
        PROVE  /\ InIndexes(i) /\ InBlocks(h) => KeyTx(h, i) \in ToReturn
               /\ KeyTx(h, i) \in ToReturn => InIndexes(i) /\ (InBlocks(h) \/ h = iter.to + 1)
    <2>1. h \in Nat
      BY <1>0
    <2>2. KeyTx(h, i) \in ToReturn <=> InIndexes(i) /\ iter.from <= h /\ (iter.to = 0 \/ h <= iter.to + 1)
      BY ReturnsTxNumbers
    <2> QED
      BY <1>0, <2>1, <2>2 DEF InBlocks
  <1>2. AskedTxs \subseteq ToReturn
    BY <1>1 DEF AskedTxs, TxsOf
  <1>3. ASSUME NEW k \in ToReturn
        PROVE  k \in UNION {TxsOf(h) : h \in {h \in 0 .. asOf - 1 : InBlocks(h) \/ h = iter.to + 1}}
    <2>1. PICK h \in 0 .. asOf - 1 : \E i \in 0 .. Len(Chain[h + 1]) - 1 : k = KeyTx(h, i)
      BY ReturnsTxNumbers
    <2>2. PICK i \in 0 .. Len(Chain[h + 1]) - 1 : k = KeyTx(h, i)
      BY <2>1
    <2>3. InIndexes(i) /\ (InBlocks(h) \/ h = iter.to + 1)
      BY <1>1, <2>2
    <2>4. k \in TxsOf(h)
      BY <2>2, <2>3 DEF TxsOf
    <2> QED
      BY <2>3, <2>4
  <1> QED
    BY <1>2, <1>3

\* The order of the engine is the order of the numbers.
LEMMA PrecedesIsFollows ==
    ASSUME IterType, NEW j \in SavedKeys, NEW k \in SavedKeys, Precedes(j, k)
    PROVE  Follows(Position(j), Position(k))
  <1>0. asOf \in 0 .. Len(Chain) /\ iter.kind \in {"blocks", "txs"} /\ 0 \in TxIndexes
    BY WidthFacts DEF IterType
  <1>1. CASE iter.kind = "blocks"
    <2>1. j \in BlockKeys(asOf) /\ k \in BlockKeys(asOf)
      BY <1>1 DEF SavedKeys
    <2>2. PICK h \in Heights : j = KeyBlock(h)
      BY <1>0, <2>1, SavedKeyForms
    <2>3. PICK n \in Heights : k = KeyBlock(n)
      BY <1>0, <2>1, SavedKeyForms
    <2>4. Position(j) = <<h, 0>> /\ Position(k) = <<n, 0>>
      BY <1>0, <1>1, <2>2, <2>3, KeyNumbers DEF Position
    <2>5. (LexLess(j, k) <=> h < n) /\ (LexLess(k, j) <=> n < h)
      BY <1>0, <2>2, <2>3, KeyOrder
    <2> QED
      BY <2>4, <2>5 DEF Precedes, Follows, Before
  <1>2. CASE iter.kind = "txs"
    <2>1. j \in TxKeys(asOf) /\ k \in TxKeys(asOf)
      BY <1>2 DEF SavedKeys
    <2>2. PICK h \in Heights, a \in TxIndexes : j = KeyTx(h, a)
      BY <1>0, <2>1, SavedKeyForms
    <2>3. PICK n \in Heights, b \in TxIndexes : k = KeyTx(n, b)
      BY <1>0, <2>1, SavedKeyForms
    <2>4. Position(j) = <<h, a>> /\ Position(k) = <<n, b>>
      BY <1>2, <2>2, <2>3, KeyNumbers DEF Position
    <2>5. (LexLess(j, k) <=> h < n \/ (h = n /\ a < b)) /\ (LexLess(k, j) <=> n < h \/ (n = h /\ b < a))
      BY <2>2, <2>3, KeyOrder
    <2> QED
      BY <2>4, <2>5 DEF Precedes, Follows, Before
  <1> QED
    BY <1>0, <1>1, <1>2

LEMMA IterImplies ==
    ASSUME IterInv
    PROVE  IterReturnsAsked
  <1> SUFFICES ASSUME iter # NoIter
               PROVE  /\ \A m, n \in DOMAIN iter.got : m < n => Follows(Position(iter.got[m]), Position(iter.got[n]))
                      /\ ~Overflows =>
                             /\ iter.kind = "blocks" => ToSet(iter.got) \subseteq AskedBlocks
                             /\ iter.kind = "txs" => ToSet(iter.got) \subseteq UNION {TxsOf(h) : h \in {h \in 0 .. asOf - 1 : InBlocks(h) \/ h = iter.to + 1}}
                             /\ iter.done => (IF iter.kind = "blocks" THEN AskedBlocks ELSE AskedTxs) \subseteq ToSet(iter.got)
    BY DEF IterReturnsAsked
  <1>0. /\ IterType /\ ToSet(iter.got) \cup Awaited = ToReturn
        /\ iter.done => iter.left = {}
        /\ \A m, n \in DOMAIN iter.got : m < n => Precedes(iter.got[m], iter.got[n])
        /\ iter.kind \in {"blocks", "txs"}
    BY DEF IterInv, IterType
  <1>1. iter.done => Awaited = {}
    BY <1>0 DEF Awaited
  <1>2. ToSet(iter.got) \subseteq ToReturn
    BY <1>0
  <1>3. iter.done => ToSet(iter.got) = ToReturn
    BY <1>0, <1>1
  <1>4. ASSUME NEW m \in DOMAIN iter.got, NEW n \in DOMAIN iter.got, m < n
        PROVE  Follows(Position(iter.got[m]), Position(iter.got[n]))
    <2>1. iter.got[m] \in SavedKeys /\ iter.got[n] \in SavedKeys
      BY <1>2 DEF ToReturn, Between, ToSet
    <2> QED
      BY <1>0, <1>4, <2>1, PrecedesIsFollows
  <1>5. CASE iter.kind = "blocks"
    <2>1. ~Overflows => ToReturn = AskedBlocks
      BY <1>0, <1>5, ReturnsBlocks
    <2> QED
      BY <1>2, <1>3, <1>4, <1>5, <2>1
  <1>6. CASE iter.kind = "txs"
    <2>1. ~Overflows => /\ AskedTxs \subseteq ToReturn
                        /\ ToReturn \subseteq UNION {TxsOf(h) : h \in {h \in 0 .. asOf - 1 : InBlocks(h) \/ h = iter.to + 1}}
      BY <1>0, <1>6, ReturnsTxs
    <2> QED
      BY <1>2, <1>3, <1>4, <1>6, <2>1
  <1> QED
    BY <1>0, <1>5, <1>6

-----------------------------------------------------------------------------
(* The iterators, over any steps of the writer. *)

LEMMA IterUnchanged ==
    ASSUME IterInv, iter' = iter, asOf' = asOf
    PROVE  IterInv'
  <1>1. /\ IterType' <=> IterType
        /\ \A k : Skips(k)' <=> Skips(k)
        /\ \A j, k : Precedes(j, k)' <=> Precedes(j, k)
    BY DEF IterType, Skips, Precedes
  <1>2. SavedKeys' = SavedKeys /\ IterRange' = IterRange
    BY DEF SavedKeys, IterRange
  <1>3. Awaited' = Awaited /\ ToReturn' = ToReturn
    BY <1>1, <1>2 DEF Awaited, ToReturn
  <1> QED
    BY <1>1, <1>3 DEF IterInv

LEMMA IterInvStep ==
    ASSUME IndexInv, StoreInv, IterInv, [Next]_vars
    PROVE  IterInv'
  <1>1. CASE Writer \/ LookupTx \/ UNCHANGED vars
    BY <1>1, IterUnchanged DEF Writer, SetBlock, SetTx, SetLatestHeight, Commit, Rollback, LookupTx, vars
  <1>2. CASE \E hash \in Hashes : LookupIndex(hash)
    BY <1>2, IterUnchanged DEF LookupIndex
  <1>3. CASE IterNext
    BY <1>3, IterStep
  <1>4. CASE CloseIter
    BY <1>4 DEF CloseIter, IterInv
  <1>5. Bounds \subseteq Heights /\ Indexes \subseteq TxIndexes
    BY StorageAssumption DEF Heights, TxIndexes
  <1>6. ASSUME NEW dir \in {"forward", "backward"}, NEW from \in Bounds, NEW to \in Bounds,
               OpenBlocks(dir, from, to)
        PROVE  IterInv'
    BY <1>5, <1>6, IterOpenBlocks
  <1>7. ASSUME NEW dir \in {"forward", "backward"}, NEW from \in Bounds, NEW to \in Bounds,
               NEW fromIndex \in Indexes, NEW toIndex \in Indexes, OpenTxs(dir, from, to, fromIndex, toIndex)
        PROVE  IterInv'
    BY <1>5, <1>7, IterOpenTxs
  <1> QED
    BY <1>1, <1>2, <1>3, <1>4, <1>6, <1>7 DEF Next, Reader

\* BlockIterator, TxIterator and their reverse forms return what was asked for, as
\* it was committed when the iterator was opened, in the order of the numbers, and
\* whatever the writer commits or rolls back meanwhile - for every chain, any bounds
\* (that do not wrap when raised) and any width of the integers in the keys, whose
\* bytes are all the engine compares.
THEOREM IteratorsReturnAsked == Spec => []IterReturnsAsked
  <1> DEFINE Inv == IndexInv /\ StoreInv /\ IterInv
  <1>1. Init => Inv
    BY IndexInit, StoreInit DEF Init, IterInv
  <1>2. Inv /\ [Next]_vars => Inv'
    BY IndexStep, StoreStep, IterInvStep
  <1>3. Inv => IterReturnsAsked
    BY IterImplies
  <1> QED
    BY <1>1, <1>2, <1>3, PTL DEF Spec

=============================================================================
