---------------------------- MODULE SlotsProofs ----------------------------
(***************************************************************************)
(* What findGaps and reserveChunkRanges do to a queue that continues a     *)
(* base height without hole or overlap, for every queue, height, chunk     *)
(* size and number of slots.                                               *)
(***************************************************************************)
EXTENDS Slots, FiniteSetTheorems, WellFoundedInduction, TLAPS

\* Items with a non-empty range, no two of which overlap.
IsQueue(Q) ==
    /\ \A s \in Q : s.from \in Nat /\ s.to \in Nat /\ s.from <= s.to
    /\ \A s, t \in Q : s # t => s.to < t.from \/ t.to < s.from

\* The queue stays at or below height n.
Within(Q, n) == \A s \in Q : s.to <= n

\* The queue begins right above base and has no hole.
Continues(Q, base) ==
    /\ \A s \in Q : s.from > base
    /\ \A s \in Q : s.from = base + 1 \/ \E t \in Q : t.to + 1 = s.from

-----------------------------------------------------------------------------

LEMMA LeastElement ==
    ASSUME NEW S \in SUBSET Nat, S # {}
    PROVE  \E x \in S : \A y \in S : x <= y
  <1> DEFINE R == OpToRel(<, Nat)
  <1>1. IsWellFoundedOn(R, Nat)
    BY NatLessThanWellFounded
  <1>2. \A x, y \in Nat : y < x => <<y, x>> \in R
    BY DEF OpToRel
  <1> HIDE DEF R
  <1>3. \E x \in S : \A y \in S : ~(<<y, x>> \in R)
    BY <1>1, WFMin
  <1>4. \E x \in S : \A y \in S : ~(y < x)
    BY <1>2, <1>3, Zenon
  <1> QED
    BY <1>4

LEMMA FrontIsLeast ==
    ASSUME NEW Q, Q # {}, \A s \in Q : s.from \in Nat
    PROVE  Front(Q) \in Q /\ \A t \in Q : Front(Q).from <= t.from
  <1> DEFINE S == {s.from : s \in Q}
  <1>1. \E x \in S : \A y \in S : x <= y
    BY LeastElement
  <1>2. \E s \in Q : \A t \in Q : s.from <= t.from
    BY <1>1
  <1> QED
    BY <1>2 DEF Front

LEMMA BackIsGreatest ==
    ASSUME NEW Q, Q # {}, IsQueue(Q), NEW n \in Nat, Within(Q, n)
    PROVE  Back(Q) \in Q /\ \A t \in Q : t.from <= Back(Q).from
  <1> DEFINE S == {n - s.from : s \in Q}
  <1>1. \A s \in Q : n - s.from \in Nat
    BY DEF IsQueue, Within
  <1>2. \E x \in S : \A y \in S : x <= y
    BY <1>1, LeastElement
  <1>3. \E s \in Q : \A t \in Q : n - s.from <= n - t.from
    BY <1>2
  <1>4. \E s \in Q : \A t \in Q : t.from <= s.from
    BY <1>3 DEF IsQueue
  <1> QED
    BY <1>4 DEF Back

LEMMA QueueIsFinite ==
    ASSUME NEW Q, IsQueue(Q), NEW n \in Nat, Within(Q, n)
    PROVE  IsFiniteSet(Q)
  <1> DEFINE f == [s \in Q |-> s.from]
  <1>1. f \in [Q -> 0 .. n]
    BY DEF IsQueue, Within
  <1>2. \A s, t \in Q : s.from = t.from => s = t
    BY DEF IsQueue
  <1>3. f \in Injection(Q, 0 .. n)
    BY <1>1, <1>2 DEF Injection, IsInjective
  <1>4. IsFiniteSet(0 .. n)
    BY FS_Interval
  <1> QED
    BY <1>3, <1>4, FS_Injection

\* The last item of a queue ends it.
LEMMA BackEndsQueue ==
    ASSUME NEW Q, Q # {}, IsQueue(Q), NEW n \in Nat, Within(Q, n)
    PROVE  Back(Q) \in Q /\ \A t \in Q : t.to <= Back(Q).to
  <1>1. Back(Q) \in Q /\ \A t \in Q : t.from <= Back(Q).from
    BY BackIsGreatest
  <1> QED
    BY <1>1 DEF IsQueue

-----------------------------------------------------------------------------

\* In front of an item of a queue without holes findGaps finds nothing.
LEMMA NoInnerGap ==
    ASSUME NEW Q, IsQueue(Q), NEW n \in Nat, Within(Q, n),
           NEW base \in Nat, Continues(Q, base), NEW p \in Q
    PROVE  PrevTo(Before(Q, p.from), base + 1) + 1 = p.from
  <1> DEFINE B == Before(Q, p.from)
  <1>1. IsQueue(B) /\ Within(B, n) /\ B \subseteq Q
    BY DEF IsQueue, Within, Before
  <1>2. CASE p.from = base + 1
    <2>1. B = {}
      BY <1>2 DEF Before, Continues, IsQueue
    <2> QED
      BY <1>2, <2>1 DEF PrevTo
  <1>3. CASE \E t \in Q : t.to + 1 = p.from
    <2>1. PICK t \in Q : t.to + 1 = p.from
      BY <1>3
    <2>2. t \in B
      BY <2>1 DEF Before, IsQueue
    <2>3. Back(B) \in B /\ \A u \in B : u.from <= Back(B).from
      BY <1>1, <2>2, BackIsGreatest
    <2>4. Back(B).from < p.from /\ Back(B) \in Q
      BY <2>3 DEF Before
    <2>5. Back(B) = t
      BY <2>1, <2>2, <2>3, <2>4 DEF IsQueue
    <2> QED
      BY <2>1, <2>2, <2>5 DEF PrevTo
  <1> QED
    BY <1>2, <1>3 DEF Continues

\* The end of a queue that continues base: base itself when it is empty.
LEMMA QueueEnd ==
    ASSUME NEW Q, IsQueue(Q), NEW n \in Nat, Within(Q, n),
           NEW base \in Nat, Continues(Q, base)
    PROVE  /\ PrevTo(Q, base + 1) \in Nat
           /\ PrevTo(Q, base + 1) >= base
           /\ \A s \in Q : s.to <= PrevTo(Q, base + 1)
           /\ \/ PrevTo(Q, base + 1) = base
              \/ \E s \in Q : s.to = PrevTo(Q, base + 1)
  <1>1. CASE Q = {}
    BY <1>1 DEF PrevTo
  <1>2. CASE Q # {}
    <2>1. Back(Q) \in Q /\ \A t \in Q : t.to <= Back(Q).to
      BY <1>2, BackEndsQueue
    <2>2. PrevTo(Q, base + 1) = Back(Q).to
      BY <1>2 DEF PrevTo
    <2>3. Back(Q).to \in Nat /\ Back(Q).to >= base
      BY <2>1 DEF IsQueue, Continues
    <2> QED
      BY <2>1, <2>2, <2>3
  <1> QED
    BY <1>1, <1>2

\* So the only gap findGaps sees is the one behind the queue.
LEMMA OnlyTailGap ==
    ASSUME NEW Q, IsQueue(Q), NEW n \in Nat, Within(Q, n),
           NEW base \in Nat, Continues(Q, base), NEW end \in Nat, base < end
    PROVE  \A gap \in FreeRanges(Q, base + 1, end) :
               /\ gap = [from |-> PrevTo(Q, base + 1) + 1, to |-> end]
               /\ PrevTo(Q, base + 1) < end
  <1>1. \A p \in Q : ~(p.from > PrevTo(Before(Q, p.from), base + 1) + 1)
    <2> TAKE p \in Q
    <2>1. PrevTo(Before(Q, p.from), base + 1) + 1 = p.from
      BY NoInnerGap
    <2>2. p.from \in Nat
      BY DEF IsQueue
    <2> QED
      BY <2>1, <2>2
  <1>2. {p \in Q : p.from > PrevTo(Before(Q, p.from), base + 1) + 1} = {}
    BY <1>1
  <1>3. Q = {} => PrevTo(Q, base + 1) < end
    BY DEF PrevTo
  <1> QED
    BY <1>2, <1>3 DEF FreeRanges

-----------------------------------------------------------------------------
(* The division of a gap. *)

LEMMA PieceShape ==
    ASSUME NEW a \in Nat, NEW b \in Nat, NEW m \in Nat, m > 0,
           NEW k \in Steps([from |-> a, to |-> b], m)
    PROVE  LET p == Piece([from |-> a, to |-> b], k, m)
           IN  /\ p \in [from : Nat, to : Nat]
               /\ a <= p.from /\ p.from <= p.to /\ p.to <= b
               /\ p.from = a + k * m
               /\ p.to < a + k * m + m
               /\ p.to = b \/ p.to + 1 = a + k * m + m
  <1>1. k \in Nat /\ k * m \in Nat /\ a + k * m <= b
    BY DEF Steps
  <1> DEFINE i == a + k * m
  <1>2. i \in Nat /\ a <= i /\ i <= b
    BY <1>1
  <1>3. Piece([from |-> a, to |-> b], k, m)
          = [from |-> i, to |-> IF i + m - 1 > b THEN b ELSE i + m - 1]
    BY DEF Piece
  <1> HIDE DEF i
  <1>4. LET p == Piece([from |-> a, to |-> b], k, m)
        IN  /\ p \in [from : Nat, to : Nat]
            /\ a <= p.from /\ p.from <= p.to /\ p.to <= b
            /\ p.from = i
            /\ p.to < i + m
            /\ p.to = b \/ p.to + 1 = i + m
    BY <1>2, <1>3
  <1> QED
    BY <1>4 DEF i

\* j > k comes at least one full chunk later.
LEMMA StepsApart ==
    ASSUME NEW m \in Nat, NEW k \in Nat, NEW j \in Nat, k < j
    PROVE  k * m + m <= j * m
  <1>1. j - k - 1 \in Nat
    OBVIOUS
  <1>2. (j - k - 1) * m \in Nat
    BY <1>1
  <1>3. j * m = k * m + m + (j - k - 1) * m
    OBVIOUS
  <1>4. k * m \in Nat /\ j * m \in Nat
    OBVIOUS
  <1> QED
    BY <1>2, <1>3, <1>4

\* Two ranges of a gap do not overlap.
LEMMA PiecesDisjoint ==
    ASSUME NEW a \in Nat, NEW b \in Nat, NEW m \in Nat, m > 0,
           NEW g \in Divide([from |-> a, to |-> b], m),
           NEW h \in Divide([from |-> a, to |-> b], m), g # h
    PROVE  g.to < h.from \/ h.to < g.from
  <1> DEFINE gap == [from |-> a, to |-> b]
  <1>1. PICK k \in Steps(gap, m) : g = Piece(gap, k, m)
    BY DEF Divide
  <1>2. PICK j \in Steps(gap, m) : h = Piece(gap, j, m)
    BY DEF Divide
  <1>3. k \in Nat /\ j \in Nat /\ k # j
    BY <1>1, <1>2 DEF Steps
  <1>4. g.from = a + k * m /\ g.to < a + k * m + m /\ g.to \in Nat /\ g.from \in Nat
    BY <1>1, PieceShape
  <1>5. h.from = a + j * m /\ h.to < a + j * m + m /\ h.to \in Nat /\ h.from \in Nat
    BY <1>2, PieceShape
  <1>6. k * m \in Nat /\ j * m \in Nat
    BY <1>3
  <1>7. CASE k < j
    <2>1. k * m + m <= j * m
      BY <1>3, <1>7, StepsApart
    <2> QED
      BY <1>4, <1>5, <1>6, <2>1
  <1>8. CASE j < k
    <2>1. j * m + m <= k * m
      BY <1>3, <1>8, StepsApart
    <2> QED
      BY <1>4, <1>5, <1>6, <2>1
  <1> QED
    BY <1>3, <1>7, <1>8

\* Each range but the first begins where another one ends.
LEMMA PiecesContinue ==
    ASSUME NEW a \in Nat, NEW b \in Nat, NEW m \in Nat, m > 0,
           NEW g \in Divide([from |-> a, to |-> b], m), g.from # a
    PROVE  \E h \in Divide([from |-> a, to |-> b], m) : h.to + 1 = g.from
  <1> DEFINE gap == [from |-> a, to |-> b]
  <1>1. PICK k \in Steps(gap, m) : g = Piece(gap, k, m)
    BY DEF Divide
  <1>2. k \in 0 .. b - a /\ a + k * m <= b /\ g.from = a + k * m /\ k * m \in Nat
    BY <1>1, PieceShape DEF Steps
  <1>3. k # 0
    BY <1>2
  <1>4. k - 1 \in Nat /\ (k - 1) * m = k * m - m /\ k - 1 \in 0 .. b - a
    BY <1>2, <1>3
  <1>5. (k - 1) * m \in Nat
    BY <1>4
  <1>6. k - 1 \in Steps(gap, m)
    BY <1>2, <1>4, <1>5 DEF Steps
  <1> DEFINE h == Piece(gap, k - 1, m)
  <1>7. h \in Divide(gap, m)
    BY <1>6 DEF Divide
  <1>8. h.to \in Nat /\ (h.to = b \/ h.to + 1 = a + k * m) /\ h.to < a + k * m
    BY <1>2, <1>4, <1>5, <1>6, PieceShape
  <1>9. h.to + 1 = g.from
    BY <1>2, <1>8
  <1> QED
    BY <1>7, <1>9

-----------------------------------------------------------------------------
(* reserveChunkRanges. *)

\* The ranges chosen are the lowest ones.
LEMMA LowestIsDownwardClosed ==
    ASSUME NEW R, IsFiniteSet(R), \A r \in R : r.from \in Nat, NEW n \in Int,
           NEW r \in Lowest(R, n), NEW t \in R, t.from < r.from
    PROVE  t \in Lowest(R, n)
  <1>1. r \in R /\ Cardinality(Before(R, r.from)) < n
    BY DEF Lowest
  <1>2. Before(R, t.from) \subseteq Before(R, r.from) /\ Before(R, r.from) \subseteq R
    BY <1>1 DEF Before
  <1>3. IsFiniteSet(Before(R, r.from))
    BY <1>2, FS_Subset
  <1>4. /\ IsFiniteSet(Before(R, t.from))
        /\ Cardinality(Before(R, t.from)) <= Cardinality(Before(R, r.from))
    BY <1>2, <1>3, FS_Subset
  <1>5. Cardinality(Before(R, t.from)) \in Nat /\ Cardinality(Before(R, r.from)) \in Nat
    BY <1>3, <1>4, FS_CardinalityType
  <1>6. Cardinality(Before(R, t.from)) < n
    BY <1>1, <1>4, <1>5
  <1> QED
    BY <1>6 DEF Lowest

\* The ranges of findGaps behind a queue that continues base.
LEMMA GapsBehindQueue ==
    ASSUME NEW Q, IsQueue(Q), NEW n \in Nat, Within(Q, n),
           NEW base \in Nat, Continues(Q, base), NEW end \in Nat, base < end,
           NEW m \in Nat, m > 0
    PROVE  LET R == FindGaps(Q, base + 1, end, m)
           IN  /\ R \subseteq [from : Nat, to : Nat]
               /\ IsQueue(R) /\ Within(R, end)
               /\ \A g \in R : base < g.from /\ \A s \in Q : s.to < g.from
               /\ \A g \in R : \/ g.from = base + 1
                               \/ \E s \in Q : s.to + 1 = g.from
                               \/ \E h \in R : h.to + 1 = g.from
  <1> DEFINE R == FindGaps(Q, base + 1, end, m)
             last == PrevTo(Q, base + 1)
             D == Divide([from |-> last + 1, to |-> end], m)
  <1>1. /\ last \in Nat /\ last >= base
        /\ \A s \in Q : s.to <= last
        /\ last = base \/ \E s \in Q : s.to = last
    BY QueueEnd
  <1>2. \A gap \in FreeRanges(Q, base + 1, end) : gap = [from |-> last + 1, to |-> end]
    BY OnlyTailGap
  <1> HIDE DEF last
  <1>3. R = {} \/ R = D
    BY <1>2 DEF FindGaps
  <1>4. CASE R = {}
    BY <1>4 DEF IsQueue, Within
  <1>5. CASE R = D
    <2>1. last + 1 \in Nat
      BY <1>1
    <2>2. ASSUME NEW g \in D
          PROVE  /\ g \in [from : Nat, to : Nat]
                 /\ last + 1 <= g.from /\ g.from <= g.to /\ g.to <= end
      <3>1. PICK k \in Steps([from |-> last + 1, to |-> end], m) :
                g = Piece([from |-> last + 1, to |-> end], k, m)
        BY DEF Divide
      <3> QED
        BY <2>1, <3>1, PieceShape
    <2>3. D \subseteq [from : Nat, to : Nat]
      BY <2>2
    <2>4. \A g, h \in D : g # h => g.to < h.from \/ h.to < g.from
      BY <2>1, PiecesDisjoint
    <2>5. \A g \in D : g.from # last + 1 => \E h \in D : h.to + 1 = g.from
      BY <2>1, PiecesContinue
    <2> HIDE DEF D
    <2>6. IsQueue(D) /\ Within(D, end)
      BY <2>2, <2>4 DEF IsQueue, Within
    <2>7. \A g \in D : base < g.from /\ \A s \in Q : s.to < g.from
      BY <1>1, <2>2 DEF IsQueue
    <2>8. \A g \in D : \/ g.from = base + 1
                       \/ \E s \in Q : s.to + 1 = g.from
                       \/ \E h \in D : h.to + 1 = g.from
      BY <1>1, <2>5
    <2> QED
      BY <1>5, <2>3, <2>6, <2>7, <2>8
  <1> QED
    BY <1>3, <1>4, <1>5

\* reserveChunkRanges extends a queue that continues base: the new ranges lie
\* above base and behind the queue, end at or below end, do not overlap, and
\* leave no hole.
THEOREM ReservationsExtendQueue ==
    ASSUME NEW Q, IsQueue(Q), NEW n \in Nat, Within(Q, n),
           NEW base \in Nat, Continues(Q, base), NEW end \in Nat, base < end,
           NEW m \in Nat, m > 0, NEW maxSlots \in Nat
    PROVE  LET G == ReserveChunkRanges(Q, base + 1, end, m, maxSlots)
           IN  /\ G \subseteq [from : Nat, to : Nat]
               /\ IsQueue(G) /\ Within(G, end)
               /\ \A g \in G : base < g.from /\ \A s \in Q : s.to < g.from
               /\ \A g \in G : \/ g.from = base + 1
                               \/ \E s \in Q : s.to + 1 = g.from
                               \/ \E h \in G : h.to + 1 = g.from
  <1> DEFINE R == FindGaps(Q, base + 1, end, m)
             free == maxSlots - Cardinality(Q)
             G == Lowest(R, free)
  <1>1. /\ R \subseteq [from : Nat, to : Nat]
        /\ IsQueue(R) /\ Within(R, end)
        /\ \A g \in R : base < g.from /\ \A s \in Q : s.to < g.from
        /\ \A g \in R : \/ g.from = base + 1
                        \/ \E s \in Q : s.to + 1 = g.from
                        \/ \E h \in R : h.to + 1 = g.from
    BY GapsBehindQueue
  <1>2. IsFiniteSet(R) /\ free \in Int
    BY <1>1, QueueIsFinite, FS_CardinalityType
  <1>3. ReserveChunkRanges(Q, base + 1, end, m, maxSlots) = G
    BY DEF ReserveChunkRanges
  <1> HIDE DEF R, free
  <1>4. G \subseteq R
    BY DEF Lowest
  <1>5. ASSUME NEW g \in G, NEW h \in R, h.to + 1 = g.from
        PROVE  h \in G
    <2>1. h.from < g.from /\ \A r \in R : r.from \in Nat
      BY <1>1, <1>4, <1>5 DEF IsQueue
    <2> QED
      BY <1>2, <2>1, LowestIsDownwardClosed
  <1> HIDE DEF G
  <1>6. IsQueue(G) /\ Within(G, end)
    BY <1>1, <1>4 DEF IsQueue, Within
  <1>7. \A g \in G : \/ g.from = base + 1
                     \/ \E s \in Q : s.to + 1 = g.from
                     \/ \E h \in G : h.to + 1 = g.from
    BY <1>1, <1>4, <1>5
  <1> QED
    BY <1>1, <1>3, <1>4, <1>6, <1>7

\* A slice of n ranges has at most n.
LEMMA LowestSize ==
    ASSUME NEW R, IsQueue(R), NEW n \in Nat, Within(R, n), NEW k \in Nat
    PROVE  IsFiniteSet(Lowest(R, k)) /\ Cardinality(Lowest(R, k)) <= k
  <1> DEFINE L == Lowest(R, k)
             b == Back(L)
             B == Before(R, b.from)
  <1>1. L \subseteq R /\ IsQueue(L) /\ Within(L, n)
    BY DEF Lowest, IsQueue, Within
  <1>2. CASE L = {}
    BY <1>2, FS_EmptySet
  <1>3. CASE L # {}
    <2>1. b \in L /\ \A t \in L : t.from <= b.from
      BY <1>1, <1>3, BackIsGreatest
    <2>2. Cardinality(B) < k
      BY <2>1 DEF Lowest
    <2> HIDE DEF L, b
    <2>3. IsFiniteSet(B)
      BY QueueIsFinite, FS_Subset DEF Before
    <2>4. L \subseteq B \cup {b}
      BY <1>1, <2>1 DEF Before, IsQueue
    <2>5. b \notin B
      BY <1>1, <2>1 DEF Before, IsQueue
    <2>6. IsFiniteSet(B \cup {b}) /\ Cardinality(B \cup {b}) = Cardinality(B) + 1
      BY <2>3, <2>5, FS_AddElement
    <2>7. IsFiniteSet(L) /\ Cardinality(L) <= Cardinality(B \cup {b})
      BY <2>4, <2>6, FS_Subset
    <2>8. Cardinality(B) \in Nat /\ Cardinality(L) \in Nat
      BY <2>3, <2>7, FS_CardinalityType
    <2> QED
      BY <2>2, <2>6, <2>7, <2>8 DEF L
  <1> QED
    BY <1>2, <1>3

\* reserveChunkRanges stays within its two limits: no range has more than
\* maxChunkSize heights, and queue and new ranges together do not exceed
\* maxSlots.
THEOREM ReservationsAreBounded ==
    ASSUME NEW Q, IsQueue(Q), NEW n \in Nat, Within(Q, n),
           NEW base \in Nat, Continues(Q, base), NEW end \in Nat, base < end,
           NEW m \in Nat, m > 0, NEW maxSlots \in Nat
    PROVE  LET G == ReserveChunkRanges(Q, base + 1, end, m, maxSlots)
           IN  /\ \A g \in G : g.to - g.from < m
               /\ IsFiniteSet(G)
               /\ Cardinality(Q) <= maxSlots => Cardinality(Q) + Cardinality(G) <= maxSlots
  <1> DEFINE R == FindGaps(Q, base + 1, end, m)
             free == maxSlots - Cardinality(Q)
             last == PrevTo(Q, base + 1)
  <1>1. ReserveChunkRanges(Q, base + 1, end, m, maxSlots) = Lowest(R, free)
    BY DEF ReserveChunkRanges
  <1>2. ASSUME NEW g \in R PROVE g.to - g.from < m
    <2>1. PICK gap \in FreeRanges(Q, base + 1, end) : g \in Divide(gap, m)
      BY DEF FindGaps
    <2>2. gap = [from |-> last + 1, to |-> end]
      BY OnlyTailGap
    <2>3. last + 1 \in Nat
      BY QueueEnd
    <2> HIDE DEF last
    <2>4. PICK k \in Steps([from |-> last + 1, to |-> end], m) :
              g = Piece([from |-> last + 1, to |-> end], k, m)
      BY <2>1, <2>2 DEF Divide
    <2>5. g.from \in Nat /\ g.to \in Nat /\ g.from = last + 1 + k * m /\ g.to < last + 1 + k * m + m
      BY <2>3, <2>4, PieceShape
    <2>6. g.to < g.from + m
      BY <2>5
    <2> QED
      BY <2>5, <2>6
  <1>3. IsQueue(R) /\ Within(R, end)
    BY GapsBehindQueue
  <1>4. IsFiniteSet(Q) /\ Cardinality(Q) \in Nat
    BY QueueIsFinite, FS_CardinalityType
  <1> HIDE DEF R
  <1>5. Lowest(R, free) \subseteq R
    BY DEF Lowest
  <1>6. IsFiniteSet(Lowest(R, free))
    BY <1>3, <1>5, QueueIsFinite, FS_Subset
  <1>7. ASSUME Cardinality(Q) <= maxSlots
        PROVE  Cardinality(Q) + Cardinality(Lowest(R, free)) <= maxSlots
    <2>1. free \in Nat
      BY <1>4, <1>7
    <2>2. Cardinality(Lowest(R, free)) <= free
      BY <1>3, <2>1, LowestSize
    <2>3. Cardinality(Lowest(R, free)) \in Nat
      BY <1>6, FS_CardinalityType
    <2> QED
      BY <1>4, <2>2, <2>3
  <1> QED
    BY <1>1, <1>2, <1>5, <1>6, <1>7

-----------------------------------------------------------------------------
(* Any queue between start and end: holes before, between and behind items. *)

\* A queue of reservations among the heights start .. end.
Reserves(Q, start, end) ==
    IsQueue(Q) /\ Within(Q, end) /\ \A s \in Q : start <= s.from

\* A free range that cannot be made longer.
IsGap(g, Q, start, end) ==
    /\ g \in [from : Nat, to : Nat]
    /\ start <= g.from /\ g.from <= g.to /\ g.to <= end
    /\ \A t \in Q : t.to < g.from \/ g.to < t.from
    /\ g.from = start \/ \E t \in Q : t.to + 1 = g.from
    /\ g.to = end \/ \E t \in Q : g.to + 1 = t.from

\* prevTo when findGaps reaches an item: no item before it goes further.
LEMMA PrevToBefore ==
    ASSUME NEW Q, NEW start \in Nat, NEW end \in Nat, Reserves(Q, start, end), NEW p \in Q
    PROVE  LET a == PrevTo(Before(Q, p.from), start) + 1
           IN  /\ a \in Nat /\ start <= a /\ a <= p.from
               /\ \A t \in Q : t.from < p.from => t.to < a
               /\ a = start \/ \E t \in Q : t.to + 1 = a
  <1> DEFINE B == Before(Q, p.from)
             a == PrevTo(B, start) + 1
  <1>1. B \subseteq Q /\ IsQueue(B) /\ Within(B, end)
    BY DEF Reserves, Before, IsQueue, Within
  <1>2. p.from \in Nat /\ start <= p.from
    BY DEF Reserves, IsQueue
  <1>3. CASE B = {}
    <2>1. a = start
      BY <1>3 DEF PrevTo
    <2> QED
      BY <1>2, <1>3, <2>1 DEF Before
  <1>4. CASE B # {}
    <2>1. Back(B) \in B /\ \A t \in B : t.to <= Back(B).to
      BY <1>1, <1>4, BackEndsQueue
    <2>2. a = Back(B).to + 1
      BY <1>4 DEF PrevTo
    <2>3. Back(B) \in Q /\ Back(B).from < p.from
      BY <2>1 DEF Before
    <2>4. /\ Back(B).to \in Nat /\ Back(B).from \in Nat /\ Back(B).from <= Back(B).to
          /\ start <= Back(B).from /\ Back(B).to < p.from
      BY <1>2, <2>3 DEF Reserves, IsQueue
    <2>5. \A t \in Q : t.from < p.from => t.to <= Back(B).to /\ t.to \in Nat
      BY <2>1 DEF Before, Reserves, IsQueue
    <2> QED
      BY <1>2, <2>2, <2>3, <2>4, <2>5
  <1> QED
    BY <1>3, <1>4

\* prevTo behind the last item.
LEMMA PrevToAll ==
    ASSUME NEW Q, NEW start \in Nat, NEW end \in Nat, start <= end, Reserves(Q, start, end)
    PROVE  /\ PrevTo(Q, start) \in Int /\ start <= PrevTo(Q, start) + 1
           /\ \A t \in Q : t.to <= PrevTo(Q, start)
           /\ PrevTo(Q, start) + 1 = start \/ \E t \in Q : t.to = PrevTo(Q, start)
  <1>1. CASE Q = {}
    BY <1>1 DEF PrevTo
  <1>2. CASE Q # {}
    <2>1. Back(Q) \in Q /\ \A t \in Q : t.to <= Back(Q).to
      BY <1>2, BackEndsQueue DEF Reserves
    <2>2. PrevTo(Q, start) = Back(Q).to
      BY <1>2 DEF PrevTo
    <2>3. Back(Q).to \in Nat /\ start <= Back(Q).to
      BY <2>1 DEF Reserves, IsQueue
    <2> QED
      BY <2>1, <2>2, <2>3
  <1> QED
    BY <1>1, <1>2

LEMMA FreeRangesAreGaps ==
    ASSUME NEW Q, NEW start \in Nat, NEW end \in Nat, start <= end, Reserves(Q, start, end),
           NEW g \in FreeRanges(Q, start, end)
    PROVE  IsGap(g, Q, start, end)
  <1>1. ASSUME NEW p \in Q, p.from > PrevTo(Before(Q, p.from), start) + 1,
               g = [from |-> PrevTo(Before(Q, p.from), start) + 1, to |-> p.from - 1]
        PROVE  IsGap(g, Q, start, end)
    <2> DEFINE a == PrevTo(Before(Q, p.from), start) + 1
    <2>1. /\ a \in Nat /\ start <= a
          /\ \A t \in Q : t.from < p.from => t.to < a
          /\ a = start \/ \E t \in Q : t.to + 1 = a
      BY PrevToBefore
    <2>2. g = [from |-> a, to |-> p.from - 1] /\ a < p.from
      BY <1>1, <2>1 DEF Reserves, IsQueue
    <2> HIDE DEF a
    <2>3. p.from \in Nat /\ p.from <= end /\ \A t \in Q : t.from \in Nat
      BY DEF Reserves, IsQueue, Within
    <2>4. g.from = a /\ g.to = p.from - 1 /\ g \in [from : Nat, to : Nat]
      BY <2>1, <2>2, <2>3
    <2>5. \A t \in Q : t.to < g.from \/ g.to < t.from
      BY <2>1, <2>3, <2>4
    <2>6. g.to + 1 = p.from
      BY <2>3, <2>4
    <2> QED
      BY <2>1, <2>2, <2>3, <2>4, <2>5, <2>6 DEF IsGap
  <1>2. ASSUME Q = {} \/ PrevTo(Q, start) < end, g = [from |-> PrevTo(Q, start) + 1, to |-> end]
        PROVE  IsGap(g, Q, start, end)
    <2>1. /\ PrevTo(Q, start) \in Int /\ start <= PrevTo(Q, start) + 1
          /\ \A t \in Q : t.to <= PrevTo(Q, start)
          /\ PrevTo(Q, start) + 1 = start \/ \E t \in Q : t.to = PrevTo(Q, start)
      BY PrevToAll
    <2>2. PrevTo(Q, start) < end
      BY <1>2 DEF PrevTo
    <2>3. g.from = PrevTo(Q, start) + 1 /\ g.to = end /\ g \in [from : Nat, to : Nat] /\ g.from <= g.to
      BY <1>2, <2>1, <2>2
    <2>4. \A t \in Q : t.to < g.from
      BY <2>1, <2>3 DEF Reserves, IsQueue
    <2> QED
      BY <2>1, <2>3, <2>4 DEF IsGap
  <1> QED
    BY <1>1, <1>2 DEF FreeRanges

LEMMA FreeHeightHasGap ==
    ASSUME NEW Q, NEW start \in Nat, NEW end \in Nat, Reserves(Q, start, end),
           NEW h \in start .. end, h \notin Heights(Q)
    PROVE  \E g \in FreeRanges(Q, start, end) : h \in g.from .. g.to
  <1> DEFINE A == {s \in Q : s.from > h}
  <1>0. start <= end /\ h \in Nat
    OBVIOUS
  <1>1. \A s \in Q : s.from \in Nat /\ s.to \in Nat /\ (s.to < h \/ s.from > h)
    <2> TAKE s \in Q
    <2>1. s.from \in Nat /\ s.to \in Nat
      BY DEF Reserves, IsQueue
    <2>2. h \notin s.from .. s.to
      BY DEF Heights
    <2> QED
      BY <1>0, <2>1, <2>2
  <1>2. CASE A = {}
    <2>1. /\ PrevTo(Q, start) \in Int /\ start <= PrevTo(Q, start) + 1
          /\ PrevTo(Q, start) + 1 = start \/ \E t \in Q : t.to = PrevTo(Q, start)
      BY <1>0, PrevToAll
    <2>2. PrevTo(Q, start) < h
      BY <1>0, <1>1, <1>2, <2>1
    <2> DEFINE g == [from |-> PrevTo(Q, start) + 1, to |-> end]
    <2>3. g \in FreeRanges(Q, start, end)
      BY <2>1, <2>2 DEF FreeRanges
    <2>4. h \in g.from .. g.to
      BY <2>1, <2>2
    <2> QED
      BY <2>3, <2>4
  <1>3. CASE A # {}
    <2> DEFINE p == Front(A)
               a == PrevTo(Before(Q, p.from), start) + 1
               g == [from |-> a, to |-> p.from - 1]
    <2>1. p \in A /\ \A t \in A : p.from <= t.from
      BY <1>1, <1>3, FrontIsLeast
    <2> HIDE DEF p
    <2>2. p \in Q /\ p.from > h /\ p.from \in Nat
      BY <1>1, <2>1
    <2>3. a \in Nat /\ (a = start \/ \E t \in Q : t.to + 1 = a) /\ a <= p.from
      BY <2>2, PrevToBefore
    <2>4. a <= h
      <3>1. CASE a = start
        BY <3>1
      <3>2. ASSUME NEW t \in Q, t.to + 1 = a PROVE a <= h
        <4>1. t.to < p.from /\ t.from <= t.to
          BY <1>1, <2>2, <2>3, <3>2 DEF Reserves, IsQueue
        <4>2. t \notin A
          BY <1>1, <2>1, <2>2, <4>1
        <4>3. t.to < h
          BY <1>1, <4>2
        <4> QED
          BY <1>1, <3>2, <4>3
      <3> QED
        BY <2>3, <3>1, <3>2
    <2>5. g \in FreeRanges(Q, start, end)
      BY <2>2, <2>3, <2>4 DEF FreeRanges
    <2> HIDE DEF a
    <2>6. h \in g.from .. g.to
      BY <2>2, <2>3, <2>4
    <2> QED
      BY <2>5, <2>6
  <1> QED
    BY <1>2, <1>3

\* Two gaps that share a height are one.
LEMMA GapsApart ==
    ASSUME NEW Q, NEW start \in Nat, NEW end \in Nat, Reserves(Q, start, end),
           NEW g, IsGap(g, Q, start, end), NEW k, IsGap(k, Q, start, end), g # k
    PROVE  g.to < k.from \/ k.to < g.from
  <1> SUFFICES ASSUME ~(g.to < k.from), ~(k.to < g.from) PROVE FALSE
    OBVIOUS
  <1>1. /\ g.from \in Nat /\ g.to \in Nat /\ g.from <= g.to /\ start <= g.from /\ g.to <= end
        /\ k.from \in Nat /\ k.to \in Nat /\ k.from <= k.to /\ start <= k.from /\ k.to <= end
    BY DEF IsGap
  <1>2. \A t \in Q : /\ t.from \in Nat /\ t.to \in Nat /\ t.from <= t.to
                     /\ t.to < g.from \/ g.to < t.from
                     /\ t.to < k.from \/ k.to < t.from
    BY DEF Reserves, IsQueue, IsGap
  <1>3. g.from = k.from
    <2>1. ~(g.from < k.from)
      BY <1>1, <1>2 DEF IsGap
    <2>2. ~(k.from < g.from)
      BY <1>1, <1>2 DEF IsGap
    <2> QED
      BY <1>1, <2>1, <2>2
  <1>4. g.to = k.to
    <2>1. ~(g.to < k.to)
      BY <1>1, <1>2 DEF IsGap
    <2>2. ~(k.to < g.to)
      BY <1>1, <1>2 DEF IsGap
    <2> QED
      BY <1>1, <2>1, <2>2
  <1>5. g \in [from : Nat, to : Nat] /\ k \in [from : Nat, to : Nat]
    BY DEF IsGap
  <1> QED
    BY <1>3, <1>4, <1>5

\* The division of a gap loses no height of it.
LEMMA PiecesCover ==
    ASSUME NEW a \in Nat, NEW b \in Nat, NEW m \in Nat, m > 0, NEW h \in a .. b
    PROVE  \E r \in Divide([from |-> a, to |-> b], m) : h \in r.from .. r.to
  <1> DEFINE S == {k \in Nat : h < a + k * m + m}
             gap == [from |-> a, to |-> b]
  <1>1. h \in Nat
    OBVIOUS
  <1>2. h \in S
    <2>1. h * m >= h
      <3>1. m - 1 \in Nat
        OBVIOUS
      <3>2. h * (m - 1) \in Nat
        BY <1>1, <3>1
      <3>3. h * m = h + h * (m - 1)
        BY <1>1
      <3> QED
        BY <1>1, <3>2, <3>3
    <2>2. h * m \in Nat
      BY <1>1
    <2> QED
      BY <1>1, <2>1, <2>2
  <1>3. PICK k \in S : \A j \in S : k <= j
    BY <1>2, LeastElement
  <1>4. k \in Nat /\ k * m \in Nat /\ h < a + k * m + m
    BY <1>3
  <1>5. a + k * m <= h
    <2>1. CASE k = 0
      BY <2>1
    <2>2. CASE k # 0
      <3>1. k - 1 \in Nat /\ k - 1 \notin S
        BY <1>3, <1>4, <2>2
      <3>2. (k - 1) * m = k * m - m
        BY <1>4
      <3>3. ~(h < a + (k - 1) * m + m)
        BY <3>1
      <3> QED
        BY <1>1, <1>4, <3>2, <3>3
    <2> QED
      BY <2>1, <2>2
  <1>6. k <= k * m
    <2>1. m - 1 \in Nat
      OBVIOUS
    <2>2. k * (m - 1) \in Nat
      BY <1>4, <2>1
    <2>3. k * m = k + k * (m - 1)
      BY <1>4
    <2> QED
      BY <1>4, <2>2, <2>3
  <1>7. k \in 0 .. b - a /\ a + k * m <= b
    BY <1>1, <1>4, <1>5, <1>6
  <1>8. k \in Steps(gap, m)
    BY <1>7 DEF Steps
  <1> DEFINE r == Piece(gap, k, m)
  <1>9. r \in Divide(gap, m)
    BY <1>8 DEF Divide
  <1>10. /\ r.from \in Nat /\ r.to \in Nat /\ r.from = a + k * m
         /\ r.to = b \/ r.to + 1 = a + k * m + m
    BY <1>8, PieceShape
  <1> HIDE DEF r
  <1>11. h \in r.from .. r.to
    BY <1>1, <1>4, <1>5, <1>10
  <1> QED
    BY <1>9, <1>11

\* findGaps on any queue: the ranges it returns are exactly the free heights
\* between start and end, cut into disjoint ranges of at most maxSize heights
\* that are not shorter than need be.
THEOREM FindGapsIsExact ==
    ASSUME NEW Q, NEW start \in Nat, NEW end \in Nat, start <= end, Reserves(Q, start, end),
           NEW maxSize \in Nat, maxSize > 0
    PROVE  GapsAreFreeHeights(Q, start, end, maxSize)
  <1> DEFINE R == FindGaps(Q, start, end, maxSize)
  <1>1. ASSUME NEW r \in R
        PROVE  \E g \in FreeRanges(Q, start, end) :
                   /\ r \in Divide(g, maxSize) /\ IsGap(g, Q, start, end)
                   /\ r \in [from : Nat, to : Nat]
                   /\ g.from <= r.from /\ r.from <= r.to /\ r.to <= g.to
                   /\ r.to - r.from < maxSize
                   /\ r.to = g.to \/ r.to - r.from + 1 = maxSize
    <2>1. PICK g \in FreeRanges(Q, start, end) : r \in Divide(g, maxSize)
      BY DEF FindGaps
    <2>2. IsGap(g, Q, start, end)
      BY FreeRangesAreGaps
    <2>3. g = [from |-> g.from, to |-> g.to] /\ g.from \in Nat /\ g.to \in Nat
      BY <2>2 DEF IsGap
    <2>4. PICK k \in Steps(g, maxSize) : r = Piece(g, k, maxSize)
      BY <2>1 DEF Divide
    <2>5. k \in Nat /\ k * maxSize \in Nat
      BY DEF Steps
    <2>6. /\ r \in [from : Nat, to : Nat]
          /\ g.from <= r.from /\ r.from <= r.to /\ r.to <= g.to
          /\ r.from = g.from + k * maxSize
          /\ r.to < g.from + k * maxSize + maxSize
          /\ r.to = g.to \/ r.to + 1 = g.from + k * maxSize + maxSize
      BY <2>3, <2>4, PieceShape
    <2>7. r.to < r.from + maxSize /\ (r.to = g.to \/ r.to + 1 = r.from + maxSize)
      BY <2>6
    <2>8. r.from \in Nat /\ r.to \in Nat
      BY <2>6
    <2>9. r.to - r.from < maxSize /\ (r.to = g.to \/ r.to - r.from + 1 = maxSize)
      BY <2>7, <2>8
    <2> QED
      BY <2>1, <2>2, <2>6, <2>9
  <1>2. Heights(R) = (start .. end) \ Heights(Q)
    <2>1. ASSUME NEW h \in Heights(R) PROVE h \in start .. end /\ h \notin Heights(Q)
      <3>1. PICK r \in R : h \in r.from .. r.to
        BY DEF Heights
      <3>2. PICK g : /\ IsGap(g, Q, start, end) /\ r \in [from : Nat, to : Nat]
                     /\ g.from <= r.from /\ r.to <= g.to
        BY <1>1
      <3>3. /\ g.from \in Nat /\ g.to \in Nat /\ start <= g.from /\ g.to <= end
            /\ \A t \in Q : t.to < g.from \/ g.to < t.from
        BY <3>2 DEF IsGap
      <3>4. h \in g.from .. g.to
        BY <3>1, <3>2, <3>3
      <3>5. \A t \in Q : h \notin t.from .. t.to
        BY <3>3, <3>4 DEF Reserves, IsQueue
      <3> QED
        BY <3>3, <3>4, <3>5 DEF Heights
    <2>2. ASSUME NEW h \in start .. end, h \notin Heights(Q) PROVE h \in Heights(R)
      <3>1. PICK g \in FreeRanges(Q, start, end) : h \in g.from .. g.to
        BY <2>2, FreeHeightHasGap
      <3>2. g = [from |-> g.from, to |-> g.to] /\ g.from \in Nat /\ g.to \in Nat
        BY FreeRangesAreGaps DEF IsGap
      <3>3. PICK r \in Divide(g, maxSize) : h \in r.from .. r.to
        BY <3>1, <3>2, PiecesCover
      <3>4. r \in R
        BY <3>1, <3>3 DEF FindGaps
      <3> QED
        BY <3>3, <3>4 DEF Heights
    <2> QED
      BY <2>1, <2>2
  <1>3. \A r, s \in R : r # s => ~Overlap(r, s)
    <2> SUFFICES ASSUME NEW r \in R, NEW s \in R, r # s PROVE ~Overlap(r, s)
      OBVIOUS
    <2>1. PICK g : /\ r \in Divide(g, maxSize) /\ IsGap(g, Q, start, end)
                   /\ r \in [from : Nat, to : Nat]
                   /\ g.from <= r.from /\ r.to <= g.to
      BY <1>1
    <2>2. PICK k : /\ s \in Divide(k, maxSize) /\ IsGap(k, Q, start, end)
                   /\ s \in [from : Nat, to : Nat]
                   /\ k.from <= s.from /\ s.to <= k.to
      BY <1>1
    <2>3. g = [from |-> g.from, to |-> g.to] /\ g.from \in Nat /\ g.to \in Nat
      BY <2>1 DEF IsGap
    <2>4. k.from \in Nat /\ k.to \in Nat
      BY <2>2 DEF IsGap
    <2>5. r.to < s.from \/ s.to < r.from
      <3>1. CASE g = k
        BY <2>1, <2>2, <2>3, <3>1, PiecesDisjoint
      <3>2. CASE g # k
        <4>1. g.to < k.from \/ k.to < g.from
          BY <2>1, <2>2, <3>2, GapsApart
        <4> QED
          BY <2>1, <2>2, <2>3, <2>4, <4>1
      <3> QED
        BY <3>1, <3>2
    <2> QED
      BY <2>1, <2>2, <2>5 DEF Overlap
  <1>4. ASSUME NEW r \in R
        PROVE  /\ r.to - r.from + 1 \in 1 .. maxSize
               /\ r.to - r.from + 1 = maxSize \/ r.to + 1 \in Heights(Q) \cup {end + 1}
    <2>1. PICK g : /\ IsGap(g, Q, start, end) /\ r \in [from : Nat, to : Nat]
                   /\ r.from <= r.to /\ r.to - r.from < maxSize
                   /\ r.to = g.to \/ r.to - r.from + 1 = maxSize
      BY <1>1
    <2>2. g.to = end \/ \E t \in Q : g.to + 1 = t.from
      BY <2>1 DEF IsGap
    <2>3. \A t \in Q : t.from \in t.from .. t.to
      BY DEF Reserves, IsQueue
    <2>4. r.to = g.to => r.to + 1 \in Heights(Q) \cup {end + 1}
      BY <2>2, <2>3 DEF Heights
    <2> QED
      BY <2>1, <2>4
  <1> QED
    BY <1>2, <1>3, <1>4 DEF GapsAreFreeHeights

\* A slice of n ranges has n, when there are as many.
LEMMA LowestFull ==
    ASSUME NEW R, IsQueue(R), NEW n \in Nat, Within(R, n), NEW k \in Nat
    PROVE  Lowest(R, k) = R \/ Cardinality(Lowest(R, k)) = k
  <1> DEFINE L == Lowest(R, k)
             T == R \ L
             t == Front(T)
             B == Before(R, t.from)
  <1> SUFFICES ASSUME L # R PROVE Cardinality(L) = k
    OBVIOUS
  <1>1. IsFiniteSet(R) /\ IsFiniteSet(L) /\ Cardinality(L) <= k
    BY QueueIsFinite, LowestSize
  <1>2. T # {} /\ \A s \in T : s.from \in Nat
    BY DEF Lowest, IsQueue
  <1>3. t \in T /\ \A s \in T : t.from <= s.from
    BY <1>2, FrontIsLeast
  <1> HIDE DEF t
  <1>4. t \in R /\ ~(Cardinality(B) < k)
    BY <1>3 DEF Lowest
  <1> HIDE DEF L
  <1>5. B \subseteq L
    BY <1>3 DEF Before, IsQueue
  <1>6. IsFiniteSet(B) /\ Cardinality(B) <= Cardinality(L)
    BY <1>1, <1>5, FS_Subset
  <1>7. Cardinality(B) \in Nat /\ Cardinality(L) \in Nat
    BY <1>1, <1>6, FS_CardinalityType
  <1> QED
    BY <1>1, <1>4, <1>6, <1>7

\* reserveChunkRanges on any queue uses every free slot it can, on the lowest
\* of the ranges findGaps returns.
THEOREM LowestRangesFirst ==
    ASSUME NEW Q, NEW start \in Nat, NEW end \in Nat, start <= end, Reserves(Q, start, end),
           NEW maxSize \in Nat, maxSize > 0, NEW maxSlots \in Nat, Cardinality(Q) <= maxSlots
    PROVE  LowestAreReserved(Q, start, end, maxSize, maxSlots)
  <1> DEFINE R == FindGaps(Q, start, end, maxSize)
             free == maxSlots - Cardinality(Q)
             G == Lowest(R, free)
  <1>1. /\ Heights(R) = (start .. end) \ Heights(Q)
        /\ \A r, s \in R : r # s => ~Overlap(r, s)
        /\ \A r \in R : r.to - r.from + 1 \in 1 .. maxSize
    BY FindGapsIsExact DEF GapsAreFreeHeights
  <1>2. \A r \in R : r \in [from : Nat, to : Nat]
    <2> TAKE r \in R
    <2>1. PICK g \in FreeRanges(Q, start, end) : r \in Divide(g, maxSize)
      BY DEF FindGaps
    <2>2. g = [from |-> g.from, to |-> g.to] /\ g.from \in Nat /\ g.to \in Nat
      BY FreeRangesAreGaps DEF IsGap
    <2>3. PICK k \in Steps(g, maxSize) : r = Piece(g, k, maxSize)
      BY <2>1 DEF Divide
    <2> QED
      BY <2>2, <2>3, PieceShape
  <1>3. ReserveChunkRanges(Q, start, end, maxSize, maxSlots) = G
    BY DEF ReserveChunkRanges
  <1>4. IsFiniteSet(Q) /\ free \in Nat
    BY QueueIsFinite, FS_CardinalityType DEF Reserves
  <1> HIDE DEF R, free
  <1>5. IsQueue(R)
    BY <1>1, <1>2 DEF IsQueue, Overlap
  <1>6. Within(R, end)
    <2> SUFFICES ASSUME NEW r \in R PROVE r.to <= end
      BY DEF Within
    <2>1. r.to \in r.from .. r.to
      BY <1>2, <1>5 DEF IsQueue
    <2>2. r.to \in start .. end
      BY <1>1, <2>1 DEF Heights
    <2> QED
      BY <2>2
  <1>7. G \subseteq R
    BY DEF Lowest
  <1>8. G = R \/ Cardinality(G) = free
    BY <1>4, <1>5, <1>6, LowestFull
  <1>9. IsFiniteSet(R) /\ IsFiniteSet(G) /\ Cardinality(G) <= free /\ Cardinality(G) <= Cardinality(R)
    <2>1. IsFiniteSet(R)
      BY <1>5, <1>6, QueueIsFinite
    <2> QED
      BY <1>4, <1>5, <1>6, <1>7, <2>1, LowestSize, FS_Subset
  <1>10. Cardinality(R) \in Nat /\ Cardinality(G) \in Nat
    BY <1>9, FS_CardinalityType
  <1>11. Cardinality(G) = IF Cardinality(R) < free THEN Cardinality(R) ELSE free
    BY <1>4, <1>8, <1>9, <1>10
  <1>12. ASSUME NEW r \in G, NEW s \in R \ G PROVE r.to < s.from
    <2>1. /\ r.from \in Nat /\ s.from \in Nat /\ r.to \in Nat /\ s.to \in Nat
          /\ r.from <= r.to /\ s.from <= s.to /\ (r.to < s.from \/ s.to < r.from)
      BY <1>5, <1>7, <1>12 DEF IsQueue
    <2>2. ~(s.from < r.from)
      BY <1>4, <1>5, <1>9, <1>12, LowestIsDownwardClosed DEF IsQueue
    <2> QED
      BY <2>1, <2>2
  <1> HIDE DEF G
  <1> QED
    BY <1>3, <1>7, <1>11, <1>12 DEF LowestAreReserved, R, free

=============================================================================
