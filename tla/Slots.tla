------------------------------- MODULE Slots -------------------------------
(***************************************************************************)
(* The slot queue of the fetcher (src/fetch/slots.go).                     *)
(*                                                                         *)
(* A chunk range is a record [from, to] of block heights, both inclusive;  *)
(* a slot is a chunk range that also has a chunk.  The insertion queue     *)
(* that slots embeds keeps its items ordered by chunkRange.less, so a      *)
(* queue is modelled by the set of its items: item i is the one with       *)
(* exactly i items below it.  Everything here works on any records with    *)
(* fields from and to.                                                     *)
(***************************************************************************)
EXTENDS Integers, FiniteSets

\* The items that stand before height x in the queue.
Before(Q, x) == {t \in Q : t.from < x}

\* getSlot(0): the item no other item is less than.
Front(Q) == CHOOSE s \in Q : \A t \in Q : s.from <= t.from

\* The last item of the queue.
Back(Q) == CHOOSE s \in Q : \A t \in Q : t.from <= s.from

\* The loop variable prevTo of findGaps after the items of Q were visited.
PrevTo(Q, start) == IF Q = {} THEN start - 1 ELSE Back(Q).to

\* The gaps in front of an item, then the one behind the last item.
FreeRanges(Q, start, end) ==
    {[from |-> PrevTo(Before(Q, part.from), start) + 1, to |-> part.from - 1] :
        part \in {p \in Q : p.from > PrevTo(Before(Q, p.from), start) + 1}}
    \cup
    IF Q = {} \/ PrevTo(Q, start) < end
    THEN {[from |-> PrevTo(Q, start) + 1, to |-> end]}
    ELSE {}

\* The iterations of the loop that divides a gap: i = gap.from + k * step.
Steps(gap, step) == {k \in 0 .. gap.to - gap.from : gap.from + k * step <= gap.to}

\* Deviation of Piece: the next range starts where the last one ends.
PieceOverlapping(gap, k, maxSize) ==
    LET i == gap.from + k * maxSize
    IN  [from |-> i, to |-> IF i + maxSize > gap.to THEN gap.to ELSE i + maxSize]

\* The k-th range of a gap, maxSize heights unless the gap ends before.
Piece(gap, k, maxSize) ==
    LET i == gap.from + k * maxSize
    IN  [from |-> i, to |-> IF i + maxSize - 1 > gap.to THEN gap.to ELSE i + maxSize - 1]

\* A gap cut into consecutive ranges.
Divide(gap, maxSize) == {Piece(gap, k, maxSize) : k \in Steps(gap, maxSize)}

\* findGaps(start, end, maxSize)
FindGaps(Q, start, end, maxSize) ==
    UNION {Divide(gap, maxSize) : gap \in FreeRanges(Q, start, end)}

\* Deviation of Lowest: gaps[len(gaps)-n:].
Highest(R, n) == {r \in R : Cardinality({t \in R : t.from > r.from}) < n}

\* gaps[:n]: the n lowest ranges.
Lowest(R, n) == {r \in R : Cardinality(Before(R, r.from)) < n}

\* reserveChunkRanges: the ranges that get a new slot.
ReserveChunkRanges(Q, start, end, maxChunkSize, maxSlots) ==
    Lowest(FindGaps(Q, start, end, maxChunkSize), maxSlots - Cardinality(Q))

-----------------------------------------------------------------------------
(* What the two functions promise. *)

Heights(R) == UNION {r.from .. r.to : r \in R}
Overlap(r, s) == r.from <= s.to /\ s.from <= r.to

\* Each free height between start and end is in exactly one range of findGaps
\* and no reserved height is in any; the ranges have at most maxSize heights,
\* and none has less unless a reservation or the end stops it.
GapsAreFreeHeights(Q, start, end, maxSize) ==
    LET found == FindGaps(Q, start, end, maxSize)
    IN  /\ Heights(found) = (start .. end) \ Heights(Q)
        /\ \A r, s \in found : r # s => ~Overlap(r, s)
        /\ \A r \in found :
               /\ r.to - r.from + 1 \in 1 .. maxSize
               /\ r.to - r.from + 1 = maxSize \/ r.to + 1 \in Heights(Q) \cup {end + 1}

\* reserveChunkRanges uses every free slot it can, on the lowest ranges.
LowestAreReserved(Q, start, end, maxSize, maxSlots) ==
    LET found == FindGaps(Q, start, end, maxSize)
        reserved == ReserveChunkRanges(Q, start, end, maxSize, maxSlots)
        free == maxSlots - Cardinality(Q)
    IN  /\ reserved \subseteq found
        /\ Cardinality(reserved) = (IF Cardinality(found) < free THEN Cardinality(found) ELSE free)
        /\ \A r \in reserved, s \in found \ reserved : r.to < s.from

=============================================================================
