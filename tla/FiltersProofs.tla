---------------------------- MODULE FiltersProofs ----------------------------
(***************************************************************************)
(* Proofs about the polled filters, for any number of filters, requests    *)
(* and elements of the feed, and any interval.                             *)
(***************************************************************************)
EXTENDS Filters, SequenceFacts, TLAPS

\* When a filter is in the map, and what the histories say of it then: it was
\* put there after the elements applied before, and is removed at most once; one
\* that waits for the lock was never there.
\* A range over the map visits installed filters only.
MapShape ==
    /\ \A f \in waiting : since[f] = Never
    /\ \A f \in items : since[f] <= loop.at /\ until[f] = Never
    /\ \A f \in Ids \ items : since[f] = Never \/ until[f] <= loop.at
    /\ \A f \in Ids : since[f] = Never => until[f] = Never
    /\ loop.todo \subseteq items
    /\ \A f \in loop.todo : since[f] < loop.at
    /\ loop.step # "range" => loop.todo = {}

\* The time of use of a filter is the time a client last asked for it; of a filter
\* in the map, it is not later than the time it entered the map or a poll found it.
UseIsAsked ==
    /\ lastUsed = asked
    /\ \A f \in Ids : asked[f] <= now /\ polled[f] <= now
    /\ \A f \in items : lastUsed[f] <= polled[f]

\* The time of the last tick, whether or not it lies in ticker.C.
LastTick == now - (now % Interval)

\* The cutoff of a cleanup that waits for the lock, and what cleanups have left
\* once every tick so far has been dealt with.  Nothing is known between a tick
\* and its cutoff, and nothing needs to be.
CleanupShape ==
    /\ cleaner.step = "clean" => cleaner.cutoff <= now - Interval
    /\ (cleaner.step = "clean" /\ ~ticker) => LastTick - Interval <= cleaner.cutoff
    /\ (cleaner.step = "wait" /\ ~ticker) => \A f \in items : LastTick - Interval <= polled[f]

-----------------------------------------------------------------------------
(* Facts about the operators. *)

LEMMA FeedFacts ==
    /\ Len(Feed) \in Nat /\ Never \in Nat /\ Never = Len(Feed) + 1
    /\ Item = 1 .. Len(Feed)
    /\ \A e \in Item : /\ Feed[e].type \in {"block", "tx"}
                       /\ Feed[e].type = "tx" => Feed[e].gasUsed \in Nat /\ Feed[e].gasWanted \in Nat
  <1> DEFINE S == [type : {"block"}] \cup [type : {"tx"}, gasUsed : Nat, gasWanted : Nat]
  <1>1. Feed \in Seq(S)
    BY FiltersAssumption
  <1> HIDE DEF S
  <1>2. Len(Feed) \in Nat /\ \A e \in 1 .. Len(Feed) : Feed[e] \in S
    BY <1>1
  <1> QED
    BY <1>2 DEF S, Item, Never

\* A range option with absent bounds means what it says for a count.
LEMMA RangeMeaning ==
    ASSUME NEW value \in Nat, NEW range
    PROVE  FilteredByRange(value, range) <=>
               (range # NoRange =>
                   /\ range.min # NoBound => range.min <= value
                   /\ range.max # NoBound => value <= range.max)
  BY DEF FilteredByRange

\* UpdateWith keeps exactly what the installing client asked for.
LEMMA KeepsWhatWasAsked == \A f \in Ids : \A e \in Item : Keeps(f, e) <=> AskedFor(f, e)
  <1> SUFFICES ASSUME NEW f \in Ids, NEW e \in Item PROVE Keeps(f, e) <=> AskedFor(f, e)
    OBVIOUS
  <1>1. CASE Feed[e].type # "tx"
    BY <1>1 DEF Keeps, AskedFor
  <1>2. CASE Feed[e].type = "tx"
    <2>1. Feed[e].gasUsed \in Nat /\ Feed[e].gasWanted \in Nat
      BY <1>2, FeedFacts
    <2> DEFINE Fits(value, range) == range # NoRange =>
                   /\ range.min # NoBound => range.min <= value
                   /\ range.max # NoBound => value <= range.max
    <2>2. CheckFilterOptions(Feed[e], Options[f]) <=>
              /\ Fits(Feed[e].gasUsed, Options[f].gasUsed)
              /\ Fits(Feed[e].gasWanted, Options[f].gasWanted)
              /\ Fits(Feed[e].gasUsed, Options[f].gasLimit)
      BY <2>1, RangeMeaning DEF CheckFilterOptions
    <2>3. AskedFor(f, e) <=>
              /\ Feed[e].type = Options[f].type
              /\ Fits(Feed[e].gasUsed, Options[f].gasUsed)
              /\ Fits(Feed[e].gasWanted, Options[f].gasWanted)
              /\ Fits(Feed[e].gasUsed, Options[f].gasLimit)
      BY <1>2 DEF AskedFor
    <2> QED
      BY <1>2, <2>2, <2>3 DEF Keeps
  <1> QED
    BY <1>1, <1>2

\* The remainder of the next number.
LEMMA NextRemainder ==
    ASSUME NEW n \in Nat, NEW d \in Nat \ {0}
    PROVE  /\ n % d \in 0 .. d - 1
           /\ (n + 1) % d = 0 \/ (n + 1) % d = (n % d) + 1
  <1> DEFINE q == n \div d
             r == n % d
             q1 == (n + 1) \div d
             r1 == (n + 1) % d
  <1>1. q \in Int /\ r \in 0 .. d - 1 /\ n = d * q + r
    OBVIOUS
  <1>2. q1 \in Int /\ r1 \in 0 .. d - 1 /\ n + 1 = d * q1 + r1
    OBVIOUS
  <1> HIDE DEF q, r, q1, r1
  <1>3. \A a, b \in Int : a < b => d * a + d <= d * b
    <2> SUFFICES ASSUME NEW a \in Int, NEW b \in Int, a < b PROVE d * a + d <= d * b
      OBVIOUS
    <2>1. PICK k \in Nat : b = a + 1 + k
      <3>1. b - a - 1 \in Nat /\ b = a + 1 + (b - a - 1)
        OBVIOUS
      <3> QED
        BY <3>1
    <2>2. d * b = d * a + d + d * k
      BY <2>1
    <2>3. d * k >= 0
      OBVIOUS
    <2> QED
      BY <2>2, <2>3
  <1>4. d * q \in Int /\ d * q1 \in Int
    BY <1>1, <1>2
  <1>5. CASE q1 = q
    BY <1>1, <1>2, <1>4, <1>5 DEF r, r1
  <1>6. CASE q < q1
    <2>1. d * q + d <= d * q1
      BY <1>1, <1>2, <1>3, <1>6
    <2> QED
      BY <1>1, <1>2, <1>4, <2>1 DEF r, r1
  <1>7. CASE q1 < q
    <2>1. d * q1 + d <= d * q
      BY <1>1, <1>2, <1>3, <1>7
    <2> QED
      BY <1>1, <1>2, <1>4, <2>1 DEF r, r1
  <1> QED
    BY <1>1, <1>2, <1>5, <1>6, <1>7

-----------------------------------------------------------------------------
(* Type correctness. *)

LEMMA InitType == Init => TypeOK
  <1> SUFFICES ASSUME Init PROVE TypeOK
    OBVIOUS
  <1>1. 0 \in 0 .. MaxTime /\ 0 \in 0 .. Len(Feed) /\ Never \in 0 .. Never
    BY FeedFacts, FiltersAssumption
  <1>2. pending \in [Ids -> Seq(Item)]
    BY DEF Init
  <1>3. taken \in [Ids -> SUBSET Item]
    BY DEF Init
  <1>4. since \in [Ids -> 0 .. Never] /\ until \in [Ids -> 0 .. Never]
    BY <1>1 DEF Init
  <1>5. /\ lastUsed \in [Ids -> 0 .. MaxTime]
        /\ asked \in [Ids -> 0 .. MaxTime] /\ polled \in [Ids -> 0 .. MaxTime]
    BY <1>1 DEF Init
  <1>6. /\ loop \in [step : {"ready", "range", "ended"}, at : 0 .. Len(Feed), todo : SUBSET Ids]
        /\ cleaner \in [step : {"wait", "tick", "clean", "ended"}, cutoff : Int]
    BY <1>1 DEF Init
  <1>7. caller \in [Callers -> Ids \cup {NoId}]
    BY DEF Init
  <1>8. waiting \subseteq Ids /\ items \subseteq Ids /\ now \in 0 .. MaxTime /\ ticker \in BOOLEAN
    BY <1>1 DEF Init
  <1> QED
    BY <1>2, <1>3, <1>4, <1>5, <1>6, <1>7, <1>8 DEF TypeOK

LEMMA TypeStep == ASSUME TypeOK, MapShape, [Next]_vars PROVE TypeOK'
  <1> USE DEF TypeOK, clockVars, history
  <1>1. CASE Apply
    <2>1. loop.at + 1 \in 0 .. Len(Feed)
      BY <1>1, FeedFacts DEF Apply
    <2> QED
      BY <1>1, <2>1 DEF Apply
  <1>2. ASSUME NEW f \in Ids, UpdateWith(f) PROVE TypeOK'
    <2>1. CASE Keeps(f, loop.at)
      <3>1. loop.at \in Item
        <4>1. since[f] \in Int /\ since[f] >= 0 /\ since[f] < loop.at
          BY <1>2, FeedFacts DEF UpdateWith, MapShape
        <4> QED
          BY <4>1, FeedFacts
      <3>2. pending[f] \in Seq(Item)
        OBVIOUS
      <3>3. Append(pending[f], loop.at) \in Seq(Item)
        BY <3>1, <3>2
      <3>4. pending' \in [Ids -> Seq(Item)]
        BY <1>2, <2>1, <3>3 DEF UpdateWith
      <3> QED
        BY <1>2, <3>4 DEF UpdateWith
    <2>2. CASE ~Keeps(f, loop.at)
      BY <1>2, <2>2 DEF UpdateWith
    <2> QED
      BY <2>1, <2>2
  <1>3. CASE Applied
    BY <1>3 DEF Applied
  <1>4. CASE LoopEnds
    BY <1>4 DEF LoopEnds
  <1>5. ASSUME NEW f \in Ids, NewFilter(f) PROVE TypeOK'
    <2>1. loop.at \in 0 .. Never
      BY FeedFacts
    <2> QED
      BY <1>5, <2>1 DEF NewFilter
  <1>6. ASSUME NEW f \in Ids, UninstallFilter(f) PROVE TypeOK'
    <2>1. loop.at \in 0 .. Never
      BY FeedFacts
    <2> QED
      BY <1>6, <2>1 DEF UninstallFilter
  <1>7. ASSUME NEW c \in Callers, NEW f \in Ids, GetFilter(c, f) PROVE TypeOK'
    BY <1>7 DEF GetFilter
  <1>8. ASSUME NEW c \in Callers, GetChanges(c) PROVE TypeOK'
    <2>1. caller[c] \in Ids /\ Range(pending[caller[c]]) \subseteq Item
      BY <1>8, RangeOfSeq DEF GetChanges
    <2>2. taken' \in [Ids -> SUBSET Item]
      BY <1>8, <2>1 DEF GetChanges
    <2>3. pending' \in [Ids -> Seq(Item)]
      BY <1>8, <2>1 DEF GetChanges
    <2> QED
      BY <1>8, <2>2, <2>3 DEF GetChanges
  <1>9. CASE Tick
    <2>1. now' \in 0 .. MaxTime
      BY <1>9, FiltersAssumption DEF Tick
    <2>2. ticker' \in BOOLEAN
      BY <1>9 DEF Tick
    <2> QED
      BY <1>9, <2>1, <2>2 DEF Tick
  <1>10. CASE CleanupTick
    BY <1>10 DEF CleanupTick
  <1>11. CASE Cutoff
    <2>1. now - Interval \in Int
      BY FiltersAssumption
    <2>2. cleaner' \in [step : {"wait", "tick", "clean", "ended"}, cutoff : Int]
      BY <1>11, <2>1 DEF Cutoff
    <2> QED
      BY <1>11, <2>2 DEF Cutoff
  <1>12. ASSUME NEW f \in Ids, NewBaseFilter(f) PROVE TypeOK'
    BY <1>12 DEF NewBaseFilter
  <1>13. CASE Cleanup
    <2>1. loop.at \in 0 .. Never
      BY FeedFacts
    <2> QED
      BY <1>13, <2>1 DEF Cleanup
  <1>14. CASE CleanupEnds
    BY <1>14 DEF CleanupEnds
  <1>15. CASE UNCHANGED vars
    BY <1>15 DEF vars
  <1> HIDE DEF TypeOK
  <1> QED
    BY <1>1, <1>2, <1>3, <1>4, <1>5, <1>6, <1>7, <1>8, <1>9, <1>10, <1>11, <1>12, <1>13,
       <1>14, <1>15 DEF Next, EventLoop, Poll

-----------------------------------------------------------------------------
(* The map and the histories. *)

LEMMA InitMap == Init => MapShape
  BY FeedFacts DEF Init, MapShape

LEMMA MapStep == ASSUME TypeOK, MapShape, [Next]_vars PROVE MapShape'
  <1> USE FeedFacts DEF TypeOK, MapShape, clockVars, history
  <1>1. CASE Apply
    <2>1. /\ loop'.at = loop.at + 1 /\ loop'.todo = items /\ loop'.step = "range"
          /\ UNCHANGED <<waiting, items, since, until>>
      BY <1>1 DEF Apply
    <2> QED
      BY <2>1
  <1>2. ASSUME NEW f \in Ids, UpdateWith(f) PROVE MapShape'
    BY <1>2 DEF UpdateWith
  <1>3. CASE Applied
    BY <1>3 DEF Applied
  <1>4. CASE LoopEnds
    BY <1>4 DEF LoopEnds
  <1>5. ASSUME NEW f \in Ids, NewFilter(f) PROVE MapShape'
    <2>1. /\ loop.todo = {} /\ loop' = loop /\ until' = until
          /\ waiting' = waiting \ {f} /\ items' = items \cup {f}
          /\ since' = [since EXCEPT ![f] = loop.at]
      BY <1>5 DEF NewFilter, MapIsFree
    <2>2. f \notin items /\ until[f] = Never
      BY <1>5 DEF NewFilter
    <2> QED
      BY <2>1, <2>2
  <1>6. ASSUME NEW f \in Ids, UninstallFilter(f) PROVE MapShape'
    <2>1. /\ f \in items /\ items' = items \ {f} /\ until' = [until EXCEPT ![f] = loop.at]
          /\ UNCHANGED <<waiting, loop, since>> /\ loop.todo = {}
      BY <1>6 DEF UninstallFilter, MapIsFree
    <2>2. since[f] # Never /\ until'[f] = loop.at /\ loop.at <= loop.at
      BY <2>1
    <2>3. \A g \in Ids \ {f} : until'[g] = until[g]
      BY <2>1
    <2> QED
      BY <2>1, <2>2, <2>3
  <1>7. ASSUME NEW c \in Callers, NEW f \in Ids, GetFilter(c, f) PROVE MapShape'
    BY <1>7 DEF GetFilter
  <1>8. ASSUME NEW c \in Callers, GetChanges(c) PROVE MapShape'
    BY <1>8 DEF GetChanges
  <1>9. CASE Tick
    BY <1>9 DEF Tick
  <1>10. CASE CleanupTick
    BY <1>10 DEF CleanupTick
  <1>11. CASE Cutoff
    BY <1>11 DEF Cutoff
  <1>12. ASSUME NEW f \in Ids, NewBaseFilter(f) PROVE MapShape'
    BY <1>12 DEF NewBaseFilter
  <1>13. CASE Cleanup
    BY <1>13 DEF Cleanup, MapIsFree
  <1>14. CASE CleanupEnds
    BY <1>14 DEF CleanupEnds
  <1>15. CASE UNCHANGED vars
    BY <1>15 DEF vars
  <1> HIDE DEF TypeOK, MapShape
  <1> QED
    BY <1>1, <1>2, <1>3, <1>4, <1>5, <1>6, <1>7, <1>8, <1>9, <1>10, <1>11, <1>12, <1>13,
       <1>14, <1>15 DEF Next, EventLoop, Poll

\* Type correctness of the filter map, its loop, its polls and its cleanup.
THEOREM TypeCorrect == Spec => []TypeOK
  <1>1. TypeOK /\ MapShape /\ [Next]_vars => TypeOK' /\ MapShape'
    BY TypeStep, MapStep
  <1> QED
    BY InitType, InitMap, <1>1, PTL DEF Spec

-----------------------------------------------------------------------------
(* Each change once. *)

\* The part of EachChangeReturnedOnce about one filter.
Once(f) ==
    /\ Range(pending[f]) \cup taken[f] = {e \in AppliedTo(f) : AskedFor(f, e)}
    /\ Range(pending[f]) \cap taken[f] = {}
    /\ \A i, j \in DOMAIN pending[f] : i < j => pending[f][i] < pending[f][j]

LEMMA InitOnce == ASSUME Init PROVE EachChangeReturnedOnce
  <1> SUFFICES ASSUME NEW f \in Ids PROVE Once(f)
    BY DEF EachChangeReturnedOnce, Once
  <1>1. AppliedTo(f) = {}
    BY FeedFacts DEF AppliedTo, Init
  <1>2. pending[f] = <<>> /\ taken[f] = {} /\ Range(pending[f]) = {}
    BY DEF Init, Range
  <1> QED
    BY <1>1, <1>2 DEF Once

\* A step that touches neither a filter's changes nor the set of elements that
\* were applied to it.
LEMMA SameOnce ==
    ASSUME NEW f \in Ids, Once(f), pending'[f] = pending[f], taken'[f] = taken[f],
           AppliedTo(f)' = AppliedTo(f)
    PROVE  Once(f)'
  BY DEF Once, AskedFor

\* Only the histories and the loop decide which elements were applied.
LEMMA SameApplied ==
    ASSUME NEW f, since'[f] = since[f], until'[f] = until[f], loop'.at = loop.at,
           f \in loop'.todo <=> f \in loop.todo
    PROVE  AppliedTo(f)' = AppliedTo(f)
  BY DEF AppliedTo

LEMMA OnceStep == ASSUME TypeOK, MapShape, EachChangeReturnedOnce, [Next]_vars PROVE EachChangeReturnedOnce'
  <1> SUFFICES ASSUME NEW g \in Ids PROVE Once(g)'
    BY DEF EachChangeReturnedOnce, Once
  <1>0. Once(g)
    BY DEF EachChangeReturnedOnce, Once
  <1> USE DEF clockVars, history
  <1>1. CASE Apply
    <2>1. /\ loop'.at = loop.at + 1 /\ loop'.todo = items
          /\ loop.at < Len(Feed) /\ loop.step # "range"
          /\ UNCHANGED <<pending, taken, since, until>>
      BY <1>1 DEF Apply
    <2>2. loop.at \in Nat /\ since[g] \in Nat /\ until[g] \in Nat /\ loop.todo = {}
      BY <2>1, FeedFacts DEF TypeOK, MapShape
    <2>3. ASSUME NEW e \in Item
          PROVE  e \in AppliedTo(g)' <=> e \in AppliedTo(g)
      <3>1. e \in Nat
        BY FeedFacts
      <3>2. CASE e = loop.at + 1
        <4>1. e \notin AppliedTo(g)
          BY <2>2, <3>2 DEF AppliedTo
        <4>2. CASE g \in items
          BY <2>1, <3>2, <4>1, <4>2 DEF AppliedTo
        <4>3. CASE g \notin items
          <5>1. since[g] = Never \/ until[g] <= loop.at
            BY <4>3 DEF MapShape
          <5>2. ~(since[g] < e /\ e <= until[g])
            BY <2>1, <2>2, <3>2, <5>1, FeedFacts
          <5>3. e \notin AppliedTo(g)'
            BY <2>1, <5>2 DEF AppliedTo
          <5> QED
            BY <4>1, <5>3
        <4> QED
          BY <4>2, <4>3
      <3>3. CASE e # loop.at + 1
        BY <2>1, <2>2, <3>1, <3>3 DEF AppliedTo
      <3> QED
        BY <3>2, <3>3
    <2>4. AppliedTo(g)' = AppliedTo(g)
      BY <2>3 DEF AppliedTo
    <2> QED
      BY <1>0, <2>1, <2>4, SameOnce
  <1>2. ASSUME NEW f \in Ids, UpdateWith(f) PROVE Once(g)'
    <2>1. /\ loop'.at = loop.at /\ loop'.todo = loop.todo \ {f}
          /\ f \in loop.todo /\ UNCHANGED <<taken, since, until>>
      BY <1>2 DEF UpdateWith, TypeOK
    <2>2. CASE g # f
      <3>1. pending'[g] = pending[g]
        BY <1>2, <2>2 DEF UpdateWith, TypeOK
      <3>2. AppliedTo(g)' = AppliedTo(g)
        BY <2>1, <2>2, SameApplied
      <3> QED
        BY <1>0, <2>1, <3>1, <3>2, SameOnce
    <2>3. CASE g = f
      <3> DEFINE at == loop.at
      <3>1. /\ since[f] < at /\ until[f] = Never /\ at \in Item /\ at \in Nat /\ at < Never
        <4>1. f \in items /\ since[f] < at
          BY <2>1 DEF MapShape
        <4>2. since[f] \in Nat /\ at \in 0 .. Len(Feed)
          BY FeedFacts DEF TypeOK
        <4> QED
          BY <4>1, <4>2, FeedFacts DEF MapShape
      <3>2. at \notin AppliedTo(f)
        BY <2>1 DEF AppliedTo
      <3>3. at \in AppliedTo(f)'
        BY <2>1, <3>1, FeedFacts DEF AppliedTo
      <3>4. AppliedTo(f)' = AppliedTo(f) \cup {at}
        <4>1. \A e \in Item : e # at => (e \in AppliedTo(f)' <=> e \in AppliedTo(f))
          BY <2>1 DEF AppliedTo
        <4>2. AppliedTo(f) \subseteq Item /\ AppliedTo(f)' \subseteq Item
          BY DEF AppliedTo
        <4> QED
          BY <3>1, <3>3, <4>1, <4>2
      <3>5. pending[f] \in Seq(Item)
        BY DEF TypeOK
      <3>6. \A i \in DOMAIN pending[f] : pending[f][i] < at
        <4> SUFFICES ASSUME NEW i \in DOMAIN pending[f] PROVE pending[f][i] < at
          OBVIOUS
        <4>1. pending[f][i] \in AppliedTo(f)
          BY <1>0, <2>3 DEF Once, Range
        <4> QED
          BY <2>1, <3>1, <4>1, FeedFacts DEF AppliedTo
      <3>7. CASE Keeps(f, at)
        <4>1. AskedFor(f, at)
          BY <3>1, <3>7, KeepsWhatWasAsked
        <4>2. pending'[f] = Append(pending[f], at)
          BY <1>2, <3>7 DEF UpdateWith, TypeOK
        <4>3. Range(pending'[f]) = Range(pending[f]) \cup {at}
          BY <3>1, <3>5, <4>2, RangeOfAppend
        <4>4. \A e : AskedFor(f, e)' <=> AskedFor(f, e)
          BY DEF AskedFor
        <4>5. {e \in AppliedTo(f)' : AskedFor(f, e)'} = {e \in AppliedTo(f) : AskedFor(f, e)} \cup {at}
          BY <3>4, <4>1, <4>4
        <4>6. at \notin taken[f]
          BY <1>0, <2>3, <3>2 DEF Once
        <4>7. /\ Range(pending'[f]) \cup taken'[f] = {e \in AppliedTo(f)' : AskedFor(f, e)'}
              /\ Range(pending'[f]) \cap taken'[f] = {}
          BY <1>0, <2>1, <2>3, <4>3, <4>5, <4>6 DEF Once
        <4>8. \A i, j \in DOMAIN pending'[f] : i < j => pending'[f][i] < pending'[f][j]
          <5>1. Increasing(pending[f])
            BY <1>0, <2>3 DEF Once, Increasing
          <5>2. Increasing(pending'[f])
            BY <3>1, <3>5, <3>6, <4>2, <5>1, IncreasingAppend
          <5> QED
            BY <5>2 DEF Increasing
        <4> QED
          BY <2>3, <4>7, <4>8 DEF Once
      <3>8. CASE ~Keeps(f, at)
        <4>1. ~AskedFor(f, at)
          BY <3>1, <3>8, KeepsWhatWasAsked
        <4>2. pending'[f] = pending[f]
          BY <1>2, <3>8 DEF UpdateWith, TypeOK
        <4>3. \A e : AskedFor(f, e)' <=> AskedFor(f, e)
          BY DEF AskedFor
        <4>4. {e \in AppliedTo(f)' : AskedFor(f, e)'} = {e \in AppliedTo(f) : AskedFor(f, e)}
          BY <3>4, <4>1, <4>3
        <4> QED
          BY <1>0, <2>1, <2>3, <4>2, <4>4 DEF Once
      <3> QED
        BY <3>7, <3>8
    <2> QED
      BY <2>2, <2>3
  <1>3. CASE Applied
    <2>1. loop'.at = loop.at /\ loop'.todo = loop.todo /\ UNCHANGED <<pending, taken, since, until>>
      BY <1>3 DEF Applied, TypeOK
    <2> QED
      BY <1>0, <2>1, SameApplied, SameOnce
  <1>4. CASE LoopEnds
    <2>1. loop'.at = loop.at /\ loop'.todo = loop.todo /\ UNCHANGED <<pending, taken, since, until>>
      BY <1>4 DEF LoopEnds, TypeOK
    <2> QED
      BY <1>0, <2>1, SameApplied, SameOnce
  <1>5. ASSUME NEW f \in Ids, NewFilter(f) PROVE Once(g)'
    <2>1. /\ since[f] = Never /\ since' = [since EXCEPT ![f] = loop.at]
          /\ UNCHANGED <<pending, taken, until, loop>>
      BY <1>5 DEF NewFilter, MapShape
    <2>2. CASE g # f
      BY <1>0, <2>1, <2>2, SameApplied, SameOnce DEF TypeOK
    <2>3. CASE g = f
      <3>1. since'[g] = loop.at /\ loop.at \in Nat
        BY <2>1, <2>3, FeedFacts DEF TypeOK
      <3>2. AppliedTo(g) = {} /\ AppliedTo(g)' = {}
        BY <2>1, <2>3, <3>1, FeedFacts DEF AppliedTo
      <3> QED
        BY <1>0, <2>1, <3>2, SameOnce
    <2> QED
      BY <2>2, <2>3
  <1>6. ASSUME NEW f \in Ids, UninstallFilter(f) PROVE Once(g)'
    <2>1. /\ f \in items /\ until' = [until EXCEPT ![f] = loop.at]
          /\ UNCHANGED <<pending, taken, since, loop>>
      BY <1>6 DEF UninstallFilter
    <2>2. until[f] = Never /\ loop.at \in Nat /\ loop.at < Never
      BY <2>1, FeedFacts DEF MapShape, TypeOK
    <2>3. AppliedTo(g)' = AppliedTo(g)
      <3>1. CASE g # f
        BY <2>1, <3>1, SameApplied DEF TypeOK
      <3>2. CASE g = f
        BY <2>1, <2>2, <3>2, FeedFacts DEF AppliedTo, TypeOK
      <3> QED
        BY <3>1, <3>2
    <2> QED
      BY <1>0, <2>1, <2>3, SameOnce
  <1>7. ASSUME NEW c \in Callers, NEW f \in Ids, GetFilter(c, f) PROVE Once(g)'
    BY <1>0, <1>7, SameApplied, SameOnce DEF GetFilter
  <1>8. ASSUME NEW c \in Callers, GetChanges(c) PROVE Once(g)'
    <2>1. UNCHANGED <<since, until, loop>> /\ caller[c] \in Ids
      BY <1>8 DEF GetChanges, TypeOK
    <2>2. AppliedTo(g)' = AppliedTo(g)
      BY <2>1, SameApplied
    <2>3. CASE g # caller[c]
      <3>1. pending'[g] = pending[g] /\ taken'[g] = taken[g]
        BY <1>8, <2>3 DEF GetChanges, TypeOK
      <3> QED
        BY <1>0, <2>2, <3>1, SameOnce
    <2>4. CASE g = caller[c]
      <3>1. pending'[g] = <<>> /\ taken'[g] = taken[g] \cup Range(pending[g])
        BY <1>8, <2>4 DEF GetChanges, TypeOK
      <3>2. Range(pending'[g]) = {} /\ DOMAIN pending'[g] = {}
        BY <3>1 DEF Range
      <3>3. \A e : AskedFor(g, e)' <=> AskedFor(g, e)
        BY DEF AskedFor
      <3> QED
        BY <1>0, <2>2, <3>1, <3>2, <3>3 DEF Once
    <2> QED
      BY <2>3, <2>4
  <1>9. CASE Tick
    BY <1>0, <1>9, SameApplied, SameOnce DEF Tick
  <1>10. CASE CleanupTick
    BY <1>0, <1>10, SameApplied, SameOnce DEF CleanupTick
  <1>11. CASE Cutoff
    BY <1>0, <1>11, SameApplied, SameOnce DEF Cutoff
  <1>12. ASSUME NEW f \in Ids, NewBaseFilter(f) PROVE Once(g)'
    BY <1>0, <1>12, SameApplied, SameOnce DEF NewBaseFilter
  <1>13. CASE Cleanup
    <2>1. UNCHANGED <<pending, taken, since, loop>>
      BY <1>13 DEF Cleanup
    <2>2. until'[g] = until[g] \/ (g \in items /\ until'[g] = loop.at)
      BY <1>13 DEF Cleanup
    <2>3. AppliedTo(g)' = AppliedTo(g)
      <3>1. CASE until'[g] = until[g]
        BY <2>1, <3>1, SameApplied
      <3>2. CASE g \in items /\ until'[g] = loop.at
        <4>1. until[g] = Never /\ loop.at \in Nat /\ loop.at < Never
          BY <3>2, FeedFacts DEF MapShape, TypeOK
        <4> QED
          BY <2>1, <3>2, <4>1, FeedFacts DEF AppliedTo
      <3> QED
        BY <2>2, <3>1, <3>2
    <2> QED
      BY <1>0, <2>1, <2>3, SameOnce
  <1>14. CASE CleanupEnds
    BY <1>0, <1>14, SameApplied, SameOnce DEF CleanupEnds
  <1>15. CASE UNCHANGED vars
    BY <1>0, <1>15, SameApplied, SameOnce DEF vars
  <1> QED
    BY <1>1, <1>2, <1>3, <1>4, <1>5, <1>6, <1>7, <1>8, <1>9, <1>10, <1>11, <1>12, <1>13,
       <1>14, <1>15 DEF Next, EventLoop, Poll

\* Concurrent polls of a filter, the event loop, removals and cleanups neither
\* lose, repeat nor reorder a change, and the filter's options select exactly
\* what was asked for.
THEOREM ChangesAreReturnedOnce == Spec => []EachChangeReturnedOnce
  <1>1. TypeOK /\ MapShape /\ EachChangeReturnedOnce /\ [Next]_vars
          => TypeOK' /\ MapShape' /\ EachChangeReturnedOnce'
    BY TypeStep, MapStep, OnceStep
  <1> QED
    BY InitType, InitMap, InitOnce, <1>1, PTL DEF Spec

-----------------------------------------------------------------------------
(* The cleanup routine. *)

CleanupInv == TypeOK /\ MapShape /\ UseIsAsked /\ CleanupShape

LEMMA InitCleanup == Init => CleanupInv
  <1> SUFFICES ASSUME Init PROVE UseIsAsked /\ CleanupShape
    BY InitType, InitMap DEF CleanupInv
  <1> QED
    BY DEF Init, UseIsAsked, CleanupShape

LEMMA ClockFacts ==
    ASSUME TypeOK
    PROVE  /\ now \in Nat /\ Interval \in Nat \ {0} /\ LastTick \in Int
           /\ LastTick <= now /\ now - LastTick < Interval
  <1>1. now \in Nat /\ Interval \in Nat \ {0}
    BY FiltersAssumption DEF TypeOK
  <1>2. now % Interval \in 0 .. Interval - 1
    BY <1>1, NextRemainder
  <1> QED
    BY <1>1, <1>2 DEF LastTick

LEMMA UseStep == ASSUME TypeOK, MapShape, UseIsAsked, [Next]_vars PROVE UseIsAsked'
  <1> USE FiltersAssumption DEF TypeOK, UseIsAsked, clockVars, history
  <1>1. CASE EventLoop
    BY <1>1 DEF EventLoop, Apply, UpdateWith, Applied, LoopEnds
  <1>2. ASSUME NEW f \in Ids, NewBaseFilter(f) PROVE UseIsAsked'
    <2>1. f \notin items
      BY <1>2, FeedFacts DEF NewBaseFilter, MapShape
    <2> QED
      BY <1>2, <2>1 DEF NewBaseFilter
  <1>3. ASSUME NEW f \in Ids, NewFilter(f) PROVE UseIsAsked'
    BY <1>3 DEF NewFilter
  <1>4. ASSUME NEW f \in Ids, UninstallFilter(f) PROVE UseIsAsked'
    BY <1>4 DEF UninstallFilter
  <1>5. ASSUME NEW c \in Callers, NEW f \in Ids, GetFilter(c, f) PROVE UseIsAsked'
    BY <1>5 DEF GetFilter
  <1>6. ASSUME NEW c \in Callers, GetChanges(c) PROVE UseIsAsked'
    BY <1>6 DEF GetChanges
  <1>7. CASE Tick
    BY <1>7 DEF Tick
  <1>8. CASE CleanupTick \/ Cutoff \/ Cleanup \/ CleanupEnds \/ UNCHANGED vars
    BY <1>8 DEF CleanupTick, Cutoff, Cleanup, CleanupEnds, vars
  <1> HIDE DEF TypeOK, UseIsAsked
  <1> QED
    BY <1>1, <1>2, <1>3, <1>4, <1>5, <1>6, <1>7, <1>8 DEF Next, Poll

LEMMA CleanupStep == ASSUME CleanupInv, [Next]_vars PROVE CleanupShape'
  <1> USE DEF CleanupInv
  <1>1. /\ now \in Nat /\ Interval \in Nat \ {0} /\ LastTick \in Int
        /\ LastTick <= now /\ now - LastTick < Interval
    BY ClockFacts
  <1> DEFINE SameClock == now' = now /\ ticker' = ticker /\ cleaner' = cleaner
  <1>2. ASSUME SameClock, items' \subseteq items, polled' = polled PROVE CleanupShape'
    BY <1>2 DEF CleanupShape, LastTick
  <1>3. ASSUME SameClock, NEW f \in Ids, items' \subseteq items \cup {f},
               polled' = [polled EXCEPT ![f] = now]
        PROVE  CleanupShape'
    <2>1. LastTick' = LastTick /\ LastTick - Interval <= now
      BY <1>1, <1>3 DEF LastTick
    <2>2. polled'[f] = now /\ \A g \in items : g # f => polled'[g] = polled[g]
      BY <1>3 DEF TypeOK
    <2> QED
      BY <1>3, <2>1, <2>2 DEF CleanupShape
  <1>4. CASE EventLoop
    BY <1>2, <1>4 DEF EventLoop, Apply, UpdateWith, Applied, LoopEnds, clockVars, history
  <1>5. ASSUME NEW f \in Ids, NewBaseFilter(f) PROVE CleanupShape'
    BY <1>2, <1>5 DEF NewBaseFilter, clockVars
  <1>6. ASSUME NEW f \in Ids, NewFilter(f) PROVE CleanupShape'
    BY <1>3, <1>6 DEF NewFilter, clockVars
  <1>7. ASSUME NEW f \in Ids, UninstallFilter(f) PROVE CleanupShape'
    BY <1>2, <1>7 DEF UninstallFilter, clockVars
  <1>8. ASSUME NEW c \in Callers, NEW f \in Ids, GetFilter(c, f) PROVE CleanupShape'
    BY <1>3, <1>8 DEF GetFilter, clockVars
  <1>9. ASSUME NEW c \in Callers, GetChanges(c) PROVE CleanupShape'
    BY <1>2, <1>9 DEF GetChanges, clockVars
  <1>10. CASE Tick
    <2>1. now' = now + 1 /\ (ticker' <=> ticker \/ now' % Interval = 0) /\ UNCHANGED <<cleaner, items, polled>>
      BY <1>10 DEF Tick, history, TypeOK
    <2>2. now' % Interval = 0 \/ now' % Interval = (now % Interval) + 1
      BY <1>1, <2>1, NextRemainder
    <2>3. ~ticker' => ~ticker /\ LastTick' = LastTick
      <3>1. now % Interval \in Int
        BY <1>1, NextRemainder
      <3> QED
        BY <1>1, <2>1, <2>2, <3>1 DEF LastTick
    <2>4. cleaner'.step = "clean" => cleaner'.cutoff <= now' - Interval
      BY <1>1, <2>1 DEF CleanupShape, TypeOK
    <2> QED
      BY <2>1, <2>3, <2>4 DEF CleanupShape
  <1>11. CASE CleanupTick
    <2>1. cleaner'.step = "tick"
      BY <1>11 DEF CleanupTick, TypeOK
    <2> QED
      BY <2>1 DEF CleanupShape
  <1>12. CASE Cutoff
    <2>1. cleaner'.step = "clean" /\ cleaner'.cutoff = now - Interval /\ now' = now
      BY <1>12 DEF Cutoff
    <2>2. LastTick' = LastTick
      BY <2>1 DEF LastTick
    <2> QED
      BY <1>1, <2>1, <2>2 DEF CleanupShape
  <1>13. CASE Cleanup
    <2>1. /\ cleaner.step = "clean" /\ cleaner'.step = "wait" /\ UNCHANGED <<now, ticker, polled>>
          /\ items' = items \ {f \in items : lastUsed[f] < cleaner.cutoff}
      BY <1>13 DEF Cleanup
    <2>2. LastTick' = LastTick
      BY <2>1 DEF LastTick
    <2>3. ASSUME ~ticker, NEW f \in items' PROVE LastTick - Interval <= polled[f]
      <3>1. f \in items /\ ~(lastUsed[f] < cleaner.cutoff)
        BY <2>1, <2>3
      <3>2. lastUsed[f] <= polled[f] /\ LastTick - Interval <= cleaner.cutoff
        BY <2>1, <2>3, <3>1 DEF UseIsAsked, CleanupShape
      <3>3. lastUsed[f] \in Int /\ polled[f] \in Int /\ cleaner.cutoff \in Int
        BY <3>1, FiltersAssumption DEF TypeOK
      <3> QED
        BY <1>1, <3>1, <3>2, <3>3
    <2> QED
      BY <2>1, <2>2, <2>3 DEF CleanupShape
  <1>14. CASE CleanupEnds
    <2>1. cleaner'.step = "ended"
      BY <1>14 DEF CleanupEnds, TypeOK
    <2> QED
      BY <2>1 DEF CleanupShape
  <1>15. CASE UNCHANGED vars
    BY <1>2, <1>15 DEF vars, clockVars, history
  <1> QED
    BY <1>4, <1>5, <1>6, <1>7, <1>8, <1>9, <1>10, <1>11, <1>12, <1>13,
       <1>14, <1>15 DEF Next, Poll

LEMMA CleanupInvStep == CleanupInv /\ [Next]_vars => CleanupInv'
  BY TypeStep, MapStep, UseStep, CleanupStep DEF CleanupInv

\* Two intervals, from the entry into the map or the last poll, is as long as an
\* abandoned filter stays: for any interval, with ticks that are dropped because one
\* is already waiting, with a cutoff that grows old while cleanup waits for the lock,
\* and with filters that are stale already when they enter the map.
THEOREM AbandonedFiltersGo == Spec => []IdleFiltersGo
  <1>1. CleanupInv => IdleFiltersGo
    <2> SUFFICES ASSUME CleanupInv, cleaner.step = "wait", ~ticker, NEW f \in items
                 PROVE  now - polled[f] < 2 * Interval
      BY DEF IdleFiltersGo
    <2>1. LastTick - Interval <= polled[f] /\ polled[f] \in Int
      BY FiltersAssumption DEF CleanupInv, CleanupShape, TypeOK
    <2> QED
      BY <2>1, ClockFacts DEF CleanupInv
  <1> QED
    BY InitCleanup, CleanupInvStep, <1>1, PTL DEF Spec

\* A filter that is removed was not asked for during more than the interval.  A poll
\* that arrives after the cutoff was computed, but before the map is locked, saves
\* its filter: cleanup compares with the time of use it finds under the lock.  That
\* time is the one before which no client asked, and not the one at which a filter
\* that had to wait entered the map.
THEOREM CleanupSparesUsedFilters == Spec => UsedFiltersStay
  <1> DEFINE Spared == \A f \in items \ items' : cleaner' # cleaner => now - asked[f] > Interval
  <1>1. CleanupInv /\ [Next]_vars => [Spared]_vars
    <2> SUFFICES ASSUME CleanupInv, Next, NEW f \in items \ items', cleaner' # cleaner
                 PROVE  now - asked[f] > Interval
      OBVIOUS
    <2>1. Cleanup
      BY DEF Next, EventLoop, Poll, Apply, UpdateWith, Applied, LoopEnds, NewBaseFilter, NewFilter,
             UninstallFilter, GetFilter, GetChanges, Tick, CleanupTick, Cutoff, CleanupEnds,
             clockVars, history
    <2>2. lastUsed[f] < cleaner.cutoff /\ cleaner.step = "clean"
      BY <2>1 DEF Cleanup
    <2>3. cleaner.cutoff <= now - Interval /\ asked[f] < cleaner.cutoff
      BY <2>2 DEF CleanupInv, CleanupShape, UseIsAsked
    <2>4. now \in Int /\ asked[f] \in Int /\ cleaner.cutoff \in Int /\ Interval \in Int
      BY FiltersAssumption DEF CleanupInv, TypeOK
    <2> QED
      BY <2>3, <2>4
  <1> QED
    BY InitCleanup, CleanupInvStep, <1>1, PTL DEF Spec, UsedFiltersStay

=============================================================================
