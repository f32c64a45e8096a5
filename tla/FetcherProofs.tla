--------------------------- MODULE FetcherProofs ---------------------------
(***************************************************************************)
(* Safety of the fetcher for every chain height, number of slots, chunk    *)
(* size, channel capacity and number of faults.                            *)
(*                                                                         *)
(* None of the properties is inductive alone.  The queue keeps its order   *)
(* because a reservation begins behind its end (SlotsProofs); a response   *)
(* meets its slot because workers and responses are tied one to one to     *)
(* empty slots; the store grows by whole ranges because the chunk of a     *)
(* slot, and the write batch, hold nothing outside the range of the slot.  *)
(***************************************************************************)
EXTENDS Fetcher, SlotsProofs

\* The queue is ordered, continues the store, and is empty before the loop.
QueueInv ==
    /\ IsQueue(slots)
    /\ ReservationsContinueStore
    /\ pc \in {"genesis", "catchup"} => slots = {}
    /\ (pc = "save" /\ wb.to = 0) => slots = {}

\* Every worker and every response has an empty slot of its own.
ServiceInv ==
    /\ \A r \in workers : \E s \in slots : SameRange(r, s) /\ s.chunk = NoChunk
    /\ \A i \in 1 .. Len(collector) :
           \E s \in slots : SameRange(collector[i], s) /\ s.chunk = NoChunk
    /\ \A i, j \in 1 .. Len(collector) : i # j => collector[i].from # collector[j].from
    /\ \A i \in 1 .. Len(collector) : \A r \in workers : collector[i].from # r.from

\* A chunk holds blocks and results of the heights a .. b only.
ChunkWithin(c, a, b) ==
    /\ c.blocks \subseteq a .. b
    /\ \A k \in DOMAIN c.results : c.results[k] \subseteq a .. b

\* Fetched chunks stay within the range they were fetched for.
ChunkInv ==
    /\ \A s \in slots : s.chunk # NoChunk => ChunkWithin(s.chunk, s.from, s.to)
    /\ \A i \in 1 .. Len(collector) :
           ChunkWithin(collector[i].chunk, collector[i].from, collector[i].to)

\* The writeSlot call in progress writes the range right above the store (or
\* genesis into an empty one), and accounts for every fetched block.
WriteInv ==
    pc = "save" =>
        /\ wb.chunk \in Chunks /\ ChunkWithin(wb.chunk, wb.from, wb.to)
        /\ wb.from <= wb.to
        /\ wb.from = LatestLocal + 1 \/ (wb.from = 0 /\ db.latest = NotFound)
        /\ wb.todo \subseteq wb.chunk.blocks
        /\ wb.blocks \subseteq wb.from .. wb.to
        /\ wb.txs \subseteq wb.from .. wb.to
        /\ wb.chunk.blocks \subseteq wb.todo \cup wb.blocks \cup BadBlocks

IInv == TypeOK /\ QueueInv /\ ServiceInv /\ ChunkInv /\ WriteInv /\ NoHeightSkipped

-----------------------------------------------------------------------------
(* Facts about the constants and the queue. *)

LEMMA HeightType == Height \subseteq Nat /\ 0 \in Height /\ IsFiniteSet(Height)
                    /\ \A h \in Height : 0 .. h \subseteq Height
  <1>1. MaxHeight \in Nat
    BY FetcherAssumption
  <1> QED
    BY <1>1, FS_Interval DEF Height

LEMMA LatestLocalType == ASSUME TypeOK PROVE LatestLocal \in Height
  BY HeightType DEF TypeOK, LatestLocal

LEMMA SlotType ==
    ASSUME TypeOK, NEW s \in slots
    PROVE  /\ s.from \in Height /\ s.to \in Height /\ s.chunk \in Chunks \cup {NoChunk}
           /\ s = [from |-> s.from, to |-> s.to, chunk |-> s.chunk]
  BY DEF TypeOK

LEMMA ResponseType ==
    ASSUME TypeOK, NEW i \in 1 .. Len(collector)
    PROVE  collector[i] \in [from : Height, to : Height, chunk : Chunks]
  <1> DEFINE Response == [from : Height, to : Height, chunk : Chunks]
  <1>1. collector \in Seq(Response)
    BY DEF TypeOK
  <1> HIDE DEF Response
  <1>2. collector[i] \in Response
    BY <1>1
  <1> QED
    BY <1>2 DEF Response

LEMMA SlotsWithin == ASSUME TypeOK PROVE Within(slots, MaxHeight) /\ MaxHeight \in Nat
  BY SlotType, FetcherAssumption DEF Within, Height

LEMMA InitIInv == Init => IInv
  <1> SUFFICES ASSUME Init PROVE IInv
    OBVIOUS
  <1> USE DEF Init
  <1>1. NoWrite \in [from : Height, to : Height, chunk : Chunks \cup {NoChunk},
               todo : SUBSET Height, blocks : SUBSET Height, txs : SUBSET Height]
    BY HeightType DEF NoWrite
  <1>2. TypeOK
    <2>1. db \in [latest : Height \cup {NotFound}, blocks : SUBSET Height, txs : SUBSET Height]
      OBVIOUS
    <2>2. collector \in Seq([from : Height, to : Height, chunk : Chunks])
      OBVIOUS
    <2>3. events \in Seq([block : Height, results : SUBSET Height])
      OBVIOUS
    <2>4. chunkSize \in Nat /\ faults \in 0 .. MaxFaults
      BY FetcherAssumption
    <2>5. pc \in Running \cup Halted /\ ctxDone \in BOOLEAN
      BY DEF Running
    <2> QED
      BY <1>1, <2>1, <2>2, <2>3, <2>4, <2>5 DEF TypeOK
  <1>3. QueueInv
    BY DEF QueueInv, IsQueue, ReservationsContinueStore
  <1>4. ServiceInv /\ ChunkInv
    BY DEF ServiceInv, ChunkInv
  <1>5. WriteInv
    BY DEF WriteInv
  <1>6. NoHeightSkipped
    BY DEF NoHeightSkipped, NotFound
  <1> QED
    BY <1>2, <1>3, <1>4, <1>5, <1>6 DEF IInv

-----------------------------------------------------------------------------
(* What the workers fetch. *)

LEMMA FetchedChunk ==
    ASSUME TypeOK, NEW r \in Ranges, NEW B \in FetchedBlocks(r), NEW R \in FetchedResults(B) \cup {NilResults}
    PROVE  /\ [blocks |-> B, results |-> R] \in Chunks
           /\ ChunkWithin([blocks |-> B, results |-> R], r.from, r.to)
  <1>1. B \subseteq r.from .. r.to
    BY DEF FetchedBlocks, Sequentially
  <1>2. r.from .. r.to \subseteq Height
    BY HeightType DEF Ranges, Height
  <1>3. ASSUME R \in FetchedResults(B)
        PROVE  R \in [Height -> SUBSET Height] /\ \A k \in Height : R[k] \subseteq B
    <2>1. CASE R = BatchResults(B)
      BY <1>1, <1>2, <2>1 DEF BatchResults
    <2>2. ASSUME NEW S \in Sequentially(B \cap Busy), R = SequentialResults(S)
          PROVE  R \in [Height -> SUBSET Height] /\ \A k \in Height : R[k] \subseteq B
      <3>1. S \subseteq B
        BY DEF Sequentially
      <3> QED
        BY <1>1, <1>2, <2>2, <3>1 DEF SequentialResults
    <2> QED
      BY <1>3, <2>1, <2>2 DEF FetchedResults
  <1>4. R = NilResults => DOMAIN R = {}
    BY DEF NilResults
  <1>5. [blocks |-> B, results |-> R] \in Chunks
    BY <1>1, <1>2, <1>3 DEF Chunks
  <1>6. \A k \in DOMAIN R : R[k] \subseteq B
    BY <1>3, <1>4
  <1> QED
    BY <1>1, <1>5, <1>6 DEF ChunkWithin

-----------------------------------------------------------------------------
(* The ranges attemptRangeFetch reserves. *)

LEMMA NewRangesShape ==
    ASSUME TypeOK, QueueInv, pc \in {"catchup", "select"}, NEW h \in Reported
    PROVE  /\ NewRanges(h) \subseteq Ranges
           /\ IsQueue(NewRanges(h))
           /\ \A g \in NewRanges(h) : LatestLocal < g.from /\ \A s \in slots : s.to < g.from
           /\ \A g \in NewRanges(h) : \/ g.from = LatestLocal + 1
                                      \/ \E s \in slots : s.to + 1 = g.from
                                      \/ \E k \in NewRanges(h) : k.to + 1 = g.from
  <1>1. LatestLocal \in Nat
    BY LatestLocalType, HeightType
  <1>2. h \in Nat /\ h <= MaxHeight /\ MaxHeight \in Nat
    BY HeightType, FetcherAssumption DEF Reported, TypeOK, Height
  <1>3. Continues(slots, LatestLocal)
    BY DEF QueueInv, ReservationsContinueStore, Continues, Running, Base
  <1>4. CASE NewRanges(h) = {}
    BY <1>4 DEF IsQueue
  <1>5. CASE NewRanges(h) # {}
    <2>1. /\ LatestLocal < h
          /\ NewRanges(h) = ReserveChunkRanges(slots, LatestLocal + 1, h, MaxChunkSize, MaxSlots)
      BY <1>1, <1>2, <1>5 DEF NewRanges
    <2>2. MaxChunkSize \in Nat /\ MaxChunkSize > 0 /\ MaxSlots \in Nat
      BY FetcherAssumption
    <2> DEFINE G == ReserveChunkRanges(slots, LatestLocal + 1, h, MaxChunkSize, MaxSlots)
    <2>3. /\ G \subseteq [from : Nat, to : Nat]
          /\ IsQueue(G) /\ Within(G, h)
          /\ \A g \in G : LatestLocal < g.from /\ \A s \in slots : s.to < g.from
          /\ \A g \in G : \/ g.from = LatestLocal + 1
                          \/ \E s \in slots : s.to + 1 = g.from
                          \/ \E k \in G : k.to + 1 = g.from
      BY <1>1, <1>2, <1>3, <2>1, <2>2, SlotsWithin, ReservationsExtendQueue DEF QueueInv
    <2> HIDE DEF G
    <2>4. G \subseteq Ranges
      BY <1>2, <2>3 DEF IsQueue, Within, Ranges, Height
    <2> QED
      BY <2>1, <2>3, <2>4 DEF G
  <1> QED
    BY <1>4, <1>5

-----------------------------------------------------------------------------
(* The slots the loop looks up. *)

\* Two slots that start at the same height are one.
LEMMA SlotsByStart ==
    ASSUME QueueInv, NEW s \in slots, NEW t \in slots, s.from = t.from
    PROVE  s = t
  BY DEF QueueInv, IsQueue

\* The binary search of a response ends at the slot reserved for it.
LEMMA SlotOfResponse ==
    ASSUME TypeOK, QueueInv, ServiceInv, NEW i \in 1 .. Len(collector)
    PROVE  /\ {s \in slots : s.from >= collector[i].from} # {}
           /\ SlotAt(collector[i].from) \in slots
           /\ SameRange(SlotAt(collector[i].from), collector[i])
           /\ SlotAt(collector[i].from).chunk = NoChunk
  <1> DEFINE x == collector[i].from
             Q == {s \in slots : s.from >= x}
  <1>1. PICK s \in slots : SameRange(collector[i], s) /\ s.chunk = NoChunk
    BY DEF ServiceInv
  <1>2. s.from = x /\ s.from \in Nat
    BY <1>1, SlotType, HeightType DEF SameRange
  <1>3. s \in Q
    BY <1>2
  <1>4. \A t \in Q : t.from \in Nat
    BY SlotType, HeightType
  <1>5. Front(Q) \in Q /\ Front(Q).from <= s.from
    BY <1>3, <1>4, FrontIsLeast
  <1>6. Front(Q).from = s.from
    BY <1>2, <1>4, <1>5
  <1>7. Front(Q) = s
    BY <1>5, <1>6, SlotsByStart
  <1> QED
    BY <1>1, <1>3, <1>7 DEF SlotAt, SameRange

\* The front of the queue starts right above the store.
LEMMA FrontSlot ==
    ASSUME TypeOK, QueueInv, pc = "drain", slots # {}
    PROVE  /\ Front(slots) \in slots
           /\ Front(slots).from = LatestLocal + 1
           /\ Front(slots).from <= Front(slots).to
           /\ \A s \in slots : s # Front(slots) => Front(slots).to < s.from
  <1>1. \A s \in slots : s.from \in Nat /\ s.to \in Nat /\ s.from <= s.to
    BY DEF QueueInv, IsQueue
  <1>2. Front(slots) \in slots /\ \A t \in slots : Front(slots).from <= t.from
    BY <1>1, FrontIsLeast
  <1>3. \A t \in slots : t.to + 1 # Front(slots).from
    BY <1>1, <1>2
  <1>4. Front(slots).from = LatestLocal + 1
    BY <1>2, <1>3 DEF QueueInv, ReservationsContinueStore, Running, Base
  <1>5. \A s \in slots : s # Front(slots) => Front(slots).to < s.from
    BY <1>1, <1>2 DEF QueueInv, IsQueue
  <1> QED
    BY <1>1, <1>2, <1>4, <1>5

-----------------------------------------------------------------------------
(* Types. *)

LEMMA RespondType ==
    ASSUME IInv, NEW r \in workers, NEW B \in FetchedBlocks(r),
           NEW R \in FetchedResults(B) \cup {NilResults}, Respond(r, B, R)
    PROVE  collector' \in Seq([from : Height, to : Height, chunk : Chunks])
  <1>1. r \in Ranges
    BY DEF IInv, TypeOK
  <1>2. [blocks |-> B, results |-> R] \in Chunks
    BY <1>1, FetchedChunk DEF IInv
  <1>3. r.from \in Height /\ r.to \in Height
    BY <1>1 DEF Ranges
  <1> DEFINE c == [blocks |-> B, results |-> R]
  <1>4. collector' = Append(collector, [from |-> r.from, to |-> r.to, chunk |-> c])
    BY DEF Respond
  <1> HIDE DEF c
  <1>5. [from |-> r.from, to |-> r.to, chunk |-> c] \in [from : Height, to : Height, chunk : Chunks]
    BY <1>2, <1>3 DEF c
  <1> QED
    BY <1>4, <1>5 DEF IInv, TypeOK

LEMMA TypeStep == ASSUME IInv, [Next]_vars PROVE TypeOK'
  <1> USE DEF IInv, TypeOK, fetchVars, writeVars, history
  <1> USE DEF Running, Halted
  <1>1. CASE ChainGrows
    BY <1>1, FetcherAssumption DEF ChainGrows, Height
  <1>2. ASSUME NEW r \in workers, HandleChunk(r) PROVE TypeOK'
    <2>1. PICK B \in FetchedBlocks(r) : \E R \in FetchedResults(B) : Respond(r, B, R)
      BY <1>2 DEF HandleChunk
    <2>2. PICK R \in FetchedResults(B) : Respond(r, B, R)
      BY <2>1
    <2>3. collector' \in Seq([from : Height, to : Height, chunk : Chunks])
      BY <2>2, RespondType
    <2> QED
      BY <1>2, <2>2, <2>3 DEF HandleChunk, Respond
  <1>3. ASSUME NEW r \in workers, HandleChunkNilResults(r) PROVE TypeOK'
    <2>1. PICK B \in FetchedBlocks(r) : Respond(r, B, NilResults)
      BY <1>3 DEF HandleChunkNilResults
    <2>2. collector' \in Seq([from : Height, to : Height, chunk : Chunks])
      BY <2>1, RespondType
    <2>3. faults' \in 0 .. MaxFaults
      BY <1>3, FetcherAssumption DEF HandleChunkNilResults
    <2> QED
      BY <2>1, <2>2, <2>3 DEF Respond
  <1>4. ASSUME NEW r \in workers, HandleChunkDone(r) PROVE TypeOK'
    BY <1>4 DEF HandleChunkDone
  <1>5. ASSUME NEW r \in workers, HandleChunkPanics(r) PROVE TypeOK'
    BY <1>5 DEF HandleChunkPanics
  <1>6. CASE SkipGenesis
    BY <1>6 DEF SkipGenesis
  <1>7. CASE FetchGenesis
    <2>1. [blocks |-> {0}, results |-> SequentialResults({0} \cap Busy)] \in Chunks
      BY HeightType DEF Chunks, SequentialResults
    <2>2. wb' \in [from : Height, to : Height, chunk : Chunks \cup {NoChunk},
                   todo : SUBSET Height, blocks : SUBSET Height, txs : SUBSET Height]
      BY <1>7, <2>1, HeightType DEF FetchGenesis, BeginWrite
    <2> QED
      BY <1>7, <2>2 DEF FetchGenesis, BeginWrite
  <1>8. ASSUME NEW h \in Reported, pc \in {"catchup", "select"}, AttemptRangeFetch(h) PROVE TypeOK'
    <2>1. NewRanges(h) \subseteq Ranges
      BY <1>8, NewRangesShape
    <2>2. workers' \subseteq Ranges
      BY <1>8, <2>1 DEF AttemptRangeFetch
    <2>3. \A s \in slots' : s \in [from : Height, to : Height, chunk : Chunks \cup {NoChunk}]
      BY <1>8, <2>1 DEF AttemptRangeFetch, Ranges
    <2> QED
      BY <1>8, <2>2, <2>3 DEF AttemptRangeFetch
  <1>9. CASE LatestHeightFails
    BY <1>9, FetcherAssumption DEF LatestHeightFails
  <1>10. CASE HandleResponse
    <2>1. 1 \in 1 .. Len(collector) /\ Head(collector) = collector[1]
      BY <1>10 DEF HandleResponse
    <2>2. Head(collector) \in [from : Height, to : Height, chunk : Chunks]
      BY <2>1, ResponseType
    <2>3. SlotAt(Head(collector).from) \in slots
      BY <2>1, SlotOfResponse
    <2>4. collector' \in Seq([from : Height, to : Height, chunk : Chunks])
      BY <1>10 DEF HandleResponse
    <2> DEFINE item == SlotAt(Head(collector).from)
    <2>5. slots' = (slots \ {item}) \cup {[item EXCEPT !.chunk = Head(collector).chunk]}
      BY <1>10 DEF HandleResponse
    <2> HIDE DEF item
    <2>6. \A s \in slots' : s \in [from : Height, to : Height, chunk : Chunks \cup {NoChunk}]
      BY <2>2, <2>3, <2>5 DEF item
    <2> QED
      BY <1>10, <2>4, <2>6 DEF HandleResponse
  <1>11. CASE DrainEnds
    BY <1>11 DEF DrainEnds
  <1>12. CASE PopSlot
    <2>1. Front(slots) \in slots
      BY <1>12, FrontSlot DEF PopSlot
    <2>2. Front(slots).chunk \in Chunks /\ Front(slots).from \in Height /\ Front(slots).to \in Height
      BY <1>12, <2>1, SlotType DEF PopSlot
    <2>3. Front(slots).chunk.blocks \in SUBSET Height
      BY <2>2 DEF Chunks
    <2>4. wb' \in [from : Height, to : Height, chunk : Chunks \cup {NoChunk},
                   todo : SUBSET Height, blocks : SUBSET Height, txs : SUBSET Height]
      BY <1>12, <2>2, <2>3 DEF PopSlot, BeginWrite
    <2> QED
      BY <1>12, <2>4 DEF PopSlot, BeginWrite
  <1>13. ASSUME NEW b \in wb.todo, SkipBlock(b) PROVE TypeOK'
    <2>1. wb' \in [from : Height, to : Height, chunk : Chunks \cup {NoChunk},
                   todo : SUBSET Height, blocks : SUBSET Height, txs : SUBSET Height]
      BY <1>13 DEF SkipBlock
    <2> QED
      BY <1>13, <2>1 DEF SkipBlock
  <1>14. ASSUME NEW b \in wb.todo, SaveBlock(b) PROVE TypeOK'
    <2>1. b \in Height /\ wb.chunk \in Chunks
      BY <1>14 DEF SaveBlock, WriteInv
    <2>2. wb.chunk.results[b] \in SUBSET Height
      BY <1>14, <2>1 DEF SaveBlock, Chunks, NilResults
    <2>3. wb' \in [from : Height, to : Height, chunk : Chunks \cup {NoChunk},
                   todo : SUBSET Height, blocks : SUBSET Height, txs : SUBSET Height]
      BY <1>14, <2>1, <2>2 DEF SaveBlock
    <2>4. events' \in Seq([block : Height, results : SUBSET Height])
      BY <1>14, <2>1, <2>2 DEF SaveBlock
    <2> QED
      BY <1>14, <2>3, <2>4 DEF SaveBlock
  <1>15. ASSUME NEW b \in wb.todo, SaveBlockPanics(b) PROVE TypeOK'
    BY <1>15 DEF SaveBlockPanics
  <1>16. CASE Commit
    <2>1. wb.chunk.blocks \in SUBSET Height
      BY <1>16 DEF Commit, WriteInv, Chunks
    <2>2. Cardinality(wb.chunk.blocks) \in Nat
      BY <2>1, HeightType, FS_Subset, FS_CardinalityType
    <2>3. wb.from \in Height /\ wb.to \in Height /\ wb.from .. wb.to \subseteq Height
      BY HeightType DEF Height
    <2>4. db' \in [latest : Height \cup {NotFound}, blocks : SUBSET Height, txs : SUBSET Height]
      BY <1>16 DEF Commit
    <2>5. missed' \subseteq Height /\ lost' \subseteq Height
      BY <1>16, <2>1, <2>3 DEF Commit
    <2>6. pc' \in Running \cup Halted
      BY <1>16 DEF Commit
    <2> QED
      BY <1>16, <2>2, <2>4, <2>5, <2>6 DEF Commit
  <1>17. CASE CommitFails
    <2>1. faults' \in 0 .. MaxFaults
      BY <1>17, FetcherAssumption DEF CommitFails
    <2>2. pc' \in Running \cup Halted /\ ctxDone' \in BOOLEAN
      BY <1>17 DEF CommitFails
    <2> QED
      BY <1>17, <2>1, <2>2 DEF CommitFails
  <1>18. CASE Cancel
    BY <1>18, FetcherAssumption DEF Cancel
  <1>19. CASE Stop
    BY <1>19 DEF Stop
  <1>20. CASE Crash
    BY <1>20, FetcherAssumption DEF Crash
  <1>21. CASE Restart
    <2>1. NoWrite \in [from : Height, to : Height, chunk : Chunks \cup {NoChunk},
                 todo : SUBSET Height, blocks : SUBSET Height, txs : SUBSET Height]
      BY HeightType DEF NoWrite
    <2>2. MaxChunkSize \in Nat
      BY FetcherAssumption
    <2>3. collector' \in Seq([from : Height, to : Height, chunk : Chunks])
      BY <1>21 DEF Restart
    <2>4. events' \in Seq([block : Height, results : SUBSET Height])
      BY <1>21 DEF Restart
    <2> QED
      BY <1>21, <2>1, <2>2, <2>3, <2>4 DEF Restart
  <1>22. CASE UNCHANGED vars
    BY <1>22 DEF vars
  <1> HIDE DEF IInv, TypeOK, Running, Halted
  <1> QED
    BY <1>1, <1>2, <1>3, <1>4, <1>5, <1>6, <1>7, <1>8, <1>9, <1>10, <1>11, <1>12, <1>13,
       <1>14, <1>15, <1>16, <1>17, <1>18, <1>19, <1>20, <1>21, <1>22
       DEF Next, Worker, FetchLoop, Faults, CatchUp, Tick

-----------------------------------------------------------------------------
(* The queue. *)

\* Steps that leave the queue and the height it continues alone.
LEMMA QueueKept ==
    ASSUME QueueInv, slots' = slots,
           pc' \in Running => pc \in Running /\ Base' = Base,
           pc' \in {"genesis", "catchup"} => slots = {},
           (pc' = "save" /\ wb'.to = 0) => slots = {}
    PROVE  QueueInv'
  BY DEF QueueInv, IsQueue, ReservationsContinueStore

LEMMA QueueEmptied == ASSUME slots' = {} PROVE QueueInv'
  BY DEF QueueInv, IsQueue, ReservationsContinueStore

LEMMA QueueReserve ==
    ASSUME IInv, NEW h \in Reported, pc \in {"catchup", "select"}, AttemptRangeFetch(h)
    PROVE  QueueInv'
  <1> DEFINE G == NewRanges(h)
             N == {[from |-> g.from, to |-> g.to, chunk |-> NoChunk] : g \in G}
  <1>1. TypeOK /\ QueueInv
    BY DEF IInv
  <1>2. /\ G \subseteq Ranges
        /\ IsQueue(G)
        /\ \A g \in G : LatestLocal < g.from /\ \A s \in slots : s.to < g.from
        /\ \A g \in G : \/ g.from = LatestLocal + 1
                        \/ \E s \in slots : s.to + 1 = g.from
                        \/ \E k \in G : k.to + 1 = g.from
    BY <1>1, NewRangesShape
  <1>3. slots' = slots \cup N /\ pc' = "select" /\ UNCHANGED db
    BY DEF AttemptRangeFetch
  <1> HIDE DEF G
  <1>4. Base = LatestLocal /\ Base' = LatestLocal
    BY <1>3 DEF Base, LatestLocal
  <1>5. \A s \in slots : s.from \in Nat /\ s.to \in Nat /\ s.from <= s.to
    BY <1>1 DEF QueueInv, IsQueue
  <1>6. \A s, t \in slots : s # t => s.to < t.from \/ t.to < s.from
    BY <1>1 DEF QueueInv, IsQueue
  <1>7. \A s \in N : \E g \in G : s = [from |-> g.from, to |-> g.to, chunk |-> NoChunk]
    OBVIOUS
  <1>8. \A s \in N : s.from \in Nat /\ s.to \in Nat /\ s.from <= s.to
    BY <1>2, <1>7 DEF IsQueue
  <1>9. \A s, t \in N : s # t => s.to < t.from \/ t.to < s.from
    <2> SUFFICES ASSUME NEW s \in N, NEW t \in N, s # t
                 PROVE  s.to < t.from \/ t.to < s.from
      OBVIOUS
    <2>1. PICK g \in G : s = [from |-> g.from, to |-> g.to, chunk |-> NoChunk]
      BY <1>7
    <2>2. PICK k \in G : t = [from |-> k.from, to |-> k.to, chunk |-> NoChunk]
      BY <1>7
    <2>3. g # k
      BY <2>1, <2>2
    <2>4. g.to < k.from \/ k.to < g.from
      BY <1>2, <2>3 DEF IsQueue
    <2> QED
      BY <2>1, <2>2, <2>4
  <1>10. \A s \in N : LatestLocal < s.from /\ \A t \in slots : t.to < s.from
    BY <1>2, <1>7
  <1>11. \A s \in N : \/ s.from = LatestLocal + 1
                      \/ \E t \in slots : t.to + 1 = s.from
                      \/ \E t \in N : t.to + 1 = s.from
    <2> TAKE s \in N
    <2>1. PICK g \in G : s = [from |-> g.from, to |-> g.to, chunk |-> NoChunk]
      BY <1>7
    <2>2. CASE \E k \in G : k.to + 1 = g.from
      <3>1. PICK k \in G : k.to + 1 = g.from
        BY <2>2
      <3>2. [from |-> k.from, to |-> k.to, chunk |-> NoChunk] \in N
        OBVIOUS
      <3> QED
        BY <2>1, <3>1, <3>2
    <2> QED
      BY <1>2, <2>1, <2>2
  <1> HIDE DEF N
  <1>12. IsQueue(slots')
    BY <1>3, <1>5, <1>6, <1>8, <1>9, <1>10 DEF IsQueue
  <1>13. \A s \in slots : s.from > LatestLocal
    BY <1>1, <1>4 DEF QueueInv, ReservationsContinueStore, Running
  <1>14. \A s \in slots : s.from = LatestLocal + 1 \/ \E t \in slots : t.to + 1 = s.from
    BY <1>1, <1>4 DEF QueueInv, ReservationsContinueStore, Running
  <1>15. LatestLocal \in Nat
    BY <1>1, LatestLocalType, HeightType
  <1>16. \A s \in slots' : s.from > LatestLocal
    BY <1>3, <1>8, <1>10, <1>13, <1>15
  <1>17. \A s \in slots' : s.from = LatestLocal + 1 \/ \E t \in slots' : t.to + 1 = s.from
    BY <1>3, <1>11, <1>14
  <1>18. ReservationsContinueStore'
    BY <1>4, <1>12, <1>16, <1>17 DEF ReservationsContinueStore, IsQueue
  <1> QED
    BY <1>3, <1>12, <1>18 DEF QueueInv

LEMMA QueueFill ==
    ASSUME IInv, HandleResponse PROVE QueueInv'
  <1> DEFINE response == Head(collector)
             item == SlotAt(response.from)
             new == [item EXCEPT !.chunk = response.chunk]
  <1>1. TypeOK /\ QueueInv /\ ServiceInv
    BY DEF IInv
  <1>2. 1 \in 1 .. Len(collector) /\ Head(collector) = collector[1]
    BY <1>1 DEF HandleResponse, TypeOK
  <1>3. item \in slots
    BY <1>1, <1>2, SlotOfResponse
  <1>4. new.from = item.from /\ new.to = item.to
    BY <1>1, <1>3, SlotType
  <1>5. slots' = (slots \ {item}) \cup {new} /\ pc = "select" /\ pc' = "drain" /\ UNCHANGED <<db, wb>>
    BY DEF HandleResponse, writeVars
  <1> HIDE DEF new, item
  <1>6. Base' = Base
    BY <1>5 DEF Base, LatestLocal
  <1>7. IsQueue(slots')
    BY <1>1, <1>3, <1>4, <1>5 DEF IsQueue, QueueInv
  <1>8. /\ \A s \in slots : s.from > Base
        /\ \A s \in slots : s.from = Base + 1 \/ \E t \in slots : t.to + 1 = s.from
    BY <1>1, <1>5 DEF QueueInv, ReservationsContinueStore, Running
  <1>9. \A s \in slots' : s.from > Base
    BY <1>3, <1>4, <1>5, <1>8
  <1>10. \A s \in slots' : \E t \in slots : t.from = s.from /\ t.to = s.to
    BY <1>3, <1>4, <1>5
  <1>11. \A t \in slots : \E s \in slots' : t.from = s.from /\ t.to = s.to
    BY <1>3, <1>4, <1>5
  <1>12. \A s \in slots' : s.from = Base + 1 \/ \E t \in slots' : t.to + 1 = s.from
    BY <1>8, <1>10, <1>11
  <1> QED
    BY <1>5, <1>6, <1>7, <1>9, <1>12 DEF QueueInv, ReservationsContinueStore, IsQueue

LEMMA QueuePop ==
    ASSUME IInv, PopSlot PROVE QueueInv'
  <1> DEFINE f == Front(slots)
  <1>1. TypeOK /\ QueueInv
    BY DEF IInv
  <1>2. /\ f \in slots /\ f.from = LatestLocal + 1 /\ f.from <= f.to
        /\ \A s \in slots : s # f => f.to < s.from
    BY <1>1, FrontSlot DEF PopSlot
  <1>3. /\ pc = "drain" /\ pc' = "save" /\ wb'.to = f.to /\ slots' = slots \ {f}
    BY DEF PopSlot, BeginWrite
  <1> HIDE DEF f
  <1>4. Base = LatestLocal /\ Base' = f.to
    BY <1>3 DEF Base
  <1>5. LatestLocal \in Nat /\ f.to \in Nat
    BY <1>1, <1>2, LatestLocalType, HeightType, SlotType
  <1>6. IsQueue(slots')
    BY <1>1, <1>3 DEF QueueInv, IsQueue
  <1>7. \A s \in slots : s.from = LatestLocal + 1 \/ \E t \in slots : t.to + 1 = s.from
    BY <1>1, <1>3, <1>4 DEF QueueInv, ReservationsContinueStore, Running
  <1>8. \A s \in slots : s.from \in Nat /\ s.to \in Nat
    BY <1>1 DEF QueueInv, IsQueue
  <1>9. \A s \in slots' : s.from > f.to
    BY <1>2, <1>3, <1>5, <1>8
  <1>10. \A s \in slots' : s.from = f.to + 1 \/ \E t \in slots' : t.to + 1 = s.from
    BY <1>2, <1>3, <1>5, <1>7, <1>8, <1>9
  <1>11. ReservationsContinueStore'
    BY <1>4, <1>6, <1>9, <1>10 DEF ReservationsContinueStore, IsQueue
  <1>12. wb'.to # 0
    BY <1>2, <1>3, <1>5
  <1> QED
    BY <1>3, <1>6, <1>11, <1>12 DEF QueueInv

LEMMA QueueStep == ASSUME IInv, [Next]_vars PROVE QueueInv'
  <1>0. QueueInv /\ TypeOK
    BY DEF IInv
  <1> USE DEF fetchVars, writeVars, history
  <1>1. CASE ChainGrows
    BY <1>0, <1>1, QueueKept DEF ChainGrows, Base, LatestLocal, QueueInv
  <1>2. ASSUME NEW r \in workers, Worker(r) PROVE QueueInv'
    <2>1. slots' = slots /\ UNCHANGED <<db, wb>> /\ (pc' = pc \/ pc' = "panicked")
      BY <1>2 DEF Worker, HandleChunk, HandleChunkNilResults, HandleChunkDone, HandleChunkPanics, Respond
    <2> QED
      BY <1>0, <2>1, QueueKept DEF Base, LatestLocal, QueueInv, Running
  <1>6. CASE SkipGenesis
    BY <1>0, <1>6, QueueEmptied DEF SkipGenesis, QueueInv
  <1>7. CASE FetchGenesis
    BY <1>0, <1>7, QueueEmptied DEF FetchGenesis, QueueInv
  <1>8. ASSUME NEW h \in Reported, pc \in {"catchup", "select"}, AttemptRangeFetch(h) PROVE QueueInv'
    BY <1>8, QueueReserve
  <1>9. CASE LatestHeightFails
    BY <1>0, <1>9, QueueKept DEF LatestHeightFails, Running
  <1>10. CASE HandleResponse
    BY <1>10, QueueFill
  <1>11. CASE DrainEnds
    BY <1>0, <1>11, QueueKept DEF DrainEnds, Base, LatestLocal, Running
  <1>12. CASE PopSlot
    BY <1>12, QueuePop
  <1>13. ASSUME NEW b \in wb.todo, SkipBlock(b) PROVE QueueInv'
    <2>1. wb'.to = wb.to
      BY <1>0, <1>13 DEF SkipBlock, TypeOK
    <2> QED
      BY <1>0, <1>13, <2>1, QueueKept DEF SkipBlock, Base, LatestLocal, QueueInv
  <1>14. ASSUME NEW b \in wb.todo, SaveBlock(b) PROVE QueueInv'
    <2>1. wb'.to = wb.to
      BY <1>0, <1>14 DEF SaveBlock, TypeOK
    <2> QED
      BY <1>0, <1>14, <2>1, QueueKept DEF SaveBlock, Base, LatestLocal, QueueInv
  <1>15. ASSUME NEW b \in wb.todo, SaveBlockPanics(b) PROVE QueueInv'
    BY <1>0, <1>15, QueueKept DEF SaveBlockPanics, Running
  <1>16. CASE Commit
    <2>1. db'.latest = wb.to /\ wb.to \in Height /\ slots' = slots
          /\ pc = "save" /\ pc' = IF wb.to = 0 THEN "catchup" ELSE "drain"
      BY <1>0, <1>16 DEF Commit, TypeOK
    <2>2. wb.to # NotFound
      BY <2>1, HeightType DEF NotFound
    <2>3. Base' = Base
      BY <2>1, <2>2 DEF Base, LatestLocal
    <2>4. pc' \in {"genesis", "catchup"} => slots = {}
      BY <1>0, <2>1 DEF QueueInv
    <2> QED
      BY <1>0, <2>1, <2>3, <2>4, QueueKept DEF Running
  <1>17. CASE CommitFails
    <2>1. CASE wb.to = 0
      BY <1>0, <1>17, <2>1, QueueEmptied DEF CommitFails, QueueInv
    <2>2. CASE wb.to # 0
      BY <1>0, <1>17, <2>2, QueueKept DEF CommitFails, Running
    <2> QED
      BY <2>1, <2>2
  <1>18. CASE Cancel
    BY <1>0, <1>18, QueueKept DEF Cancel, Base, LatestLocal, QueueInv
  <1>19. CASE Stop
    BY <1>0, <1>19, QueueKept DEF Stop, Running
  <1>20. CASE Crash
    BY <1>0, <1>20, QueueKept DEF Crash, Running
  <1>21. CASE Restart
    BY <1>21, QueueEmptied DEF Restart
  <1>22. CASE UNCHANGED vars
    BY <1>0, <1>22, QueueKept DEF vars, Base, LatestLocal, QueueInv
  <1> QED
    BY <1>1, <1>2, <1>6, <1>7, <1>8, <1>9, <1>10, <1>11, <1>12, <1>13,
       <1>14, <1>15, <1>16, <1>17, <1>18, <1>19, <1>20, <1>21, <1>22
       DEF Next, FetchLoop, Faults, CatchUp, Tick

-----------------------------------------------------------------------------
(* Workers and responses. *)

\* Steps that leave workers, responses and the empty slots alone.
LEMMA ServiceKept ==
    ASSUME ServiceInv, workers' = workers, collector' = collector,
           \A s \in slots : s.chunk = NoChunk => s \in slots'
    PROVE  ServiceInv'
  BY DEF ServiceInv, SameRange

\* A worker that ends without a response.
LEMMA ServiceDropped ==
    ASSUME ServiceInv, workers' \subseteq workers, collector' = collector, slots' = slots
    PROVE  ServiceInv'
  BY DEF ServiceInv, SameRange

LEMMA ServiceRespond ==
    ASSUME IInv, NEW r \in workers, NEW B, NEW R, Respond(r, B, R)
    PROVE  ServiceInv'
  <1>1. TypeOK /\ QueueInv /\ ServiceInv
    BY DEF IInv
  <1> DEFINE c == [blocks |-> B, results |-> R]
             new == [from |-> r.from, to |-> r.to, chunk |-> c]
             n == Len(collector)
  <1>2. n \in Nat
    BY <1>1 DEF TypeOK
  <1>3. collector' = Append(collector, new) /\ workers' = workers \ {r} /\ slots' = slots
    BY DEF Respond
  <1> HIDE DEF c
  <1>4. new.from = r.from /\ new.to = r.to
    OBVIOUS
  <1> HIDE DEF new
  <1>5. /\ Len(collector') = n + 1
        /\ \A i \in 1 .. n : collector'[i] = collector[i]
        /\ collector'[n + 1] = new
    BY <1>1, <1>3 DEF TypeOK
  <1> HIDE DEF n
  <1>6. \A q \in workers : q.from = r.from => q = r
    <2> SUFFICES ASSUME NEW q \in workers, q.from = r.from PROVE q = r
      OBVIOUS
    <2>1. PICK s \in slots : SameRange(r, s)
      BY <1>1 DEF ServiceInv
    <2>2. PICK t \in slots : SameRange(q, t)
      BY <1>1 DEF ServiceInv
    <2>3. s = t
      BY <1>1, <2>1, <2>2, SlotsByStart DEF SameRange
    <2> QED
      BY <1>1, <2>1, <2>2, <2>3 DEF SameRange, TypeOK, Ranges
  <1>7. \A i \in 1 .. Len(collector') : i \in 1 .. n \/ i = n + 1
    BY <1>2, <1>5
  <1>8. \A q \in workers' : \E s \in slots' : SameRange(q, s) /\ s.chunk = NoChunk
    BY <1>1, <1>3 DEF ServiceInv
  <1>9. \A i \in 1 .. n : /\ \E s \in slots : SameRange(collector[i], s) /\ s.chunk = NoChunk
                          /\ \A j \in 1 .. n : i # j => collector[i].from # collector[j].from
                          /\ \A q \in workers : collector[i].from # q.from
    BY <1>1 DEF ServiceInv, n
  <1>10. \E s \in slots : SameRange(new, s) /\ s.chunk = NoChunk
    BY <1>1, <1>4 DEF ServiceInv, SameRange
  <1>11. \A i \in 1 .. Len(collector') :
             \E s \in slots' : SameRange(collector'[i], s) /\ s.chunk = NoChunk
    BY <1>3, <1>5, <1>7, <1>9, <1>10
  <1>12. \A i, j \in 1 .. Len(collector') : i # j => collector'[i].from # collector'[j].from
    BY <1>4, <1>5, <1>7, <1>9
  <1>13. \A i \in 1 .. Len(collector') : \A q \in workers' : collector'[i].from # q.from
    BY <1>3, <1>4, <1>5, <1>6, <1>7, <1>9
  <1> QED
    BY <1>8, <1>11, <1>12, <1>13 DEF ServiceInv, SameRange

LEMMA ServiceReserve ==
    ASSUME IInv, NEW h \in Reported, pc \in {"catchup", "select"}, AttemptRangeFetch(h)
    PROVE  ServiceInv'
  <1>1. TypeOK /\ QueueInv /\ ServiceInv
    BY DEF IInv
  <1> DEFINE G == NewRanges(h)
             N == {[from |-> g.from, to |-> g.to, chunk |-> NoChunk] : g \in G}
  <1>2. IsQueue(G) /\ \A g \in G : \A s \in slots : s.to < g.from
    BY <1>1, NewRangesShape
  <1>3. slots' = slots \cup N /\ workers' = workers \cup G /\ collector' = collector
    BY DEF AttemptRangeFetch
  <1> HIDE DEF G
  <1>4. \A g \in G : \E s \in N : SameRange(g, s) /\ s.chunk = NoChunk
    <2> TAKE g \in G
    <2> DEFINE s == [from |-> g.from, to |-> g.to, chunk |-> NoChunk]
    <2>1. s \in N
      OBVIOUS
    <2>2. SameRange(g, s) /\ s.chunk = NoChunk
      BY DEF SameRange
    <2> QED
      BY <2>1, <2>2
  <1> HIDE DEF N
  <1>5. \A g \in G : \A s \in slots : s.from # g.from
    BY <1>1, <1>2 DEF IsQueue, QueueInv
  <1>6. \A i \in 1 .. Len(collector) : \A g \in G : collector[i].from # g.from
    BY <1>1, <1>5 DEF ServiceInv, SameRange
  <1>7. \A r \in workers' : \E s \in slots' : SameRange(r, s) /\ s.chunk = NoChunk
    BY <1>1, <1>3, <1>4 DEF ServiceInv
  <1> QED
    BY <1>1, <1>3, <1>6, <1>7 DEF ServiceInv, SameRange

LEMMA ServiceFill ==
    ASSUME IInv, HandleResponse PROVE ServiceInv'
  <1> DEFINE response == Head(collector)
             item == SlotAt(response.from)
             new == [item EXCEPT !.chunk = response.chunk]
             n == Len(collector)
  <1>1. TypeOK /\ QueueInv /\ ServiceInv
    BY DEF IInv
  <1>2. 1 \in 1 .. n /\ Head(collector) = collector[1] /\ n \in Nat
    BY <1>1 DEF HandleResponse, TypeOK
  <1>3. item \in slots /\ item.from = collector[1].from
    BY <1>1, <1>2, SlotOfResponse DEF SameRange
  <1>4. slots' = (slots \ {item}) \cup {new} /\ workers' = workers /\ collector' = Tail(collector)
    BY DEF HandleResponse
  <1> HIDE DEF new, item
  <1>5. Len(collector') = n - 1 /\ \A i \in 1 .. n - 1 : collector'[i] = collector[i + 1]
    BY <1>1, <1>2, <1>4 DEF TypeOK
  <1> HIDE DEF n
  <1>6. \A i \in 1 .. n - 1 : i + 1 \in 1 .. n /\ i + 1 # 1
    BY <1>2
  <1>7. \A s \in slots : s.from # collector[1].from => s \in slots'
    BY <1>3, <1>4
  <1>8. \A r \in workers' : \E s \in slots' : SameRange(r, s) /\ s.chunk = NoChunk
    BY <1>1, <1>2, <1>4, <1>7 DEF ServiceInv, SameRange, n
  <1>9. \A i \in 1 .. n : i # 1 => \E s \in slots' : SameRange(collector[i], s) /\ s.chunk = NoChunk
    BY <1>1, <1>2, <1>7 DEF ServiceInv, SameRange, n
  <1>10. \A i \in 1 .. Len(collector') :
             \E s \in slots' : SameRange(collector'[i], s) /\ s.chunk = NoChunk
    BY <1>5, <1>6, <1>9
  <1>11. \A i, j \in 1 .. n : i # j => collector[i].from # collector[j].from
    BY <1>1 DEF ServiceInv, n
  <1>12. \A i, j \in 1 .. Len(collector') : i # j => collector'[i].from # collector'[j].from
    <2> SUFFICES ASSUME NEW i \in 1 .. n - 1, NEW j \in 1 .. n - 1, i # j
                 PROVE  collector'[i].from # collector'[j].from
      BY <1>5
    <2>1. i + 1 \in 1 .. n /\ j + 1 \in 1 .. n /\ i + 1 # j + 1
      BY <1>2, <1>6
    <2>2. collector'[i] = collector[i + 1] /\ collector'[j] = collector[j + 1]
      BY <1>5
    <2> QED
      BY <1>11, <2>1, <2>2
  <1>13. \A i \in 1 .. n : \A r \in workers : collector[i].from # r.from
    BY <1>1 DEF ServiceInv, n
  <1>14. \A i \in 1 .. Len(collector') : \A r \in workers' : collector'[i].from # r.from
    <2> SUFFICES ASSUME NEW i \in 1 .. n - 1, NEW r \in workers PROVE collector'[i].from # r.from
      BY <1>4, <1>5
    <2>1. collector'[i] = collector[i + 1] /\ i + 1 \in 1 .. n
      BY <1>5, <1>6
    <2> QED
      BY <1>13, <2>1
  <1> QED
    BY <1>8, <1>10, <1>12, <1>14 DEF ServiceInv, SameRange

LEMMA ServiceStep == ASSUME IInv, [Next]_vars PROVE ServiceInv'
  <1>0. ServiceInv
    BY DEF IInv
  <1> USE DEF fetchVars, writeVars, history
  <1>1. CASE ChainGrows
    BY <1>0, <1>1, ServiceKept DEF ChainGrows
  <1>2. ASSUME NEW r \in workers, HandleChunk(r) PROVE ServiceInv'
    BY <1>2, ServiceRespond DEF HandleChunk
  <1>3. ASSUME NEW r \in workers, HandleChunkNilResults(r) PROVE ServiceInv'
    BY <1>3, ServiceRespond DEF HandleChunkNilResults
  <1>4. ASSUME NEW r \in workers, HandleChunkDone(r) PROVE ServiceInv'
    <2>1. workers' \subseteq workers /\ collector' = collector /\ slots' = slots
      BY <1>4 DEF HandleChunkDone
    <2> QED
      BY <1>0, <2>1, ServiceDropped
  <1>5. ASSUME NEW r \in workers, HandleChunkPanics(r) PROVE ServiceInv'
    BY <1>0, <1>5, ServiceKept DEF HandleChunkPanics
  <1>6. CASE SkipGenesis \/ FetchGenesis
    BY <1>0, <1>6, ServiceKept DEF SkipGenesis, FetchGenesis
  <1>8. ASSUME NEW h \in Reported, pc \in {"catchup", "select"}, AttemptRangeFetch(h) PROVE ServiceInv'
    BY <1>8, ServiceReserve
  <1>9. CASE LatestHeightFails \/ CommitFails \/ Cancel \/ Crash
    BY <1>0, <1>9, ServiceKept DEF LatestHeightFails, CommitFails, Cancel, Crash
  <1>10. CASE HandleResponse
    BY <1>10, ServiceFill
  <1>11. CASE DrainEnds
    BY <1>0, <1>11, ServiceKept DEF DrainEnds
  <1>12. CASE PopSlot
    <2>1. \A s \in slots : s.chunk = NoChunk => s \in slots'
      BY <1>12 DEF PopSlot
    <2> QED
      BY <1>0, <1>12, <2>1, ServiceKept DEF PopSlot
  <1>13. ASSUME NEW b \in wb.todo, SkipBlock(b) \/ SaveBlock(b) \/ SaveBlockPanics(b) PROVE ServiceInv'
    BY <1>0, <1>13, ServiceKept DEF SkipBlock, SaveBlock, SaveBlockPanics
  <1>16. CASE Commit \/ Stop
    BY <1>0, <1>16, ServiceKept DEF Commit, Stop
  <1>21. CASE Restart
    BY <1>21 DEF Restart, ServiceInv
  <1>22. CASE UNCHANGED vars
    BY <1>0, <1>22, ServiceKept DEF vars
  <1> QED
    BY <1>1, <1>2, <1>3, <1>4, <1>5, <1>6, <1>8, <1>9, <1>10, <1>11, <1>12, <1>13,
       <1>16, <1>21, <1>22 DEF Next, Worker, FetchLoop, Faults, CatchUp, Tick

-----------------------------------------------------------------------------
(* The chunks. *)

LEMMA ChunksKept ==
    ASSUME ChunkInv, slots' \subseteq slots, collector' = collector
    PROVE  ChunkInv'
  BY DEF ChunkInv, ChunkWithin

LEMMA ChunkRespond ==
    ASSUME IInv, NEW r \in workers, NEW B \in FetchedBlocks(r),
           NEW R \in FetchedResults(B) \cup {NilResults}, Respond(r, B, R)
    PROVE  ChunkInv'
  <1>1. TypeOK /\ ChunkInv /\ r \in Ranges
    BY DEF IInv, TypeOK
  <1> DEFINE c == [blocks |-> B, results |-> R]
             new == [from |-> r.from, to |-> r.to, chunk |-> c]
             n == Len(collector)
  <1>2. ChunkWithin(c, r.from, r.to)
    BY <1>1, FetchedChunk
  <1>3. collector' = Append(collector, new) /\ slots' = slots
    BY DEF Respond
  <1> HIDE DEF c
  <1>4. new.from = r.from /\ new.to = r.to /\ new.chunk = c
    OBVIOUS
  <1> HIDE DEF new
  <1>5. /\ Len(collector') = n + 1 /\ n \in Nat
        /\ \A i \in 1 .. n : collector'[i] = collector[i]
        /\ collector'[n + 1] = new
    BY <1>1, <1>3 DEF TypeOK
  <1> HIDE DEF n
  <1>6. \A i \in 1 .. Len(collector') : i \in 1 .. n \/ i = n + 1
    BY <1>5
  <1>7. \A i \in 1 .. n : ChunkWithin(collector[i].chunk, collector[i].from, collector[i].to)
    BY <1>1 DEF ChunkInv, n
  <1>8. ChunkWithin(new.chunk, new.from, new.to)
    BY <1>2, <1>4
  <1>9. \A i \in 1 .. Len(collector') :
            ChunkWithin(collector'[i].chunk, collector'[i].from, collector'[i].to)
    BY <1>5, <1>6, <1>7, <1>8
  <1> QED
    BY <1>1, <1>3, <1>9 DEF ChunkInv, ChunkWithin

LEMMA ChunkFill ==
    ASSUME IInv, HandleResponse PROVE ChunkInv'
  <1> DEFINE response == Head(collector)
             item == SlotAt(response.from)
             new == [item EXCEPT !.chunk = response.chunk]
             n == Len(collector)
  <1>1. TypeOK /\ QueueInv /\ ServiceInv /\ ChunkInv
    BY DEF IInv
  <1>2. 1 \in 1 .. n /\ Head(collector) = collector[1] /\ n \in Nat
    BY <1>1 DEF HandleResponse, TypeOK
  <1>3. item \in slots /\ item.from = response.from /\ item.to = response.to
    BY <1>1, <1>2, SlotOfResponse DEF SameRange
  <1>4. slots' = (slots \ {item}) \cup {new} /\ collector' = Tail(collector)
    BY DEF HandleResponse
  <1>5. new.from = response.from /\ new.to = response.to /\ new.chunk = response.chunk
    BY <1>1, <1>3, SlotType
  <1> HIDE DEF new, item
  <1>6. Len(collector') = n - 1 /\ \A i \in 1 .. n - 1 : collector'[i] = collector[i + 1]
    BY <1>1, <1>2, <1>4 DEF TypeOK
  <1>7. \A i \in 1 .. n : ChunkWithin(collector[i].chunk, collector[i].from, collector[i].to)
    BY <1>1 DEF ChunkInv
  <1>8. ChunkWithin(new.chunk, new.from, new.to)
    BY <1>2, <1>5, <1>7
  <1> HIDE DEF n, response
  <1>9. \A i \in 1 .. Len(collector') :
            ChunkWithin(collector'[i].chunk, collector'[i].from, collector'[i].to)
    <2> SUFFICES ASSUME NEW i \in 1 .. n - 1
                 PROVE  ChunkWithin(collector'[i].chunk, collector'[i].from, collector'[i].to)
      BY <1>6
    <2>1. collector'[i] = collector[i + 1] /\ i + 1 \in 1 .. n
      BY <1>2, <1>6
    <2> QED
      BY <1>7, <2>1
  <1>10. \A s \in slots' : s.chunk # NoChunk => ChunkWithin(s.chunk, s.from, s.to)
    BY <1>1, <1>4, <1>8 DEF ChunkInv
  <1> QED
    BY <1>9, <1>10 DEF ChunkInv, ChunkWithin

LEMMA ChunkStep == ASSUME IInv, [Next]_vars PROVE ChunkInv'
  <1>0. ChunkInv
    BY DEF IInv
  <1> USE DEF fetchVars, writeVars, history
  <1>1. CASE ChainGrows
    BY <1>0, <1>1, ChunksKept DEF ChainGrows
  <1>2. ASSUME NEW r \in workers, HandleChunk(r) PROVE ChunkInv'
    BY <1>2, ChunkRespond DEF HandleChunk
  <1>3. ASSUME NEW r \in workers, HandleChunkNilResults(r) PROVE ChunkInv'
    BY <1>3, ChunkRespond DEF HandleChunkNilResults
  <1>4. ASSUME NEW r \in workers, HandleChunkDone(r) \/ HandleChunkPanics(r) PROVE ChunkInv'
    BY <1>0, <1>4, ChunksKept DEF HandleChunkDone, HandleChunkPanics
  <1>6. CASE SkipGenesis \/ FetchGenesis
    BY <1>0, <1>6, ChunksKept DEF SkipGenesis, FetchGenesis
  <1>8. ASSUME NEW h \in Reported, AttemptRangeFetch(h) PROVE ChunkInv'
    <2>1. collector' = collector /\ \A s \in slots' : s \in slots \/ s.chunk = NoChunk
      BY <1>8 DEF AttemptRangeFetch
    <2> QED
      BY <1>0, <2>1 DEF ChunkInv, ChunkWithin
  <1>9. CASE LatestHeightFails \/ CommitFails \/ Cancel \/ Crash
    BY <1>0, <1>9, ChunksKept DEF LatestHeightFails, CommitFails, Cancel, Crash
  <1>10. CASE HandleResponse
    BY <1>10, ChunkFill
  <1>11. CASE DrainEnds \/ PopSlot
    BY <1>0, <1>11, ChunksKept DEF DrainEnds, PopSlot
  <1>13. ASSUME NEW b \in wb.todo, SkipBlock(b) \/ SaveBlock(b) \/ SaveBlockPanics(b) PROVE ChunkInv'
    BY <1>0, <1>13, ChunksKept DEF SkipBlock, SaveBlock, SaveBlockPanics
  <1>16. CASE Commit \/ Stop
    BY <1>0, <1>16, ChunksKept DEF Commit, Stop
  <1>21. CASE Restart
    BY <1>21 DEF Restart, ChunkInv
  <1>22. CASE UNCHANGED vars
    BY <1>0, <1>22, ChunksKept DEF vars
  <1> QED
    BY <1>1, <1>2, <1>3, <1>4, <1>6, <1>8, <1>9, <1>10, <1>11, <1>13,
       <1>16, <1>21, <1>22 DEF Next, Worker, FetchLoop, Faults, CatchUp, Tick

-----------------------------------------------------------------------------
(* The write in progress. *)

LEMMA WriteKept ==
    ASSUME WriteInv, pc' = "save" => pc = "save", wb' = wb, db' = db
    PROVE  WriteInv'
  BY DEF WriteInv, LatestLocal, ChunkWithin

LEMMA WriteStep == ASSUME IInv, [Next]_vars PROVE WriteInv'
  <1>0. WriteInv /\ TypeOK
    BY DEF IInv
  <1> USE DEF fetchVars, writeVars, history
  <1>1. CASE ChainGrows
    BY <1>0, <1>1, WriteKept DEF ChainGrows
  <1>2. ASSUME NEW r \in workers, Worker(r) PROVE WriteInv'
    <2>1. UNCHANGED <<db, wb>> /\ (pc' = pc \/ pc' = "panicked")
      BY <1>2 DEF Worker, HandleChunk, HandleChunkNilResults, HandleChunkDone, HandleChunkPanics, Respond
    <2> QED
      BY <1>0, <2>1, WriteKept
  <1>6. CASE SkipGenesis
    BY <1>6 DEF SkipGenesis, WriteInv
  <1>7. CASE FetchGenesis
    <2> DEFINE c == [blocks |-> {0}, results |-> SequentialResults({0} \cap Busy)]
    <2>1. c \in Chunks /\ DOMAIN c.results = Height /\ \A k \in Height : c.results[k] \subseteq {0}
      BY HeightType DEF Chunks, SequentialResults
    <2>2. c.blocks = {0}
      OBVIOUS
    <2>3. /\ wb' = [from |-> 0, to |-> 0, chunk |-> c, todo |-> c.blocks, blocks |-> {}, txs |-> {}]
          /\ db' = db /\ db.latest = NotFound
      BY <1>7 DEF FetchGenesis, BeginWrite
    <2> HIDE DEF c
    <2>4. ChunkWithin(c, 0, 0)
      <3>1. {0} \subseteq 0 .. 0
        OBVIOUS
      <3> QED
        BY <2>1, <2>2, <3>1 DEF ChunkWithin
    <2>5. /\ wb'.from = 0 /\ wb'.to = 0 /\ wb'.chunk = c
          /\ wb'.todo = {0} /\ wb'.blocks = {} /\ wb'.txs = {}
      BY <2>2, <2>3
    <2> QED
      BY <2>1, <2>2, <2>3, <2>4, <2>5 DEF WriteInv, ChunkWithin
  <1>8. ASSUME NEW h \in Reported, AttemptRangeFetch(h) PROVE WriteInv'
    BY <1>8 DEF AttemptRangeFetch, WriteInv
  <1>9. CASE LatestHeightFails \/ CommitFails \/ Cancel \/ Crash
    BY <1>0, <1>9, WriteKept DEF LatestHeightFails, CommitFails, Cancel, Crash
  <1>10. CASE HandleResponse \/ DrainEnds
    BY <1>10 DEF HandleResponse, DrainEnds, WriteInv
  <1>12. CASE PopSlot
    <2> DEFINE f == Front(slots)
    <2>1. f \in slots /\ f.from = LatestLocal + 1 /\ f.from <= f.to
      BY <1>12, FrontSlot DEF PopSlot, IInv
    <2>2. f.chunk \in Chunks /\ ChunkWithin(f.chunk, f.from, f.to)
      BY <1>0, <1>12, <2>1, SlotType DEF PopSlot, IInv, ChunkInv
    <2>3. /\ wb' = [from |-> f.from, to |-> f.to, chunk |-> f.chunk,
                    todo |-> f.chunk.blocks, blocks |-> {}, txs |-> {}]
          /\ db' = db
      BY <1>12 DEF PopSlot, BeginWrite
    <2> HIDE DEF f
    <2>4. /\ wb'.from = f.from /\ wb'.to = f.to /\ wb'.chunk = f.chunk
          /\ wb'.todo = f.chunk.blocks /\ wb'.blocks = {} /\ wb'.txs = {}
      BY <2>3
    <2>5. LatestLocal' = LatestLocal
      BY <2>3 DEF LatestLocal
    <2> QED
      BY <2>1, <2>2, <2>4, <2>5 DEF WriteInv, ChunkWithin
  <1>13. ASSUME NEW b \in wb.todo, SkipBlock(b) PROVE WriteInv'
    <2>1. /\ wb'.from = wb.from /\ wb'.to = wb.to /\ wb'.chunk = wb.chunk
          /\ wb'.todo = wb.todo \ {b} /\ wb'.blocks = wb.blocks /\ wb'.txs = wb.txs
          /\ LatestLocal' = LatestLocal /\ db' = db /\ b \in BadBlocks /\ pc = "save"
      BY <1>0, <1>13 DEF SkipBlock, TypeOK, LatestLocal
    <2> QED
      BY <1>0, <2>1 DEF WriteInv, ChunkWithin
  <1>14. ASSUME NEW b \in wb.todo, SaveBlock(b) PROVE WriteInv'
    <2>1. /\ wb'.from = wb.from /\ wb'.to = wb.to /\ wb'.chunk = wb.chunk
          /\ wb'.todo = wb.todo \ {b} /\ wb'.blocks = wb.blocks \cup {b}
          /\ wb'.txs = wb.txs \cup (wb.chunk.results[b] \ BadTxs)
          /\ LatestLocal' = LatestLocal /\ db' = db /\ pc = "save"
          /\ b \in DOMAIN wb.chunk.results
      BY <1>0, <1>14 DEF SaveBlock, TypeOK, LatestLocal
    <2>2. wb.chunk.results[b] \subseteq wb.from .. wb.to /\ b \in wb.from .. wb.to
      BY <1>0, <2>1 DEF WriteInv, ChunkWithin
    <2> QED
      BY <1>0, <2>1, <2>2 DEF WriteInv, ChunkWithin
  <1>15. ASSUME NEW b \in wb.todo, SaveBlockPanics(b) PROVE WriteInv'
    BY <1>15 DEF SaveBlockPanics, WriteInv
  <1>16. CASE Commit \/ Stop
    BY <1>16 DEF Commit, Stop, WriteInv
  <1>21. CASE Restart
    BY <1>21 DEF Restart, WriteInv
  <1>22. CASE UNCHANGED vars
    BY <1>0, <1>22, WriteKept DEF vars
  <1> QED
    BY <1>1, <1>2, <1>6, <1>7, <1>8, <1>9, <1>10, <1>12, <1>13, <1>14, <1>15,
       <1>16, <1>21, <1>22 DEF Next, FetchLoop, Faults, CatchUp, Tick

-----------------------------------------------------------------------------
(* The store. *)

\* What a commit adds lies above the stored height, and reaches every height up
\* to the new one.
LEMMA CommitRange ==
    ASSUME IInv, Commit
    PROVE  /\ wb.to \in Height /\ db'.latest = wb.to
           /\ db.latest # NotFound => db.latest < wb.to
           /\ \A k \in wb.from .. wb.to : k \in Height /\ (db.latest # NotFound => db.latest < k)
           /\ \A k \in 1 .. wb.to : k \in 1 .. db.latest \/ k \in wb.from .. wb.to
  <1>1. TypeOK /\ WriteInv /\ pc = "save"
    BY DEF IInv, Commit
  <1>2. /\ wb.from \in Height /\ wb.to \in Height /\ wb.from <= wb.to
        /\ db.latest \in Height \cup {NotFound}
        /\ wb.from = LatestLocal + 1 \/ (wb.from = 0 /\ db.latest = NotFound)
    BY <1>1 DEF TypeOK, WriteInv
  <1>3. db'.latest = wb.to
    BY DEF Commit
  <1>4. wb.from \in Nat /\ wb.to \in Nat /\ 0 .. wb.to \subseteq Height
    BY <1>2, HeightType
  <1>5. \A k \in wb.from .. wb.to : k \in Height
    BY <1>4
  <1>6. CASE db.latest = NotFound
    <2>1. wb.from \in {0, 1}
      BY <1>2, <1>6 DEF LatestLocal
    <2>2. \A k \in 1 .. wb.to : k \in wb.from .. wb.to
      BY <1>4, <2>1
    <2> QED
      BY <1>2, <1>3, <1>5, <1>6, <2>2
  <1>7. CASE db.latest # NotFound
    <2>1. wb.from = db.latest + 1 /\ db.latest \in Nat
      BY <1>2, <1>7, HeightType DEF LatestLocal
    <2> QED
      BY <1>2, <1>3, <1>4, <1>5, <2>1
  <1> QED
    BY <1>6, <1>7

LEMMA StoreKept == ASSUME NoHeightSkipped, db' = db, missed' = missed PROVE NoHeightSkipped'
  BY DEF NoHeightSkipped

\* Only Commit changes the store.
LEMMA OnlyCommitWrites == ASSUME [Next]_vars PROVE Commit \/ (db' = db /\ missed' = missed)
  <1> USE DEF fetchVars, writeVars, history
  <1>1. ASSUME NEW r \in workers, Worker(r) PROVE db' = db /\ missed' = missed
    BY <1>1 DEF Worker, HandleChunk, HandleChunkNilResults, HandleChunkDone, HandleChunkPanics, Respond
  <1>2. CASE FetchLoop
    BY <1>2 DEF FetchLoop, SkipGenesis, FetchGenesis, CatchUp, Tick, AttemptRangeFetch,
         HandleResponse, DrainEnds, PopSlot, SkipBlock, SaveBlock, SaveBlockPanics, Stop
  <1>3. CASE Faults
    BY <1>3 DEF Faults, LatestHeightFails, CommitFails, Cancel, Crash
  <1>4. CASE ChainGrows \/ Restart \/ UNCHANGED vars
    BY <1>4 DEF ChainGrows, Restart, vars
  <1> QED
    BY <1>1, <1>2, <1>3, <1>4 DEF Next

LEMMA SkippedStep == ASSUME IInv, [Next]_vars PROVE NoHeightSkipped'
  <1>1. CASE db' = db /\ missed' = missed
    BY <1>1, StoreKept DEF IInv
  <1>2. CASE Commit
    <2>1. /\ db'.latest = wb.to
          /\ \A k \in 1 .. wb.to : k \in 1 .. db.latest \/ k \in wb.from .. wb.to
      BY <1>2, CommitRange
    <2>2. /\ db'.blocks = db.blocks \cup wb.blocks
          /\ missed' = missed \cup {k \in wb.from .. wb.to : k \notin wb.chunk.blocks}
      BY <1>2 DEF Commit
    <2>3. wb.chunk.blocks \subseteq wb.blocks \cup BadBlocks
      BY <1>2 DEF Commit, IInv, WriteInv
    <2>4. \A k \in 1 .. db.latest : k \in db.blocks \cup BadBlocks \cup missed
      BY DEF IInv, NoHeightSkipped
    <2> QED
      BY <2>1, <2>2, <2>3, <2>4 DEF NoHeightSkipped
  <1> QED
    BY <1>1, <1>2, OnlyCommitWrites

LEMMA InvStep == ASSUME IInv, [Next]_vars PROVE IInv'
  BY TypeStep, QueueStep, ServiceStep, ChunkStep, WriteStep, SkippedStep DEF IInv

-----------------------------------------------------------------------------
(* The theorems. *)

\* Type correctness of the fetcher.
THEOREM TypeCorrect == Spec => []TypeOK
  <1>1. IInv /\ [Next]_vars => IInv'
    BY InvStep
  <1>2. IInv => TypeOK
    BY DEF IInv
  <1> QED
    BY InitIInv, <1>1, <1>2, PTL DEF Spec

\* The reserved ranges always continue the store without hole or overlap
\* (findGaps, PopFront and writeSlot together).
THEOREM QueueContinuesStore == Spec => []ReservationsContinueStore
  <1>1. IInv /\ [Next]_vars => IInv'
    BY InvStep
  <1>2. IInv => ReservationsContinueStore
    BY DEF IInv, QueueInv
  <1> QED
    BY InitIInv, <1>1, <1>2, PTL DEF Spec

\* The binary search of FetchChainData always finds the response's own slot.
THEOREM SearchFindsSlot == Spec => []ResponseFindsItsSlot
  <1>1. IInv /\ [Next]_vars => IInv'
    BY InvStep
  <1>2. IInv => ResponseFindsItsSlot
    BY SlotOfResponse DEF IInv, ResponseFindsItsSlot
  <1> QED
    BY InitIInv, <1>1, <1>2, PTL DEF Spec

\* No height at or below the stored one was passed over, unless the node did
\* not deliver it or it cannot be encoded.
THEOREM NothingSkipped == Spec => []NoHeightSkipped
  <1>1. IInv /\ [Next]_vars => IInv'
    BY InvStep
  <1>2. IInv => NoHeightSkipped
    BY DEF IInv
  <1> QED
    BY InitIInv, <1>1, <1>2, PTL DEF Spec

\* Every step of the fetcher is a step of the abstract index, or none.
LEMMA IndexStep == ASSUME IInv, [Next]_vars PROVE [Index!Next]_(Index!indexVars)
  <1>1. CASE db' = db
    BY <1>1 DEF Index!indexVars
  <1>2. CASE Commit
    <2>1. /\ wb.to \in Height /\ db'.latest = wb.to
          /\ db.latest # NotFound => db.latest < wb.to
          /\ \A k \in wb.from .. wb.to : k \in Height /\ (db.latest # NotFound => db.latest < k)
      BY <1>2, CommitRange
    <2>2. wb.blocks \subseteq wb.from .. wb.to /\ wb.txs \subseteq wb.from .. wb.to
      BY <1>2 DEF Commit, IInv, WriteInv
    <2>3. db'.blocks = db.blocks \cup wb.blocks /\ db'.txs = db.txs \cup wb.txs
      BY <1>2 DEF Commit
    <2>4. wb.to \in Index!Above(db.latest, wb.to)
      <3>1. wb.to \in Nat
        BY <2>1, HeightType
      <3>2. wb.to <= wb.to
        BY <3>1
      <3> QED
        BY <2>1, <3>2 DEF Index!Above
    <2>5. wb.blocks \in SUBSET Index!Above(db.latest, wb.to)
      BY <2>1, <2>2, HeightType DEF Index!Above
    <2>6. wb.txs \in SUBSET Index!Above(db.latest, wb.to)
      BY <2>1, <2>2, HeightType DEF Index!Above
    <2>7. Index!Extend(wb.to)
      BY <2>1, <2>3, <2>4, <2>5, <2>6 DEF Index!Extend
    <2> QED
      BY <2>1, <2>7 DEF Index!Next
  <1> QED
    BY <1>1, <1>2, OnlyCommitWrites

\* The fetcher implements ChainIndex: the store only changes by a batch for the
\* heights right above it, whatever crashes, fails or restarts.
THEOREM FetcherImplementsIndex == Spec => ImplementsChainIndex
  <1>1. Init => Index!Init
    BY DEF Init, Index!Init
  <1>2. IInv /\ [Next]_vars => IInv'
    BY InvStep
  <1>3. IInv /\ [Next]_vars => [Index!Next]_(Index!indexVars)
    BY IndexStep
  <1> QED
    BY InitIInv, <1>1, <1>2, <1>3, PTL DEF Spec, ImplementsChainIndex, Index!Spec

-----------------------------------------------------------------------------
(* The announced blocks. *)

\* Events stay below what is still to be announced: they reach no higher than
\* the store, or the write in progress; and, between writes, every announced
\* block is stored or is genesis.
EventInv ==
    /\ pc = "genesis" => events = <<>>
    /\ pc \in Running \ {"save"} =>
           \A i \in 1 .. Len(events) : /\ events[i].block <= LatestLocal
                                       /\ events[i].block \in db.blocks \cup {0}
    /\ pc = "save" =>
           \A i \in 1 .. Len(events) : /\ events[i].block <= wb.to
                                       /\ \A b \in wb.todo : events[i].block < b

HistoryInv == IInv /\ EventInv /\ EventsInOrder /\ AnnouncedMatchesBatches

LEMMA EventType ==
    ASSUME TypeOK, NEW i \in 1 .. Len(events)
    PROVE  events[i].block \in Height /\ events[i].block \in Nat
  <1> DEFINE E == [block : Height, results : SUBSET Height]
  <1>1. events \in Seq(E)
    BY DEF TypeOK
  <1> HIDE DEF E
  <1>2. events[i] \in E
    BY <1>1
  <1> QED
    BY <1>2, HeightType DEF E

\* A step that signals nothing and leaves the write and the store alone.
LEMMA EventsKept ==
    ASSUME EventInv, EventsInOrder, AnnouncedMatchesBatches, UNCHANGED <<events, wb, db>>,
           \/ pc' = pc
           \/ pc' \in Halted
           \/ pc \in Running \ {"save"} /\ pc' \in Running \ {"save", "genesis"}
    PROVE  EventInv' /\ EventsInOrder' /\ AnnouncedMatchesBatches'
  <1>1. LatestLocal' = LatestLocal /\ Announced' = Announced
    BY DEF LatestLocal, Announced
  <1>2. EventsInOrder' /\ AnnouncedMatchesBatches'
    BY <1>1 DEF EventsInOrder, AnnouncedMatchesBatches
  <1>3. EventInv'
    BY <1>1 DEF EventInv, Running, Halted
  <1> QED
    BY <1>2, <1>3

LEMMA EventStep == ASSUME HistoryInv, [Next]_vars PROVE EventInv' /\ EventsInOrder' /\ AnnouncedMatchesBatches'
  <1> DEFINE Goal == EventInv' /\ EventsInOrder' /\ AnnouncedMatchesBatches'
  <1>0. IInv /\ TypeOK /\ WriteInv /\ EventInv /\ EventsInOrder /\ AnnouncedMatchesBatches
    BY DEF HistoryInv, IInv
  <1> USE DEF fetchVars, writeVars, history
  <1>1. ASSUME NEW r \in workers, Worker(r) PROVE Goal
    <2>1. UNCHANGED <<events, wb, db>> /\ (pc' = pc \/ pc' \in Halted)
      BY <1>1 DEF Worker, HandleChunk, HandleChunkNilResults, HandleChunkDone, HandleChunkPanics, Respond, Halted
    <2> QED
      BY <1>0, <2>1, EventsKept
  <1>2. CASE ChainGrows \/ SkipGenesis \/ HandleResponse \/ DrainEnds \/ Stop
    <2>1. /\ UNCHANGED <<events, wb, db>>
          /\ \/ pc' = pc
             \/ pc' \in Halted
             \/ pc \in Running \ {"save"} /\ pc' \in Running \ {"save", "genesis"}
      BY <1>2 DEF ChainGrows, SkipGenesis, HandleResponse, DrainEnds, Stop, Running, Halted
    <2> QED
      BY <1>0, <2>1, EventsKept
  <1>3. ASSUME NEW h \in Reported, pc \in {"catchup", "select"}, AttemptRangeFetch(h) PROVE Goal
    <2>1. UNCHANGED <<events, wb, db>> /\ pc \in Running \ {"save"} /\ pc' \in Running \ {"save", "genesis"}
      BY <1>3 DEF AttemptRangeFetch, Running
    <2> QED
      BY <1>0, <2>1, EventsKept
  <1>4. CASE LatestHeightFails \/ Cancel \/ Crash
    <2>1. UNCHANGED <<events, wb, db>> /\ (pc' = pc \/ pc' \in Halted)
      BY <1>4 DEF LatestHeightFails, Cancel, Crash, Halted
    <2> QED
      BY <1>0, <2>1, EventsKept
  <1>5. ASSUME NEW b \in wb.todo, SaveBlockPanics(b) PROVE Goal
    <2>1. UNCHANGED <<events, wb, db>> /\ pc' \in Halted
      BY <1>5 DEF SaveBlockPanics, Halted
    <2> QED
      BY <1>0, <2>1, EventsKept
  <1>6. CASE UNCHANGED vars
    <2>1. UNCHANGED <<events, wb, db>> /\ pc' = pc
      BY <1>6 DEF vars
    <2> QED
      BY <1>0, <2>1, EventsKept
  <1>7. CASE Restart
    <2>1. events' = <<>> /\ wb' = NoWrite
      BY <1>7 DEF Restart
    <2>2. wb'.blocks = {} /\ Announced' = {}
      BY <2>1 DEF NoWrite, Announced
    <2> QED
      BY <2>1, <2>2 DEF EventInv, EventsInOrder, AnnouncedMatchesBatches
  <1>8. CASE FetchGenesis
    <2>1. events' = <<>> /\ wb'.blocks = {} /\ pc' = "save"
      BY <1>0, <1>8 DEF FetchGenesis, BeginWrite, EventInv
    <2>2. Announced' = {}
      BY <2>1 DEF Announced
    <2> QED
      BY <2>1, <2>2 DEF EventInv, EventsInOrder, AnnouncedMatchesBatches
  <1>9. CASE PopSlot
    <2> DEFINE f == Front(slots)
    <2>1. f \in slots /\ f.from = LatestLocal + 1 /\ f.from <= f.to
      BY <1>9, FrontSlot DEF PopSlot, HistoryInv, IInv
    <2>2. f.chunk.blocks \subseteq f.from .. f.to /\ f.from \in Nat /\ f.to \in Nat
      BY <1>0, <1>9, <2>1, SlotType, HeightType DEF PopSlot, IInv, ChunkInv, ChunkWithin
    <2>3. /\ pc = "drain" /\ pc' = "save" /\ events' = events /\ db' = db
          /\ wb'.to = f.to /\ wb'.todo = f.chunk.blocks /\ wb'.blocks = {}
      BY <1>9 DEF PopSlot, BeginWrite
    <2> HIDE DEF f
    <2>4. \A i \in 1 .. Len(events) : /\ events[i].block <= LatestLocal
                                      /\ events[i].block \in db.blocks \cup {0}
                                      /\ events[i].block \in Nat
      BY <1>0, <2>3, EventType DEF EventInv, Running
    <2>5. LatestLocal \in Nat
      BY <1>0, LatestLocalType, HeightType
    <2>6. EventInv'
      BY <2>1, <2>2, <2>3, <2>4, <2>5 DEF EventInv
    <2>7. AnnouncedMatchesBatches'
      BY <2>3, <2>4 DEF AnnouncedMatchesBatches, Announced
    <2> QED
      BY <1>0, <2>3, <2>6, <2>7 DEF EventsInOrder
  <1>10. ASSUME NEW b \in wb.todo, SkipBlock(b) PROVE Goal
    <2>1. /\ pc = "save" /\ pc' = pc /\ UNCHANGED <<events, db>>
          /\ wb'.to = wb.to /\ wb'.todo = wb.todo \ {b} /\ wb'.blocks = wb.blocks
      BY <1>0, <1>10 DEF SkipBlock, TypeOK
    <2> QED
      BY <1>0, <2>1 DEF EventInv, EventsInOrder, AnnouncedMatchesBatches, Announced, Running
  <1>11. ASSUME NEW b \in wb.todo, SaveBlock(b) PROVE Goal
    <2> DEFINE n == Len(events)
               new == [block |-> b, results |-> wb.chunk.results[b]]
    <2>1. /\ pc = "save" /\ pc' = pc /\ db' = db /\ events' = Append(events, new)
          /\ wb'.to = wb.to /\ wb'.todo = wb.todo \ {b} /\ wb'.blocks = wb.blocks \cup {b}
          /\ \A c \in wb.todo : b <= c
      BY <1>0, <1>11 DEF SaveBlock, NextBlock, TypeOK
    <2>2. b \in Nat /\ b <= wb.to /\ wb.todo \subseteq Nat
      BY <1>0, <2>1, HeightType DEF WriteInv, ChunkWithin, TypeOK
    <2>3. new.block = b
      OBVIOUS
    <2> HIDE DEF new
    <2>4. /\ n \in Nat /\ Len(events') = n + 1 /\ events'[n + 1] = new
          /\ \A i \in 1 .. n : events'[i] = events[i]
      BY <1>0, <2>1 DEF TypeOK
    <2>5. \A i \in 1 .. n : /\ events[i].block <= wb.to /\ events[i].block \in Nat
                            /\ \A c \in wb.todo : events[i].block < c
      BY <1>0, <2>1, EventType DEF EventInv
    <2>6. \A i \in 1 .. n + 1 : i \in 1 .. n \/ i = n + 1
      BY <2>4
    <2>7. EventInv'
      <3>1. ASSUME NEW i \in 1 .. n + 1
            PROVE  events'[i].block <= wb.to /\ \A c \in wb.todo \ {b} : events'[i].block < c
        <4>1. CASE i \in 1 .. n
          BY <2>4, <2>5, <4>1
        <4>2. CASE i = n + 1
          BY <2>1, <2>2, <2>3, <2>4, <4>2
        <4> QED
          BY <2>6, <4>1, <4>2
      <3> QED
        BY <2>1, <2>4, <3>1 DEF EventInv, Running
    <2>8. EventsInOrder'
      <3> SUFFICES ASSUME NEW i \in 1 .. n + 1, NEW j \in 1 .. n + 1, i < j
                   PROVE  events'[i].block < events'[j].block
        BY <2>4 DEF EventsInOrder
      <3>1. i \in 1 .. n
        BY <2>4
      <3>2. CASE j \in 1 .. n
        BY <1>0, <2>4, <3>1, <3>2 DEF EventsInOrder
      <3>3. CASE j = n + 1
        BY <2>3, <2>4, <2>5, <3>1, <3>3
      <3> QED
        BY <2>6, <3>2, <3>3
    <2>9. Announced' = Announced \cup {b}
      <3>1. ASSUME NEW x \in Announced' PROVE x \in Announced \cup {b}
        <4>1. PICK i \in 1 .. n + 1 : x = events'[i].block
          BY <2>4 DEF Announced
        <4> QED
          BY <2>3, <2>4, <2>6, <4>1 DEF Announced
      <3>2. ASSUME NEW x \in Announced PROVE x \in Announced'
        <4>1. PICK i \in 1 .. n : x = events[i].block
          BY DEF Announced
        <4>2. i \in 1 .. n + 1 /\ events'[i].block = x
          BY <2>4, <4>1
        <4> QED
          BY <2>4, <4>2 DEF Announced
      <3>3. b \in Announced'
        <4>1. n + 1 \in 1 .. Len(events') /\ events'[n + 1].block = b
          BY <2>3, <2>4
        <4> QED
          BY <4>1 DEF Announced
      <3> QED
        BY <3>1, <3>2, <3>3
    <2>10. AnnouncedMatchesBatches'
      BY <1>0, <2>1, <2>9 DEF AnnouncedMatchesBatches
    <2> QED
      BY <2>7, <2>8, <2>10
  <1>12. CASE Commit
    <2>1. /\ pc = "save" /\ wb' = wb /\ events' = events
          /\ pc' \in {"catchup", "drain"}
          /\ db'.latest = wb.to /\ db'.blocks = db.blocks \cup wb.blocks
      BY <1>12 DEF Commit
    <2>2. LatestLocal' = wb.to
      <3>1. wb.to # NotFound
        BY <1>0, HeightType DEF TypeOK, NotFound
      <3> QED
        BY <2>1, <3>1 DEF LatestLocal
    <2>3. Announced' = Announced
      BY <2>1 DEF Announced
    <2>4. \A i \in 1 .. Len(events) : events[i].block \in db'.blocks \cup {0}
      BY <1>0, <2>1 DEF AnnouncedMatchesBatches, Announced
    <2>5. \A i \in 1 .. Len(events) : events[i].block <= wb.to
      BY <1>0, <2>1 DEF EventInv
    <2>6. EventInv'
      BY <2>1, <2>2, <2>4, <2>5 DEF EventInv
    <2> QED
      BY <1>0, <2>1, <2>3, <2>6 DEF EventsInOrder, AnnouncedMatchesBatches
  <1>13. CASE CommitFails
    <2>1. pc = "save" /\ UNCHANGED <<events, wb, db>>
      BY <1>13 DEF CommitFails
    <2>2. CASE wb.to # 0
      <3>1. pc' \in Halted
        BY <1>13, <2>2 DEF CommitFails, Halted
      <3> QED
        BY <1>0, <2>1, <3>1, EventsKept
    <2>3. CASE wb.to = 0
      <3>1. pc' = "catchup"
        BY <1>13, <2>3 DEF CommitFails
      <3>2. LatestLocal \in Nat /\ LatestLocal' = LatestLocal
        BY <1>0, <2>1, LatestLocalType, HeightType DEF LatestLocal
      <3>3. \A i \in 1 .. Len(events) : events[i].block = 0
        BY <1>0, <2>1, <2>3, EventType DEF EventInv
      <3>4. EventInv'
        BY <2>1, <3>1, <3>2, <3>3 DEF EventInv
      <3> QED
        BY <1>0, <2>1, <3>4 DEF EventsInOrder, AnnouncedMatchesBatches, Announced
    <2> QED
      BY <2>2, <2>3
  <1> QED
    BY <1>1, <1>2, <1>3, <1>4, <1>5, <1>6, <1>7, <1>8, <1>9, <1>10, <1>11, <1>12, <1>13
       DEF Next, FetchLoop, Faults, CatchUp, Tick

LEMMA InitHistory == Init => HistoryInv
  <1> SUFFICES ASSUME Init PROVE HistoryInv
    OBVIOUS
  <1>1. events = <<>> /\ wb = NoWrite
    BY DEF Init
  <1>2. wb.blocks = {} /\ Announced = {}
    BY <1>1 DEF NoWrite, Announced
  <1> QED
    BY InitIInv, <1>1, <1>2 DEF HistoryInv, EventInv, EventsInOrder, AnnouncedMatchesBatches

LEMMA HistoryStep == ASSUME HistoryInv, [Next]_vars PROVE HistoryInv'
  BY InvStep, EventStep DEF HistoryInv

\* Listeners see the blocks of a process in height order, each once, however the
\* responses arrived and whatever failed in between.
THEOREM EventsAreOrdered == Spec => []EventsInOrder
  <1>1. HistoryInv /\ [Next]_vars => HistoryInv'
    BY HistoryStep
  <1>2. HistoryInv => EventsInOrder
    BY DEF HistoryInv
  <1> QED
    BY InitHistory, <1>1, <1>2, PTL DEF Spec

\* What is announced is what reached a batch, and only the latest write, or
\* genesis, can be announced and not stored (CommitFails after SaveBlock).
THEOREM AnnouncementsMatchBatches == Spec => []AnnouncedMatchesBatches
  <1>1. HistoryInv /\ [Next]_vars => HistoryInv'
    BY HistoryStep
  <1>2. HistoryInv => AnnouncedMatchesBatches
    BY DEF HistoryInv
  <1> QED
    BY InitHistory, <1>1, <1>2, PTL DEF Spec

-----------------------------------------------------------------------------
(* The results. *)

\* An entry of the results stands at the index of a block of the chunk, and
\* holds results of that block or of later ones.
Filed(c) == \A k \in DOMAIN c.results : \A h \in c.results[k] : k \in c.blocks /\ k <= h

\* No slot is wider than a chunk, and fetched chunks are filed.
FiledInv ==
    /\ \A s \in slots : s.to - s.from < MaxChunkSize /\ (s.chunk # NoChunk => Filed(s.chunk))
    /\ \A i \in 1 .. Len(collector) : Filed(collector[i].chunk)

\* The write in progress has saved the results at the index of every block it
\* is through with, unless the block could not be encoded.
BatchInv ==
    pc = "save" =>
        /\ wb.to - wb.from < MaxChunkSize /\ Filed(wb.chunk)
        /\ wb.blocks \subseteq wb.chunk.blocks
        /\ \A k \in wb.chunk.blocks \ wb.todo :
               \/ k \in BadBlocks
               \/ /\ k \in DOMAIN wb.chunk.results
                  /\ wb.chunk.results[k] \ BadTxs \subseteq wb.txs

ResultInv == IInv /\ FiledInv /\ BatchInv /\ FetchedResultsAreStored

\* The batch path puts the k-th answer at index k, so never behind its block:
\* there are at least as many blocks as busy blocks below any height.
LEMMA BatchFilesEarly ==
    ASSUME NEW B \in SUBSET Height, NEW b \in B, NEW c \in B \cap Busy,
           Rank(B \cap Busy, c) = Rank(B, b)
    PROVE  b <= c
  <1> DEFINE T == {y \in B \cap Busy : y < c}
             U == {y \in B : y < b}
  <1>1. b \in Nat /\ c \in Nat /\ B \subseteq Nat
    BY HeightType
  <1>2. IsFiniteSet(B) /\ IsFiniteSet(T) /\ IsFiniteSet(U)
    <2>1. IsFiniteSet(B)
      BY HeightType, FS_Subset
    <2> QED
      BY <2>1, FS_Subset
  <1>3. Cardinality(T) = Cardinality(U)
    BY DEF Rank
  <1>4. ASSUME c < b PROVE FALSE
    <2>1. T \cup {c} \subseteq U /\ c \notin T
      <3>1. ASSUME NEW y \in T PROVE y \in U
        <4>1. y \in B /\ y \in Nat /\ y < c
          BY <1>1
        <4>2. y < b
          BY <1>1, <1>4, <4>1
        <4> QED
          BY <4>1, <4>2
      <3>2. c \in U
        BY <1>4
      <3>3. ~(c < c)
        BY <1>1
      <3> QED
        BY <3>1, <3>2, <3>3
    <2> HIDE DEF T, U
    <2>2. IsFiniteSet(T \cup {c}) /\ Cardinality(T \cup {c}) = Cardinality(T) + 1
      BY <1>2, <2>1, FS_AddElement
    <2>3. Cardinality(T \cup {c}) <= Cardinality(U)
      BY <1>2, <2>1, FS_Subset
    <2>4. Cardinality(T) \in Nat
      BY <1>2, FS_CardinalityType
    <2> QED
      BY <1>3, <2>2, <2>3, <2>4
  <1> QED
    BY <1>1, <1>4

LEMMA FetchedAreFiled ==
    ASSUME NEW r \in Ranges, NEW B \in FetchedBlocks(r),
           NEW R \in FetchedResults(B) \cup {NilResults}
    PROVE  Filed([blocks |-> B, results |-> R])
  <1>1. B \in SUBSET Height
    BY HeightType DEF FetchedBlocks, Sequentially, Ranges, Height
  <1>2. CASE R = BatchResults(B)
    <2> SUFFICES ASSUME NEW k \in Height, NEW h \in BatchResults(B)[k]
                 PROVE  k \in B /\ k <= h
      BY <1>2 DEF Filed, BatchResults
    <2>1. k \in B /\ h \in B \cap Busy /\ Rank(B \cap Busy, h) = Rank(B, k)
      BY DEF BatchResults
    <2> QED
      BY <1>1, <2>1, BatchFilesEarly
  <1>3. ASSUME NEW S \in Sequentially(B \cap Busy), R = SequentialResults(S)
        PROVE  Filed([blocks |-> B, results |-> R])
    <2>1. S \subseteq B /\ B \subseteq Nat
      BY <1>1, HeightType DEF Sequentially
    <2> SUFFICES ASSUME NEW k \in Height, NEW h \in SequentialResults(S)[k]
                 PROVE  k \in B /\ k <= h
      BY <1>3 DEF Filed, SequentialResults
    <2>2. h = k /\ h \in S
      BY DEF SequentialResults
    <2>3. k \in B /\ k \in Nat
      BY <2>1, <2>2
    <2>4. k <= k
      BY <2>3
    <2> QED
      BY <2>2, <2>3, <2>4
  <1>4. CASE R = NilResults
    BY <1>4 DEF Filed, NilResults
  <1> QED
    BY <1>2, <1>3, <1>4 DEF FetchedResults

LEMMA FiledKept == ASSUME FiledInv, slots' \subseteq slots, collector' = collector PROVE FiledInv'
  BY DEF FiledInv, Filed

LEMMA FiledRespond ==
    ASSUME IInv, FiledInv, NEW r \in workers, NEW B \in FetchedBlocks(r),
           NEW R \in FetchedResults(B) \cup {NilResults}, Respond(r, B, R)
    PROVE  FiledInv'
  <1>1. TypeOK /\ r \in Ranges
    BY DEF IInv, TypeOK
  <1> DEFINE c == [blocks |-> B, results |-> R]
             new == [from |-> r.from, to |-> r.to, chunk |-> c]
             n == Len(collector)
  <1>2. Filed(c)
    BY <1>1, FetchedAreFiled
  <1>3. collector' = Append(collector, new) /\ slots' = slots
    BY DEF Respond
  <1> HIDE DEF c
  <1>4. Filed(new.chunk)
    BY <1>2
  <1> HIDE DEF new
  <1>5. /\ Len(collector') = n + 1 /\ n \in Nat
        /\ \A i \in 1 .. n : collector'[i] = collector[i]
        /\ collector'[n + 1] = new
    BY <1>1, <1>3 DEF TypeOK
  <1>6. \A i \in 1 .. n : Filed(collector[i].chunk)
    BY DEF FiledInv
  <1> HIDE DEF n
  <1>7. \A i \in 1 .. Len(collector') : i \in 1 .. n \/ i = n + 1
    BY <1>5
  <1>8. \A i \in 1 .. Len(collector') : Filed(collector'[i].chunk)
    BY <1>4, <1>5, <1>6, <1>7
  <1> QED
    BY <1>3, <1>8 DEF FiledInv, Filed

LEMMA FiledFill ==
    ASSUME IInv, FiledInv, HandleResponse PROVE FiledInv'
  <1> DEFINE response == Head(collector)
             item == SlotAt(response.from)
             new == [item EXCEPT !.chunk = response.chunk]
             n == Len(collector)
  <1>1. TypeOK /\ QueueInv /\ ServiceInv
    BY DEF IInv
  <1>2. 1 \in 1 .. n /\ Head(collector) = collector[1] /\ n \in Nat
    BY <1>1 DEF HandleResponse, TypeOK
  <1>3. item \in slots
    BY <1>1, <1>2, SlotOfResponse
  <1>4. slots' = (slots \ {item}) \cup {new} /\ collector' = Tail(collector)
    BY DEF HandleResponse
  <1>5. new.from = item.from /\ new.to = item.to /\ new.chunk = response.chunk
    BY <1>1, <1>3, SlotType
  <1> HIDE DEF new, item
  <1>6. Len(collector') = n - 1 /\ \A i \in 1 .. n - 1 : collector'[i] = collector[i + 1]
    BY <1>1, <1>2, <1>4 DEF TypeOK
  <1>7. \A i \in 1 .. n : Filed(collector[i].chunk)
    BY DEF FiledInv
  <1>8. Filed(new.chunk) /\ new.to - new.from < MaxChunkSize
    BY <1>2, <1>3, <1>5, <1>7 DEF FiledInv
  <1> HIDE DEF n, response
  <1>9. \A i \in 1 .. Len(collector') : Filed(collector'[i].chunk)
    <2> SUFFICES ASSUME NEW i \in 1 .. n - 1 PROVE Filed(collector'[i].chunk)
      BY <1>6
    <2>1. collector'[i] = collector[i + 1] /\ i + 1 \in 1 .. n
      BY <1>2, <1>6
    <2> QED
      BY <1>7, <2>1
  <1>10. \A s \in slots' : s.to - s.from < MaxChunkSize /\ (s.chunk # NoChunk => Filed(s.chunk))
    BY <1>4, <1>8 DEF FiledInv
  <1> QED
    BY <1>9, <1>10 DEF FiledInv, Filed

LEMMA NewRangesBounded ==
    ASSUME TypeOK, QueueInv, pc \in {"catchup", "select"}, NEW h \in Reported
    PROVE  /\ \A g \in NewRanges(h) : g.to - g.from < MaxChunkSize
           /\ IsFiniteSet(NewRanges(h))
           /\ Cardinality(slots) <= MaxSlots => Cardinality(slots) + Cardinality(NewRanges(h)) <= MaxSlots
  <1>1. LatestLocal \in Nat
    BY LatestLocalType, HeightType
  <1>2. h \in Nat
    BY HeightType, FetcherAssumption DEF Reported, TypeOK, Height
  <1>3. Continues(slots, LatestLocal) /\ IsQueue(slots)
    BY DEF QueueInv, ReservationsContinueStore, Continues, Running, Base
  <1>4. MaxChunkSize \in Nat /\ MaxChunkSize > 0 /\ MaxSlots \in Nat
    BY FetcherAssumption
  <1>5. Within(slots, MaxHeight) /\ MaxHeight \in Nat
    BY SlotsWithin
  <1>6. CASE NewRanges(h) = {}
    <2>1. IsFiniteSet({}) /\ Cardinality({}) = 0
      BY FS_EmptySet
    <2>2. Cardinality(slots) \in Nat
      BY <1>3, <1>5, QueueIsFinite, FS_CardinalityType
    <2> QED
      BY <1>4, <1>6, <2>1, <2>2
  <1>7. CASE NewRanges(h) # {}
    <2>1. /\ LatestLocal < h
          /\ NewRanges(h) = ReserveChunkRanges(slots, LatestLocal + 1, h, MaxChunkSize, MaxSlots)
      BY <1>1, <1>2, <1>7 DEF NewRanges
    <2> QED
      BY <1>1, <1>2, <1>3, <1>4, <1>5, <2>1, ReservationsAreBounded
  <1> QED
    BY <1>6, <1>7

LEMMA FiledStep == ASSUME IInv, FiledInv, [Next]_vars PROVE FiledInv'
  <1> USE DEF fetchVars, writeVars, history
  <1>1. CASE ChainGrows
    BY <1>1, FiledKept DEF ChainGrows
  <1>2. ASSUME NEW r \in workers, HandleChunk(r) PROVE FiledInv'
    BY <1>2, FiledRespond DEF HandleChunk
  <1>3. ASSUME NEW r \in workers, HandleChunkNilResults(r) PROVE FiledInv'
    BY <1>3, FiledRespond DEF HandleChunkNilResults
  <1>4. ASSUME NEW r \in workers, HandleChunkDone(r) \/ HandleChunkPanics(r) PROVE FiledInv'
    BY <1>4, FiledKept DEF HandleChunkDone, HandleChunkPanics
  <1>6. CASE SkipGenesis \/ FetchGenesis
    BY <1>6, FiledKept DEF SkipGenesis, FetchGenesis
  <1>8. ASSUME NEW h \in Reported, pc \in {"catchup", "select"}, AttemptRangeFetch(h) PROVE FiledInv'
    <2>1. \A g \in NewRanges(h) : g.to - g.from < MaxChunkSize
      BY <1>8, NewRangesBounded DEF IInv
    <2>2. /\ collector' = collector
          /\ \A s \in slots' : s \in slots \/ (s.chunk = NoChunk /\ s.to - s.from < MaxChunkSize)
      BY <1>8, <2>1 DEF AttemptRangeFetch
    <2> QED
      BY <2>2 DEF FiledInv, Filed
  <1>9. CASE LatestHeightFails \/ CommitFails \/ Cancel \/ Crash
    BY <1>9, FiledKept DEF LatestHeightFails, CommitFails, Cancel, Crash
  <1>10. CASE HandleResponse
    BY <1>10, FiledFill
  <1>11. CASE DrainEnds \/ PopSlot
    BY <1>11, FiledKept DEF DrainEnds, PopSlot
  <1>13. ASSUME NEW b \in wb.todo, SkipBlock(b) \/ SaveBlock(b) \/ SaveBlockPanics(b) PROVE FiledInv'
    BY <1>13, FiledKept DEF SkipBlock, SaveBlock, SaveBlockPanics
  <1>16. CASE Commit \/ Stop
    BY <1>16, FiledKept DEF Commit, Stop
  <1>21. CASE Restart
    BY <1>21 DEF Restart, FiledInv
  <1>22. CASE UNCHANGED vars
    BY <1>22, FiledKept DEF vars
  <1> QED
    BY <1>1, <1>2, <1>3, <1>4, <1>6, <1>8, <1>9, <1>10, <1>11, <1>13,
       <1>16, <1>21, <1>22 DEF Next, Worker, FetchLoop, Faults, CatchUp, Tick

LEMMA BatchKept == ASSUME BatchInv, pc' = "save" => pc = "save", wb' = wb PROVE BatchInv'
  BY DEF BatchInv, Filed

LEMMA BatchStep == ASSUME IInv, FiledInv, BatchInv, [Next]_vars PROVE BatchInv'
  <1>0. WriteInv /\ TypeOK
    BY DEF IInv
  <1> USE DEF fetchVars, writeVars, history
  <1>2. ASSUME NEW r \in workers, Worker(r) PROVE BatchInv'
    <2>1. wb' = wb /\ (pc' = pc \/ pc' = "panicked")
      BY <1>2 DEF Worker, HandleChunk, HandleChunkNilResults, HandleChunkDone, HandleChunkPanics, Respond
    <2> QED
      BY <2>1, BatchKept
  <1>7. CASE FetchGenesis
    <2> DEFINE c == [blocks |-> {0}, results |-> SequentialResults({0} \cap Busy)]
    <2>1. c.blocks = {0} /\ \A k \in DOMAIN c.results : c.results[k] \subseteq {0} \cap {k}
      BY DEF SequentialResults
    <2>2. wb' = [from |-> 0, to |-> 0, chunk |-> c, todo |-> c.blocks, blocks |-> {}, txs |-> {}]
      BY <1>7 DEF FetchGenesis, BeginWrite
    <2> HIDE DEF c
    <2>3. Filed(c)
      BY <2>1 DEF Filed
    <2>4. /\ wb'.from = 0 /\ wb'.to = 0 /\ wb'.chunk = c
          /\ wb'.todo = c.blocks /\ wb'.blocks = {} /\ wb'.txs = {}
      BY <2>2
    <2>5. wb'.to - wb'.from < MaxChunkSize
      BY <2>4, FetcherAssumption
    <2> QED
      BY <2>3, <2>4, <2>5 DEF BatchInv, Filed
  <1>8. ASSUME NEW h \in Reported, AttemptRangeFetch(h) PROVE BatchInv'
    BY <1>8 DEF AttemptRangeFetch, BatchInv
  <1>9. CASE ChainGrows \/ SkipGenesis \/ LatestHeightFails \/ CommitFails \/ Cancel \/ Crash
    BY <1>9, BatchKept DEF ChainGrows, SkipGenesis, LatestHeightFails, CommitFails, Cancel, Crash
  <1>10. CASE HandleResponse \/ DrainEnds
    BY <1>10 DEF HandleResponse, DrainEnds, BatchInv
  <1>12. CASE PopSlot
    <2> DEFINE f == Front(slots)
    <2>1. f \in slots /\ f.chunk # NoChunk
      BY <1>12, FrontSlot DEF PopSlot, IInv
    <2>2. Filed(f.chunk) /\ f.to - f.from < MaxChunkSize
      BY <2>1 DEF FiledInv
    <2>3. wb' = [from |-> f.from, to |-> f.to, chunk |-> f.chunk,
                 todo |-> f.chunk.blocks, blocks |-> {}, txs |-> {}]
      BY <1>12 DEF PopSlot, BeginWrite
    <2> HIDE DEF f
    <2>4. /\ wb'.from = f.from /\ wb'.to = f.to /\ wb'.chunk = f.chunk
          /\ wb'.todo = f.chunk.blocks /\ wb'.blocks = {} /\ wb'.txs = {}
      BY <2>3
    <2> QED
      BY <2>2, <2>4 DEF BatchInv, Filed
  <1>13. ASSUME NEW b \in wb.todo, SkipBlock(b) PROVE BatchInv'
    <2>1. /\ wb'.from = wb.from /\ wb'.to = wb.to /\ wb'.chunk = wb.chunk
          /\ wb'.todo = wb.todo \ {b} /\ wb'.blocks = wb.blocks /\ wb'.txs = wb.txs
          /\ b \in BadBlocks /\ pc = "save"
      BY <1>0, <1>13 DEF SkipBlock, TypeOK
    <2> QED
      BY <2>1 DEF BatchInv, Filed
  <1>14. ASSUME NEW b \in wb.todo, SaveBlock(b) PROVE BatchInv'
    <2>1. /\ wb'.from = wb.from /\ wb'.to = wb.to /\ wb'.chunk = wb.chunk
          /\ wb'.todo = wb.todo \ {b} /\ wb'.blocks = wb.blocks \cup {b}
          /\ wb'.txs = wb.txs \cup (wb.chunk.results[b] \ BadTxs)
          /\ pc = "save" /\ b \in DOMAIN wb.chunk.results
      BY <1>0, <1>14 DEF SaveBlock, TypeOK
    <2>2. b \in wb.chunk.blocks
      BY <1>0, <2>1 DEF WriteInv
    <2> QED
      BY <2>1, <2>2 DEF BatchInv, Filed
  <1>15. ASSUME NEW b \in wb.todo, SaveBlockPanics(b) PROVE BatchInv'
    BY <1>15 DEF SaveBlockPanics, BatchInv
  <1>16. CASE Commit \/ Stop
    BY <1>16 DEF Commit, Stop, BatchInv
  <1>21. CASE Restart
    BY <1>21 DEF Restart, BatchInv
  <1>22. CASE UNCHANGED vars
    BY <1>22, BatchKept DEF vars
  <1> QED
    BY <1>2, <1>7, <1>8, <1>9, <1>10, <1>12, <1>13, <1>14, <1>15,
       <1>16, <1>21, <1>22 DEF Next, FetchLoop, Faults, CatchUp, Tick

LEMMA OnlyCommitLoses == ASSUME [Next]_vars PROVE Commit \/ (db' = db /\ lost' = lost)
  <1> USE DEF fetchVars, writeVars, history
  <1>1. ASSUME NEW r \in workers, Worker(r) PROVE db' = db /\ lost' = lost
    BY <1>1 DEF Worker, HandleChunk, HandleChunkNilResults, HandleChunkDone, HandleChunkPanics, Respond
  <1>2. CASE FetchLoop
    BY <1>2 DEF FetchLoop, SkipGenesis, FetchGenesis, CatchUp, Tick, AttemptRangeFetch,
         HandleResponse, DrainEnds, PopSlot, SkipBlock, SaveBlock, SaveBlockPanics, Stop
  <1>3. CASE Faults
    BY <1>3 DEF Faults, LatestHeightFails, CommitFails, Cancel, Crash
  <1>4. CASE ChainGrows \/ Restart \/ UNCHANGED vars
    BY <1>4 DEF ChainGrows, Restart, vars
  <1> QED
    BY <1>1, <1>2, <1>3, <1>4 DEF Next

\* What a finished batch has of a fetched block.
LEMMA CommitKeepsResults ==
    ASSUME IInv, BatchInv, Commit, NEW b \in wb.blocks \cap Busy
    PROVE  \/ b \in wb.txs \cup BadTxs \cup lost'
           \/ \E bad \in BadBlocks : bad <= b /\ b - bad < MaxChunkSize
  <1>1. /\ pc = "save" /\ wb.todo = {}
        /\ lost' = lost \cup {h \in wb.chunk.blocks \cap Busy : ~FetchedFor(wb.chunk, h)}
    BY DEF Commit
  <1>2. b \in wb.chunk.blocks
    BY <1>1 DEF BatchInv
  <1>3. CASE ~FetchedFor(wb.chunk, b)
    BY <1>1, <1>2, <1>3
  <1>4. CASE FetchedFor(wb.chunk, b)
    <2>1. PICK k \in DOMAIN wb.chunk.results : b \in wb.chunk.results[k]
      BY <1>4 DEF FetchedFor
    <2>2. k \in wb.chunk.blocks /\ k <= b
      BY <1>1, <2>1 DEF BatchInv, Filed
    <2>3. CASE k \in BadBlocks
      <3>1. k \in wb.from .. wb.to /\ b \in wb.from .. wb.to
        BY <1>1, <1>2, <2>2 DEF IInv, WriteInv, ChunkWithin
      <3>2. wb.from \in Nat /\ wb.to \in Nat /\ MaxChunkSize \in Nat
        BY HeightType, FetcherAssumption DEF IInv, TypeOK
      <3>3. wb.to - wb.from < MaxChunkSize
        BY <1>1 DEF BatchInv
      <3>4. b - k < MaxChunkSize
        BY <3>1, <3>2, <3>3
      <3> QED
        BY <2>2, <2>3, <3>4
    <2>4. CASE k \notin BadBlocks
      <3>1. wb.chunk.results[k] \ BadTxs \subseteq wb.txs
        BY <1>1, <2>2, <2>4 DEF BatchInv
      <3> QED
        BY <2>1, <3>1
    <2> QED
      BY <2>3, <2>4
  <1> QED
    BY <1>3, <1>4

LEMMA StoredStep ==
    ASSUME IInv, BatchInv, FetchedResultsAreStored, [Next]_vars PROVE FetchedResultsAreStored'
  <1>1. CASE db' = db /\ lost' = lost
    BY <1>1 DEF FetchedResultsAreStored
  <1>2. CASE Commit
    <2>1. /\ db'.blocks = db.blocks \cup wb.blocks /\ db'.txs = db.txs \cup wb.txs
          /\ lost \subseteq lost'
      BY <1>2 DEF Commit
    <2>2. \A b \in wb.blocks \cap Busy :
              \/ b \in wb.txs \cup BadTxs \cup lost'
              \/ \E bad \in BadBlocks : bad <= b /\ b - bad < MaxChunkSize
      BY <1>2, CommitKeepsResults
    <2> QED
      BY <2>1, <2>2 DEF FetchedResultsAreStored
  <1> QED
    BY <1>1, <1>2, OnlyCommitLoses

LEMMA InitResults == Init => ResultInv
  <1> SUFFICES ASSUME Init PROVE ResultInv
    OBVIOUS
  <1> QED
    BY InitIInv DEF Init, ResultInv, FiledInv, BatchInv, FetchedResultsAreStored

LEMMA ResultStep == ASSUME ResultInv, [Next]_vars PROVE ResultInv'
  BY InvStep, FiledStep, BatchStep, StoredStep DEF ResultInv

\* Fetched results reach the store with their block, although the batch path of
\* getTxResultFromBatch files them under earlier blocks; only a block of the
\* same chunk that cannot be encoded takes them with it.
THEOREM ResultsAreStored == Spec => []FetchedResultsAreStored
  <1>1. ResultInv /\ [Next]_vars => ResultInv'
    BY ResultStep
  <1>2. ResultInv => FetchedResultsAreStored
    BY DEF ResultInv
  <1> QED
    BY InitResults, <1>1, <1>2, PTL DEF Spec

-----------------------------------------------------------------------------
(* The reserved ranges and their workers. *)

\* While the context lives, an empty slot has a worker or a response.
CoverInv ==
    (pc \in Running /\ ~ctxDone) =>
        \A s \in slots : s.chunk = NoChunk =>
            \/ \E r \in workers : SameRange(r, s)
            \/ \E i \in 1 .. Len(collector) : SameRange(collector[i], s)

ServedInv == IInv /\ Cardinality(slots) <= MaxSlots /\ CoverInv

LEMMA SlotsFinite == ASSUME TypeOK, QueueInv PROVE IsFiniteSet(slots)
  BY SlotsWithin, QueueIsFinite DEF QueueInv

\* Filling a slot and reserving behind the queue keep the number of slots.
LEMMA SizeStep == ASSUME ServedInv, [Next]_vars PROVE Cardinality(slots') <= MaxSlots
  <1>0. /\ IInv /\ TypeOK /\ QueueInv /\ ServiceInv /\ IsFiniteSet(slots)
        /\ Cardinality(slots) <= MaxSlots /\ Cardinality(slots) \in Nat /\ MaxSlots \in Nat
    BY SlotsFinite, FS_CardinalityType, FetcherAssumption DEF ServedInv, IInv
  <1> USE DEF fetchVars, writeVars, history
  <1>1. ASSUME slots' \subseteq slots PROVE Cardinality(slots') <= MaxSlots
    <2>1. IsFiniteSet(slots') /\ Cardinality(slots') <= Cardinality(slots)
      BY <1>0, <1>1, FS_Subset
    <2>2. Cardinality(slots') \in Nat
      BY <2>1, FS_CardinalityType
    <2> QED
      BY <1>0, <2>1, <2>2
  <1>2. ASSUME NEW h \in Reported, pc \in {"catchup", "select"}, AttemptRangeFetch(h)
        PROVE  Cardinality(slots') <= MaxSlots
    <2> DEFINE G == NewRanges(h)
               f == [g \in G |-> [from |-> g.from, to |-> g.to, chunk |-> NoChunk]]
               N == {[from |-> g.from, to |-> g.to, chunk |-> NoChunk] : g \in G}
    <2>1. IsFiniteSet(G) /\ Cardinality(slots) + Cardinality(G) <= MaxSlots
      BY <1>0, <1>2, NewRangesBounded
    <2>2. slots' = slots \cup N
      BY <1>2 DEF AttemptRangeFetch
    <2> HIDE DEF G
    <2>3. f \in Surjection(G, N)
      BY DEF Surjection
    <2>4. IsFiniteSet(N) /\ Cardinality(N) <= Cardinality(G)
      BY <2>1, <2>3, FS_Surjection
    <2> HIDE DEF N
    <2>5. Cardinality(slots') = Cardinality(slots) + Cardinality(N) - Cardinality(slots \cap N)
      BY <1>0, <2>2, <2>4, FS_Union
    <2>6. IsFiniteSet(slots \cap N)
      BY <2>4, FS_Subset
    <2>7. Cardinality(G) \in Nat /\ Cardinality(N) \in Nat /\ Cardinality(slots \cap N) \in Nat
      BY <2>1, <2>4, <2>6, FS_CardinalityType
    <2> QED
      BY <1>0, <2>1, <2>4, <2>5, <2>7
  <1>3. CASE HandleResponse
    <2> DEFINE item == SlotAt(Head(collector).from)
               new == [item EXCEPT !.chunk = Head(collector).chunk]
    <2>1. 1 \in 1 .. Len(collector) /\ Head(collector) = collector[1]
      BY <1>0, <1>3 DEF HandleResponse, TypeOK
    <2>2. item \in slots
      BY <1>0, <2>1, SlotOfResponse
    <2>3. slots' = (slots \ {item}) \cup {new}
      BY <1>3 DEF HandleResponse
    <2> HIDE DEF item, new
    <2>4. IsFiniteSet(slots \ {item}) /\ Cardinality(slots \ {item}) = Cardinality(slots) - 1
      BY <1>0, <2>2, FS_RemoveElement
    <2>5. Cardinality(slots') \in {Cardinality(slots) - 1, Cardinality(slots) - 1 + 1}
      BY <2>3, <2>4, FS_AddElement
    <2> QED
      BY <1>0, <2>5
  <1>4. ASSUME NEW r \in workers, Worker(r) PROVE slots' = slots
    BY <1>4 DEF Worker, HandleChunk, HandleChunkNilResults, HandleChunkDone, HandleChunkPanics, Respond
  <1>5. CASE ChainGrows \/ SkipGenesis \/ FetchGenesis \/ DrainEnds \/ PopSlot \/ Commit \/ Stop
    BY <1>1, <1>5 DEF ChainGrows, SkipGenesis, FetchGenesis, DrainEnds, PopSlot, Commit, Stop
  <1>6. CASE LatestHeightFails \/ CommitFails \/ Cancel \/ Crash
    BY <1>1, <1>6 DEF LatestHeightFails, CommitFails, Cancel, Crash
  <1>7. ASSUME NEW b \in wb.todo, SkipBlock(b) \/ SaveBlock(b) \/ SaveBlockPanics(b)
        PROVE  Cardinality(slots') <= MaxSlots
    BY <1>1, <1>7 DEF SkipBlock, SaveBlock, SaveBlockPanics
  <1>8. CASE Restart \/ UNCHANGED vars
    BY <1>1, <1>8 DEF Restart, vars
  <1> QED
    BY <1>1, <1>2, <1>3, <1>4, <1>5, <1>6, <1>7, <1>8 DEF Next, FetchLoop, Faults, CatchUp, Tick

LEMMA CoverKept ==
    ASSUME CoverInv, slots' \subseteq slots, workers' = workers, collector' = collector,
           (pc' \in Running /\ ~ctxDone') => (pc \in Running /\ ~ctxDone)
    PROVE  CoverInv'
  BY DEF CoverInv, SameRange

\* The response takes over from its worker.
LEMMA CoverRespond ==
    ASSUME TypeOK, CoverInv, NEW r \in workers, NEW B, NEW R, Respond(r, B, R)
    PROVE  CoverInv'
  <1> DEFINE n == Len(collector)
             new == [from |-> r.from, to |-> r.to, chunk |-> [blocks |-> B, results |-> R]]
  <1>1. /\ collector' = Append(collector, new) /\ workers' = workers \ {r}
        /\ slots' = slots /\ pc' = pc /\ ctxDone' = ctxDone
    BY DEF Respond
  <1>2. new.from = r.from /\ new.to = r.to
    OBVIOUS
  <1> HIDE DEF new
  <1>3. /\ Len(collector') = n + 1 /\ n \in Nat
        /\ \A i \in 1 .. n : i \in 1 .. n + 1 /\ collector'[i] = collector[i]
        /\ n + 1 \in 1 .. n + 1 /\ collector'[n + 1] = new
    BY <1>1 DEF TypeOK
  <1> HIDE DEF n
  <1> SUFFICES ASSUME pc \in Running /\ ~ctxDone, NEW s \in slots, s.chunk = NoChunk
               PROVE  \/ \E w \in workers' : SameRange(w, s)
                      \/ \E i \in 1 .. Len(collector') : SameRange(collector'[i], s)
    BY <1>1 DEF CoverInv, SameRange
  <1>4. \/ \E w \in workers : SameRange(w, s)
        \/ \E i \in 1 .. n : SameRange(collector[i], s)
    BY DEF CoverInv, n
  <1>5. SameRange(r, s) => SameRange(collector'[n + 1], s)
    BY <1>2, <1>3 DEF SameRange
  <1> QED
    BY <1>1, <1>3, <1>4, <1>5

\* The slot that is filled is the only one that loses its response.
LEMMA CoverFill == ASSUME IInv, CoverInv, HandleResponse PROVE CoverInv'
  <1> DEFINE response == Head(collector)
             item == SlotAt(response.from)
             new == [item EXCEPT !.chunk = response.chunk]
             n == Len(collector)
  <1>1. TypeOK /\ QueueInv /\ ServiceInv
    BY DEF IInv
  <1>2. 1 \in 1 .. n /\ response = collector[1] /\ n \in Nat
    BY <1>1 DEF HandleResponse, TypeOK
  <1>3. item \in slots /\ item.from = collector[1].from
    BY <1>1, <1>2, SlotOfResponse DEF SameRange
  <1>4. /\ slots' = (slots \ {item}) \cup {new} /\ collector' = Tail(collector)
        /\ workers' = workers /\ ctxDone' = ctxDone /\ pc \in Running
    BY DEF HandleResponse, Running
  <1>5. new.chunk # NoChunk
    <2>1. response.chunk \in Chunks
      BY <1>1, <1>2, ResponseType
    <2>2. new.chunk = response.chunk
      BY <1>1, <1>3, SlotType
    <2> QED
      BY <2>1, <2>2, NoChunkAssumption
  <1>6. Len(collector') = n - 1 /\ \A i \in 1 .. n - 1 : collector'[i] = collector[i + 1]
    BY <1>1, <1>2, <1>4 DEF TypeOK
  <1> HIDE DEF new, item, n
  <1> SUFFICES ASSUME ~ctxDone, NEW s \in slots', s.chunk = NoChunk
               PROVE  \/ \E w \in workers : SameRange(w, s)
                      \/ \E i \in 1 .. n - 1 : SameRange(collector'[i], s)
    BY <1>4, <1>6 DEF CoverInv, SameRange
  <1>7. s \in slots /\ s # item
    BY <1>4, <1>5
  <1>8. \/ \E w \in workers : SameRange(w, s)
        \/ \E i \in 1 .. n : SameRange(collector[i], s)
    BY <1>4, <1>7 DEF CoverInv, n
  <1>9. ASSUME NEW i \in 1 .. n, SameRange(collector[i], s)
        PROVE  \E j \in 1 .. n - 1 : SameRange(collector'[j], s)
    <2>1. i # 1
      BY <1>1, <1>3, <1>7, <1>9, SlotsByStart DEF SameRange
    <2>2. i - 1 \in 1 .. n - 1 /\ i - 1 + 1 = i
      BY <1>2, <2>1
    <2>3. collector'[i - 1] = collector[i]
      BY <1>6, <2>2
    <2> QED
      BY <1>9, <2>2, <2>3
  <1> QED
    BY <1>8, <1>9

LEMMA CoverStep == ASSUME IInv, CoverInv, [Next]_vars PROVE CoverInv'
  <1> USE DEF fetchVars, writeVars, history
  <1>1. ASSUME NEW r \in workers, HandleChunk(r) \/ HandleChunkNilResults(r) PROVE CoverInv'
    BY <1>1, CoverRespond DEF HandleChunk, HandleChunkNilResults, IInv
  <1>2. ASSUME NEW r \in workers, HandleChunkDone(r) PROVE CoverInv'
    BY <1>2 DEF HandleChunkDone, CoverInv
  <1>3. ASSUME NEW r \in workers, HandleChunkPanics(r) PROVE CoverInv'
    BY <1>3 DEF HandleChunkPanics, CoverInv, Running
  <1>4. ASSUME NEW h \in Reported, pc \in {"catchup", "select"}, AttemptRangeFetch(h) PROVE CoverInv'
    <2> DEFINE G == NewRanges(h)
    <2>1. /\ slots' = slots \cup {[from |-> g.from, to |-> g.to, chunk |-> NoChunk] : g \in G}
          /\ workers' = workers \cup G /\ collector' = collector /\ ctxDone' = ctxDone
      BY <1>4 DEF AttemptRangeFetch
    <2> HIDE DEF G
    <2>2. \A s \in slots' : s \in slots \/ \E g \in G : SameRange(g, s)
      BY <2>1 DEF SameRange
    <2>3. pc \in Running
      BY <1>4 DEF Running
    <2> QED
      BY <2>1, <2>2, <2>3 DEF CoverInv, SameRange
  <1>5. CASE HandleResponse
    BY <1>5, CoverFill
  <1>6. CASE ChainGrows \/ SkipGenesis \/ FetchGenesis \/ DrainEnds \/ PopSlot \/ Commit \/ Stop
    <2>1. /\ slots' \subseteq slots /\ workers' = workers /\ collector' = collector
          /\ ctxDone' = ctxDone /\ (pc' \in Running => pc \in Running)
      BY <1>6 DEF ChainGrows, SkipGenesis, FetchGenesis, BeginWrite, DrainEnds, PopSlot, Commit, Stop, Running
    <2> QED
      BY <2>1, CoverKept
  <1>7. CASE LatestHeightFails \/ CommitFails \/ Cancel \/ Crash
    <2>1. /\ slots' \subseteq slots /\ workers' = workers /\ collector' = collector
          /\ (pc' \in Running /\ ~ctxDone') => (pc \in Running /\ ~ctxDone)
      BY <1>7 DEF LatestHeightFails, CommitFails, Cancel, Crash, Running
    <2> QED
      BY <2>1, CoverKept
  <1>8. ASSUME NEW b \in wb.todo, SkipBlock(b) \/ SaveBlock(b) \/ SaveBlockPanics(b) PROVE CoverInv'
    <2>1. /\ slots' = slots /\ workers' = workers /\ collector' = collector
          /\ ctxDone' = ctxDone /\ (pc' \in Running => pc \in Running)
      BY <1>8 DEF SkipBlock, SaveBlock, SaveBlockPanics, Running
    <2> QED
      BY <2>1, CoverKept
  <1>9. CASE Restart
    BY <1>9 DEF Restart, CoverInv
  <1>10. CASE UNCHANGED vars
    BY <1>10, CoverKept DEF vars
  <1> QED
    BY <1>1, <1>2, <1>3, <1>4, <1>5, <1>6, <1>7, <1>8, <1>9, <1>10
       DEF Next, Worker, FetchLoop, Faults, CatchUp, Tick

\* Workers and responses have different empty slots, so there are enough slots
\* for all of them.
LEMMA ServedCount ==
    ASSUME TypeOK, QueueInv, ServiceInv
    PROVE  Cardinality(workers) + Len(collector) <= Cardinality({s \in slots : s.chunk = NoChunk})
  <1> DEFINE E == {s \in slots : s.chunk = NoChunk}
             n == Len(collector)
             W == {s \in E : \E r \in workers : SameRange(r, s)}
             C == {s \in E : \E i \in 1 .. n : SameRange(collector[i], s)}
             f == [r \in workers |-> CHOOSE s \in E : SameRange(r, s)]
             g == [i \in 1 .. n |-> CHOOSE s \in E : SameRange(collector[i], s)]
  <1>1. IsFiniteSet(E) /\ IsFiniteSet(W) /\ IsFiniteSet(C) /\ IsFiniteSet(W \cup C)
    BY SlotsFinite, FS_Subset
  <1>2. n \in Nat
    BY DEF TypeOK
  <1>3. \A r \in workers : f[r] \in E /\ SameRange(r, f[r])
    BY DEF ServiceInv
  <1>4. \A i \in 1 .. n : g[i] \in E /\ SameRange(collector[i], g[i])
    BY DEF ServiceInv
  <1>5. f \in Injection(workers, W)
    <2>1. \A r \in workers : f[r] \in W
      BY <1>3
    <2>2. \A r, t \in workers : f[r] = f[t] => r = t
      <3> SUFFICES ASSUME NEW r \in workers, NEW t \in workers, f[r] = f[t] PROVE r = t
        OBVIOUS
      <3>1. r.from = t.from /\ r.to = t.to
        BY <1>3 DEF SameRange
      <3>2. r \in Ranges /\ t \in Ranges
        BY DEF TypeOK
      <3> QED
        BY <3>1, <3>2 DEF Ranges
    <2> HIDE DEF W
    <2> QED
      BY <2>1, <2>2 DEF Injection, IsInjective
  <1>6. g \in Injection(1 .. n, C)
    <2>1. \A i \in 1 .. n : g[i] \in C
      BY <1>4
    <2>2. \A i, j \in 1 .. n : g[i] = g[j] => i = j
      BY <1>4 DEF ServiceInv, SameRange
    <2> HIDE DEF C
    <2> QED
      BY <2>1, <2>2 DEF Injection, IsInjective
  <1>7. W \cap C = {}
    BY DEF ServiceInv, SameRange
  <1>8. W \cup C \subseteq E
    OBVIOUS
  <1> HIDE DEF E, W, C, f, g, n
  <1>9. IsFiniteSet(workers) /\ Cardinality(workers) <= Cardinality(W)
    BY <1>1, <1>5, FS_Injection
  <1>10. n <= Cardinality(C)
    <2>1. Cardinality(1 .. n) <= Cardinality(C)
      BY <1>1, <1>6, FS_Injection
    <2>2. Cardinality(1 .. n) = IF 1 > n THEN 0 ELSE n - 1 + 1
      BY <1>2, FS_Interval
    <2>3. Cardinality(1 .. n) = n
      BY <1>2, <2>2
    <2> QED
      BY <2>1, <2>3
  <1>11. Cardinality(W \cup C) = Cardinality(W) + Cardinality(C)
    <2>1. Cardinality(W \cup C) = Cardinality(W) + Cardinality(C) - Cardinality(W \cap C)
      BY <1>1, FS_Union
    <2>2. Cardinality(W \cap C) = 0
      BY <1>7, FS_EmptySet
    <2>3. Cardinality(W) \in Nat /\ Cardinality(C) \in Nat
      BY <1>1, FS_CardinalityType
    <2> QED
      BY <2>1, <2>2, <2>3
  <1>12. Cardinality(W \cup C) <= Cardinality(E)
    BY <1>1, <1>8, FS_Subset
  <1>13. /\ Cardinality(workers) \in Nat /\ Cardinality(W) \in Nat
         /\ Cardinality(C) \in Nat /\ Cardinality(E) \in Nat
    BY <1>1, <1>9, FS_CardinalityType
  <1>14. Cardinality(workers) + n <= Cardinality(E)
    BY <1>2, <1>9, <1>10, <1>11, <1>12, <1>13
  <1> QED
    BY <1>14 DEF E, n

\* A range that is under way is under way once.
LEMMA ServedOnce ==
    ASSUME TypeOK, ServiceInv, NEW s \in slots,
           \/ \E r \in workers : SameRange(r, s)
           \/ \E i \in 1 .. Len(collector) : SameRange(collector[i], s)
    PROVE  Cardinality({r \in workers : SameRange(r, s)})
             + Cardinality({i \in 1 .. Len(collector) : SameRange(collector[i], s)}) = 1
  <1> DEFINE W == {r \in workers : SameRange(r, s)}
             C == {i \in 1 .. Len(collector) : SameRange(collector[i], s)}
  <1>1. \A r, t \in W : r = t
    <2> SUFFICES ASSUME NEW r \in W, NEW t \in W PROVE r = t
      OBVIOUS
    <2>1. r.from = t.from /\ r.to = t.to
      BY DEF SameRange
    <2>2. r \in Ranges /\ t \in Ranges
      BY DEF TypeOK
    <2> QED
      BY <2>1, <2>2 DEF Ranges
  <1>2. \A i, j \in C : i = j
    BY DEF ServiceInv, SameRange
  <1>3. W = {} \/ C = {}
    BY DEF ServiceInv, SameRange
  <1>4. W # {} \/ C # {}
    OBVIOUS
  <1> HIDE DEF W, C
  <1>5. Cardinality({}) = 0
    BY FS_EmptySet
  <1>6. ASSUME C = {} PROVE Cardinality(W) + Cardinality(C) = 1
    <2>1. PICK r \in W : TRUE
      BY <1>4, <1>6
    <2>2. W = {r}
      BY <1>1, <2>1
    <2>3. Cardinality(W) = 1
      BY <2>2, FS_Singleton
    <2> QED
      BY <1>5, <1>6, <2>3
  <1>7. ASSUME W = {} PROVE Cardinality(W) + Cardinality(C) = 1
    <2>1. PICK i \in C : TRUE
      BY <1>4, <1>7
    <2>2. C = {i}
      BY <1>2, <2>1
    <2>3. Cardinality(C) = 1
      BY <2>2, FS_Singleton
    <2> QED
      BY <1>5, <1>7, <2>3
  <1>8. Cardinality(W) + Cardinality(C) = 1
    BY <1>3, <1>6, <1>7
  <1> QED
    BY <1>8 DEF W, C

LEMMA InitServed == Init => ServedInv
  <1> SUFFICES ASSUME Init PROVE ServedInv
    OBVIOUS
  <1>1. Cardinality(slots) <= MaxSlots
    BY FS_EmptySet, FetcherAssumption DEF Init
  <1> QED
    BY InitIInv, <1>1 DEF Init, ServedInv, CoverInv

LEMMA ServedStep == ASSUME ServedInv, [Next]_vars PROVE ServedInv'
  BY InvStep, SizeStep, CoverStep DEF ServedInv

\* The fetcher never has more slots than configured, nor more workers and queued
\* responses than empty slots, and while the context lives each empty slot has
\* exactly one of them: no range is fetched twice, and none is forgotten.
THEOREM SlotsAreServed == Spec => []EmptySlotsAreServed
  <1>1. ServedInv /\ [Next]_vars => ServedInv'
    BY ServedStep
  <1>2. ServedInv => EmptySlotsAreServed
    <2> SUFFICES ASSUME ServedInv PROVE EmptySlotsAreServed
      OBVIOUS
    <2>1. TypeOK /\ QueueInv /\ ServiceInv /\ CoverInv /\ Cardinality(slots) <= MaxSlots
      BY DEF ServedInv, IInv
    <2>2. Cardinality(workers) + Len(collector) <= Cardinality({s \in slots : s.chunk = NoChunk})
      BY <2>1, ServedCount
    <2>3. ASSUME pc \in Running /\ ~ctxDone, NEW s \in slots, s.chunk = NoChunk
          PROVE  Cardinality({r \in workers : SameRange(r, s)})
                   + Cardinality({i \in 1 .. Len(collector) : SameRange(collector[i], s)}) = 1
      BY <2>1, <2>3, ServedOnce DEF CoverInv
    <2> QED
      BY <2>1, <2>2, <2>3 DEF EmptySlotsAreServed
  <1> QED
    BY InitServed, <1>1, <1>2, PTL DEF Spec

=============================================================================
