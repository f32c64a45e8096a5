------------------------------ MODULE Fetcher ------------------------------
(***************************************************************************)
(* The block fetcher (src/fetch): one loop that reserves ranges of heights *)
(* for workers, a goroutine per reserved range, the channel that collects  *)
(* their responses, and the batches written to storage in height order,    *)
(* with the shutdown, failure and restart of the process around it.        *)
(*                                                                         *)
(* A block is its height.  The transaction results of a block are one      *)
(* unit, named by the height of that block; an entry of chunk.results is   *)
(* the set of units it holds, {} where the Go slice is nil.                *)
(***************************************************************************)
EXTENDS Slots, Sequences

CONSTANTS MaxHeight,     \* bound: the chain grows no further than this
          MaxSlots,      \* Fetcher.maxSlots
          MaxChunkSize,  \* Fetcher.maxChunkSize
          CollectorCap,  \* capacity of collectorCh
          MaxFaults,     \* bound: crashes, stop signals and failed I/O steps
          Busy,          \* heights of the blocks with NumTxs > 0
          BadBlocks,     \* heights whose block SetBlock cannot encode
          BadTxs,        \* heights whose results SetTx cannot encode
          NoChunk        \* the nil chunk of a slot that is not fetched yet

Height == 0 .. MaxHeight

ASSUME FetcherAssumption ==
    /\ MaxHeight \in Nat
    /\ MaxSlots \in Nat \ {0}
    /\ MaxChunkSize \in Nat \ {0}
    /\ CollectorCap \in Nat \ {0}
    /\ MaxFaults \in Nat
    /\ Busy \subseteq Height /\ BadBlocks \subseteq Height /\ BadTxs \subseteq Height

\* GetLatestHeight returns ErrNotFound
NotFound == -1

VARIABLES
    remote,     \* height of the chain at the node
    db,         \* Pebble: latest height, heights of saved blocks, of saved results
    pc,         \* where the goroutine of FetchChainData stands
    ctxDone,    \* the context of the services is cancelled
    slots,      \* Fetcher.chunkBuffer
    workers,    \* ranges with a running handleChunk goroutine
    collector,  \* contents of collectorCh
    wb,         \* the writeSlot call in progress and its write batch
    events,     \* the NewBlock events signalled by this process
    chunkSize,  \* Fetcher.latestChunkSize
    faults,     \* number of faults so far
    missed,     \* history: heights committed without their block being fetched
    lost        \* history: heights committed without their results being fetched

fetchVars == <<slots, workers, collector>>
writeVars == <<wb, events>>
history == <<missed, lost>>
vars == <<remote, db, pc, ctxDone, fetchVars, writeVars, chunkSize, faults, history>>

Running == {"genesis", "catchup", "select", "drain", "save"}
Halted == {"stopped", "failed", "panicked", "crashed"}

Ranges == [from : Height, to : Height]

\* The nil slice that getTxResultFromBatch returns with an early error.
NilResults == [b \in {} |-> {}]

\* A chunk: the fetched blocks, and the results entry of each of them (that of
\* a height that is not among the blocks is {}) unless the slice is nil.
Chunks == [blocks : SUBSET Height, results : [Height -> SUBSET Height] \cup {NilResults}]

ASSUME NoChunkAssumption == NoChunk \notin Chunks

\* latestLocal of attemptRangeFetch: zero when nothing is stored
LatestLocal == IF db.latest = NotFound THEN 0 ELSE db.latest

NoWrite == [from |-> 0, to |-> 0, chunk |-> NoChunk, todo |-> {}, blocks |-> {}, txs |-> {}]

-----------------------------------------------------------------------------
(* The process starts: New with the options of cmd/start.go. *)

Init ==
    /\ remote \in Height
    /\ db = [latest |-> NotFound, blocks |-> {}, txs |-> {}]
    /\ pc = "genesis"
    /\ ctxDone = FALSE
    /\ slots = {} /\ workers = {} /\ collector = <<>>
    /\ wb = NoWrite /\ events = <<>>
    /\ chunkSize = MaxChunkSize
    /\ faults = 0
    /\ missed = {} /\ lost = {}

\* A new block at the node (external).
ChainGrows ==
    /\ remote < MaxHeight
    /\ remote' = remote + 1
    /\ UNCHANGED <<db, pc, ctxDone, fetchVars, writeVars, chunkSize, faults, history>>

-----------------------------------------------------------------------------
(* Workers. *)

\* The number of elements of S below x: the index of x in a slice with S.
Rank(S, x) == Cardinality({y \in S : y < x})

\* What one-by-one requests for the heights S can yield: any of them may
\* fail, and all of them do once the context is cancelled.
Sequentially(S) == IF ctxDone THEN {{}} ELSE SUBSET S

\* getBlocksFromBatch: the whole batch (sent with a context of its own), what
\* the sequential fallback gets, or nothing.
FetchedBlocks(r) == {r.from .. r.to} \cup Sequentially(r.from .. r.to)

\* The batch path of getTxResultFromBatch.  The k-th answer is stored at index
\* k of a slice with one entry per block, empty blocks included.
BatchResults(B) ==
    [b \in Height |->
        {c \in B \cap Busy : b \in B /\ Rank(B \cap Busy, c) = Rank(B, b)}]

\* getTxResultsSequentially, with the requests for S answered
SequentialResults(S) == [b \in Height |-> {b} \cap S]

\* getTxResultFromBatch without an early error: no request when every block is
\* empty, else the batch or the sequential fallback.
FetchedResults(B) ==
    {BatchResults(B)} \cup {SequentialResults(S) : S \in Sequentially(B \cap Busy)}

\* Deviation of Respond: a send that does not wait for room in the channel.
RespondOrDrop(r, B, R) ==
    /\ collector' = IF Len(collector) < CollectorCap
                    THEN Append(collector, [from |-> r.from, to |-> r.to,
                                            chunk |-> [blocks |-> B, results |-> R]])
                    ELSE collector
    /\ workers' = workers \ {r}
    /\ UNCHANGED <<remote, db, pc, ctxDone, slots, writeVars, chunkSize, history>>

\* The end of handleChunk: the send on resCh.
Respond(r, B, R) ==
    /\ Len(collector) < CollectorCap
    /\ collector' = Append(collector,
           [from |-> r.from, to |-> r.to, chunk |-> [blocks |-> B, results |-> R]])
    /\ workers' = workers \ {r}
    /\ UNCHANGED <<remote, db, pc, ctxDone, slots, writeVars, chunkSize, history>>

\* handleChunk: fetch, then send the response while the channel is open.
HandleChunk(r) ==
    /\ pc \in Running \cup {"failed"}
    /\ \E B \in FetchedBlocks(r) : \E R \in FetchedResults(B) : Respond(r, B, R)
    /\ UNCHANGED faults

\* handleChunk when a results request cannot be added to the batch or its
\* answer has another type.
HandleChunkNilResults(r) ==
    /\ pc \in Running \cup {"failed"}
    /\ faults < MaxFaults
    /\ \E B \in FetchedBlocks(r) : B \cap Busy # {} /\ Respond(r, B, NilResults)
    /\ faults' = faults + 1

\* handleChunk takes the ctx.Done() branch and drops its response.
HandleChunkDone(r) ==
    /\ pc \in Running \cup {"stopped", "failed"}
    /\ ctxDone
    /\ workers' = workers \ {r}
    /\ UNCHANGED <<remote, db, pc, ctxDone, slots, collector, writeVars, chunkSize, faults, history>>

\* handleChunk takes the other branch of its select: a send on the channel that
\* FetchChainData has closed panics.
HandleChunkPanics(r) ==
    /\ pc = "stopped"
    /\ pc' = "panicked"
    /\ UNCHANGED <<remote, db, ctxDone, fetchVars, writeVars, chunkSize, faults, history>>

Worker(r) ==
    \/ HandleChunk(r)
    \/ HandleChunkNilResults(r)
    \/ HandleChunkDone(r)
    \/ HandleChunkPanics(r)

-----------------------------------------------------------------------------
(* fetchGenesisData. *)

\* writeSlot is entered with the slot s.
BeginWrite(s) ==
    /\ wb' = [from |-> s.from, to |-> s.to, chunk |-> s.chunk,
              todo |-> s.chunk.blocks, blocks |-> {}, txs |-> {}]
    /\ pc' = "save"

\* A stored height (or a failed read of it), or a failed request: the error is
\* soft and the fetcher goes on.
SkipGenesis ==
    /\ pc = "genesis"
    /\ pc' = "catchup"
    /\ UNCHANGED <<remote, db, ctxDone, fetchVars, writeVars, chunkSize, faults, history>>

FetchGenesis ==
    /\ pc = "genesis"
    /\ db.latest = NotFound
    /\ ~ctxDone
    /\ BeginWrite([from |-> 0, to |-> 0,
                   chunk |-> [blocks |-> {0}, results |-> SequentialResults({0} \cap Busy)]])
    /\ UNCHANGED <<remote, db, ctxDone, fetchVars, events, chunkSize, faults, history>>

-----------------------------------------------------------------------------
(* attemptRangeFetch. *)

\* The heights GetLatestBlockNumber may answer: the node can be behind the
\* chain.  A failed request ends in the same early return as answer 0.
Reported == IF ctxDone THEN {0} ELSE 0 .. remote

\* Deviation of NewRanges: the heights already reserved are not looked at.
RangesIgnoringSlots(latestRemote) ==
    IF Cardinality(slots) = MaxSlots \/ latestRemote <= LatestLocal
    THEN {}
    ELSE ReserveChunkRanges({}, LatestLocal + 1, latestRemote, MaxChunkSize, MaxSlots)

\* Deviation of NewRanges: end taken as exclusive.
RangesPastRemote(latestRemote) ==
    IF Cardinality(slots) = MaxSlots \/ latestRemote <= LatestLocal
    THEN {}
    ELSE ReserveChunkRanges(slots, LatestLocal + 1, latestRemote + 1, MaxChunkSize, MaxSlots)

\* The ranges that get a slot and a worker.
NewRanges(latestRemote) ==
    IF Cardinality(slots) = MaxSlots \/ latestRemote <= LatestLocal
    THEN {}
    ELSE ReserveChunkRanges(slots, LatestLocal + 1, latestRemote, MaxChunkSize, MaxSlots)

AttemptRangeFetch(latestRemote) ==
    /\ slots' = slots \cup {[from |-> g.from, to |-> g.to, chunk |-> NoChunk] :
                                g \in NewRanges(latestRemote)}
    /\ workers' = workers \cup NewRanges(latestRemote)
    /\ pc' = "select"
    /\ UNCHANGED <<remote, db, ctxDone, collector, writeVars, chunkSize, faults, history>>

\* The initial catch up, before the loop.
CatchUp(latestRemote) == pc = "catchup" /\ AttemptRangeFetch(latestRemote)

\* case <-ticker.C
Tick(latestRemote) == pc = "select" /\ AttemptRangeFetch(latestRemote)

\* GetLatestHeight fails: FetchChainData returns the error and the error group
\* cancels the context.
LatestHeightFails ==
    /\ pc \in {"catchup", "select"}
    /\ Cardinality(slots) # MaxSlots
    /\ faults < MaxFaults
    /\ faults' = faults + 1
    /\ pc' = "failed"
    /\ ctxDone' = TRUE
    /\ UNCHANGED <<remote, db, fetchVars, writeVars, chunkSize, history>>

-----------------------------------------------------------------------------
(* The responses, and the slots written in order. *)

\* sort.Search over the queue: the first slot that does not start below x.
SlotAt(x) == Front({s \in slots : s.from >= x})

\* Deviation of HandleResponse: responses are taken to arrive in queue order.
HandleResponseInOrder ==
    /\ pc = "select"
    /\ collector # <<>>
    /\ slots' = (slots \ {Front(slots)})
                \cup {[Front(slots) EXCEPT !.chunk = Head(collector).chunk]}
    /\ collector' = Tail(collector)
    /\ pc' = "drain"
    /\ UNCHANGED <<remote, db, ctxDone, workers, writeVars, chunkSize, faults, history>>

\* case response := <-collectorCh: setChunk on the slot found.
HandleResponse ==
    /\ pc = "select"
    /\ collector # <<>>
    /\ LET response == Head(collector)
           item == SlotAt(response.from)
       IN slots' = (slots \ {item}) \cup {[item EXCEPT !.chunk = response.chunk]}
    /\ collector' = Tail(collector)
    /\ pc' = "drain"
    /\ UNCHANGED <<remote, db, ctxDone, workers, writeVars, chunkSize, faults, history>>

\* No slot is left, or the first one is not fetched yet.
DrainEnds ==
    /\ pc = "drain"
    /\ slots # {} => Front(slots).chunk = NoChunk
    /\ pc' = "select"
    /\ UNCHANGED <<remote, db, ctxDone, fetchVars, writeVars, chunkSize, faults, history>>

\* Deviation of PopSlot: the first fetched slot, not the first slot.
PopFetchedSlot ==
    LET fetched == {s \in slots : s.chunk # NoChunk}
    IN  /\ pc = "drain"
        /\ fetched # {}
        /\ slots' = slots \ {Front(fetched)}
        /\ BeginWrite(Front(fetched))
        /\ UNCHANGED <<remote, db, ctxDone, workers, collector, events, chunkSize, faults, history>>

\* PopFront, and writeSlot is entered.
PopSlot ==
    /\ pc = "drain"
    /\ slots # {}
    /\ Front(slots).chunk # NoChunk
    /\ slots' = slots \ {Front(slots)}
    /\ BeginWrite(Front(slots))
    /\ UNCHANGED <<remote, db, ctxDone, workers, collector, events, chunkSize, faults, history>>

-----------------------------------------------------------------------------
(* writeSlot. *)

\* The next block of the loop: blocks are in height order.
NextBlock(b) == b \in wb.todo /\ \A c \in wb.todo : b <= c

\* SetBlock fails: the block, and whatever stands at its index of the results,
\* is ignored.
SkipBlock(b) ==
    /\ pc = "save"
    /\ NextBlock(b)
    /\ b \in BadBlocks
    /\ wb' = [wb EXCEPT !.todo = @ \ {b}]
    /\ UNCHANGED <<remote, db, pc, ctxDone, fetchVars, events, chunkSize, faults, history>>

\* Deviation of SaveBlock: only results that belong to the block are saved.
SaveBlockOwnResults(b) ==
    /\ pc = "save"
    /\ NextBlock(b)
    /\ b \notin BadBlocks
    /\ b \in DOMAIN wb.chunk.results
    /\ wb' = [wb EXCEPT !.todo = @ \ {b},
                        !.blocks = @ \cup {b},
                        !.txs = @ \cup ((wb.chunk.results[b] \cap {b}) \ BadTxs)]
    /\ events' = Append(events, [block |-> b, results |-> wb.chunk.results[b]])
    /\ UNCHANGED <<remote, db, pc, ctxDone, fetchVars, chunkSize, faults, history>>

\* SetBlock, SetTx for the results at its index, and the event.
SaveBlock(b) ==
    /\ pc = "save"
    /\ NextBlock(b)
    /\ b \notin BadBlocks
    /\ b \in DOMAIN wb.chunk.results
    /\ wb' = [wb EXCEPT !.todo = @ \ {b},
                        !.blocks = @ \cup {b},
                        !.txs = @ \cup (wb.chunk.results[b] \ BadTxs)]
    /\ events' = Append(events, [block |-> b, results |-> wb.chunk.results[b]])
    /\ UNCHANGED <<remote, db, pc, ctxDone, fetchVars, chunkSize, faults, history>>

\* The results slice is nil: index out of range.
SaveBlockPanics(b) ==
    /\ pc = "save"
    /\ NextBlock(b)
    /\ b \notin BadBlocks
    /\ b \notin DOMAIN wb.chunk.results
    /\ pc' = "panicked"
    /\ UNCHANGED <<remote, db, ctxDone, fetchVars, writeVars, chunkSize, faults, history>>

\* The results of block b are in the chunk, at whatever index.
FetchedFor(chunk, b) == \E c \in DOMAIN chunk.results : b \in chunk.results[c]

\* Deviation of Commit: SetLatestHeight(s.chunkRange.from).
CommitFrom ==
    /\ pc = "save"
    /\ wb.todo = {}
    /\ db' = [latest |-> wb.from, blocks |-> db.blocks \cup wb.blocks, txs |-> db.txs \cup wb.txs]
    /\ chunkSize' = Cardinality(wb.chunk.blocks)
    /\ pc' = IF wb.to = 0 THEN "catchup" ELSE "drain"
    /\ UNCHANGED <<remote, ctxDone, fetchVars, writeVars, faults, history>>

\* SetLatestHeight and Commit; the slot of genesis was written before the loop.
Commit ==
    /\ pc = "save"
    /\ wb.todo = {}
    /\ db' = [latest |-> wb.to, blocks |-> db.blocks \cup wb.blocks, txs |-> db.txs \cup wb.txs]
    /\ chunkSize' = Cardinality(wb.chunk.blocks)
    /\ pc' = IF wb.to = 0 THEN "catchup" ELSE "drain"
    /\ missed' = missed \cup {h \in wb.from .. wb.to : h \notin wb.chunk.blocks}
    /\ lost' = lost \cup {h \in wb.chunk.blocks \cap Busy : ~FetchedFor(wb.chunk, h)}
    /\ UNCHANGED <<remote, ctxDone, fetchVars, writeVars, faults>>

\* Deviation of CommitFails: the error is logged and the loop goes on.
CommitFailsSoftly ==
    /\ pc = "save"
    /\ wb.todo = {}
    /\ faults < MaxFaults
    /\ faults' = faults + 1
    /\ pc' = IF wb.to = 0 THEN "catchup" ELSE "drain"
    /\ UNCHANGED <<remote, db, ctxDone, fetchVars, writeVars, chunkSize, history>>

\* Deviation of CommitFails: the slot is written once more.
CommitRetries ==
    /\ pc = "save"
    /\ wb.todo = {}
    /\ faults < MaxFaults
    /\ faults' = faults + 1
    /\ wb' = [wb EXCEPT !.todo = wb.chunk.blocks]
    /\ UNCHANGED <<remote, db, pc, ctxDone, fetchVars, events, chunkSize, history>>

\* SetLatestHeight or Commit fails: soft for genesis, else FetchChainData
\* returns the error and the error group cancels the context.
CommitFails ==
    /\ pc = "save"
    /\ wb.todo = {}
    /\ faults < MaxFaults
    /\ faults' = faults + 1
    /\ IF wb.to = 0
       THEN pc' = "catchup" /\ UNCHANGED ctxDone
       ELSE pc' = "failed" /\ ctxDone' = TRUE
    /\ UNCHANGED <<remote, db, fetchVars, writeVars, chunkSize, history>>

-----------------------------------------------------------------------------
(* The life of the process. *)

\* A stop signal, or another service of the waiter returning.
Cancel ==
    /\ pc \in Running
    /\ ~ctxDone
    /\ faults < MaxFaults
    /\ faults' = faults + 1
    /\ ctxDone' = TRUE
    /\ UNCHANGED <<remote, db, pc, fetchVars, writeVars, chunkSize, history>>

\* Deviation of Stop: the reserved ranges are waited for.
StopWhenDrained ==
    /\ pc = "select"
    /\ ctxDone
    /\ slots = {}
    /\ pc' = "stopped"
    /\ UNCHANGED <<remote, db, ctxDone, fetchVars, writeVars, chunkSize, faults, history>>

\* case <-ctx.Done(): the channel is closed and FetchChainData returns.
Stop ==
    /\ pc = "select"
    /\ ctxDone
    /\ pc' = "stopped"
    /\ UNCHANGED <<remote, db, ctxDone, fetchVars, writeVars, chunkSize, faults, history>>

\* The process is killed or the machine fails; only db survives.
Crash ==
    /\ pc \in Running
    /\ faults < MaxFaults
    /\ faults' = faults + 1
    /\ pc' = "crashed"
    /\ UNCHANGED <<remote, db, ctxDone, fetchVars, writeVars, chunkSize, history>>

\* The process is started again on the same database.
Restart ==
    /\ pc \in Halted
    /\ pc' = "genesis"
    /\ ctxDone' = FALSE
    /\ slots' = {} /\ workers' = {} /\ collector' = <<>>
    /\ wb' = NoWrite /\ events' = <<>>
    /\ chunkSize' = MaxChunkSize
    /\ UNCHANGED <<remote, db, faults, history>>

-----------------------------------------------------------------------------

FetchLoop ==
    \/ SkipGenesis \/ FetchGenesis
    \/ \E h \in Reported : CatchUp(h)
    \/ \E h \in Reported : Tick(h)
    \/ HandleResponse \/ DrainEnds \/ PopSlot
    \/ \E b \in wb.todo : SkipBlock(b)
    \/ \E b \in wb.todo : SaveBlock(b)
    \/ \E b \in wb.todo : SaveBlockPanics(b)
    \/ Commit \/ Stop

Faults == LatestHeightFails \/ CommitFails \/ Cancel \/ Crash

Next ==
    \/ ChainGrows
    \/ \E r \in workers : Worker(r)
    \/ FetchLoop
    \/ Faults
    \/ Restart

Spec == Init /\ [][Next]_vars

\* The loop is a running goroutine and the node answers it, every spawned
\* worker ends, and a process that ended is started again.
Fairness ==
    /\ WF_vars(FetchLoop)
    /\ WF_vars(\E r \in workers : HandleChunk(r))
    /\ WF_vars(Restart)

LiveSpec == Spec /\ Fairness

-----------------------------------------------------------------------------
(* Properties. *)

\* The types of the fetcher's state.
TypeOK ==
    /\ remote \in Height
    /\ db \in [latest : Height \cup {NotFound}, blocks : SUBSET Height, txs : SUBSET Height]
    /\ pc \in Running \cup Halted
    /\ ctxDone \in BOOLEAN
    /\ \A s \in slots : s \in [from : Height, to : Height, chunk : Chunks \cup {NoChunk}]
    /\ workers \subseteq Ranges
    /\ collector \in Seq([from : Height, to : Height, chunk : Chunks])
    /\ wb \in [from : Height, to : Height, chunk : Chunks \cup {NoChunk},
               todo : SUBSET Height, blocks : SUBSET Height, txs : SUBSET Height]
    /\ events \in Seq([block : Height, results : SUBSET Height])
    /\ chunkSize \in Nat
    /\ faults \in 0 .. MaxFaults
    /\ missed \subseteq Height /\ lost \subseteq Height

SameRange(r, s) == r.from = s.from /\ r.to = s.to

\* A response finds the slot reserved for its range, still empty, however the
\* queue was shifted between the reservation and the response: the binary
\* search of FetchChainData never lands on a neighbour or past the end, where
\* setChunk would dereference nil.
ResponseFindsItsSlot ==
    \A i \in 1 .. Len(collector) :
        /\ {s \in slots : s.from >= collector[i].from} # {}
        /\ SameRange(SlotAt(collector[i].from), collector[i])
        /\ SlotAt(collector[i].from).chunk = NoChunk

\* No more slots than configured, and no more workers and queued responses than
\* empty slots, so goroutines do not pile up behind the channel.  While the
\* context lives, every empty slot has exactly one of them under way: no range
\* is fetched twice, none is forgotten (the head of the queue would then block
\* every later range for ever).
EmptySlotsAreServed ==
    /\ Cardinality(slots) <= MaxSlots
    /\ Cardinality(workers) + Len(collector) <= Cardinality({s \in slots : s.chunk = NoChunk})
    /\ (pc \in Running /\ ~ctxDone) =>
           \A s \in slots : s.chunk = NoChunk =>
               Cardinality({r \in workers : SameRange(r, s)})
                 + Cardinality({i \in 1 .. Len(collector) : SameRange(collector[i], s)}) = 1

\* The height the reservations start above: that of the write in progress, or
\* the stored one.
Base == IF pc = "save" THEN wb.to ELSE LatestLocal

\* The reserved ranges continue the store without hole or overlap, so popping
\* the queue in order writes each height once (findGaps, PopFront, writeSlot).
ReservationsContinueStore ==
    pc \in Running =>
        /\ \A s \in slots : s.from > Base
        /\ \A s \in slots : s.from = Base + 1 \/ \E t \in slots : t.to + 1 = s.from
        /\ \A s, t \in slots : s # t => s.to < t.from \/ t.to < s.from

\* Every height at or below the stored one was saved, could not be encoded, or
\* was not delivered by the node when its range was fetched; crashes, restarts
\* and the order of the responses never lose one.
NoHeightSkipped ==
    \A h \in 1 .. db.latest : h \in db.blocks \cup BadBlocks \cup missed

\* Results that were fetched are stored with their block, even though the batch
\* path files them under the index of an earlier block; unless a block of the
\* same range from there on cannot be encoded and takes them with it.
FetchedResultsAreStored ==
    \A b \in db.blocks \cap Busy :
        \/ b \in db.txs \cup BadTxs \cup lost
        \/ \E bad \in BadBlocks : bad <= b /\ b - bad < MaxChunkSize

Announced == {events[i].block : i \in 1 .. Len(events)}

\* Listeners hear of exactly the blocks of this process that reached a batch:
\* none is left out, and only the blocks of the latest write, or genesis, can
\* be announced and not stored.
AnnouncedMatchesBatches ==
    /\ wb.blocks \subseteq Announced
    /\ Announced \subseteq db.blocks \cup wb.blocks \cup {0}

\* A listener sees the blocks of a process in height order, each once.
EventsInOrder ==
    \A i, j \in 1 .. Len(events) : i < j => events[i].block < events[j].block

Index == INSTANCE ChainIndex WITH latest <- db.latest, blocks <- db.blocks, txs <- db.txs

\* The store moves as the abstract index does: atomically and upwards only,
\* through crashes, failed commits and restarts.
ImplementsChainIndex == Index!Spec

\* The index catches up with the chain again and again, whatever crashes, stops
\* and failed writes happened before (liveness of FetchChainData).
CatchesUp == []<>(LatestLocal >= remote)

\* A cancelled context ends the process, even with ranges that will never be
\* answered: their workers may have dropped the response.
ShutdownCompletes == ctxDone ~> pc \in Halted

-----------------------------------------------------------------------------
(* What comments and tests of the repository say and the code does not do. *)

\* fetch_test.go: "Make sure the transaction results are valid" - the results
\* in a NewBlock event are those of its block.
EventsCarryOwnResults ==
    \A i \in 1 .. Len(events) : events[i].results \subseteq {events[i].block}

\* fetch.go: "Fetcher service shut down" - a graceful shutdown does not end in
\* a panic.
ShutdownIsClean == [][pc = "stopped" => pc' # "panicked"]_vars

\* IsReady, when the node answers.
IsReady == chunkSize # MaxChunkSize

\* fetch.go: "the data synchronization process is still in progress and hasn't
\* caught up" - a ready fetcher is less than a full chunk behind.
ReadyMeansCaughtUp ==
    (pc = "select" /\ IsReady) => remote - LatestLocal < MaxChunkSize

=============================================================================
