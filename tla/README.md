# A TLA+ model of tx-indexer

`tx-indexer` copies a Tendermint2 chain into a local Pebble database and serves
what it stored over JSON-RPC, WebSocket and GraphQL. This directory holds the TLA+
modules that model it, the TLC configurations that check them on small
instances, and TLAPS proofs for every instance. Paths such as `fetch/fetch.go`
are relative to the root of the repository (`src/` in `PROJECT.json`).

## 1. Inventory

| component | state it keeps | operations | talks to |
|---|---|---|---|
| slots (`fetch/slots.go`) | queue of reserved ranges, each with the chunk fetched for it or nil | `reserveChunkRanges`, `findGaps`, `getSlot`, `setChunk`, `PopFront` | only the fetcher's goroutine |
| worker (`fetch/worker.go`) | none after it ends; its range while it runs | `handleChunk`: fetch blocks, fetch results, send one response | node (batch, then one by one), `collectorCh` |
| fetcher (`fetch/fetch.go`) | `chunkBuffer`, `latestChunkSize` | `FetchChainData` (select over context, ticker, responses), `fetchGenesisData`, `writeSlot`, `IsReady` | spawns workers, storage, event manager; `/ready` reads it from another goroutine |
| storage (`storage/pebble.go`, `encode.go`) | keys of blocks, transactions, hashes, the latest height | `WriteBatch`/`SetBlock`/`SetTx`/`SetLatestHeight`/`Commit`, `Get…`, iterators | Pebble (external) |
| events (`events/`) | map of subscriptions, an unlocked counter; per subscription a store, `notifyCh`, `doneCh`, `outputCh` | `Subscribe`, `CancelSubscription`, `Close`, `SignalEvent`, one `runLoop` per subscription | fetcher signals; filter manager and GraphQL subscribe |
| filters (`serve/filters/`) | filters with their collected changes and last use; subscriptions of WebSocket clients | new/get/uninstall, cleanup timer, subscribe/unsubscribe, fan-out of events | events, storage, connections |
| JSON-RPC and WebSocket (`serve/jsonrpc.go`, `serve/conns/`, `serve/writer/`) | registry of connections | request dispatch, notifications | filters, read handlers |
| read handlers and gas prices (`serve/handlers/`, `serve/methods/`) | none | block, transaction, gas price queries | storage |
| GraphQL (`serve/graph/`) | one event subscription per client | queries over iterators with bounds taken from the filter; two kinds of filters; conversion of stored data to API objects; `handleChannel` | storage, events |
| generated GraphQL code (`serve/graph/generated.go`, `model/*_gen.go`) | none | coercion of inputs, evaluation of `where`, execution and marshalling, the reader of a subscription | resolvers, gqlgen (external) |
| health (`serve/health/`) | none | `/health`, `/ready` | storage, `IsReady` |
| process (`cmd/start.go`, `cmd/waiter.go`) | the context of the services | start, stop signal, first failing service cancels the others | everything |
| client (`client/`) | RPC connection | batch and single requests | node (external) |

The hard behaviours, each listed at its line under `hazards` in `PROJECT.json`:

- responses arrive in any order, while the queue they are looked up in shifts;
- ranges are fetched out of order and must reach the store in order, once each;
- the stored height lags behind the reservations, and the node's answers about
  its own height may go down;
- the worker channel is bounded, and its reader may be writing;
- a stop signal, a failed read, a failed commit or a crash can fall between any
  two of: announcing a block, filling the batch, committing it, popping the next;
- requests fail one by one, and what was fetched is stored as it is;
- an event is signalled while subscriptions come and go under a lock the fast
  path does not take; wake-ups are coalesced; subscribers may stop receiving;
- several requests poll one filter while the event loop fills it and a timer, whose
  cutoff is computed before it has the lock, collects the idle ones; a new filter has its
  time of use before it waits for that lock;
- WebSocket clients subscribe, unsubscribe, stop reading and vanish in the middle of
  a send, and a failed write is not reported to the sender;
- iterators stay open across commits, and their upper bounds are exclusive keys made
  from inclusive numbers;
- a query narrows its iterator to bounds derived from the filter by a recursion that
  is not the filter's evaluation; heights and blocks are read one after the other;
- a GraphQL subscription joins three goroutines (event loop, `handleChannel`, reader)
  by unbuffered channels, and any of them may leave first;
- schema, coercion, evaluation and conversion of the same fields are separate code.

What makes each part correct:

- *slots*: the free heights, all of them, none twice, lowest first, in ranges as
  large as allowed.
- *fetcher*: reservations continue the store without hole or overlap; a response
  meets its own slot; no height is passed over except one the node did not
  deliver; the store changes atomically and upwards; listeners hear of blocks in
  order; the index catches up again after any fault; a cancelled process ends.
- *events*: order, completeness from the return of `Subscribe` on, no stranded
  event, no signaller or cancelled loop that waits for a subscriber.
- *storage*: an iterator returns the entries in the bounds asked for as of one
  moment, in numeric order; the hash index never points to nothing.
- *filters*: each change is handed out once, in order; a filter in use stays, an
  abandoned one goes.
- *connections*: a subscriber gets all events of its type in order; nothing after
  an unsubscribe; no subscription long outlives its client; no client
  holds up the others.
- *queries*: an answer is exactly what matches of what was saved at one moment, in
  the order asked for, or, with an error, the first part of it.
- *GraphQL*: a filter means what its fields say, and its conditions combine; a null
  stays where it arises; a client gets what its filter selects of each event, in
  order, and one that leaves frees its goroutine and subscription.
- *gas prices*: the extremes of what was paid, the average between them, every block
  with the same weight.

## 2. Modules

| module | models |
|---|---|
| `Slots` | `findGaps` and `reserveChunkRanges` as operators on sets of ranges |
| `ChainIndex` | abstract: what the store promises to its readers |
| `Fetcher` | `FetchChainData`, its workers, channel, `writeSlot`, and the life of the process |
| `Events` | `events.Manager`, its subscriptions and their `runLoop` goroutines |
| `Filters` | the polled filters: filter map, event loop, `getFilterChanges`, cleanup routine |
| `Subscriptions` | WebSocket connections, JSON-RPC requests on them, the subscription map and `sendEvent` |
| `Keys` | the key encoding of the store, as byte sequences with the engine's order |
| `Storage` (extends `Keys`) | write batches, snapshots with block and transaction iterators, lookup by hash |
| `GraphSchema` | every object type of the API: its fields, their types, which may be null |
| `GraphInputs` (extends `GraphSchema`) | every input type |
| `Coercion` (extends `GraphInputs`) | the coercion of a value to its input type |
| `Where` (extends `Coercion`) | evaluation of the `where` arguments, and the bounds `MinMax…` derives from them |
| `LegacyFilters` (extends `GraphInputs`) | the filters of the older fields `transactions` and `blocks` |
| `Conversions` (extends `GraphSchema`) | stored blocks and results to API objects |
| `Execution` (extends `Conversions`) | marshalling of objects, and where a null goes |
| `GasPrices` | gas price aggregation |
| `Queries` (extends `Storage`, `LegacyFilters`) | query resolvers and JSON-RPC read handlers over the store and its writer; `MCQueries` gives it the evaluation of `Where` |
| `GraphSubscription` (extends `Events`) | `handleChannel`, the reader and the client, composed with the event manager |
| `MCFunctions`, `MCFetcher`, `MCGraphSubscription`, `MCFilters`, `MCSubscriptions`, `MCStorage`, `MCQueries` | instances for TLC |
| `SlotsProofs`, `FetcherProofs`, `EventsProofs`, `FiltersProofs`, `SubscriptionsProofs`, `StorageProofs`, `QueriesProofs` | theorems |
| `SequenceFacts` | induction, recursion and sequences: the lemmas the proofs share |

Definitions whose comment begins with *Deviation of X* are X with a plausible
mistake. No specification uses them; they show that the properties are sensitive
to it (`mutants` in `PROJECT.json`).

### Slots

The insertion queue keeps its items sorted by `from`, so a queue is the set of
its items, and "the items visited before this one" are those that start lower.
`PrevTo` is the loop variable of `findGaps`, `FreeRanges` its first half,
`Divide` its second; `Steps` enumerates the values `i` takes in
`i += maxSize`. `Lowest` is `gaps[:maxRanges]`.

### Fetcher

A block is its height. The results of one block are one unit named by that
height: `writeSlot` treats them alike, and what the properties need to know is
*whose* results stand at *which* index. That is kept exactly: `BatchResults`
files the k-th answer under the k-th block of the slice, empty blocks included,
as `getTxResultFromBatch` does, and an early error yields the nil slice whose
indexing panics in `writeSlot`.

| variable | code |
|---|---|
| `remote` | height of the chain at the node |
| `db` | what Pebble holds: latest height, blocks, results; the only variable that survives a crash |
| `pc` | where the goroutine of `FetchChainData` stands: `genesis`, `catchup`, `select`, `drain` (the inner loop), `save` (inside `writeSlot`), or how the process ended |
| `ctxDone` | the context the error group hands to the services |
| `slots` | `chunkBuffer` |
| `workers`, `collector` | running `handleChunk` goroutines, contents of `collectorCh` |
| `wb` | the `writeSlot` call: slot, blocks still to loop over, contents of the write batch |
| `events` | `NewBlock` events signalled by this process |
| `chunkSize` | `latestChunkSize` |
| `faults`, `missed`, `lost` | a bound, and two history variables: committed heights whose block, or whose results, the node had not delivered |

Every case of the `select`, every early return and every iteration of the loop
of `writeSlot` is an action. A worker's fetch is one action, because
nothing else can observe it before its response. The two outcomes of a worker's
final `select` after cancellation are separate actions (`HandleChunkDone`,
`HandleChunkPanics`). Whatever the node may answer is a choice: the full batch,
any subset of the heights after the fallback, nothing once the context is
cancelled. `Restart` is a new process on the same database.

### Events

The two writers of the map take the lock, change the map, then the counter,
then unlock; the counter is read without the lock, so map and counter change in
two steps. `pushEvent` is two steps (store, token), as `runLoop` can run
between them. A subscriber is external: `Receive` may or may not happen. A
second close of `doneCh` is a panic, which stops the model. `Close` is not called by the
command, but it is part of the manager's interface and is modelled.

### Filters

`Feed` is the order in which `subscribeToEvents` applies things to the filters: a
block, then its results. `rangeItems` holds the map's lock over several steps (one
`UpdateWith` per filter), so `MapIsFree` guards the other operations on the map;
each of those is one critical section and one action. Installing a filter is two:
`NewBaseFilter` makes it with its time of use, before the lock, and `NewFilter` puts it
into the map; between them it is in `waiting`, for as long as a range holds the lock,
and its time of use grows old. A poll is two: `GetFilter`
takes the filter from the map and marks it used, `GetChanges` empties it under the
filter's own lock, possibly after it has left the map. The cleanup routine receives a
tick, looks at the clock for its cutoff, and locks the map, in three steps. Time is a
counter; a tick falls on every multiple of the interval, and a second tick is dropped
while the first is waiting, as in Go. `taken`, `since`, `until`, `asked` and `polled` are
history variables for the properties: `asked` is when a client last asked for the filter,
to be made or polled, and `polled` when it entered the map or a poll last found it there.
They differ for a filter that was not polled yet. `UsedFiltersStay` is about `asked`, and
says openly what the code does to a filter that waited for the lock longer than the interval:
it may go as soon as it has entered. `IdleFiltersGo` is about `polled`: a filter that is
stale when it enters still leaves within two intervals of its entry, not of its making.

### Subscriptions

A connection is served by one goroutine of the WebSocket library: connect, then one
message at a time, then disconnect. A message is one request or a batch; each
request is an action, the response to all of them another (`Respond`), because other
goroutines run in between. `sendEvent` takes the map's lock (`SendEvent`), runs one
goroutine per subscription (`WriteNotification`, `EncodeFails`), waits for them and
prunes (`Sent`). A session is external and modelled from its use: a bounded buffer
that drops when full, an error once closed; the writer logs both and returns nothing,
so the sender only learns of a dead connection from its cancelled context.

### Keys and Storage

Bytes are digits of a small base and integers have a fixed number of them, so that
the byte order of the engine (`LexLess`) has to agree with the order of the numbers,
as in the code, and raising the largest bound wraps. `Power[n]` is the number of
values of n bytes. Strings are escaped and
terminated as in `encode.go`; the prefixes are short but keep the order of the real
ones and their place relative to the one unencoded key. A snapshot is the set of
keys an iterator still has to visit, fixed when it is opened. The writer sets a
block, its transactions each with its index entry, finally the latest height, as
`writeSlot` does.

### GraphSubscription

The resolver starts a goroutine and returns its channel (`StartHandler`); the goroutine
subscribes later (`HandlerSubscribe`), then waits for its context or an event, and
writes the items of an event one by one (`SendItem`). The channel has no buffer: a
send happens only while the reader of the client's operation reads. `writeToChannel`
does not watch the context, so a goroutine in the middle of an event waits for a
reader that may have stopped (`Stuck`); there is no action out of it, as in the code.
`Items[s][e]` stands for what the filter selects of an event; both filter languages
are pure, so this is all a subscription can see of them. The error
of an event of another type is unreachable, as the subscription asks for one type.

### Queries

One request at a time is served while the writer of `Storage` runs; requests do not
share state, so two of them add nothing. A loop over an iterator is one action per
element. Its ways to end are actions of their own: the limit on elements
(`StopAtLimit`), the end (`NextElement`), `it.Error()` (`IterFails`), and a done
context or an element that cannot be decoded (`ElementFails`). They differ in
what the client gets: an error together with the elements found so far, or an error
that drops them, since gqlgen ignores the value of a resolver that
returned an error. The gas price handler takes a failed iterator for its end, and
answers a block that cannot be decoded with null and no error. Bounds are converted with their width (`ToUint`), so a negative
one wraps. `MinMax` returns pointers, and the resolvers compare the pointers, not
the numbers, to recognise `eq`; a `Pointer` therefore is a number with its place in the filter.
A single read of the store (a height, a block, a transaction) does not fail in the
model; a missing key is modelled.

The evaluation of a `where` argument (`WhereEval`), the bounds derived from it (`WhereMinMax`) and
which filters are plain (`Plain`) are parameters; `MCQueries` takes the first two from
`Where` and calls a filter plain if it has no `_or` and its bounds still fit their types
when raised. `PlainAssumption` says what the loop needs of the pair: whatever a plain
filter selects lies within the bounds derived from it. TLC evaluates it for every request
of the runs, and it fails if every filter is called plain: that is the finding
`where_complete`.

### GraphSchema, GraphInputs, Coercion, Where, Execution

One definition per field of an object type and per input type, taken from the function
gqlgen generated for it; one definition per `Eval` method with the fields it
evaluates, apart from the input type with the fields it accepts. The functions that
use these tables (`Unmarshal`, `Eval`, `Marshal`) are written once, as the generated
functions are instances of one template each. A regular expression is the set of
strings it matches. Every value an accessor returns is there, so no `Eval` meets a
nil value; the elements of lists and the lists themselves may be missing.

### LegacyFilters, Conversions, GasPrices

Translated function by function. A message or an event carries whether it survives
its JSON round trip (`casts`, `parses`, `marshals`), a transaction whether amino can
decode it. `ParseCoins` is external. Two nil dereferences are kept out of the inputs:
an event input without `gno_event`, and a package condition on a message whose
package was lost in `cast`; gqlgen recovers the panic of a query and answers null.
The two loops of `gas.go` fill maps from denominations; the model runs them for one
denomination at a time (`AddFee`, `AddBlock`), as the entries do not touch each other.

### ChainIndex and the refinement

`ChainIndex` has the three things a reader of the store can see. Its only step
extends them by a batch for heights above the latest one. `Fetcher` implements
it with the identity mapping on the fields of `db`; all other steps of the
fetcher, crash and restart among them, are stuttering steps.

## 3. Runs

| run | instance | shows |
|---|---|---|
| `functions` | all queues of up to 3 disjoint reservations in 1..7, chunk size 1..3, up to 4 slots; 2 blocks of up to 2 fees in 2 denominations; a condition, its negation and pairs by `_and` and `_or` on every field of the schema over 5 results and 3 blocks; all pairs of 7 results | `GapsCoverFreeHeights`, `ReservesLowestFirst`, `PricesAreSound`, `WhereMeansWhatItSays`, `ConditionsCombine`, `NullsStayLocal` |
| `fetcher` | heights 0..4, 3 slots, chunks of 2, channel of 1, 2 faults, blocks 1, 2 and 4 with transactions, block 2 and the results of 1 cannot be encoded | all safety properties, `ImplementsChainIndex`, `CatchesUp`, `ShutdownCompletes` |
| `events` | a GraphQL client and a subscriber that filters by type, 2 events, the first of 2 items | order, completeness, wake-ups, `StreamIsExact`, and the four liveness properties |
| `filters` | a block filter and a transaction filter with a half-open upper and a half-open lower range, 2 concurrent requests, 3 feed elements (a result between 2 blocks), interval 2, clock to 4 | `EachChangeReturnedOnce`, `UsedFiltersStay`, `IdleFiltersGo` |
| `subscriptions` | 2 connections, 2 subscriptions, batches of up to 2 requests, a session buffer of 1, 3 sends of 2 types | `SubscriberGetsAll`, `NothingAfterUnsubscribe`, `DeadSubscriptionsPruned`, `LoopNeverWaits` |
| `queries` | 5 blocks with 4 transactions, one of them twice; bytes of base 4, two-byte heights, one-byte indexes; 189 requests; at most 4 elements per query; a gas window of 2 | `IterReturnsAsked`, `IndexPointsToTx`, `AnswersAreExact`, `GasWindowIsFull` |
| `tx_bounds` | the same chain, iterators with bounds 0, 2, 3, 4 and the largest | see section 6 |
| `where_complete`, `upper_bounds` | the chain of `queries` with one or two requests | see section 6 |
| `own_results`, `clean_shutdown`, `ready` | heights 0..4, 2 slots, chunks of 2, 1 fault | the code departs from a comment or a test, see section 6 |

Why the bounds are enough. Four heights above genesis in chunks of two, of which any
may fail to arrive, and restarts in the middle of a chunk, give full and short ranges:
responses in every order, a queue that is full, a queue that shifts between
reservation and response, and a second reservation behind a partly written first one.
A channel of one place makes workers wait for each other. Two faults allow a fault
while the process recovers from the first. Block 3 is an empty one before a busy
one in its chunk (misfiled results). Two events suffice to overtake, to coalesce a
wake-up and to be cancelled between; two subscriptions to change the map during a
signal; an event of two items to leave between the items. Subscriptions and
model values are not declared symmetric where liveness properties are checked in the
same run; the concurrent polls of `filters` are.

In `functions` every string is one of three and every number one of two, so that a
condition holds of some objects and fails of others; the samples contain each type of
message and event, each in a form that converts and one that does not, lists that
are missing, empty and of several elements. The requests of `queries` have every
operator on heights and indexes, nested, negated and at both ends of the chain, in
both orders, and are asked of every intermediate state of the store; with at most 4
elements the limit is met and missed.

A clock of two intervals is the shortest in which a filter can be collected and
another can be at the edge, and in which one can be stale when it enters the map; the
three feed elements give the block filter two changes to keep in order, on both sides of a
result that lies on the closed upper bound of the transaction filter. Which results the
ranges refuse is not left to the instance: `KeepsWhatWasAsked` is proved for all. Two connections allow a client to
unsubscribe what another subscribed, to die while the other is served, and to stop
reading; a buffer of one place is full after one message. Height 4 is the first that
needs a second byte in base 4, and the bounds include no limit (0), limits inside,
at and beyond the chain, a lower bound above the upper one, and the value whose
successor wraps.

`Fetcher` never deadlocks, since a process that ended is restarted, nor does `Queries`,
since the store can always be asked; the other runs may stop and say
`CHECK_DEADLOCK FALSE`: the event manager, the filters and the connections are at
rest when everything was signalled, sent and received.

### Fairness

- `WF(FetchLoop)`: the goroutine of `FetchChainData` is never blocked for good,
  its ticker fires again and again, and the node does not answer for ever with a
  height at or below the stored one while the chain is higher. A tick that learns
  nothing changes nothing, so weak fairness of the loop demands a tick, or a
  response, that does. The indexer has no other source of the chain's height, so
  nothing weaker makes it progress.
- `WF(\E r : HandleChunk(r))`: a spawned worker finishes, whatever it got.
  Requests have no retry, and both paths end in the one send.
- `WF(Restart)`: someone restarts an indexer that ended, as with any service.
- `Events`: weak fairness for whoever holds or waits for the lock in a call that
  has begun, and for each `runLoop`. Nothing is assumed of subscribers, nor that
  anyone subscribes or signals.
- `GraphSubscription`: the goroutine of `handleChannel` runs, and the reader, which
  selects on the context, notices that its client left. Nothing is assumed of the
  client; `StreamsDelivered` alone has the hypothesis that it goes on reading.
- `Subscriptions`: the goroutines of a `sendEvent` that has begun run, and a request
  that is being handled is answered. Nothing is assumed of clients, sessions or
  the event source.

Faults are bounded by `MaxFaults`, so the liveness properties say what happens
after the last of them.

## 4. Proofs

All constants are arbitrary. The assumptions are named in the modules that declare
the constants, and TLC evaluates them in every run: positive numbers of slots, chunk
size, channel and buffer capacities, intervals and bytes per integer; a base of at
least 4, the number of special bytes; nil, "no connection" and the like are not values
of their type; what is fed, sent, selected or stored (`Feed`, `Sends`, `Items`,
`Chain`, `Hashes`) is a sequence of the right kind; a chain and its blocks are
shorter than the largest height and index; the arguments of requests are numbers where
the schema says so (`RequestsAssumption`), and `PlainAssumption` of section 2. Every safety
invariant and every action property of `Fetcher`, `Events`, `GraphSubscription`, `Filters`,
`Subscriptions`, `Storage` and `Queries` that a run checks is proved; of the functions, those
that do not recurse over nested data. The inductive invariants were checked with TLC
before they were proved.

**Reservations** (`SlotsProofs`). `ReservationsExtendQueue`: if a queue has no
overlap and continues a base height without hole, the ranges that
`reserveChunkRanges(base+1, end, …)` returns lie behind the queue, do not
overlap, and leave no hole. The argument: in front of each item the loop of
`findGaps` finds nothing, since the last item before it ends right there
(`NoInnerGap`); so only the gap behind the queue is divided (`OnlyTailGap`), its
pieces are consecutive (`PiecesDisjoint`, `PiecesContinue`), and the lowest `n` of them
are a prefix (`LowestIsDownwardClosed`). `ReservationsAreBounded` adds the two limits,
by the cardinality of `Lowest`.

`FindGapsIsExact` and `LowestRangesFirst` are about every queue the code could meet,
with holes too, and state what the run `functions` checks on all small queues
(`GapsAreFreeHeights`, `LowestAreReserved`): a free height lies between the last item
before it and the next one, that is in one of the ranges of the first half
(`FreeHeightHasGap`), different ranges of it do not overlap (`GapsApart`), and the pieces
of a range cover it (`PiecesCover`).

**Fetcher** (`FetcherProofs`). One inductive invariant `IInv` gives five theorems:
`TypeCorrect`, `QueueContinuesStore`, `SearchFindsSlot`, `NothingSkipped` and
`FetcherImplementsIndex` (the refinement). Its parts, and why each is needed:

- `QueueInv`: the queue is ordered and continues the store (or the range being
  written). Also, it is empty before the loop and while genesis is written;
  without this a genesis commit could put the base below reserved ranges.
- `ServiceInv`: every worker and every response has an empty slot with its range, no
  two have the same one. `ResponseFindsItsSlot` alone says nothing of the workers
  whose responses are still to come, nor that the response at the head of the
  channel does not fill the slot of a later one.
- `ChunkInv`: a fetched chunk holds blocks and results of its own range only, at
  whatever index they are filed.
- `WriteInv`: the batch under construction is for the range right above the store,
  holds nothing else, and every block of the chunk is in the batch, still to do,
  or cannot be encoded. Commit then extends the store as `ChainIndex` allows, and
  leaves out only heights that were not delivered.

Three more invariants are proved on top of it:

- `HistoryInv` for `EventsAreOrdered` and `AnnouncementsMatchBatches`: announced blocks
  are no higher than the store or, during a write, below all that is still to do; and
  between writes each is stored or is genesis.
- `ResultInv` for `ResultsAreStored`: the results of a block are filed at the index of
  a block of the chunk that is not above it. That holds for the batch path although
  it misplaces results, since up to any height there are at least as many blocks as
  busy ones (`BatchFilesEarly`); so they are saved before their own block is passed.
- `ServedInv` for `SlotsAreServed`: `ServiceInv` maps workers and responses into empty
  slots one to one, which bounds their number; `CoverInv` is the converse while the
  context lives.

**Events** (`EventsProofs`). `TypeCorrect` and `WakeupsAreNotLost` from one
invariant that ties the state of a loop to its store and token and the position of
the signaller to its lock; `CounterIsMapSize` and `CancelIsSafe` from a second one
that follows the counter through the critical sections of the writers and says that
before `Close` every subscription in the map is open. `SubscribersMissNothing` needs two
more: that the counter, read without the lock, is not zero while a subscription one may
rely on is open (`CountsCounted`, also after `Close`, when map and counter differ), and
how far the events in a subscription's pipeline reach while the signaller is half
way through the map (`Reach`, `LineIsExact`).

**GraphSubscription** (`EventsProofs`). `HandlersAreSubscribers` is the
refinement of `Events` by the composition with `handleChannel`; by it, all theorems of
`Events` hold for GraphQL (`ManagerKeepsItsPromises`). `StreamsAreExact` follows the
items: what was delivered and what is left to send are the items of the events
received, concatenated.

**Filters** (`FiltersProofs`). `ChangesAreReturnedOnce` needs `MapShape`, which places
each filter's installation and removal in the order of the feed, and says that a range
over the map visits installed filters only. `CleanupInv` serves `AbandonedFiltersGo`
and `CleanupSparesUsedFilters`: the time of use is that at which a client last asked for
the filter (`UseIsAsked`), and for a filter in the map it is not later than its entry or last poll,
which is all that holds of one that had to wait for the lock; a pending
cutoff is at least an interval old and belongs to the last tick unless
another is waiting, and once every tick is dealt with no filter has been in the map
unpolled since before that.

**Subscriptions** (`SubscriptionsProofs`). `IInv` relates connections, sessions and the
map; its part `SendShape` says that a send is about subscriptions of its type that were
in the map when it began and, as the lock is held, are still there. `SubscribersGetAll`
and `UnsubscribeIsFinal` follow from it; `DeadSubscriptionsGo` also needs `DeadShape`: the only send
of its type a dead subscription has lived through is the one in progress, which is
about to find it out.

**Storage** (`StorageProofs`). `IndexNeverDangles`, for byte strings of any length and
integers of any width. First the encoding: what `EncodeUint` writes, `DecodeUint` reads
(`DecodeEncode`, by the quotients of the digits read so far); the escaped bytes of a
string never end in the escape byte, so a string can be read back from its end and no two are
encoded alike (`FlatInjective`); the third byte of a key tells its kind. So keys
of different kinds, transactions or hashes differ (`KindsAreApart`, `KeyTxInjective`,
`KeyHashTxInjective`). Then the invariant `IndexInv`: store and batch are each
`Consistent` - an index entry points to a transaction of the same map - which setting an
entry with its transaction and applying one map over the other preserve; and
`WriterInv`: the batch holds the index of what was written since the stored height,
and the height it holds is that of the last block, all of whose transactions are set.

`IteratorsReturnAsked` needs the order of the keys. `LexLess` compares bytes; two
encoded integers differ first at the digit at which the numbers do, so the byte order of the keys
of one kind is the order of their heights and then of their indexes, and a bound made by
raising a number selects what was asked for. The kinds are apart, so an iterator never leaves
its own. The invariant is `StoreInv` - a store of n blocks holds no block or
transaction above them, and the batch none above the writer's - and `IterInv`: what was
returned and what is still to be visited, less the keys that are skipped, are together what
the bounds select of the blocks that were saved when the iterator was opened, and all
that was returned precedes all that was not. A commit does not disturb it, because it speaks
of the count of blocks then (`asOf`) and not of the store.

**Queries** (`QueriesProofs`). The steps of a request are steps of the store or leave it
alone, so the invariants of `Storage` carry over (`QueriesKeepTheStore`). `ReqInv` adds, for
a request that has an iterator, `Opened`: it was opened with the bounds and the direction
that the resolver computes from the filter; and `Collected`: the elements found so far
are what the filter selects of those returned, in that order, and an answer without error or fault is given
at the end of the iterator only. `GasPricesOfLastBlocks` needs one more part: the height the
handler read is below the number of saved blocks until it opens its iterator, as
commits only add blocks. `QueriesAnswerExactly` then compares the bounds with the
filter: they survive the conversion to unsigned integers, their raised form selects
the same elements (and, for transactions, the block after), and by `PlainAssumption`
nothing the filter selects is outside. What lies at an upper bound of the older fields is
allowed and not demanded (`Demanded`). The order of an answer, and that a cut
answer is a first part, come from `IterInv`.

`OldFiltersCombine` is what `ConditionsCombine` checks, for every filter and transaction:
the conditions of `FilteredTransactionBy` are independent of each other, and each absent one is
satisfied.

**Gas prices** (`QueriesProofs`). `GasPricesAreSound` and `EveryBlockCountsOnce` are the two
parts of `PricesAreSound`, for any number of blocks of any size. `FoldLeft` of the library
is a recursion over the sets of positions; a function that satisfies it exists
(`FoldsSetsExists`), and its values on the first k positions are the states of the loop
after k rounds (`FeesFold`, `BlocksFold`). The loop invariant is `Summary`: lowest and highest are
the extremes of the amounts so far, the total lies between count times lowest and count
times highest, and before the first amount everything is zero, which is what lets zero stand for no price.
A block enters the second loop by its average, which lies between its extremes
(`AverageBetween`), so the second loop has the same invariant over all amounts. Repeating a
block's transactions keeps its extremes and doubles amount and count (`RepeatedBlock`),
and the quotient is the same.

**SequenceFacts.** The library's induction theorems take an operator, which none of the
provers can instantiate. `InductiveSet` is induction over the naturals for a *set* of
them, proved from the well-foundedness of `<`; the property to be proved becomes a
set comprehension. With it recursive functions are within reach: `FlattenAppend` for
the library's `FlattenSeq`, `RecursiveFunction` for the existence of a function that is
defined by recursion (`Power`).

Model-checked only:

- liveness under fairness (`CatchesUp`, `ShutdownCompletes`, `SignalReturnsAlways`,
  `CancelledLoopsEnd`, `LeftClientsAreReleased`, `StreamsDelivered`, `LoopNeverWaits`), which
  is outside what TLAPS proves;
- what needs `RECURSIVE` operators (`WhereMeansWhatItSays`, `NullsStayLocal`): filters and
  objects are nested, so coercion, evaluation and marshalling (`Coercion`, `Where`,
  `Execution`) recurse over data. For the same reason `PlainAssumption` is evaluated for
  the requests of the runs and not proved of `Where`.

`GapsCoverFreeHeights`, `ReservesLowestFirst`, `PricesAreSound` and `ConditionsCombine` are
invariants of `MCFunctions`, which calls the functions on all inputs of a bounded set; the
theorems are about the formulas in them, for every input.

## 5. What is not modelled

- The amino encoding of blocks and results, Pebble itself, the RPC, WebSocket and
  GraphQL libraries, HTTP, logging, flags, the wiring in `cmd/`, the GraphQL setup
  and playground: external or without behaviour of their own. The mocks and the
  code generator do not run in the program.
- Of the generated GraphQL code: introspection, complexity, the selection of fields
  (a query selects all), and the filter types that no field of the schema uses.
- Integer width in the fetcher: heights are `uint64` and never come near the limit.
  `Keys` and `Storage` keep the width, since bounds come from clients.
- The data race on `latestChunkSize` (written by the fetcher, read by `/ready`):
  a single word, so a stale value is the worst outcome.
- `max-chunk-size` 0, for which `findGaps` would not end: excluded by
  `FetcherAssumption`, the program does not check it.
- A change that cannot be encoded in `GetFilterChangesHandler`: the changes are
  taken and an error is returned, which the model does not tell apart from a response
  (see section 6).
- The order of a subscription's id and its first notification: the model has the
  behaviour in which the notification comes first, no property forbids it.
- Keys that cannot be decoded (`nextError`): keys are written by the encoder only.
- Panics on nil objects in the filters (see `LegacyFilters` above).
- Failures of single reads of the store: the handlers return them as they are.

## 6. Where the code departs from its comments and tests

- `own_results` (`fetch/worker.go:194`): the batch path stores results under the
  position of the answer, not of the block, so in a range with an empty block
  before a busy one the event of the empty block carries the other's results.
  They are stored under their own height all the same (`FetchedResultsAreStored`),
  unless the block at that position cannot be encoded.
- `clean_shutdown` (`fetch/fetch.go:210`): the channel is closed while workers
  still send on it.
- `ready` (`fetch/fetch.go:326`): readiness compares the size of the last chunk,
  and the genesis chunk always differs from a full one (unless chunks have size 1, and then the indexer is
  never ready).
- `tx_bounds` (`storage/pebble.go:248`): the exclusive upper key of a transaction
  iterator is built from both raised bounds, so it also returns transactions of the
  block after the last one asked for. `IterReturnsAsked` states what does hold:
  nothing asked for is missing, and the surplus is confined to that block.
- `where_complete` (`serve/graph/model/filter_methods_gen.go:2528`): the bounds of an
  `_or` are the extremes of the bounds its alternatives have; an alternative without
  a bound on the height, which admits every height, is left out, and what only it
  selects is not found. `AnswersAreExact` states what does hold: without `_or`, and
  with bounds that fit their types, answers are exact.
- `upper_bounds` (`serve/graph/all.resolvers.go:80`): `to_height`, `to_block_height` and
  `to_index` are documented as exclusive (`schema/filter/block_filter.graphql:11`,
  `transaction_filter.graphql:11` and `:21`); the iterators raise them, so elements at
  the bound are returned, and a bound of 0 is none. `AnswersAreExact` takes no side: it allows
  these elements and does not ask for them.

The same modules show, without a run of their own:

- blocks are announced before their batch is committed (`fetch/fetch.go:298`), so a
  failed commit leaves announced blocks that were not saved;
- the test of the coins a call sends (`serve/graph/transaction_filter.go:329`) is not
  negated, unlike that of a bank message (`:288`), so a range of `AmountInput`
  (`schema/filter/transaction_filter.graphql:408`) selects the calls outside it; also the
  deposit of `add_package` (`:370`) and what `run` sends (`:402`). `LegacyFilters` has it as it is;
- the upper gas bounds of the older filters are documented as exclusive too and are inclusive
  (`serve/graph/transaction_filter.go:173`, `:186`);
- "Filters that are inactive (not polled) for `5min` are automatically cleaned up"
  (`src/README.md:282`): a filter counts as active from its making, so one that had to wait that
  long for the map's lock can be collected before it could be polled;
- a poll returns "an array of events that have occurred since the last poll"
  (`src/README.md:281`), but if one of them cannot be encoded the others are lost with it
  (`serve/handlers/subs/subs.go:203`);
- a negative bound (`gt: -1`) wraps to a huge lower bound, and nothing is found;
- "Incomplete results due to errors return both the partial Blocks and the associated
  errors" (`schema/query.graphql:11`) is so for the limit, a timeout and an element
  that cannot be decoded, not for an iterator that fails (`IterFails`);
- a subscription is "active immediately" (`schema/subscription.graphql:20`) from the
  moment its goroutine has subscribed, which is after the resolver returned;
- empty arguments are skipped by `exec.args` if they are empty in the message, not in
  the filter; `run.package` without a name or path asks for an empty one; the inputs
  for storage events are accepted and never looked at; `eq` of a time compares the
  zone too; a fee of zero counts as no fee in the lowest gas price; `transactions`
  with a hash ignores every other condition; a hash that occurs twice is found where
  it was saved last.

## 7. Plan

Done: the modules of section 2 and the proofs of section 4. Open:

1. A composition of `Fetcher` and `Events`: what a subscriber that also reads the
   store can observe around a commit.
2. `Where` without `RECURSIVE` operators, as a function on filters of bounded depth, so
   that `PlainAssumption` can be derived from it.
