---------------------------- MODULE QueriesProofs ----------------------------
(***************************************************************************)
(* Theorems about the queries: any requests, any chain, any filters, while *)
(* the writer commits and rolls back; about the older filters of           *)
(* transactions; and about the gas prices, for any blocks.                 *)
(***************************************************************************)
EXTENDS Queries, GasPrices, StorageProofs

-----------------------------------------------------------------------------
(* The store under the queries. *)

LEMMA ToUintType ==
    ASSUME NEW n \in Int, NEW max \in Nat
    PROVE  /\ ToUint(n, max) \in 0 .. max
           /\ n \in 0 .. max => ToUint(n, max) = n
  <1>1. n % (max + 1) \in 0 .. max
    OBVIOUS
  <1>2. n \in 0 .. max => n % (max + 1) = n
    OBVIOUS
  <1> QED
    BY <1>1, <1>2 DEF ToUint

LEMMA BoundsType ==
    ASSUME NEW bounds, NEW max \in Nat, Pointers(bounds, Int)
    PROVE  From(bounds, max) \in 0 .. max /\ UpTo(bounds, max) \in 0 .. max
  <1>1. Value(bounds.min) \in Int /\ Value(bounds.max) \in Int
    BY DEF Pointers, Value
  <1>2. From(bounds, max) \in 0 .. max
    BY <1>1, ToUintType DEF From
  <1> DEFINE to == ToUint(Value(bounds.max), max)
  <1>3. to \in 0 .. max
    BY <1>1, ToUintType
  <1>4. to + 1 \in Int
    BY <1>3
  <1>5. ToUint(to + 1, max) \in 0 .. max
    BY <1>4, ToUintType
  <1> HIDE DEF to
  <1>6. UpTo(bounds, max) = IF bounds.max # Null /\ bounds.min = bounds.max THEN ToUint(to + 1, max) ELSE to
    BY DEF UpTo, to
  <1> QED
    BY <1>2, <1>3, <1>5, <1>6

\* A step of the queries is one of the store, with any bounds.
OpensAny ==
    \E dir \in {"forward", "backward"} : \E from, to \in Heights :
        \/ OpenBlocks(dir, from, to)
        \/ \E fromIndex, toIndex \in TxIndexes : OpenTxs(dir, from, to, fromIndex, toIndex)

LEMMA DerefType ==
    ASSUME NEW id \in DOMAIN Requests, Requests[id].field \in {"blocks", "transactions"},
           NEW k \in HeightFields \cup IndexFields
    PROVE  Deref(Requests[id].filter, k, 0) \in Int
  BY RequestsAssumption DEF Deref, IsSet

LEMMA OpensBlocks ==
    ASSUME NEW dir \in {"forward", "backward"}, NEW from \in 0 .. MaxUint64, NEW to \in 0 .. MaxUint64,
           OpenBlocks(dir, from, to)
    PROVE  OpensAny
  BY DEF OpensAny, Heights

LEMMA OpensTxs ==
    ASSUME NEW dir \in {"forward", "backward"}, NEW from \in 0 .. MaxUint64, NEW to \in 0 .. MaxUint64,
           NEW fromIndex \in 0 .. MaxUint32, NEW toIndex \in 0 .. MaxUint32, OpenTxs(dir, from, to, fromIndex, toIndex)
    PROVE  OpensAny
  BY DEF OpensAny, Heights, TxIndexes

LEMMA RequestActs ==
    ASSUME NEW id \in DOMAIN Requests, Request(id)
    PROVE  OpensAny \/ [Next]_vars
  <1> DEFINE f == Requests[id].filter
  <1>0. MaxUint64 \in Nat /\ MaxUint32 \in Nat
    BY UpperType
  <1>1. CASE Blocks(id)
    <2>1. Requests[id].field = "blocks"
      BY <1>1 DEF Blocks, Asked
    <2>2. Deref(f, "from_height", 0) \in Int /\ Deref(f, "to_height", 0) \in Int
      BY <2>1, DerefType DEF HeightFields
    <2>3. /\ ToUint(Deref(f, "from_height", 0), MaxUint64) \in 0 .. MaxUint64
          /\ ToUint(Deref(f, "to_height", 0), MaxUint64) \in 0 .. MaxUint64
      BY <1>0, <2>2, ToUintType
    <2> QED
      BY <1>1, <2>3, OpensBlocks DEF Blocks
  <1>2. CASE GetBlocks(id)
    <2> DEFINE bounds == WhereMinMax(f, "height")
    <2>1. Pointers(bounds, Int)
      BY <1>2, RequestsAssumption DEF GetBlocks, Asked
    <2>2. From(bounds, MaxUint64) \in 0 .. MaxUint64 /\ UpTo(bounds, MaxUint64) \in 0 .. MaxUint64
      BY <1>0, <2>1, BoundsType
    <2>3. Direction(Requests[id]) \in {"forward", "backward"}
      BY DEF Direction
    <2> QED
      BY <1>2, <2>2, <2>3, OpensBlocks DEF GetBlocks
  <1>3. CASE Transactions(id)
    <2>1. Requests[id].field = "transactions"
      BY <1>3 DEF Transactions, Asked
    <2>2. /\ Deref(f, "from_block_height", 0) \in Int /\ Deref(f, "to_block_height", 0) \in Int
          /\ Deref(f, "from_index", 0) \in Int /\ Deref(f, "to_index", 0) \in Int
      BY <2>1, DerefType DEF HeightFields, IndexFields
    <2>3. /\ ToUint(Deref(f, "from_block_height", 0), MaxUint64) \in 0 .. MaxUint64
          /\ ToUint(Deref(f, "to_block_height", 0), MaxUint64) \in 0 .. MaxUint64
          /\ ToUint(Deref(f, "from_index", 0), MaxUint32) \in 0 .. MaxUint32
          /\ ToUint(Deref(f, "to_index", 0), MaxUint32) \in 0 .. MaxUint32
      BY <1>0, <2>2, ToUintType
    <2> QED
      BY <1>3, <2>3, OpensTxs DEF Transactions
  <1>4. CASE GetTransactions(id)
    <2> DEFINE heights == WhereMinMax(f, "block_height")
               indexes == WhereMinMax(f, "index")
    <2>1. Pointers(heights, Int) /\ Pointers(indexes, Int)
      BY <1>4, RequestsAssumption DEF GetTransactions, Asked
    <2>2. From(heights, MaxUint64) \in 0 .. MaxUint64 /\ UpTo(heights, MaxUint64) \in 0 .. MaxUint64
      BY <1>0, <2>1, BoundsType
    <2>3. From(indexes, MaxUint32) \in 0 .. MaxUint32 /\ UpTo(indexes, MaxUint32) \in 0 .. MaxUint32
      BY <1>0, <2>1, BoundsType
    <2>4. Direction(Requests[id]) \in {"forward", "backward"}
      BY DEF Direction
    <2> QED
      BY <1>4, <2>2, <2>3, <2>4, OpensTxs DEF GetTransactions
  <1>5. CASE GetGasPriceOfRange(id)
    <2>1. f.from_height \in 0 .. MaxUint64 /\ f.to_height \in 0 .. MaxUint64
      BY <1>5, RequestsAssumption DEF GetGasPriceOfRange, Asked
    <2> QED
      BY <1>5, <2>1, OpensBlocks DEF GetGasPriceOfRange
  <1>6. CASE FindHash(id)
    <2>1. HashOf(Requests[id]) \in Hashes
      BY <1>6, RequestsAssumption DEF FindHash
    <2> QED
      BY <1>6, <2>1 DEF FindHash, Next, Reader
  <1>7. CASE GetGasPrice(id) \/ LatestBlockHeight(id) \/ GetBlockHandler(id) \/ GetTxHandler(id)
    BY <1>7 DEF GetGasPrice, LatestBlockHeight, GetBlockHandler, GetTxHandler
  <1> QED
    BY <1>1, <1>2, <1>3, <1>4, <1>5, <1>6, <1>7 DEF Request

-----------------------------------------------------------------------------
(* The requests. *)

\* The iterator of a request is open over the bounds it asked for.
OverBlocks(dir, from, to) ==
    iter.kind = "blocks" /\ iter.dir = dir /\ iter.from = from /\ iter.to = to /\ iter.toIndex = 0
OverTxs(dir, from, to, fromIndex, toIndex) ==
    /\ iter.kind = "txs" /\ iter.dir = dir /\ iter.from = from /\ iter.to = to
    /\ iter.fromIndex = fromIndex /\ iter.toIndex = toIndex

Opened ==
    LET f == Ask.filter
        given(k, max) == ToUint(Deref(f, k, 0), max)
        height == WhereMinMax(f, "height")
        block == WhereMinMax(f, "block_height")
        index == WhereMinMax(f, "index")
    IN  \/ Ask.field = "blocks" /\ OverBlocks("forward", given("from_height", MaxUint64), given("to_height", MaxUint64))
        \/ Ask.field = "getBlocks" /\ OverBlocks(Direction(Ask), From(height, MaxUint64), UpTo(height, MaxUint64))
        \/ /\ Ask.field = "transactions"
           /\ OverTxs("forward", given("from_block_height", MaxUint64), given("to_block_height", MaxUint64),
                      given("from_index", MaxUint32), given("to_index", MaxUint32))
        \/ /\ Ask.field = "getTransactions"
           /\ OverTxs(Direction(Ask), From(block, MaxUint64), UpTo(block, MaxUint64),
                      From(index, MaxUint32), UpTo(index, MaxUint32))
        \/ Ask.field = "gasPrice" /\ OverBlocks("forward", DefaultFrom(req.latest), req.latest) /\ req.latest < asOf
        \/ Ask.field = "gasRange" /\ OverBlocks("forward", f.from_height, f.to_height)

\* What was collected so far is what the filter selects of what the iterator
\* returned, in that order.
Collected ==
    /\ req.out # Null =>
           /\ req.out \in Seq(Nat \X Nat)
           /\ ToSet(req.out) = {p \in {Position(k) : k \in ToSet(iter.got)} : Selects(Ask, p)}
           /\ \A m, n \in DOMAIN req.out : m < n => Follows(req.out[m], req.out[n])
    /\ req.out = Null => req.fault /\ req.answered
    /\ (req.answered /\ ~req.error /\ ~req.fault) => iter.done

ReqType(r) ==
    /\ r = [id |-> r.id, out |-> r.out, latest |-> r.latest, answered |-> r.answered, error |-> r.error, fault |-> r.fault]
    /\ r.id \in DOMAIN Requests /\ r.latest \in Nat
    /\ r.answered \in BOOLEAN /\ r.error \in BOOLEAN /\ r.fault \in BOOLEAN

ReqInv ==
    /\ req = NoReq => iter = NoIter /\ lookup = NoLookup
    /\ req # NoReq =>
           /\ ReqType(req)
           /\ lookup # NoLookup => iter = NoIter /\ ByHash(Ask) /\ ~req.answered
           /\ (Ask.field = "gasPrice" /\ ~req.answered) => req.latest < Saved /\ (iter = NoIter => req.out = <<>>)
           /\ (Ask.field = "gasPrice" /\ req.answered /\ ~req.error) => iter # NoIter
           /\ iter # NoIter => Opened /\ Collected

QueriesInv == IndexInv /\ StoreInv /\ IterInv /\ ReqInv

LEMMA ReqIsNotNoReq == ASSUME NEW r, ReqType(r) PROVE r # NoReq
  <1>1. DOMAIN r = {"id", "out", "latest", "answered", "error", "fault"}
    BY DEF ReqType
  <1>2. DOMAIN NoReq = {"id"}
    BY DEF NoReq
  <1> QED
    BY <1>1, <1>2

LEMMA GasPriceType ==
    ASSUME QueriesInv, req # NoReq, Ask.field = "gasPrice", ~req.answered
    PROVE  req.latest \in 0 .. MaxUint64 /\ DefaultFrom(req.latest) \in 0 .. MaxUint64
  <1>1. req.latest \in Nat /\ req.latest < Saved /\ Saved \in 0 .. writer.block /\ writer.block \in 0 .. Len(Chain)
    BY DEF QueriesInv, ReqInv, ReqType, IndexInv, WriterInv
  <1>2. req.latest \in 0 .. Len(Chain)
    BY <1>1, ChainType
  <1>3. req.latest \in 0 .. MaxUint64
    BY <1>2, ChainType DEF Heights
  <1>4. DefaultFrom(req.latest) \in 0 .. req.latest
    BY <1>1, QueriesAssumption DEF DefaultFrom
  <1> QED
    BY <1>3, <1>4, UpperType

LEMMA QueriesAct ==
    ASSUME QueriesInv, [QNext]_queryVars
    PROVE  OpensAny \/ [Next]_vars
  <1>1. CASE UNCHANGED queryVars
    BY <1>1 DEF queryVars, vars
  <1>2. CASE Writer
    BY <1>2 DEF Next
  <1>3. CASE \E id \in DOMAIN Requests : Request(id)
    BY <1>3, RequestActs
  <1>4. CASE OpenGasPrice
    <2>1. req.latest \in 0 .. MaxUint64 /\ DefaultFrom(req.latest) \in 0 .. MaxUint64
      BY <1>4, GasPriceType DEF OpenGasPrice
    <2> QED
      BY <1>4, <2>1, OpensBlocks DEF OpenGasPrice
  <1>5. CASE StopAtLimit \/ IterFails \/ ElementFails
    BY <1>5 DEF StopAtLimit, IterFails, ElementFails
  <1>6. CASE NextElement \/ FindTx \/ Close
    BY <1>6 DEF NextElement, FindTx, Close, Next, Reader
  <1> QED
    BY <1>1, <1>2, <1>3, <1>4, <1>5, <1>6 DEF QNext

LEMMA StoreKeeps ==
    ASSUME IndexInv, StoreInv, IterInv, OpensAny \/ [Next]_vars
    PROVE  IndexInv' /\ StoreInv' /\ IterInv'
  <1>1. CASE [Next]_vars
    BY <1>1, IndexStep, StoreStep, IterInvStep
  <1>2. CASE OpensAny
    <2>1. UNCHANGED <<db, batch, writer, lookup>>
      BY <1>2 DEF OpensAny, OpenBlocks, OpenTxs
    <2>2. LookupInv'
      BY <2>1, LookupWriter DEF IndexInv
    <2>3. IndexInv' /\ StoreInv'
      BY <2>1, <2>2, IndexReaders, StoreReaders
    <2>4. IterInv'
      BY <1>2, IterOpenBlocks, IterOpenTxs DEF OpensAny
    <2> QED
      BY <2>3, <2>4
  <1> QED
    BY <1>1, <1>2

LEMMA SavedGrows ==
    ASSUME IndexInv, OpensAny \/ [Next]_vars
    PROVE  Saved \in Nat /\ Saved' \in Nat /\ Saved <= Saved'
  <1>1. Saved \in Nat /\ writer.block \in Nat /\ Saved <= writer.block
    BY ChainType DEF IndexInv, WriterInv
  <1>2. CASE db' = db
    BY <1>1, <1>2, SavedUnchanged
  <1>3. CASE Commit
    BY <1>1, <1>3, CommitSaves
  <1> QED
    BY <1>2, <1>3 DEF OpensAny, OpenBlocks, OpenTxs, Next, Writer, Reader, SetBlock, SetTx, SetLatestHeight, Rollback,
                      IterNext, CloseIter, LookupIndex, LookupTx, vars

LEMMA ReqUnchanged ==
    ASSUME ReqInv, Saved \in Nat, Saved' \in Nat, Saved <= Saved',
           req' = req, iter' = iter, asOf' = asOf, lookup' = lookup
    PROVE  ReqInv'
  <1>1. Ask' = Ask
    BY DEF Ask
  <1>2. Opened' <=> Opened
    BY <1>1 DEF Opened, OverBlocks, OverTxs
  <1>3. \A k : Position(k)' = Position(k)
    BY DEF Position
  <1>4. Collected' <=> Collected
    BY <1>1, <1>3 DEF Collected, Follows
  <1>5. req # NoReq => req.latest \in Nat
    BY DEF ReqInv, ReqType
  <1>6. req.latest \in Nat /\ req.latest < Saved => req.latest < Saved'
    OBVIOUS
  <1> QED
    BY <1>1, <1>2, <1>4, <1>5, <1>6 DEF ReqInv

LEMMA ServingType ==
    ASSUME NEW id \in DOMAIN Requests
    PROVE  /\ ReqType(Serving(id))
           /\ Serving(id).id = id /\ Serving(id).out = <<>> /\ Serving(id).latest = 0
           /\ ~Serving(id).answered /\ ~Serving(id).error /\ ~Serving(id).fault
  BY DEF Serving, ReqType

\* A request has opened its iterator.
LEMMA ReqStarts ==
    ASSUME req' # NoReq, ReqType(req'), req'.out = <<>>, ~req'.answered, lookup' = NoLookup,
           iter' # NoIter, iter'.got = <<>>, Opened', Ask'.field = "gasPrice" => req'.latest < Saved'
    PROVE  ReqInv'
  <1>1. <<>> \in Seq(Nat \X Nat) /\ <<>> # Null
    BY QueriesAssumption, EmptySeq
  <1>2. ToSet(<<>>) = {} /\ DOMAIN <<>> = {}
    BY DEF ToSet
  <1>3. Collected'
    BY <1>1, <1>2 DEF Collected
  <1> QED
    BY <1>3 DEF ReqInv

\* A request was answered at once.
LEMMA ReqAnswered ==
    ASSUME ReqInv, req = NoReq, NEW id \in DOMAIN Requests, NEW data, NEW error \in BOOLEAN,
           RespondTo(id, data, error), UNCHANGED vars, Requests[id].field = "gasPrice" => error
    PROVE  ReqInv'
  <1>1. iter' = NoIter /\ lookup' = NoLookup
    BY DEF ReqInv, vars
  <1>2. /\ ReqType(req') /\ req'.id = id /\ req'.answered /\ req'.error = error
    BY DEF RespondTo, Serving, ReqType
  <1>3. req' # NoReq
    BY <1>2, ReqIsNotNoReq
  <1>4. Ask' = Requests[id]
    BY <1>2 DEF Ask
  <1> QED
    BY <1>1, <1>2, <1>3, <1>4 DEF ReqInv

LEMMA ReqOpensBlocks ==
    ASSUME ReqInv, req = NoReq, NEW id \in DOMAIN Requests, NEW dir, NEW from, NEW to,
           OpenBlocks(dir, from, to), req' = Serving(id), Requests[id].field # "gasPrice",
           OverBlocks(dir, from, to)' => Opened'
    PROVE  ReqInv'
  <1>1. /\ iter'.kind = "blocks" /\ iter'.dir = dir /\ iter'.from = from /\ iter'.to = to /\ iter'.toIndex = 0
        /\ iter'.got = <<>> /\ lookup' = lookup
    BY DEF OpenBlocks
  <1>2. iter' # NoIter
    BY <1>1 DEF NoIter
  <1>3. Opened'
    BY <1>1 DEF OverBlocks
  <1>4. lookup' = NoLookup
    BY <1>1 DEF ReqInv
  <1>5. ReqType(req') /\ req'.out = <<>> /\ ~req'.answered /\ Ask' = Requests[id]
    BY ServingType DEF Ask
  <1>6. req' # NoReq
    BY <1>5, ReqIsNotNoReq
  <1> QED
    BY <1>1, <1>2, <1>3, <1>4, <1>5, <1>6, ReqStarts

LEMMA ReqOpensTxs ==
    ASSUME ReqInv, req = NoReq, NEW id \in DOMAIN Requests, NEW dir, NEW from, NEW to, NEW fromIndex, NEW toIndex,
           OpenTxs(dir, from, to, fromIndex, toIndex), req' = Serving(id), Requests[id].field # "gasPrice",
           OverTxs(dir, from, to, fromIndex, toIndex)' => Opened'
    PROVE  ReqInv'
  <1>1. /\ iter'.kind = "txs" /\ iter'.dir = dir /\ iter'.from = from /\ iter'.to = to
        /\ iter'.fromIndex = fromIndex /\ iter'.toIndex = toIndex
        /\ iter'.got = <<>> /\ lookup' = lookup
    BY DEF OpenTxs
  <1>2. iter' # NoIter
    BY <1>1 DEF NoIter
  <1>3. Opened'
    BY <1>1 DEF OverTxs
  <1>4. lookup' = NoLookup
    BY <1>1 DEF ReqInv
  <1>5. ReqType(req') /\ req'.out = <<>> /\ ~req'.answered /\ Ask' = Requests[id]
    BY ServingType DEF Ask
  <1>6. req' # NoReq
    BY <1>5, ReqIsNotNoReq
  <1> QED
    BY <1>1, <1>2, <1>3, <1>4, <1>5, <1>6, ReqStarts

LEMMA ReqRequest ==
    ASSUME QueriesInv, NEW id \in DOMAIN Requests, Request(id)
    PROVE  ReqInv'
  <1> DEFINE f == Requests[id].filter
  <1>0. ReqInv
    BY DEF QueriesInv
  <1>9. ASSUME req' = Serving(id) PROVE Ask' = Requests[id]
    BY <1>9, ServingType DEF Ask
  <1>1. CASE Blocks(id)
    <2> DEFINE from == ToUint(Deref(f, "from_height", 0), MaxUint64)
               to == ToUint(Deref(f, "to_height", 0), MaxUint64)
    <2>1. req = NoReq /\ Requests[id].field = "blocks" /\ OpenBlocks("forward", from, to) /\ req' = Serving(id)
      BY <1>1 DEF Blocks, Asked
    <2>2. OverBlocks("forward", from, to)' => Opened'
      BY <1>9, <2>1 DEF Opened, OverBlocks
    <2> HIDE DEF from, to
    <2> QED
      BY <1>0, <2>1, <2>2, ReqOpensBlocks
  <1>2. CASE GetBlocks(id)
    <2> DEFINE bounds == WhereMinMax(f, "height")
               from == From(bounds, MaxUint64)
               to == UpTo(bounds, MaxUint64)
               dir == Direction(Requests[id])
    <2>1. req = NoReq /\ Requests[id].field = "getBlocks" /\ OpenBlocks(dir, from, to) /\ req' = Serving(id)
      BY <1>2 DEF GetBlocks, Asked
    <2>2. OverBlocks(dir, from, to)' => Opened'
      BY <1>9, <2>1 DEF Opened, OverBlocks
    <2> HIDE DEF from, to, dir
    <2> QED
      BY <1>0, <2>1, <2>2, ReqOpensBlocks
  <1>3. CASE Transactions(id)
    <2> DEFINE from == ToUint(Deref(f, "from_block_height", 0), MaxUint64)
               to == ToUint(Deref(f, "to_block_height", 0), MaxUint64)
               fromIndex == ToUint(Deref(f, "from_index", 0), MaxUint32)
               toIndex == ToUint(Deref(f, "to_index", 0), MaxUint32)
    <2>1. /\ req = NoReq /\ Requests[id].field = "transactions" /\ req' = Serving(id)
          /\ OpenTxs("forward", from, to, fromIndex, toIndex)
      BY <1>3 DEF Transactions, Asked
    <2>2. OverTxs("forward", from, to, fromIndex, toIndex)' => Opened'
      BY <1>9, <2>1 DEF Opened, OverTxs
    <2> HIDE DEF from, to, fromIndex, toIndex
    <2> QED
      BY <1>0, <2>1, <2>2, ReqOpensTxs
  <1>4. CASE GetTransactions(id)
    <2> DEFINE from == From(WhereMinMax(f, "block_height"), MaxUint64)
               to == UpTo(WhereMinMax(f, "block_height"), MaxUint64)
               fromIndex == From(WhereMinMax(f, "index"), MaxUint32)
               toIndex == UpTo(WhereMinMax(f, "index"), MaxUint32)
               dir == Direction(Requests[id])
    <2>1. /\ req = NoReq /\ Requests[id].field = "getTransactions" /\ req' = Serving(id)
          /\ OpenTxs(dir, from, to, fromIndex, toIndex)
      BY <1>4 DEF GetTransactions, Asked
    <2>2. OverTxs(dir, from, to, fromIndex, toIndex)' => Opened'
      BY <1>9, <2>1 DEF Opened, OverTxs
    <2> HIDE DEF from, to, fromIndex, toIndex, dir
    <2> QED
      BY <1>0, <2>1, <2>2, ReqOpensTxs
  <1>5. CASE GetGasPriceOfRange(id)
    <2>1. /\ req = NoReq /\ Requests[id].field = "gasRange" /\ req' = Serving(id)
          /\ OpenBlocks("forward", f.from_height, f.to_height)
      BY <1>5 DEF GetGasPriceOfRange, Asked
    <2>2. OverBlocks("forward", f.from_height, f.to_height)' => Opened'
      BY <1>9, <2>1 DEF Opened, OverBlocks
    <2> QED
      BY <1>0, <2>1, <2>2, ReqOpensBlocks
  <1>6. CASE FindHash(id)
    <2>1. req = NoReq /\ ByHash(Requests[id]) /\ Requests[id].field # "gasPrice"
      BY <1>6 DEF FindHash, ByHash
    <2>2. CASE LookupIndex(HashOf(Requests[id])) /\ req' = Serving(id)
      <3>1. iter' = NoIter
        BY <1>0, <2>1, <2>2 DEF ReqInv, LookupIndex
      <3>2. ReqType(req') /\ ~req'.answered /\ Ask' = Requests[id]
        BY <1>9, <2>2, ServingType
      <3>3. req' # NoReq
        BY <3>2, ReqIsNotNoReq
      <3> QED
        BY <2>1, <3>1, <3>2, <3>3 DEF ReqInv
    <2>3. CASE RespondTo(id, Null, Requests[id].field # "getTxByHash") /\ UNCHANGED vars
      BY <1>0, <2>1, <2>3, ReqAnswered
    <2> QED
      BY <1>6, <2>2, <2>3 DEF FindHash
  <1>7. CASE GetGasPrice(id)
    <2>1. req = NoReq /\ Requests[id].field = "gasPrice" /\ UNCHANGED vars
      BY <1>7 DEF GetGasPrice, Asked
    <2>2. CASE Saved = 0
      <3>1. RespondTo(id, Null, TRUE)
        BY <1>7, <2>2 DEF GetGasPrice
      <3> QED
        BY <1>0, <2>1, <3>1, ReqAnswered
    <2>3. CASE Saved # 0
      <3>1. req' = [Serving(id) EXCEPT !.latest = Saved - 1]
        BY <1>7, <2>3 DEF GetGasPrice
      <3>2. Saved \in Nat /\ Saved' = Saved
        BY <2>1, SavedUnchanged, ChainType DEF QueriesInv, IndexInv, WriterInv, vars
      <3>3. ReqType(req') /\ req'.id = id /\ ~req'.answered /\ req'.out = <<>> /\ req'.latest < Saved'
        <4>1. Saved - 1 \in Nat /\ Saved - 1 < Saved'
          BY <2>3, <3>2
        <4>2. req' = [id |-> id, out |-> <<>>, latest |-> Saved - 1, answered |-> FALSE, error |-> FALSE, fault |-> FALSE]
          BY <3>1 DEF Serving
        <4> QED
          BY <4>1, <4>2 DEF ReqType
      <3>4. req' # NoReq
        BY <3>3, ReqIsNotNoReq
      <3>5. iter' = NoIter /\ lookup' = NoLookup
        BY <1>0, <2>1 DEF ReqInv, vars
      <3> QED
        BY <3>3, <3>4, <3>5 DEF ReqInv
    <2> QED
      BY <2>2, <2>3
  <1>8. CASE LatestBlockHeight(id) \/ GetBlockHandler(id) \/ GetTxHandler(id)
    <2>1. /\ req = NoReq /\ UNCHANGED vars /\ Requests[id].field # "gasPrice"
          /\ \E data : RespondTo(id, data, TRUE) \/ RespondTo(id, data, FALSE)
      BY <1>8 DEF LatestBlockHeight, GetBlockHandler, GetTxHandler, Asked
    <2> QED
      BY <1>0, <2>1, ReqAnswered
  <1> QED
    BY <1>1, <1>2, <1>3, <1>4, <1>5, <1>6, <1>7, <1>8 DEF Request

-----------------------------------------------------------------------------
(* The loop. *)

\* The iterator is the same one, after any number of Next.
Same == /\ iter'.kind = iter.kind /\ iter'.dir = iter.dir /\ iter'.from = iter.from /\ iter'.to = iter.to
        /\ iter'.fromIndex = iter.fromIndex /\ iter'.toIndex = iter.toIndex

LEMMA IterNextCases ==
    ASSUME IterType, IterNext
    PROVE  /\ Same /\ iter' # NoIter
           /\ \/ iter'.done = TRUE /\ iter'.got = iter.got
              \/ \E k \in Awaited : iter'.done = FALSE /\ iter'.got = Append(iter.got, k)
  <1>1. ~iter.done /\ iter.kind # "none"
    BY DEF IterType, IterNext
  <1>2. CASE Awaited = {}
    <2>1. iter' = [iter EXCEPT !.left = {}, !.done = TRUE]
      BY <1>2 DEF IterNext, Awaited
    <2>2. Same /\ iter'.done = TRUE /\ iter'.got = iter.got
      BY <2>1 DEF IterType, Same
    <2> QED
      BY <1>1, <2>2 DEF Same, NoIter
  <1>3. CASE Awaited # {}
    <2>1. PICK k \in Awaited :
              iter' = [iter EXCEPT !.left = {other \in iter.left : Precedes(k, other)}, !.got = Append(iter.got, k)]
      BY <1>3 DEF IterNext, Awaited
    <2>2. Same /\ iter'.done = iter.done /\ iter'.got = Append(iter.got, k)
      BY <2>1 DEF IterType, Same
    <2>3. iter'.done = FALSE
      BY <1>1, <2>2 DEF IterType
    <2> QED
      BY <1>1, <2>1, <2>2, <2>3 DEF Same, NoIter
  <1> QED
    BY <1>2, <1>3

LEMMA PositionType ==
    ASSUME IterType, NEW k \in SavedKeys
    PROVE  Position(k) \in Nat \X Nat
  <1>0. asOf \in 0 .. Len(Chain) /\ iter.kind \in {"blocks", "txs"} /\ 0 \in TxIndexes
    BY IterNumbers DEF IterType
  <1>1. CASE iter.kind = "blocks"
    <2>1. k \in BlockKeys(asOf)
      BY <1>1 DEF SavedKeys
    <2>2. PICK h \in Heights : k = KeyBlock(h)
      BY <1>0, <2>1, SavedKeyForms
    <2>3. Position(k) = <<h, 0>>
      BY <1>0, <1>1, <2>2, KeyNumbers DEF Position
    <2> QED
      BY <2>3, UpperType DEF Heights
  <1>2. CASE iter.kind = "txs"
    <2>1. k \in TxKeys(asOf)
      BY <1>2 DEF SavedKeys
    <2>2. PICK h \in Heights, i \in TxIndexes : k = KeyTx(h, i)
      BY <1>0, <2>1, SavedKeyForms
    <2>3. Position(k) = <<h, i>>
      BY <1>2, <2>2, KeyNumbers DEF Position
    <2> QED
      BY <2>3, UpperType DEF Heights, TxIndexes
  <1> QED
    BY <1>0, <1>1, <1>2

\* While a request loops.
LEMMA LoopFacts ==
    ASSUME QueriesInv, Looping
    PROVE  /\ ReqType(req) /\ Opened /\ Collected /\ IterType /\ IterInv /\ req # NoReq /\ iter # NoIter
           /\ lookup = NoLookup /\ ~req.answered
           /\ req.out # Null /\ req.out \in Seq(Nat \X Nat)
           /\ Ask.field = "gasPrice" => req.latest < Saved
  <1>1. /\ ReqType(req) /\ Opened /\ Collected /\ IterType /\ IterInv /\ req # NoReq /\ iter # NoIter
        /\ lookup = NoLookup /\ ~req.answered
        /\ Ask.field = "gasPrice" => req.latest < Saved
    BY DEF QueriesInv, ReqInv, IterInv, Looping
  <1>2. req.out # Null /\ req.out \in Seq(Nat \X Nat)
    BY <1>1 DEF Collected
  <1> QED
    BY <1>1, <1>2

LEMMA OpenedSame ==
    ASSUME Opened, req'.id = req.id, req'.latest = req.latest, asOf' = asOf, Same
    PROVE  Opened' /\ Ask' = Ask /\ \A k : Position(k)' = Position(k) /\ \A p, q : Follows(p, q)' <=> Follows(p, q)
  <1>1. Ask' = Ask
    BY DEF Ask
  <1>2. Opened'
    BY <1>1 DEF Opened, OverBlocks, OverTxs, Same
  <1>3. \A k : Position(k)' = Position(k)
    BY DEF Position, Same
  <1>4. \A p, q : Follows(p, q)' <=> Follows(p, q)
    BY DEF Follows, Same
  <1> QED
    BY <1>1, <1>2, <1>3, <1>4

\* The loop ends early.
LEMMA ReqStops ==
    ASSUME QueriesInv, StopAtLimit \/ IterFails \/ ElementFails
    PROVE  ReqInv'
  <1>1. /\ ReqType(req) /\ Opened /\ Collected /\ req # NoReq /\ iter # NoIter /\ lookup = NoLookup
        /\ req.out # Null
    BY LoopFacts DEF StopAtLimit, IterFails, ElementFails
  <1>2. iter' = iter /\ asOf' = asOf /\ lookup' = lookup
    BY DEF StopAtLimit, IterFails, ElementFails, vars
  <1>3. /\ ReqType(req') /\ req'.id = req.id /\ req'.latest = req.latest /\ req'.answered
        /\ req'.out = req.out \/ (req'.out = Null /\ req'.fault)
        /\ req'.error \/ req'.fault
    <2>1. CASE StopAtLimit
      <3>1. req' = [req EXCEPT !.out = req.out, !.error = TRUE, !.answered = TRUE]
        BY <2>1 DEF StopAtLimit, Respond
      <3> QED
        BY <1>1, <3>1 DEF ReqType
    <2>2. CASE IterFails
      <3>1. PICK out \in {req.out, Null}, error \in BOOLEAN :
                req' = [req EXCEPT !.out = out, !.error = error, !.answered = TRUE, !.fault = TRUE]
        BY <2>2 DEF IterFails, IsGas
      <3> QED
        BY <1>1, <3>1 DEF ReqType
    <2>3. CASE ElementFails
      <3>1. PICK out \in {req.out, Null}, error \in BOOLEAN :
                req' = [req EXCEPT !.out = out, !.error = error, !.answered = TRUE, !.fault = TRUE]
        BY <2>3 DEF ElementFails, IsGas
      <3> QED
        BY <1>1, <3>1 DEF ReqType
    <2> QED
      BY <2>1, <2>2, <2>3
  <1>4. Opened' /\ Ask' = Ask /\ \A k : Position(k)' = Position(k)
    BY <1>1, <1>2, <1>3, OpenedSame DEF Same
  <1>5. Collected'
    BY <1>1, <1>2, <1>3, <1>4 DEF Collected, Follows
  <1>6. req' # NoReq
    BY <1>3, ReqIsNotNoReq
  <1> QED
    BY <1>1, <1>2, <1>3, <1>4, <1>5, <1>6 DEF ReqInv

\* What the iterator returned, by position: it precedes all that is to come.
LEMMA GotPrecedes ==
    ASSUME IterInv, iter # NoIter, NEW j \in ToSet(iter.got), NEW k \in Awaited
    PROVE  Follows(Position(j), Position(k))
  <1>1. /\ IterType /\ ToSet(iter.got) \cup Awaited = ToReturn
        /\ \A n \in DOMAIN iter.got : \A m \in Awaited : Precedes(iter.got[n], m)
    BY DEF IterInv
  <1>2. Precedes(j, k)
    BY <1>1 DEF ToSet
  <1>3. j \in SavedKeys /\ k \in SavedKeys
    BY <1>1 DEF ToReturn, Between
  <1> QED
    BY <1>1, <1>2, <1>3, PrecedesIsFollows

\* An element is collected.
LEMMA CollectedGrows ==
    ASSUME QueriesInv, Looping, NEW k \in Awaited, Selects(Ask, Position(k)), Same, req'.id = req.id,
           iter'.got = Append(iter.got, k), ~req'.answered, req'.out = Append(req.out, Position(k))
    PROVE  Collected'
  <1> DEFINE p == Position(k)
             out == Append(req.out, p)
             l == Len(req.out)
             P == {Position(j) : j \in ToSet(iter.got)}
  <1>0. /\ req.out \in Seq(Nat \X Nat) /\ IterType /\ IterInv /\ iter # NoIter
        /\ ToSet(req.out) = {q \in P : Selects(Ask, q)}
        /\ \A m, n \in DOMAIN req.out : m < n => Follows(req.out[m], req.out[n])
    BY LoopFacts DEF Collected
  <1>1. k \in SavedKeys /\ k \in Seq(Byte) /\ iter.got \in Seq(Seq(Byte))
    BY <1>0 DEF IterInv, IterType, Awaited, ToReturn, Between
  <1>2. p \in Nat \X Nat
    BY <1>0, <1>1, PositionType
  <1>3. Ask' = Ask /\ (\A j : Position(j)' = Position(j)) /\ (\A a, b : Follows(a, b)' <=> Follows(a, b))
    BY DEF Ask, Position, Follows, Same
  <1>4. ToSet(iter'.got) = ToSet(iter.got) \cup {k}
    BY <1>1, ToSetAppend
  <1>5. {Position(j) : j \in ToSet(iter'.got)} = P \cup {p}
    BY <1>4
  <1>6. /\ l \in Nat /\ DOMAIN req.out = 1 .. l /\ DOMAIN out = 1 .. l + 1 /\ out[l + 1] = p
        /\ \A m \in 1 .. l : out[m] = req.out[m]
        /\ out \in Seq(Nat \X Nat)
    BY <1>0, <1>2, AppendAt
  <1>7. ToSet(out) = ToSet(req.out) \cup {p}
    <2> HIDE DEF p
    <2> QED
      BY <1>0, <1>2, ToSetAppend
  <1>8. \A m \in 1 .. l : Follows(req.out[m], p)
    <2>1. ASSUME NEW m \in 1 .. l PROVE Follows(req.out[m], p)
      <3>1. req.out[m] \in ToSet(req.out)
        BY <1>6 DEF ToSet
      <3>2. PICK j \in ToSet(iter.got) : req.out[m] = Position(j)
        BY <1>0, <3>1
      <3> QED
        BY <1>0, <3>2, GotPrecedes
    <2> QED
      BY <2>1
  <1> HIDE DEF p, out, l, P
  <1>9. ToSet(out) = {q \in P \cup {p} : Selects(Ask, q)}
    BY <1>0, <1>7 DEF p
  <1>10. ASSUME NEW m \in DOMAIN out, NEW n \in DOMAIN out, m < n PROVE Follows(out[m], out[n])
    <2>1. m \in 1 .. l
      BY <1>6, <1>10
    <2>2. CASE n \in 1 .. l
      BY <1>0, <1>6, <1>10, <2>1, <2>2
    <2>3. CASE n = l + 1
      BY <1>6, <1>8, <2>1, <2>3
    <2> QED
      BY <1>6, <2>2, <2>3
  <1>11. out # Null
    BY <1>6, QueriesAssumption
  <1>12. req'.out = out
    BY DEF out, p
  <1>13. (ToSet(req.out) = {q \in {Position(j) : j \in ToSet(iter.got)} : Selects(Ask, q)})'
    BY <1>3, <1>5, <1>9, <1>12
  <1>14. (\A m, n \in DOMAIN req.out : m < n => Follows(req.out[m], req.out[n]))'
    BY <1>10, <1>12 DEF Follows, Same
  <1> QED
    BY <1>6, <1>11, <1>12, <1>13, <1>14 DEF Collected

LEMMA ReqNextElement ==
    ASSUME QueriesInv, NextElement
    PROVE  ReqInv'
  <1>0. /\ ReqType(req) /\ Opened /\ Collected /\ IterType /\ IterInv /\ req # NoReq /\ iter # NoIter
        /\ lookup = NoLookup /\ ~req.answered /\ req.out # Null /\ req.out \in Seq(Nat \X Nat)
        /\ Ask.field = "gasPrice" => req.latest < Saved
    BY LoopFacts DEF NextElement
  <1>1. Same /\ iter' # NoIter /\ asOf' = asOf /\ lookup' = NoLookup /\ Saved' = Saved
    BY <1>0, IterNextCases, SavedUnchanged DEF NextElement, IterNext
  <1>2. CASE iter'.done = TRUE /\ iter'.got = iter.got
    <2>1. req' = [req EXCEPT !.out = req.out, !.error = FALSE, !.answered = TRUE]
      BY <1>2 DEF NextElement, Respond
    <2>2. /\ ReqType(req') /\ req'.id = req.id /\ req'.latest = req.latest /\ req'.answered
          /\ req'.out = req.out
      BY <1>0, <2>1 DEF ReqType
    <2>3. Opened' /\ Ask' = Ask /\ \A k : Position(k)' = Position(k)
      BY <1>0, <1>1, <2>2, OpenedSame
    <2>4. Collected'
      BY <1>0, <1>1, <1>2, <2>2, <2>3 DEF Collected, Follows, Same
    <2>5. req' # NoReq
      BY <2>2, ReqIsNotNoReq
    <2> QED
      BY <1>1, <2>2, <2>4, <2>3, <2>5 DEF ReqInv
  <1>3. ASSUME NEW k \in Awaited, iter'.done = FALSE, iter'.got = Append(iter.got, k) PROVE ReqInv'
    <2>1. iter.got \in Seq(Seq(Byte)) /\ k \in Seq(Byte)
      BY <1>0 DEF IterType, Awaited
    <2>2. Last(iter'.got) = k
      BY <1>3, <2>1, AppendAt DEF Last
    <2>3. req' = [req EXCEPT !.out = IF Selects(Ask, Position(k)) THEN Append(req.out, Position(k)) ELSE req.out]
      BY <1>3, <2>2 DEF NextElement
    <2>4. /\ ReqType(req') /\ req'.id = req.id /\ req'.latest = req.latest /\ ~req'.answered
          /\ req'.out = IF Selects(Ask, Position(k)) THEN Append(req.out, Position(k)) ELSE req.out
      BY <1>0, <2>3 DEF ReqType
    <2>5. Opened' /\ Ask' = Ask /\ \A j : Position(j)' = Position(j)
      BY <1>0, <1>1, <2>4, OpenedSame
    <2>6. Collected'
      <3>1. CASE Selects(Ask, Position(k))
        BY <1>1, <1>3, <2>4, <3>1, CollectedGrows DEF NextElement
      <3>2. CASE ~Selects(Ask, Position(k))
        <4>1. ToSet(iter'.got) = ToSet(iter.got) \cup {k}
          BY <1>3, <2>1, ToSetAppend
        <4>2. /\ ToSet(req.out) = {q \in {Position(j) : j \in ToSet(iter.got)} : Selects(Ask, q)}
              /\ \A m, n \in DOMAIN req.out : m < n => Follows(req.out[m], req.out[n])
          BY <1>0 DEF Collected
        <4>3. {q \in {Position(j) : j \in ToSet(iter'.got)} : Selects(Ask, q)}
                  = {q \in {Position(j) : j \in ToSet(iter.got)} : Selects(Ask, q)}
          BY <3>2, <4>1
        <4>4. req'.out = req.out
          BY <2>4, <3>2
        <4>5. (ToSet(req.out) = {q \in {Position(j) : j \in ToSet(iter.got)} : Selects(Ask, q)})'
          BY <2>5, <4>2, <4>3, <4>4
        <4>6. (\A m, n \in DOMAIN req.out : m < n => Follows(req.out[m], req.out[n]))'
          BY <1>1, <4>2, <4>4 DEF Follows, Same
        <4> QED
          BY <1>0, <2>4, <4>4, <4>5, <4>6 DEF Collected
      <3> QED
        BY <3>1, <3>2
    <2>7. req' # NoReq
      BY <2>4, ReqIsNotNoReq
    <2> QED
      BY <1>0, <1>1, <2>4, <2>5, <2>6, <2>7 DEF ReqInv
  <1> QED
    BY <1>0, <1>2, <1>3, IterNextCases DEF NextElement

LEMMA ReqOpenGasPrice ==
    ASSUME QueriesInv, OpenGasPrice
    PROVE  ReqInv'
  <1>1. /\ req' = req /\ req # NoReq /\ Ask.field = "gasPrice" /\ ~req.answered
        /\ OpenBlocks("forward", DefaultFrom(req.latest), req.latest)
    BY DEF OpenGasPrice
  <1>2. /\ iter'.kind = "blocks" /\ iter'.dir = "forward" /\ iter'.from = DefaultFrom(req.latest) /\ iter'.to = req.latest
        /\ iter'.toIndex = 0 /\ iter'.got = <<>> /\ iter = NoIter /\ asOf' = Saved /\ UNCHANGED <<db, lookup>>
    BY <1>1 DEF OpenBlocks
  <1>3. iter' # NoIter
    BY <1>2 DEF NoIter
  <1>4. ReqType(req) /\ req.latest < Saved /\ req.out = <<>> /\ ~ByHash(Ask)
    BY <1>1, <1>2 DEF QueriesInv, ReqInv, ByHash
  <1>5. lookup' = NoLookup /\ Saved' = Saved /\ Ask' = Ask
    BY <1>1, <1>2, <1>4, SavedUnchanged DEF QueriesInv, ReqInv, Ask
  <1>6. Opened'
    BY <1>1, <1>2, <1>4, <1>5 DEF Opened, OverBlocks
  <1> QED
    BY <1>1, <1>2, <1>3, <1>4, <1>5, <1>6, ReqStarts

LEMMA ReqFindTx ==
    ASSUME QueriesInv, FindTx
    PROVE  ReqInv'
  <1>1. ReqType(req) /\ iter = NoIter /\ ByHash(Ask)
    BY DEF QueriesInv, ReqInv, FindTx
  <1>2. iter' = NoIter /\ lookup' = NoLookup
    BY <1>1 DEF FindTx, LookupTx
  <1>3. PICK data : req' = [req EXCEPT !.out = data, !.error = FALSE, !.answered = TRUE]
    BY DEF FindTx, Respond
  <1>4. ReqType(req') /\ req'.id = req.id
    BY <1>1, <1>3 DEF ReqType
  <1>5. req' # NoReq
    BY <1>4, ReqIsNotNoReq
  <1>6. Ask' = Ask /\ Ask.field # "gasPrice"
    BY <1>1, <1>4 DEF Ask, ByHash
  <1> QED
    BY <1>2, <1>4, <1>5, <1>6 DEF ReqInv

LEMMA ReqClose ==
    ASSUME QueriesInv, Close
    PROVE  ReqInv'
  <1>1. lookup = NoLookup /\ req' = NoReq
    BY DEF QueriesInv, ReqInv, Close
  <1>2. iter' = NoIter /\ lookup' = NoLookup
    BY <1>1 DEF Close, CloseIter, vars
  <1> QED
    BY <1>1, <1>2 DEF ReqInv

LEMMA QueriesStep ==
    ASSUME QueriesInv, [QNext]_queryVars
    PROVE  QueriesInv'
  <1>1. IndexInv' /\ StoreInv' /\ IterInv'
    BY QueriesAct, StoreKeeps DEF QueriesInv
  <1>2. Saved \in Nat /\ Saved' \in Nat /\ Saved <= Saved'
    BY QueriesAct, SavedGrows DEF QueriesInv
  <1>3. CASE UNCHANGED queryVars \/ (Writer /\ UNCHANGED req)
    <2>1. req' = req /\ iter' = iter /\ asOf' = asOf /\ lookup' = lookup
      BY <1>3 DEF queryVars, Writer, SetBlock, SetTx, SetLatestHeight, Commit, Rollback
    <2> QED
      BY <1>1, <1>2, <2>1, ReqUnchanged DEF QueriesInv
  <1>4. CASE \E id \in DOMAIN Requests : Request(id)
    BY <1>1, <1>4, ReqRequest DEF QueriesInv
  <1>5. CASE OpenGasPrice
    BY <1>1, <1>5, ReqOpenGasPrice DEF QueriesInv
  <1>6. CASE StopAtLimit \/ IterFails \/ ElementFails
    BY <1>1, <1>6, ReqStops DEF QueriesInv
  <1>7. CASE NextElement
    BY <1>1, <1>7, ReqNextElement DEF QueriesInv
  <1>8. CASE FindTx
    BY <1>1, <1>8, ReqFindTx DEF QueriesInv
  <1>9. CASE Close
    BY <1>1, <1>9, ReqClose DEF QueriesInv
  <1> QED
    BY <1>3, <1>4, <1>5, <1>6, <1>7, <1>8, <1>9 DEF QNext

LEMMA QueriesInit == ASSUME QInit PROVE QueriesInv
  <1>1. IndexInv /\ StoreInv
    BY IndexInit, StoreInit DEF QInit
  <1>2. IterInv /\ ReqInv
    BY DEF QInit, Init, IterInv, ReqInv
  <1> QED
    BY <1>1, <1>2 DEF QueriesInv

\* While queries are served, the iterators they open, over any bounds, return what
\* was asked for, and the hash index does not dangle.
THEOREM QueriesKeepTheStore == QSpec => [](IterReturnsAsked /\ IndexPointsToTx)
  <1>1. QueriesInv => IterReturnsAsked /\ IndexPointsToTx
    BY IterImplies, IndexImplies DEF QueriesInv
  <1> QED
    BY QueriesInit, QueriesStep, <1>1, PTL DEF QSpec

-----------------------------------------------------------------------------
(* What the iterators return, by position. *)

\* A number of some bytes has at least Base values.
LEMMA WidthValues == MaxUint32 >= 3 /\ MaxInt64 + 1 < MaxUint64
  <1>1. ASSUME NEW w \in Nat \ {0} PROVE Power[w] \in Nat /\ Power[w] >= 4
    <2>1. w - 1 \in Nat /\ (w - 1) + 1 = w
      OBVIOUS
    <2>2. Power[w - 1] \in Nat \ {0} /\ Power[w] = Base * Power[w - 1] /\ Power[w] \in Nat
      BY <2>1, PowerDef
    <2>3. ASSUME NEW m \in Nat \ {0}, NEW b \in Nat, b >= 4 PROVE b * m >= 4
      <3>1. b * m >= 4 * m
        BY <2>3
      <3> QED
        BY <3>1
    <2> QED
      BY <2>2, <2>3, KeysAssumption
  <1>2. /\ Power[IndexBytes] \in Nat /\ Power[IndexBytes] >= 4
        /\ Power[HeightBytes] \in Nat /\ Power[HeightBytes] >= 4
    BY <1>1, KeysAssumption
  <1>3. ASSUME NEW n \in Nat, n >= 4 PROVE ((n \div 2) - 1) + 1 < n - 1
    BY <1>3
  <1> QED
    BY <1>2, <1>3 DEF MaxUint32, MaxUint64, MaxInt64

LEMMA BlockPositions ==
    ASSUME IterType, ~Overflows, iter.kind = "blocks"
    PROVE  {Position(k) : k \in ToReturn} = {p \in Saves(asOf) : InBlocks(p[1])}
  <1>1. asOf \in 0 .. Len(Chain) /\ 0 \in TxIndexes
    BY IterNumbers
  <1>2. ASSUME NEW h \in 0 .. asOf - 1 PROVE Position(KeyBlock(h)) = <<h, 0>>
    <2>1. h \in Heights
      BY <1>1, SavedNumbers
    <2> QED
      BY <1>1, <2>1, KeyNumbers DEF Position
  <1>3. ToReturn = {KeyBlock(h) : h \in {h \in 0 .. asOf - 1 : InBlocks(h)}}
    BY ReturnsBlocks DEF AskedBlocks
  <1>4. ASSUME NEW k \in ToReturn PROVE Position(k) \in {p \in Saves(asOf) : InBlocks(p[1])}
    <2>1. PICK h \in 0 .. asOf - 1 : InBlocks(h) /\ k = KeyBlock(h)
      BY <1>3
    <2>2. Position(k) = <<h, 0>>
      BY <1>2, <2>1
    <2>3. <<h, 0>> \in Saves(asOf) /\ <<h, 0>>[1] = h
      BY DEF Saves
    <2> QED
      BY <2>1, <2>2, <2>3
  <1>5. ASSUME NEW p \in Saves(asOf), InBlocks(p[1]) PROVE \E k \in ToReturn : p = Position(k)
    <2>1. PICK h \in 0 .. asOf - 1 : p = <<h, 0>>
      BY DEF Saves
    <2>2. InBlocks(h)
      BY <1>5, <2>1
    <2>3. KeyBlock(h) \in ToReturn
      BY <1>3, <2>2
    <2> QED
      BY <1>2, <2>1, <2>3
  <1> QED
    BY <1>4, <1>5

\* The engine stops one block after the last.
InTxs(h, i) == InIndexes(i) /\ iter.from <= h /\ (iter.to = 0 \/ h <= iter.to + 1)

LEMMA TxPositions ==
    ASSUME IterType, ~Overflows, iter.kind = "txs"
    PROVE  {Position(k) : k \in ToReturn} = {p \in SavesTxs(asOf) : InTxs(p[1], p[2])}
  <1>1. asOf \in 0 .. Len(Chain)
    BY IterNumbers
  <1>2. ASSUME NEW h \in 0 .. asOf - 1, NEW i \in 0 .. Len(Chain[h + 1]) - 1
        PROVE  Position(KeyTx(h, i)) = <<h, i>> /\ (KeyTx(h, i) \in ToReturn <=> InTxs(h, i))
    <2>1. h \in Heights /\ i \in TxIndexes
      BY <1>1, SavedNumbers
    <2>2. Position(KeyTx(h, i)) = <<h, i>>
      BY <2>1, KeyNumbers DEF Position
    <2> QED
      BY <2>2, ReturnsTxNumbers DEF InTxs
  <1>3. ASSUME NEW k \in ToReturn PROVE Position(k) \in {p \in SavesTxs(asOf) : InTxs(p[1], p[2])}
    <2>1. PICK h \in 0 .. asOf - 1 : \E i \in 0 .. Len(Chain[h + 1]) - 1 : k = KeyTx(h, i)
      BY ReturnsTxNumbers
    <2>2. PICK i \in 0 .. Len(Chain[h + 1]) - 1 : k = KeyTx(h, i)
      BY <2>1
    <2>3. Position(k) = <<h, i>> /\ InTxs(h, i)
      BY <1>2, <2>2
    <2>4. <<h, i>> \in SavesTxs(asOf) /\ <<h, i>>[1] = h /\ <<h, i>>[2] = i
      BY DEF SavesTxs
    <2> QED
      BY <2>3, <2>4
  <1>4. ASSUME NEW p \in SavesTxs(asOf), InTxs(p[1], p[2]) PROVE \E k \in ToReturn : p = Position(k)
    <2>1. PICK h \in 0 .. asOf - 1 : p \in {<<h, i>> : i \in 0 .. Len(Chain[h + 1]) - 1}
      BY DEF SavesTxs
    <2>2. PICK i \in 0 .. Len(Chain[h + 1]) - 1 : p = <<h, i>>
      BY <2>1
    <2>3. InTxs(h, i)
      BY <1>4, <2>2
    <2>4. KeyTx(h, i) \in ToReturn
      BY <1>2, <2>3
    <2> QED
      BY <1>2, <2>2, <2>4
  <1> QED
    BY <1>3, <1>4

\* What there is to return after the last element.
LEMMA DoneReturns ==
    ASSUME IterInv, iter # NoIter
    PROVE  /\ IterType /\ ToSet(iter.got) \subseteq ToReturn /\ ToReturn \subseteq ToSet(iter.got) \cup Awaited
           /\ iter.done => ToSet(iter.got) = ToReturn
  <1>1. /\ IterType /\ ToSet(iter.got) \cup Awaited = ToReturn
        /\ iter.done => iter.left = {}
    BY DEF IterInv
  <1>2. iter.done => Awaited = {}
    BY <1>1 DEF Awaited
  <1> QED
    BY <1>1, <1>2

-----------------------------------------------------------------------------
(* The blocks a gas price is of. *)

LEMMA GasWindow ==
    ASSUME QueriesInv
    PROVE  GasWindowIsFull
  <1> SUFFICES ASSUME req # NoReq, Ask.field = "gasPrice", req.answered, ~req.error, ~req.fault
               PROVE  ToSet(req.out) =
                          {p \in Saves(IF req.latest = 0 THEN asOf ELSE req.latest + 1) : p[1] >= req.latest - BlockRangeSize}
    BY DEF GasWindowIsFull
  <1> DEFINE latest == req.latest
  <1>1. iter # NoIter /\ Opened /\ Collected /\ ReqType(req) /\ IterInv
    BY DEF QueriesInv, ReqInv
  <1>2. /\ iter.kind = "blocks" /\ iter.from = DefaultFrom(latest) /\ iter.to = latest /\ latest < asOf /\ latest \in Nat
    BY <1>1 DEF Opened, OverBlocks, ReqType
  <1>3. IterType /\ ToSet(iter.got) = ToReturn
    BY <1>1, DoneReturns DEF Collected
  <1>4. ToSet(req.out) = {Position(k) : k \in ToReturn}
    <2>1. \A p : Selects(Ask, p)
      BY DEF Selects
    <2>2. ToSet(req.out) = {p \in {Position(k) : k \in ToSet(iter.got)} : Selects(Ask, p)}
      BY <1>1 DEF Collected
    <2> QED
      BY <1>3, <2>1, <2>2
  <1>5. asOf \in Nat /\ asOf < MaxInt64 /\ MaxInt64 \in Nat /\ MaxUint64 \in Nat /\ MaxInt64 <= MaxUint64 /\ MaxUint32 \in Nat
    BY <1>3, IterNumbers, ChainType, UpperType, StorageAssumption
  <1>6. iter.toIndex = 0 /\ MaxUint32 # 0
    BY <1>1, WidthValues DEF Opened, OverBlocks
  <1>7. ~Overflows
    BY <1>2, <1>5, <1>6 DEF Overflows
  <1>8. ToSet(req.out) = {p \in Saves(asOf) : InBlocks(p[1])}
    BY <1>2, <1>3, <1>4, <1>7, BlockPositions
  <1>9. BlockRangeSize \in Nat
    BY QueriesAssumption
  <1> QED
    BY <1>2, <1>5, <1>8, <1>9 DEF InBlocks, Saves, DefaultFrom

\* The gas prices asked for without a range are those of all the last blocks.
THEOREM GasPricesOfLastBlocks == QSpec => []GasWindowIsFull
  BY QueriesInit, QueriesStep, GasWindow, PTL DEF QSpec

-----------------------------------------------------------------------------
(* The answers. *)

\* A query over an iterator that its answer is about.
Plainly == req # NoReq /\ iter # NoIter /\ Ask.field # "gasPrice" /\ Plain(Ask.filter)

LEMMA PlainFacts ==
    ASSUME QueriesInv, Plainly
    PROVE  /\ ReqType(req) /\ Opened /\ Collected /\ IterInv /\ IterType
           /\ Ask = Requests[req.id] /\ req.id \in DOMAIN Requests /\ Plain(Ask.filter)
           /\ Ask.field \in {"blocks", "getBlocks", "transactions", "getTransactions", "gasRange"}
           /\ MaxInt64 \in Nat /\ MaxUint32 \in Nat /\ MaxUint64 \in Nat /\ MaxInt64 + 1 < MaxUint64 /\ MaxUint32 >= 3
           /\ asOf \in 0 .. Len(Chain) /\ Len(Chain) \in Nat
  <1>1. ReqType(req) /\ Opened /\ Collected /\ IterInv /\ IterType
    BY DEF Plainly, QueriesInv, ReqInv, IterInv
  <1>2. Ask = Requests[req.id] /\ req.id \in DOMAIN Requests
    BY <1>1 DEF Ask, ReqType
  <1>3. Ask.field \in {"blocks", "getBlocks", "transactions", "getTransactions", "gasRange"}
    BY <1>1 DEF Plainly, Opened
  <1> QED
    BY <1>1, <1>2, <1>3, UpperType, WidthValues, ChainType DEF Plainly, IterType

\* An older bound that fits its type is the one the iterator gets.
LEMMA GivenFits ==
    ASSUME NEW f, NEW k, NEW S \in SUBSET Nat, NEW max \in Nat, S \subseteq 0 .. max, 0 \in S, k \in DOMAIN f => f[k] \in S
    PROVE  Deref(f, k, 0) \in S /\ ToUint(Deref(f, k, 0), max) = Deref(f, k, 0)
  <1>1. Deref(f, k, 0) \in S
    BY DEF Deref, IsSet
  <1>2. Deref(f, k, 0) \in 0 .. max
    BY <1>1
  <1> QED
    BY <1>1, <1>2, ToUintType

LEMMA WantedOldBlocks ==
    ASSUME QueriesInv, Plainly, Ask.field \in {"blocks", "gasRange"}
    PROVE  Wanted(Ask) = {p \in {Position(k) : k \in ToReturn} : Selects(Ask, p)}
  <1> DEFINE f == Ask.filter
             from == Deref(f, "from_height", 0)
             to == Deref(f, "to_height", 0)
  <1>1. /\ Opened /\ IterType /\ Ask = Requests[req.id] /\ req.id \in DOMAIN Requests /\ Plain(Ask.filter)
        /\ MaxInt64 \in Nat /\ MaxUint32 \in Nat /\ MaxUint64 \in Nat /\ MaxInt64 + 1 < MaxUint64 /\ MaxUint32 >= 3
    BY PlainFacts
  <1>2. \A k \in DOMAIN f \cap HeightFields : f[k] \in 0 .. MaxInt64
    BY <1>1, PlainAssumption
  <1>3. "from_height" \in HeightFields /\ "to_height" \in HeightFields
    BY DEF HeightFields
  <1>4. /\ from \in 0 .. MaxInt64 /\ ToUint(from, MaxUint64) = from
        /\ to \in 0 .. MaxInt64 /\ ToUint(to, MaxUint64) = to
    <2> DEFINE S == 0 .. MaxInt64
    <2>1. S \in SUBSET Nat /\ S \subseteq 0 .. MaxUint64 /\ 0 \in S
      BY <1>1
    <2>2. \A k \in DOMAIN f \cap HeightFields : f[k] \in S
      BY <1>2
    <2> HIDE DEF S
    <2>3. from \in S /\ ToUint(from, MaxUint64) = from
      BY <1>1, <1>3, <2>1, <2>2, GivenFits
    <2>4. to \in S /\ ToUint(to, MaxUint64) = to
      BY <1>1, <1>3, <2>1, <2>2, GivenFits
    <2> QED
      BY <2>3, <2>4 DEF S
  <1>5. iter.kind = "blocks" /\ iter.from = from /\ iter.to = to /\ iter.toIndex = 0
    <2>1. CASE Ask.field = "blocks"
      BY <1>1, <1>4, <2>1 DEF Opened, OverBlocks
    <2>2. CASE Ask.field = "gasRange"
      <3>1. iter.kind = "blocks" /\ iter.from = f.from_height /\ iter.to = f.to_height /\ iter.toIndex = 0
        BY <1>1, <2>2 DEF Opened, OverBlocks
      <3>2. {"from_height", "to_height"} \subseteq DOMAIN f
        BY <1>1, <2>2, RequestsAssumption
      <3> QED
        BY <3>1, <3>2 DEF Deref, IsSet
    <2> QED
      BY <2>1, <2>2
  <1>6. ~Overflows
    BY <1>1, <1>4, <1>5 DEF Overflows
  <1>7. {Position(k) : k \in ToReturn} = {p \in Saves(asOf) : InBlocks(p[1])}
    BY <1>1, <1>5, <1>6, BlockPositions
  <1>8. Wanted(Ask) = {p \in Saves(asOf) : Selects(Ask, p) /\ p[1] >= from /\ (to = 0 \/ p[1] <= to)}
    BY DEF Wanted
  <1>9. ASSUME NEW p \in Saves(asOf) PROVE InBlocks(p[1]) <=> p[1] >= from /\ (to = 0 \/ p[1] <= to)
    <2>1. p[1] \in Nat
      BY <1>1, IterNumbers, ChainType DEF Saves
    <2> HIDE DEF from, to
    <2> QED
      BY <1>4, <1>5, <2>1 DEF InBlocks
  <1> HIDE DEF from, to
  <1> QED
    BY <1>7, <1>8, <1>9

LEMMA WantedOldTxs ==
    ASSUME QueriesInv, Plainly, Ask.field = "transactions"
    PROVE  Wanted(Ask) = {p \in {Position(k) : k \in ToReturn} : Selects(Ask, p)}
  <1> DEFINE f == Ask.filter
             from == Deref(f, "from_block_height", 0)
             to == Deref(f, "to_block_height", 0)
             fromIndex == Deref(f, "from_index", 0)
             toIndex == Deref(f, "to_index", 0)
             in(h, i) == /\ h >= from /\ (to = 0 \/ h - 1 <= to)
                         /\ i >= fromIndex /\ (toIndex = 0 \/ i <= toIndex)
  <1>1. /\ Opened /\ IterType /\ Ask = Requests[req.id] /\ req.id \in DOMAIN Requests /\ Plain(Ask.filter)
        /\ MaxInt64 \in Nat /\ MaxUint32 \in Nat /\ MaxUint64 \in Nat /\ MaxInt64 + 1 < MaxUint64 /\ MaxUint32 >= 3
    BY PlainFacts
  <1>2. /\ \A k \in DOMAIN f \cap HeightFields : f[k] \in 0 .. MaxInt64
        /\ \A k \in DOMAIN f \cap IndexFields : f[k] \in 0 .. MaxUint32 - 2
    BY <1>1, PlainAssumption
  <1>3. /\ "from_block_height" \in HeightFields /\ "to_block_height" \in HeightFields
        /\ "from_index" \in IndexFields /\ "to_index" \in IndexFields
    BY DEF HeightFields, IndexFields
  <1>4. /\ from \in 0 .. MaxInt64 /\ ToUint(from, MaxUint64) = from
        /\ to \in 0 .. MaxInt64 /\ ToUint(to, MaxUint64) = to
    <2> DEFINE S == 0 .. MaxInt64
    <2>1. S \in SUBSET Nat /\ S \subseteq 0 .. MaxUint64 /\ 0 \in S
      BY <1>1
    <2>2. \A k \in DOMAIN f \cap HeightFields : f[k] \in S
      BY <1>2
    <2> HIDE DEF S
    <2>3. from \in S /\ ToUint(from, MaxUint64) = from
      BY <1>1, <1>3, <2>1, <2>2, GivenFits
    <2>4. to \in S /\ ToUint(to, MaxUint64) = to
      BY <1>1, <1>3, <2>1, <2>2, GivenFits
    <2> QED
      BY <2>3, <2>4 DEF S
  <1>5. /\ fromIndex \in 0 .. MaxUint32 - 2 /\ ToUint(fromIndex, MaxUint32) = fromIndex
        /\ toIndex \in 0 .. MaxUint32 - 2 /\ ToUint(toIndex, MaxUint32) = toIndex
    <2> DEFINE S == 0 .. MaxUint32 - 2
    <2>1. S \in SUBSET Nat /\ S \subseteq 0 .. MaxUint32 /\ 0 \in S
      BY <1>1
    <2>2. \A k \in DOMAIN f \cap IndexFields : f[k] \in S
      BY <1>2
    <2> HIDE DEF S
    <2>3. fromIndex \in S /\ ToUint(fromIndex, MaxUint32) = fromIndex
      BY <1>1, <1>3, <2>1, <2>2, GivenFits
    <2>4. toIndex \in S /\ ToUint(toIndex, MaxUint32) = toIndex
      BY <1>1, <1>3, <2>1, <2>2, GivenFits
    <2> QED
      BY <2>3, <2>4 DEF S
  <1>6. iter.kind = "txs" /\ iter.from = from /\ iter.to = to /\ iter.fromIndex = fromIndex /\ iter.toIndex = toIndex
    BY <1>1, <1>4, <1>5 DEF Opened, OverTxs
  <1>7. Wanted(Ask) = {p \in SavesTxs(asOf) : Selects(Ask, p) /\ in(p[1], p[2])}
    BY DEF Wanted
  <1> HIDE DEF from, to, fromIndex, toIndex
  <1>8. ~Overflows
    BY <1>1, <1>4, <1>5, <1>6 DEF Overflows
  <1>9. {Position(k) : k \in ToReturn} = {p \in SavesTxs(asOf) : InTxs(p[1], p[2])}
    BY <1>1, <1>6, <1>8, TxPositions
  <1>10. ASSUME NEW h \in Nat, NEW i \in Nat PROVE InTxs(h, i) <=> in(h, i)
    BY <1>4, <1>5, <1>6 DEF InTxs, InIndexes
  <1>11. \A p \in SavesTxs(asOf) : p[1] \in Nat /\ p[2] \in Nat
    BY DEF SavesTxs
  <1> HIDE DEF in
  <1> QED
    BY <1>7, <1>9, <1>10, <1>11

\* The bounds a where argument implies, as the iterator gets them: they leave out
\* nothing that is within them, and their successors fit the type.
LEMMA BoundsFit ==
    ASSUME NEW bounds, NEW top \in Nat, NEW max \in Nat, top + 1 < max, Pointers(bounds, 0 .. top)
    PROVE  /\ From(bounds, max) \in Nat /\ UpTo(bounds, max) \in Nat /\ UpTo(bounds, max) < max
           /\ \A n \in Nat : Admit(bounds, n) =>
                  From(bounds, max) <= n /\ (UpTo(bounds, max) = 0 \/ n <= UpTo(bounds, max))
  <1> DEFINE min == Value(bounds.min)
             to == Value(bounds.max)
  <1>1. min \in 0 .. top /\ to \in 0 .. top
    BY DEF Pointers, Value
  <1>2. /\ bounds.min = Null => min = 0
        /\ bounds.min # Null => min = bounds.min.value
        /\ bounds.max = Null => to = 0
        /\ bounds.max # Null => to = bounds.max.value
    BY DEF Value
  <1>3. ToUint(min, max) = min /\ ToUint(to, max) = to /\ ToUint(to + 1, max) = to + 1
    <2>1. min \in 0 .. max /\ to \in 0 .. max /\ to + 1 \in 0 .. max
      BY <1>1
    <2> HIDE DEF min, to
    <2>2. min \in Int /\ to \in Int /\ to + 1 \in Int
      BY <2>1
    <2> QED
      BY <2>1, <2>2, ToUintType
  <1>4. /\ From(bounds, max) = min
        /\ UpTo(bounds, max) = IF bounds.max # Null /\ bounds.min = bounds.max THEN to + 1 ELSE to
    BY <1>3 DEF From, UpTo
  <1>5. ASSUME NEW n \in Nat, Admit(bounds, n) PROVE min <= n /\ (bounds.max # Null => n <= to)
    BY <1>1, <1>2, <1>5 DEF Admit
  <1> HIDE DEF min, to
  <1> QED
    BY <1>1, <1>2, <1>4, <1>5

LEMMA WantedBlocks ==
    ASSUME QueriesInv, Plainly, Ask.field = "getBlocks"
    PROVE  Wanted(Ask) = {p \in {Position(k) : k \in ToReturn} : Selects(Ask, p)}
  <1> DEFINE bounds == WhereMinMax(Ask.filter, "height")
             from == From(bounds, MaxUint64)
             to == UpTo(bounds, MaxUint64)
  <1>1. /\ Opened /\ IterType /\ Ask = Requests[req.id] /\ req.id \in DOMAIN Requests /\ Plain(Ask.filter)
        /\ MaxInt64 \in Nat /\ MaxUint32 \in Nat /\ MaxUint64 \in Nat /\ MaxInt64 + 1 < MaxUint64 /\ MaxUint32 >= 3
        /\ asOf \in 0 .. Len(Chain) /\ Len(Chain) \in Nat
    BY PlainFacts
  <1>2. /\ Pointers(bounds, 0 .. MaxInt64)
        /\ \A p \in Saves(Len(Chain)) : Selects(Ask, p) => Admit(bounds, p[1])
    BY <1>1, PlainAssumption
  <1>3. iter.kind = "blocks" /\ iter.from = from /\ iter.to = to /\ iter.toIndex = 0
    BY <1>1 DEF Opened, OverBlocks
  <1>4. Wanted(Ask) = {p \in Saves(asOf) : Selects(Ask, p)}
    BY DEF Wanted
  <1> HIDE DEF bounds
  <1>5. /\ from \in Nat /\ to \in Nat /\ to < MaxUint64
        /\ \A n \in Nat : Admit(bounds, n) => from <= n /\ (to = 0 \/ n <= to)
    BY <1>1, <1>2, BoundsFit
  <1> HIDE DEF from, to
  <1>6. ~Overflows
    BY <1>1, <1>3, <1>5 DEF Overflows
  <1>7. {Position(k) : k \in ToReturn} = {p \in Saves(asOf) : InBlocks(p[1])}
    BY <1>1, <1>3, <1>6, BlockPositions
  <1>8. ASSUME NEW p \in Saves(asOf), Selects(Ask, p) PROVE InBlocks(p[1])
    <2>1. p \in Saves(Len(Chain)) /\ p[1] \in Nat
      BY <1>1 DEF Saves
    <2>2. Admit(bounds, p[1])
      BY <1>2, <1>8, <2>1
    <2> QED
      BY <1>3, <1>5, <2>1, <2>2 DEF InBlocks
  <1> QED
    BY <1>4, <1>7, <1>8

LEMMA WantedTxs ==
    ASSUME QueriesInv, Plainly, Ask.field = "getTransactions"
    PROVE  Wanted(Ask) = {p \in {Position(k) : k \in ToReturn} : Selects(Ask, p)}
  <1> DEFINE heights == WhereMinMax(Ask.filter, "block_height")
             indexes == WhereMinMax(Ask.filter, "index")
             from == From(heights, MaxUint64)
             to == UpTo(heights, MaxUint64)
             fromIndex == From(indexes, MaxUint32)
             toIndex == UpTo(indexes, MaxUint32)
  <1>1. /\ Opened /\ IterType /\ Ask = Requests[req.id] /\ req.id \in DOMAIN Requests /\ Plain(Ask.filter)
        /\ MaxInt64 \in Nat /\ MaxUint32 \in Nat /\ MaxUint64 \in Nat /\ MaxInt64 + 1 < MaxUint64 /\ MaxUint32 >= 3
        /\ asOf \in 0 .. Len(Chain) /\ Len(Chain) \in Nat
    BY PlainFacts
  <1>2. /\ Pointers(heights, 0 .. MaxInt64) /\ Pointers(indexes, 0 .. MaxUint32 - 2)
        /\ \A p \in SavesTxs(Len(Chain)) : Selects(Ask, p) => Admit(heights, p[1]) /\ Admit(indexes, p[2])
    BY <1>1, PlainAssumption
  <1>3. iter.kind = "txs" /\ iter.from = from /\ iter.to = to /\ iter.fromIndex = fromIndex /\ iter.toIndex = toIndex
    BY <1>1 DEF Opened, OverTxs
  <1>4. Wanted(Ask) = {p \in SavesTxs(asOf) : Selects(Ask, p)}
    BY DEF Wanted
  <1> HIDE DEF heights, indexes
  <1>5. /\ from \in Nat /\ to \in Nat /\ to < MaxUint64
        /\ \A n \in Nat : Admit(heights, n) => from <= n /\ (to = 0 \/ n <= to)
    BY <1>1, <1>2, BoundsFit
  <1>6. /\ fromIndex \in Nat /\ toIndex \in Nat /\ toIndex < MaxUint32
        /\ \A n \in Nat : Admit(indexes, n) => fromIndex <= n /\ (toIndex = 0 \/ n <= toIndex)
    <2>1. MaxUint32 - 2 \in Nat /\ (MaxUint32 - 2) + 1 < MaxUint32
      BY <1>1
    <2> DEFINE top == MaxUint32 - 2
    <2>2. Pointers(indexes, 0 .. top) /\ top \in Nat /\ top + 1 < MaxUint32
      BY <1>2, <2>1
    <2> HIDE DEF top
    <2> QED
      BY <1>1, <2>2, BoundsFit
  <1> HIDE DEF from, to, fromIndex, toIndex
  <1>7. ~Overflows
    BY <1>1, <1>3, <1>5, <1>6 DEF Overflows
  <1>8. {Position(k) : k \in ToReturn} = {p \in SavesTxs(asOf) : InTxs(p[1], p[2])}
    BY <1>1, <1>3, <1>7, TxPositions
  <1>9. ASSUME NEW p \in SavesTxs(asOf), Selects(Ask, p) PROVE InTxs(p[1], p[2])
    <2>1. p \in SavesTxs(Len(Chain)) /\ p[1] \in Nat /\ p[2] \in Nat
      BY <1>1 DEF SavesTxs
    <2>2. Admit(heights, p[1]) /\ Admit(indexes, p[2])
      BY <1>2, <1>9, <2>1
    <2> QED
      BY <1>3, <1>5, <1>6, <2>1, <2>2 DEF InTxs, InIndexes
  <1> QED
    BY <1>4, <1>8, <1>9

\* What a request is about is what its filter selects of what its iterator returns.
LEMMA WantedIsReturned ==
    ASSUME QueriesInv, Plainly
    PROVE  Wanted(Ask) = {p \in {Position(k) : k \in ToReturn} : Selects(Ask, p)}
  BY PlainFacts, WantedOldBlocks, WantedOldTxs, WantedBlocks, WantedTxs

\* The iterator goes the way the request asked for.
LEMMA OrderAsked ==
    ASSUME QueriesInv, Plainly, NEW p, NEW q
    PROVE  Follows(p, q) <=> IF Ask.field \in {"getBlocks", "getTransactions"} /\ Ask.order = "DESC"
                             THEN Before(q, p) ELSE Before(p, q)
  <1>1. iter.dir = IF Ask.field \in {"getBlocks", "getTransactions"} /\ Ask.order = "DESC" THEN "backward" ELSE "forward"
    BY PlainFacts DEF Opened, OverBlocks, OverTxs, Direction, Plainly
  <1> QED
    BY <1>1 DEF Follows

LEMMA Answers ==
    ASSUME QueriesInv
    PROVE  AnswersAreExact
  <1> DEFINE got == IF req.out = Null THEN <<>> ELSE req.out
             returned == {Position(k) : k \in ToSet(iter.got)}
  <1> SUFFICES ASSUME Plainly
               PROVE  /\ ToSet(got) \subseteq Wanted(Ask) /\ InOrder(Ask, got)
                      /\ (req.answered /\ ~req.error /\ ~req.fault) => Wanted(Ask) \subseteq ToSet(got)
                      /\ \A p \in ToSet(got), q \in Wanted(Ask) \ ToSet(got) : InOrder(Ask, <<p, q>>)
    <2>1. Demanded(Ask) \subseteq Wanted(Ask)
      BY DEF Demanded
    <2> QED
      BY <2>1 DEF AnswersAreExact, Plainly
  <1>1. Collected /\ IterInv /\ iter # NoIter
    BY PlainFacts DEF Plainly
  <1>2. /\ ToSet(iter.got) \subseteq ToReturn /\ ToReturn \subseteq ToSet(iter.got) \cup Awaited
        /\ iter.done => ToSet(iter.got) = ToReturn
    BY <1>1, DoneReturns
  <1>3. Wanted(Ask) = {p \in {Position(k) : k \in ToReturn} : Selects(Ask, p)}
    BY WantedIsReturned
  <1>4. CASE req.out = Null
    <2>1. got = <<>> /\ ToSet(got) = {} /\ DOMAIN got = {}
      BY <1>4 DEF ToSet
    <2>2. req.fault
      BY <1>1, <1>4 DEF Collected
    <2> QED
      BY <2>1, <2>2 DEF InOrder
  <1>5. CASE req.out # Null
    <2>1. /\ got = req.out /\ ToSet(got) = {p \in returned : Selects(Ask, p)}
          /\ \A m, n \in DOMAIN got : m < n => Follows(got[m], got[n])
          /\ (req.answered /\ ~req.error /\ ~req.fault) => iter.done
      BY <1>1, <1>5 DEF Collected
    <2> HIDE DEF got
    <2>2. ToSet(got) \subseteq Wanted(Ask)
      BY <1>2, <1>3, <2>1
    <2>3. InOrder(Ask, got)
      BY <2>1, OrderAsked DEF InOrder
    <2>4. iter.done => Wanted(Ask) \subseteq ToSet(got)
      BY <1>2, <1>3, <2>1
    <2>5. ASSUME NEW p \in ToSet(got), NEW q \in Wanted(Ask) \ ToSet(got) PROVE InOrder(Ask, <<p, q>>)
      <3>1. PICK j \in ToSet(iter.got) : p = Position(j)
        BY <2>1
      <3>2. PICK k \in ToReturn : q = Position(k) /\ Selects(Ask, q)
        BY <1>3
      <3>3. k \notin ToSet(iter.got)
        BY <2>1, <2>5, <3>2
      <3>4. k \in Awaited
        BY <1>2, <3>2, <3>3
      <3>5. Follows(p, q)
        BY <1>1, <3>1, <3>2, <3>4, GotPrecedes
      <3>6. IF Ask.field \in {"getBlocks", "getTransactions"} /\ Ask.order = "DESC" THEN Before(q, p) ELSE Before(p, q)
        BY <3>5, OrderAsked
      <3> DEFINE pair == <<p, q>>
      <3>7. DOMAIN pair = 1 .. 2 /\ pair[1] = p /\ pair[2] = q
        OBVIOUS
      <3> HIDE DEF pair
      <3>8. \A m, n \in DOMAIN pair : m < n => m = 1 /\ n = 2
        BY <3>7
      <3>9. InOrder(Ask, pair)
        BY <3>6, <3>7, <3>8 DEF InOrder
      <3> QED
        BY <3>9 DEF pair
    <2> QED
      BY <2>1, <2>2, <2>3, <2>4, <2>5
  <1> QED
    BY <1>4, <1>5

\* An answer without errors has every matching element that was saved when the
\* iterator was opened, and no other, in the order asked for; one cut short has the
\* first of them.  Of the elements at an upper bound of the older fields nothing is
\* claimed.
THEOREM QueriesAnswerExactly == QSpec => []AnswersAreExact
  BY QueriesInit, QueriesStep, Answers, PTL DEF QSpec

-----------------------------------------------------------------------------
(* The older filters of transactions. *)

\* What one condition of a filter asks for.
Condition(k, v, tx) ==
    /\ k = "success" => v = tx.success
    /\ k = "memo" => v = tx.memo
    /\ k = "from_gas_used" => tx.gas_used >= v
    /\ k = "to_gas_used" => v = 0 \/ tx.gas_used <= v
    /\ k = "from_gas_wanted" => tx.gas_wanted >= v
    /\ k = "to_gas_wanted" => v = 0 \/ tx.gas_wanted <= v
    /\ k = "events" => FilteredTransactionByEvents(tx, v)
    /\ k = "message" => FilteredTransactionByMessages(tx, v)

LEMMA WithinIsBoth ==
    ASSUME NEW n \in Nat, NEW f, NEW from, NEW to, \A k \in DOMAIN f \cap {from, to} : f[k] \in Int
    PROVE  Within(n, f, from, to) <=>
               (from \in DOMAIN f => n >= f[from]) /\ (to \in DOMAIN f => f[to] = 0 \/ n <= f[to])
  BY DEF Within, Deref, IsSet

\* A filter is the conjunction of its conditions.
LEMMA FilterIsConditions ==
    ASSUME NEW tx, tx.gas_used \in Nat, tx.gas_wanted \in Nat, NEW f,
           \A k \in DOMAIN f \cap {"from_gas_used", "to_gas_used", "from_gas_wanted", "to_gas_wanted"} : f[k] \in Int
    PROVE  FilteredTransactionBy(tx, f) <=> \A k \in DOMAIN f : Condition(k, f[k], tx)
  <1>1. /\ Within(tx.gas_used, f, "from_gas_used", "to_gas_used") <=>
               /\ "from_gas_used" \in DOMAIN f => tx.gas_used >= f["from_gas_used"]
               /\ "to_gas_used" \in DOMAIN f => f["to_gas_used"] = 0 \/ tx.gas_used <= f["to_gas_used"]
        /\ Within(tx.gas_wanted, f, "from_gas_wanted", "to_gas_wanted") <=>
               /\ "from_gas_wanted" \in DOMAIN f => tx.gas_wanted >= f["from_gas_wanted"]
               /\ "to_gas_wanted" \in DOMAIN f => f["to_gas_wanted"] = 0 \/ tx.gas_wanted <= f["to_gas_wanted"]
    BY WithinIsBoth
  <1>2. /\ FilteredTransactionByEvents(tx, Deref(f, "events", <<>>)) <=>
               ("events" \in DOMAIN f => FilteredTransactionByEvents(tx, f["events"]))
        /\ FilteredTransactionByMessages(tx, Deref(f, "message", <<>>)) <=>
               ("message" \in DOMAIN f => FilteredTransactionByMessages(tx, f["message"]))
    <2>1. FilteredTransactionByEvents(tx, <<>>) /\ FilteredTransactionByMessages(tx, <<>>)
      BY DEF FilteredTransactionByEvents, FilteredTransactionByMessages, SomeMatch
    <2> QED
      BY <2>1 DEF Deref, IsSet
  <1>3. /\ Matches(f, "success", tx.success) <=> ("success" \in DOMAIN f => f["success"] = tx.success)
        /\ Matches(f, "memo", tx.memo) <=> ("memo" \in DOMAIN f => f["memo"] = tx.memo)
    BY DEF Matches, IsSet
  <1>4. (\A k \in DOMAIN f : Condition(k, f[k], tx)) <=>
            /\ "success" \in DOMAIN f => f["success"] = tx.success
            /\ "memo" \in DOMAIN f => f["memo"] = tx.memo
            /\ "from_gas_used" \in DOMAIN f => tx.gas_used >= f["from_gas_used"]
            /\ "to_gas_used" \in DOMAIN f => f["to_gas_used"] = 0 \/ tx.gas_used <= f["to_gas_used"]
            /\ "from_gas_wanted" \in DOMAIN f => tx.gas_wanted >= f["from_gas_wanted"]
            /\ "to_gas_wanted" \in DOMAIN f => f["to_gas_wanted"] = 0 \/ tx.gas_wanted <= f["to_gas_wanted"]
            /\ "events" \in DOMAIN f => FilteredTransactionByEvents(tx, f["events"])
            /\ "message" \in DOMAIN f => FilteredTransactionByMessages(tx, f["message"])
    BY DEF Condition
  <1> QED
    BY <1>1, <1>2, <1>3, <1>4 DEF FilteredTransactionBy

\* Some of several inputs is enough.
LEMMA SomeInput ==
    ASSUME NEW tx, NEW inputs
    PROVE  /\ FilteredTransactionByEvents(tx, inputs) <=>
                  inputs = <<>> \/ \E i \in DOMAIN inputs : FilteredTransactionByEvents(tx, <<inputs[i]>>)
           /\ FilteredTransactionByMessages(tx, inputs) <=>
                  inputs = <<>> \/ \E i \in DOMAIN inputs : FilteredTransactionByMessages(tx, <<inputs[i]>>)
  <1>1. \A a : <<a>> # <<>> /\ ToSet(<<a>>) = {a}
    BY DEF ToSet
  <1>2. ToSet(inputs) = {inputs[i] : i \in DOMAIN inputs}
    BY DEF ToSet
  <1>3. \A s : FilteredTransactionByEvents(tx, s) <=>
                   s = <<>> \/ \E e \in ToSet(tx.response.events), input \in ToSet(s) : FilteredEventBy(e, input)
    BY DEF FilteredTransactionByEvents, SomeMatch
  <1>4. \A s : FilteredTransactionByMessages(tx, s) <=>
                   s = <<>> \/ \E e \in ToSet(tx.messages), input \in ToSet(s) : FilteredTransactionMessageBy(e, input)
    BY DEF FilteredTransactionByMessages, SomeMatch
  <1>5. ASSUME NEW a PROVE FilteredTransactionByEvents(tx, <<a>>) <=> \E e \in ToSet(tx.response.events) : FilteredEventBy(e, a)
    BY <1>1, <1>3
  <1>6. ASSUME NEW a PROVE FilteredTransactionByMessages(tx, <<a>>) <=> \E e \in ToSet(tx.messages) : FilteredTransactionMessageBy(e, a)
    BY <1>1, <1>4
  <1>7. FilteredTransactionByEvents(tx, inputs) <=>
            inputs = <<>> \/ \E i \in DOMAIN inputs : FilteredTransactionByEvents(tx, <<inputs[i]>>)
    BY <1>2, <1>3, <1>5
  <1>8. FilteredTransactionByMessages(tx, inputs) <=>
            inputs = <<>> \/ \E i \in DOMAIN inputs : FilteredTransactionByMessages(tx, <<inputs[i]>>)
    BY <1>2, <1>4, <1>6
  <1> QED
    BY <1>7, <1>8

\* The conditions of the older filters combine as documented, whatever conditions
\* and transactions there are (FilteredTransactionBy of transaction_filter.go).
THEOREM OldFiltersCombine ==
    ASSUME NEW tx, tx.gas_used \in Nat, tx.gas_wanted \in Nat, NEW filter,
           \A k \in DOMAIN filter \cap {"from_gas_used", "to_gas_used", "from_gas_wanted", "to_gas_wanted"} : filter[k] \in Int
    PROVE  Combines(filter, tx)
  <1>1. ASSUME NEW k \in DOMAIN filter, k \notin {"message", "events"}
        PROVE  FilteredTransactionBy(tx, [x \in {k} |-> filter[k]]) <=> Condition(k, filter[k], tx)
    <2> DEFINE one == [x \in {k} |-> filter[k]]
    <2>1. DOMAIN one = {k} /\ one[k] = filter[k]
      OBVIOUS
    <2> HIDE DEF one
    <2>2. FilteredTransactionBy(tx, one) <=> \A x \in DOMAIN one : Condition(x, one[x], tx)
      BY <2>1, FilterIsConditions
    <2>3. FilteredTransactionBy(tx, one) <=> Condition(k, filter[k], tx)
      BY <2>1, <2>2
    <2> QED
      BY <2>3 DEF one
  <1>2. ASSUME NEW k \in {"message", "events"}, NEW v
        PROVE  FilteredTransactionBy(tx, [x \in {k} |-> v]) <=> Condition(k, v, tx)
    <2> DEFINE one == [x \in {k} |-> v]
    <2>1. DOMAIN one = {k} /\ one[k] = v
      OBVIOUS
    <2> HIDE DEF one
    <2>2. FilteredTransactionBy(tx, one) <=> \A x \in DOMAIN one : Condition(x, one[x], tx)
      BY <2>1, FilterIsConditions
    <2>3. FilteredTransactionBy(tx, one) <=> Condition(k, v, tx)
      BY <2>1, <2>2
    <2> QED
      BY <2>3 DEF one
  <1>3. ASSUME NEW k \in DOMAIN filter, k \in {"message", "events"}
        PROVE  Condition(k, filter[k], tx) <=>
                   filter[k] = <<>> \/ \E i \in DOMAIN filter[k] : FilteredTransactionBy(tx, [x \in {k} |-> <<filter[k][i]>>])
    <2>1. \A v : FilteredTransactionBy(tx, [x \in {k} |-> v]) <=> Condition(k, v, tx)
      BY <1>2, <1>3
    <2>2. Condition(k, filter[k], tx) <=>
              filter[k] = <<>> \/ \E i \in DOMAIN filter[k] : Condition(k, <<filter[k][i]>>, tx)
      <3>1. CASE k = "message"
        <4>1. \A v : Condition(k, v, tx) <=> FilteredTransactionByMessages(tx, v)
          BY <3>1 DEF Condition
        <4> QED
          BY <4>1, SomeInput
      <3>2. CASE k = "events"
        <4>1. \A v : Condition(k, v, tx) <=> FilteredTransactionByEvents(tx, v)
          BY <3>2 DEF Condition
        <4> QED
          BY <4>1, SomeInput
      <3> QED
        BY <1>3, <3>1, <3>2
    <2> QED
      BY <2>1, <2>2
  <1>4. FilteredTransactionBy(tx, filter) <=> \A k \in DOMAIN filter : Condition(k, filter[k], tx)
    BY FilterIsConditions
  <1> QED
    BY <1>1, <1>3, <1>4, Zenon DEF Combines

-----------------------------------------------------------------------------
(* The gas prices: what the loops over transactions and blocks compute. *)

\* The largest of a set of positive numbers.
LEMMA MaxIs ==
    ASSUME NEW n \in Nat, NEW s \in SUBSET (1 .. n + 1), n + 1 \in s
    PROVE  Max(s) = n + 1
  <1>1. \A y \in s : n + 1 >= y
    OBVIOUS
  <1>2. \A x \in s : (\A y \in s : x >= y) => x = n + 1
    OBVIOUS
  <1> QED
    BY <1>1, <1>2 DEF Max

LEMMA MaxIn ==
    ASSUME NEW n \in Nat, NEW s \in SUBSET (1 .. n), s # {}
    PROVE  Max(s) \in s
  <1> DEFINE T == {n - x : x \in s}
  <1>1. \A x \in s : x \in 1 .. n
    OBVIOUS
  <1>2. \A x \in s : n - x \in Nat
    BY <1>1
  <1>3. T \subseteq Nat /\ T # {}
    BY <1>2
  <1>4. PICK x \in T : \A y \in T : x <= y
    BY <1>3, LeastNatural
  <1>5. PICK m \in s : x = n - m
    OBVIOUS
  <1>6. \A y \in s : m >= y
    BY <1>4, <1>5
  <1> QED
    BY <1>6 DEF Max

\* A function on the sets of positions, as the folds of the community modules
\* compute it.
FoldsSets(f, n, V, base, step) ==
    /\ f \in [SUBSET (1 .. n) -> V]
    /\ \A s \in SUBSET (1 .. n) : f[s] = IF s = {} THEN base ELSE step[<<Max(s), f[s \ {Max(s)}]>>]

LEMMA FoldsSetsExists ==
    ASSUME NEW V, NEW base \in V, NEW step \in [Nat \X V -> V], NEW n \in Nat
    PROVE  \E f : FoldsSets(f, n, V, base, step)
  <1> DEFINE T == {m \in Nat : \E f : FoldsSets(f, m, V, base, step)}
  <1>1. 0 \in T
    <2> DEFINE f == [s \in SUBSET (1 .. 0) |-> base]
    <2>1. \A s \in SUBSET (1 .. 0) : s = {}
      OBVIOUS
    <2>2. FoldsSets(f, 0, V, base, step)
      BY <2>1 DEF FoldsSets
    <2> QED
      BY <2>2
  <1>2. ASSUME NEW m \in Nat, m \in T PROVE m + 1 \in T
    <2>1. PICK f : FoldsSets(f, m, V, base, step)
      BY <1>2
    <2>2. /\ f \in [SUBSET (1 .. m) -> V]
          /\ \A s \in SUBSET (1 .. m) : f[s] = IF s = {} THEN base ELSE step[<<Max(s), f[s \ {Max(s)}]>>]
      BY <2>1 DEF FoldsSets
    <2> DEFINE g == [s \in SUBSET (1 .. m + 1) |-> IF m + 1 \in s THEN step[<<m + 1, f[s \ {m + 1}]>>] ELSE f[s]]
    <2>3. ASSUME NEW s \in SUBSET (1 .. m + 1) PROVE s \ {m + 1} \in SUBSET (1 .. m)
      OBVIOUS
    <2>4. ASSUME NEW s \in SUBSET (1 .. m + 1), m + 1 \notin s PROVE s \in SUBSET (1 .. m)
      <3>1. s \ {m + 1} = s
        BY <2>4
      <3> QED
        BY <2>3, <3>1
    <2>5. ASSUME NEW s \in SUBSET (1 .. m + 1) PROVE g[s] \in V
      <3>1. CASE m + 1 \in s
        <4>1. f[s \ {m + 1}] \in V
          BY <2>2, <2>3
        <4>2. <<m + 1, f[s \ {m + 1}]>> \in Nat \X V
          BY <4>1
        <4> QED
          BY <3>1, <4>2
      <3>2. CASE m + 1 \notin s
        BY <2>2, <2>4, <3>2
      <3> QED
        BY <3>1, <3>2
    <2>6. ASSUME NEW s \in SUBSET (1 .. m + 1)
          PROVE  g[s] = IF s = {} THEN base ELSE step[<<Max(s), g[s \ {Max(s)}]>>]
      <3>1. CASE m + 1 \in s
        <4>1. Max(s) = m + 1 /\ s # {}
          BY <3>1, MaxIs
        <4>2. s \ {m + 1} \in SUBSET (1 .. m + 1) /\ m + 1 \notin s \ {m + 1}
          OBVIOUS
        <4>3. g[s \ {m + 1}] = f[s \ {m + 1}]
          BY <4>2
        <4>4. g[s] = step[<<m + 1, f[s \ {m + 1}]>>]
          BY <3>1
        <4> QED
          BY <4>1, <4>3, <4>4
      <3>2. CASE m + 1 \notin s
        <4>1. s \in SUBSET (1 .. m) /\ g[s] = f[s]
          BY <2>4, <3>2
        <4>2. g[s \ {Max(s)}] = f[s \ {Max(s)}]
          BY <3>2
        <4> QED
          BY <2>2, <4>1, <4>2
      <3> QED
        BY <3>1, <3>2
    <2>7. DOMAIN g = SUBSET (1 .. m + 1) /\ g = [s \in SUBSET (1 .. m + 1) |-> g[s]]
      OBVIOUS
    <2> HIDE DEF g
    <2>8. g \in [SUBSET (1 .. m + 1) -> V]
      BY <2>5, <2>7
    <2>9. FoldsSets(g, m + 1, V, base, step)
      BY <2>6, <2>8 DEF FoldsSets
    <2> QED
      BY <2>9
  <1> HIDE DEF T
  <1>3. \A m \in Nat : m \in T
    BY <1>1, <1>2, InductiveSet
  <1> QED
    BY <1>3 DEF T

Info == [Low : Nat, High : Nat, TotalAmount : Nat, TotalCount : Nat]

LEMMA AddFeeType ==
    ASSUME NEW info \in Info, NEW fee, fee # Undecodable => fee.amount \in Nat, NEW denom
    PROVE  AddFee(info, fee, denom) \in Info
  BY DEF AddFee, Info, MinWithDefault, Larger, Pays

\* calculateGasFeePerBlock of one denomination.
BlockFees(block, denom) == FoldLeft(LAMBDA info, fee : AddFee(info, fee, denom), NoInfo, block)

\* The loop over the transactions of a block, one after the other.
LEMMA FeesFold ==
    ASSUME NEW F, \A fee \in F : fee # Undecodable => fee.amount \in Nat, NEW block \in Seq(F), NEW denom
    PROVE  \E h : /\ h[0] = NoInfo
                  /\ \A k \in 0 .. Len(block) - 1 : h[k + 1] = AddFee(h[k], block[k + 1], denom)
                  /\ h[Len(block)] = BlockFees(block, denom)
  <1> DEFINE n == Len(block)
             step == [p \in Nat \X Info |-> IF p[1] \in 1 .. n THEN AddFee(p[2], block[p[1]], denom) ELSE p[2]]
             raw(f) == [s \in SUBSET DOMAIN block |->
                           IF s = {} THEN NoInfo ELSE AddFee(f[s \ {Max(s)}], block[Max(s)], denom)]
             c == CHOOSE f : f = raw(f)
  <1>1. n \in Nat /\ DOMAIN block = 1 .. n /\ \A i \in 1 .. n : block[i] \in F
    OBVIOUS
  <1>2. NoInfo \in Info
    BY DEF NoInfo, Info
  <1>3. step \in [Nat \X Info -> Info]
    <2>1. ASSUME NEW p \in Nat \X Info
          PROVE  (IF p[1] \in 1 .. n THEN AddFee(p[2], block[p[1]], denom) ELSE p[2]) \in Info
      BY <1>1, AddFeeType
    <2> QED
      BY <2>1
  <1>4. \A i \in 1 .. n : \A x \in Info : step[<<i, x>>] = AddFee(x, block[i], denom)
    BY <1>1
  <1> HIDE DEF step, n
  <1>5. PICK f : FoldsSets(f, n, Info, NoInfo, step)
    BY <1>1, <1>2, <1>3, FoldsSetsExists
  <1>6. /\ f \in [SUBSET (1 .. n) -> Info]
        /\ \A s \in SUBSET (1 .. n) : f[s] = IF s = {} THEN NoInfo ELSE step[<<Max(s), f[s \ {Max(s)}]>>]
    BY <1>5 DEF FoldsSets
  <1>7. ASSUME NEW s \in SUBSET (1 .. n)
        PROVE  f[s] = IF s = {} THEN NoInfo ELSE AddFee(f[s \ {Max(s)}], block[Max(s)], denom)
    <2>1. CASE s # {}
      <3>1. Max(s) \in 1 .. n
        BY <1>1, <2>1, MaxIn
      <3>2. f[s \ {Max(s)}] \in Info
        BY <1>6
      <3> QED
        BY <1>4, <1>6, <2>1, <3>1, <3>2
    <2> QED
      BY <1>6, <2>1
  <1>8. f = raw(f)
    BY <1>1, <1>6, <1>7
  <1>9. c = raw(c)
    <2>1. c = CHOOSE g : g = raw(g)
      OBVIOUS
    <2> HIDE DEF raw, c
    <2> QED
      BY <1>8, <2>1
  <1>10. BlockFees(block, denom) = c[DOMAIN block]
    BY DEF BlockFees, FoldLeft, MapThenFoldSet
  <1> HIDE DEF c
  <1>11. \A s \in SUBSET (1 .. n) : c[s] = IF s = {} THEN NoInfo ELSE AddFee(c[s \ {Max(s)}], block[Max(s)], denom)
    BY <1>1, <1>9
  <1> DEFINE h == [k \in 0 .. n |-> c[1 .. k]]
  <1>12. \A k \in 0 .. n : h[k] = c[1 .. k]
    OBVIOUS
  <1> HIDE DEF h
  <1>13. h[0] = NoInfo
    <2>1. 1 .. 0 = {} /\ {} \in SUBSET (1 .. n)
      OBVIOUS
    <2>2. 0 \in 0 .. n
      BY <1>1
    <2>3. h[0] = c[{}]
      BY <1>12, <2>1, <2>2
    <2>4. c[{}] = NoInfo
      BY <1>11, <2>1
    <2> QED
      BY <2>3, <2>4
  <1>14. ASSUME NEW k \in 0 .. n - 1 PROVE h[k + 1] = AddFee(h[k], block[k + 1], denom)
    <2>0. k \in Nat /\ k \in 0 .. n /\ k + 1 \in 0 .. n /\ k + 1 \in 1 .. n
      BY <1>1
    <2>1. 1 .. k + 1 \in SUBSET (1 .. n) /\ k + 1 \in 1 .. k + 1 /\ (1 .. k + 1) \ {k + 1} = 1 .. k
      BY <1>1, <2>0
    <2>2. Max(1 .. k + 1) = k + 1
      BY <2>0, <2>1, MaxIs
    <2>3. c[1 .. k + 1] = AddFee(c[(1 .. k + 1) \ {k + 1}], block[k + 1], denom)
      BY <1>11, <2>1, <2>2
    <2> QED
      BY <1>12, <2>0, <2>1, <2>3
  <1>15. h[n] = BlockFees(block, denom)
    BY <1>1, <1>10, <1>12
  <1> QED
    BY <1>13, <1>14, <1>15 DEF n

-----------------------------------------------------------------------------
(* What the totals say of the amounts paid. *)

Least(x, P) == x \in P /\ \A y \in P : x <= y
Greatest(x, P) == x \in P /\ \A y \in P : y <= x

\* The totals of the amounts P: the extremes are those of P, and the average is
\* between them.
Summary(info, P) ==
    /\ info \in Info
    /\ P = {} => info = NoInfo
    /\ P # {} =>
           /\ Least(info.Low, P) /\ Greatest(info.High, P) /\ info.TotalCount # 0
           /\ info.Low * info.TotalCount <= info.TotalAmount /\ info.TotalAmount <= info.High * info.TotalCount

\* More amounts, of which the extremes and a number between them are given.
LEMMA SummaryGrows ==
    ASSUME NEW info, NEW P \in SUBSET (Nat \ {0}), Summary(info, P), NEW Q \in SUBSET (Nat \ {0}),
           NEW low, Least(low, Q), NEW high, Greatest(high, Q), NEW average \in Nat, low <= average, average <= high
    PROVE  Summary([Low         |-> MinWithDefault(info.Low, low),
                    High        |-> Larger(info.High, high),
                    TotalAmount |-> info.TotalAmount + average,
                    TotalCount  |-> info.TotalCount + 1], P \cup Q)
  <1> DEFINE L == MinWithDefault(info.Low, low)
             H == Larger(info.High, high)
             A == info.TotalAmount
             C == info.TotalCount
             new == [Low |-> L, High |-> H, TotalAmount |-> A + average, TotalCount |-> C + 1]
  <1>1. /\ low \in Nat \ {0} /\ high \in Nat \ {0} /\ low \in Q /\ high \in Q
        /\ \A y \in Q : y \in Nat /\ low <= y /\ y <= high
    BY DEF Least, Greatest
  <1>2. info.Low \in Nat /\ info.High \in Nat /\ A \in Nat /\ C \in Nat
    BY DEF Summary, Info
  <1>3. CASE P = {}
    <2>1. info.Low = 0 /\ info.High = 0 /\ A = 0 /\ C = 0
      BY <1>3 DEF Summary, NoInfo
    <2>2. L = low /\ H = high
      BY <1>1, <2>1 DEF MinWithDefault, Larger
    <2>3. new = [Low |-> low, High |-> high, TotalAmount |-> average, TotalCount |-> 1]
      BY <2>1, <2>2
    <2>4. P \cup Q = Q /\ Q # {}
      BY <1>1, <1>3
    <2>5. low * 1 = low /\ high * 1 = high
      BY <1>1
    <2> HIDE DEF new
    <2>6. Summary(new, Q)
      BY <1>1, <2>3, <2>4, <2>5 DEF Summary, Info
    <2> QED
      BY <2>4, <2>6 DEF new
  <1>4. CASE P # {}
    <2>1. /\ info.Low \in P /\ info.High \in P /\ C # 0
          /\ \A y \in P : y \in Nat /\ info.Low <= y /\ y <= info.High
          /\ info.Low * C <= A /\ A <= info.High * C
      BY <1>4 DEF Summary, Least, Greatest
    <2>2. info.Low > 0
      <3>1. info.Low \in Nat \ {0}
        BY <2>1
      <3> QED
        BY <3>1
    <2>3. /\ L \in Nat /\ L \in P \cup Q /\ L <= info.Low /\ L <= low
          /\ H \in Nat /\ H \in P \cup Q /\ info.High <= H /\ high <= H
      BY <1>1, <1>2, <2>1, <2>2 DEF MinWithDefault, Larger
    <2> HIDE DEF L, H, A, C
    <2>4. ASSUME NEW a \in Nat, NEW b \in Nat, a <= b PROVE a * C <= b * C
      <3>1. b - a \in Nat /\ b = a + (b - a)
        BY <2>4
      <3>2. (b - a) * C \in Nat
        BY <1>2, <3>1
      <3>3. b * C = a * C + (b - a) * C
        BY <1>2, <3>1
      <3> QED
        BY <1>2, <3>2, <3>3
    <2>5. L * C <= info.Low * C /\ info.High * C <= H * C
      BY <1>2, <2>3, <2>4
    <2>6. L * (C + 1) = L * C + L /\ H * (C + 1) = H * C + H /\ L * C \in Nat /\ H * C \in Nat
      BY <1>2, <2>3
    <2>7. info.Low * C \in Nat /\ info.High * C \in Nat
      BY <1>2
    <2>8. L * (C + 1) <= A + average /\ A + average <= H * (C + 1)
      BY <1>1, <1>2, <2>1, <2>3, <2>5, <2>6, <2>7
    <2>9. \A y \in P \cup Q : L <= y /\ y <= H
      BY <1>1, <1>2, <2>1, <2>3
    <2>10. new.Low = L /\ new.High = H /\ new.TotalAmount = A + average /\ new.TotalCount = C + 1 /\ C + 1 # 0 /\ new \in Info
      BY <1>2, <2>3 DEF Info
    <2>11. P \cup Q # {}
      BY <1>4
    <2> HIDE DEF new
    <2>12. Summary(new, P \cup Q)
      BY <2>3, <2>8, <2>9, <2>10, <2>11 DEF Summary, Least, Greatest
    <2> QED
      BY <2>12 DEF new, L, H, A, C
  <1> QED
    BY <1>3, <1>4

\* The average is between the extremes.
LEMMA AverageBetween ==
    ASSUME NEW info, NEW P \in SUBSET (Nat \ {0}), P # {}, Summary(info, P)
    PROVE  /\ info.TotalAmount \div info.TotalCount \in Nat
           /\ info.Low <= info.TotalAmount \div info.TotalCount
           /\ info.TotalAmount \div info.TotalCount <= info.High
  <1> DEFINE A == info.TotalAmount
             C == info.TotalCount
             q == A \div C
             r == A % C
  <1>1. /\ info.Low \in Nat /\ info.High \in Nat /\ A \in Nat /\ C \in Nat \ {0}
        /\ info.Low * C <= A /\ A <= info.High * C
    BY DEF Summary, Info
  <1>2. q \in Nat /\ r \in 0 .. C - 1 /\ A = C * q + r
    BY <1>1, Division
  <1> HIDE DEF A, C, q, r
  <1>3. ASSUME NEW a \in Nat, NEW b \in Nat, a < b PROVE C * a + C <= C * b
    <2>1. b - a - 1 \in Nat /\ b = a + 1 + (b - a - 1)
      BY <1>3
    <2>2. C * (b - a - 1) \in Nat
      BY <1>1, <2>1
    <2>3. C * b = C * a + C + C * (b - a - 1)
      BY <1>1, <2>1
    <2> QED
      BY <1>1, <2>2, <2>3
  <1>4. info.Low * C = C * info.Low /\ info.High * C = C * info.High /\ C * info.Low \in Nat /\ C * info.High \in Nat /\ C * q \in Nat
    BY <1>1, <1>2
  <1>5. ~(q < info.Low)
    BY <1>1, <1>2, <1>3, <1>4
  <1>6. ~(info.High < q)
    BY <1>1, <1>2, <1>3, <1>4
  <1>7. info.Low <= q /\ q <= info.High
    BY <1>1, <1>2, <1>5, <1>6
  <1> QED
    BY <1>2, <1>7 DEF A, C, q

-----------------------------------------------------------------------------
(* The prices. *)

\* The amounts paid in a denomination by the first k transactions of a block.
PaidUpTo(block, k, denom) == {block[i].amount : i \in {j \in 1 .. k : Pays(block[j], denom)}}
Paid(block, denom) == {fee.amount : fee \in {fee \in ToSet(block) : Pays(fee, denom)}}

LEMMA BlockSummary ==
    ASSUME NEW F, \A fee \in F : fee # Undecodable => fee.amount \in Nat \ {0}, NEW block \in Seq(F), NEW denom
    PROVE  /\ Paid(block, denom) \in SUBSET (Nat \ {0})
           /\ Summary(BlockFees(block, denom), Paid(block, denom))
           /\ Paid(block, denom) # {} <=> denom \in Denoms(block)
  <1> DEFINE n == Len(block)
             P(k) == PaidUpTo(block, k, denom)
  <1>1. n \in Nat /\ DOMAIN block = 1 .. n /\ \A i \in 1 .. n : block[i] \in F
    OBVIOUS
  <1>2. \A i \in 1 .. n : Pays(block[i], denom) => block[i].amount \in Nat \ {0}
    BY <1>1 DEF Pays
  <1>3. PICK h : /\ h[0] = NoInfo
                 /\ \A k \in 0 .. n - 1 : h[k + 1] = AddFee(h[k], block[k + 1], denom)
                 /\ h[n] = BlockFees(block, denom)
    <2>1. \A fee \in F : fee # Undecodable => fee.amount \in Nat
      OBVIOUS
    <2> QED
      BY <2>1, FeesFold
  <1> HIDE DEF n
  <1>4. \A k \in 0 .. n : P(k) \in SUBSET (Nat \ {0})
    BY <1>1, <1>2 DEF PaidUpTo
  <1> DEFINE T == {k \in Nat : k <= n => Summary(h[k], P(k))}
  <1>5. 0 \in T
    <2>1. P(0) = {}
      BY DEF PaidUpTo
    <2>2. NoInfo \in Info
      BY DEF NoInfo, Info
    <2> QED
      BY <1>3, <2>1, <2>2 DEF Summary
  <1>6. ASSUME NEW k \in Nat, k \in T PROVE k + 1 \in T
    <2> SUFFICES ASSUME k + 1 <= n PROVE Summary(h[k + 1], P(k + 1))
      OBVIOUS
    <2> DEFINE fee == block[k + 1]
    <2>1. k \in 0 .. n - 1 /\ k \in 0 .. n /\ k + 1 \in 1 .. n /\ 1 .. k + 1 = (1 .. k) \cup {k + 1}
      BY <1>1
    <2>2. Summary(h[k], P(k)) /\ P(k) \in SUBSET (Nat \ {0})
      BY <1>1, <1>4, <1>6, <2>1
    <2>3. h[k + 1] = AddFee(h[k], fee, denom)
      BY <1>3, <2>1
    <2>4. CASE ~Pays(fee, denom)
      <3>1. P(k + 1) = P(k)
        BY <2>1, <2>4 DEF PaidUpTo
      <3>2. h[k + 1] = h[k]
        BY <2>3, <2>4 DEF AddFee
      <3> HIDE DEF P
      <3> QED
        BY <2>2, <3>1, <3>2
    <2>5. CASE Pays(fee, denom)
      <3> DEFINE a == fee.amount
      <3>1. a \in Nat \ {0}
        BY <1>2, <2>1, <2>5
      <3>2. P(k + 1) = P(k) \cup {a}
        BY <2>1, <2>5 DEF PaidUpTo
      <3>3. h[k + 1] = [Low         |-> MinWithDefault(h[k].Low, a),
                        High        |-> Larger(h[k].High, a),
                        TotalAmount |-> h[k].TotalAmount + a,
                        TotalCount  |-> h[k].TotalCount + 1]
        BY <2>3, <2>5 DEF AddFee
      <3> HIDE DEF a, P
      <3>4. {a} \in SUBSET (Nat \ {0}) /\ Least(a, {a}) /\ Greatest(a, {a}) /\ a \in Nat /\ a <= a
        BY <3>1 DEF Least, Greatest
      <3>5. Summary([Low         |-> MinWithDefault(h[k].Low, a),
                     High        |-> Larger(h[k].High, a),
                     TotalAmount |-> h[k].TotalAmount + a,
                     TotalCount  |-> h[k].TotalCount + 1], P(k) \cup {a})
        BY <2>2, <3>4, SummaryGrows
      <3> QED
        BY <3>2, <3>3, <3>5
    <2> QED
      BY <2>4, <2>5
  <1> HIDE DEF T
  <1>7. \A k \in Nat : k \in T
    BY <1>5, <1>6, InductiveSet
  <1>8. Summary(h[n], P(n))
    BY <1>1, <1>7 DEF T
  <1>9. P(n) = Paid(block, denom)
    BY <1>1 DEF PaidUpTo, Paid, ToSet
  <1>10. Paid(block, denom) # {} <=> denom \in Denoms(block)
    BY DEF Paid, Denoms, Pays
  <1>11. P(n) \in SUBSET (Nat \ {0})
    BY <1>1, <1>4
  <1> HIDE DEF P
  <1> QED
    BY <1>3, <1>8, <1>9, <1>10, <1>11

\* The fees of a block, and of all blocks, in one denomination.
LEMMA BlockFeesIs ==
    ASSUME NEW block
    PROVE  CalculateGasFeePerBlock(block) = [denom \in Denoms(block) |-> BlockFees(block, denom)]
  BY DEF CalculateGasFeePerBlock, BlockFees

LEMMA AddBlockIs ==
    ASSUME NEW info, NEW block, NEW denom
    PROVE  AddBlock(info, block, denom) =
               IF denom \in Denoms(block) THEN ModifyAggregatedInfo(info, BlockFees(block, denom)) ELSE info
  BY BlockFeesIs DEF AddBlock

LEMMA AddBlockType ==
    ASSUME NEW F, \A fee \in F : fee # Undecodable => fee.amount \in Nat \ {0}, NEW block \in Seq(F),
           NEW info \in Info, NEW denom
    PROVE  AddBlock(info, block, denom) \in Info
  <1>1. CASE denom \in Denoms(block)
    <2> DEFINE fees == BlockFees(block, denom)
               P == Paid(block, denom)
    <2>1. P \in SUBSET (Nat \ {0}) /\ Summary(fees, P) /\ P # {}
      BY <1>1, BlockSummary
    <2> HIDE DEF fees, P
    <2>2. fees.TotalAmount \div fees.TotalCount \in Nat /\ fees \in Info
      BY <2>1, AverageBetween DEF Summary
    <2>3. ModifyAggregatedInfo(info, fees) \in Info
      BY <2>2 DEF ModifyAggregatedInfo, Info, MinWithDefault, Larger
    <2> QED
      BY <1>1, <2>3, AddBlockIs DEF fees
  <1> QED
    BY <1>1, AddBlockIs

TotalFees(blocks, denom) == FoldLeft(LAMBDA info, block : AddBlock(info, block, denom), NoInfo, blocks)

LEMMA PricesAre ==
    ASSUME NEW blocks
    PROVE  GetGasPricesByBlocks(blocks) =
               [denom \in UNION {Denoms(block) : block \in ToSet(blocks)} |-> CalculateGasPrices(TotalFees(blocks, denom))]
  BY DEF GetGasPricesByBlocks, TotalFees

\* The loop over the blocks, one after the other.
LEMMA BlocksFold ==
    ASSUME NEW F, \A fee \in F : fee # Undecodable => fee.amount \in Nat \ {0}, NEW blocks \in Seq(Seq(F)), NEW denom
    PROVE  \E h : /\ h[0] = NoInfo
                  /\ \A k \in 0 .. Len(blocks) - 1 : h[k + 1] = AddBlock(h[k], blocks[k + 1], denom)
                  /\ h[Len(blocks)] = TotalFees(blocks, denom)
  <1> DEFINE n == Len(blocks)
             step == [p \in Nat \X Info |-> IF p[1] \in 1 .. n THEN AddBlock(p[2], blocks[p[1]], denom) ELSE p[2]]
             raw(f) == [s \in SUBSET DOMAIN blocks |->
                           IF s = {} THEN NoInfo ELSE AddBlock(f[s \ {Max(s)}], blocks[Max(s)], denom)]
             c == CHOOSE f : f = raw(f)
  <1>1. n \in Nat /\ DOMAIN blocks = 1 .. n /\ \A i \in 1 .. n : blocks[i] \in Seq(F)
    OBVIOUS
  <1>2. NoInfo \in Info
    BY DEF NoInfo, Info
  <1>3. step \in [Nat \X Info -> Info]
    <2>1. ASSUME NEW p \in Nat \X Info
          PROVE  (IF p[1] \in 1 .. n THEN AddBlock(p[2], blocks[p[1]], denom) ELSE p[2]) \in Info
      BY <1>1, AddBlockType
    <2> QED
      BY <2>1
  <1>4. \A i \in 1 .. n : \A x \in Info : step[<<i, x>>] = AddBlock(x, blocks[i], denom)
    BY <1>1
  <1> HIDE DEF step, n
  <1>5. PICK f : FoldsSets(f, n, Info, NoInfo, step)
    BY <1>1, <1>2, <1>3, FoldsSetsExists
  <1>6. /\ f \in [SUBSET (1 .. n) -> Info]
        /\ \A s \in SUBSET (1 .. n) : f[s] = IF s = {} THEN NoInfo ELSE step[<<Max(s), f[s \ {Max(s)}]>>]
    BY <1>5 DEF FoldsSets
  <1>7. ASSUME NEW s \in SUBSET (1 .. n)
        PROVE  f[s] = IF s = {} THEN NoInfo ELSE AddBlock(f[s \ {Max(s)}], blocks[Max(s)], denom)
    <2>1. CASE s # {}
      <3>1. Max(s) \in 1 .. n
        BY <1>1, <2>1, MaxIn
      <3>2. f[s \ {Max(s)}] \in Info
        BY <1>6
      <3> QED
        BY <1>4, <1>6, <2>1, <3>1, <3>2
    <2> QED
      BY <1>6, <2>1
  <1>8. f = raw(f)
    BY <1>1, <1>6, <1>7
  <1>9. c = raw(c)
    <2>1. c = CHOOSE g : g = raw(g)
      OBVIOUS
    <2> HIDE DEF raw, c
    <2> QED
      BY <1>8, <2>1
  <1>10. TotalFees(blocks, denom) = c[DOMAIN blocks]
    BY DEF TotalFees, FoldLeft, MapThenFoldSet
  <1> HIDE DEF c
  <1>11. \A s \in SUBSET (1 .. n) : c[s] = IF s = {} THEN NoInfo ELSE AddBlock(c[s \ {Max(s)}], blocks[Max(s)], denom)
    BY <1>1, <1>9
  <1> DEFINE h == [k \in 0 .. n |-> c[1 .. k]]
  <1>12. \A k \in 0 .. n : h[k] = c[1 .. k]
    OBVIOUS
  <1> HIDE DEF h
  <1>13. h[0] = NoInfo
    <2>1. 1 .. 0 = {} /\ {} \in SUBSET (1 .. n)
      OBVIOUS
    <2>2. 0 \in 0 .. n
      BY <1>1
    <2>3. h[0] = c[{}]
      BY <1>12, <2>1, <2>2
    <2>4. c[{}] = NoInfo
      BY <1>11, <2>1
    <2> QED
      BY <2>3, <2>4
  <1>14. ASSUME NEW k \in 0 .. n - 1 PROVE h[k + 1] = AddBlock(h[k], blocks[k + 1], denom)
    <2>0. k \in Nat /\ k \in 0 .. n /\ k + 1 \in 0 .. n /\ k + 1 \in 1 .. n
      BY <1>1
    <2>1. 1 .. k + 1 \in SUBSET (1 .. n) /\ k + 1 \in 1 .. k + 1 /\ (1 .. k + 1) \ {k + 1} = 1 .. k
      BY <1>1, <2>0
    <2>2. Max(1 .. k + 1) = k + 1
      BY <2>0, <2>1, MaxIs
    <2>3. c[1 .. k + 1] = AddBlock(c[(1 .. k + 1) \ {k + 1}], blocks[k + 1], denom)
      BY <1>11, <2>1, <2>2
    <2> QED
      BY <1>12, <2>0, <2>1, <2>3
  <1>15. h[n] = TotalFees(blocks, denom)
    BY <1>1, <1>10, <1>12
  <1> QED
    BY <1>13, <1>14, <1>15 DEF n

PaidByBlocks(blocks, k, denom) == UNION {Paid(blocks[i], denom) : i \in 1 .. k}

LEMMA TotalSummary ==
    ASSUME NEW F, \A fee \in F : fee # Undecodable => fee.amount \in Nat \ {0}, NEW blocks \in Seq(Seq(F)), NEW denom
    PROVE  /\ PaidByBlocks(blocks, Len(blocks), denom) \in SUBSET (Nat \ {0})
           /\ Summary(TotalFees(blocks, denom), PaidByBlocks(blocks, Len(blocks), denom))
  <1> DEFINE n == Len(blocks)
             P(k) == PaidByBlocks(blocks, k, denom)
  <1>1. n \in Nat /\ DOMAIN blocks = 1 .. n /\ \A i \in 1 .. n : blocks[i] \in Seq(F)
    OBVIOUS
  <1>2. ASSUME NEW i \in 1 .. n
        PROVE  /\ Paid(blocks[i], denom) \in SUBSET (Nat \ {0})
               /\ Summary(BlockFees(blocks[i], denom), Paid(blocks[i], denom))
               /\ Paid(blocks[i], denom) # {} <=> denom \in Denoms(blocks[i])
    BY <1>1, BlockSummary
  <1>3. PICK h : /\ h[0] = NoInfo
                 /\ \A k \in 0 .. n - 1 : h[k + 1] = AddBlock(h[k], blocks[k + 1], denom)
                 /\ h[n] = TotalFees(blocks, denom)
    BY BlocksFold
  <1> HIDE DEF n
  <1>4. ASSUME NEW k \in 0 .. n PROVE P(k) \in SUBSET (Nat \ {0})
    <2>1. \A i \in 1 .. k : i \in 1 .. n
      BY <1>1
    <2> QED
      BY <1>2, <2>1 DEF PaidByBlocks
  <1> DEFINE T == {k \in Nat : k <= n => Summary(h[k], P(k))}
  <1>5. 0 \in T
    <2>1. P(0) = {}
      BY DEF PaidByBlocks
    <2>2. NoInfo \in Info
      BY DEF NoInfo, Info
    <2> QED
      BY <1>3, <2>1, <2>2 DEF Summary
  <1>6. ASSUME NEW k \in Nat, k \in T PROVE k + 1 \in T
    <2> SUFFICES ASSUME k + 1 <= n PROVE Summary(h[k + 1], P(k + 1))
      OBVIOUS
    <2> DEFINE fees == BlockFees(blocks[k + 1], denom)
               Q == Paid(blocks[k + 1], denom)
    <2>1. k \in 0 .. n - 1 /\ k \in 0 .. n /\ k + 1 \in 1 .. n /\ 1 .. k + 1 = (1 .. k) \cup {k + 1}
      BY <1>1
    <2>2. Summary(h[k], P(k)) /\ P(k) \in SUBSET (Nat \ {0})
      BY <1>1, <1>4, <1>6, <2>1
    <2>3. h[k + 1] = IF Q # {} THEN ModifyAggregatedInfo(h[k], fees) ELSE h[k]
      BY <1>2, <1>3, <2>1, AddBlockIs
    <2>4. P(k + 1) = P(k) \cup Q
      BY <2>1 DEF PaidByBlocks
    <2>5. Q \in SUBSET (Nat \ {0}) /\ Summary(fees, Q)
      BY <1>2, <2>1
    <2> HIDE DEF fees, Q, P
    <2>6. CASE Q = {}
      BY <2>2, <2>3, <2>4, <2>6
    <2>7. CASE Q # {}
      <3> DEFINE average == fees.TotalAmount \div fees.TotalCount
      <3>1. average \in Nat /\ fees.Low <= average /\ average <= fees.High
        BY <2>5, <2>7, AverageBetween
      <3>2. Least(fees.Low, Q) /\ Greatest(fees.High, Q)
        BY <2>5, <2>7 DEF Summary
      <3>3. h[k + 1] = [Low         |-> MinWithDefault(h[k].Low, fees.Low),
                        High        |-> Larger(h[k].High, fees.High),
                        TotalAmount |-> h[k].TotalAmount + average,
                        TotalCount  |-> h[k].TotalCount + 1]
        BY <2>3, <2>7 DEF ModifyAggregatedInfo
      <3> HIDE DEF average
      <3>4. Summary([Low         |-> MinWithDefault(h[k].Low, fees.Low),
                     High        |-> Larger(h[k].High, fees.High),
                     TotalAmount |-> h[k].TotalAmount + average,
                     TotalCount  |-> h[k].TotalCount + 1], P(k) \cup Q)
        BY <2>2, <2>5, <3>1, <3>2, SummaryGrows
      <3> QED
        BY <2>4, <3>3, <3>4
    <2> QED
      BY <2>6, <2>7
  <1> HIDE DEF T
  <1>7. \A k \in Nat : k \in T
    BY <1>5, <1>6, InductiveSet
  <1>8. Summary(h[n], P(n))
    BY <1>1, <1>7 DEF T
  <1>9. P(n) \in SUBSET (Nat \ {0})
    BY <1>1, <1>4
  <1> HIDE DEF P
  <1> QED
    BY <1>3, <1>8, <1>9 DEF n, P

LEMMA SeqWithin ==
    ASSUME NEW S, NEW G, NEW s \in Seq(S), \A j \in 1 .. Len(s) : s[j] \in G
    PROVE  s \in Seq(G)
  OBVIOUS

\* The gas prices are the extremes of the fees paid, per denomination, and the
\* average is between them: of any blocks, with any number of transactions, whatever
\* cannot be decoded (GetGasPricesByBlocks of gas.go).
THEOREM GasPricesAreSound ==
    ASSUME NEW F, \A fee \in F \ {Undecodable} : fee.amount \in Int, NEW blocks \in Seq(Seq(F))
    PROVE  PricesAreExtremes(blocks)
  <1> DEFINE prices == GetGasPricesByBlocks(blocks)
             paid(denom) == {fee.amount : fee \in UNION {{fee \in ToSet(block) : Pays(fee, denom)} : block \in ToSet(blocks)}}
  <1> SUFFICES ASSUME \A block \in ToSet(blocks) : \A fee \in ToSet(block) \ {Undecodable} : fee.amount > 0,
                      NEW denom \in DOMAIN prices
               PROVE  /\ prices[denom].Low \in paid(denom) /\ \A f \in paid(denom) : prices[denom].Low <= f
                      /\ prices[denom].High \in paid(denom) /\ \A f \in paid(denom) : prices[denom].High >= f
                      /\ prices[denom].Low <= prices[denom].Average
                      /\ prices[denom].Average <= prices[denom].High
    BY DEF PricesAreExtremes
  <1> DEFINE G == {fee \in F : fee # Undecodable => fee.amount > 0}
             n == Len(blocks)
             P == PaidByBlocks(blocks, n, denom)
             total == TotalFees(blocks, denom)
  <1>1. n \in Nat /\ DOMAIN blocks = 1 .. n /\ \A i \in 1 .. n : blocks[i] \in Seq(F)
    OBVIOUS
  <1>2. blocks \in Seq(Seq(G))
    <2>1. ASSUME NEW i \in 1 .. n PROVE blocks[i] \in Seq(G)
      <3>1. blocks[i] \in ToSet(blocks) /\ blocks[i] \in Seq(F)
        BY <1>1 DEF ToSet
      <3>2. \A j \in 1 .. Len(blocks[i]) : blocks[i][j] \in F /\ blocks[i][j] \in ToSet(blocks[i])
        BY <3>1 DEF ToSet
      <3>3. \A j \in 1 .. Len(blocks[i]) : blocks[i][j] \in G
        BY <3>1, <3>2
      <3> HIDE DEF G
      <3> QED
        BY <3>1, <3>3, SeqWithin
    <2> HIDE DEF G
    <2> QED
      BY <1>1, <2>1, SeqWithin DEF n
  <1>3. \A fee \in G : fee # Undecodable => fee.amount \in Nat \ {0}
    OBVIOUS
  <1> HIDE DEF G
  <1>4. P \in SUBSET (Nat \ {0}) /\ Summary(total, P)
    BY <1>2, <1>3, TotalSummary
  <1>5. P = paid(denom)
    <2>1. \A block : block \in ToSet(blocks) <=> \E i \in 1 .. n : block = blocks[i]
      BY <1>1 DEF ToSet
    <2>2. \A x : x \in P <=> \E i \in 1 .. n : x \in Paid(blocks[i], denom)
      BY DEF PaidByBlocks
    <2>3. \A x, block : x \in Paid(block, denom) <=> \E fee \in ToSet(block) : Pays(fee, denom) /\ x = fee.amount
      BY DEF Paid
    <2>4. \A x : x \in paid(denom) <=> \E block \in ToSet(blocks) : \E fee \in ToSet(block) : Pays(fee, denom) /\ x = fee.amount
      <3> DEFINE those(block) == {fee \in ToSet(block) : Pays(fee, denom)}
                 fees == UNION {those(block) : block \in ToSet(blocks)}
      <3>1. \A fee : fee \in fees <=> \E block \in ToSet(blocks) : fee \in those(block)
        OBVIOUS
      <3>2. \A fee, block : fee \in those(block) <=> fee \in ToSet(block) /\ Pays(fee, denom)
        OBVIOUS
      <3>3. paid(denom) = {fee.amount : fee \in fees}
        OBVIOUS
      <3> HIDE DEF fees, those, paid
      <3>4. \A x : x \in paid(denom) <=> \E fee \in fees : x = fee.amount
        BY <3>3
      <3> QED
        BY <3>1, <3>2, <3>4
    <2> HIDE DEF P, n, paid
    <2>5. \A x : x \in P <=> x \in paid(denom)
      BY <2>1, <2>2, <2>3, <2>4
    <2> QED
      BY <2>5
  <1>6. P # {}
    <2>1. PICK block \in ToSet(blocks) : denom \in Denoms(block)
      BY PricesAre
    <2>2. PICK fee \in ToSet(block) : fee # Undecodable /\ fee.denom = denom
      BY <2>1 DEF Denoms
    <2>3. fee.amount \in paid(denom)
      BY <2>2 DEF Pays
    <2> QED
      BY <1>5, <2>3
  <1>7. prices[denom] = CalculateGasPrices(total)
    BY PricesAre
  <1>8. /\ prices[denom].Low = total.Low /\ prices[denom].High = total.High
        /\ prices[denom].Average = total.TotalAmount \div total.TotalCount
    BY <1>7 DEF CalculateGasPrices
  <1> HIDE DEF P, paid, total, prices
  <1>9. /\ total.Low <= total.TotalAmount \div total.TotalCount
        /\ total.TotalAmount \div total.TotalCount <= total.High
    BY <1>4, <1>6, AverageBetween
  <1>10. total.Low \in P /\ total.High \in P /\ \A f \in P : total.Low <= f /\ f <= total.High
    BY <1>4, <1>6 DEF Summary, Least, Greatest
  <1>11. \A f \in P : f \in Nat /\ total.High \in Nat
    BY <1>4, <1>10
  <1>12. \A f \in P : total.High >= f
    BY <1>10, <1>11
  <1> QED
    BY <1>5, <1>8, <1>9, <1>10, <1>12

\* A block with its transactions repeated: the extremes are the same, and there is
\* twice as much of everything.
LEMMA RepeatedBlock ==
    ASSUME NEW F, \A fee \in F : fee # Undecodable => fee.amount \in Nat \ {0}, NEW block \in Seq(F), NEW denom
    PROVE  /\ block \o block \in Seq(F) /\ Denoms(block \o block) = Denoms(block)
           /\ Paid(block \o block, denom) = Paid(block, denom)
           /\ BlockFees(block \o block, denom).TotalAmount = 2 * BlockFees(block, denom).TotalAmount
           /\ BlockFees(block \o block, denom).TotalCount = 2 * BlockFees(block, denom).TotalCount
  <1> DEFINE n == Len(block)
             twice == block \o block
  <1>1. /\ n \in Nat /\ DOMAIN block = 1 .. n /\ twice \in Seq(F) /\ Len(twice) = n + n /\ DOMAIN twice = 1 .. n + n
        /\ \A i \in 1 .. n : block[i] \in F /\ twice[i] = block[i] /\ twice[n + i] = block[i]
    BY ConcatProperties
  <1>2. \A i \in 1 .. n + n : i \notin 1 .. n => i - n \in 1 .. n /\ n + (i - n) = i
    BY <1>1
  <1>3. \A fee \in F : fee # Undecodable => fee.amount \in Nat
    OBVIOUS
  <1>4. PICK h : /\ h[0] = NoInfo
                 /\ \A k \in 0 .. n - 1 : h[k + 1] = AddFee(h[k], block[k + 1], denom)
                 /\ h[n] = BlockFees(block, denom)
    BY <1>3, FeesFold
  <1>5. PICK g : /\ g[0] = NoInfo
                 /\ \A k \in 0 .. Len(twice) - 1 : g[k + 1] = AddFee(g[k], twice[k + 1], denom)
                 /\ g[Len(twice)] = BlockFees(twice, denom)
    BY <1>1, <1>3, FeesFold
  <1> HIDE DEF n, twice
  <1>6. ToSet(twice) = ToSet(block)
    <2>1. ASSUME NEW i \in 1 .. n + n PROVE twice[i] \in ToSet(block)
      <3>1. \A j \in 1 .. n : block[j] \in ToSet(block)
        BY <1>1 DEF ToSet
      <3>2. CASE i \in 1 .. n
        BY <1>1, <3>1, <3>2
      <3>3. CASE i \notin 1 .. n
        <4>1. i - n \in 1 .. n /\ n + (i - n) = i
          BY <1>2, <3>3
        <4>2. twice[n + (i - n)] = block[i - n]
          BY <1>1, <4>1
        <4> QED
          BY <3>1, <4>1, <4>2
      <3> QED
        BY <3>2, <3>3
    <2>2. ASSUME NEW i \in 1 .. n PROVE block[i] \in ToSet(twice)
      <3>1. i \in 1 .. n + n
        BY <1>1
      <3>2. twice[i] \in ToSet(twice)
        BY <1>1, <3>1 DEF ToSet
      <3> QED
        BY <1>1, <3>2
    <2> QED
      BY <1>1, <2>1, <2>2 DEF ToSet
  <1>7. Denoms(twice) = Denoms(block) /\ Paid(twice, denom) = Paid(block, denom)
    BY <1>6 DEF Denoms, Paid
  <1> DEFINE T == {k \in Nat : k <= n => h[k] \in Info /\ g[k] = h[k]}
  <1>8. 0 \in T
    BY <1>4, <1>5 DEF NoInfo, Info
  <1>9. ASSUME NEW k \in Nat, k \in T PROVE k + 1 \in T
    <2> SUFFICES ASSUME k + 1 <= n PROVE h[k + 1] \in Info /\ g[k + 1] = h[k + 1]
      OBVIOUS
    <2>1. k \in 0 .. n - 1 /\ k \in 0 .. Len(twice) - 1 /\ k + 1 \in 1 .. n /\ k <= n
      BY <1>1
    <2>2. h[k] \in Info /\ g[k] = h[k] /\ twice[k + 1] = block[k + 1] /\ block[k + 1] \in F
      BY <1>1, <1>9, <2>1
    <2>3. h[k + 1] = AddFee(h[k], block[k + 1], denom) /\ g[k + 1] = AddFee(g[k], twice[k + 1], denom)
      BY <1>4, <1>5, <2>1
    <2>4. h[k + 1] \in Info
      BY <1>3, <2>2, <2>3, AddFeeType
    <2> QED
      BY <2>2, <2>3, <2>4
  <1> HIDE DEF T
  <1>10. \A k \in Nat : k \in T
    BY <1>8, <1>9, InductiveSet
  <1>11. \A k \in 0 .. n : h[k] \in Info /\ g[k] = h[k]
    BY <1>1, <1>10 DEF T
  <1> DEFINE Sums(k) == /\ g[n + k].TotalAmount = h[n].TotalAmount + h[k].TotalAmount
                        /\ g[n + k].TotalCount = h[n].TotalCount + h[k].TotalCount
             U == {k \in Nat : k <= n => Sums(k)}
  <1>12. 0 \in U
    <2>1. g[n + 0] = h[n] /\ h[n] \in Info
      BY <1>1, <1>11
    <2>2. h[0].TotalAmount = 0 /\ h[0].TotalCount = 0
      BY <1>4 DEF NoInfo
    <2> QED
      BY <2>1, <2>2 DEF Info
  <1>13. ASSUME NEW k \in Nat, k \in U PROVE k + 1 \in U
    <2> SUFFICES ASSUME k + 1 <= n PROVE Sums(k + 1)
      OBVIOUS
    <2> DEFINE fee == block[k + 1]
    <2>1. /\ k \in 0 .. n - 1 /\ k \in 0 .. n /\ n \in 0 .. n /\ n + k \in 0 .. Len(twice) - 1 /\ k + 1 \in 1 .. n
          /\ k <= n /\ (n + k) + 1 = n + (k + 1)
      BY <1>1
    <2>2. h[k] \in Info /\ h[n] \in Info /\ Sums(k) /\ twice[n + (k + 1)] = fee /\ fee \in F
      BY <1>1, <1>11, <1>13, <2>1
    <2>3. h[k + 1] = AddFee(h[k], fee, denom)
      BY <1>4, <2>1
    <2>4. g[n + (k + 1)] = AddFee(g[n + k], fee, denom)
      BY <1>5, <2>1, <2>2
    <2>5. CASE ~Pays(fee, denom)
      BY <2>2, <2>3, <2>4, <2>5 DEF AddFee
    <2>6. CASE Pays(fee, denom)
      <3>1. fee.amount \in Nat
        BY <1>3, <2>2, <2>6 DEF Pays
      <3>2. /\ h[k + 1].TotalAmount = h[k].TotalAmount + fee.amount /\ h[k + 1].TotalCount = h[k].TotalCount + 1
            /\ g[n + (k + 1)].TotalAmount = g[n + k].TotalAmount + fee.amount
            /\ g[n + (k + 1)].TotalCount = g[n + k].TotalCount + 1
        BY <2>3, <2>4, <2>6 DEF AddFee
      <3>3. /\ h[n].TotalAmount \in Nat /\ h[k].TotalAmount \in Nat /\ h[n].TotalCount \in Nat /\ h[k].TotalCount \in Nat
        BY <2>2 DEF Info
      <3>4. /\ g[n + k].TotalAmount = h[n].TotalAmount + h[k].TotalAmount
            /\ g[n + k].TotalCount = h[n].TotalCount + h[k].TotalCount
        BY <2>2
      <3> HIDE DEF fee
      <3>5. g[n + (k + 1)].TotalAmount = h[n].TotalAmount + h[k + 1].TotalAmount
        BY <3>1, <3>2, <3>3, <3>4
      <3>6. g[n + (k + 1)].TotalCount = h[n].TotalCount + h[k + 1].TotalCount
        BY <3>2, <3>3, <3>4
      <3> QED
        BY <3>5, <3>6
    <2> QED
      BY <2>5, <2>6
  <1> HIDE DEF U
  <1>14. \A k \in Nat : k \in U
    BY <1>12, <1>13, InductiveSet
  <1>15. Sums(n)
    BY <1>1, <1>14 DEF U
  <1>16. h[n].TotalAmount \in Nat /\ h[n].TotalCount \in Nat
    BY <1>1, <1>11 DEF Info
  <1>17. g[n + n].TotalAmount = 2 * h[n].TotalAmount /\ g[n + n].TotalCount = 2 * h[n].TotalCount
    BY <1>15, <1>16
  <1>18. g[n + n] = BlockFees(twice, denom)
    BY <1>1, <1>5
  <1> QED
    BY <1>1, <1>4, <1>7, <1>17, <1>18 DEF twice

\* So it counts as much as before.
LEMMA RepeatedCounts ==
    ASSUME NEW F, \A fee \in F : fee # Undecodable => fee.amount \in Nat \ {0}, NEW block \in Seq(F), NEW info, NEW denom
    PROVE  AddBlock(info, block \o block, denom) = AddBlock(info, block, denom)
  <1> DEFINE twice == block \o block
             b == BlockFees(block, denom)
             d == BlockFees(twice, denom)
             P == Paid(block, denom)
  <1>1. /\ twice \in Seq(F) /\ Denoms(twice) = Denoms(block) /\ Paid(twice, denom) = P
        /\ d.TotalAmount = 2 * b.TotalAmount /\ d.TotalCount = 2 * b.TotalCount
    BY RepeatedBlock
  <1> HIDE DEF twice
  <1>2. CASE denom \in Denoms(block)
    <2>1. P # {} /\ P \in SUBSET (Nat \ {0}) /\ Summary(b, P)
      BY <1>2, BlockSummary
    <2>2. Summary(d, P)
      BY <1>1, BlockSummary
    <2> HIDE DEF b, d, P
    <2>3. /\ Least(b.Low, P) /\ Greatest(b.High, P) /\ Least(d.Low, P) /\ Greatest(d.High, P)
          /\ b.TotalAmount \in Nat /\ b.TotalCount \in Nat \ {0}
      BY <2>1, <2>2 DEF Summary, Info
    <2>4. b.Low = d.Low /\ b.High = d.High
      <3>1. b.Low \in Nat /\ d.Low \in Nat /\ b.High \in Nat /\ d.High \in Nat
        BY <2>1, <2>3 DEF Least, Greatest
      <3>2. b.Low <= d.Low /\ d.Low <= b.Low /\ b.High <= d.High /\ d.High <= b.High
        BY <2>3 DEF Least, Greatest
      <3> QED
        BY <3>1, <3>2
    <2>5. (2 * b.TotalAmount) \div (2 * b.TotalCount) = b.TotalAmount \div b.TotalCount
      <3> DEFINE A == b.TotalAmount
                 C == b.TotalCount
                 q == A \div C
                 r == A % C
      <3>1. q \in Nat /\ r \in 0 .. C - 1 /\ A = C * q + r
        BY <2>3, Division
      <3>2. (2 * A) \div (2 * C) \in Nat /\ (2 * A) % (2 * C) \in 0 .. (2 * C) - 1
            /\ 2 * A = (2 * C) * ((2 * A) \div (2 * C)) + ((2 * A) % (2 * C))
        <4>1. 2 * A \in Nat /\ 2 * C \in Nat \ {0}
          BY <2>3
        <4> HIDE DEF A, C
        <4> QED
          BY <4>1, Division
      <3>3. 2 * A = (2 * C) * q + 2 * r /\ 2 * r \in 0 .. (2 * C) - 1 /\ 2 * C \in Nat \ {0} /\ 2 * A \in Nat
        <4> HIDE DEF A, C, q, r
        <4>1. A \in Nat /\ C \in Nat \ {0}
          BY <2>3 DEF A, C
        <4>2. 2 * (C * q) = (2 * C) * q /\ C * q \in Nat
          BY <3>1, <4>1
        <4> QED
          BY <3>1, <4>1, <4>2
      <3> DEFINE D == 2 * C
                 s == 2 * r
                 v == 2 * A
      <3>4. /\ D \in Nat \ {0} /\ v \in Nat /\ q \in Nat /\ v \div D \in Nat /\ s \in 0 .. D - 1 /\ v % D \in 0 .. D - 1
            /\ v = D * q + s /\ v = D * (v \div D) + (v % D)
        BY <3>1, <3>2, <3>3
      <3> HIDE DEF D, s, v, q
      <3>5. v \div D = q
        BY <3>4, QuotientIsUnique
      <3> QED
        BY <3>5 DEF v, D, q
    <2>6. d.TotalAmount \div d.TotalCount = b.TotalAmount \div b.TotalCount
      BY <1>1, <2>5 DEF b, d
    <2>7. ModifyAggregatedInfo(info, d) = ModifyAggregatedInfo(info, b)
      BY <2>4, <2>6 DEF ModifyAggregatedInfo
    <2> QED
      BY <1>1, <1>2, <2>7, AddBlockIs DEF b, d, twice
  <1> QED
    BY <1>1, <1>2, AddBlockIs DEF twice

\* A block weighs the same in the prices of gas.go however many transactions it
\* has: for positive fees, every number of blocks and every block, repeating the
\* transactions of the blocks changes no price.
THEOREM EveryBlockCountsOnce ==
    ASSUME NEW F, \A fee \in F : fee # Undecodable => fee.amount \in Nat \ {0}, NEW blocks \in Seq(Seq(F))
    PROVE  BlocksWeighTheSame(blocks)
  <1> DEFINE n == Len(blocks)
             twice == [i \in DOMAIN blocks |-> blocks[i] \o blocks[i]]
             denoms == UNION {Denoms(block) : block \in ToSet(blocks)}
             denoms2 == UNION {Denoms(block) : block \in ToSet(twice)}
  <1>1. n \in Nat /\ DOMAIN blocks = 1 .. n /\ \A i \in 1 .. n : blocks[i] \in Seq(F)
    OBVIOUS
  <1>2. \A i \in 1 .. n : blocks[i] \o blocks[i] \in Seq(F) /\ Denoms(blocks[i] \o blocks[i]) = Denoms(blocks[i])
    BY <1>1, RepeatedBlock
  <1>3. DOMAIN twice = 1 .. n /\ \A i \in 1 .. n : twice[i] = blocks[i] \o blocks[i] /\ twice[i] \in Seq(F)
    BY <1>1, <1>2
  <1>4. twice \in Seq(Seq(F)) /\ Len(twice) = n
    BY <1>1, <1>2
  <1> HIDE DEF n, twice
  <1>5. denoms2 = denoms
    <2>1. ToSet(blocks) = {blocks[i] : i \in 1 .. n} /\ ToSet(twice) = {twice[i] : i \in 1 .. n}
      BY <1>1, <1>3 DEF ToSet
    <2>2. \A i \in 1 .. n : Denoms(twice[i]) = Denoms(blocks[i])
      BY <1>2, <1>3
    <2> QED
      BY <2>1, <2>2
  <1>6. ASSUME NEW denom PROVE TotalFees(twice, denom) = TotalFees(blocks, denom)
    <2>1. PICK h : /\ h[0] = NoInfo
                   /\ \A k \in 0 .. n - 1 : h[k + 1] = AddBlock(h[k], blocks[k + 1], denom)
                   /\ h[n] = TotalFees(blocks, denom)
      BY BlocksFold DEF n
    <2>2. PICK g : /\ g[0] = NoInfo
                   /\ \A k \in 0 .. Len(twice) - 1 : g[k + 1] = AddBlock(g[k], twice[k + 1], denom)
                   /\ g[Len(twice)] = TotalFees(twice, denom)
      BY <1>4, BlocksFold
    <2> DEFINE T == {k \in Nat : k <= n => g[k] = h[k]}
    <2>3. 0 \in T
      BY <2>1, <2>2
    <2>4. ASSUME NEW k \in Nat, k \in T PROVE k + 1 \in T
      <3> SUFFICES ASSUME k + 1 <= n PROVE g[k + 1] = h[k + 1]
        OBVIOUS
      <3>1. k \in 0 .. n - 1 /\ k + 1 \in 1 .. n /\ k <= n /\ k \in 0 .. Len(twice) - 1
        BY <1>1, <1>4
      <3>2. g[k] = h[k]
        BY <2>4, <3>1
      <3> DEFINE block == blocks[k + 1]
      <3>3. block \in Seq(F) /\ twice[k + 1] = block \o block
        BY <1>1, <1>3, <3>1
      <3>4. h[k + 1] = AddBlock(h[k], block, denom) /\ g[k + 1] = AddBlock(g[k], twice[k + 1], denom)
        BY <2>1, <2>2, <3>1
      <3> HIDE DEF block
      <3>5. AddBlock(h[k], block \o block, denom) = AddBlock(h[k], block, denom)
        BY <3>3, RepeatedCounts
      <3> QED
        BY <3>2, <3>3, <3>4, <3>5
    <2> HIDE DEF T
    <2>5. \A k \in Nat : k \in T
      BY <2>3, <2>4, InductiveSet
    <2>6. g[n] = h[n]
      BY <1>1, <2>5 DEF T
    <2> QED
      BY <1>4, <2>1, <2>2, <2>6
  <1>7. GetGasPricesByBlocks(twice) = [denom \in denoms2 |-> CalculateGasPrices(TotalFees(twice, denom))]
    BY PricesAre
  <1>8. GetGasPricesByBlocks(blocks) = [denom \in denoms |-> CalculateGasPrices(TotalFees(blocks, denom))]
    BY PricesAre
  <1> HIDE DEF denoms, denoms2
  <1>9. GetGasPricesByBlocks(twice) = GetGasPricesByBlocks(blocks)
    BY <1>5, <1>6, <1>7, <1>8
  <1> QED
    BY <1>9 DEF BlocksWeighTheSame, twice

=============================================================================
