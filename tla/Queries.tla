------------------------------- MODULE Queries -------------------------------
(***************************************************************************)
(* The queries over the store: the query resolvers of GraphQL              *)
(* (src/serve/graph/all.resolvers.go) and the JSON-RPC read handlers       *)
(* (src/serve/handlers/block, tx and gas), one request at a time, while    *)
(* the writer of Storage commits and rolls back.                           *)
(*                                                                         *)
(* A block is its height, a transaction its height and index; what the     *)
(* filters look at is BlockAt and TxAt.  The conversion to API objects is  *)
(* Conversions.  The older filters are those of LegacyFilters; what a      *)
(* where argument selects, and the bounds derived from it, are parameters  *)
(* here: Eval and MinMax of Where.                                         *)
(***************************************************************************)
EXTENDS Storage, LegacyFilters

CONSTANTS Requests,            \* the requests clients make: a sequence
          GasUsed,             \* the gas used by the transaction of a hash
          MaxElements,         \* maxElementsPerQuery
          BlockRangeSize,      \* DefaultBlockRangeSize
          WhereEval(_, _, _),  \* whether a where argument of a type selects an object
          WhereMinMax(_, _),   \* the bounds of a field a where argument implies
          Plain(_)             \* filters without alternatives, with bounds that fit their types when raised

ASSUME QueriesAssumption ==
    /\ MaxElements \in Nat \ {0} /\ BlockRangeSize \in Nat
    /\ Null \notin Seq(Nat \X Nat)

VARIABLE req    \* the request being served

queryVars == <<db, batch, writer, iter, lookup, asOf, req>>

NoReq == [id |-> 0]

\* out is the data collected, or Null; latest is the height a gas price request
\* was told; fault is history: the engine failed.
Serving(id) ==
    [id |-> id, out |-> <<>>, latest |-> 0, answered |-> FALSE, error |-> FALSE, fault |-> FALSE]

Ask == Requests[req.id]

Asked(id, field) == req = NoReq /\ Requests[id].field = field

Respond(data, error) == req' = [req EXCEPT !.out = data, !.error = error, !.answered = TRUE]

\* The response to a request that is answered at once.
RespondTo(id, data, error) ==
    req' = [Serving(id) EXCEPT !.out = data, !.error = error, !.answered = TRUE]

QInit == Init /\ req = NoReq

-----------------------------------------------------------------------------
(* What a filter sees. *)

BlockAt(h) == [height |-> h, num_txs |-> Len(Chain[h + 1]), time |-> [instant |-> h, zone |-> "UTC"]]

TxAt(h, i) ==
    LET hash == Chain[h + 1][i + 1]
    IN  [block_height |-> h, index |-> i, hash |-> hash, gas_used |-> GasUsed[hash], gas_wanted |-> GasUsed[hash]]

Now == [instant |-> Len(Chain), zone |-> "UTC"]

\* The filter of a request, on the element at a position.
Selects(ask, p) ==
    CASE ask.field = "blocks" -> FilteredBlockBy(BlockAt(p[1]), ask.filter, Now)
      [] ask.field = "transactions" -> FilteredTransactionBy(TxAt(p[1], p[2]), ask.filter)
      [] ask.field = "getBlocks" -> WhereEval("FilterBlock", ask.filter, BlockAt(p[1]))
      [] ask.field = "getTransactions" -> WhereEval("FilterTransaction", ask.filter, TxAt(p[1], p[2]))
      [] OTHER -> TRUE

-----------------------------------------------------------------------------
(* The bounds of the iterators. *)

\* An int as an unsigned integer of a width.
ToUint(n, max) == n % (max + 1)

Value(pointer) == IF pointer = Null THEN 0 ELSE pointer.value

From(bounds, max) == ToUint(Value(bounds.min), max)

\* Deviation of UpTo: the upper bound of gt and lt, which are exclusive, is lowered.
UpToExclusive(bounds, max) ==
    LET to == ToUint(Value(bounds.max), max)
    IN  IF bounds.max # Null /\ bounds.min # bounds.max /\ to > 0 THEN to - 1 ELSE to

\* When the two bounds are one pointer the upper one is raised.
UpTo(bounds, max) ==
    LET to == ToUint(Value(bounds.max), max)
    IN  IF bounds.max # Null /\ bounds.min = bounds.max THEN ToUint(to + 1, max) ELSE to

Direction(ask) == IF ask.order = "DESC" THEN "backward" ELSE "forward"

-----------------------------------------------------------------------------
(* The requests that open an iterator. *)

Blocks(id) ==
    /\ Asked(id, "blocks")
    /\ LET f == Requests[id].filter
       IN  OpenBlocks("forward", ToUint(Deref(f, "from_height", 0), MaxUint64),
                      ToUint(Deref(f, "to_height", 0), MaxUint64))
    /\ req' = Serving(id)

GetBlocks(id) ==
    /\ Asked(id, "getBlocks")
    /\ LET bounds == WhereMinMax(Requests[id].filter, "height")
       IN  OpenBlocks(Direction(Requests[id]), From(bounds, MaxUint64), UpTo(bounds, MaxUint64))
    /\ req' = Serving(id)

Transactions(id) ==
    /\ Asked(id, "transactions")
    /\ LET f == Requests[id].filter
       IN  /\ ~IsSet(f, "hash")
           /\ OpenTxs("forward", ToUint(Deref(f, "from_block_height", 0), MaxUint64),
                   ToUint(Deref(f, "to_block_height", 0), MaxUint64),
                   ToUint(Deref(f, "from_index", 0), MaxUint32), ToUint(Deref(f, "to_index", 0), MaxUint32))
    /\ req' = Serving(id)

\* A hash that must be equal, without alternatives, is looked up.
HashWanted(f) == IsSet(f, "hash") /\ IsSet(f.hash, "eq") /\ (IsSet(f, "_or") => f["_or"] = <<>>)

GetTransactions(id) ==
    /\ Asked(id, "getTransactions")
    /\ LET f == Requests[id].filter
           heights == WhereMinMax(f, "block_height")
           indexes == WhereMinMax(f, "index")
       IN  /\ ~HashWanted(f)
           /\ OpenTxs(Direction(Requests[id]), From(heights, MaxUint64), UpTo(heights, MaxUint64),
                      From(indexes, MaxUint32), UpTo(indexes, MaxUint32))
    /\ req' = Serving(id)

\* GetGasPriceHandler without parameters: the latest height is read first.
GetGasPrice(id) ==
    /\ Asked(id, "gasPrice")
    /\ IF Saved = 0 THEN RespondTo(id, Null, TRUE)
                    ELSE req' = [Serving(id) EXCEPT !.latest = Saved - 1]
    /\ UNCHANGED vars

\* initializeDefaultBlockRangeByHeight
DefaultFrom(latest) == IF latest > BlockRangeSize THEN latest - BlockRangeSize ELSE 0

\* GetGasPriceHandler with a range; what cannot be parsed is 0
\* (parseBlockRangeByParams).
GetGasPriceOfRange(id) ==
    /\ Asked(id, "gasRange")
    /\ OpenBlocks("forward", Requests[id].filter.from_height, Requests[id].filter.to_height)
    /\ req' = Serving(id)

\* getGasPriceBy
OpenGasPrice ==
    /\ req # NoReq /\ Ask.field = "gasPrice" /\ ~req.answered
    /\ OpenBlocks("forward", DefaultFrom(req.latest), req.latest)
    /\ UNCHANGED req

-----------------------------------------------------------------------------
(* The loop over an iterator. *)

Looping == req # NoReq /\ iter # NoIter /\ ~req.answered

\* The handler of gas prices takes every block, in any number.
IsGas == Ask.field \in {"gasPrice", "gasRange"}

LimitReached == ~IsGas /\ Len(req.out) = MaxElements

\* "max elements per query reached"
StopAtLimit ==
    /\ Looping /\ LimitReached
    /\ Respond(req.out, TRUE)
    /\ UNCHANGED vars

\* The next element, kept if it matches; or the end, and the response.
NextElement ==
    /\ Looping /\ ~LimitReached
    /\ IterNext
    /\ IF iter'.done THEN Respond(req.out, FALSE)
       ELSE LET p == Position(Last(iter'.got))
            IN  req' = [req EXCEPT !.out = IF Selects(Ask, p) THEN Append(@, p) ELSE @]

\* Next ends early and it.Error() is set: the resolvers return it, and gqlgen
\* drops the data with it; the gas price handler does not look.
IterFails ==
    /\ Looping /\ ~LimitReached /\ ~iter.done
    /\ req' = [req EXCEPT !.out = IF IsGas THEN @ ELSE Null, !.error = ~IsGas, !.answered = TRUE, !.fault = TRUE]
    /\ UNCHANGED vars

\* ctx is done, or the element cannot be decoded: what there is, with an error.
\* The gas price handler returns the wrong error variable: no data, no error.
ElementFails ==
    /\ Looping /\ ~LimitReached /\ iter.left # {}
    /\ req' = [req EXCEPT !.out = IF IsGas THEN Null ELSE @, !.error = ~IsGas, !.answered = TRUE, !.fault = TRUE]
    /\ UNCHANGED vars

\* The response is sent, the deferred Close runs.
Close ==
    /\ req # NoReq /\ req.answered
    /\ IF iter # NoIter THEN CloseIter ELSE UNCHANGED vars
    /\ req' = NoReq

-----------------------------------------------------------------------------
(* The requests for one element. *)

LatestBlockHeight(id) ==
    /\ Asked(id, "latestBlockHeight")
    /\ IF Saved = 0 THEN RespondTo(id, Null, TRUE) ELSE RespondTo(id, <<<<Saved - 1, 0>>>>, FALSE)
    /\ UNCHANGED vars

\* GetBlockHandler: null for an unknown block.
GetBlockHandler(id) ==
    /\ Asked(id, "getBlock")
    /\ LET n == Requests[id].height
       IN  RespondTo(id, IF KeyBlock(n) \in DOMAIN db THEN <<<<n, 0>>>> ELSE Null, FALSE)
    /\ UNCHANGED vars

\* GetTxHandler: the index is a uint64 cut to a uint32.
GetTxHandler(id) ==
    /\ Asked(id, "getTx")
    /\ LET n == Requests[id].height
           i == ToUint(Requests[id].index, MaxUint32)
       IN  RespondTo(id, IF KeyTx(n, i) \in DOMAIN db THEN <<<<n, i>>>> ELSE Null, FALSE)
    /\ UNCHANGED vars

\* Whether a request is answered by GetTxByHash, and with which hash.
ByHash(ask) ==
    \/ ask.field = "getTxByHash"
    \/ ask.field = "transactions" /\ IsSet(ask.filter, "hash")
    \/ ask.field = "getTransactions" /\ HashWanted(ask.filter)

HashOf(ask) == IF ask.field = "getTransactions" THEN ask.filter.hash.eq ELSE ask.filter.hash

\* The index is read; an unknown hash is an error of the resolvers and a null
\* of the handler.
FindHash(id) ==
    /\ req = NoReq /\ ByHash(Requests[id])
    /\ LET hash == HashOf(Requests[id])
       IN  IF KeyHashTx(hash) \in DOMAIN db
           THEN LookupIndex(hash) /\ req' = Serving(id)
           ELSE RespondTo(id, Null, Requests[id].field # "getTxByHash") /\ UNCHANGED vars

\* The transaction is read: of getTransactions only if it matches, and of
\* transactions whatever else the filter says.
FindTx ==
    /\ req # NoReq /\ lookup # NoLookup
    /\ LookupTx
    /\ LET rest == AfterString(lookup.key)
           p == <<DecodeUint(SubSeq(rest, 1, HeightBytes)), TxIdx(lookup.key)>>
       IN  Respond(IF Ask.field = "getTransactions" /\ ~Selects(Ask, p) THEN <<>> ELSE <<p>>, FALSE)

-----------------------------------------------------------------------------
(* The requests, and what the filters do with them. *)

\* The positions of the blocks, and of the transactions, of the first n blocks.
Saves(n) == {<<h, 0>> : h \in 0 .. n - 1}
SavesTxs(n) == UNION {{<<h, i>> : i \in 0 .. Len(Chain[h + 1]) - 1} : h \in 0 .. n - 1}

\* The fields of the older filters that bound an iterator.
HeightFields == {"from_height", "to_height", "from_block_height", "to_block_height"}
IndexFields == {"from_index", "to_index"}

\* The bounds that are there are in a set, and an element is within them.
Pointers(bounds, S) == \A b \in {bounds.min, bounds.max} : b = Null \/ b.value \in S
Admit(bounds, n) ==
    (bounds.min # Null => bounds.min.value <= n) /\ (bounds.max # Null => n <= bounds.max.value)

\* Every request is well typed.
ASSUME RequestsAssumption ==
    \A id \in DOMAIN Requests :
        LET ask == Requests[id]
        IN  /\ ask.field \in {"blocks", "transactions"} =>
                   \A k \in DOMAIN ask.filter \cap (HeightFields \cup IndexFields) : ask.filter[k] \in Int
            /\ ask.field = "getBlocks" => Pointers(WhereMinMax(ask.filter, "height"), Int)
            /\ ask.field = "getTransactions" =>
                   Pointers(WhereMinMax(ask.filter, "block_height"), Int) /\ Pointers(WhereMinMax(ask.filter, "index"), Int)
            /\ ask.field = "gasRange" =>
                   /\ {"from_height", "to_height"} \subseteq DOMAIN ask.filter
                   /\ ask.filter.from_height \in 0 .. MaxUint64 /\ ask.filter.to_height \in 0 .. MaxUint64
            /\ ByHash(ask) => HashOf(ask) \in Hashes

\* The bounds of a plain filter fit their types, and what the filter selects is
\* within them.
ASSUME PlainAssumption ==
    \A id \in DOMAIN Requests :
        LET ask == Requests[id]
            heights == 0 .. MaxInt64
            indexes == 0 .. MaxUint32 - 2
            bounds(field) == WhereMinMax(ask.filter, field)
        IN  /\ (ask.field \in {"blocks", "transactions", "gasRange"} /\ Plain(ask.filter)) =>
                   /\ \A k \in DOMAIN ask.filter \cap HeightFields : ask.filter[k] \in heights
                   /\ \A k \in DOMAIN ask.filter \cap IndexFields : ask.filter[k] \in indexes
            /\ (ask.field = "getBlocks" /\ Plain(ask.filter)) =>
                   /\ Pointers(bounds("height"), heights)
                   /\ \A p \in Saves(Len(Chain)) : Selects(ask, p) => Admit(bounds("height"), p[1])
            /\ (ask.field = "getTransactions" /\ Plain(ask.filter)) =>
                   /\ Pointers(bounds("block_height"), heights) /\ Pointers(bounds("index"), indexes)
                   /\ \A p \in SavesTxs(Len(Chain)) :
                          Selects(ask, p) => Admit(bounds("block_height"), p[1]) /\ Admit(bounds("index"), p[2])

-----------------------------------------------------------------------------

Request(id) ==
    \/ Blocks(id) \/ GetBlocks(id) \/ Transactions(id) \/ GetTransactions(id) \/ GetGasPrice(id)
    \/ GetGasPriceOfRange(id) \/ LatestBlockHeight(id) \/ GetBlockHandler(id) \/ GetTxHandler(id) \/ FindHash(id)

QNext ==
    \/ Writer /\ UNCHANGED req
    \/ \E id \in DOMAIN Requests : Request(id)
    \/ OpenGasPrice \/ StopAtLimit \/ NextElement \/ IterFails \/ ElementFails \/ FindTx
    \/ Close

QSpec == QInit /\ [][QNext]_queryVars

-----------------------------------------------------------------------------
(* Properties. *)

\* The elements an answer may have, of those saved when its iterator was opened:
\* for the where arguments all that match, for the older filters those within
\* the bounds, with what lies at the upper ones, where 0 is none, and of
\* transactions also the block after the last.
Wanted(ask) ==
    LET bound(k) == Deref(ask.filter, k, 0)
        upTo(n, k) == bound(k) = 0 \/ n <= bound(k)
    IN  {p \in IF ask.field \in {"blocks", "getBlocks", "gasRange"} THEN Saves(asOf) ELSE SavesTxs(asOf) :
            /\ Selects(ask, p)
            /\ ask.field \in {"blocks", "gasRange"} => p[1] >= bound("from_height") /\ upTo(p[1], "to_height")
            /\ ask.field = "transactions" =>
                   /\ p[1] >= bound("from_block_height") /\ upTo(p[1] - 1, "to_block_height")
                   /\ p[2] >= bound("from_index") /\ upTo(p[2], "to_index")}

\* Whether an element lies strictly below the upper bounds the older filters give.
BelowUpperBounds(ask, p) ==
    LET below(n, k) == IsSet(ask.filter, k) => n < ask.filter[k]
    IN  /\ ask.field = "blocks" => below(p[1], "to_height")
        /\ ask.field = "transactions" =>
               /\ below(p[1], "to_block_height") /\ below(p[2], "to_index")
               /\ below(TxAt(p[1], p[2]).gas_used, "to_gas_used")
               /\ below(TxAt(p[1], p[2]).gas_wanted, "to_gas_wanted")

\* The elements an answer must have.  The upper bounds of the older fields are
\* documented as exclusive and are inclusive: what lies at them is left open here,
\* and is what UpperBoundsAreExclusive is about.
Demanded(ask) == {p \in Wanted(ask) : BelowUpperBounds(ask, p)}

InOrder(ask, seq) ==
    \A m, n \in DOMAIN seq : m < n =>
        IF ask.field \in {"getBlocks", "getTransactions"} /\ ask.order = "DESC" THEN Before(seq[n], seq[m])
                                                                            ELSE Before(seq[m], seq[n])

\* An answer without errors has every matching element that was saved when the
\* request opened its iterator, and no other, in the order asked for, while the
\* writer goes on; an answer cut short by the limit, by a timeout or by an
\* element that cannot be decoded has the first of them.  Whether an element at
\* an upper bound of the older fields matches is not decided.
AnswersAreExact ==
    (req # NoReq /\ iter # NoIter /\ Ask.field # "gasPrice" /\ Plain(Ask.filter)) =>
        LET got == IF req.out = Null THEN <<>> ELSE req.out
        IN  /\ ToSet(got) \subseteq Wanted(Ask) /\ InOrder(Ask, got)
            /\ (req.answered /\ ~req.error /\ ~req.fault) => Demanded(Ask) \subseteq ToSet(got)
            /\ \A p \in ToSet(got), q \in Demanded(Ask) \ ToSet(got) : InOrder(Ask, <<p, q>>)

\* The gas prices asked for without a range are those of the last blocks up to
\* the height that was the latest when the request came, all of them, although
\* the height and the blocks are read one after the other; at height 0 of every
\* block there is by then.
GasWindowIsFull ==
    (req # NoReq /\ Ask.field = "gasPrice" /\ req.answered /\ ~req.error /\ ~req.fault) =>
        ToSet(req.out) = {p \in Saves(IF req.latest = 0 THEN asOf ELSE req.latest + 1) : p[1] >= req.latest - BlockRangeSize}

\* src/serve/graph/gen/generate.go, of getBlocks: "Fetches Blocks matching the
\* specified where criteria."  No alternative is lost.
WhereIsComplete ==
    (req # NoReq /\ iter # NoIter /\ Ask.field = "getBlocks" /\ req.answered /\ ~req.error) =>
        ToSet(req.out) = Wanted(Ask)

\* src/serve/graph/schema/filter/block_filter.graphql, of to_height: "Maximum block
\* height up to which Blocks should be fetched, exclusive."  The like is said of
\* to_block_height, to_index and the upper gas bounds of transactions: no element
\* of an answer lies at an upper bound, or above.
UpperBoundsAreExclusive ==
    (req # NoReq /\ iter # NoIter /\ Ask.field \in {"blocks", "transactions"} /\ req.out # Null) =>
        \A p \in ToSet(req.out) : BelowUpperBounds(Ask, p)

=============================================================================
