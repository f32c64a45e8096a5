----------------------------- MODULE MCQueries -----------------------------
(* The chain of MCStorage and the requests clients make: every combination of *)
(* bounds of the older fields and of the gas prices, and where arguments with *)
(* every operator, nested, at and beyond the bounds.                          *)
EXTENDS Queries

a == <<1>>
b == <<1, 2>>
c == <<2>>
unknown == <<3>>

MCHashes == {a, b, c, unknown}
MCChain == <<<<a>>, <<>>, <<>>, <<b, a>>, <<c>>>>
MCGasUsed == [hash \in {a, b, c} |-> IF hash = a THEN 1 ELSE 2]
MCParseCoins(amount) == Null
MCZeroTime == [instant |-> -1, zone |-> "UTC"]

\* The evaluation of the where arguments.
Arguments == INSTANCE Where
MCEval(type, f, obj) == Arguments!Eval(type, f, obj)
MCMinMax(f, field) == Arguments!MinMax(f, field)

\* Without alternatives, and with bounds that fit their types when raised.
RECURSIVE MCPlain(_)
MCPlain(f) ==
    LET small(k) == IF k = "index" \/ k \in IndexFields THEN 0 .. MaxUint32 - 2 ELSE 0 .. MaxInt64
    IN  /\ "_or" \notin DOMAIN f
        /\ IsSet(f, "_and") => \A i \in DOMAIN f["_and"] : MCPlain(f["_and"][i])
        /\ \A k \in DOMAIN f \cap {"height", "block_height", "index"} : \A op \in DOMAIN f[k] : f[k][op] \in small(k)
        /\ \A k \in DOMAIN f \cap (HeightFields \cup IndexFields) : f[k] \in small(k)

On(field, f) == field :> f
AllOf(f, g) == "_and" :> <<f, g>>
AnyOf(f, g) == "_or" :> <<f, g>>
Without(f) == "_not" :> f

\* Every pair of an element of s and an element of t.
Pairs(s, t) == [n \in 1 .. Len(s) * Len(t) |-> <<s[((n - 1) \div Len(t)) + 1], t[((n - 1) % Len(t)) + 1]>>]

\* A bound that is not given.
CONSTANT Absent
Given(k, bound) == IF bound = Absent THEN Empty ELSE k :> bound

HeightPairs == Pairs(<<-1, 0, 2, 3>>, <<Absent, -1, 0, 2, 4>>)
TxBounds == Pairs(Pairs(<<0, 3>>, <<Absent, 0, 2, 3>>), Pairs(<<0, 1>>, <<Absent, -1, 0, 1, 4>>))

OldBlocks == [n \in DOMAIN HeightPairs |->
    [field |-> "blocks",
     filter |-> Given("from_height", HeightPairs[n][1]) @@ Given("to_height", HeightPairs[n][2])]]
OldTxs == [n \in DOMAIN TxBounds |->
    [field |-> "transactions",
     filter |-> Given("from_block_height", TxBounds[n][1][1]) @@ Given("to_block_height", TxBounds[n][1][2])
             @@ Given("from_index", TxBounds[n][2][1]) @@ Given("to_index", TxBounds[n][2][2])]]
Others ==
    <<[field |-> "blocks", filter |-> [from_time |-> [instant |-> 2, zone |-> "UTC"]]],
      [field |-> "transactions", filter |-> [from_gas_used |-> 2]],
      [field |-> "transactions", filter |-> [hash |-> a, from_gas_used |-> 2]],
      [field |-> "transactions", filter |-> [hash |-> unknown]],
      [field |-> "gasPrice"], [field |-> "latestBlockHeight"],
      [field |-> "gasRange", filter |-> [from_height |-> 2, to_height |-> 3]],
      [field |-> "gasRange", filter |-> [from_height |-> 0, to_height |-> 0]],
      [field |-> "getBlock", height |-> 3], [field |-> "getTx", height |-> 3, index |-> 1],
      [field |-> "getTx", height |-> 3, index |-> 5],
      [field |-> "getTxByHash", filter |-> [hash |-> b]], [field |-> "getTxByHash", filter |-> [hash |-> unknown]]>>

\* Conditions on one number.
Heights(k) ==
    <<On(k, [eq |-> 0]), On(k, [eq |-> 3]), On(k, [gt |-> 0, lt |-> 4]), On(k, [gt |-> 1, eq |-> 3]), On(k, [gt |-> 3]),
      On(k, [lt |-> 3]),
      On(k, [gt |-> -1]), AllOf(On(k, [gt |-> 1]), On(k, [lt |-> 4])), AllOf(On(k, [eq |-> 3]), On(k, [eq |-> 3])),
      Without(On(k, [eq |-> 3])), On(k, [eq |-> 3]) @@ Without(On(k, [gt |-> 2])), AnyOf(On(k, [eq |-> 0]), On(k, [gt |-> 2]))>>
BlockWheres ==
    Heights("height") \o <<Empty, On("num_txs", [gt |-> 0]), On("height", [gt |-> 1]) @@ On("num_txs", [eq |-> 0]),
                           AnyOf(On("height", [eq |-> 3]), On("num_txs", [eq |-> 0])),
                           AllOf(On("height", [gt |-> 0]), AnyOf(On("height", [gt |-> 3]), On("height", [lt |-> 2])))>>
TxWheres ==
    Heights("block_height") \o
    <<On("index", [eq |-> 1]), On("index", [lt |-> 1]), On("index", [gt |-> 0]) @@ On("block_height", [eq |-> 3]),
      On("hash", [eq |-> a]), On("hash", [eq |-> b]) @@ On("index", [eq |-> 1]), On("hash", [eq |-> unknown]),
      AllOf(On("hash", [eq |-> a]), On("block_height", [lt |-> 4])), On("gas_used", [gt |-> 1]),
      AnyOf(On("hash", [eq |-> c]), On("index", [eq |-> 1]))>>

Ordered(field, wheres, order) == [n \in DOMAIN wheres |-> [field |-> field, filter |-> wheres[n], order |-> order]]

\* Alternatives of which one bounds the height.
MCAlternatives == Ordered("getBlocks", <<AnyOf(On("height", [eq |-> 3]), On("num_txs", [eq |-> 0]))>>, "ASC")

\* Upper bounds of the older fields, with elements at them.
MCUpperBounds ==
    <<[field |-> "blocks", filter |-> [to_height |-> 2]],
      [field |-> "transactions", filter |-> [to_block_height |-> 3, to_index |-> 1]]>>

MCRequests ==
    OldBlocks \o OldTxs \o Others
    \o Ordered("getBlocks", BlockWheres, "DESC") \o Ordered("getBlocks", BlockWheres, "ASC")
    \o Ordered("getTransactions", TxWheres, "DESC") \o Ordered("getTransactions", TxWheres, "ASC")

=============================================================================
