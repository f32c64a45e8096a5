---------------------------- MODULE MCFunctions ----------------------------
(***************************************************************************)
(* The pure functions of the program, each called on every input of a      *)
(* bounded set: the division of heights into ranges, the gas prices, the   *)
(* filters of both kinds and the execution of a query.                     *)
(***************************************************************************)
EXTENDS Execution, Where, LegacyFilters, FiniteSetsExt, TLC

CONSTANTS MaxEnd,     \* bound: the highest height
          MaxSize,    \* bound: maxChunkSize
          MaxSlots    \* bound: maxSlots

Slot == INSTANCE Slots
Gas == INSTANCE GasPrices

VARIABLE call    \* the function being called, and its arguments

NoCall == [fn |-> "none"]

-----------------------------------------------------------------------------
(* Slots: up to three disjoint reservations between start and end, with holes *)
(* before, between and behind them, as in src/fetch/slots_test.go.            *)

Ranges == {r \in [from : 1 .. MaxEnd, to : 1 .. MaxEnd] : r.from <= r.to}
Queues ==
    {{}} \cup {Q \in {{r, s, t} : r, s, t \in Ranges} : \A r, s \in Q : r # s => ~Slot!Overlap(r, s)}

CallReserve ==
    \E queue \in Queues, start \in 1 .. 2, size \in 1 .. MaxSize : \E end \in start .. MaxEnd :
        /\ Slot!Heights(queue) \subseteq start .. end
        /\ \E slots \in Cardinality(queue) .. MaxSlots :
               call' = [fn |-> "reserve", queue |-> queue, start |-> start, end |-> end, size |-> size, slots |-> slots]

-----------------------------------------------------------------------------
(* Gas prices: two blocks of up to two transactions. *)

Fee(denom, amount) == [denom |-> denom, amount |-> amount]
GasBlocks == SeqOf({Undecodable, Fee("ugnot", 1), Fee("ugnot", 4), Fee("foo", 2)}, 2)

CallGasPrices == \E blocks \in SeqOf(GasBlocks, 2) : call' = [fn |-> "gas", blocks |-> blocks]

-----------------------------------------------------------------------------
(* Transactions and blocks: every string is "", "x" or "y", every number 1 or 2. *)

MCParseCoins(amount) ==
    CASE amount = "" -> <<>> [] amount = "x" -> <<Fee("x", 1)>> [] OTHER -> <<Fee("x", 1), Fee("y", 2)>>
MCZeroTime == [instant |-> 0, zone |-> "UTC"]
Time(n) == [instant |-> n, zone |-> "UTC"]

Package(s) == [name |-> s, path |-> "x", files |-> <<[name |-> s, body |-> "y"]>>]
Send(s, casts) == [route |-> "bank", type |-> "send", casts |-> casts, value |-> [from |-> s, to |-> "x", amount |-> s]]
Call(s, casts, args) ==
    [route |-> "vm", type |-> "exec", casts |-> casts,
     value |-> [caller |-> s, send |-> s, maxDeposit |-> "", pkgPath |-> "x", func |-> s, args |-> args]]
WithPackage(type, s, casts) ==
    [route |-> "vm", type |-> type, casts |-> casts,
     value |-> [caller |-> s, send |-> s, maxDeposit |-> "x", package |-> Package(s)]]
Other == [route |-> "x", type |-> "y", casts |-> TRUE, value |-> [raw |-> "x"]]

GnoEvent(s, attrs) ==
    [kind |-> "GnoEvent", marshals |-> TRUE, parses |-> TRUE, data |-> s,
     value |-> [type |-> s, pkg_path |-> "x", attrs |-> attrs]]
Attr(s) == [key |-> s, value |-> "x"]
Deposit(parses) ==
    [kind |-> "StorageDepositEvent", marshals |-> TRUE, parses |-> parses, data |-> "y",
     value |-> [bytes_delta |-> 1, fee_delta |-> Fee("x", 1), pkg_path |-> "y"]]
Unlock(marshals) ==
    [kind |-> "StorageUnlockEvent", marshals |-> marshals, parses |-> TRUE, data |-> "x",
     value |-> [bytes_delta |-> 2, fee_refund |-> Fee("y", 2), pkg_path |-> "x"]]

Tx(s, n, msgs) == [memo |-> s, gas_wanted |-> n, gas_fee |-> Fee(s, n), msgs |-> msgs]
Result(s, n, ok, events, tx) ==
    [index |-> n, hash |-> s, raw |-> s, height |-> n, ok |-> ok, gas_wanted |-> 2, gas_used |-> n, log |-> s,
     info |-> "x", data |-> s, error |-> "y", events |-> events, tx |-> tx]

\* What the filters are evaluated on.
Results ==
    {Result("x", 1, TRUE, <<GnoEvent("x", <<>>), Deposit(TRUE)>>, Tx("x", 1, <<Send("x", TRUE), Call("y", TRUE, <<"x", "">>)>>)),
     Result("y", 2, FALSE, <<GnoEvent("y", <<Attr("x"), Attr("y")>>), Unlock(TRUE)>>, Tx("y", 2, <<WithPackage("run", "y", TRUE)>>)),
     Result("x", 2, TRUE, <<Unlock(FALSE), Deposit(FALSE)>>, Tx("", 2, <<Call("x", TRUE, Null), Other>>)),
     Result("y", 1, TRUE, <<>>, Tx("x", 1, <<WithPackage("add_package", "x", TRUE), Call("x", FALSE, Null)>>)),
     Result("x", 1, FALSE, <<>>, Undecodable)}

\* And results with messages that do not survive cast.
BrokenResults ==
    {Result("x", 1, TRUE, <<Deposit(TRUE)>>, Tx("x", 1, <<WithPackage("run", "x", FALSE), Call("x", TRUE, Null)>>)),
     Result("y", 2, TRUE, <<>>, Tx("x", 1, <<WithPackage("add_package", "x", FALSE), Send("y", FALSE)>>))}

Header(s, n) ==
    [f \in DOMAIN BlockObject \ {"txs", "last_commit_hash"} |->
        IF BlockObject[f].type = "Int" THEN n ELSE IF BlockObject[f].type = "Time" THEN Time(n) ELSE s]
MCBlock(s, n, commit, txs) == [header |-> [last_commit_hash |-> commit] @@ Header(s, n), txs |-> txs]
BlockTx(s, tx) == [hash |-> s, raw |-> s, tx |-> tx]
RawBlocks ==
    {MCBlock("x", 1, Null, <<BlockTx("x", Tx("x", 1, <<>>)), BlockTx("y", Undecodable)>>),
     MCBlock("y", 2, "x", <<BlockTx("x", Tx("y", 2, <<>>)), BlockTx("y", Tx("x", 1, <<>>))>>),
     MCBlock("y", 1, "y", <<>>)}

-----------------------------------------------------------------------------
(* Filters: one condition on every field an input type has, and its negation. *)

Leaves ==
    [Boolean |-> BOOLEAN, Int |-> {1, 2}, String |-> {"", "x"}, Time |-> {Time(1), Time(2)},
     MessageRoute |-> MessageRoute, MessageType |-> MessageType, Order |-> Order]

WhereLeaves ==
    [FilterBoolean |-> {[eq |-> TRUE], [exists |-> FALSE]},
     FilterInt |-> {[eq |-> 1], [gt |-> 1], [lt |-> 2, eq |-> Null]},
     FilterString |-> {[eq |-> "x"], [like |-> {"y"}], [exists |-> FALSE, eq |-> "y"]},
     FilterTime |-> {[eq |-> Time(1)], [before |-> Time(2)], [after |-> Time(1), before |-> Null]}]

RECURSIVE Samples(_)
Samples(type) ==
    IF type \in DOMAIN Leaves THEN Leaves[type]
    ELSE IF type \in DOMAIN WhereLeaves THEN WhereLeaves[type]
    ELSE LET fields == DOMAIN InputTypes[type] \ {"storage_deposit_event", "storage_unlock_event"}
             one == UNION {{k :> (IF IsList(type, k) THEN <<s>> ELSE s) : s \in Samples(FieldType(type, k))} : k \in fields}
         IN  IF type \in DOMAIN EvalTypes THEN one \cup {"_not" :> s : s \in one} ELSE one

\* Two conditions, of which one is in more.
Both(S, more) == UNION {{op :> <<s, t>> : s \in S, t \in more} : op \in {"_and", "_or"}}

TxWheres ==
    LET S == Samples("FilterTransaction")
    IN  S \cup Both(S, {"success" :> [eq |-> TRUE], "messages" :> ("route" :> [eq |-> "vm"])})
BlockWheres ==
    LET S == Samples("FilterBlock") IN S \cup Both(S, {"height" :> [gt |-> 1], "txs" :> ("memo" :> [eq |-> "x"])})

CallEval ==
    \/ \E where \in TxWheres, r \in Results :
           call' = [fn |-> "eval", type |-> "Transaction", where |-> where, obj |-> NewTransaction(r)]
    \/ \E where \in BlockWheres, b \in RawBlocks :
           call' = [fn |-> "eval", type |-> "Block", where |-> where, obj |-> NewBlock(b)]

\* The older filters: one condition, or two.
OldFilters ==
    LET S == Samples("TransactionFilter")
        more == {[success |-> TRUE], [message |-> <<[route |-> "vm"], [type_url |-> "send"]>>],
                 [events |-> <<[gno_event |-> [pkg_path |-> "y"]], [gno_event |-> [type |-> "x"]]>>], [to_gas_used |-> 1]}
        two(f, g) == [k \in DOMAIN f \cup DOMAIN g |->
                         IF k \notin DOMAIN g THEN f[k] ELSE IF k \notin DOMAIN f THEN g[k]
                         ELSE IF k \in {"message", "events"} THEN f[k] \o g[k] ELSE g[k]]
    IN  S \cup {two(f, g) : f \in S, g \in more}

CallFilter ==
    \E f \in OldFilters, r \in Results :
        call' = [fn |-> "filter", filter |-> Unmarshal("TransactionFilter", f), tx |-> NewTransaction(r)]

-----------------------------------------------------------------------------
(* The execution of a query. *)

CallQuery == \E results \in SeqOf(Results \cup BrokenResults, 2) : call' = [fn |-> "query", results |-> results]

Return == call # NoCall /\ call' = NoCall

FNext ==
    \/ call = NoCall /\ (CallReserve \/ CallGasPrices \/ CallEval \/ CallFilter \/ CallQuery)
    \/ Return

FSpec == call = NoCall /\ [][FNext]_call

-----------------------------------------------------------------------------
(* Properties. *)

\* findGaps returns each free height between start and end in exactly one range
\* and no reserved height, in ranges of at most maxSize heights, and none is
\* shorter unless a reservation or the end stops it.
GapsCoverFreeHeights ==
    call.fn = "reserve" => Slot!GapsAreFreeHeights(call.queue, call.start, call.end, call.size)

\* reserveChunkRanges uses every free slot it can, on the lowest free heights:
\* the head of the queue is what the writer waits for.
ReservesLowestFirst ==
    call.fn = "reserve" =>
        Slot!LowestAreReserved(call.queue, call.start, call.end, call.size, call.slots)

\* The gas prices are the extremes of the fees paid, per denomination, with the
\* average between them, although each fee is first folded into its block and
\* zero stands for no price yet; and every block counts once in the average,
\* however many transactions it has.
PricesAreSound ==
    call.fn = "gas" => Gas!PricesAreExtremes(call.blocks) /\ Gas!BlocksWeighTheSame(call.blocks)

\* A where argument means what it says, for a condition on every field of the
\* schema: coercion, generated evaluation and conversion agree with the schema.
WhereMeansWhatItSays == call.fn = "eval" => MeansWhatItSays(call.type, call.where, call.obj)

\* The conditions of the older filters combine as documented.
ConditionsCombine == call.fn = "filter" => Combines(call.filter, call.tx)

\* Null messages stay local to their transaction.
NullsStayLocal == call.fn = "query" => StaysLocal(call.results)

=============================================================================
