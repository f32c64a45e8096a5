------------------------------ MODULE GasPrices ------------------------------
(***************************************************************************)
(* The gas price statistics (src/serve/methods/gas.go): per denomination,  *)
(* the lowest, highest and average gas fee of a sequence of blocks.  A     *)
(* block is the sequence of its transactions, a transaction is its gas fee *)
(* [denom, amount], or Undecodable when amino cannot decode it.            *)
(***************************************************************************)
EXTENDS Integers, Sequences, SequencesExt, FiniteSets

CONSTANT Undecodable

\* The transactions that count for a denomination: decoded, and paying in it.
Pays(fee, denom) == fee # Undecodable /\ fee.denom = denom

Denoms(block) == {fee.denom : fee \in ToSet(block) \ {Undecodable}}

Larger(a, b) == IF a >= b THEN a ELSE b

\* gasFeeTotalInfo
NoInfo == [Low |-> 0, High |-> 0, TotalAmount |-> 0, TotalCount |-> 0]

\* Deviation of MinWithDefault: the builtin min, which keeps the initial zero.
MinOfBoth(current, newValue) == IF current <= newValue THEN current ELSE newValue

\* minWithDefault: zero counts as not set.
MinWithDefault(current, newValue) ==
    IF current <= 0 \/ newValue <= current THEN newValue ELSE current

\* The body of the loop over the transactions of a block, on one denomination.
AddFee(info, fee, denom) ==
    IF ~Pays(fee, denom) THEN info
    ELSE [Low         |-> MinWithDefault(info.Low, fee.amount),
          High        |-> Larger(info.High, fee.amount),
          TotalAmount |-> info.TotalAmount + fee.amount,
          TotalCount  |-> info.TotalCount + 1]

\* calculateGasFeePerBlock
CalculateGasFeePerBlock(block) ==
    [denom \in Denoms(block) |->
        LET add(info, fee) == AddFee(info, fee, denom)
        IN  FoldLeft(add, NoInfo, block)]

\* modifyAggregatedInfo: a block counts once, with its average.
ModifyAggregatedInfo(current, block) ==
    [Low         |-> MinWithDefault(current.Low, block.Low),
     High        |-> Larger(current.High, block.High),
     TotalAmount |-> current.TotalAmount + block.TotalAmount \div block.TotalCount,
     TotalCount  |-> current.TotalCount + 1]

\* calculateGasPrices, of one denomination.
CalculateGasPrices(info) ==
    [High |-> info.High, Low |-> info.Low, Average |-> info.TotalAmount \div info.TotalCount]

\* The body of the loop over the blocks, on one denomination.
AddBlock(info, block, denom) ==
    LET fees == CalculateGasFeePerBlock(block)
    IN  IF denom \in DOMAIN fees THEN ModifyAggregatedInfo(info, fees[denom]) ELSE info

\* GetGasPricesByBlocks: a function from denominations.
GetGasPricesByBlocks(blocks) ==
    [denom \in UNION {Denoms(block) : block \in ToSet(blocks)} |->
        LET add(info, block) == AddBlock(info, block, denom)
        IN  CalculateGasPrices(FoldLeft(add, NoInfo, blocks))]

-----------------------------------------------------------------------------
(* Properties. *)

\* Low and High are the extremes of the fees paid in a denomination over all
\* blocks, the average lies between them, and no denomination is left out or
\* made up: for positive fees.  (A zero fee counts as not set, so Low then
\* depends on the order of the transactions.)
PricesAreExtremes(blocks) ==
    LET prices == GetGasPricesByBlocks(blocks)
        paid(denom) == {fee.amount : fee \in UNION {{fee \in ToSet(block) : Pays(fee, denom)} : block \in ToSet(blocks)}}
    IN  (\A block \in ToSet(blocks) : \A fee \in ToSet(block) \ {Undecodable} : fee.amount > 0) =>
            \A denom \in DOMAIN prices :
                /\ prices[denom].Low \in paid(denom) /\ \A f \in paid(denom) : prices[denom].Low <= f
                /\ prices[denom].High \in paid(denom) /\ \A f \in paid(denom) : prices[denom].High >= f
                /\ prices[denom].Low <= prices[denom].Average
                /\ prices[denom].Average <= prices[denom].High

\* A block weighs the same however many transactions it has: repeating the
\* transactions of a block changes no price.
BlocksWeighTheSame(blocks) ==
    GetGasPricesByBlocks([i \in DOMAIN blocks |-> blocks[i] \o blocks[i]]) = GetGasPricesByBlocks(blocks)

=============================================================================
