-------------------------- MODULE MCSubscriptions --------------------------
(* A block with a transaction, and a block without. *)
EXTENDS Subscriptions

Block(txs, results) ==
    <<"newHeads">> \o (IF txs > 0 THEN <<"newGasPrice">> ELSE <<>>) \o [i \in 1 .. results |-> "newTransactions"]

MCSends == Block(1, 0) \o Block(0, 0)

=============================================================================
