---------------------------- MODULE ChainIndex ----------------------------
(***************************************************************************)
(* What the indexed store promises to everything that reads it (JSON-RPC,  *)
(* GraphQL, the health endpoint) and to the fetcher after a restart: the   *)
(* latest height, the saved blocks and the saved transaction results only  *)
(* move together, in one step, and only upwards.  What lies at or below    *)
(* the latest height is final; nothing lies above it.                      *)
(*                                                                         *)
(* It is the contract of storage.Batch (src/storage/types.go:57-76) and of *)
(* GetLatestHeight (src/storage/types.go:15) as the fetcher uses them.     *)
(***************************************************************************)
EXTENDS Integers

CONSTANTS Height,   \* the heights of the chain, 0 is genesis
          NotFound  \* GetLatestHeight before anything was saved

VARIABLES latest, blocks, txs

indexVars == <<latest, blocks, txs>>

Init ==
    /\ latest = NotFound
    /\ blocks = {}
    /\ txs = {}

\* The heights above the stored one, up to h.
Above(l, h) == {k \in Height : (l # NotFound => l < k) /\ k <= h}

\* A batch for the heights above latest is committed.  Some of its blocks or
\* results may be absent; none of another height is touched.
Extend(h) ==
    /\ h \in Above(latest, h)
    /\ latest' = h
    /\ \E B \in SUBSET Above(latest, h) : blocks' = blocks \cup B
    /\ \E T \in SUBSET Above(latest, h) : txs' = txs \cup T

Next == \E h \in Height : Extend(h)

Spec == Init /\ [][Next]_indexVars

=============================================================================
