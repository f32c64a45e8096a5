------------------------------- MODULE Storage -------------------------------
(***************************************************************************)
(* The embedded store (src/storage): one writer fills a batch and commits  *)
(* it, while readers iterate over snapshots and look transactions up by    *)
(* hash.  The engine (pebble) is external: an ordered map of byte strings, *)
(* atomic batches, snapshots and bounded iterators.                        *)
(*                                                                         *)
(* Chain is what the writer saves, block by block; a block is the sequence *)
(* of the hashes of its transactions.  The same transaction may occur      *)
(* twice.                                                                  *)
(***************************************************************************)
EXTENDS Keys, FiniteSets

CONSTANTS Chain,    \* the blocks, from height 0
          Hashes,   \* hashes clients look up, as byte sequences
          Bounds,   \* block numbers clients ask for
          Indexes,  \* transaction indexes clients ask for
          NoKey     \* no key

ASSUME StorageAssumption ==
    /\ Chain \in Seq(Seq(Seq(Byte))) /\ Hashes \subseteq Seq(Byte)
    /\ Len(Chain) < MaxInt64 /\ \A n \in DOMAIN Chain : Len(Chain[n]) < MaxUint32
    /\ Bounds \subseteq 0 .. MaxUint64 /\ Indexes \subseteq 0 .. MaxUint32

VARIABLES
    db,      \* the engine: a function from the keys that are set
    batch,   \* PebbleBatch: the keys set in it
    writer,  \* the writer's place: next block, next transaction of it, latest height set
    iter,    \* an open iterator
    lookup,  \* GetTxByHash: the hash, and the key the index gave
    asOf     \* history: the blocks committed when the iterator was opened

vars == <<db, batch, writer, iter, lookup, asOf>>

NoIter == [kind |-> "none"]
NoLookup == [hash |-> NoKey, key |-> NoKey]
Empty == [k \in {} |-> 0]

Init ==
    /\ db = Empty /\ batch = Empty
    /\ writer = [block |-> 0, tx |-> 0, height |-> FALSE]
    /\ iter = NoIter
    /\ lookup = NoLookup
    /\ asOf = 0

\* GetLatestHeight, as the number of blocks saved.
Saved == IF KeyLatestHeight \in DOMAIN db THEN DecodeUint(db[KeyLatestHeight]) + 1 ELSE 0

-----------------------------------------------------------------------------
(* The batch. *)

\* Batch.Set, and Batch.Commit of one map over the other (external).
Put(f, key, value) == [k \in {key} \cup DOMAIN f |-> IF k = key THEN value ELSE f[k]]
Over(f, g) == [k \in DOMAIN f \cup DOMAIN g |-> IF k \in DOMAIN f THEN f[k] ELSE g[k]]

\* The transaction of a block still to be set.
TxsLeft == writer.block > 0 /\ writer.tx < Len(Chain[writer.block])

\* SetBlock
SetBlock ==
    /\ writer.block < Len(Chain) /\ ~TxsLeft /\ ~writer.height
    /\ batch' = Put(batch, KeyBlock(writer.block), writer.block)
    /\ writer' = [writer EXCEPT !.block = @ + 1, !.tx = 0]
    /\ UNCHANGED <<db, iter, lookup, asOf>>

\* Deviation of SetTx: the secondary index does not go through the batch.
SetTxIndexFirst ==
    /\ TxsLeft
    /\ LET height == writer.block - 1
           hash == Chain[writer.block][writer.tx + 1]
           key == KeyTx(height, writer.tx)
       IN  /\ batch' = Put(batch, key, hash)
           /\ db' = Put(db, KeyHashTx(hash), key)
    /\ writer' = [writer EXCEPT !.tx = @ + 1]
    /\ UNCHANGED <<iter, lookup, asOf>>

\* SetTx: the secondary index, then the transaction.
SetTx ==
    /\ TxsLeft
    /\ LET height == writer.block - 1
           hash == Chain[writer.block][writer.tx + 1]
           key == KeyTx(height, writer.tx)
       IN  batch' = Put(Put(batch, KeyHashTx(hash), key), key, hash)
    /\ writer' = [writer EXCEPT !.tx = @ + 1]
    /\ UNCHANGED <<db, iter, lookup, asOf>>

\* Deviation of SetLatestHeight: the height does not go through the batch.
SetLatestHeightAtOnce ==
    /\ writer.block > Saved /\ ~TxsLeft /\ ~writer.height
    /\ db' = Put(db, KeyLatestHeight, EncodeUint(writer.block - 1, HeightBytes))
    /\ writer' = [writer EXCEPT !.height = TRUE]
    /\ UNCHANGED <<batch, iter, lookup, asOf>>

\* SetLatestHeight, the last thing the fetcher sets.
SetLatestHeight ==
    /\ writer.block > Saved /\ ~TxsLeft /\ ~writer.height
    /\ batch' = Put(batch, KeyLatestHeight, EncodeUint(writer.block - 1, HeightBytes))
    /\ writer' = [writer EXCEPT !.height = TRUE]
    /\ UNCHANGED <<db, iter, lookup, asOf>>

\* Commit
Commit ==
    /\ writer.height
    /\ db' = Over(batch, db)
    /\ batch' = Empty
    /\ writer' = [writer EXCEPT !.height = FALSE]
    /\ UNCHANGED <<iter, lookup, asOf>>

\* Rollback, or a crash: the writer starts again after what is saved.
Rollback ==
    /\ batch # Empty
    /\ batch' = Empty
    /\ writer' = [block |-> Saved, tx |-> IF Saved = 0 THEN 0 ELSE Len(Chain[Saved]), height |-> FALSE]
    /\ UNCHANGED <<db, iter, lookup, asOf>>

-----------------------------------------------------------------------------
(* The iterators. *)

\* An upper bound: 0 is none at all, otherwise one more, since the engine's
\* upper bound is exclusive - in the width of the type.
UpperBlock(to) == IF to = 0 THEN MaxInt64 ELSE (to + 1) % (MaxUint64 + 1)
UpperIndex(to) == IF to = 0 THEN MaxUint32 ELSE (to + 1) % (MaxUint32 + 1)

\* Deviation of BlockRange: the upper bound as it was asked for.
BlockRangeExclusive(from, to) ==
    [lower |-> KeyBlock(from), upper |-> KeyBlock(IF to = 0 THEN MaxInt64 ELSE to)]

\* loadBlockIterator, BlockReverseIterator
BlockRange(from, to) == [lower |-> KeyBlock(from), upper |-> KeyBlock(UpperBlock(to))]

\* TxIterator, TxReverseIterator and loadTxIterator
TxRange(from, to, fromIndex, toIndex) ==
    [lower |-> KeyTx(from, fromIndex), upper |-> KeyTx(UpperBlock(to), UpperIndex(toIndex))]

\* The keys of a snapshot between two bounds (external).
Between(keys, range) ==
    {k \in keys : (k = range.lower \/ LexLess(range.lower, k)) /\ LexLess(k, range.upper)}

\* BlockIterator, BlockReverseIterator: a snapshot is taken.
OpenBlocks(dir, from, to) ==
    /\ iter = NoIter
    /\ iter' = [kind |-> "blocks", dir |-> dir, from |-> from, to |-> to, fromIndex |-> 0, toIndex |-> 0,
                left |-> Between(DOMAIN db, BlockRange(from, to)), got |-> <<>>, done |-> FALSE]
    /\ asOf' = Saved
    /\ UNCHANGED <<db, batch, writer, lookup>>

\* TxIterator, TxReverseIterator.
OpenTxs(dir, from, to, fromIndex, toIndex) ==
    /\ iter = NoIter
    /\ iter' = [kind |-> "txs", dir |-> dir, from |-> from, to |-> to, fromIndex |-> fromIndex, toIndex |-> toIndex,
                left |-> Between(DOMAIN db, TxRange(from, to, fromIndex, toIndex)), got |-> <<>>, done |-> FALSE]
    /\ asOf' = Saved
    /\ UNCHANGED <<db, batch, writer, lookup>>

\* The keys Next of a transaction iterator passes over.
Skips(key) ==
    /\ iter.kind = "txs"
    /\ ~(TxIdx(key) >= iter.fromIndex /\ TxIdx(key) < UpperIndex(iter.toIndex))

\* Whether the engine visits one key before another.
Precedes(p, q) == IF iter.dir = "forward" THEN LexLess(p, q) ELSE LexLess(q, p)

\* Next: First or Last, then on, to the next key that is not skipped.
IterNext ==
    /\ iter # NoIter /\ ~iter.done
    /\ LET wanted == {k \in iter.left : ~Skips(k)}
       IN  IF wanted = {}
           THEN iter' = [iter EXCEPT !.left = {}, !.done = TRUE]
           ELSE \E k \in wanted :
                    /\ \A other \in wanted \ {k} : Precedes(k, other)
                    /\ iter' = [iter EXCEPT !.left = {other \in @ : Precedes(k, other)}, !.got = Append(@, k)]
    /\ UNCHANGED <<db, batch, writer, lookup, asOf>>

\* Close
CloseIter ==
    /\ iter # NoIter
    /\ iter' = NoIter /\ asOf' = 0
    /\ UNCHANGED <<db, batch, writer, lookup>>

-----------------------------------------------------------------------------
(* GetTxByHash: two reads of the live store. *)

\* The index is read; an unknown hash is answered at once.
LookupIndex(hash) ==
    /\ lookup = NoLookup
    /\ KeyHashTx(hash) \in DOMAIN db
    /\ lookup' = [hash |-> hash, key |-> db[KeyHashTx(hash)]]
    /\ UNCHANGED <<db, batch, writer, iter, asOf>>

\* The transaction is read and returned, or not found.
LookupTx ==
    /\ lookup # NoLookup
    /\ lookup' = NoLookup
    /\ UNCHANGED <<db, batch, writer, iter, asOf>>

-----------------------------------------------------------------------------

Writer == SetBlock \/ SetTx \/ SetLatestHeight \/ Commit \/ Rollback

Reader ==
    \/ \E dir \in {"forward", "backward"} : \E from, to \in Bounds :
           \/ OpenBlocks(dir, from, to)
           \/ \E fromIndex, toIndex \in Indexes : OpenTxs(dir, from, to, fromIndex, toIndex)
    \/ IterNext \/ CloseIter
    \/ \E hash \in Hashes : LookupIndex(hash)
    \/ LookupTx

Next == Writer \/ Reader

Spec == Init /\ [][Next]_vars

-----------------------------------------------------------------------------
(* Properties. *)

\* What was asked for, as numbers, of the blocks that were saved when the
\* iterator was opened: heights, or pairs of a height and an index.
InBlocks(h) == iter.from <= h /\ (iter.to = 0 \/ h <= iter.to)
InIndexes(i) == iter.fromIndex <= i /\ (iter.toIndex = 0 \/ i <= iter.toIndex)
AskedBlocks == {KeyBlock(h) : h \in {h \in 0 .. asOf - 1 : InBlocks(h)}}
TxsOf(h) == {KeyTx(h, i) : i \in {i \in 0 .. Len(Chain[h + 1]) - 1 : InIndexes(i)}}
AskedTxs == UNION {TxsOf(h) : h \in {h \in 0 .. asOf - 1 : InBlocks(h)}}

\* The bounds whose successor is not a number of their type.
Overflows == iter.to = MaxUint64 \/ iter.toIndex = MaxUint32

\* The height and the index in a key, and their order.
Position(key) ==
    LET rest == AfterString(key)
        height == DecodeUint(SubSeq(rest, 1, HeightBytes))
    IN  IF iter.kind = "blocks" THEN <<height, 0>> ELSE <<height, TxIdx(key)>>
Before(p, q) == p[1] < q[1] \/ (p[1] = q[1] /\ p[2] < q[2])

\* The order a reader asked for.
Follows(p, q) == IF iter.dir = "forward" THEN Before(p, q) ELSE Before(q, p)

\* A block iterator returns exactly the blocks asked for, and a transaction
\* iterator the transactions asked for and, beyond them, only such of the next
\* block, all as they were when it was opened: commits in between are not seen,
\* and nothing of a batch that is not committed is.  They come in the order of
\* their numbers, although the engine only compares bytes.
IterReturnsAsked ==
    iter # NoIter =>
        /\ \A m, n \in DOMAIN iter.got : m < n => Follows(Position(iter.got[m]), Position(iter.got[n]))
        /\ ~Overflows =>
               /\ iter.kind = "blocks" => ToSet(iter.got) \subseteq AskedBlocks
               /\ iter.kind = "txs" => ToSet(iter.got) \subseteq UNION {TxsOf(h) : h \in {h \in 0 .. asOf - 1 : InBlocks(h) \/ h = iter.to + 1}}
               /\ iter.done => (IF iter.kind = "blocks" THEN AskedBlocks ELSE AskedTxs) \subseteq ToSet(iter.got)

\* The hash index never dangles: what it points to is saved and has that hash,
\* also for a lookup between its two reads, and every saved transaction is
\* found by its hash.
IndexPointsToTx ==
    /\ \A hash \in Hashes : KeyHashTx(hash) \in DOMAIN db =>
           LET key == db[KeyHashTx(hash)] IN key \in DOMAIN db /\ db[key] = hash
    /\ lookup # NoLookup => lookup.key \in DOMAIN db /\ db[lookup.key] = lookup.hash
    /\ \A n \in 1 .. Saved : \A i \in DOMAIN Chain[n] : KeyHashTx(Chain[n][i]) \in DOMAIN db

\* src/storage/types.go, of TxIterator: "limiting the results to be between the
\* provided block numbers and transaction indexes".
TxsWithinBounds ==
    (iter # NoIter /\ iter.kind = "txs") => ToSet(iter.got) \subseteq AskedTxs

=============================================================================
