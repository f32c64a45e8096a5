-------------------------------- MODULE Keys --------------------------------
(***************************************************************************)
(* The keys of the store (src/storage/encode.go and the key functions of   *)
(* src/storage/pebble.go): byte sequences the engine orders byte by byte.  *)
(*                                                                         *)
(* A byte is a digit of base Base, and an unsigned integer of the code is  *)
(* one of a fixed number of digits: the widths are constants.  The values  *)
(* 0, 1, 2 and Base - 1 stand for the bytes the encoding gives a meaning   *)
(* to.                                                                     *)
(***************************************************************************)
EXTENDS Integers, Sequences, SequencesExt

CONSTANTS Base,         \* number of byte values
          HeightBytes,  \* width of a uint64
          IndexBytes    \* width of a uint32

ASSUME KeysAssumption ==
    /\ Base \in Nat /\ Base >= 4
    /\ HeightBytes \in Nat \ {0} /\ IndexBytes \in Nat \ {0}

Byte == 0 .. Base - 1

\* The number of values of n bytes.
Power[n \in Nat] == IF n = 0 THEN 1 ELSE Base * Power[n - 1]

MaxUint64 == Power[HeightBytes] - 1
MaxInt64 == (Power[HeightBytes] \div 2) - 1
MaxUint32 == Power[IndexBytes] - 1

\* bytes.Compare, the order of the engine (external).
LexLess(a, b) ==
    \E n \in 0 .. Len(b) - 1 :
        /\ n <= Len(a) /\ SubSeq(a, 1, n) = SubSeq(b, 1, n)
        /\ n < Len(a) => a[n + 1] < b[n + 1]

Escape == 0
EscapedTerm == 1
Marker == 2
Escaped00 == Base - 1

\* encodeUint64Ascending, encodeUint32Ascending: most significant byte first.
EncodeUint(v, width) == [i \in 1 .. width |-> (v \div Power[width - i]) % Base]

\* decodeUint64Ascending, decodeUint32Ascending, on the bytes of the value.
DecodeUint(b) ==
    LET value[n \in 0 .. Len(b)] == IF n = 0 THEN 0 ELSE value[n - 1] * Base + b[n]
    IN  value[Len(b)]

\* encodeStringAscending: a marker, the escaped bytes, a terminator.
EncodeString(s) ==
    <<Marker>> \o FlattenSeq([i \in DOMAIN s |-> IF s[i] = Escape THEN <<Escape, Escaped00>> ELSE <<s[i]>>])
               \o <<Escape, EscapedTerm>>

\* decodeUnsafeStringAscending, as far as it is used: what follows the string.
AfterString(b) ==
    LET end == CHOOSE i \in 2 .. Len(b) - 1 :
                   /\ b[i] = Escape /\ b[i + 1] = EscapedTerm
                   /\ \A j \in 2 .. i - 1 : ~(b[j] = Escape /\ b[j + 1] = EscapedTerm)
    IN  SubSeq(b, end + 2, Len(b))

\* The prefixes keep their order: blocks, transactions, hash index.
PrefixKeyBlocks == <<3, 1>>
PrefixKeyTxs == <<3, 2>>
PrefixKeyTxByHash == <<3, 3>>

\* keyLatestHeight is not encoded.
KeyLatestHeight == <<3>>

KeyBlock(height) == EncodeString(PrefixKeyBlocks) \o EncodeUint(height, HeightBytes)

KeyTx(height, index) ==
    EncodeString(PrefixKeyTxs) \o EncodeUint(height, HeightBytes) \o EncodeUint(index, IndexBytes)

KeyHashTx(hash) == EncodeString(PrefixKeyTxByHash) \o EncodeString(hash)

\* The transaction index in a key, as the iterators decode it.
TxIdx(key) ==
    LET rest == AfterString(key)
    IN  DecodeUint(SubSeq(rest, HeightBytes + 1, HeightBytes + IndexBytes))

=============================================================================
