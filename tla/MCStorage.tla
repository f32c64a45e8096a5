----------------------------- MODULE MCStorage -----------------------------
(* Five blocks, so that heights need two bytes; a transaction that occurs twice. *)
EXTENDS Storage

a == <<1>>
b == <<1, 2>>
c == <<2>>

MCHashes == {a, b, c}
MCChain == <<<<a>>, <<>>, <<>>, <<b, a>>, <<c>>>>

=============================================================================
