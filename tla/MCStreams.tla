----------------------------- MODULE MCStreams ------------------------------
(* An instance of Streams for TLC. *)
EXTENDS Streams

AllVariants == {"sse2", "avx", "neon", "avx2", "avx512f"}

\* Pieces that end before, at and after the end of a block, and one of more
\* than a block.
PieceLengths == {1, 63, 65}

\* All lanes get data, or only the last one does (lane 0's pointer, from which
\* the others' are substituted, is NULL then).
SomeNull(V) == {{}, 0..(V - 2)}

Pieces == [sse2 |-> 3, avx |-> 2, neon |-> 2, avx2 |-> 2, avx512f |-> 2]

\* Whole bytes, or three bits more of an octet with all bits set.
BitEndings == {<<{}, 0>>, <<0..7, 3>>}

\* No two lanes, and no two positions of a block, get the same byte often.
Bytes_of(l, p) == {b \in 0..7 : (((p + 1) * ((2 * l) + 3)) \div (b + 1)) % 2 = 1}
=============================================================================
