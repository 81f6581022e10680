---------------------------- MODULE SearchHashes ----------------------------
(***************************************************************************)
(* The hashes of the searches of FindBest, by the name of the               *)
(* implementation, and the deadline they are to find: the base search has   *)
(* no group, and every search hashes what is left of its buffer alone.      *)
(***************************************************************************)
EXTENDS SimdVariants

vector_size == [base |-> 1, sse2 |-> MSHABAL128_VECTOR_SIZE,
                avx |-> MSHABAL128_VECTOR_SIZE, neon |-> MSHABAL128_VECTOR_SIZE,
                avx2 |-> MSHABAL256_VECTOR_SIZE,
                avx512f |-> MSHABAL512_VECTOR_SIZE]

search_context(impl) ==
  CASE impl = "sse2" -> init_shabal_sse2
    [] impl = "avx" -> init_shabal_avx
    [] impl = "neon" -> init_shabal_neon
    [] impl = "avx2" -> init_shabal_avx2
    [] impl = "avx512f" -> init_shabal_avx512f
    [] impl = "base" -> [state |-> << >>]

search_group(impl, x, scoops, i, gensig) ==
  CASE impl = "sse2" -> group_sse2(x, scoops, i, gensig)
    [] impl = "avx" -> group_avx(x, scoops, i, gensig)
    [] impl = "neon" -> group_neon(x, scoops, i, gensig)
    [] impl = "avx2" -> group_avx2(x, scoops, i, gensig)
    [] impl = "avx512f" -> group_avx512f(x, scoops, i, gensig)

\* The bytes of the first n words.
bytes(words, n) ==
  [o \in 0..(4 * n - 1) |-> {b \in 0..7 : (8 * (o % 4)) + b \in words[o \div 4]}]

\* The deadline by definition: the first eight bytes of the Shabal-256 hash of
\* the generation signature followed by the scoop, hashed as a stream.
signed(gensig) == sph_shabal256(fresh, bytes(gensig, 8), 32)
deadline_of(scoop, gensig) ==
  LET h == sph_shabal256_close(sph_shabal256(signed(gensig), bytes(scoop, 16), 64))
  IN  Word64(h[0], h[1])
=============================================================================
