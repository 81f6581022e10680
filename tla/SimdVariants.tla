---------------------------- MODULE SimdVariants ----------------------------
(***************************************************************************)
(* The five builds of the parallel hash and of the searches over it, each a *)
(* file of its own in src/c: SSE2, AVX and NEON with 4 lanes, AVX2 with 8   *)
(* and AVX512F with 16.  A function here is the function of that name with  *)
(* its vector size.  Of find_best_deadline_* it has the part that differs:  *)
(* the search loop around it is module FindBest.                            *)
(***************************************************************************)
EXTENDS SimdStreams

-----------------------------------------------------------------------------
(* SSE2.                                                                     *)

mshabal_init_sse2(out_size) == mshabal_init("sse2", out_size)
mshabal_sse2(sc, data, len) == mshabal("sse2", sc, data, len)
mshabal_close_sse2(sc, ub, n, dst) == mshabal_close("sse2", sc, ub, n, dst)
mshabal_hash_fast_sse2(sc, message, termination) ==
  hash_fast(MSHABAL128_VECTOR_SIZE, sc, message, termination)
mshabal_deadline_fast_sse2(sc, message, termination) ==
  deadline_fast(MSHABAL128_VECTOR_SIZE, sc, message, termination)

\* The fast context each search copies, and a search's step over one group.
init_shabal_sse2 == fast_copy(mshabal_init_sse2(256), 176)
group_sse2(x, scoops, i, gensig) ==
  mshabal_deadline_fast_sse2(x, u1(MSHABAL128_VECTOR_SIZE, scoops, i, gensig),
                            u2(MSHABAL128_VECTOR_SIZE, scoops, i))

-----------------------------------------------------------------------------
(* AVX.                                                                      *)

mshabal_init_avx(out_size) == mshabal_init("avx", out_size)
mshabal_avx(sc, data, len) == mshabal("avx", sc, data, len)
mshabal_close_avx(sc, ub, n, dst) == mshabal_close("avx", sc, ub, n, dst)
mshabal_hash_fast_avx(sc, message, termination) ==
  hash_fast(MSHABAL128_VECTOR_SIZE, sc, message, termination)
mshabal_deadline_fast_avx(sc, message, termination) ==
  deadline_fast(MSHABAL128_VECTOR_SIZE, sc, message, termination)

\* The fast context each search copies, and a search's step over one group.
init_shabal_avx == fast_copy(mshabal_init_avx(256), 176)
group_avx(x, scoops, i, gensig) ==
  mshabal_deadline_fast_avx(x, u1(MSHABAL128_VECTOR_SIZE, scoops, i, gensig),
                            u2(MSHABAL128_VECTOR_SIZE, scoops, i))

-----------------------------------------------------------------------------
(* NEON (its intrinsics are SSE2's, through SSE2NEON.h).                     *)

mshabal_init_neon(out_size) == mshabal_init("neon", out_size)
mshabal_neon(sc, data, len) == mshabal("neon", sc, data, len)
mshabal_close_neon(sc, ub, n, dst) == mshabal_close("neon", sc, ub, n, dst)
mshabal_hash_fast_neon(sc, message, termination) ==
  hash_fast(MSHABAL128_VECTOR_SIZE, sc, message, termination)
mshabal_deadline_fast_neon(sc, message, termination) ==
  deadline_fast(MSHABAL128_VECTOR_SIZE, sc, message, termination)

\* The fast context each search copies, and a search's step over one group.
init_shabal_neon == fast_copy(mshabal_init_neon(256), 176)
group_neon(x, scoops, i, gensig) ==
  mshabal_deadline_fast_neon(x, u1(MSHABAL128_VECTOR_SIZE, scoops, i, gensig),
                            u2(MSHABAL128_VECTOR_SIZE, scoops, i))

-----------------------------------------------------------------------------
(* AVX2.                                                                     *)

mshabal_init_avx2(out_size) == mshabal_init("avx2", out_size)
mshabal_avx2(sc, data, len) == mshabal("avx2", sc, data, len)
mshabal_close_avx2(sc, ub, n, dst) == mshabal_close("avx2", sc, ub, n, dst)
mshabal_hash_fast_avx2(sc, message, termination) ==
  hash_fast(MSHABAL256_VECTOR_SIZE, sc, message, termination)
mshabal_deadline_fast_avx2(sc, message, termination) ==
  deadline_fast(MSHABAL256_VECTOR_SIZE, sc, message, termination)

\* The fast context each search copies, and a search's step over one group.
init_shabal_avx2 == fast_copy(mshabal_init_avx2(256), 352)
group_avx2(x, scoops, i, gensig) ==
  mshabal_deadline_fast_avx2(x, u1(MSHABAL256_VECTOR_SIZE, scoops, i, gensig),
                            u2(MSHABAL256_VECTOR_SIZE, scoops, i))

-----------------------------------------------------------------------------
(* AVX512F.                                                                  *)

mshabal_init_avx512f(out_size) == mshabal_init("avx512f", out_size)
mshabal_avx512f(sc, data, len) == mshabal("avx512f", sc, data, len)
mshabal_close_avx512f(sc, ub, n, dst) ==
  mshabal_close("avx512f", sc, ub, n, dst)
mshabal_hash_fast_avx512f(sc, message, termination) ==
  hash_fast(MSHABAL512_VECTOR_SIZE, sc, message, termination)
mshabal_deadline_fast_avx512f(sc, message, termination) ==
  deadline_fast(MSHABAL512_VECTOR_SIZE, sc, message, termination)

\* The fast context each search copies, and a search's step over one group.
init_shabal_avx512f == fast_copy(mshabal_init_avx512f(256), 704)
group_avx512f(x, scoops, i, gensig) ==
  mshabal_deadline_fast_avx512f(x, u1(MSHABAL512_VECTOR_SIZE, scoops, i, gensig),
                            u2(MSHABAL512_VECTOR_SIZE, scoops, i))

-----------------------------------------------------------------------------
(* The tables sph_shabal.c starts from are what mshabal_init computes, in    *)
(* every lane of every build.                                               *)

TablesTyped ==
  /\ A_init_256 \in [R12 -> Word] /\ B_init_256 \in [R16 -> Word]
  /\ C_init_256 \in [R16 -> Word]

Started(V, sc) ==
  /\ sc \in [state : [0..(44 * V - 1) -> Word], bufs : [Lanes(V) -> [R64 -> Byte]],
             Wlow : {One}, Whigh : {Zero}, ptr : {0}, out_size : {256}]
  /\ \A l \in Lanes(V) :
       lane(V, sc, l) = [A |-> A_init_256, B |-> B_init_256, C |-> C_init_256]

\* A computation without parameters: TLC carries it out on every run.
ASSUME InitialContexts ==
  /\ TablesTyped
  /\ Started(MSHABAL128_VECTOR_SIZE, mshabal_init_sse2(256))
  /\ Started(MSHABAL128_VECTOR_SIZE, mshabal_init_avx(256))
  /\ Started(MSHABAL128_VECTOR_SIZE, mshabal_init_neon(256))
  /\ Started(MSHABAL256_VECTOR_SIZE, mshabal_init_avx2(256))
  /\ Started(MSHABAL512_VECTOR_SIZE, mshabal_init_avx512f(256))
=============================================================================
