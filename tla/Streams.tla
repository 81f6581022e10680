------------------------------ MODULE Streams ------------------------------
(***************************************************************************)
(* The streaming interface of the parallel hash and that of the scalar one, *)
(* fed the same messages in the same pieces: V messages through one context *)
(* of mshabal_*, and each of them through an sph_shabal_context of its own. *)
(* The messages are hashed a third time, at the end, by the routines that   *)
(* take whole blocks.                                                       *)
(***************************************************************************)
EXTENDS SimdVariants, FiniteSets

CONSTANTS
  Variants,      \* the builds to run
  Lengths,       \* the lengths of a piece
  NullLanes(_),  \* V: which lanes may be given no data, a set of sets
  MaxPieces,     \* bound: the pieces of a message, for each build
  Endings,       \* <<ub, n>>: the bits after the last byte
  Text(_, _)     \* (l, p): byte p of the message of lane l

VARIABLES
  variant,
  simd,      \* the context of the build
  scalars,   \* one sph_shabal_context per lane
  active,    \* the lanes that got data each time
  fed,       \* the bytes given so far
  pieces,    \* the calls that gave them
  digests    \* what closing returned, by the three ways

svars == <<variant, simd, scalars, active, fed, pieces, digests>>

\* A piece is an array of its length, and a byte ends in n of its bits.
ASSUME StreamParameters ==
  /\ Variants \subseteq DOMAIN VectorSizes
  /\ \A len \in Lengths : len \in Nat /\ NULL \notin [0..(len - 1) -> Byte]
  /\ \A e \in Endings : e[1] \in Byte /\ e[2] \in 0..7

initialised(v) ==
  CASE v = "sse2" -> mshabal_init_sse2(256)
    [] v = "avx" -> mshabal_init_avx(256)
    [] v = "neon" -> mshabal_init_neon(256)
    [] v = "avx2" -> mshabal_init_avx2(256)
    [] v = "avx512f" -> mshabal_init_avx512f(256)

updated(v, sc, data, len) ==
  CASE v = "sse2" -> mshabal_sse2(sc, data, len)
    [] v = "avx" -> mshabal_avx(sc, data, len)
    [] v = "neon" -> mshabal_neon(sc, data, len)
    [] v = "avx2" -> mshabal_avx2(sc, data, len)
    [] v = "avx512f" -> mshabal_avx512f(sc, data, len)

closed(v, sc, ub, n, dst) ==
  CASE v = "sse2" -> mshabal_close_sse2(sc, ub, n, dst)
    [] v = "avx" -> mshabal_close_avx(sc, ub, n, dst)
    [] v = "neon" -> mshabal_close_neon(sc, ub, n, dst)
    [] v = "avx2" -> mshabal_close_avx2(sc, ub, n, dst)
    [] v = "avx512f" -> mshabal_close_avx512f(sc, ub, n, dst)

hashed_fast(v, message, termination) ==
  CASE v = "sse2" -> mshabal_hash_fast_sse2(init_shabal_sse2, message, termination)
    [] v = "avx" -> mshabal_hash_fast_avx(init_shabal_avx, message, termination)
    [] v = "neon" -> mshabal_hash_fast_neon(init_shabal_neon, message, termination)
    [] v = "avx2" -> mshabal_hash_fast_avx2(init_shabal_avx2, message, termination)
    [] v = "avx512f" -> mshabal_hash_fast_avx512f(init_shabal_avx512f, message,
                                                  termination)

Opened(v) ==
  /\ simd' = initialised(v)
  /\ scalars' = [l \in Lanes(VectorSizes[v]) |-> fresh]
  /\ active' = Lanes(VectorSizes[v])
  /\ fed' = 0
  /\ pieces' = 0
  /\ digests' = NULL

StreamInit ==
  /\ variant \in Variants
  /\ simd = initialised(variant)
  /\ scalars = [l \in Lanes(VectorSizes[variant]) |-> fresh]
  /\ active = Lanes(VectorSizes[variant])
  /\ fed = 0
  /\ pieces = 0
  /\ digests = NULL

\* The next len bytes of every message, but for the lanes given NULL.
Feed(len, nulls) ==
  LET data == [l \in Lanes(VectorSizes[variant]) |->
                 [o \in 0..(len - 1) |-> Text(l, fed + o)]]
      given == [l \in DOMAIN data |-> IF l \in nulls THEN NULL ELSE data[l]]
  IN  /\ digests = NULL /\ pieces < MaxPieces[variant]
      /\ simd' = updated(variant, simd, given, len)
      /\ scalars' = [l \in DOMAIN data |->
                       IF l \in active \ nulls
                       THEN sph_shabal256(scalars[l], data[l], len)
                       ELSE scalars[l]]
      /\ active' = active \ nulls
      /\ fed' = fed + len
      /\ pieces' = pieces + 1
      /\ UNCHANGED <<variant, digests>>

\* The j-th block of lane l's message, and its last, padded one.
block_of(l, j) ==
  DECODE_BLOCK([o \in R64 |-> Text(l, 64 * (j - 1) + o)])
last_of(l, ub, n) ==
  DECODE_BLOCK(padded([o \in R64 |-> Text(l, 64 * (fed \div 64) + o)],
                      fed % 64, ub, n))

\* A vector block of one block per lane.
interleaved(V, blocks) ==
  [q \in 0..(16 * V - 1) |-> blocks[q % V][q \div V]]

Close(ub, n) ==
  LET V == VectorSizes[variant]
      message == [j \in 1..(fed \div 64) |->
                    interleaved(V, [l \in Lanes(V) |-> block_of(l, j)])]
      termination == interleaved(V, [l \in Lanes(V) |-> last_of(l, ub, n)])
  IN  /\ digests = NULL
      /\ digests' =
           [streamed |-> closed(variant, simd, [l \in Lanes(V) |-> ub], n, active),
            scalar |-> [l \in active |->
                          IF n = 0 THEN sph_shabal256_close(scalars[l])
                          ELSE sph_shabal256_addbits_and_close(scalars[l], ub, n)],
            fast |-> hashed_fast(variant, message, termination),
            scalar_fast |->
              [l \in active |->
                 sph_shabal_hash_fast(
                   [j \in 1..(fed \div 64) |-> block_of(l, j)],
                   last_of(l, ub, n))]]
      /\ UNCHANGED <<variant, simd, scalars, active, fed, pieces>>

\* A closed context is initialised again before it is used again.
Reopen == digests # NULL /\ Opened(variant) /\ UNCHANGED variant

StreamNext ==
  \/ \E len \in Lengths, nulls \in NullLanes(VectorSizes[variant]) :
       Feed(len, nulls)
  \/ \E e \in Endings : Close(e[1], e[2])
  \/ Reopen

StreamSpec == StreamInit /\ [][StreamNext]_svars

-----------------------------------------------------------------------------
(* Properties.                                                              *)

\* Lane l of the context holds what the scalar context of its message holds:
\* the registers, the counter all lanes share, the bytes waiting in the buffer.
LaneIs(l, cc) ==
  LET regs == lane(VectorSizes[variant], simd, l)
  IN  /\ regs.A = cc.A /\ regs.B = cc.B /\ regs.C = cc.C
      /\ simd.Wlow = cc.Wlow /\ simd.Whigh = cc.Whigh
      /\ simd.ptr = cc.ptr /\ simd.ptr = fed % 64
      /\ \A o \in 0..(cc.ptr - 1) : simd.bufs[l][o] = cc.buf[o]

\* The digest of lane l's message is the same however it is computed: streamed
\* in parallel or alone, or from whole blocks, in parallel or alone.
SameDigest(l) ==
  LET V == VectorSizes[variant]
  IN  /\ digests.streamed[l] = digests.scalar[l]
      /\ digests.streamed[l] = digests.scalar_fast[l]
      /\ \A z \in 0..7 : digests.streamed[l][z] = digests.fast.dst[V * z + l]

\* Whatever pieces the messages come in, and whichever lanes are left out, the
\* lanes that are not stay in step with scalar contexts fed the same, though
\* those start from tables and the parallel one by hashing two blocks, and end
\* with the same digests; the routines for whole blocks agree with both
\* (sph_shabal256, _init and _close against mshabal_*, _init and _close).
StreamsAgree ==
  \A l \in active :
    IF digests = NULL THEN LaneIs(l, scalars[l]) ELSE SameDigest(l)
=============================================================================
