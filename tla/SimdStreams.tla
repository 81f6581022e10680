---------------------------- MODULE SimdStreams -----------------------------
(***************************************************************************)
(* The streaming functions of src/c/mshabal_*.c: open, feed and close V     *)
(* messages at once, each of any length.  The files are known by their last *)
(* names, the builds: a build v has a vector size and a compression         *)
(* function of its own, and its other functions call that one.              *)
(***************************************************************************)
EXTENDS SimdShabal

MSHABAL128_VECTOR_SIZE == 4
MSHABAL256_VECTOR_SIZE == 8
MSHABAL512_VECTOR_SIZE == 16

VectorSizes == [sse2 |-> MSHABAL128_VECTOR_SIZE, avx |-> MSHABAL128_VECTOR_SIZE,
                neon |-> MSHABAL128_VECTOR_SIZE, avx2 |-> MSHABAL256_VECTOR_SIZE,
                avx512f |-> MSHABAL512_VECTOR_SIZE]

mshabal_compress_sse2(sc, bufs, num) ==
  compress(MSHABAL128_VECTOR_SIZE, sc, bufs, num)
mshabal_compress_avx(sc, bufs, num) ==
  compress(MSHABAL128_VECTOR_SIZE, sc, bufs, num)
mshabal_compress_neon(sc, bufs, num) ==
  compress(MSHABAL128_VECTOR_SIZE, sc, bufs, num)
mshabal_compress_avx2(sc, bufs, num) ==
  compress(MSHABAL256_VECTOR_SIZE, sc, bufs, num)
mshabal_compress_avx512f(sc, bufs, num) ==
  compress(MSHABAL512_VECTOR_SIZE, sc, bufs, num)

compressed(v, sc, bufs, num) ==
  CASE v = "sse2" -> mshabal_compress_sse2(sc, bufs, num)
    [] v = "avx" -> mshabal_compress_avx(sc, bufs, num)
    [] v = "neon" -> mshabal_compress_neon(sc, bufs, num)
    [] v = "avx2" -> mshabal_compress_avx2(sc, bufs, num)
    [] v = "avx512f" -> mshabal_compress_avx512f(sc, bufs, num)

\* The buffers that start the hash of out_size bits: the words out_size + u,
\* of two bytes each, u counted from `from`.
size_block(out_size, from) ==
  [k \in R64 |->
     LET w == out_size + from + k \div 4
     IN  CASE k % 4 = 0 -> Number(w % 256)
           [] k % 4 = 1 -> Number((w \div 256) % 256)
           [] OTHER -> {}]

mshabal_init(v, out_size) ==
  LET V == VectorSizes[v]
      bufs(from) == [l \in Lanes(V) |-> size_block(out_size, from)]
      s0 == [state |-> [k \in 0..(44 * V - 1) |-> Zero], bufs |-> bufs(16),
             Wlow |-> Ones, Whigh |-> Ones, ptr |-> 0, out_size |-> out_size]
  IN  compressed(v, compressed(v, s0, bufs(0), 1), bufs(16), 1)

\* A NULL pointer stands for the first one that is not: data0 takes it, and
\* the others take data0.
substituted(V, data) ==
  LET given == {l \in Lanes(V) : data[l] # NULL}
      first == CHOOSE l \in given : \A k \in given : l <= k
  IN  [l \in Lanes(V) |-> IF l \in given THEN data[l] ELSE data[first]]

\* The whole blocks of data go straight into the state, the rest is kept.
absorb(v, sc, data, len) ==
  LET num == len \div 64
      s == compressed(v, sc, data, num)
  IN  [s EXCEPT !.bufs = [l \in Lanes(VectorSizes[v]) |->
                  copied(@[l], 0, advanced(data[l], 64 * num), len % 64)],
                !.ptr = len % 64]

\* The buffers filled up first when they hold something.
mshabal(v, sc, data0, len) ==
  LET V == VectorSizes[v]
      data == substituted(V, data0)
      clen == 64 - sc.ptr
      filled(n) == [l \in Lanes(V) |-> copied(sc.bufs[l], sc.ptr, data[l], n)]
  IN  IF \A l \in Lanes(V) : data0[l] = NULL THEN sc
      ELSE IF sc.ptr = 0 THEN absorb(v, sc, data, len)
      ELSE IF clen > len
      THEN [sc EXCEPT !.bufs = filled(len), !.ptr = @ + len]
      ELSE absorb(v, compressed(v, [sc EXCEPT !.bufs = filled(clen)], filled(clen), 1),
                  [l \in Lanes(V) |-> advanced(data[l], clen)], len - clen)

\* The last block goes in four times with the same counter; the lanes of dst
\* (whose pointers are not NULL) get the last out_size bits of the state.
mshabal_close(v, sc, ub, n, dst) ==
  LET V == VectorSizes[v]
      bufs == [l \in Lanes(V) |-> padded(sc.bufs[l], sc.ptr, ub[l], n)]
      again(s) == uncounted(compressed(v, s, bufs, 1))
      s4 == again(again(again(again([sc EXCEPT !.bufs = bufs]))))
      w == sc.out_size \div 32
      off == V * (28 + (16 - w))
  IN  [l \in dst |-> [z \in 0..(w - 1) |-> s4.state[off + z * V + l]]]
=============================================================================
