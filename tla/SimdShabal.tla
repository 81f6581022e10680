----------------------------- MODULE SimdShabal -----------------------------
(***************************************************************************)
(* The parallel Shabal of src/c/mshabal_*.c: V messages, the lanes, hashed  *)
(* at once in vector registers of V words.  The five files are the same     *)
(* text but for the vector size, the intrinsics and the number of lane      *)
(* arguments, so each function is written once, for a vector size V, from   *)
(* the SSE2 file: the compression and the routines for whole blocks here,   *)
(* the streaming functions in SimdStreams; SimdVariants has the instances.  *)
(*                                                                          *)
(* Every intrinsic works on each word of its vectors by itself, so a round  *)
(* is written for one lane; what belongs to the vectors (the interleaved    *)
(* layout of state and of the inputs, the counters all lanes share, the     *)
(* unpacking of the results) is kept as it is.  A context is a record of    *)
(* the fields of mshabalNNN_context, bufs being buf0, buf1, ... indexed by  *)
(* the lane, and NULL is a data pointer that is not given.                  *)
(***************************************************************************)
EXTENDS Shabal

CONSTANT NULL

Lanes(V) == 0..(V - 1)

\* A[j], B[j] and C[j] are the vectors j, 12 + j and 28 + j of state.
lane(V, sc, l) ==
  [A |-> [j \in R12 |-> sc.state[V * j + l]],
   B |-> [j \in R16 |-> sc.state[V * (j + 12) + l]],
   C |-> [j \in R16 |-> sc.state[V * (j + 28) + l]]]

stored(V) ==
  [rs \in [Lanes(V) -> Registers] |-> [k \in 0..(44 * V - 1) |->
     LET l == k % V
         j == k \div V
     IN  IF j < 12 THEN rs[l].A[j]
         ELSE IF j < 28 THEN rs[l].B[j - 12] ELSE rs[l].C[j - 28]]]

PP(r, xa0, xa1, xb0, xb1, xb2, xb3, xc, xm) ==
  LET t3 == Xor(Xor(r.A[xa0], Times5(Rotl(r.A[xa1], 15))), r.C[xc])
      set(t5) == [r EXCEPT !.A[xa0] = t5,
                           !.B[xb0] = Xor(Rotl(@, 1), Xor(t5, Ones))]
  IN  set(Xor(Xor(Times3(t3), r.B[xb1]), Xor(r.B[xb2] \ r.B[xb3], xm)))

\* The j-th of the 48 uses of PP, and all of them, in order.
PP_STEP(r, M, j) ==
  PP(r, j % 12, (j + 11) % 12, j % 16, (j + 13) % 16, (j + 9) % 16,
     (j + 6) % 16, (24 - (j % 16)) % 16, M[j % 16])

PPs(r, M) ==
  LET P[j \in 0..48] ==
        IF j = 0 THEN r ELSE PP_STEP(P[j - 1], M, j - 1)
  IN  P[48]

\* What a round does to one lane: the block is added to B, the counters go
\* into A, the permutation runs, C is added to A three times, and B and C are
\* swapped with the block taken off (SWAP_AND_SUB).
round(r, M, Wlow, Whigh) ==
  LET finished(p) ==
        [A |-> [j \in R12 |-> Plus(Plus(Plus(p.A[j], p.C[(j + 11) % 16]),
                                  p.C[(j + 15) % 16]), p.C[(j + 3) % 16])],
         B |-> [j \in R16 |-> Minus(p.C[j], M[j])],
         C |-> p.B]
  IN  finished(PPs([r EXCEPT !.A[0] = Xor(@, Wlow), !.A[1] = Xor(@, Whigh),
                      !.B = [j \in R16 |-> Rotl(Plus(@[j], M[j]), 17)]], M))

\* if (++sc->Wlow == 0) sc->Whigh++  and  if (sc->Wlow-- == 0) sc->Whigh--
counted(sc) ==
  [sc EXCEPT !.Wlow = Plus(@, One),
             !.Whigh = IF sc.Wlow = Ones THEN Plus(@, One) ELSE @]
uncounted_Forgotten(sc) == sc   \* Mutated: the counter is not set back.
uncounted(sc) ==
  [sc EXCEPT !.Wlow = Minus(@, One),
             !.Whigh = IF sc.Wlow = Zero THEN Minus(@, One) ELSE @]

\* A round of all lanes: M[l] is the block of lane l.
rounds(V, sc, M) ==
  counted([sc EXCEPT !.state =
    stored(V)[[l \in Lanes(V) |->
                 round(lane(V, sc, l), M[l], sc.Wlow, sc.Whigh)]]])

\* One round after the other, the j-th over blocks[j].
all_rounds(V, sc, blocks) ==
  LET after[j \in 0..Len(blocks)] ==
        IF j = 0 THEN sc ELSE rounds(V, after[j - 1], blocks[j])
  IN  after[Len(blocks)]

\* num rounds over the bytes of bufs.
compress(V, sc, bufs, num) ==
  all_rounds(V, sc, [j \in 1..num |-> [l \in Lanes(V) |->
    [i \in R16 |-> word_at(bufs[l], 64 * (j - 1) + 4 * i)]]])

-----------------------------------------------------------------------------
(* The routines for plotting and mining, on a fast context: a context       *)
(* without buffers, whose state they read and never write back.             *)

\* A vector block holds word i of lane l at V * i + l.
lanes_of(V, u) == [l \in Lanes(V) |-> [i \in R16 |-> u[V * i + l]]]

\* Rounds 2 to 5: the termination block, with the same counter.
final_rounds(V, s0, u) ==
  LET again(s) == uncounted(rounds(V, s, lanes_of(V, u)))
  IN  again(again(again(again(s0))))

message_rounds(V, sc, message) ==
  all_rounds(V, sc, [j \in 1..Len(message) |-> lanes_of(V, message[j])])

\* The rounds count in the context itself, whose counters are set back after.
\* Mutated: Wlow goes on counting.
reset_Low(sc, s) == [sc EXCEPT !.Wlow = s.Wlow, !.Whigh = Zero]
reset(sc, s) == [sc EXCEPT !.Wlow = One, !.Whigh = Zero]

\* The vectors C[8] to C[15] are stored one after the other.
hash_fast(V, sc, message, termination) ==
  LET result(s) == [dst |-> [k \in 0..(8 * V - 1) |-> s.state[36 * V + k]],
                    sc |-> reset(sc, s)]
  IN  result(final_rounds(V, message_rounds(V, sc, message), termination))

\* Mutated: the high word first.
deadline_fast_Swapped(V, sc, message, termination) ==
  LET result(s) == [dst |-> [l \in Lanes(V) |->
                        Word64(s.state[37 * V + l], s.state[36 * V + l])],
                    sc |-> reset(sc, s)]
  IN  result(final_rounds(V, rounds(V, sc, lanes_of(V, message)), termination))

\* C[8] and C[9], taken apart: the low and the high word of each lane.
deadline_fast(V, sc, message, termination) ==
  LET result(s) == [dst |-> [l \in Lanes(V) |->
                        Word64(s.state[36 * V + l], s.state[37 * V + l])],
                    sc |-> reset(sc, s)]
  IN  result(final_rounds(V, rounds(V, sc, lanes_of(V, message)), termination))

-----------------------------------------------------------------------------
(* What the find_best_deadline_* of src/c/shabal_*.c does around them.      *)

\* The first `words` words of a context's state, its counters and its size.
fast_copy(sc, words) ==
  [state |-> [k \in 0..(words - 1) |-> sc.state[k]],
   Whigh |-> sc.Whigh, Wlow |-> sc.Wlow, out_size |-> sc.out_size]

\* u1 is gensig in its lower half and the first halves of the scoops i, i + 1,
\* ... in its upper half; u2 the second halves of the scoops, and the
\* termination bit with zeros.
term == [i \in 0..7 |-> IF i = 0 THEN {7} ELSE {}]
u1(V, scoops, i, gensig) ==
  [k \in 0..(16 * V - 1) |->
     IF k < 8 * V THEN gensig[k \div V]
     ELSE scoops[i + (k % V)][(k - 8 * V) \div V]]
u2(V, scoops, i) ==
  [k \in 0..(16 * V - 1) |->
     IF k < 8 * V THEN scoops[i + (k % V)][8 + k \div V]
     ELSE term[(k - 8 * V) \div V]]
=============================================================================
