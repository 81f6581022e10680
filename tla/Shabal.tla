------------------------------- MODULE Shabal -------------------------------
(***************************************************************************)
(* The scalar Shabal-256 of src/c/sph_shabal.c, bit for bit: the macros the *)
(* hash is written with, the streaming functions, and the two "fast"        *)
(* functions plotting and mining use.  A context is a record of the fields  *)
(* of sph_shabal_context; the local copies DECL_STATE declares are the      *)
(* context itself, and the macros take it and the block M and return it.    *)
(* A block is 16 words, buf 64 bytes.                                       *)
(***************************************************************************)
EXTENDS Words, Sequences

R12 == 0..11
R16 == 0..15
R64 == 0..63

Registers == [A : [R12 -> Word], B : [R16 -> Word], C : [R16 -> Word]]
Block == [R16 -> Word]

A_init_256 ==
  LET t == << W(\h52F8, \h4552), W(\hE54B, \h7999), W(\h2D8E, \hE3EC),
              W(\hB964, \h5191), W(\hE007, \h8B86), W(\hBB7C, \h44C9),
              W(\hD2B5, \hC1CA), W(\hB0D2, \hEB8C), W(\h14CE, \h5A45),
              W(\h22AF, \h50DC), W(\hEFFD, \hBC6B), W(\hEB21, \hB74A) >>
  IN  [i \in R12 |-> t[i + 1]]

B_init_256 ==
  LET t == << W(\hB555, \hC6EE), W(\h3E71, \h0596), W(\hA72A, \h652F),
              W(\h9301, \h515F), W(\hDA28, \hC1FA), W(\h696F, \hD868),
              W(\h9CB6, \hBF72), W(\h0AFE, \h4002), W(\hA6E0, \h3615),
              W(\h5138, \hC1D4), W(\hBE21, \h6306), W(\hB38B, \h8890),
              W(\h3EA8, \hB96B), W(\h3299, \hACE4), W(\h3092, \h4DD4),
              W(\h55CB, \h34A5) >>
  IN  [i \in R16 |-> t[i + 1]]

C_init_256 ==
  LET t == << W(\hB405, \hF031), W(\hC423, \h3EBA), W(\hB373, \h3979),
              W(\hC0DD, \h9D55), W(\hC51C, \h28AE), W(\hA327, \hB8E1),
              W(\h56C5, \h6167), W(\hED61, \h4433), W(\h88B5, \h9D60),
              W(\h60E2, \hCEBA), W(\h758B, \h4B8B), W(\h83E8, \h2A7F),
              W(\hBC96, \h8828), W(\hE6E0, \h0BF7), W(\hBA83, \h9E55),
              W(\h9B49, \h1C60) >>
  IN  [i \in R16 |-> t[i + 1]]

-----------------------------------------------------------------------------
(* The macros.                                                              *)

INPUT_BLOCK_ADD(s, M) == [s EXCEPT !.B = [i \in R16 |-> Plus(@[i], M[i])]]
INPUT_BLOCK_SUB(s, M) == [s EXCEPT !.C = [i \in R16 |-> Minus(@[i], M[i])]]
XOR_W(s) == [s EXCEPT !.A[0] = Xor(@, s.Wlow), !.A[1] = Xor(@, s.Whigh)]
SWAP_BC(s) == [s EXCEPT !.B = s.C, !.C = s.B]
INCR_W(s) ==
  [s EXCEPT !.Wlow = Plus(@, One),
            !.Whigh = IF s.Wlow = Ones THEN Plus(@, One) ELSE @]

\* One element of the permutation.
PERM_ELT(r, xa0, xa1, xb0, xb1, xb2, xb3, xc, xm) ==
  LET u == Xor(Xor(r.A[xa0], Times5(Rotl(r.A[xa1], 15))), r.C[xc])
      set(a) == [r EXCEPT !.A[xa0] = a, !.B[xb0] = Not(Xor(Rotl(@, 1), a))]
  IN  set(Xor(Xor(Times3(u), r.B[xb1]), Xor(r.B[xb2] \ r.B[xb3], xm)))

\* The j-th of the 48 elements of PERM_STEP_0, _1 and _2.
PERM_STEP(r, M, j) ==
  PERM_ELT(r, j % 12, (j + 11) % 12, j % 16, (j + 13) % 16, (j + 9) % 16,
           (j + 6) % 16, (24 - (j % 16)) % 16, M[j % 16])

PERM_STEPS(r, M) ==
  LET P[j \in 0..48] == IF j = 0 THEN r ELSE PERM_STEP(P[j - 1], M, j - 1)
  IN  P[48]

APPLY_P(s, M) ==
  LET finished(r) ==
        [s EXCEPT !.A = [i \in R12 |-> Plus(Plus(Plus(r.A[i],
                           s.C[(i + 11) % 16]), s.C[(i + 15) % 16]),
                           s.C[(i + 3) % 16])],
                  !.B = r.B]
  IN  finished(PERM_STEPS([A |-> s.A, B |-> [i \in R16 |-> Rotl(s.B[i], 17)],
                           C |-> s.C], M))

\* A message block, and the last block, which is permuted four times.
message_block(s, M) ==
  INCR_W(SWAP_BC(INPUT_BLOCK_SUB(
    APPLY_P(XOR_W(INPUT_BLOCK_ADD(s, M)), M), M)))
final_block(s0, M) ==
  LET again(s) == APPLY_P(XOR_W(SWAP_BC(s)), M)
  IN  again(again(again(APPLY_P(XOR_W(INPUT_BLOCK_ADD(s0, M)), M))))

-----------------------------------------------------------------------------
(* The streaming functions.                                                 *)

\* The word at offset o of a buffer, and a block of 16 of them.
word_at(buf, o) == Word32(buf[o], buf[o + 1], buf[o + 2], buf[o + 3])
DECODE_BLOCK(buf) == [i \in R16 |-> word_at(buf, 4 * i)]

sph_shabal256_init(cc) ==
  [cc EXCEPT !.A = A_init_256, !.B = B_init_256, !.C = C_init_256,
             !.Wlow = One, !.Whigh = Zero, !.ptr = 0]

\* A context whose buffer has never been written to.
fresh == sph_shabal256_init([A |-> 0, B |-> 0, C |-> 0, Wlow |-> 0, Whigh |-> 0,
                             buf |-> [o \in R64 |-> {}], ptr |-> 0])

\* memcpy(buf + ptr, data, len)
copied(buf, ptr, data, len) ==
  [k \in R64 |-> IF k \in ptr..(ptr + len - 1) THEN data[k - ptr] ELSE buf[k]]

\* data + len
advanced(data, len) == [k \in {d - len : d \in {d \in DOMAIN data : d >= len}}
                          |-> data[k + len]]

\* The loop that fills the buffer and hashes it whenever it is full, j times
\* after 64 * j - ptr bytes, and keeps the rest.
consume(cc, data, len) ==
  LET n == (cc.ptr + len) \div 64
      used(j) == IF j = 0 THEN 0 ELSE 64 * j - cc.ptr
      full[j \in 0..n] ==
        IF j = 0 THEN cc
        ELSE LET s == full[j - 1]
                 buf == copied(s.buf, s.ptr, advanced(data, used(j - 1)),
                               64 - s.ptr)
             IN  [message_block(s, DECODE_BLOCK(buf)) EXCEPT
                    !.buf = buf, !.ptr = 0]
      rest == len - used(n)
  IN  [full[n] EXCEPT !.buf = copied(@, 0, advanced(data, used(n)), rest),
                      !.ptr = rest]

sph_shabal256(cc, data, len) ==
  IF len < 64 - cc.ptr
  THEN [cc EXCEPT !.buf = copied(@, cc.ptr, data, len), !.ptr = @ + len]
  ELSE consume(cc, data, len)

\* ((ub & -z) | z) & 0xFF for z = 0x80 >> n: the first n bits of ub, and a one.
last_byte(ub, n) == {7 - n} \cup {i \in ub : i > 7 - n}

padded(buf, ptr, ub, n) ==
  [k \in R64 |-> IF k < ptr THEN buf[k]
                 ELSE IF k = ptr THEN last_byte(ub, n) ELSE {}]

shabal_close(cc, ub, n) ==
  LET s == final_block(cc, DECODE_BLOCK(padded(cc.buf, cc.ptr, ub, n)))
  IN  [i \in 0..7 |-> s.B[i + 8]]

sph_shabal256_close(cc) == shabal_close(cc, {}, 0)
sph_shabal256_addbits_and_close(cc, ub, n) == shabal_close(cc, ub, n)

-----------------------------------------------------------------------------
(* The routines for plotting and mining, which start from the tables.       *)

fast_start == [A |-> A_init_256, B |-> B_init_256, C |-> C_init_256,
               Wlow |-> One, Whigh |-> Zero]

message_blocks(s0, message) ==
  LET after[j \in 0..Len(message)] ==
        IF j = 0 THEN s0 ELSE message_block(after[j - 1], message[j])
  IN  after[Len(message)]

sph_shabal_hash_fast(message, termination) ==
  LET s == final_block(message_blocks(fast_start, message), termination)
  IN  [i \in 0..7 |-> s.B[i + 8]]

sph_shabal_deadline_fast(scoop_data, gen_sig) ==
  LET m == [i \in R16 |-> IF i < 8 THEN gen_sig[i] ELSE scoop_data[i - 8]]
      t == [i \in R16 |-> IF i < 8 THEN scoop_data[i + 8]
                          ELSE IF i = 8 THEN {7} ELSE {}]
      s == final_block(message_block(fast_start, m), t)
  IN  Word64(s.B[8], s.B[9])
=============================================================================
