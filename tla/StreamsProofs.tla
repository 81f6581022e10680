---------------------------- MODULE StreamsProofs ---------------------------
(***************************************************************************)
(* Proofs about Streams: for every build, every message, every way to cut   *)
(* it into pieces, every choice of lanes left out and every ending, the     *)
(* lanes of the parallel context stay in step with scalar contexts fed the  *)
(* same, and all four ways to hash the message give the same digest.        *)
(***************************************************************************)
EXTENDS Streams, ShabalProofs

-----------------------------------------------------------------------------
(* The message of a lane.                                                   *)

BytesGiven == \A l, p \in Nat : Text(l, p) \in Byte

\* The state after the first k blocks of lane l's message.
Hashed(l, k) == message_blocks(fast_start, [j \in 1..k |-> block_of(l, j)])

\* Four bytes make a word.
LEMMA WordAt ==
  ASSUME NEW buf, NEW o, buf[o] \in Byte, buf[o + 1] \in Byte,
         buf[o + 2] \in Byte, buf[o + 3] \in Byte
  PROVE  word_at(buf, o) \in Word
BY DEF word_at, Word32, Word, Byte, Bits

\* A buffer of bytes decodes to a block.
LEMMA DecodedTyped ==
  ASSUME NEW buf \in [R64 -> Byte]
  PROVE  DECODE_BLOCK(buf) \in Block
<1>1. ASSUME NEW i \in R16 PROVE word_at(buf, 4 * i) \in Word
  <2>1. 4 * i \in R64 /\ 4 * i + 1 \in R64 /\ 4 * i + 2 \in R64 /\ 4 * i + 3 \in R64
    BY DEF R16, R64
  <2>2. /\ buf[4 * i] \in Byte /\ buf[4 * i + 1] \in Byte
        /\ buf[4 * i + 2] \in Byte /\ buf[4 * i + 3] \in Byte
    BY <2>1
  <2>3. QED
    BY <2>2, WordAt
<1>2. QED
  BY <1>1 DEF DECODE_BLOCK, Block

\* The 64 bytes of block j, and the block.
bytes_of(l, j) == [o \in R64 |-> Text(l, 64 * (j - 1) + o)]

\* Block j of a message is the block of its bytes.
LEMMA BlockOf ==
  ASSUME BytesGiven, NEW l \in Nat, NEW j \in Nat, j >= 1
  PROVE  /\ bytes_of(l, j) \in [R64 -> Byte]
         /\ block_of(l, j) = DECODE_BLOCK(bytes_of(l, j))
         /\ block_of(l, j) \in Block
<1>1. \A o \in R64 : 64 * (j - 1) + o \in Nat
  BY DEF R64
<1>2. bytes_of(l, j) \in [R64 -> Byte]
  BY <1>1 DEF bytes_of, BytesGiven
<1>3. block_of(l, j) = DECODE_BLOCK(bytes_of(l, j))
  BY DEF block_of, bytes_of
<1>4. QED
  BY <1>2, <1>3, DecodedTyped

\* A message of k blocks has length k.
LEMMA LenOfBlocks ==
  ASSUME BytesGiven, NEW l \in Nat, NEW k \in Nat
  PROVE  Len([j \in 1..k |-> block_of(l, j)]) = k
<1> DEFINE m == [j \in 1..k |-> block_of(l, j)]
<1>1. m \in [1..k -> Block]
  BY BlockOf
<1>2. m \in Seq(Block) /\ DOMAIN m = 1..k
  BY <1>1
<1> HIDE DEF m
<1>3. DOMAIN m = 1..Len(m) /\ Len(m) \in Nat
  BY <1>2
<1>4. Len(m) = k
  BY <1>2, <1>3
<1>5. QED
  BY <1>4 DEF m

\* Block by block: the states of a message of k blocks are those of its
\* beginnings.
LEMMA HashedSteps ==
  ASSUME TablesTyped, BytesGiven, NEW l \in Nat
  PROVE  /\ Hashed(l, 0) = fast_start
         /\ \A k \in Nat : /\ HashState(Hashed(l, k))
                           /\ Hashed(l, k + 1) =
                                message_block(Hashed(l, k), block_of(l, k + 1))
<1> DEFINE Runs(f, k) == /\ f[0] = fast_start
                         /\ \A j \in 1..k : f[j] = message_block(f[j - 1], block_of(l, j))
<1>1. ASSUME NEW k \in Nat
      PROVE  \E f : Runs(f, k) /\ Hashed(l, k) = f[k]
  <2> DEFINE m == [j \in 1..k |-> block_of(l, j)]
  <2>1. Len(m) = k
    BY LenOfBlocks
  <2>2. \A j \in 1..k : m[j] = block_of(l, j)
    OBVIOUS
  <2>3. Hashed(l, k) = message_blocks(fast_start, m)
    BY DEF Hashed
  <2> HIDE DEF m
  <2>4. PICK f : BlockRun(f, fast_start, m, k) /\ message_blocks(fast_start, m) = f[k]
    BY <2>1, MessageBlocksIs
  <2>5. QED
    BY <2>2, <2>3, <2>4 DEF BlockRun
<1>2. ASSUME NEW k \in Nat, NEW f, NEW g, Runs(f, k), NEW n \in Nat, Runs(g, n), k <= n
      PROVE  \A j \in 0..k : f[j] = g[j]
  <2> DEFINE T == {j \in 0..k : f[j] = g[j]}
  <2>1. 0 \in T
    BY <1>2
  <2>2. ASSUME NEW j \in 1..k, j - 1 \in T PROVE j \in T
    <3>1. j \in 1..n /\ j \in 0..k /\ f[j - 1] = g[j - 1]
      BY <1>2, <2>2
    <3>2. QED
      BY <1>2, <3>1
  <2> HIDE DEF T
  <2>3. \A j \in 0..k : j \in T
    BY <2>1, <2>2, BoundedInduction
  <2>4. QED
    BY <2>3 DEF T
<1>3. Hashed(l, 0) = fast_start
  BY <1>1
<1>4. ASSUME NEW k \in Nat
      PROVE  Hashed(l, k + 1) = message_block(Hashed(l, k), block_of(l, k + 1))
  <2>1. PICK f : Runs(f, k) /\ Hashed(l, k) = f[k]
    BY <1>1
  <2>2. k + 1 \in Nat /\ k <= k + 1 /\ k + 1 \in 1..(k + 1) /\ (k + 1) - 1 = k /\ k \in 0..k
    OBVIOUS
  <2>3. PICK g : Runs(g, k + 1) /\ Hashed(l, k + 1) = g[k + 1]
    BY <1>1, <2>2
  <2>4. f[k] = g[k]
    <3> HIDE DEF Runs
    <3>1. \A j \in 0..k : f[j] = g[j]
      BY <1>2, <2>1, <2>2, <2>3
    <3>2. QED
      BY <2>2, <3>1
  <2>5. g[k + 1] = message_block(g[k], block_of(l, k + 1))
    BY <2>2, <2>3
  <2>6. QED
    BY <2>1, <2>3, <2>4, <2>5
<1> HIDE DEF Runs
<1>5. \A k \in Nat : HashState(Hashed(l, k))
  <2> DEFINE T == {k \in Nat : HashState(Hashed(l, k))}
  <2>1. 0 \in T
    BY <1>3, StartState
  <2>2. ASSUME NEW k \in Nat, k \in T PROVE k + 1 \in T
    <3>1. HashState(Hashed(l, k)) /\ k + 1 \in Nat /\ k + 1 >= 1
      BY <2>2
    <3>2. block_of(l, k + 1) \in Block
      BY <3>1, BlockOf
    <3>3. HashState(message_block(Hashed(l, k), block_of(l, k + 1)))
      BY <3>1, <3>2, MessageBlock
    <3>4. QED
      BY <1>4, <3>1, <3>3
  <2> HIDE DEF T
  <2>3. \A k \in Nat : k \in T
    BY <2>1, <2>2, SetInduction
  <2>4. QED
    BY <2>3 DEF T
<1>6. QED
  BY <1>3, <1>4, <1>5

-----------------------------------------------------------------------------
(* The scalar stream.                                                       *)

\* The len bytes of lane l's message from byte n on.
piece(l, n, len) == [o \in 0..(len - 1) |-> Text(l, n + o)]

\* The first p bytes of block q + 1 of lane l's message.
HasBytes(buf, l, q, p) ==
  buf \in [R64 -> Byte] /\ \A o \in 0..(p - 1) : buf[o] = Text(l, 64 * q + o)

\* cc holds q whole blocks and the next p bytes of lane l's message.
HoldsAt(cc, l, q, p) ==
  /\ HashState(cc) /\ SameState(cc, Hashed(l, q))
  /\ {"buf", "ptr"} \subseteq DOMAIN cc
  /\ HasBytes(cc.buf, l, q, p) /\ cc.ptr = p

Holds(cc, l, n) == HoldsAt(cc, l, n \div 64, n % 64)

\* Whole blocks and the bytes after them.
LEMMA DivMod ==
  ASSUME NEW n \in Nat
  PROVE  /\ n \div 64 \in Nat /\ n % 64 \in R64 /\ n % 64 \in Nat
         /\ n = (64 * (n \div 64)) + (n % 64)
BY DEF R64

\* The quotient and the rest of a position given by both.
LEMMA DivOf ==
  ASSUME NEW q \in Nat, NEW p \in 0..63
  PROVE  (64 * q + p) \div 64 = q /\ (64 * q + p) % 64 = p
OBVIOUS

\* Part of the message, further on.
LEMMA AdvancedPiece ==
  ASSUME NEW l, NEW n \in Nat, NEW len \in Nat, NEW d \in 0..len
  PROVE  advanced(piece(l, n, len), d) = piece(l, n + d, len - d)
<1> DEFINE x == piece(l, n, len)
<1>1. DOMAIN x = 0..(len - 1)
  BY DEF piece
<1>2. {e - d : e \in {e \in DOMAIN x : e >= d}} = 0..(len - d - 1)
  <2>1. ASSUME NEW k \in 0..(len - d - 1)
        PROVE  k \in {e - d : e \in {e \in DOMAIN x : e >= d}}
    <3>1. k + d \in DOMAIN x /\ k + d >= d /\ (k + d) - d = k
      BY <1>1
    <3>2. QED
      BY <3>1
  <2>2. ASSUME NEW e \in DOMAIN x, e >= d PROVE e - d \in 0..(len - d - 1)
    BY <1>1, <2>2
  <2> HIDE DEF x
  <2>3. QED
    BY <2>1, <2>2
<1>3. ASSUME NEW k \in 0..(len - d - 1) PROVE x[k + d] = Text(l, n + d + k)
  <2>1. k + d \in 0..(len - 1) /\ n + (k + d) = n + d + k
    OBVIOUS
  <2>2. QED
    BY <2>1 DEF piece
<1> HIDE DEF x
<1>4. advanced(x, d) = [k \in 0..(len - d - 1) |-> x[k + d]]
  BY <1>2 DEF advanced
<1>5. advanced(x, d) = [k \in 0..(len - d - 1) |-> Text(l, n + d + k)]
  BY <1>3, <1>4
<1>6. QED
  BY <1>5 DEF piece, x

\* A buffer that holds p bytes of block q + 1, and m more of them.
LEMMA CopiedPiece ==
  ASSUME BytesGiven, NEW l \in Nat, NEW q \in Nat, NEW p \in R64, NEW len \in Nat,
         NEW m \in 0..len, p + m <= 64,
         NEW buf, HasBytes(buf, l, q, p)
  PROVE  HasBytes(copied(buf, p, piece(l, 64 * q + p, len), m), l, q, p + m)
<1> DEFINE x == piece(l, 64 * q + p, len)
           b == copied(buf, p, x, m)
<1>0. buf \in [R64 -> Byte] /\ \A o \in 0..(p - 1) : buf[o] = Text(l, 64 * q + o)
  BY DEF HasBytes
<1>1. ASSUME NEW o \in R64, o \in p..(p + m - 1)
      PROVE  b[o] = Text(l, 64 * q + o) /\ 64 * q + o \in Nat
  <2>1. o - p \in 0..(len - 1) /\ (64 * q + p) + (o - p) = 64 * q + o /\ 64 * q + o \in Nat
    BY <1>1 DEF R64
  <2>2. x[o - p] = Text(l, 64 * q + o)
    BY <2>1 DEF piece
  <2> HIDE DEF x
  <2>3. b[o] = x[o - p]
    BY <1>1 DEF copied
  <2>4. QED
    BY <2>1, <2>2, <2>3
<1>2. ASSUME NEW o \in R64, o \notin p..(p + m - 1)
      PROVE  b[o] = buf[o]
  <2> HIDE DEF x
  <2>1. QED
    BY <1>2 DEF copied
<1>3. b = [o \in R64 |-> b[o]]
  <2> HIDE DEF x
  <2>1. QED
    BY DEF copied
<1> HIDE DEF b
<1>4. \A o \in R64 : b[o] \in Byte
  BY <1>0, <1>1, <1>2 DEF BytesGiven
<1>5. ASSUME NEW o \in 0..(p + m - 1) PROVE b[o] = Text(l, 64 * q + o)
  <2>1. o \in R64
    BY DEF R64
  <2>2. CASE o \in p..(p + m - 1)
    BY <2>1, <2>2, <1>1
  <2>3. CASE o \notin p..(p + m - 1)
    <3>1. o \in 0..(p - 1)
      BY <2>3 DEF R64
    <3>2. QED
      BY <2>1, <2>3, <3>1, <1>0, <1>2
  <2>4. QED
    BY <2>2, <2>3
<1>6. HasBytes(b, l, q, p + m)
  <2> HIDE DEF x
  <2>1. b \in [R64 -> Byte]
    BY <1>3, <1>4
  <2>2. \A o \in 0..(p + m - 1) : b[o] = Text(l, 64 * q + o)
    BY <1>5
  <2>3. QED
    BY <2>1, <2>2 DEF HasBytes, R64
<1>7. QED
  BY <1>6 DEF b

\* A full buffer is the next block.
LEMMA FullBlock ==
  ASSUME BytesGiven, NEW l \in Nat, NEW q \in Nat, NEW buf, HasBytes(buf, l, q, 64)
  PROVE  DECODE_BLOCK(buf) = block_of(l, q + 1) /\ block_of(l, q + 1) \in Block
<1>1. (q + 1) - 1 = q /\ q + 1 \in Nat /\ q + 1 >= 1
  OBVIOUS
<1>2. buf = bytes_of(l, q + 1)
  BY <1>1 DEF bytes_of, R64, HasBytes
<1>3. QED
  BY <1>1, <1>2, BlockOf

\* The scalar context hashes its buffer.
LEMMA NextBlock ==
  ASSUME TablesTyped, BytesGiven, NEW l \in Nat, NEW q \in Nat, NEW cc, NEW p,
         HoldsAt(cc, l, q, p), NEW buf, HasBytes(buf, l, q, 64)
  PROVE  HoldsAt([message_block(cc, DECODE_BLOCK(buf)) EXCEPT !.buf = buf, !.ptr = 0],
                 l, q + 1, 0)
<1> DEFINE M == DECODE_BLOCK(buf)
           t == message_block(cc, M)
           u == [t EXCEPT !.buf = buf, !.ptr = 0]
<1>1. M = block_of(l, q + 1) /\ M \in Block
  BY FullBlock
<1> HIDE DEF M
<1>2. HashState(Hashed(l, q)) /\ Hashed(l, q + 1) = message_block(Hashed(l, q), M)
  BY <1>1, HashedSteps
<1>3. HashState(t) /\ DOMAIN t = DOMAIN cc
  BY <1>1, MessageBlock DEF HoldsAt, Beside
<1>4. SameState(t, Hashed(l, q + 1))
  BY <1>1, <1>2, SameBlock DEF HoldsAt
<1> HIDE DEF t
<1>5. /\ DOMAIN u = DOMAIN t /\ u.A = t.A /\ u.B = t.B /\ u.C = t.C
      /\ u.Wlow = t.Wlow /\ u.Whigh = t.Whigh /\ u.buf = buf /\ u.ptr = 0
  BY <1>3 DEF HashState, HoldsAt
<1> HIDE DEF u
<1>6. HashState(u) /\ SameState(u, Hashed(l, q + 1))
  BY <1>3, <1>4, <1>5 DEF HashState, SameState, Regs
<1>7. HoldsAt(u, l, q + 1, 0)
  <2>1. HasBytes(buf, l, q + 1, 0)
    BY DEF HasBytes
  <2>2. QED
    BY <1>3, <1>5, <1>6, <2>1 DEF HoldsAt
<1>8. QED
  BY <1>7 DEF u, t, M

\* The first m bytes of data, kept from p on.
kept(cc, p, data, m) == [cc EXCEPT !.buf = copied(@, p, data, m), !.ptr = p + m]

\* A context that keeps m more bytes holds them.
LEMMA HoldsRest ==
  ASSUME BytesGiven, NEW l \in Nat, NEW q \in Nat, NEW cc, NEW p \in R64,
         HoldsAt(cc, l, q, p), NEW len \in Nat, NEW m \in 0..len, p + m < 64
  PROVE  HoldsAt(kept(cc, p, piece(l, 64 * q + p, len), m), l, q, p + m)
<1> DEFINE b == copied(cc.buf, p, piece(l, 64 * q + p, len), m)
           u == [cc EXCEPT !.buf = b, !.ptr = p + m]
<1>1. HasBytes(b, l, q, p + m)
  <2>1. HasBytes(cc.buf, l, q, p) /\ p + m <= 64
    BY DEF HoldsAt, R64
  <2> HIDE DEF u
  <2>2. QED
    BY <2>1, CopiedPiece
<1>2. u = kept(cc, p, piece(l, 64 * q + p, len), m)
  BY DEF kept
<1> HIDE DEF b
<1>3. /\ DOMAIN u = DOMAIN cc /\ u.A = cc.A /\ u.B = cc.B /\ u.C = cc.C
      /\ u.Wlow = cc.Wlow /\ u.Whigh = cc.Whigh /\ u.buf = b /\ u.ptr = p + m
  BY DEF HoldsAt, HashState
<1> HIDE DEF u
<1>4. HashState(u) /\ SameState(u, Hashed(l, q))
  BY <1>3 DEF HoldsAt, HashState, SameState, Regs
<1>5. HoldsAt(u, l, q, p + m)
  BY <1>1, <1>3, <1>4 DEF HoldsAt
<1>6. QED
  BY <1>2, <1>5

\* N full buffers, and what the loop has used of the len bytes after each.
Uses(cc, q, p, len, N) ==
  /\ N \in Nat /\ N >= 1
  /\ used_after(cc, N) = 64 * N - p
  /\ 64 * N - p \in 0..len
  /\ len - (64 * N - p) \in 0..63
  /\ \A j \in 1..N :
       /\ used_after(cc, j - 1) \in 0..len
       /\ 64 * q + p + used_after(cc, j - 1) =
            64 * (q + j - 1) + (IF j - 1 = 0 THEN p ELSE 0)
       /\ 64 - (IF j - 1 = 0 THEN p ELSE 0) \in 0..(len - used_after(cc, j - 1))

\* The loop uses 64 bytes a time but for the first, and less than 64 remain.
LEMMA UsedAfter ==
  ASSUME NEW l \in Nat, NEW q \in Nat, NEW p \in 0..63, NEW len \in Nat,
         p + len >= 64, NEW cc, cc.ptr = p, NEW N, N = (p + len) \div 64
  PROVE  Uses(cc, q, p, len, N)
<1>1. N \in Nat /\ N >= 1 /\ 64 * N <= p + len /\ p + len < 64 * N + 64
  OBVIOUS
<1>2. used_after(cc, N) = 64 * N - p
  BY <1>1 DEF used_after
<1>3. 64 * N - p \in 0..len /\ len - (64 * N - p) \in 0..63
  BY <1>1
<1>4. ASSUME NEW j \in 1..N
      PROVE  /\ used_after(cc, j - 1) \in 0..len
             /\ 64 * q + p + used_after(cc, j - 1) =
                   64 * (q + j - 1) + (IF j - 1 = 0 THEN p ELSE 0)
             /\ 64 - (IF j - 1 = 0 THEN p ELSE 0) \in 0..(len - used_after(cc, j - 1))
  <2>1. CASE j = 1
    BY <1>1, <2>1 DEF used_after
  <2>2. CASE j # 1
    <3>1. used_after(cc, j - 1) = 64 * (j - 1) - p /\ j - 1 # 0
      BY <2>2 DEF used_after
    <3>2. 64 * (j - 1) - p \in 0..len /\ 64 <= len - (64 * (j - 1) - p)
      BY <1>1, <2>2
    <3>3. QED
      BY <3>1, <3>2
  <2>3. QED
    BY <2>1, <2>2
<1>5. QED
  BY <1>1, <1>2, <1>3, <1>4 DEF Uses

\* A scalar context fed the next piece of its message holds it.
LEMMA ScalarFeed ==
  ASSUME TablesTyped, BytesGiven, NEW l \in Nat, NEW n \in Nat, NEW len \in Nat,
         NEW cc, Holds(cc, l, n)
  PROVE  Holds(sph_shabal256(cc, piece(l, n, len), len), l, n + len)
<1> DEFINE q == n \div 64
           p == n % 64
           x == piece(l, n, len)
           t == sph_shabal256(cc, x, len)
<1>1. q \in Nat /\ p \in R64 /\ p \in 0..63 /\ n = 64 * q + p
  BY DivMod DEF R64
<1>2. HoldsAt(cc, l, q, p) /\ cc.ptr = p
  BY DEF Holds, HoldsAt
<1> HIDE DEF q, p
<1>3. CASE len < 64 - p
  <2>1. t = kept(cc, p, x, len)
    BY <1>1, <1>2, <1>3 DEF sph_shabal256, kept, HoldsAt
  <2>2. len \in 0..len /\ p + len < 64 /\ p + len \in 0..63
    BY <1>1, <1>3
  <2> HIDE DEF t
  <2>3. HoldsAt(kept(cc, p, piece(l, 64 * q + p, len), len), l, q, p + len)
    BY <1>1, <1>2, <2>2, HoldsRest
  <2>4. HoldsAt(t, l, q, p + len)
    BY <1>1, <2>1, <2>3
  <2>5. n + len = 64 * q + (p + len)
    BY <1>1
  <2>6. (n + len) \div 64 = q /\ (n + len) % 64 = p + len
    BY <1>1, <2>2, <2>5, DivOf
  <2>7. QED
    BY <2>4, <2>6 DEF Holds, t
<1>4. CASE ~(len < 64 - p)
  <2> DEFINE N == (p + len) \div 64
             st(j) == IF j = 0 THEN p ELSE 0
             rest == len - (64 * N - p)
  <2>1. p + len >= 64
    BY <1>1, <1>4
  <2>2. t = consume(cc, x, len)
    BY <1>2, <1>4 DEF sph_shabal256
  <2> HIDE DEF t
  <2>0. Uses(cc, q, p, len, N)
    <3> DEFINE K == N
    <3>1. K = (p + len) \div 64
      OBVIOUS
    <3> HIDE DEF K
    <3>2. Uses(cc, q, p, len, K)
      BY <1>1, <1>2, <2>1, <3>1, UsedAfter
    <3>3. QED
      BY <3>2 DEF K
  <2>5. N = (cc.ptr + len) \div 64
    BY <1>2
  <2> HIDE DEF N
  <2>3. /\ N \in Nat /\ N >= 1
        /\ used_after(cc, N) = 64 * N - p
        /\ 64 * N - p \in 0..len
        /\ rest \in 0..63
    BY <2>0 DEF Uses
  <2>4. ASSUME NEW j \in 1..N
        PROVE /\ used_after(cc, j - 1) \in 0..len
              /\ 64 * q + p + used_after(cc, j - 1) = 64 * (q + j - 1) + st(j - 1)
              /\ 64 - st(j - 1) \in 0..(len - used_after(cc, j - 1))
    BY <2>0, <2>4 DEF Uses
  <2>6. PICK f : /\ ConsumeRun(f, cc, x, N)
                 /\ consume(cc, x, len) = kept_rest(f[N], cc, x, len, N)
    BY <2>3, <2>5, ConsumeIs
  <2> DEFINE T == {j \in 0..N : HoldsAt(f[j], l, q + j, st(j))}
  <2>7. 0 \in T
    BY <1>1, <1>2, <2>3, <2>6 DEF ConsumeRun
  <2>8. ASSUME NEW j \in 1..N, j - 1 \in T PROVE j \in T
    <3> DEFINE s == f[j - 1]
               r == st(j - 1)
               u == used_after(cc, j - 1)
               b == full_buf(cc, s, x, j)
    <3>1. HoldsAt(s, l, q + (j - 1), r)
      BY <2>8
    <3>2. r \in R64 /\ r \in 0..63 /\ q + (j - 1) \in Nat /\ (q + (j - 1)) + 1 = q + j
      BY <1>1 DEF R64
    <3>3. u \in 0..len /\ n + u = 64 * (q + (j - 1)) + r /\ 64 - r \in 0..(len - u)
          /\ r + (64 - r) = 64 /\ len - u \in Nat
      <4>1. /\ u \in 0..len /\ 64 * q + p + u = 64 * (q + j - 1) + r
            /\ 64 - r \in 0..(len - u)
        BY <2>4
      <4> HIDE DEF u, r
      <4>2. QED
        BY <1>1, <3>2, <4>1
    <3>4. f[j] = emptied(cc, s, x, j) /\ st(j) = 0
      BY <2>6 DEF ConsumeRun
    <3>5. s.ptr = r /\ HasBytes(s.buf, l, q + (j - 1), r)
      BY <3>1 DEF HoldsAt
    <3>6. b = copied(s.buf, r, piece(l, 64 * (q + (j - 1)) + r, len - u), 64 - r)
      <4> HIDE DEF s, r
      <4>1. b = copied(s.buf, r, advanced(x, u), 64 - r)
        BY <3>5 DEF full_buf
      <4> HIDE DEF u, b
      <4>2. advanced(x, u) = piece(l, n + u, len - u)
        BY <3>3, AdvancedPiece
      <4>3. QED
        BY <3>3, <4>1, <4>2
    <3> HIDE DEF s, r, u, T, st
    <3>7. HasBytes(b, l, q + (j - 1), 64)
      <4> HIDE DEF b
      <4> DEFINE m == 64 - r
                 qq == q + (j - 1)
                 ll == len - u
      <4>1. m \in 0..ll /\ r + m <= 64 /\ r + m = 64 /\ qq \in Nat /\ ll \in Nat
        BY <3>2, <3>3
      <4>2. b = copied(s.buf, r, piece(l, 64 * qq + r, ll), m) /\ HasBytes(s.buf, l, qq, r)
        BY <3>5, <3>6
      <4> HIDE DEF m, qq, ll
      <4>3. HasBytes(copied(s.buf, r, piece(l, 64 * qq + r, ll), m), l, qq, r + m)
        BY <3>2, <4>1, <4>2, CopiedPiece
      <4>4. HasBytes(b, l, qq, 64)
        BY <4>1, <4>2, <4>3
      <4>5. QED
        BY <4>4 DEF qq
    <3>8. emptied(cc, s, x, j) = [message_block(s, DECODE_BLOCK(b)) EXCEPT !.buf = b, !.ptr = 0]
      BY DEF emptied
    <3> HIDE DEF b
    <3>9. HoldsAt([message_block(s, DECODE_BLOCK(b)) EXCEPT !.buf = b, !.ptr = 0],
                  l, (q + (j - 1)) + 1, 0)
      BY <3>1, <3>2, <3>7, NextBlock
    <3>10. HoldsAt(f[j], l, q + j, 0)
      BY <3>2, <3>4, <3>8, <3>9
    <3>11. QED
      BY <3>4, <3>10 DEF T
  <2> HIDE DEF T
  <2>9. N \in T
    <3>1. \A j \in 0..N : j \in T
      BY <2>3, <2>7, <2>8, BoundedInduction
    <3>2. QED
      BY <2>3, <3>1
  <2>10. HoldsAt(f[N], l, q + N, 0)
    BY <2>3, <2>9 DEF T
  <2>11. rest \in Nat /\ rest \in 0..rest /\ 0 + rest < 64 /\ 0 \in R64 /\ q + N \in Nat
         /\ 0 + rest = rest
    BY <1>1, <2>3 DEF R64
  <2>12. advanced(x, 64 * N - p) = piece(l, 64 * (q + N) + 0, rest)
    <3> DEFINE d == 64 * N - p
    <3>1. d \in 0..len /\ n + d = 64 * (q + N) + 0 /\ len - d = rest
      BY <1>1, <2>3
    <3> HIDE DEF d, rest, x
    <3>2. advanced(x, d) = piece(l, n + d, len - d)
      BY <3>1, AdvancedPiece DEF x
    <3>3. advanced(x, d) = piece(l, 64 * (q + N) + 0, rest)
      BY <3>1, <3>2
    <3>4. QED
      BY <3>3 DEF d
  <2>13. t = kept(f[N], 0, advanced(x, 64 * N - p), rest)
    BY <2>2, <2>3, <2>6, <2>11 DEF kept_rest, kept
  <2> HIDE DEF rest, x
  <2>14. HoldsAt(kept(f[N], 0, piece(l, 64 * (q + N) + 0, rest), rest), l, q + N, 0 + rest)
    BY <2>10, <2>11, HoldsRest
  <2>15. HoldsAt(t, l, q + N, rest)
    BY <2>11, <2>12, <2>13, <2>14
  <2>16. n + len = 64 * (q + N) + rest
    BY <1>1, <2>3 DEF rest
  <2>17. (n + len) \div 64 = q + N /\ (n + len) % 64 = rest
    <3> DEFINE k == q + N
    <3>1. k \in Nat /\ rest \in 0..63 /\ n + len = 64 * k + rest
      BY <2>3, <2>11, <2>16 DEF rest
    <3> HIDE DEF k
    <3>2. (n + len) \div 64 = k /\ (n + len) % 64 = rest
      BY <3>1, DivOf
    <3>3. QED
      BY <3>2 DEF k
  <2>18. QED
    BY <2>15, <2>17 DEF Holds, t, x
<1>5. QED
  BY <1>3, <1>4

-----------------------------------------------------------------------------
(* The vector context.                                                      *)

Bytes(len) == [0..(len - 1) -> Byte]

\* A context of the streaming functions, for hashes of 256 bits.
Context(V, sc) ==
  /\ VectorState(V, sc) /\ {"bufs", "ptr", "out_size"} \subseteq DOMAIN sc
  /\ sc.ptr \in R64 /\ sc.out_size = 256
  /\ \A l \in Lanes(V) : sc.bufs[l] \in [R64 -> Byte]

\* The lanes of act hold q blocks of their messages.
LanesAt(V, sc, act, q) == \A l \in act : InStep(V, sc, l, Hashed(l, q))

\* They hold that, and p bytes more.
VectorHolds(V, sc, act, q, p) ==
  /\ Context(V, sc) /\ sc.ptr = p /\ LanesAt(V, sc, act, q)
  /\ \A l \in act : HasBytes(sc.bufs[l], l, q, p)

\* Part of a piece.
LEMMA AdvancedTyped ==
  ASSUME NEW len \in Nat, NEW x \in Bytes(len), NEW d \in 0..len
  PROVE  advanced(x, d) \in Bytes(len - d)
<1>1. DOMAIN x = 0..(len - 1)
  BY DEF Bytes
<1>2. {e - d : e \in {e \in DOMAIN x : e >= d}} = 0..(len - d - 1)
  <2>1. ASSUME NEW k \in 0..(len - d - 1)
        PROVE  k \in {e - d : e \in {e \in DOMAIN x : e >= d}}
    <3>1. k + d \in DOMAIN x /\ k + d >= d /\ (k + d) - d = k
      BY <1>1
    <3>2. QED
      BY <3>1
  <2>2. ASSUME NEW e \in DOMAIN x, e >= d PROVE e - d \in 0..(len - d - 1)
    BY <1>1, <2>2
  <2>3. QED
    BY <2>1, <2>2
<1>3. ASSUME NEW k \in 0..(len - d - 1) PROVE x[k + d] \in Byte
  <2>1. k + d \in 0..(len - 1)
    OBVIOUS
  <2>2. QED
    BY <2>1 DEF Bytes
<1>4. advanced(x, d) = [k \in 0..(len - d - 1) |-> x[k + d]]
  BY <1>2 DEF advanced
<1>5. QED
  BY <1>3, <1>4 DEF Bytes

\* A buffer filled from a piece.
LEMMA CopiedTyped ==
  ASSUME NEW len \in Nat, NEW x \in Bytes(len), NEW m \in 0..len, NEW p \in R64,
         p + m <= 64, NEW buf \in [R64 -> Byte]
  PROVE  copied(buf, p, x, m) \in [R64 -> Byte]
<1>1. ASSUME NEW k \in R64, k \in p..(p + m - 1) PROVE x[k - p] \in Byte
  <2>1. k - p \in 0..(len - 1)
    BY <1>1 DEF R64
  <2>2. QED
    BY <2>1 DEF Bytes
<1>2. QED
  BY <1>1 DEF copied

\* A piece of a message is bytes.
LEMMA PieceTyped ==
  ASSUME BytesGiven, NEW l \in Nat, NEW n \in Nat, NEW len \in Nat
  PROVE  piece(l, n, len) \in Bytes(len)
<1>1. \A o \in 0..(len - 1) : n + o \in Nat
  OBVIOUS
<1>2. QED
  BY <1>1 DEF piece, Bytes, BytesGiven

-----------------------------------------------------------------------------
(* Whole blocks of the message.                                             *)

\* The first len bytes of x are bytes, and those of lane l from byte at on.
Filled(x, len) == \A o \in 0..(len - 1) : x[o] \in Byte
Follows(x, l, at, len) == \A o \in 0..(len - 1) : x[o] = Text(l, at + o)

\* Block j of the bytes x.
block_at(x, j) == [i \in R16 |-> word_at(x, 64 * (j - 1) + 4 * i)]

\* A whole block of data.
LEMMA BlockAtTyped ==
  ASSUME NEW N \in Nat, NEW x, Filled(x, 64 * N), NEW j \in 1..N
  PROVE  block_at(x, j) \in Block
<1>1. ASSUME NEW i \in R16 PROVE word_at(x, 64 * (j - 1) + 4 * i) \in Word
  <2> DEFINE o == 64 * (j - 1) + 4 * i
  <2>1. /\ o \in 0..(64 * N - 1) /\ o + 1 \in 0..(64 * N - 1)
        /\ o + 2 \in 0..(64 * N - 1) /\ o + 3 \in 0..(64 * N - 1)
    BY DEF R16
  <2> HIDE DEF o
  <2>2. x[o] \in Byte /\ x[o + 1] \in Byte /\ x[o + 2] \in Byte /\ x[o + 3] \in Byte
    BY <2>1 DEF Filled
  <2>3. word_at(x, o) \in Word
    BY <2>2, WordAt
  <2>4. QED
    BY <2>3 DEF o
<1>2. QED
  BY <1>1 DEF block_at, Block

\* A block of data that follows on whole blocks is the next of the message.
LEMMA BlockAtIs ==
  ASSUME NEW N \in Nat, NEW l \in Nat, NEW q \in Nat, NEW x,
         Follows(x, l, 64 * q, 64 * N), NEW j \in 1..N
  PROVE  block_at(x, j) = block_of(l, q + j)
<1> DEFINE b == bytes_of(l, q + j)
<1>1. block_of(l, q + j) = [i \in R16 |-> word_at(b, 4 * i)]
  BY DEF block_of, bytes_of, DECODE_BLOCK
<1>2. ASSUME NEW o \in R64 PROVE b[o] = x[64 * (j - 1) + o]
  <2>1. /\ 64 * (j - 1) + o \in 0..(64 * N - 1)
        /\ 64 * q + (64 * (j - 1) + o) = 64 * ((q + j) - 1) + o
    BY DEF R64
  <2>2. b[o] = Text(l, 64 * ((q + j) - 1) + o)
    BY DEF bytes_of
  <2> DEFINE e == 64 * (j - 1) + o
  <2>3. e \in 0..(64 * N - 1) /\ 64 * q + e = 64 * ((q + j) - 1) + o
    BY <2>1
  <2> HIDE DEF e, b
  <2>4. x[e] = Text(l, 64 * q + e)
    BY <2>3 DEF Follows
  <2>5. QED
    BY <2>2, <2>3, <2>4 DEF e
<1> HIDE DEF b
<1>3. ASSUME NEW i \in R16 PROVE word_at(b, 4 * i) = word_at(x, 64 * (j - 1) + 4 * i)
  <2>1. 4 * i \in R64 /\ 4 * i + 1 \in R64 /\ 4 * i + 2 \in R64 /\ 4 * i + 3 \in R64
    BY DEF R16, R64
  <2>2. /\ b[4 * i] = x[64 * (j - 1) + 4 * i]
        /\ b[4 * i + 1] = x[64 * (j - 1) + (4 * i + 1)]
        /\ b[4 * i + 2] = x[64 * (j - 1) + (4 * i + 2)]
        /\ b[4 * i + 3] = x[64 * (j - 1) + (4 * i + 3)]
    BY <1>2, <2>1
  <2>3. /\ 64 * (j - 1) + (4 * i + 1) = (64 * (j - 1) + 4 * i) + 1
        /\ 64 * (j - 1) + (4 * i + 2) = (64 * (j - 1) + 4 * i) + 2
        /\ 64 * (j - 1) + (4 * i + 3) = (64 * (j - 1) + 4 * i) + 3
    BY DEF R16
  <2>4. QED
    BY <2>2, <2>3 DEF word_at
<1>4. QED
  BY <1>1, <1>3 DEF block_at

\* The blocks of a call of compress.
blocks_of(V, bufs, N) == [j \in 1..N |-> [l \in Lanes(V) |-> block_at(bufs[l], j)]]

\* compress is rounds over the blocks its lanes hold.
LEMMA CompressIs ==
  ASSUME NEW V, NEW sc, NEW bufs, NEW N \in Nat
  PROVE  compress(V, sc, bufs, N) = all_rounds(V, sc, blocks_of(V, bufs, N))
BY DEF compress, blocks_of, block_at

\* N vector blocks have length N.
LEMMA LenOfVectorBlocks ==
  ASSUME NEW V \in Widths, NEW N \in Nat, NEW m \in [1..N -> [Lanes(V) -> Block]]
  PROVE  Len(m) = N
<1>1. m \in Seq([Lanes(V) -> Block]) /\ DOMAIN m = 1..N
  OBVIOUS
<1>2. DOMAIN m = 1..Len(m) /\ Len(m) \in Nat
  BY <1>1
<1>3. QED
  BY <1>1, <1>2

\* Rounds over blocks, of which those of the lanes of act are their messages'.
LEMMA AllRoundsInStep ==
  ASSUME TablesTyped, BytesGiven, NEW V \in Widths, NEW sc, VectorState(V, sc),
         NEW act \in SUBSET Lanes(V), NEW q \in Nat, LanesAt(V, sc, act, q),
         NEW N \in Nat, NEW m \in [1..N -> [Lanes(V) -> Block]],
         \A j \in 1..N : \A l \in act : m[j][l] = block_of(l, q + j)
  PROVE  LET t == all_rounds(V, sc, m)
         IN  VectorState(V, t) /\ Around(sc, t) /\ LanesAt(V, t, act, q + N)
<1> DEFINE t == all_rounds(V, sc, m)
<1>1. PICK f : RoundRun(f, V, sc, m, N) /\ t = f[N]
  BY LenOfVectorBlocks, AllRoundsIs
<1> DEFINE T == {j \in 0..N : /\ VectorState(V, f[j]) /\ Around(sc, f[j])
                              /\ LanesAt(V, f[j], act, q + j)}
<1>2. 0 \in T
  <2>1. f[0] = sc
    BY <1>1 DEF RoundRun
  <2>2. Around(sc, f[0])
    BY <2>1 DEF Around
  <2>3. LanesAt(V, f[0], act, q + 0)
    BY <2>1
  <2>4. QED
    BY <2>1, <2>2, <2>3
<1>3. ASSUME NEW j \in 1..N, j - 1 \in T PROVE j \in T
  <2> DEFINE s == f[j - 1]
             k == q + (j - 1)
  <2>1. VectorState(V, s) /\ Around(sc, s) /\ LanesAt(V, s, act, k)
    BY <1>3
  <2>2. f[j] = rounds(V, s, m[j]) /\ m[j] \in [Lanes(V) -> Block]
    BY <1>1 DEF RoundRun
  <2>3. k \in Nat /\ k + 1 = q + j
    OBVIOUS
  <2> HIDE DEF s, k, t, T
  <2>4. VectorState(V, f[j]) /\ Around(s, f[j])
    BY <2>1, <2>2, RoundsLanes
  <2>5. Around(sc, f[j])
    BY <2>1, <2>4, AroundTwice
  <2>6. ASSUME NEW l \in act PROVE InStep(V, f[j], l, Hashed(l, q + j))
    <3>1. l \in Lanes(V) /\ l \in Nat
      BY DEF Lanes
    <3>2. InStep(V, s, l, Hashed(l, k))
      BY <2>1 DEF LanesAt
    <3>3. HashState(Hashed(l, k)) /\ Hashed(l, k + 1) = message_block(Hashed(l, k), block_of(l, k + 1))
      BY <2>3, <3>1, HashedSteps
    <3>4. InStep(V, rounds(V, s, m[j]), l, message_block(Hashed(l, k), m[j][l]))
      BY <2>1, <2>2, <3>1, <3>2, <3>3, RoundInStep
    <3>5. m[j][l] = block_of(l, k + 1)
      BY <2>3
    <3>6. QED
      BY <2>2, <2>3, <3>3, <3>4, <3>5
  <2>7. LanesAt(V, f[j], act, q + j)
    BY <2>6 DEF LanesAt
  <2>8. j \in 0..N
    OBVIOUS
  <2>9. QED
    BY <2>4, <2>5, <2>7, <2>8 DEF T
<1> HIDE DEF T, t
<1>4. N \in T
  <2>1. \A j \in 0..N : j \in T
    BY <1>2, <1>3, BoundedInduction
  <2>2. QED
    BY <2>1
<1>5. QED
  BY <1>1, <1>4 DEF T, t

\* A call of compress over N blocks of bytes.
LEMMA CompressInStep ==
  ASSUME TablesTyped, BytesGiven, NEW V \in Widths, NEW sc, VectorState(V, sc),
         NEW act \in SUBSET Lanes(V), NEW q \in Nat, LanesAt(V, sc, act, q),
         NEW N \in Nat, NEW bufs, \A l \in Lanes(V) : Filled(bufs[l], 64 * N),
         \A l \in act : Follows(bufs[l], l, 64 * q, 64 * N)
  PROVE  LET t == compress(V, sc, bufs, N)
         IN  VectorState(V, t) /\ Around(sc, t) /\ LanesAt(V, t, act, q + N)
<1> DEFINE m == blocks_of(V, bufs, N)
<1>1. ASSUME NEW j \in 1..N, NEW l \in Lanes(V)
      PROVE  m[j][l] \in Block /\ (l \in act => m[j][l] = block_of(l, q + j))
  <2>1. m[j][l] = block_at(bufs[l], j)
    BY DEF blocks_of
  <2>2. block_at(bufs[l], j) \in Block
    BY BlockAtTyped
  <2>3. ASSUME l \in act PROVE block_at(bufs[l], j) = block_of(l, q + j)
    <3>1. l \in Nat /\ Follows(bufs[l], l, 64 * q, 64 * N)
      BY <2>3 DEF Lanes
    <3> DEFINE x == bufs[l]
    <3>2. Follows(x, l, 64 * q, 64 * N)
      BY <3>1
    <3> HIDE DEF x, m
    <3>3. block_at(x, j) = block_of(l, q + j)
      BY <3>1, <3>2, BlockAtIs
    <3>4. QED
      BY <3>3 DEF x
  <2>4. QED
    BY <2>1, <2>2, <2>3
<1>2. m \in [1..N -> [Lanes(V) -> Block]]
  <2>1. m = [j \in 1..N |-> m[j]] /\ \A j \in 1..N : m[j] = [l \in Lanes(V) |-> m[j][l]]
    BY DEF blocks_of
  <2> HIDE DEF m
  <2>2. \A j \in 1..N : m[j] \in [Lanes(V) -> Block]
    BY <1>1, <2>1
  <2>3. QED
    BY <2>1, <2>2
<1>3. \A j \in 1..N : \A l \in act : m[j][l] = block_of(l, q + j)
  BY <1>1
<1>4. compress(V, sc, bufs, N) = all_rounds(V, sc, m)
  BY CompressIs
<1> HIDE DEF m
<1>5. QED
  BY <1>2, <1>3, <1>4, AllRoundsInStep

-----------------------------------------------------------------------------
(* The streaming functions of a build.                                      *)

\* The vector size of each build.
LEMMA SizeOf ==
  ASSUME NEW v \in DOMAIN VectorSizes
  PROVE  /\ VectorSizes[v] \in Widths
         /\ v \in {"sse2", "avx", "neon", "avx2", "avx512f"}
         /\ v \in {"sse2", "avx", "neon"} => VectorSizes[v] = 4
         /\ v = "avx2" => VectorSizes[v] = 8
         /\ v = "avx512f" => VectorSizes[v] = 16
BY DEF VectorSizes, Widths, MSHABAL128_VECTOR_SIZE, MSHABAL256_VECTOR_SIZE,
       MSHABAL512_VECTOR_SIZE

\* V is the number of lanes of build v.
SizeIs(v, V) == v \in DOMAIN VectorSizes /\ V = VectorSizes[v]

\* A build's compression function is that of its vector size.
LEMMA CompressedIs ==
  ASSUME NEW v \in DOMAIN VectorSizes, NEW sc, NEW bufs, NEW N
  PROVE  compressed(v, sc, bufs, N) = compress(VectorSizes[v], sc, bufs, N)
<1>1. CASE v = "sse2"
  BY <1>1, SizeOf DEF compressed, mshabal_compress_sse2, MSHABAL128_VECTOR_SIZE
<1>2. CASE v = "avx"
  BY <1>2, SizeOf DEF compressed, mshabal_compress_avx, MSHABAL128_VECTOR_SIZE
<1>3. CASE v = "neon"
  BY <1>3, SizeOf DEF compressed, mshabal_compress_neon, MSHABAL128_VECTOR_SIZE
<1>4. CASE v = "avx2"
  BY <1>4, SizeOf DEF compressed, mshabal_compress_avx2, MSHABAL256_VECTOR_SIZE
<1>5. CASE v = "avx512f"
  BY <1>5, SizeOf DEF compressed, mshabal_compress_avx512f, MSHABAL512_VECTOR_SIZE
<1>6. QED
  BY <1>1, <1>2, <1>3, <1>4, <1>5, SizeOf

\* The whole blocks of a piece and what remains of it.
LEMMA Quotient ==
  ASSUME NEW len \in Nat
  PROVE  /\ len \div 64 \in Nat /\ 64 * (len \div 64) \in 0..len
         /\ len % 64 \in 0..(len - 64 * (len \div 64)) /\ len % 64 \in R64
         /\ len - 64 * (len \div 64) = len % 64 /\ len % 64 \in Nat
         /\ 0 + (len % 64) <= 64 /\ 0 + (len % 64) = len % 64
BY DEF R64

\* What absorb does with its context and what it keeps of the data.
LEMMA AbsorbIs ==
  ASSUME NEW v, NEW V, SizeIs(v, V),
         NEW sc, NEW data, NEW len \in Nat,
         NEW s, s = compress(V, sc, data, len \div 64), Context(V, s)
  PROVE  LET t == absorb(v, sc, data, len)
         IN  /\ DOMAIN t = DOMAIN s /\ t.state = s.state
             /\ t.Wlow = s.Wlow /\ t.Whigh = s.Whigh
             /\ t.out_size = s.out_size /\ t.ptr = len % 64
             /\ t.bufs = [l \in Lanes(V) |->
                  copied(s.bufs[l], 0, advanced(data[l], 64 * (len \div 64)), len % 64)]
<1> DEFINE t == absorb(v, sc, data, len)
           b == [l \in Lanes(V) |->
                  copied(s.bufs[l], 0, advanced(data[l], 64 * (len \div 64)), len % 64)]
<1>1. t = [s EXCEPT !.bufs = b, !.ptr = len % 64]
  <2>1. s = compressed(v, sc, data, len \div 64)
    BY CompressedIs DEF SizeIs
  <2>2. QED
    BY <2>1 DEF absorb, SizeIs
<1>2. {"state", "Wlow", "Whigh", "bufs", "ptr", "out_size"} \subseteq DOMAIN s
  BY DEF Context, VectorState
<1> HIDE DEF b, t
<1>3. /\ DOMAIN t = DOMAIN s /\ t.state = s.state
      /\ t.Wlow = s.Wlow /\ t.Whigh = s.Whigh
      /\ t.out_size = s.out_size /\ t.ptr = len % 64 /\ t.bufs = b
  BY <1>1, <1>2
<1>4. QED
  BY <1>3 DEF t, b

\* A context with the state of another, and new buffers.
LEMMA ContextWith ==
  ASSUME NEW V \in Widths, NEW s, Context(V, s), NEW t,
         DOMAIN t = DOMAIN s, t.state = s.state, t.Wlow = s.Wlow, t.Whigh = s.Whigh,
         t.out_size = s.out_size, t.ptr \in R64,
         \A l \in Lanes(V) : t.bufs[l] \in [R64 -> Byte]
  PROVE  /\ Context(V, t)
         /\ \A act \in SUBSET Lanes(V), q \in Nat :
              LanesAt(V, s, act, q) => LanesAt(V, t, act, q)
<1>1. \A l \in Lanes(V) : lane(V, t, l) = lane(V, s, l)
  BY DEF lane
<1>2. VectorState(V, t)
  BY <1>1 DEF Context, VectorState
<1>3. Context(V, t)
  BY <1>2 DEF Context
<1>4. ASSUME NEW act \in SUBSET Lanes(V), NEW q \in Nat, LanesAt(V, s, act, q)
      PROVE  LanesAt(V, t, act, q)
  BY <1>1, <1>4 DEF LanesAt, InStep
<1>5. QED
  BY <1>3, <1>4

\* Rounds leave the buffers of a context alone.
LEMMA ContextAround ==
  ASSUME NEW V \in Widths, NEW s, Context(V, s), NEW t, VectorState(V, t), Around(s, t)
  PROVE  Context(V, t) /\ t.bufs = s.bufs /\ t.ptr = s.ptr
BY DEF Context, Around

\* Whole blocks, and the rest.
LEMMA AbsorbHolds ==
  ASSUME TablesTyped, BytesGiven, NEW v,
         NEW V \in Widths, SizeIs(v, V), NEW sc, Context(V, sc),
         NEW act \in SUBSET Lanes(V), NEW q \in Nat, LanesAt(V, sc, act, q),
         NEW len \in Nat, NEW data, \A l \in Lanes(V) : data[l] \in Bytes(len),
         \A l \in act : data[l] = piece(l, 64 * q, len)
  PROVE  VectorHolds(V, absorb(v, sc, data, len), act, q + len \div 64, len % 64)
<1> DEFINE N == len \div 64
           p == len % 64
           s == compress(V, sc, data, N)
           t == absorb(v, sc, data, len)
<1>1. /\ N \in Nat /\ 64 * N \in 0..len /\ p \in 0..(len - 64 * N) /\ p \in R64
      /\ len - 64 * N = p /\ p \in Nat /\ 0 + p <= 64 /\ 0 + p = p
  BY Quotient
<1>2. N = len \div 64 /\ p = len % 64
  OBVIOUS
<1> HIDE DEF N, p
<1>3. ASSUME NEW l \in Lanes(V) PROVE Filled(data[l], 64 * N)
  <2>1. data[l] \in [0..(len - 1) -> Byte] /\ \A o \in 0..(64 * N - 1) : o \in 0..(len - 1)
    BY <1>1 DEF Bytes
  <2>2. QED
    BY <2>1 DEF Filled
<1>4. ASSUME NEW l \in act PROVE Follows(data[l], l, 64 * q, 64 * N)
  <2>1. data[l] = piece(l, 64 * q, len) /\ \A o \in 0..(64 * N - 1) : o \in 0..(len - 1)
    BY <1>1
  <2>2. QED
    BY <2>1 DEF Follows, piece
<1>5. VectorState(V, s) /\ Around(sc, s) /\ LanesAt(V, s, act, q + N)
  BY <1>1, <1>3, <1>4, CompressInStep DEF Context
<1> HIDE DEF s, t
<1>6. Context(V, s) /\ s.bufs = sc.bufs
  BY <1>5, ContextAround
<1>7. /\ DOMAIN t = DOMAIN s /\ t.state = s.state
      /\ t.Wlow = s.Wlow /\ t.Whigh = s.Whigh
      /\ t.out_size = s.out_size /\ t.ptr = p
      /\ t.bufs = [l \in Lanes(V) |-> copied(s.bufs[l], 0, advanced(data[l], 64 * N), p)]
  BY <1>2, <1>6, AbsorbIs DEF s, t
<1>8. ASSUME NEW l \in Lanes(V)
      PROVE  t.bufs[l] \in [R64 -> Byte]
  <2> DEFINE x == advanced(data[l], 64 * N)
             b == s.bufs[l]
  <2>1. x \in Bytes(len - 64 * N)
    BY <1>1, AdvancedTyped
  <2>2. b \in [R64 -> Byte] /\ 0 \in R64
    BY <1>6 DEF Context, R64
  <2>3. t.bufs[l] = copied(b, 0, x, p)
    BY <1>7
  <2> HIDE DEF x, b
  <2>4. copied(b, 0, x, p) \in [R64 -> Byte]
    BY <1>1, <2>1, <2>2, CopiedTyped
  <2>5. QED
    BY <2>3, <2>4
<1>9. ASSUME NEW l \in act
      PROVE  HasBytes(t.bufs[l], l, q + N, p)
  <2> DEFINE b == s.bufs[l]
             k == q + N
  <2>1. l \in Lanes(V) /\ l \in Nat
    BY DEF Lanes
  <2>2. HasBytes(b, l, k, 0) /\ 0 \in R64
    <3>1. b \in [R64 -> Byte] /\ 0 \in R64
      BY <1>6, <2>1 DEF Context, R64
    <3>2. QED
      BY <3>1 DEF HasBytes
  <2>3. t.bufs[l] = copied(b, 0, advanced(piece(l, 64 * q, len), 64 * N), p)
    BY <1>7, <2>1
  <2>4. k \in Nat /\ 64 * q \in Nat /\ 64 * q + 64 * N = 64 * k + 0
    BY <1>1
  <2> HIDE DEF b, k
  <2>5. advanced(piece(l, 64 * q, len), 64 * N) = piece(l, 64 * k + 0, p)
    <3>1. advanced(piece(l, 64 * q, len), 64 * N) =
            piece(l, 64 * q + 64 * N, len - 64 * N)
      BY <1>1, <2>1, <2>4, AdvancedPiece
    <3>2. QED
      BY <1>1, <2>4, <3>1
  <2>6. p \in 0..p
    BY <1>1
  <2>7. HasBytes(copied(b, 0, piece(l, 64 * k + 0, p), p), l, k, 0 + p)
    BY <1>1, <2>1, <2>2, <2>4, <2>6, CopiedPiece
  <2>8. HasBytes(t.bufs[l], l, k, p)
    BY <1>1, <2>3, <2>5, <2>7
  <2>9. QED
    BY <2>8 DEF k
<1>10. Context(V, t) /\ LanesAt(V, t, act, q + N)
  <2>1. q + N \in Nat
    BY <1>1
  <2> DEFINE k == q + N
  <2>2. k \in Nat /\ LanesAt(V, s, act, k)
    BY <2>1, <1>5
  <2> HIDE DEF k
  <2>3. Context(V, t) /\ LanesAt(V, t, act, k)
    BY <1>1, <1>6, <1>7, <1>8, <2>2, ContextWith
  <2>4. QED
    BY <2>3 DEF k
<1>11. VectorHolds(V, t, act, q + N, p)
  BY <1>7, <1>9, <1>10 DEF VectorHolds
<1>12. QED
  BY <1>2, <1>11 DEF t

\* The lanes a call gives data to get it; the others get some lane's.
LEMMA Substituted ==
  ASSUME NEW V \in Widths, NEW data0, NEW len \in Nat, NEW k \in Lanes(V), data0[k] # NULL,
         \A l \in Lanes(V) : data0[l] # NULL => data0[l] \in Bytes(len)
  PROVE  \A l \in Lanes(V) :
           /\ substituted(V, data0)[l] \in Bytes(len)
           /\ data0[l] # NULL => substituted(V, data0)[l] = data0[l]
<1> DEFINE given == {l \in Lanes(V) : data0[l] # NULL}
           first == CHOOSE l \in given : \A j \in given : l <= j
<1>1. first \in given
  <2>1. given \in SUBSET Nat /\ k \in given
    BY DEF Lanes
  <2> HIDE DEF given, first
  <2>2. \E l \in given : \A j \in given : l <= j
    BY <2>1, LeastNat
  <2>3. QED
    BY <2>2 DEF first
<1>2. substituted(V, data0) =
        [l \in Lanes(V) |-> IF l \in given THEN data0[l] ELSE data0[first]]
  BY DEF substituted
<1> HIDE DEF first
<1>3. QED
  BY <1>1, <1>2

\* The buffers with the first n bytes of the data behind what they hold.
filled_with(V, sc, data, n) ==
  [l \in Lanes(V) |-> copied(sc.bufs[l], sc.ptr, data[l], n)]

\* The cases of a call that gives data to len.
UpdateParts(v, V, sc, data0, data, clen, len) ==
  IF \A l \in Lanes(V) : data0[l] = NULL THEN sc
  ELSE IF sc.ptr = 0 THEN absorb(v, sc, data, len)
  ELSE IF clen > len
  THEN [sc EXCEPT !.bufs = filled_with(V, sc, data, len), !.ptr = @ + len]
  ELSE absorb(v,
         compress(V, [sc EXCEPT !.bufs = filled_with(V, sc, data, clen)],
                  filled_with(V, sc, data, clen), 1),
         [l \in Lanes(V) |-> advanced(data[l], clen)], len - clen)

\* mshabal by its three cases.
LEMMA UpdateIs ==
  ASSUME NEW v, NEW V, SizeIs(v, V),
         NEW sc, NEW data0, NEW len \in Nat,
         NEW data, data = substituted(V, data0), NEW clen, clen = 64 - sc.ptr
  PROVE  mshabal(v, sc, data0, len) =
           UpdateParts(v, V, sc, data0, data, clen, len)
<1> DEFINE b == filled_with(V, sc, data, clen)
           s == [sc EXCEPT !.bufs = b]
<1>1. compressed(v, s, b, 1) = compress(V, s, b, 1)
  BY CompressedIs DEF SizeIs
<1>2. mshabal(v, sc, data0, len) =
        IF \A l \in Lanes(V) : data0[l] = NULL THEN sc
        ELSE IF sc.ptr = 0 THEN absorb(v, sc, data, len)
        ELSE IF clen > len
        THEN [sc EXCEPT !.bufs = filled_with(V, sc, data, len), !.ptr = @ + len]
        ELSE absorb(v, compressed(v, s, b, 1),
               [l \in Lanes(V) |-> advanced(data[l], clen)], len - clen)
  BY DEF mshabal, filled_with, SizeIs
<1>3. QED
  BY <1>1, <1>2 DEF UpdateParts

\* The buffers filled, of the lanes of act with their messages.
LEMMA FilledWith ==
  ASSUME BytesGiven, NEW V \in Widths, NEW sc, NEW act \in SUBSET Lanes(V), NEW q \in Nat,
         NEW p, VectorHolds(V, sc, act, q, p), NEW len \in Nat, NEW data,
         \A l \in Lanes(V) : data[l] \in Bytes(len),
         \A l \in act : data[l] = piece(l, 64 * q + p, len),
         NEW m \in 0..len, p + m <= 64
  PROVE  /\ \A l \in Lanes(V) : filled_with(V, sc, data, m)[l] \in [R64 -> Byte]
         /\ \A l \in act : HasBytes(filled_with(V, sc, data, m)[l], l, q, p + m)
<1> DEFINE b == filled_with(V, sc, data, m)
<1>1. Context(V, sc) /\ sc.ptr = p /\ p \in R64
  BY DEF VectorHolds, Context
<1>2. ASSUME NEW l \in Lanes(V) PROVE b[l] = copied(sc.bufs[l], p, data[l], m)
  BY <1>1 DEF filled_with
<1> HIDE DEF b
<1>3. ASSUME NEW l \in Lanes(V) PROVE b[l] \in [R64 -> Byte]
  <2> DEFINE buf == sc.bufs[l]
             x == data[l]
  <2>1. buf \in [R64 -> Byte] /\ x \in Bytes(len) /\ b[l] = copied(buf, p, x, m)
    BY <1>1, <1>2 DEF Context
  <2> HIDE DEF buf, x
  <2>2. QED
    BY <1>1, <2>1, CopiedTyped
<1>4. ASSUME NEW l \in act PROVE HasBytes(b[l], l, q, p + m)
  <2> DEFINE buf == sc.bufs[l]
  <2>1. l \in Lanes(V) /\ l \in Nat
    BY DEF Lanes
  <2>2. HasBytes(buf, l, q, p) /\ b[l] = copied(buf, p, piece(l, 64 * q + p, len), m)
    BY <1>2, <2>1 DEF VectorHolds
  <2> HIDE DEF buf
  <2>3. HasBytes(copied(buf, p, piece(l, 64 * q + p, len), m), l, q, p + m)
    BY <1>1, <2>1, <2>2, CopiedPiece
  <2>4. QED
    BY <2>2, <2>3
<1>5. QED
  BY <1>3, <1>4 DEF b

\* Position n, a whole blocks and r bytes on.
LEMMA Carried ==
  ASSUME NEW a \in Nat, NEW r \in Nat, NEW n, n = 64 * a + r
  PROVE  n \div 64 = a + (r \div 64) /\ n % 64 = r % 64
OBVIOUS

\* What a context holds for some lanes it holds for fewer.
LEMMA SubsetHolds ==
  ASSUME NEW V, NEW sc, NEW act, NEW rest \in SUBSET act, NEW q, NEW p,
         VectorHolds(V, sc, act, q, p)
  PROVE  VectorHolds(V, sc, rest, q, p)
BY DEF VectorHolds, LanesAt

\* A vector context fed the next piece of its messages holds it, in the lanes
\* that got data, whatever the others were given instead.
LEMMA UpdateHolds ==
  ASSUME TablesTyped, BytesGiven, NEW v,
         NEW V \in Widths, SizeIs(v, V), NEW sc,
         NEW rest \in SUBSET Lanes(V), NEW q \in Nat, NEW p,
         VectorHolds(V, sc, rest, q, p),
         NEW len \in Nat, NEW data0,
         \A l \in Lanes(V) : data0[l] # NULL => data0[l] \in Bytes(len),
         \A l \in rest : data0[l] # NULL /\ data0[l] = piece(l, 64 * q + p, len),
         NEW n, n = 64 * q + p + len
  PROVE  LET t == mshabal(v, sc, data0, len)
         IN  /\ Context(V, t)
             /\ rest # {} => VectorHolds(V, t, rest, n \div 64, n % 64)
<1> DEFINE t == mshabal(v, sc, data0, len)
           data == substituted(V, data0)
           clen == 64 - p
<1>1. Context(V, sc) /\ sc.ptr = p /\ p \in R64 /\ p \in 0..63 /\ LanesAt(V, sc, rest, q)
  BY DEF VectorHolds, Context, R64
<1>2. clen = 64 - sc.ptr /\ clen \in 1..64
  BY <1>1
<1>3. t = UpdateParts(v, V, sc, data0, data, clen, len)
  <2> HIDE DEF clen, data
  <2>1. data = substituted(V, data0)
    BY DEF data
  <2>2. QED
    BY <1>2, <2>1, UpdateIs DEF t
<1> HIDE DEF t, data
<1>4. CASE \A l \in Lanes(V) : data0[l] = NULL
  <2>1. t = sc
    BY <1>3, <1>4 DEF UpdateParts
  <2>2. rest = {}
    BY <1>4
  <2>3. QED
    BY <1>1, <2>1, <2>2 DEF t
<1>5. CASE \E k \in Lanes(V) : data0[k] # NULL
  <2>1. \A l \in Lanes(V) : data[l] \in Bytes(len) /\ (data0[l] # NULL => data[l] = data0[l])
    BY <1>5, Substituted DEF data
  <2>2. \A l \in Lanes(V) : data[l] \in Bytes(len)
    BY <2>1
  <2>3. \A l \in rest : data[l] = piece(l, 64 * q + p, len)
    BY <2>1
  <2>4. CASE p = 0
    <3>1. t = absorb(v, sc, data, len)
      BY <1>1, <1>3, <1>5, <2>4 DEF UpdateParts
    <3>2. \A l \in rest : data[l] = piece(l, 64 * q, len)
      BY <2>3, <2>4
    <3>3. VectorHolds(V, t, rest, q + (len \div 64), len % 64)
      BY <1>1, <2>2, <3>1, <3>2, AbsorbHolds
    <3>4. n = 64 * q + len
      BY <2>4
    <3>5. n \div 64 = q + (len \div 64) /\ n % 64 = len % 64
      BY <3>4, Carried
    <3>6. VectorHolds(V, t, rest, n \div 64, n % 64)
      BY <3>3, <3>5
    <3>7. QED
      BY <3>6 DEF VectorHolds, t
  <2>5. CASE p # 0 /\ clen > len
    <3> DEFINE b == filled_with(V, sc, data, len)
    <3>1. t = [sc EXCEPT !.bufs = b, !.ptr = p + len]
      BY <1>1, <1>3, <1>5, <2>5 DEF UpdateParts
    <3>2. len \in 0..len /\ p + len <= 64 /\ p + len \in 0..63 /\ p + len \in R64
      BY <1>1, <2>5 DEF R64
    <3>3. /\ \A l \in Lanes(V) : b[l] \in [R64 -> Byte]
          /\ \A l \in rest : HasBytes(b[l], l, q, p + len)
      BY <2>2, <2>3, <3>2, FilledWith
    <3> HIDE DEF b
    <3>4. {"state", "Wlow", "Whigh", "bufs", "ptr", "out_size"} \subseteq DOMAIN sc
      BY <1>1 DEF Context, VectorState
    <3>5. /\ DOMAIN t = DOMAIN sc /\ t.state = sc.state /\ t.Wlow = sc.Wlow
          /\ t.Whigh = sc.Whigh /\ t.out_size = sc.out_size /\ t.ptr = p + len
          /\ t.bufs = b
      BY <3>1, <3>4
    <3>6. Context(V, t) /\ LanesAt(V, t, rest, q)
      <4>1. t.ptr \in R64 /\ \A l \in Lanes(V) : t.bufs[l] \in [R64 -> Byte]
        BY <3>2, <3>3, <3>5
      <4>2. QED
        BY <1>1, <3>5, <4>1, ContextWith
    <3>7. VectorHolds(V, t, rest, q, p + len)
      BY <3>3, <3>5, <3>6 DEF VectorHolds
    <3>8. n = 64 * q + (p + len)
      BY <1>1
    <3>9. n \div 64 = q /\ n % 64 = p + len
      <4> DEFINE r == p + len
      <4>1. r \in 0..63 /\ n = 64 * q + r
        BY <3>2, <3>8
      <4> HIDE DEF r
      <4>2. n \div 64 = q /\ n % 64 = r
        BY <4>1, DivOf
      <4>3. QED
        BY <4>2 DEF r
    <3>10. QED
      BY <3>6, <3>7, <3>9 DEF t
  <2>6. CASE p # 0 /\ ~(clen > len)
    <3> DEFINE b == filled_with(V, sc, data, clen)
               s1 == [sc EXCEPT !.bufs = b]
               s2 == compress(V, s1, b, 1)
               d2 == [l \in Lanes(V) |-> advanced(data[l], clen)]
               k == q + 1
               l2 == len - clen
    <3>1. t = absorb(v, s2, d2, l2)
      BY <1>1, <1>3, <1>5, <2>6 DEF UpdateParts
    <3>2. /\ clen \in 0..len /\ p + clen <= 64 /\ p + clen = 64 /\ k \in Nat /\ l2 \in Nat
          /\ 64 * q + p + clen = 64 * k /\ n = 64 * k + l2
          /\ 64 * q + p \in Nat
      BY <1>1, <2>6
    <3> HIDE DEF clen, k, l2, s1, s2, d2
    <3>3. /\ \A l \in Lanes(V) : b[l] \in [R64 -> Byte]
          /\ \A l \in rest : HasBytes(b[l], l, q, 64)
      <4>1. /\ \A l \in Lanes(V) : b[l] \in [R64 -> Byte]
            /\ \A l \in rest : HasBytes(b[l], l, q, p + clen)
        BY <2>2, <2>3, <3>2, FilledWith
      <4> HIDE DEF b
      <4>2. QED
        BY <4>1, <3>2
    <3> HIDE DEF b
    <3>4. {"state", "Wlow", "Whigh", "bufs", "ptr", "out_size"} \subseteq DOMAIN sc
      BY <1>1 DEF Context, VectorState
    <3>5. /\ DOMAIN s1 = DOMAIN sc /\ s1.state = sc.state /\ s1.Wlow = sc.Wlow
          /\ s1.Whigh = sc.Whigh /\ s1.out_size = sc.out_size /\ s1.ptr = p
          /\ s1.bufs = b
      BY <1>1, <3>4 DEF s1
    <3>6. Context(V, s1) /\ LanesAt(V, s1, rest, q)
      <4>1. s1.ptr \in R64 /\ \A l \in Lanes(V) : s1.bufs[l] \in [R64 -> Byte]
        BY <1>1, <3>3, <3>5
      <4>2. QED
        BY <1>1, <3>5, <4>1, ContextWith
    <3>7. VectorState(V, s2) /\ Around(s1, s2) /\ LanesAt(V, s2, rest, k)
      <4>1. ASSUME NEW l \in Lanes(V) PROVE Filled(b[l], 64 * 1)
        <5>1. b[l] \in [R64 -> Byte] /\ \A o \in 0..(64 * 1 - 1) : o \in R64
          BY <3>3 DEF R64
        <5>2. QED
          BY <5>1 DEF Filled
      <4>2. ASSUME NEW l \in rest PROVE Follows(b[l], l, 64 * q, 64 * 1)
        BY <3>3 DEF HasBytes, Follows
      <4>3. VectorState(V, s1)
        BY <3>6 DEF Context
      <4>4. VectorState(V, s2) /\ Around(s1, s2) /\ LanesAt(V, s2, rest, q + 1)
        BY <3>6, <4>1, <4>2, <4>3, CompressInStep DEF s2
      <4>5. QED
        BY <4>4 DEF k
    <3>8. Context(V, s2)
      BY <3>6, <3>7, ContextAround
    <3>9. \A l \in Lanes(V) : d2[l] \in Bytes(l2)
      <4> SUFFICES ASSUME NEW l \in Lanes(V) PROVE d2[l] \in Bytes(l2)
        OBVIOUS
      <4>1. advanced(data[l], clen) \in Bytes(len - clen)
        BY <2>2, <3>2, AdvancedTyped
      <4>2. QED
        BY <4>1 DEF l2, d2
    <3>10. \A l \in rest : d2[l] = piece(l, 64 * k, l2)
      <4> SUFFICES ASSUME NEW l \in rest PROVE d2[l] = piece(l, 64 * k, l2)
        OBVIOUS
      <4>1. d2[l] = advanced(piece(l, 64 * q + p, len), clen)
        BY <2>3 DEF d2
      <4> DEFINE a == 64 * q + p
      <4>2. a \in Nat /\ a + clen = 64 * k
        BY <3>2
      <4> HIDE DEF a
      <4>3. advanced(piece(l, a, len), clen) = piece(l, a + clen, len - clen)
        BY <3>2, <4>2, AdvancedPiece
      <4>4. QED
        BY <4>1, <4>2, <4>3 DEF a, l2
    <3>11. VectorHolds(V, t, rest, k + (l2 \div 64), l2 % 64)
      BY <3>1, <3>2, <3>7, <3>8, <3>9, <3>10, AbsorbHolds
    <3>12. n \div 64 = k + (l2 \div 64) /\ n % 64 = l2 % 64
      BY <3>2, Carried
    <3>13. VectorHolds(V, t, rest, n \div 64, n % 64)
      BY <3>11, <3>12
    <3>14. QED
      BY <3>13 DEF VectorHolds, t
  <2>7. QED
    BY <2>4, <2>5, <2>6
<1>6. QED
  BY <1>4, <1>5

-----------------------------------------------------------------------------
(* The last block.                                                          *)

\* The last block of lane l's message of n bytes, and its digest.
end_block(l, n, ub, bits) ==
  DECODE_BLOCK(padded([o \in R64 |-> Text(l, 64 * (n \div 64) + o)], n % 64, ub, bits))
digest_of(s, E) == [i \in 0..7 |-> final_block(s, E).B[i + 8]]
Digest(l, n, ub, bits) == digest_of(Hashed(l, n \div 64), end_block(l, n, ub, bits))

\* A padded buffer is bytes.
LEMMA PaddedTyped ==
  ASSUME NEW buf \in [R64 -> Byte], NEW p, NEW ub \in Byte, NEW bits \in 0..7
  PROVE  padded(buf, p, ub, bits) \in [R64 -> Byte]
<1>1. last_byte(ub, bits) \in Byte
  <2>1. 7 - bits \in 0..7 /\ ub \subseteq 0..7
    BY DEF Byte
  <2> DEFINE one == 7 - bits
  <2>2. one \in 0..7
    BY <2>1
  <2>3. last_byte(ub, bits) = {one} \cup {i \in ub : i > one}
    BY DEF last_byte
  <2> HIDE DEF one
  <2>4. {one} \cup {i \in ub : i > one} \subseteq 0..7
    BY <2>1, <2>2
  <2>5. QED
    BY <2>3, <2>4 DEF Byte
<1>2. {} \in Byte
  BY DEF Byte
<1>3. QED
  BY <1>1, <1>2 DEF padded

\* A buffer that holds the last bytes of a message is padded to its last block.
LEMMA PaddedBytes ==
  ASSUME BytesGiven, NEW l \in Nat, NEW n \in Nat, NEW ub \in Byte, NEW bits \in 0..7,
         NEW buf, HasBytes(buf, l, n \div 64, n % 64)
  PROVE  /\ DECODE_BLOCK(padded(buf, n % 64, ub, bits)) = end_block(l, n, ub, bits)
         /\ end_block(l, n, ub, bits) \in Block
<1> DEFINE p == n % 64
           q == n \div 64
           b == [o \in R64 |-> Text(l, 64 * q + o)]
<1>1. p \in R64 /\ q \in Nat
  BY DivMod
<1> HIDE DEF p, q
<1>2. HasBytes(buf, l, q, p)
  BY DEF p, q
<1>3. ASSUME NEW o \in R64, o < p PROVE buf[o] = b[o]
  <2>1. o \in 0..(p - 1)
    BY <1>1, <1>3 DEF R64
  <2>2. QED
    BY <1>2, <2>1 DEF HasBytes
<1>4. padded(buf, p, ub, bits) = padded(b, p, ub, bits)
  <2> HIDE DEF b
  <2>1. QED
    BY <1>3 DEF padded
<1>5. b \in [R64 -> Byte]
  <2>1. \A o \in R64 : 64 * q + o \in Nat
    BY <1>1 DEF R64
  <2>2. QED
    BY <2>1 DEF BytesGiven
<1>6. end_block(l, n, ub, bits) = DECODE_BLOCK(padded(b, p, ub, bits))
  BY DEF end_block, p, q
<1> HIDE DEF b
<1>7. padded(b, p, ub, bits) \in [R64 -> Byte]
  BY <1>5, PaddedTyped
<1>8. DECODE_BLOCK(padded(b, p, ub, bits)) \in Block
  BY <1>7, DecodedTyped
<1>9. QED
  BY <1>4, <1>6, <1>8 DEF p

\* The last block is a block.
LEMMA EndBlockTyped ==
  ASSUME BytesGiven, NEW l \in Nat, NEW n \in Nat, NEW ub \in Byte, NEW bits \in 0..7
  PROVE  end_block(l, n, ub, bits) \in Block
<1> DEFINE q == n \div 64
           p == n % 64
           b == bytes_of(l, q + 1)
<1>1. p \in R64 /\ q \in Nat /\ q + 1 \in Nat /\ q + 1 >= 1 /\ (q + 1) - 1 = q
  BY DivMod
<1> HIDE DEF p, q
<1>2. b \in [R64 -> Byte]
  BY <1>1, BlockOf
<1>3. \A o \in 0..(p - 1) : o \in R64
  BY <1>1 DEF R64
<1>4. \A o \in 0..(p - 1) : b[o] = Text(l, 64 * q + o)
  BY <1>1, <1>3 DEF bytes_of
<1>5. HasBytes(b, l, q, p)
  BY <1>2, <1>4 DEF HasBytes
<1>6. HasBytes(b, l, n \div 64, n % 64)
  BY <1>5 DEF p, q
<1> HIDE DEF b
<1>7. QED
  BY <1>6, PaddedBytes

\* The scalar streams and the scalar routine for whole blocks.
LEMMA ScalarClose ==
  ASSUME TablesTyped, BytesGiven, NEW l \in Nat, NEW n \in Nat, NEW cc, Holds(cc, l, n),
         NEW ub \in Byte, NEW bits \in 0..7
  PROVE  shabal_close(cc, ub, bits) = Digest(l, n, ub, bits)
<1> DEFINE q == n \div 64
           p == n % 64
           E == end_block(l, n, ub, bits)
           h == Hashed(l, q)
<1>1. q \in Nat /\ HashState(h)
  BY DivMod, HashedSteps
<1>2. /\ HashState(cc) /\ SameState(cc, h) /\ HasBytes(cc.buf, l, n \div 64, n % 64)
      /\ cc.ptr = p
  BY DEF Holds, HoldsAt
<1>3. DECODE_BLOCK(padded(cc.buf, n % 64, ub, bits)) = E /\ E \in Block
  <2> DEFINE b == cc.buf
  <2>1. HasBytes(b, l, n \div 64, n % 64)
    BY <1>2
  <2> HIDE DEF b, h, p, q, E
  <2>2. DECODE_BLOCK(padded(b, n % 64, ub, bits)) = end_block(l, n, ub, bits)
        /\ end_block(l, n, ub, bits) \in Block
    BY <2>1, PaddedBytes
  <2>3. QED
    BY <2>2 DEF b, E
<1> HIDE DEF E
<1>4. shabal_close(cc, ub, bits) = digest_of(cc, E)
  BY <1>2, <1>3 DEF shabal_close, digest_of
<1> HIDE DEF h
<1>5. final_block(cc, E).B = final_block(h, E).B
  BY <1>1, <1>2, <1>3, SameEnd
<1>6. digest_of(cc, E) = digest_of(h, E)
  BY <1>5 DEF digest_of
<1>7. QED
  BY <1>4, <1>6 DEF Digest, h, E

\* The scalar routine for whole blocks returns the digest.
LEMMA ScalarFast ==
  ASSUME NEW l, NEW n, NEW ub, NEW bits
  PROVE  sph_shabal_hash_fast([j \in 1..(n \div 64) |-> block_of(l, j)],
                              end_block(l, n, ub, bits)) = Digest(l, n, ub, bits)
BY DEF sph_shabal_hash_fast, Digest, digest_of, Hashed

-----------------------------------------------------------------------------
(* The vector streams, closed.                                              *)

\* One round over buffers of one block each.
LEMMA OneRound ==
  ASSUME NEW V \in Widths, NEW sc, NEW bufs,
         \A l \in Lanes(V) : bufs[l] \in [R64 -> Byte]
  PROVE  LET M == [l \in Lanes(V) |-> DECODE_BLOCK(bufs[l])]
         IN  M \in [Lanes(V) -> Block] /\ compress(V, sc, bufs, 1) = rounds(V, sc, M)
<1> DEFINE M == [l \in Lanes(V) |-> DECODE_BLOCK(bufs[l])]
           m == blocks_of(V, bufs, 1)
<1>1. M \in [Lanes(V) -> Block]
  <2>1. \A l \in Lanes(V) : DECODE_BLOCK(bufs[l]) \in Block
    <3> SUFFICES ASSUME NEW l \in Lanes(V) PROVE DECODE_BLOCK(bufs[l]) \in Block
      OBVIOUS
    <3> DEFINE b == bufs[l]
    <3>1. b \in [R64 -> Byte]
      OBVIOUS
    <3> HIDE DEF b
    <3>2. DECODE_BLOCK(b) \in Block
      BY <3>1, DecodedTyped
    <3>3. QED
      BY <3>2 DEF b
  <2>2. QED
    BY <2>1
<1>2. m = [j \in 1..1 |-> M]
  <2>1. ASSUME NEW l \in Lanes(V) PROVE block_at(bufs[l], 1) = DECODE_BLOCK(bufs[l])
    <3>1. \A i \in R16 : 64 * (1 - 1) + 4 * i = 4 * i
      BY DEF R16
    <3>2. QED
      BY <3>1 DEF block_at, DECODE_BLOCK
  <2>2. QED
    BY <2>1 DEF blocks_of
<1>3. compress(V, sc, bufs, 1) = all_rounds(V, sc, m)
  BY CompressIs
<1> HIDE DEF M, m
<1>4. m \in [1..1 -> [Lanes(V) -> Block]] /\ m[1] = M
  BY <1>1, <1>2
<1>5. Len(m) = 1
  BY <1>4, LenOfVectorBlocks
<1>6. PICK f : RoundRun(f, V, sc, m, 1) /\ all_rounds(V, sc, m) = f[1]
  <2> DEFINE N == 1
  <2>1. N \in Nat /\ Len(m) = N
    BY <1>5
  <2> HIDE DEF N
  <2>2. \E f : RoundRun(f, V, sc, m, N) /\ all_rounds(V, sc, m) = f[N]
    BY <2>1, AllRoundsIs
  <2>3. QED
    BY <2>2 DEF N
<1>7. f[1] = rounds(V, f[0], m[1]) /\ f[0] = sc
  <2>1. 1 \in 1..1 /\ 1 - 1 = 0
    OBVIOUS
  <2>2. QED
    BY <1>6, <2>1 DEF RoundRun
<1>8. compress(V, sc, bufs, 1) = rounds(V, sc, M)
  BY <1>3, <1>4, <1>6, <1>7
<1>9. QED
  BY <1>1, <1>8 DEF M

\* Where word z of lane l's digest lies in state.
LEMMA DigestIndex ==
  ASSUME NEW V \in Widths, NEW l \in Lanes(V), NEW z \in 0..7
  PROVE  /\ V * ((z + 8) + 28) + l = V * (28 + (16 - 8)) + z * V + l
         /\ V * ((z + 8) + 28) + l = 36 * V + (V * z + l)
         /\ V * z + l \in 0..(8 * V - 1)
         /\ z + 8 \in R16
<1>1. z + 8 \in R16
  BY DEF R16
<1>2. CASE V = 4
  BY <1>1, <1>2 DEF Lanes
<1>3. CASE V = 8
  BY <1>1, <1>3 DEF Lanes
<1>4. CASE V = 16
  BY <1>1, <1>4 DEF Lanes
<1>5. QED
  BY <1>2, <1>3, <1>4 DEF Widths

\* The four rounds that close, and their words.
closing(V, sc, M) ==
  LET again(s) == uncounted(rounds(V, s, M))
  IN  again(again(again(again(sc))))

\* The words of a lane's digest lie where both ways to unpack them look.
LEMMA ClosingWords ==
  ASSUME NEW V \in Widths, NEW sc, VectorState(V, sc), NEW M \in [Lanes(V) -> Block],
         NEW l \in Lanes(V), NEW h, HashState(h), InStep(V, sc, l, h)
  PROVE  \A z \in 0..7 :
           /\ closing(V, sc, M).state[V * (28 + (16 - 8)) + z * V + l] = digest_of(h, M[l])[z]
           /\ closing(V, sc, M).state[36 * V + (V * z + l)] = digest_of(h, M[l])[z]
<1> DEFINE t == closing(V, sc, M)
<1>1. lane(V, t, l).C = final_block(h, M[l]).B
  BY ClosedInStep DEF closing
<1> HIDE DEF t
<1>2. ASSUME NEW z \in 0..7
      PROVE  /\ t.state[V * (28 + (16 - 8)) + z * V + l] = digest_of(h, M[l])[z]
             /\ t.state[36 * V + (V * z + l)] = digest_of(h, M[l])[z]
  <2> DEFINE j == z + 8
  <2>1. j \in R16
    BY DigestIndex
  <2>2. digest_of(h, M[l])[z] = final_block(h, M[l]).B[j]
    BY DEF digest_of
  <2> HIDE DEF j
  <2>3. t.state[V * (j + 28) + l] = digest_of(h, M[l])[z]
    BY <1>1, <2>1, <2>2, StateOfLane
  <2>4. /\ V * (j + 28) + l = V * (28 + (16 - 8)) + z * V + l
        /\ V * (j + 28) + l = 36 * V + (V * z + l)
    BY DigestIndex DEF j
  <2>5. QED
    BY <2>3, <2>4
<1>3. QED
  BY <1>2 DEF t

\* The same last bits for all lanes.
ends(V, ub) == [k \in Lanes(V) |-> ub]

\* Closing sc returns the digest of lane l's n bytes.
ClosesRight(v, V, sc, ub, bits, act, l, n) ==
  mshabal_close(v, sc, ends(V, ub), bits, act)[l] = Digest(l, n, ub, bits)

\* Closing, by the vector streams.
LEMMA CloseHolds ==
  ASSUME TablesTyped, BytesGiven, NEW v,
         NEW V \in Widths, SizeIs(v, V), NEW sc,
         NEW act \in SUBSET Lanes(V), NEW n \in Nat,
         VectorHolds(V, sc, act, n \div 64, n % 64),
         NEW ub \in Byte, NEW bits \in 0..7, NEW l \in act
  PROVE  ClosesRight(v, V, sc, ub, bits, act, l, n)
<1> DEFINE q == n \div 64
           p == n % 64
           bufs == [k \in Lanes(V) |-> padded(sc.bufs[k], sc.ptr, [j \in Lanes(V) |-> ub][k], bits)]
           again(s) == uncounted(compress(V, s, bufs, 1))
           s0 == [sc EXCEPT !.bufs = bufs]
           s4 == again(again(again(again(s0))))
           w == sc.out_size \div 32
           off == V * (28 + (16 - w))
           M == [k \in Lanes(V) |-> DECODE_BLOCK(bufs[k])]
           h == Hashed(l, q)
           c == mshabal_close(v, sc, ends(V, ub), bits, act)
<1>1. Context(V, sc) /\ sc.ptr = p /\ p \in R64 /\ q \in Nat /\ LanesAt(V, sc, act, q)
      /\ HasBytes(sc.bufs[l], l, q, p)
  BY DivMod DEF VectorHolds, Context
<1>2. l \in Lanes(V) /\ l \in Nat
  BY DEF Lanes
<1>3. c = [k \in act |-> [z \in 0..(w - 1) |-> s4.state[off + z * V + k]]]
  <2> DEFINE compressing(s) == uncounted(compressed(v, s, bufs, 1))
             t4 == compressing(compressing(compressing(compressing(s0))))
  <2>1. c = [k \in act |-> [z \in 0..(w - 1) |-> t4.state[off + z * V + k]]]
    BY DEF mshabal_close, SizeIs, ends
  <2>2. ASSUME NEW s PROVE compressing(s) = again(s)
    BY CompressedIs DEF SizeIs
  <2> HIDE DEF again, compressing, s0
  <2>3. t4 = s4
    BY <2>2
  <2> HIDE DEF t4, s4, off, w
  <2>4. QED
    BY <2>1, <2>3
<1>4. ASSUME NEW k \in Lanes(V)
      PROVE bufs[k] \in [R64 -> Byte] /\ bufs[k] = padded(sc.bufs[k], p, ub, bits)
  <2>1. bufs[k] = padded(sc.bufs[k], p, ub, bits) /\ sc.bufs[k] \in [R64 -> Byte]
    BY <1>1 DEF Context
  <2> DEFINE b == sc.bufs[k]
  <2>2. bufs[k] = padded(b, p, ub, bits) /\ b \in [R64 -> Byte]
    BY <2>1
  <2> HIDE DEF b, bufs, c, h, M, s4, s0, again, p, q
  <2>3. padded(b, p, ub, bits) \in [R64 -> Byte]
    BY <2>2, PaddedTyped
  <2>4. QED
    BY <2>2, <2>3 DEF b
<1>5. M[l] = end_block(l, n, ub, bits)
  <2> DEFINE b == sc.bufs[l]
  <2>1. M[l] = DECODE_BLOCK(padded(b, n % 64, ub, bits))
    BY <1>2, <1>4
  <2>2. HasBytes(b, l, n \div 64, n % 64)
    BY <1>1
  <2> HIDE DEF b, bufs, c, h, M, s4, s0, again, p, q
  <2>3. DECODE_BLOCK(padded(b, n % 64, ub, bits)) = end_block(l, n, ub, bits)
    BY <1>2, <2>2, PaddedBytes
  <2>4. QED
    BY <2>1, <2>3
<1>6. VectorState(V, s0) /\ InStep(V, s0, l, h)
  <2>1. {"state", "Wlow", "Whigh", "bufs", "ptr", "out_size"} \subseteq DOMAIN sc
    BY <1>1 DEF Context, VectorState
  <2> HIDE DEF bufs
  <2>2. /\ DOMAIN s0 = DOMAIN sc /\ s0.state = sc.state /\ s0.Wlow = sc.Wlow
        /\ s0.Whigh = sc.Whigh
    BY <2>1
  <2> HIDE DEF s0
  <2>3. \A k \in Lanes(V) : lane(V, s0, k) = lane(V, sc, k)
    BY <2>2 DEF lane
  <2>4. VectorState(V, s0)
    BY <1>1, <2>2, <2>3 DEF Context, VectorState
  <2>5. InStep(V, sc, l, h)
    BY <1>1 DEF LanesAt
  <2>6. InStep(V, s0, l, h)
    BY <1>2, <2>2, <2>3, <2>5 DEF InStep
  <2>7. QED
    BY <2>4, <2>6
<1>7. s4 = closing(V, s0, M) /\ M \in [Lanes(V) -> Block]
  <2> DEFINE step(s) == uncounted(rounds(V, s, M))
  <2>1. \A k \in Lanes(V) : bufs[k] \in [R64 -> Byte]
    BY <1>4
  <2> HIDE DEF bufs
  <2>2. M \in [Lanes(V) -> Block] /\ \A s : compress(V, s, bufs, 1) = rounds(V, s, M)
    <3>1. ASSUME NEW s
          PROVE M \in [Lanes(V) -> Block] /\ compress(V, s, bufs, 1) = rounds(V, s, M)
      BY <2>1, OneRound
    <3>2. QED
      BY <3>1
  <2> HIDE DEF M
  <2>3. ASSUME NEW s PROVE again(s) = step(s)
    BY <2>2
  <2> HIDE DEF again, step
  <2>4. s4 = step(step(step(step(s0))))
    BY <2>3
  <2>5. QED
    BY <2>2, <2>4 DEF closing, step
<1>8. HashState(h)
  BY <1>1, <1>2, HashedSteps
<1>9. w = 8 /\ 0..(w - 1) = 0..7 /\ off = V * (28 + (16 - 8))
  BY <1>1 DEF Context
<1> HIDE DEF s4, M, h, s0, w, off, c, bufs
<1>10. \A z \in 0..7 : s4.state[off + z * V + l] = digest_of(h, M[l])[z]
  BY <1>2, <1>6, <1>7, <1>8, <1>9, ClosingWords
<1>11. c[l] = [z \in 0..7 |-> s4.state[off + z * V + l]]
  BY <1>3, <1>9
<1>12. c[l] = digest_of(h, M[l])
  BY <1>10, <1>11 DEF digest_of
<1>13. QED
  BY <1>5, <1>12 DEF ClosesRight, Digest, c, h

-----------------------------------------------------------------------------
(* The routine for whole blocks.                                            *)

\* What the lanes of a vector block hold.
LEMMA LanesOfInterleaved ==
  ASSUME NEW V \in Widths, NEW b, \A l \in Lanes(V) : b[l] \in Block
  PROVE  /\ lanes_of(V, interleaved(V, b)) \in [Lanes(V) -> Block]
         /\ \A l \in Lanes(V) : lanes_of(V, interleaved(V, b))[l] = b[l]
<1> DEFINE u == interleaved(V, b)
           m == lanes_of(V, u)
<1>1. ASSUME NEW l \in Lanes(V) PROVE m[l] = b[l]
  <2>1. ASSUME NEW i \in R16 PROVE u[V * i + l] = b[l][i]
    <3> DEFINE k == V * i + l
    <3>1. k \in 0..(16 * V - 1) /\ k % V = l /\ k \div V = i
      BY HalfIndex
    <3> HIDE DEF k
    <3>2. u[k] = b[l][i]
      BY <3>1 DEF interleaved
    <3>3. QED
      BY <3>2 DEF k
  <2> HIDE DEF u
  <2>2. m[l] = [i \in R16 |-> u[V * i + l]]
    BY DEF lanes_of
  <2>3. b[l] \in [R16 -> Word]
    BY DEF Block
  <2>4. QED
    BY <2>1, <2>2, <2>3
<1>2. m = [l \in Lanes(V) |-> m[l]]
  BY DEF lanes_of
<1> HIDE DEF m, u
<1>3. QED
  BY <1>1, <1>2 DEF m, u

\* A function on 1..N has length N.
LEMMA LenOfFunction ==
  ASSUME NEW N \in Nat, NEW m, m = [j \in 1..N |-> m[j]]
  PROVE  Len(m) = N
<1> DEFINE S == {m[j] : j \in 1..N}
<1>1. m \in [1..N -> S]
  OBVIOUS
<1> HIDE DEF S
<1>2. m \in Seq(S) /\ DOMAIN m = 1..N
  BY <1>1
<1>3. DOMAIN m = 1..Len(m) /\ Len(m) \in Nat
  BY <1>2
<1>4. QED
  BY <1>2, <1>3

\* The blocks of the messages of n bytes, and the last one, interleaved, and
\* word by word the digest of lane l among the results.
vector_message(V, n) ==
  [j \in 1..(n \div 64) |-> interleaved(V, [l \in Lanes(V) |-> block_of(l, j)])]
vector_last(V, n, ub, bits) ==
  interleaved(V, [l \in Lanes(V) |-> end_block(l, n, ub, bits)])
InResults(V, r, l, D) == \A z \in 0..7 : r.dst[V * z + l] = D[z]

\* The vector routine for whole blocks returns every lane's digest.
LEMMA FastHolds ==
  ASSUME TablesTyped, BytesGiven, NEW V \in Widths, NEW sc, FromTables(V, sc),
         NEW n \in Nat, NEW ub \in Byte, NEW bits \in 0..7,
         NEW message, message = vector_message(V, n),
         NEW last, last = vector_last(V, n, ub, bits),
         NEW l \in Lanes(V)
  PROVE  InResults(V, hash_fast(V, sc, message, last), l, Digest(l, n, ub, bits))
<1> DEFINE N == n \div 64
           m == [j \in 1..N |-> lanes_of(V, message[j])]
           e == lanes_of(V, last)
           s == all_rounds(V, sc, m)
           t == closing(V, s, e)
           h == Hashed(l, N)
           E == end_block(l, n, ub, bits)
           r == hash_fast(V, sc, message, last)
<1>1. N \in Nat
  BY DivMod
<1>2. message = [j \in 1..N |-> interleaved(V, [k \in Lanes(V) |-> block_of(k, j)])]
  BY DEF vector_message
<1>3. Len(message) = N
  <2> HIDE DEF N, m, e, s, t, h, E, r
  <2>1. message = [j \in 1..N |-> message[j]]
    BY <1>2
  <2>2. QED
    BY <1>1, <2>1, LenOfFunction
<1>4. r.dst = [k \in 0..(8 * V - 1) |-> t.state[36 * V + k]]
  <2> DEFINE x == final_rounds(V, message_rounds(V, sc, message), last)
  <2>1. r.dst = [k \in 0..(8 * V - 1) |-> x.state[36 * V + k]]
    BY DEF hash_fast
  <2>2. x = t
    BY <1>3 DEF final_rounds, message_rounds, closing
  <2> HIDE DEF x, t, r
  <2>3. QED
    BY <2>1, <2>2
<1> HIDE DEF N
<1>5. ASSUME NEW j \in 1..N
      PROVE  /\ m[j] \in [Lanes(V) -> Block]
             /\ \A k \in Lanes(V) : m[j][k] = block_of(k, 0 + j)
  <2> DEFINE b == [k \in Lanes(V) |-> block_of(k, j)]
  <2>1. \A k \in Lanes(V) : b[k] \in Block
    <3>1. \A k \in Lanes(V) : k \in Nat
      BY DEF Lanes
    <3>2. j \in Nat /\ j >= 1
      BY <1>1
    <3>3. QED
      BY <3>1, <3>2, BlockOf
  <2>2. \A k \in Lanes(V) : b[k] = block_of(k, 0 + j)
    BY <1>1
  <2>3. m[j] = lanes_of(V, interleaved(V, b))
    BY <1>2
  <2> HIDE DEF b, m, e, s, t, h, E, r
  <2>4. /\ lanes_of(V, interleaved(V, b)) \in [Lanes(V) -> Block]
        /\ \A k \in Lanes(V) : lanes_of(V, interleaved(V, b))[k] = b[k]
    BY <2>1, LanesOfInterleaved
  <2>5. QED
    BY <2>2, <2>3, <2>4
<1>6. e \in [Lanes(V) -> Block] /\ e[l] = E /\ E \in Block
  <2> DEFINE b == [k \in Lanes(V) |-> end_block(k, n, ub, bits)]
  <2>1. \A k \in Lanes(V) : b[k] \in Block
    <3>1. \A k \in Lanes(V) : k \in Nat
      BY DEF Lanes
    <3>2. QED
      BY <3>1, EndBlockTyped
  <2>2. b[l] = E
    OBVIOUS
  <2>3. e = lanes_of(V, interleaved(V, b))
    BY DEF vector_last
  <2> HIDE DEF b, m, e, s, t, h, E, r
  <2>4. /\ lanes_of(V, interleaved(V, b)) \in [Lanes(V) -> Block]
        /\ \A k \in Lanes(V) : lanes_of(V, interleaved(V, b))[k] = b[k]
    BY <2>1, LanesOfInterleaved
  <2>5. QED
    BY <2>1, <2>2, <2>3, <2>4
<1>7. m = [j \in 1..N |-> m[j]]
  OBVIOUS
<1> HIDE DEF m, e, E, r, h
<1>8. LanesAt(V, sc, Lanes(V), 0)
  <2>1. ASSUME NEW k \in Lanes(V) PROVE InStep(V, sc, k, Hashed(k, 0))
    <3>1. k \in Nat
      BY DEF Lanes
    <3>2. Hashed(k, 0) = fast_start
      BY <3>1, HashedSteps
    <3>3. QED
      BY <3>2 DEF FromTables
  <2> HIDE DEF s, t
  <2>2. QED
    BY <2>1 DEF LanesAt
<1>9. VectorState(V, s) /\ InStep(V, s, l, h)
  <2>1. m \in [1..N -> [Lanes(V) -> Block]]
    BY <1>5, <1>7
  <2>2. \A j \in 1..N : \A k \in Lanes(V) : m[j][k] = block_of(k, 0 + j)
    BY <1>5
  <2>3. VectorState(V, sc) /\ Lanes(V) \in SUBSET Lanes(V) /\ 0 \in Nat
    BY DEF FromTables
  <2> HIDE DEF s, t
  <2>4. VectorState(V, s) /\ LanesAt(V, s, Lanes(V), 0 + N)
    BY <1>1, <1>8, <2>1, <2>2, <2>3, AllRoundsInStep DEF s
  <2>5. 0 + N = N
    BY <1>1
  <2>6. QED
    BY <2>4, <2>5 DEF LanesAt, h
<1> HIDE DEF s
<1>10. HashState(h)
  <2>1. l \in Nat
    BY DEF Lanes
  <2> HIDE DEF t
  <2>2. QED
    BY <1>1, <2>1, HashedSteps DEF h
<1>11. \A z \in 0..7 : t.state[36 * V + (V * z + l)] = digest_of(h, E)[z]
  BY <1>6, <1>9, <1>10, ClosingWords
<1> HIDE DEF t
<1>12. ASSUME NEW z \in 0..7 PROVE r.dst[V * z + l] = digest_of(h, E)[z]
  <2> DEFINE k == V * z + l
  <2>1. k \in 0..(8 * V - 1)
    BY DigestIndex
  <2> HIDE DEF k
  <2>2. r.dst[k] = t.state[36 * V + k]
    BY <1>4, <2>1
  <2>3. QED
    BY <1>11, <2>2 DEF k
<1>13. QED
  BY <1>12 DEF Digest, InResults, h, E, N, r

-----------------------------------------------------------------------------
(* The five builds.                                                         *)

\* The update function of each build.
LEMMA UpdatedIs ==
  ASSUME NEW v \in DOMAIN VectorSizes, NEW sc, NEW data, NEW len
  PROVE  updated(v, sc, data, len) = mshabal(v, sc, data, len)
BY SizeOf DEF updated, mshabal_sse2, mshabal_avx, mshabal_neon, mshabal_avx2, mshabal_avx512f

\* The closing function of each build.
LEMMA ClosedIs ==
  ASSUME NEW v \in DOMAIN VectorSizes, NEW sc, NEW ub, NEW n, NEW dst
  PROVE  closed(v, sc, ub, n, dst) = mshabal_close(v, sc, ub, n, dst)
BY SizeOf DEF closed, mshabal_close_sse2, mshabal_close_avx, mshabal_close_neon,
   mshabal_close_avx2, mshabal_close_avx512f

\* The fast context of a build.
fast_context(v) == fast_copy(initialised(v), 44 * VectorSizes[v])

\* The five routines for whole blocks are one function of the vector size.
LEMMA HashedFastIs ==
  ASSUME NEW v \in DOMAIN VectorSizes, NEW message, NEW last
  PROVE  hashed_fast(v, message, last) = hash_fast(VectorSizes[v], fast_context(v), message, last)
<1>1. CASE v = "sse2"
  BY <1>1, SizeOf DEF hashed_fast, fast_context, initialised, init_shabal_sse2,
     mshabal_hash_fast_sse2, MSHABAL128_VECTOR_SIZE
<1>2. CASE v = "avx"
  BY <1>2, SizeOf DEF hashed_fast, fast_context, initialised, init_shabal_avx,
     mshabal_hash_fast_avx, MSHABAL128_VECTOR_SIZE
<1>3. CASE v = "neon"
  BY <1>3, SizeOf DEF hashed_fast, fast_context, initialised, init_shabal_neon,
     mshabal_hash_fast_neon, MSHABAL128_VECTOR_SIZE
<1>4. CASE v = "avx2"
  BY <1>4, SizeOf DEF hashed_fast, fast_context, initialised, init_shabal_avx2,
     mshabal_hash_fast_avx2, MSHABAL256_VECTOR_SIZE
<1>5. CASE v = "avx512f"
  BY <1>5, SizeOf DEF hashed_fast, fast_context, initialised, init_shabal_avx512f,
     mshabal_hash_fast_avx512f, MSHABAL512_VECTOR_SIZE
<1>6. QED
  BY <1>1, <1>2, <1>3, <1>4, <1>5, SizeOf

\* Every build's context starts from the tables of the scalar hash.
LEMMA InitialisedStarted ==
  ASSUME NEW v \in DOMAIN VectorSizes
  PROVE  Started(VectorSizes[v], initialised(v))
<1>1. CASE v = "sse2"
  BY <1>1, SizeOf, InitialContexts DEF initialised, MSHABAL128_VECTOR_SIZE
<1>2. CASE v = "avx"
  BY <1>2, SizeOf, InitialContexts DEF initialised, MSHABAL128_VECTOR_SIZE
<1>3. CASE v = "neon"
  BY <1>3, SizeOf, InitialContexts DEF initialised, MSHABAL128_VECTOR_SIZE
<1>4. CASE v = "avx2"
  BY <1>4, SizeOf, InitialContexts DEF initialised, MSHABAL256_VECTOR_SIZE
<1>5. CASE v = "avx512f"
  BY <1>5, SizeOf, InitialContexts DEF initialised, MSHABAL512_VECTOR_SIZE
<1>6. QED
  BY <1>1, <1>2, <1>3, <1>4, <1>5, SizeOf

\* What a fresh context holds.
LEMMA StartedContext ==
  ASSUME TablesTyped, NEW V \in Widths, NEW sc, Started(V, sc)
  PROVE  /\ FromTables(V, sc) /\ Context(V, sc) /\ sc.ptr = 0
         /\ sc.Wlow = One /\ sc.Whigh = Zero
<1>1. /\ {"state", "bufs", "Wlow", "Whigh", "ptr", "out_size"} \subseteq DOMAIN sc
      /\ sc.bufs \in [Lanes(V) -> [R64 -> Byte]] /\ sc.Wlow = One /\ sc.Whigh = Zero
      /\ sc.ptr = 0 /\ sc.out_size = 256
  BY DEF Started
<1>2. \A l \in Lanes(V) : lane(V, sc, l) = Regs(fast_start)
  BY DEF Started, Regs, fast_start
<1>3. HashState(fast_start) /\ fast_start.Wlow = One /\ fast_start.Whigh = Zero
  BY StartState DEF fast_start
<1>4. VectorState(V, sc)
  BY <1>1, <1>2, <1>3, Constants DEF VectorState, HashState
<1>5. \A l \in Lanes(V) : InStep(V, sc, l, fast_start)
  BY <1>1, <1>2, <1>3 DEF InStep
<1>6. sc.ptr \in R64
  BY <1>1 DEF R64
<1>7. Context(V, sc)
  BY <1>1, <1>4, <1>6 DEF Context
<1>8. QED
  BY <1>1, <1>4, <1>5, <1>7 DEF FromTables

\* A context just initialised holds nothing yet, in every lane.
LEMMA InitialisedHolds ==
  ASSUME BytesGiven, NEW v \in DOMAIN VectorSizes
  PROVE  VectorHolds(VectorSizes[v], initialised(v), Lanes(VectorSizes[v]), 0, 0)
<1> DEFINE V == VectorSizes[v]
           sc == initialised(v)
<1>1. V \in Widths /\ Started(V, sc) /\ TablesTyped
  BY SizeOf, InitialisedStarted, InitialContexts
<1> HIDE DEF V, sc
<1>2. FromTables(V, sc) /\ Context(V, sc) /\ sc.ptr = 0
  BY <1>1, StartedContext
<1>3. ASSUME NEW l \in Lanes(V)
      PROVE  InStep(V, sc, l, Hashed(l, 0)) /\ HasBytes(sc.bufs[l], l, 0, 0)
  <2>1. l \in Nat
    BY <1>1 DEF Lanes
  <2>2. Hashed(l, 0) = fast_start
    BY <1>1, <2>1, HashedSteps
  <2>3. sc.bufs[l] \in [R64 -> Byte]
    BY <1>2 DEF Context
  <2>4. HasBytes(sc.bufs[l], l, 0, 0)
    BY <2>3 DEF HasBytes
  <2>5. QED
    BY <1>2, <2>2, <2>4 DEF FromTables
<1>4. VectorHolds(V, sc, Lanes(V), 0, 0)
  BY <1>2, <1>3 DEF VectorHolds, LanesAt
<1>5. QED
  BY <1>4 DEF V, sc

\* A scalar context just initialised holds nothing yet.
LEMMA FreshHolds ==
  ASSUME BytesGiven, NEW l \in Nat
  PROVE  Holds(fresh, l, 0)
<1>1. TablesTyped
  BY InitialContexts
<1>2. /\ {"A", "B", "C", "Wlow", "Whigh", "buf", "ptr"} \subseteq DOMAIN fresh
      /\ fresh.A = A_init_256 /\ fresh.B = B_init_256 /\ fresh.C = C_init_256
      /\ fresh.Wlow = One /\ fresh.Whigh = Zero /\ fresh.ptr = 0
      /\ fresh.buf = [o \in R64 |-> {}]
  BY DEF fresh, sph_shabal256_init
<1>3. /\ Regs(fresh) = Regs(fast_start) /\ HashState(fast_start)
      /\ fast_start.Wlow = One /\ fast_start.Whigh = Zero
  BY <1>1, <1>2, StartState DEF Regs, fast_start
<1>4. HashState(fresh)
  BY <1>2, <1>3 DEF HashState
<1>5. Hashed(l, 0) = fast_start
  BY <1>1, HashedSteps
<1>6. {} \in Byte
  BY DEF Byte
<1>7. HasBytes(fresh.buf, l, 0, 0)
  BY <1>2, <1>6 DEF HasBytes
<1>8. HoldsAt(fresh, l, 0, 0)
  BY <1>2, <1>3, <1>4, <1>5, <1>7 DEF HoldsAt, SameState
<1>9. 0 \div 64 = 0 /\ 0 % 64 = 0
  OBVIOUS
<1>10. QED
  BY <1>8, <1>9 DEF Holds

-----------------------------------------------------------------------------
(* The streams in step.                                                     *)

\* The inductive invariant.
StreamInv ==
  LET V == VectorSizes[variant]
  IN  /\ variant \in DOMAIN VectorSizes /\ fed \in Nat
      /\ active \in SUBSET Lanes(V)
      /\ Context(V, simd)
      /\ active # {} => VectorHolds(V, simd, active, fed \div 64, fed % 64)
      /\ \A l \in active : Holds(scalars[l], l, fed)
      /\ digests # NULL => \A l \in active : SameDigest(l)

\* The invariant implies the property.
LEMMA InvAgrees ==
  ASSUME StreamInv
  PROVE  StreamsAgree
<1> DEFINE V == VectorSizes[variant]
<1>1. ASSUME NEW l \in active PROVE LaneIs(l, scalars[l])
  <2> DEFINE cc == scalars[l]
             q == fed \div 64
             p == fed % 64
             h == Hashed(l, q)
  <2>1. VectorHolds(V, simd, active, q, p) /\ HoldsAt(cc, l, q, p)
    BY <1>1 DEF StreamInv, Holds
  <2>2. InStep(V, simd, l, h) /\ HasBytes(simd.bufs[l], l, q, p) /\ simd.ptr = p
    BY <1>1, <2>1 DEF VectorHolds, LanesAt
  <2>3. SameState(cc, h) /\ HasBytes(cc.buf, l, q, p) /\ cc.ptr = p
    BY <2>1 DEF HoldsAt
  <2>4. p = fed % 64
    OBVIOUS
  <2> HIDE DEF cc, q, p, h
  <2>5. lane(V, simd, l) = Regs(cc) /\ simd.Wlow = cc.Wlow /\ simd.Whigh = cc.Whigh
    BY <2>2, <2>3 DEF InStep, SameState
  <2>6. \A o \in 0..(p - 1) : simd.bufs[l][o] = cc.buf[o]
    BY <2>2, <2>3 DEF HasBytes
  <2>7. LaneIs(l, cc)
    BY <2>2, <2>3, <2>4, <2>5, <2>6 DEF LaneIs, Regs
  <2>8. QED
    BY <2>7 DEF cc
<1>2. digests # NULL => \A l \in active : SameDigest(l)
  BY DEF StreamInv
<1>3. QED
  BY <1>1, <1>2 DEF StreamsAgree

\* A context just opened.
LEMMA OpenedInv ==
  ASSUME BytesGiven, NEW v \in DOMAIN VectorSizes,
         NEW sc, sc = initialised(v),
         NEW cs, cs = [l \in Lanes(VectorSizes[v]) |-> fresh]
  PROVE  /\ Context(VectorSizes[v], sc)
         /\ VectorHolds(VectorSizes[v], sc, Lanes(VectorSizes[v]), 0, 0)
         /\ \A l \in Lanes(VectorSizes[v]) : Holds(cs[l], l, 0)
<1>1. VectorHolds(VectorSizes[v], sc, Lanes(VectorSizes[v]), 0, 0)
  BY InitialisedHolds
<1>2. VectorSizes[v] \in Widths
  BY SizeOf
<1>3. \A l \in Lanes(VectorSizes[v]) : l \in Nat
  BY <1>2 DEF Lanes
<1>4. QED
  BY <1>1, <1>3, FreshHolds DEF VectorHolds

\* The invariant holds at first, and every step keeps it.
LEMMA StreamInitInv ==
  ASSUME BytesGiven, StreamInit
  PROVE  StreamInv
<1> DEFINE V == VectorSizes[variant]
<1>1. variant \in DOMAIN VectorSizes
  BY StreamParameters DEF StreamInit
<1>2. /\ simd = initialised(variant) /\ scalars = [l \in Lanes(V) |-> fresh]
      /\ active = Lanes(V) /\ fed = 0 /\ digests = NULL
  BY DEF StreamInit
<1>3. /\ Context(V, simd) /\ VectorHolds(V, simd, Lanes(V), 0, 0)
      /\ \A l \in Lanes(V) : Holds(scalars[l], l, 0)
  BY <1>1, <1>2, OpenedInv
<1>4. 0 \div 64 = 0 /\ 0 % 64 = 0
  OBVIOUS
<1>5. QED
  BY <1>1, <1>2, <1>3, <1>4 DEF StreamInv

\* Reopen keeps the invariant.
LEMMA ReopenInv ==
  ASSUME BytesGiven, StreamInv, Reopen
  PROVE  StreamInv'
<1> DEFINE V == VectorSizes[variant]
<1>1. variant \in DOMAIN VectorSizes /\ variant' = variant
  BY DEF StreamInv, Reopen
<1>2. /\ simd' = initialised(variant) /\ scalars' = [l \in Lanes(V) |-> fresh]
      /\ active' = Lanes(V) /\ fed' = 0 /\ digests' = NULL
  BY DEF Reopen, Opened
<1>3. /\ Context(V, simd') /\ VectorHolds(V, simd', Lanes(V), 0, 0)
      /\ \A l \in Lanes(V) : Holds(scalars'[l], l, 0)
  BY <1>1, <1>2, OpenedInv
<1>4. 0 \div 64 = 0 /\ 0 % 64 = 0
  OBVIOUS
<1>5. QED
  BY <1>1, <1>2, <1>3, <1>4 DEF StreamInv

\* Feed keeps it, for every length and every choice of lanes left out.
LEMMA FeedInv ==
  ASSUME BytesGiven, StreamInv, NEW len \in Lengths, NEW nulls, Feed(len, nulls)
  PROVE  StreamInv'
<1> DEFINE V == VectorSizes[variant]
           x == [l \in Lanes(V) |-> piece(l, fed, len)]
           given == [l \in Lanes(V) |-> IF l \in nulls THEN NULL ELSE x[l]]
           rest == active \ nulls
           t == mshabal(variant, simd, given, len)
<1>1. /\ variant \in DOMAIN VectorSizes /\ fed \in Nat /\ active \in SUBSET Lanes(V)
      /\ Context(V, simd)
      /\ active # {} => VectorHolds(V, simd, active, fed \div 64, fed % 64)
      /\ \A l \in active : Holds(scalars[l], l, fed)
  BY DEF StreamInv
<1>2. V \in Widths /\ SizeIs(variant, V)
  BY <1>1, SizeOf DEF SizeIs
<1>3. len \in Nat /\ NULL \notin Bytes(len)
  BY StreamParameters DEF Bytes
<1>4. TablesTyped
  BY InitialContexts
<1>5. /\ variant' = variant /\ fed' = fed + len /\ active' = rest /\ digests' = digests
      /\ digests = NULL
      /\ simd' = updated(variant, simd, given, len)
      /\ scalars' = [l \in Lanes(V) |->
                       IF l \in rest THEN sph_shabal256(scalars[l], x[l], len)
                       ELSE scalars[l]]
  <2> DEFINE data == [l \in Lanes(V) |-> [o \in 0..(len - 1) |-> Text(l, fed + o)]]
  <2>1. x = data /\ DOMAIN data = Lanes(V)
    BY DEF piece
  <2>2. QED
    BY <2>1 DEF Feed
<1>6. simd' = t
  BY <1>1, <1>5, UpdatedIs
<1>7. \A l \in Lanes(V) : x[l] \in Bytes(len) /\ x[l] # NULL
  <2>1. \A l \in Lanes(V) : l \in Nat /\ x[l] = piece(l, fed, len)
    BY <1>2 DEF Lanes
  <2> HIDE DEF x
  <2>2. QED
    BY <1>1, <1>3, <2>1, PieceTyped
<1>8. /\ \A l \in Lanes(V) : given[l] # NULL => given[l] \in Bytes(len)
      /\ \A l \in rest : given[l] # NULL /\ given[l] = piece(l, fed, len)
  <2>1. \A l \in rest : l \in Lanes(V) /\ l \notin nulls /\ x[l] = piece(l, fed, len)
    BY <1>1
  <2> HIDE DEF x, rest
  <2>2. QED
    BY <1>7, <2>1
<1> HIDE DEF given
<1>9. /\ Context(V, t)
      /\ rest # {} => VectorHolds(V, t, rest, (fed + len) \div 64, (fed + len) % 64)
  <2> DEFINE n == fed + len
  <2>1. CASE rest = {}
    <3> DEFINE p == simd.ptr
    <3>1. VectorHolds(V, simd, rest, 0, p)
      BY <1>1, <2>1 DEF VectorHolds, LanesAt
    <3>2. rest \in SUBSET Lanes(V) /\ 0 \in Nat
      BY <1>1
    <3>3. \A l \in rest : given[l] # NULL /\ given[l] = piece(l, 64 * 0 + p, len)
      BY <2>1
    <3> HIDE DEF p, rest, x, V, t
    <3> DEFINE m == 64 * 0 + p + len
    <3>4. Context(V, t)
      <4>1. m = 64 * 0 + p + len
        OBVIOUS
      <4> HIDE DEF m
      <4>2. /\ Context(V, t)
            /\ rest # {} => VectorHolds(V, t, rest, m \div 64, m % 64)
        BY <1>2, <1>3, <1>4, <1>8, <3>1, <3>2, <3>3, <4>1, UpdateHolds DEF t
      <4>3. QED
        BY <4>2
    <3>5. QED
      BY <2>1, <3>4 DEF t, V, rest
  <2>2. CASE rest # {}
    <3> DEFINE q == fed \div 64
               p == fed % 64
    <3>1. q \in Nat /\ p \in Nat /\ fed = 64 * q + p /\ n = 64 * q + p + len
      BY <1>1, <1>3, DivMod
    <3>2. active # {} /\ rest \in SUBSET active /\ rest \in SUBSET Lanes(V)
      BY <1>1, <2>2
    <3>3. VectorHolds(V, simd, active, q, p)
      BY <1>1, <3>2
    <3> HIDE DEF q, p, n, V, x, t
    <3>4. VectorHolds(V, simd, rest, q, p)
      <4> HIDE DEF rest
      <4>1. QED
        BY <3>2, <3>3, SubsetHolds
    <3>5. \A l \in rest : given[l] # NULL /\ given[l] = piece(l, 64 * q + p, len)
      BY <1>8, <3>1
    <3> HIDE DEF rest
    <3>6. /\ Context(V, t)
          /\ rest # {} => VectorHolds(V, t, rest, n \div 64, n % 64)
      BY <1>2, <1>3, <1>4, <1>8, <3>1, <3>2, <3>4, <3>5, UpdateHolds DEF t
    <3>7. QED
      BY <3>6 DEF n, V, t
  <2>3. QED
    BY <2>1, <2>2
<1>10. ASSUME NEW l \in rest PROVE Holds(scalars'[l], l, fed + len)
  <2>1. l \in active /\ l \in Lanes(V) /\ l \in Nat
    BY <1>1, <1>2 DEF Lanes
  <2>2. scalars'[l] = sph_shabal256(scalars[l], piece(l, fed, len), len)
    BY <1>5, <2>1, <1>10
  <2> DEFINE cc == scalars[l]
  <2>3. Holds(cc, l, fed)
    BY <1>1, <2>1
  <2> HIDE DEF cc
  <2>4. Holds(sph_shabal256(cc, piece(l, fed, len), len), l, fed + len)
    BY <1>1, <1>3, <1>4, <2>1, <2>3, ScalarFeed
  <2>5. QED
    BY <2>2, <2>4 DEF cc
<1>11. fed + len \in Nat /\ rest \in SUBSET Lanes(V)
  BY <1>1, <1>3
<1> HIDE DEF rest, t, x
<1>12. QED
  BY <1>1, <1>5, <1>6, <1>9, <1>10, <1>11 DEF StreamInv

\* With no bits after the last byte, what they would be does not matter.
LEMMA NoBits ==
  ASSUME NEW l, NEW n, NEW ub \in Byte
  PROVE  end_block(l, n, ub, 0) = end_block(l, n, {}, 0)
<1>1. last_byte(ub, 0) = last_byte({}, 0)
  <2>1. \A i \in ub : ~(i > 7 - 0)
    BY DEF Byte
  <2>2. QED
    BY <2>1 DEF last_byte
<1>2. QED
  BY <1>1 DEF end_block, padded

\* The digests of a call of Close.
LEMMA ClosedDigests ==
  ASSUME BytesGiven, StreamInv, NEW e \in Endings, Close(e[1], e[2]), NEW l \in active
  PROVE  SameDigest(l)'
<1> DEFINE V == VectorSizes[variant]
           ub == e[1]
           bits == e[2]
           D == Digest(l, fed, ub, bits)
           message == vector_message(V, fed)
           last == vector_last(V, fed, ub, bits)
           sc == fast_copy(initialised(variant), 44 * V)
<1>1. /\ variant \in DOMAIN VectorSizes /\ fed \in Nat /\ active \in SUBSET Lanes(V)
      /\ VectorHolds(V, simd, active, fed \div 64, fed % 64)
      /\ Holds(scalars[l], l, fed)
  BY DEF StreamInv
<1>2. V \in Widths /\ SizeIs(variant, V) /\ l \in Lanes(V) /\ l \in Nat
  BY <1>1, SizeOf DEF Lanes, SizeIs
<1>3. ub \in Byte /\ bits \in 0..7
  BY StreamParameters
<1>4. TablesTyped
  BY InitialContexts
<1>5. /\ variant' = variant
      /\ digests'.streamed = closed(variant, simd, [k \in Lanes(V) |-> ub], bits, active)
      /\ digests'.scalar[l] = IF bits = 0 THEN sph_shabal256_close(scalars[l])
                              ELSE sph_shabal256_addbits_and_close(scalars[l], ub, bits)
      /\ digests'.fast = hashed_fast(variant, message, last)
      /\ digests'.scalar_fast[l] =
           sph_shabal_hash_fast([j \in 1..(fed \div 64) |-> block_of(l, j)],
                                end_block(l, fed, ub, bits))
  <2>1. \A k : last_of(k, ub, bits) = end_block(k, fed, ub, bits)
    BY DEF last_of, end_block
  <2>2. /\ variant' = variant
        /\ digests' =
           [streamed |-> closed(variant, simd, [k \in Lanes(V) |-> ub], bits, active),
            scalar |-> [k \in active |->
                          IF bits = 0 THEN sph_shabal256_close(scalars[k])
                          ELSE sph_shabal256_addbits_and_close(scalars[k], ub, bits)],
            fast |-> hashed_fast(variant, message,
                       interleaved(V, [k \in Lanes(V) |-> last_of(k, ub, bits)])),
            scalar_fast |->
              [k \in active |->
                 sph_shabal_hash_fast(
                   [j \in 1..(fed \div 64) |-> block_of(k, j)],
                   last_of(k, ub, bits))]]
    BY DEF Close, vector_message
  <2> HIDE DEF V, ub, bits
  <2>3. interleaved(V, [k \in Lanes(V) |-> last_of(k, ub, bits)]) = last
    BY <2>1 DEF vector_last
  <2>4. last_of(l, ub, bits) = end_block(l, fed, ub, bits)
    BY <2>1
  <2> HIDE DEF last, message, D, sc
  <2>5. QED
    BY <2>2, <2>3, <2>4
<1> HIDE DEF message, last, sc, V, ub, bits
<1>6. digests'.streamed[l] = D
  <2>1. digests'.streamed = mshabal_close(variant, simd, ends(V, ub), bits, active)
    BY <1>1, <1>5, ClosedIs DEF V, ends
  <2> HIDE DEF D
  <2>2. mshabal_close(variant, simd, ends(V, ub), bits, active)[l] = D
    <3>1. ClosesRight(variant, V, simd, ub, bits, active, l, fed)
      BY <1>1, <1>2, <1>3, <1>4, CloseHolds
    <3>2. QED
      BY <3>1 DEF ClosesRight, D
  <2>3. QED
    BY <2>1, <2>2
<1>7. digests'.scalar[l] = D
  <2> DEFINE cc == scalars[l]
  <2>1. Holds(cc, l, fed)
    BY <1>1
  <2>2. CASE bits = 0
    <3>1. digests'.scalar[l] = shabal_close(cc, {}, 0)
      BY <1>5, <2>2 DEF sph_shabal256_close
    <3>2. {} \in Byte /\ 0 \in 0..7
      BY DEF Byte
    <3> HIDE DEF cc
    <3>3. shabal_close(cc, {}, 0) = Digest(l, fed, {}, 0)
      BY <1>1, <1>2, <1>4, <2>1, <3>2, ScalarClose
    <3>4. Digest(l, fed, {}, 0) = Digest(l, fed, ub, 0)
      BY <1>3, NoBits DEF Digest
    <3>5. QED
      BY <2>2, <3>1, <3>3, <3>4
  <2>3. CASE bits # 0
    <3>1. digests'.scalar[l] = shabal_close(cc, ub, bits)
      BY <1>5, <2>3 DEF sph_shabal256_addbits_and_close
    <3> HIDE DEF cc
    <3>2. shabal_close(cc, ub, bits) = Digest(l, fed, ub, bits)
      BY <1>1, <1>2, <1>3, <1>4, <2>1, ScalarClose
    <3>3. QED
      BY <3>1, <3>2
  <2>4. QED
    BY <2>2, <2>3
<1>8. digests'.scalar_fast[l] = D
  BY <1>5, ScalarFast
<1>9. \A z \in 0..7 : digests'.fast.dst[V * z + l] = D[z]
  <2>1. FromTables(V, sc)
    <3>1. Started(V, initialised(variant))
      BY <1>1, InitialisedStarted DEF V
    <3> DEFINE x == initialised(variant)
    <3>2. Started(V, x)
      BY <3>1
    <3> HIDE DEF x
    <3>3. FromTables(V, x)
      BY <1>2, <1>4, <3>2, StartedContext
    <3>4. FromTables(V, fast_copy(x, 44 * V))
      BY <1>2, <3>3, FastCopy
    <3>5. QED
      BY <3>4 DEF sc, x
  <2>2. digests'.fast = hash_fast(V, sc, message, last)
    BY <1>1, <1>5, HashedFastIs DEF V, sc, fast_context
  <2>3. message = vector_message(V, fed) /\ last = vector_last(V, fed, ub, bits)
    BY DEF message, last
  <2> HIDE DEF D
  <2>4. InResults(V, hash_fast(V, sc, message, last), l, Digest(l, fed, ub, bits))
    BY <1>1, <1>2, <1>3, <1>4, <2>1, <2>3, FastHolds
  <2>5. QED
    BY <2>2, <2>4 DEF InResults, D
<1> HIDE DEF D
<1>10. VectorSizes[variant'] = V
  BY <1>5 DEF V
<1>11. QED
  BY <1>6, <1>7, <1>8, <1>9, <1>10 DEF SameDigest

\* Close keeps it: all four digests are the digest of the message.
LEMMA CloseInv ==
  ASSUME BytesGiven, StreamInv, NEW e \in Endings, Close(e[1], e[2])
  PROVE  StreamInv'
<1>1. /\ variant' = variant /\ simd' = simd /\ scalars' = scalars
      /\ active' = active /\ fed' = fed
  BY DEF Close
<1>2. \A l \in active : SameDigest(l)'
  BY ClosedDigests
<1>3. \A l \in active' : SameDigest(l)'
  BY <1>1, <1>2
<1>4. QED
  BY <1>1, <1>3 DEF StreamInv

\* Every step keeps it.
LEMMA StreamNextInv ==
  ASSUME BytesGiven, StreamInv, [StreamNext]_svars
  PROVE  StreamInv'
<1>1. CASE \E len \in Lengths, nulls \in NullLanes(VectorSizes[variant]) : Feed(len, nulls)
  BY <1>1, FeedInv
<1>2. CASE \E e \in Endings : Close(e[1], e[2])
  BY <1>2, CloseInv
<1>3. CASE Reopen
  BY <1>3, ReopenInv
<1>4. CASE UNCHANGED svars
  BY <1>4 DEF svars, StreamInv, SameDigest
<1>5. QED
  BY <1>1, <1>2, <1>3, <1>4 DEF StreamNext

-----------------------------------------------------------------------------
(* The theorem.                                                             *)

\* Whatever the messages, the pieces they come in, the lanes left out and the
\* bits they end in, in every build: the lanes stay in step with scalar
\* contexts, and streamed or whole, in parallel or alone, each message has one
\* digest (mshabal_* and _close, sph_shabal256 and _close, and the *_hash_fast).
THEOREM StreamsInStep ==
  ASSUME BytesGiven
  PROVE  StreamSpec => []StreamsAgree
<1>1. StreamInit => StreamInv
  BY StreamInitInv
<1>2. StreamInv /\ [StreamNext]_svars => StreamInv'
  BY StreamNextInv
<1>3. StreamInv => StreamsAgree
  BY InvAgrees
<1>4. QED
  BY <1>1, <1>2, <1>3, PTL DEF StreamSpec
=============================================================================
