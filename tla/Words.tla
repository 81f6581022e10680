------------------------------- MODULE Words -------------------------------
(***************************************************************************)
(* The words and bytes of the hashing code.  An unsigned number is the set  *)
(* of the positions of its one bits, position 0 being the least             *)
(* significant: exclusive or, complement, masking and rotation are then set *)
(* operations, and a sum carries until nothing is left to carry.            *)
(***************************************************************************)
EXTENDS Integers

Bits == 0..31
Word == SUBSET Bits          \* sph_u32, mshabal_u32
Byte == SUBSET (0..7)        \* unsigned char

One == {0}
Zero == {}
Ones == Bits                 \* 0xFFFFFFFF

Xor(a, b) == (a \ b) \cup (b \ a)
Not(a) == Bits \ a

\* x << n cut to 32 bits, and (x << n) | (x >> (32 - n)).
Shl(a, n) == {i + n : i \in a} \cap Bits
Rotl(a, n) == {(i + n) % 32 : i \in a}

Plus(a, b) ==
  LET sum[p \in Word \X Word] ==
        IF p[1] \cap p[2] = {} THEN p[1] \cup p[2]
        ELSE sum[<<Xor(p[1], p[2]), Shl(p[1] \cap p[2], 1)>>]
  IN  sum[<<a, b>>]

\* 3 * a and 5 * a.
Times3(a) == Plus(Shl(a, 1), a)
Times5(a) == Plus(Shl(a, 2), a)

Minus(a, b) == Not(Plus(Not(a), b))

\* The number n >= 0, and the word 0xHHHHLLLL of a table written as its halves.
Number(n) == {i \in 0..30 : (n \div 2^i) % 2 = 1}
W(hi, lo) == Number(lo) \cup {i + 16 : i \in Number(hi)}

\* A little-endian word of four bytes, and the 64-bit number of two words.
Word32(b0, b1, b2, b3) ==
  b0 \cup {i + 8 : i \in b1} \cup {i + 16 : i \in b2} \cup {i + 24 : i \in b3}
Word64(lo, hi) == lo \cup {i + 32 : i \in hi}

\* x < y, for unsigned numbers of any width.
Below(x, y) == \E i \in y \ x : \A j \in Xor(x, y) : j <= i
=============================================================================
