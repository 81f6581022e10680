---------------------------- MODULE ShabalProofs ----------------------------
(***************************************************************************)
(* Proofs about the hash, scalar and parallel, for every message: the sums  *)
(* and differences of 32 bits, the permutation and a round of one lane      *)
(* against the scalar macros, the rounds of all lanes, and the group of a   *)
(* search against the scalar deadline.                                      *)
(***************************************************************************)
EXTENDS SimdVariants, FiniteSetTheorems, TLAPS

-----------------------------------------------------------------------------
(* Induction, as sets of numbers: the least number of a set, and what holds  *)
(* of 0 and passes from n to n + 1.                                          *)

\* A set of natural numbers that is not empty has a least one.
LEMMA LeastNat ==
  ASSUME NEW T, T \subseteq Nat, T # {}
  PROVE  \E x \in T : \A y \in T : x <= y
<1> DEFINE up(x) == 0..(x - 1)
           U == {up(x) : x \in T}
<1>1. IsWellFoundedOn(StrictSubsetOrdering(Nat), FiniteSubsetsOf(Nat))
  BY FS_StrictSubsetOrderingWellFounded
<1>2. U \subseteq FiniteSubsetsOf(Nat) /\ U # {}
  <2>1. ASSUME NEW x \in T PROVE up(x) \in FiniteSubsetsOf(Nat)
    <3>1. 0 \in Int /\ x - 1 \in Int /\ up(x) \subseteq Nat
      OBVIOUS
    <3>2. IsFiniteSet(up(x))
      BY <3>1, FS_Interval
    <3>3. QED
      BY <3>1, <3>2 DEF FiniteSubsetsOf
  <2>2. QED
    BY <2>1
<1>3. PICK u \in U : \A v \in U : <<v, u>> \notin StrictSubsetOrdering(Nat)
  <2> HIDE DEF U
  <2>1. QED
    BY <1>1, <1>2, WFMin
<1>4. PICK x \in T : u = up(x)
  OBVIOUS
<1>5. ASSUME NEW y \in T PROVE x <= y
  <2> SUFFICES ASSUME y < x PROVE FALSE
    OBVIOUS
  <2>1. up(y) \subseteq up(x) /\ y \in up(x) /\ y \notin up(y) /\ up(x) \subseteq Nat
    OBVIOUS
  <2>2. <<up(y), up(x)>> \in StrictSubsetOrdering(Nat)
    BY <2>1 DEF StrictSubsetOrdering
  <2>3. QED
    BY <1>3, <1>4, <2>2
<1>6. QED
  BY <1>5

\* What holds of 0 and passes from n to n + 1 holds of every number.
LEMMA SetInduction ==
  ASSUME NEW T, 0 \in T, \A n \in Nat : n \in T => n + 1 \in T
  PROVE  \A n \in Nat : n \in T
<1> SUFFICES ASSUME Nat \ T # {} PROVE FALSE
  OBVIOUS
<1>1. PICK x \in Nat \ T : \A y \in Nat \ T : x <= y
  <2>1. Nat \ T \subseteq Nat
    OBVIOUS
  <2>2. QED
    BY <2>1, LeastNat
<1>2. x # 0 /\ x - 1 \in Nat
  BY <1>1
<1>3. x - 1 \in T
  BY <1>1, <1>2
<1>4. QED
  BY <1>1, <1>2, <1>3

\* f starts at s0 and makes the step g at each j.
Iterates(f, s0, g, N) ==
  f[0] = s0 /\ \A j \in 1..N : f[j] = g[<<j, f[j - 1]>>]

\* A recursion over 0..N that stays in S has a solution.
LEMMA RecursionExists ==
  ASSUME NEW S, NEW s0 \in S, NEW N \in Nat, NEW g,
         \A j \in 1..N, s \in S : g[<<j, s>>] \in S
  PROVE  \E f \in [0..N -> S] : Iterates(f, s0, g, N)
<1> DEFINE Fits(n, f) == f[0] = s0 /\ \A j \in 1..n : f[j] = g[<<j, f[j - 1]>>]
           T == {n \in Nat : n <= N => \E f \in [0..n -> S] : Fits(n, f)}
<1>1. 0 \in T
  <2>1. [k \in 0..0 |-> s0] \in [0..0 -> S] /\ Fits(0, [k \in 0..0 |-> s0])
    OBVIOUS
  <2> HIDE DEF Fits
  <2>2. QED
    BY <2>1
<1>2. ASSUME NEW n \in Nat, n \in T PROVE n + 1 \in T
  <2> SUFFICES ASSUME n + 1 <= N
               PROVE  \E f \in [0..(n + 1) -> S] : Fits(n + 1, f)
    OBVIOUS
  <2>1. PICK f \in [0..n -> S] : Fits(n, f)
    <3>1. n <= N
      OBVIOUS
    <3> HIDE DEF Fits
    <3>2. QED
      BY <1>2, <3>1
  <2>a. f[n] \in S /\ n + 1 \in 1..N
    OBVIOUS
  <2>c. g[<<n + 1, f[n]>>] \in S
    BY <2>a
  <2> DEFINE h == [k \in 0..(n + 1) |-> IF k = n + 1 THEN g[<<n + 1, f[n]>>] ELSE f[k]]
  <2>2. h \in [0..(n + 1) -> S]
    BY <2>c
  <2>3. h[0] = s0
    <3>1. 0 \in 0..(n + 1) /\ 0 # n + 1
      OBVIOUS
    <3>2. h[0] = f[0]
      BY <3>1
    <3>3. QED
      BY <3>2, <2>1
  <2>4. ASSUME NEW j \in 1..(n + 1) PROVE h[j] = g[<<j, h[j - 1]>>]
    <3>1. CASE j = n + 1
      <4>1. h[j] = g[<<n + 1, f[n]>>] /\ h[j - 1] = f[n]
        BY <3>1
      <4> HIDE DEF h
      <4>2. QED
        BY <3>1, <4>1
    <3>2. CASE j # n + 1
      <4>1. j \in 1..n /\ h[j] = f[j] /\ h[j - 1] = f[j - 1]
        BY <3>2
      <4> HIDE DEF h
      <4>2. QED
        BY <2>1, <4>1
    <3>3. QED
      BY <3>1, <3>2
  <2> HIDE DEF h
  <2>5. Fits(n + 1, h)
    BY <2>3, <2>4
  <2> HIDE DEF Fits
  <2>6. QED
    BY <2>2, <2>5
<1> HIDE DEF T
<1>3. \A n \in Nat : n \in T
  BY <1>1, <1>2, SetInduction
<1>4. PICK f \in [0..N -> S] : Fits(N, f)
  <2>1. N \in T /\ N <= N
    BY <1>3
  <2> HIDE DEF Fits
  <2>2. QED
    BY <2>1 DEF T
<1>5. Iterates(f, s0, g, N)
  BY <1>4 DEF Iterates
<1>6. QED
  BY <1>5

-----------------------------------------------------------------------------
(* Sums.                                                                    *)

\* i of x, y and c: at least two of them.
Maj(x, y, c) == (x \cap y) \cup (x \cap c) \cup (y \cap c)

\* c is the carries of x + y: what bits i put into bit i + 1.
Carries(x, y, c) ==
  /\ c \in Word /\ 0 \notin c
  /\ \A i \in 0..30 : (i + 1 \in c) <=> (i \in Maj(x, y, c))

SumStep(f, x, y) ==
  IF x \cap y = {} THEN x \cup y ELSE f[<<Xor(x, y), Shl(x \cap y, 1)>>]

\* The operations of Words return words.
LEMMA XorWord == ASSUME NEW a \in Word, NEW b \in Word PROVE Xor(a, b) \in Word
BY DEF Xor, Word

\* A complement is a word.
LEMMA NotWord == ASSUME NEW a PROVE Not(a) \in Word
BY DEF Not, Word

\* A shift is cut to a word.
LEMMA ShlWord == ASSUME NEW a, NEW n PROVE Shl(a, n) \in Word
BY DEF Shl, Word

\* A shift by one moves the lowest bit up.
LEMMA ShlUp ==
  ASSUME NEW k \in 0..31, NEW y \in Word, \A i \in y : k <= i
  PROVE  \A i \in Shl(y, 1) : k + 1 <= i
BY DEF Shl, Word, Bits

\* A rotation is a word.
LEMMA RotlWord ==
  ASSUME NEW a \in Word, NEW n \in Nat
  PROVE  Rotl(a, n) \in Word
<1>1. \A i \in Bits : (i + n) % 32 \in Bits
  BY DEF Bits
<1>2. QED
  BY <1>1 DEF Rotl, Word

Above(y, k) == \A i \in y : k <= i

\* The recursion by which Plus carries has a solution on all pairs of words.
LEMMA SumExists ==
  \E f \in [Word \X Word -> Word] :
    f = [p \in Word \X Word |-> SumStep(f, p[1], p[2])]
<1> DEFINE Good(k, f) == \A x \in Word, y \in Word :
                           Above(y, k) => f[<<x, y>>] = SumStep(f, x, y)
           T == {n \in Nat : n <= 32 => \E f \in [Word \X Word -> Word] : Good(32 - n, f)}
<1>0. ASSUME NEW f \in [Word \X Word -> Word], NEW x \in Word, NEW y \in Word
      PROVE  SumStep(f, x, y) \in Word
  <2>1. f[<<Xor(x, y), Shl(x \cap y, 1)>>] \in Word
    <3>1. <<Xor(x, y), Shl(x \cap y, 1)>> \in Word \X Word
      BY XorWord, ShlWord
    <3>2. QED
      BY <3>1
  <2>2. x \cup y \in Word
    BY DEF Word
  <2>3. QED
    BY <2>1, <2>2 DEF SumStep
<1>1. 0 \in T
  <2> DEFINE f == [p \in Word \X Word |-> p[1] \cup p[2]]
  <2>1. f \in [Word \X Word -> Word]
    BY DEF Word
  <2>2. ASSUME NEW x \in Word, NEW y \in Word, Above(y, 32)
        PROVE  f[<<x, y>>] = SumStep(f, x, y)
    <3>1. y = {}
      BY <2>2 DEF Above, Word, Bits
    <3>2. QED
      BY <3>1 DEF SumStep
  <2> HIDE DEF f
  <2>3. Good(32, f)
    BY <2>2
  <2> HIDE DEF Good
  <2>4. QED
    BY <2>1, <2>3
<1>2. ASSUME NEW n \in Nat, n \in T PROVE n + 1 \in T
  <2> SUFFICES ASSUME n + 1 <= 32
               PROVE  \E f \in [Word \X Word -> Word] : Good(32 - (n + 1), f)
    OBVIOUS
  <2> DEFINE k == 32 - (n + 1)
  <2>1. k \in 0..31 /\ k + 1 = 32 - n /\ n <= 32
    OBVIOUS
  <2>2. PICK f \in [Word \X Word -> Word] : Good(32 - n, f)
    BY <1>2, <2>1
  <2> DEFINE h == [p \in Word \X Word |-> SumStep(f, p[1], p[2])]
  <2>3. h \in [Word \X Word -> Word]
    BY <1>0
  <2>4. ASSUME NEW x \in Word, NEW y \in Word, Above(y, k)
        PROVE  h[<<x, y>>] = SumStep(h, x, y)
    <3>1. h[<<x, y>>] = SumStep(f, x, y)
      OBVIOUS
    <3> DEFINE x1 == Xor(x, y)
               y1 == Shl(x \cap y, 1)
    <3>2. x1 \in Word /\ y1 \in Word
      BY XorWord, ShlWord
    <3>3. h[<<x1, y1>>] = SumStep(f, x1, y1)
      BY <3>2
    <3>4. Above(y1, 32 - n)
      <4> HIDE DEF k
      <4>1. x \cap y \in Word /\ \A i \in x \cap y : k <= i
        BY <2>4 DEF Above, Word
      <4>2. \A i \in y1 : k + 1 <= i
        BY <4>1, <2>1, ShlUp
      <4>3. QED
        BY <4>2, <2>1 DEF Above
    <3>5. f[<<x1, y1>>] = SumStep(f, x1, y1)
      BY <2>2, <3>2, <3>4
    <3> HIDE DEF h
    <3>6. QED
      BY <3>1, <3>3, <3>5 DEF SumStep
  <2> HIDE DEF h, k
  <2>5. Good(k, h)
    BY <2>4
  <2> HIDE DEF Good
  <2>6. QED
    BY <2>3, <2>5 DEF k
<1> HIDE DEF T
<1>3. 32 \in T
  BY <1>1, <1>2, SetInduction
<1>4. PICK f \in [Word \X Word -> Word] : Good(0, f)
  <2>1. \E f \in [Word \X Word -> Word] : Good(32 - 32, f)
    BY <1>3 DEF T
  <2>2. 32 - 32 = 0
    OBVIOUS
  <2> HIDE DEF Good
  <2>3. QED
    BY <2>1, <2>2
<1>5. \A x \in Word, y \in Word : f[<<x, y>>] = SumStep(f, x, y)
  <2>1. \A y \in Word : Above(y, 0)
    BY DEF Above, Word, Bits
  <2>2. QED
    BY <1>4, <2>1
<1>6. f = [p \in Word \X Word |-> SumStep(f, p[1], p[2])]
  BY <1>5
<1>7. QED
  BY <1>6

\* Bit by bit, a sum is its arguments and the carries.
LEMMA PlusIsSum ==
  ASSUME NEW a \in Word, NEW b \in Word
  PROVE  /\ Plus(a, b) \in Word
         /\ \E c : Carries(a, b, c) /\ Plus(a, b) = Xor(Xor(a, b), c)
<1> DEFINE IsSum(x, y, s) == \E c : Carries(x, y, c) /\ s = Xor(Xor(x, y), c)
<1>1. PICK f : /\ Plus(a, b) = f[<<a, b>>]
               /\ \A x \in Word, y \in Word : f[<<x, y>>] = SumStep(f, x, y)
  <2> DEFINE sum == CHOOSE f : f = [p \in Word \X Word |-> SumStep(f, p[1], p[2])]
  <2>1. Plus(a, b) = sum[<<a, b>>]
    BY DEF Plus, SumStep
  <2>2. sum = [p \in Word \X Word |-> SumStep(sum, p[1], p[2])]
    BY SumExists
  <2> HIDE DEF sum
  <2>3. QED
    BY <2>1, <2>2
<1>2. ASSUME NEW x \in Word, NEW y \in Word, x \cap y = {}
      PROVE  IsSum(x, y, x \cup y)
  <2>1. Carries(x, y, {}) /\ x \cup y = Xor(Xor(x, y), {})
    BY <1>2 DEF Carries, Maj, Word, Xor
  <2>2. QED
    BY <2>1
<1>3. ASSUME NEW x \in Word, NEW y \in Word, NEW s,
             IsSum(Xor(x, y), Shl(x \cap y, 1), s)
      PROVE  IsSum(x, y, s)
  <2> DEFINE x1 == Xor(x, y)
             y1 == Shl(x \cap y, 1)
  <2>1. PICK c : Carries(x1, y1, c) /\ s = Xor(Xor(x1, y1), c)
    BY <1>3
  <2>2. 0 \notin y1 /\ y1 \in Word /\ \A i \in 0..30 : (i + 1 \in y1) <=> (i \in x \cap y)
    BY DEF Shl, Word, Bits
  <2>3. \A i \in 0..30 : ~(i \in x1 /\ i \in x \cap y)
    BY DEF Xor
  <2> DEFINE T == {n \in Nat : n \in Bits => n \notin y1 \cap c}
  <2>4. 0 \in T
    BY <2>2
  <2>5. ASSUME NEW n \in Nat, n \in T PROVE n + 1 \in T
    <3> SUFFICES ASSUME n \in 0..30, n + 1 \in y1, n + 1 \in c PROVE FALSE
      BY DEF Bits
    <3>1. n \in x \cap y /\ n \notin x1 /\ n \in Maj(x1, y1, c) /\ n \in Bits
      BY <2>1, <2>2, <2>3 DEF Carries, Bits
    <3>2. n \in y1 \cap c
      BY <3>1 DEF Maj
    <3>3. QED
      BY <3>1, <3>2, <2>5
  <2>6. \A n \in Nat : n \in T
    <3> HIDE DEF T
    <3>1. QED
      BY <2>4, <2>5, SetInduction
  <2>7. y1 \cap c = {}
    BY <2>6, <2>2 DEF Word, Bits
  <2> DEFINE e == y1 \cup c
  <2>8. e \in Word /\ 0 \notin e
    BY <2>1, <2>2 DEF Carries, Word
  <2>9. ASSUME NEW i \in 0..30 PROVE (i + 1 \in e) <=> (i \in Maj(x, y, e))
    <3>1. (i + 1 \in e) <=> (i \in x \cap y) \/ i \in Maj(x1, y1, c)
      BY <2>1, <2>2 DEF Carries
    <3>2. i \in Maj(x1, y1, c) <=> (i \in Xor(x, y) /\ i \in e)
      BY <2>7 DEF Maj
    <3>3. QED
      BY <3>1, <3>2 DEF Maj, Xor
  <2>10. s = Xor(Xor(x, y), e)
    BY <2>1, <2>7 DEF Xor
  <2> HIDE DEF e
  <2>11. QED
    BY <2>8, <2>9, <2>10 DEF Carries
<1> HIDE DEF IsSum
<1> DEFINE Good(k) == \A x \in Word, y \in Word : Above(y, k) => IsSum(x, y, f[<<x, y>>])
           T == {n \in Nat : n <= 32 => Good(32 - n)}
<1>4. 0 \in T
  <2>1. ASSUME NEW x \in Word, NEW y \in Word, Above(y, 32) PROVE IsSum(x, y, f[<<x, y>>])
    <3>1. y = {}
      BY <2>1 DEF Above, Word, Bits
    <3>2. x \cap y = {} /\ f[<<x, y>>] = x \cup y
      <4>1. f[<<x, y>>] = SumStep(f, x, y)
        BY <1>1
      <4>2. x \cap y = {}
        BY <3>1
      <4> HIDE DEF T
      <4>3. QED
        BY <4>1, <4>2 DEF SumStep
    <3>3. QED
      BY <3>2, <1>2
  <2>2. QED
    BY <2>1
<1>5. ASSUME NEW n \in Nat, n \in T PROVE n + 1 \in T
  <2> SUFFICES ASSUME n + 1 <= 32, NEW x \in Word, NEW y \in Word,
                      Above(y, 32 - (n + 1))
               PROVE  IsSum(x, y, f[<<x, y>>])
    OBVIOUS
  <2> DEFINE k == 32 - (n + 1)
  <2>1. k \in 0..31 /\ k + 1 = 32 - n /\ n <= 32
    OBVIOUS
  <2>2. CASE x \cap y = {}
    <3>1. f[<<x, y>>] = SumStep(f, x, y)
      BY <1>1
    <3>2. f[<<x, y>>] = x \cup y
      BY <2>2, <3>1 DEF SumStep
    <3>3. QED
      BY <2>2, <3>2, <1>2
  <2>3. CASE x \cap y # {}
    <3> DEFINE x1 == Xor(x, y)
               y1 == Shl(x \cap y, 1)
    <3>1. f[<<x, y>>] = f[<<x1, y1>>]
      BY <2>3, <1>1 DEF SumStep
    <3>2. x1 \in Word /\ y1 \in Word
      BY XorWord, ShlWord
    <3>3. Above(y1, 32 - n)
      <4>0. Above(y, k)
        OBVIOUS
      <4> HIDE DEF k
      <4>1. x \cap y \in Word /\ \A i \in x \cap y : k <= i
        BY <4>0 DEF Above, Word
      <4>2. \A i \in y1 : k + 1 <= i
        BY <4>1, <2>1, ShlUp
      <4>3. QED
        BY <4>2, <2>1 DEF Above
    <3>4. IsSum(x1, y1, f[<<x1, y1>>])
      BY <3>2, <3>3, <2>1, <1>5
    <3>5. QED
      BY <3>1, <3>4, <1>3
  <2>4. QED
    BY <2>2, <2>3
<1> HIDE DEF T
<1>6. 32 \in T
  BY <1>4, <1>5, SetInduction
<1>7. Good(0)
  <2>1. Good(32 - 32) /\ 32 - 32 = 0
    BY <1>6 DEF T
  <2> HIDE DEF Good
  <2>2. QED
    BY <2>1
<1>8. IsSum(a, b, Plus(a, b))
  BY <1>1, <1>7 DEF Above, Word, Bits
<1>9. \A c : Carries(a, b, c) => Xor(Xor(a, b), c) \in Word
  BY XorWord DEF Carries
<1>10. QED
  BY <1>8, <1>9 DEF IsSum

\* The carries are determined by the arguments.
LEMMA OneCarries ==
  ASSUME NEW a, NEW b, NEW c, NEW e, Carries(a, b, c), Carries(a, b, e)
  PROVE  c = e
<1> DEFINE T == {n \in Nat : n \in Bits => (n \in c <=> n \in e)}
<1>1. 0 \in T
  BY DEF Carries
<1>2. ASSUME NEW n \in Nat, n \in T PROVE n + 1 \in T
  <2> SUFFICES ASSUME n \in 0..30 PROVE (n + 1 \in c) <=> (n + 1 \in e)
    BY DEF Bits
  <2>1. (n \in c) <=> (n \in e)
    BY <1>2 DEF Bits
  <2>2. QED
    BY <2>1 DEF Carries, Maj
<1>3. \A n \in Nat : n \in T
  <2> HIDE DEF T
  <2>1. QED
    BY <1>1, <1>2, SetInduction
<1>4. c \subseteq Bits /\ e \subseteq Bits /\ Bits \subseteq Nat
  BY DEF Carries, Word, Bits
<1>5. \A n \in Bits : n \in c <=> n \in e
  BY <1>3, <1>4
<1>6. QED
  BY <1>4, <1>5

\* A sum is known from its carries, whatever they are.
LEMMA PlusOf ==
  ASSUME NEW a \in Word, NEW b \in Word, NEW c, Carries(a, b, c)
  PROVE  Plus(a, b) = Xor(Xor(a, b), c)
BY PlusIsSum, OneCarries

\* Adding what was taken away.
LEMMA PlusBack ==
  ASSUME NEW a \in Word, NEW b \in Word
  PROVE  Plus(Not(Plus(Not(a), b)), b) = a
<1>1. PICK c : Carries(Not(a), b, c) /\ Plus(Not(a), b) = Xor(Xor(Not(a), b), c)
  BY NotWord, PlusIsSum
<1> DEFINE t == Not(Plus(Not(a), b))
<1>2. t \in Word /\ c \in Word /\ a \subseteq Bits /\ b \subseteq Bits /\ c \subseteq Bits
  BY <1>1, NotWord DEF Carries, Word
<1>3. t = Xor(Xor(a, b), c)
  BY <1>1, <1>2 DEF Not, Xor
<1> HIDE DEF t
<1>4. \A i \in 0..30 : i \in Maj(Not(a), b, c) <=> i \in Maj(t, b, c)
  BY <1>2, <1>3 DEF Maj, Not, Xor, Bits
<1>5. Carries(t, b, c)
  BY <1>1, <1>4 DEF Carries
<1>6. Plus(t, b) = Xor(Xor(t, b), c)
  BY <1>2, <1>5, PlusOf
<1>7. Plus(t, b) = a
  BY <1>3, <1>6 DEF Xor
<1>8. QED
  BY <1>7 DEF t

\* Sums and differences are words.
LEMMA PlusWord == ASSUME NEW a \in Word, NEW b \in Word PROVE Plus(a, b) \in Word
BY PlusIsSum

\* A difference is a word.
LEMMA MinusWord == ASSUME NEW a, NEW b PROVE Minus(a, b) \in Word
BY NotWord DEF Minus

\* A complement is undone by another.
LEMMA NotNot == ASSUME NEW a \in Word PROVE Not(Not(a)) = a
BY DEF Not, Word

\* Addition and subtraction undo each other.
LEMMA PlusOfMinus ==
  ASSUME NEW a \in Word, NEW b \in Word PROVE Plus(Minus(a, b), b) = a
BY PlusBack DEF Minus

\* Taking away what was added.
LEMMA MinusOfPlus ==
  ASSUME NEW a \in Word, NEW b \in Word PROVE Minus(Plus(a, b), b) = a
<1>1. Plus(Not(Plus(Not(Not(a)), b)), b) = Not(a)
  BY NotWord, PlusBack
<1>2. Not(Not(a)) = a
  BY NotNot
<1>3. QED
  BY <1>1, <1>2 DEF Minus

\* The constants are words.
LEMMA Constants == One \in Word /\ Zero \in Word /\ Ones \in Word
BY DEF One, Zero, Ones, Word, Bits

\* Only all ones count over to zero.
LEMMA Wraps ==
  ASSUME NEW w \in Word
  PROVE  Plus(w, One) = Zero <=> w = Ones
<1>1. Plus(Ones, One) = Zero
  <2>1. Carries(Ones, One, 1..31)
    BY DEF Carries, Ones, One, Maj, Word, Bits
  <2>2. Plus(Ones, One) = Xor(Xor(Ones, One), 1..31)
    BY <2>1, Constants, PlusOf
  <2>3. QED
    BY <2>2 DEF Xor, Ones, One, Zero, Bits
<1>2. Minus(Plus(w, One), One) = w /\ Minus(Plus(Ones, One), One) = Ones
  BY Constants, MinusOfPlus
<1>3. QED
  BY <1>1, <1>2

\* A recursion over 0..N that keeps its values in a set.
LEMMA BoundedInduction ==
  ASSUME NEW N \in Nat, NEW T, 0 \in T, \A j \in 1..N : j - 1 \in T => j \in T
  PROVE  \A j \in 0..N : j \in T
<1> DEFINE U == {n \in Nat : n <= N => n \in T}
<1>1. 0 \in U
  OBVIOUS
<1>2. ASSUME NEW n \in Nat, n \in U PROVE n + 1 \in U
  <2> SUFFICES ASSUME n + 1 <= N PROVE n + 1 \in T
    OBVIOUS
  <2>1. n + 1 \in 1..N /\ (n + 1) - 1 = n /\ n \in T
    BY <1>2
  <2>2. QED
    BY <2>1
<1> HIDE DEF U
<1>3. \A n \in Nat : n \in U
  BY <1>1, <1>2, SetInduction
<1>4. QED
  BY <1>3 DEF U

-----------------------------------------------------------------------------
(* The permutation.                                                         *)

\* The products by 3 and 5 are words.
LEMMA TimesWord == ASSUME NEW a \in Word PROVE Times3(a) \in Word /\ Times5(a) \in Word
BY PlusWord, ShlWord DEF Times3, Times5

\* The complement PERM_ELT takes is the exclusive or with ones of PP.
LEMMA NotXor ==
  ASSUME NEW a \in Word, NEW b \in Word
  PROVE  Not(Xor(a, b)) = Xor(a, Xor(b, Ones))
BY DEF Not, Xor, Ones, Word

\* The registers a step of the permutation names are registers.
LEMMA StepIndices ==
  ASSUME NEW j \in Nat
  PROVE  /\ j % 12 \in R12 /\ (j + 11) % 12 \in R12
         /\ j % 16 \in R16 /\ (j + 13) % 16 \in R16 /\ (j + 9) % 16 \in R16
         /\ (j + 6) % 16 \in R16 /\ (24 - (j % 16)) % 16 \in R16
BY DEF R12, R16

\* The macro of the scalar hash and that of the parallel one do the same to a
\* lane, and leave C alone.
LEMMA StepsAgree ==
  ASSUME NEW r \in Registers, NEW M \in Block, NEW j \in Nat
  PROVE  /\ PP_STEP(r, M, j) = PERM_STEP(r, M, j)
         /\ PERM_STEP(r, M, j) \in Registers
         /\ PERM_STEP(r, M, j).C = r.C
<1> DEFINE xa0 == j % 12
           xa1 == (j + 11) % 12
           xb0 == j % 16
           xb1 == (j + 13) % 16
           xb2 == (j + 9) % 16
           xb3 == (j + 6) % 16
           xc == (24 - (j % 16)) % 16
           u == Xor(Xor(r.A[xa0], Times5(Rotl(r.A[xa1], 15))), r.C[xc])
           a == Xor(Xor(Times3(u), r.B[xb1]), Xor(r.B[xb2] \ r.B[xb3], M[xb0]))
           b == Not(Xor(Rotl(r.B[xb0], 1), a))
           p == [r EXCEPT !.A[xa0] = a, !.B[xb0] = b]
<1>1. /\ xa0 \in R12 /\ xa1 \in R12 /\ xb0 \in R16 /\ xb1 \in R16 /\ xb2 \in R16
      /\ xb3 \in R16 /\ xc \in R16
  BY StepIndices
<1>2. /\ r.A[xa0] \in Word /\ r.A[xa1] \in Word /\ r.B[xb0] \in Word
      /\ r.B[xb1] \in Word /\ r.B[xb2] \in Word /\ r.B[xb3] \in Word
      /\ r.C[xc] \in Word /\ M[xb0] \in Word
  <2> HIDE DEF xa0, xa1, xb0, xb1, xb2, xb3, xc
  <2>1. QED
    BY <1>1 DEF Registers, Block
<1> HIDE DEF xa0, xa1, xb0, xb1, xb2, xb3, xc
<1>3. a \in Word
  <2>1. Rotl(r.A[xa1], 15) \in Word
    BY <1>2, RotlWord
  <2>2. u \in Word
    BY <1>2, <2>1, TimesWord, XorWord
  <2> HIDE DEF u
  <2>3. r.B[xb2] \ r.B[xb3] \in Word
    BY <1>2 DEF Word
  <2>4. QED
    BY <1>2, <2>2, <2>3, TimesWord, XorWord
<1>4. Rotl(r.B[xb0], 1) \in Word /\ b \in Word
  BY <1>2, RotlWord, NotWord
<1>5. b = Xor(Rotl(r.B[xb0], 1), Xor(a, Ones))
  BY <1>3, <1>4, NotXor
<1>6. p \in Registers /\ p.C = r.C
  <2> HIDE DEF a, b
  <2>1. QED
    BY <1>1, <1>3, <1>4 DEF Registers
<1>7. PERM_STEP(r, M, j) = p
  BY DEF PERM_STEP, PERM_ELT, xa0, xa1, xb0, xb1, xb2, xb3, xc
<1>8. PP_STEP(r, M, j) = [r EXCEPT !.A[xa0] = a,
                             !.B[xb0] = Xor(Rotl(r.B[xb0], 1), Xor(a, Ones))]
  BY DEF PP_STEP, PP, xa0, xa1, xb0, xb1, xb2, xb3, xc
<1> HIDE DEF p, a, b
<1>9. QED
  BY <1>5, <1>6, <1>7, <1>8 DEF p

\* The 48 steps of the scalar permutation and of the parallel one.
LEMMA PermutationsAgree ==
  ASSUME NEW r \in Registers, NEW M \in Block
  PROVE  /\ PPs(r, M) = PERM_STEPS(r, M)
         /\ PERM_STEPS(r, M) \in Registers
         /\ PERM_STEPS(r, M).C = r.C
<1> DEFINE S == {q \in Registers : q.C = r.C}
           g == [w \in (1..48) \X S |-> PERM_STEP(w[2], M, w[1] - 1)]
           Is(P) == P = [j \in 0..48 |-> IF j = 0 THEN r
                                         ELSE PERM_STEP(P[j - 1], M, j - 1)]
           IsP(P) == P = [j \in 0..48 |-> IF j = 0 THEN r
                                          ELSE PP_STEP(P[j - 1], M, j - 1)]
           P0 == CHOOSE P : Is(P)
           P1 == CHOOSE P : IsP(P)
<1>1. \A q \in S, j \in 1..48 : /\ PERM_STEP(q, M, j - 1) \in S
                              /\ PP_STEP(q, M, j - 1) = PERM_STEP(q, M, j - 1)
  <2> SUFFICES ASSUME NEW q \in S, NEW j \in 1..48
               PROVE  /\ PERM_STEP(q, M, j - 1) \in S
                      /\ PP_STEP(q, M, j - 1) = PERM_STEP(q, M, j - 1)
    OBVIOUS
  <2>1. j - 1 \in Nat /\ q \in Registers /\ q.C = r.C
    OBVIOUS
  <2>2. QED
    BY <2>1, StepsAgree
<1>2. \A j \in 1..48, q \in S : g[<<j, q>>] \in S
  BY <1>1
<1>3. r \in S
  OBVIOUS
<1>4. PICK f \in [0..48 -> S] : f[0] = r /\ \A j \in 1..48 : f[j] = g[<<j, f[j - 1]>>]
  <2> HIDE DEF S, g, Is, IsP, P0, P1
  <2>1. 48 \in Nat
    OBVIOUS
  <2>2. \E f \in [0..48 -> S] : Iterates(f, r, g, 48)
    BY <1>2, <1>3, <2>1, RecursionExists
  <2>3. QED
    BY <2>2 DEF Iterates
<1>5. ASSUME NEW j \in 1..48
      PROVE  f[j] = PERM_STEP(f[j - 1], M, j - 1) /\ f[j] = PP_STEP(f[j - 1], M, j - 1)
  <2>1. f[j - 1] \in S
    <3> HIDE DEF S
    <3>1. QED
      OBVIOUS
  <2>2. g[<<j, f[j - 1]>>] = PERM_STEP(f[j - 1], M, j - 1)
    <3>1. <<j, f[j - 1]>> \in (1..48) \X S
      BY <2>1
    <3> HIDE DEF S
    <3>2. QED
      BY <3>1
  <2> HIDE DEF g, S
  <2>3. QED
    BY <1>1, <1>4, <2>1, <2>2
<1>6. Is(f) /\ IsP(f)
  <2> HIDE DEF S, g
  <2>1. ASSUME NEW j \in 0..48
        PROVE  /\ f[j] = IF j = 0 THEN r ELSE PERM_STEP(f[j - 1], M, j - 1)
               /\ f[j] = IF j = 0 THEN r ELSE PP_STEP(f[j - 1], M, j - 1)
    <3>1. CASE j = 0
      BY <3>1, <1>4
    <3>2. CASE j # 0
      BY <3>2, <1>5
    <3>3. QED
      BY <3>1, <3>2
  <2>2. QED
    BY <2>1
<1>7. Is(P0) /\ IsP(P1)
  <2> HIDE DEF Is, IsP
  <2>1. QED
    BY <1>6
<1>8. PERM_STEPS(r, M) = P0[48] /\ PPs(r, M) = P1[48]
  BY DEF PERM_STEPS, PPs
<1> HIDE DEF P0, P1, S, g
<1>9. \A j \in 0..48 : P0[j] \in S /\ P1[j] = P0[j]
  <2> DEFINE T == {j \in 0..48 : P0[j] \in S /\ P1[j] = P0[j]}
  <2>0. /\ P0[0] = r /\ P1[0] = r
        /\ \A j \in 1..48 : /\ P0[j] = PERM_STEP(P0[j - 1], M, j - 1)
                            /\ P1[j] = PP_STEP(P1[j - 1], M, j - 1)
    BY <1>7
  <2> HIDE DEF Is, IsP
  <2>1. 0 \in T
    BY <2>0, <1>3
  <2>2. ASSUME NEW j \in 1..48, j - 1 \in T PROVE j \in T
    <3>1. P0[j - 1] \in S /\ P1[j - 1] = P0[j - 1]
      BY <2>2
    <3>2. QED
      BY <3>1, <2>0, <1>1
  <2> HIDE DEF T
  <2>3. \A j \in 0..48 : j \in T
    BY <2>1, <2>2, BoundedInduction
  <2>4. QED
    BY <2>3 DEF T
<1>10. P0[48] \in S /\ P1[48] = P0[48]
  BY <1>9
<1>11. QED
  BY <1>8, <1>10 DEF S

-----------------------------------------------------------------------------
(* A round of one lane is a message block of the scalar hash.               *)

\* The registers of a scalar context, and that it has them and the counter.
Regs(s) == [A |-> s.A, B |-> s.B, C |-> s.C]
HashState(s) ==
  /\ {"A", "B", "C", "Wlow", "Whigh"} \subseteq DOMAIN s
  /\ Regs(s) \in Registers /\ s.Wlow \in Word /\ s.Whigh \in Word

\* The block added to B, and what both hashes do from there until they swap.
Added(r, M) == [r EXCEPT !.B = [j \in R16 |-> Plus(r.B[j], M[j])]]
Permuted(r, M, Wlow, Whigh) ==
  PERM_STEPS([A |-> [r.A EXCEPT ![0] = Xor(@, Wlow), ![1] = Xor(@, Whigh)],
              B |-> [j \in R16 |-> Rotl(r.B[j], 17)], C |-> r.C], M)
Mixed(r, M, Wlow, Whigh) ==
  LET p == Permuted(r, M, Wlow, Whigh)
  IN  [A |-> [j \in R12 |-> Plus(Plus(Plus(p.A[j], r.C[(j + 11) % 16]),
                               r.C[(j + 15) % 16]), r.C[(j + 3) % 16])],
       B |-> p.B, C |-> r.C]

Counted(Wlow, Whigh) == IF Wlow = Ones THEN Plus(Whigh, One) ELSE Whigh

\* A set of registers and its three arrays.
LEMMA RegsParts ==
  ASSUME NEW r \in Registers
  PROVE  /\ r.A \in [R12 -> Word] /\ r.B \in [R16 -> Word] /\ r.C \in [R16 -> Word]
         /\ r = [A |-> r.A, B |-> r.B, C |-> r.C]
BY DEF Registers

\* Three arrays make a set of registers.
LEMMA RegsMade ==
  ASSUME NEW A \in [R12 -> Word], NEW B \in [R16 -> Word], NEW C \in [R16 -> Word]
  PROVE  [A |-> A, B |-> B, C |-> C] \in Registers
BY DEF Registers

\* A block added to B.
LEMMA AddedTyped ==
  ASSUME NEW r \in Registers, NEW M \in Block
  PROVE  Added(r, M) \in Registers /\ Added(r, M).A = r.A /\ Added(r, M).C = r.C
         /\ Added(r, M).B = [j \in R16 |-> Plus(r.B[j], M[j])]
<1>1. [j \in R16 |-> Plus(r.B[j], M[j])] \in [R16 -> Word]
  BY PlusWord DEF Registers, Block
<1>2. QED
  BY <1>1 DEF Added, Registers

\* The permutation keeps the types and leaves C alone.
LEMMA PermutedTyped ==
  ASSUME NEW r \in Registers, NEW M \in Block, NEW Wlow \in Word, NEW Whigh \in Word
  PROVE  Permuted(r, M, Wlow, Whigh) \in Registers /\ Permuted(r, M, Wlow, Whigh).C = r.C
<1> DEFINE A == [r.A EXCEPT ![0] = Xor(@, Wlow), ![1] = Xor(@, Whigh)]
           B == [j \in R16 |-> Rotl(r.B[j], 17)]
<1>1. A \in [R12 -> Word]
  <2>1. r.A \in [R12 -> Word] /\ 0 \in R12 /\ 1 \in R12
    BY DEF Registers, R12
  <2>2. Xor(r.A[0], Wlow) \in Word /\ Xor(r.A[1], Whigh) \in Word
    BY <2>1, XorWord
  <2>3. QED
    BY <2>1, <2>2
<1>2. B \in [R16 -> Word]
  BY RotlWord DEF Registers
<1>3. [A |-> A, B |-> B, C |-> r.C] \in Registers
  BY <1>1, <1>2, RegsMade, RegsParts
<1>4. QED
  BY <1>3, PermutationsAgree DEF Permuted

\* The permutation and the sums of A keep the types.
LEMMA MixedTyped ==
  ASSUME NEW r \in Registers, NEW M \in Block, NEW Wlow \in Word, NEW Whigh \in Word
  PROVE  Mixed(r, M, Wlow, Whigh) \in Registers
<1> DEFINE p == Permuted(r, M, Wlow, Whigh)
           A == [j \in R12 |-> Plus(Plus(Plus(p.A[j], r.C[(j + 11) % 16]),
                               r.C[(j + 15) % 16]), r.C[(j + 3) % 16])]
<1>1. p \in Registers
  BY PermutedTyped
<1> HIDE DEF p
<1>2. A \in [R12 -> Word]
  <2>1. ASSUME NEW j \in R12
        PROVE  Plus(Plus(Plus(p.A[j], r.C[(j + 11) % 16]),
                               r.C[(j + 15) % 16]), r.C[(j + 3) % 16]) \in Word
    <3>1. (j + 11) % 16 \in R16 /\ (j + 15) % 16 \in R16 /\ (j + 3) % 16 \in R16
      BY DEF R12, R16
    <3>2. /\ p.A[j] \in Word /\ r.C[(j + 11) % 16] \in Word
          /\ r.C[(j + 15) % 16] \in Word /\ r.C[(j + 3) % 16] \in Word
      BY <1>1, <3>1 DEF Registers
    <3>3. QED
      BY <3>2, PlusWord
  <2>2. QED
    BY <2>1
<1> HIDE DEF A
<1>3. [A |-> A, B |-> p.B, C |-> r.C] \in Registers
  BY <1>1, <1>2, RegsMade, RegsParts
<1>4. QED
  BY <1>3 DEF Mixed, A, p

RegsSet(r, x, y, B) == [r EXCEPT !.A[0] = x, !.A[1] = y, !.B = B]

\* The registers a round permutes, written without EXCEPT on records.
LEMMA RegsSetIs ==
  ASSUME NEW r \in Registers, NEW x, NEW y, NEW B
  PROVE  RegsSet(r, x, y, B) =
           [A |-> [r.A EXCEPT ![0] = x, ![1] = y], B |-> B, C |-> r.C]
<1> DEFINE s == RegsSet(r, x, y, B)
<1> USE DEF RegsSet
<1>1. s.B = B /\ s.C = r.C /\ DOMAIN s = {"A", "B", "C"}
  BY DEF Registers
<1>2. s.A = [r.A EXCEPT ![0] = x, ![1] = y]
  BY DEF Registers, R12
<1>3. s = [k \in {"A", "B", "C"} |-> s[k]]
  BY DEF Registers
<1>4. QED
  <2> HIDE DEF s
  <2>1. s = [A |-> s.A, B |-> s.B, C |-> s.C]
    BY <1>1, <1>3
  <2>2. QED
    BY <1>1, <1>2, <2>1 DEF s

\* A round of one lane: add, mix, then swap B and C and take the block off.
LEMMA RoundIs ==
  ASSUME NEW r \in Registers, NEW M \in Block, NEW Wlow \in Word, NEW Whigh \in Word
  PROVE  LET q == Mixed(Added(r, M), M, Wlow, Whigh)
         IN  /\ round(r, M, Wlow, Whigh) =
                  [A |-> q.A, B |-> [j \in R16 |-> Minus(q.C[j], M[j])], C |-> q.B]
             /\ round(r, M, Wlow, Whigh) \in Registers
<1> DEFINE a == Added(r, M)
           i == [r EXCEPT !.A[0] = Xor(@, Wlow), !.A[1] = Xor(@, Whigh),
                          !.B = [j \in R16 |-> Rotl(Plus(@[j], M[j]), 17)]]
           k == [A |-> [a.A EXCEPT ![0] = Xor(@, Wlow), ![1] = Xor(@, Whigh)],
                 B |-> [j \in R16 |-> Rotl(a.B[j], 17)], C |-> a.C]
           p == Permuted(a, M, Wlow, Whigh)
           q == Mixed(a, M, Wlow, Whigh)
<1>1. a \in Registers /\ a.A = r.A /\ a.C = r.C
      /\ a.B = [j \in R16 |-> Plus(r.B[j], M[j])]
  BY AddedTyped
<1> HIDE DEF a
<1>2. i = k
  <2>1. [j \in R16 |-> Rotl(Plus(r.B[j], M[j]), 17)] = [j \in R16 |-> Rotl(a.B[j], 17)]
    BY <1>1
  <2>2. i = [A |-> [r.A EXCEPT ![0] = Xor(@, Wlow), ![1] = Xor(@, Whigh)],
             B |-> [j \in R16 |-> Rotl(Plus(r.B[j], M[j]), 17)], C |-> r.C]
    <3> DEFINE x == Xor(r.A[0], Wlow)
               y == Xor(r.A[1], Whigh)
               B == [j \in R16 |-> Rotl(Plus(r.B[j], M[j]), 17)]
    <3>1. i = RegsSet(r, x, y, B)
      BY DEF RegsSet
    <3>2. [r.A EXCEPT ![0] = Xor(@, Wlow), ![1] = Xor(@, Whigh)] =
            [r.A EXCEPT ![0] = x, ![1] = y]
      OBVIOUS
    <3> HIDE DEF i, k, p, q, x, y, B
    <3>3. i = [A |-> [r.A EXCEPT ![0] = x, ![1] = y], B |-> B, C |-> r.C]
      BY <3>1, RegsSetIs
    <3>4. QED
      BY <3>2, <3>3 DEF B
  <2>3. QED
    BY <1>1, <2>1, <2>2
<1>3. k \in Registers
  <2>1. /\ r.A \in [R12 -> Word] /\ 0 \in R12 /\ 1 \in R12
    BY DEF Registers, R12
  <2>2. Xor(r.A[0], Wlow) \in Word /\ Xor(r.A[1], Whigh) \in Word
    BY <2>1, XorWord
  <2>3. k.A \in [R12 -> Word]
    BY <1>1, <2>1, <2>2
  <2>4. k.B \in [R16 -> Word]
    BY <1>1, RotlWord DEF Registers
  <2>5. k.C \in [R16 -> Word]
    BY <1>1, RegsParts
  <2>6. QED
    BY <2>3, <2>4, <2>5, RegsMade
<1>4. PPs(i, M) = p /\ p \in Registers /\ p.C = r.C
  <2>1. p = PERM_STEPS(k, M)
    BY DEF Permuted
  <2>2. p \in Registers /\ p.C = a.C
    BY <1>1, PermutedTyped
  <2> HIDE DEF p, i, k
  <2>3. QED
    BY <1>1, <1>2, <1>3, <2>1, <2>2, PermutationsAgree
<1>5. round(r, M, Wlow, Whigh) =
        [A |-> [j \in R12 |-> Plus(Plus(Plus(p.A[j], p.C[(j + 11) % 16]),
                                  p.C[(j + 15) % 16]), p.C[(j + 3) % 16])],
         B |-> [j \in R16 |-> Minus(p.C[j], M[j])],
         C |-> p.B]
  <2> DEFINE m == PPs(i, M)
  <2>1. round(r, M, Wlow, Whigh) =
        [A |-> [j \in R12 |-> Plus(Plus(Plus(m.A[j], m.C[(j + 11) % 16]),
                                  m.C[(j + 15) % 16]), m.C[(j + 3) % 16])],
         B |-> [j \in R16 |-> Minus(m.C[j], M[j])],
         C |-> m.B]
    BY DEF round
  <2> HIDE DEF p, i
  <2>2. QED
    BY <2>1, <1>4
<1>6. q = [A |-> [j \in R12 |-> Plus(Plus(Plus(p.A[j], a.C[(j + 11) % 16]),
                               a.C[(j + 15) % 16]), a.C[(j + 3) % 16])],
           B |-> p.B, C |-> a.C]
  BY DEF Mixed
<1>7. q \in Registers
  BY <1>1, MixedTyped
<1> HIDE DEF p, q
<1>8. round(r, M, Wlow, Whigh) =
        [A |-> q.A, B |-> [j \in R16 |-> Minus(q.C[j], M[j])], C |-> q.B]
  BY <1>1, <1>4, <1>5, <1>6
<1>9. [j \in R16 |-> Minus(q.C[j], M[j])] \in [R16 -> Word]
  BY MinusWord
<1>10. round(r, M, Wlow, Whigh) \in Registers
  BY <1>7, <1>8, <1>9, RegsMade, RegsParts
<1>11. QED
  BY <1>8, <1>10 DEF q, a

-----------------------------------------------------------------------------
(* The scalar hash of a block.                                              *)

\* t has the counter and the buffer of s.
Beside(s, t) ==
  /\ DOMAIN t = DOMAIN s
  /\ "buf" \in DOMAIN s => t.buf = s.buf
  /\ "ptr" \in DOMAIN s => t.ptr = s.ptr

\* Two steps that leave counter and buffer alone leave them alone.
LEMMA BesideTwice ==
  ASSUME NEW s, NEW t, NEW u, Beside(s, t), Beside(t, u)
  PROVE  Beside(s, u)
BY DEF Beside

\* The macros, register by register.
LEMMA AddBlock ==
  ASSUME NEW s, HashState(s), NEW M \in Block
  PROVE  LET t == INPUT_BLOCK_ADD(s, M)
         IN  /\ HashState(t) /\ Beside(s, t) /\ Regs(t) = Added(Regs(s), M)
             /\ t.Wlow = s.Wlow /\ t.Whigh = s.Whigh
<1> DEFINE t == INPUT_BLOCK_ADD(s, M)
<1>1. /\ DOMAIN t = DOMAIN s /\ t.A = s.A /\ t.C = s.C
      /\ t.Wlow = s.Wlow /\ t.Whigh = s.Whigh
      /\ t.B = [i \in R16 |-> Plus(s.B[i], M[i])]
  BY DEF INPUT_BLOCK_ADD, HashState
<1>2. Beside(s, t)
  BY DEF Beside, INPUT_BLOCK_ADD
<1> HIDE DEF t
<1>3. /\ Added(Regs(s), M) \in Registers
      /\ Added(Regs(s), M).A = s.A /\ Added(Regs(s), M).C = s.C
      /\ Added(Regs(s), M).B = t.B
  BY <1>1, AddedTyped DEF HashState, Regs
<1>4. Regs(t) = Added(Regs(s), M)
  BY <1>1, <1>3, RegsParts DEF Regs
<1>5. QED
  BY <1>1, <1>2, <1>3, <1>4 DEF HashState, t

\* XOR_W and APPLY_P are the mixing of a round.
LEMMA Permute ==
  ASSUME NEW s, HashState(s), NEW M \in Block
  PROVE  LET t == APPLY_P(XOR_W(s), M)
         IN  /\ HashState(t) /\ Beside(s, t)
             /\ Regs(t) = Mixed(Regs(s), M, s.Wlow, s.Whigh)
             /\ t.Wlow = s.Wlow /\ t.Whigh = s.Whigh
<1> DEFINE x == XOR_W(s)
           t == APPLY_P(x, M)
           k == [A |-> x.A, B |-> [i \in R16 |-> Rotl(x.B[i], 17)], C |-> x.C]
           p == Permuted(Regs(s), M, s.Wlow, s.Whigh)
<1>0. s.A \in [R12 -> Word] /\ s.B \in [R16 -> Word] /\ s.C \in [R16 -> Word]
  <2>1. Regs(s).A = s.A /\ Regs(s).B = s.B /\ Regs(s).C = s.C
    BY DEF Regs
  <2>2. QED
    BY <2>1, RegsParts DEF HashState
<1>1. /\ x.A = [s.A EXCEPT ![0] = Xor(@, s.Wlow), ![1] = Xor(@, s.Whigh)]
      /\ x.B = s.B /\ x.C = s.C /\ DOMAIN x = DOMAIN s
      /\ x.Wlow = s.Wlow /\ x.Whigh = s.Whigh
  BY <1>0 DEF XOR_W, HashState, R12
<1>2. Beside(s, x)
  BY DEF Beside, XOR_W
<1> HIDE DEF x
<1>3. PERM_STEPS(k, M) = p
  BY <1>1 DEF Permuted, Regs
<1> HIDE DEF k
<1>4. /\ DOMAIN t = DOMAIN x /\ t.B = p.B /\ t.C = x.C
      /\ t.Wlow = x.Wlow /\ t.Whigh = x.Whigh
      /\ t.A = [i \in R12 |-> Plus(Plus(Plus(p.A[i],
                           x.C[(i + 11) % 16]), x.C[(i + 15) % 16]),
                           x.C[(i + 3) % 16])]
  <2> DEFINE m == PERM_STEPS(k, M)
  <2>1. t = [x EXCEPT !.A = [i \in R12 |-> Plus(Plus(Plus(m.A[i],
                           x.C[(i + 11) % 16]), x.C[(i + 15) % 16]),
                           x.C[(i + 3) % 16])],
                  !.B = m.B]
    BY DEF APPLY_P, k
  <2>2. m = p
    BY <1>3
  <2> HIDE DEF t, m, p
  <2>3. {"A", "B", "C", "Wlow", "Whigh"} \subseteq DOMAIN x
    BY <1>1 DEF HashState
  <2>4. QED
    BY <2>1, <2>2, <2>3
<1>5. Beside(x, t)
  BY DEF Beside, APPLY_P
<1> HIDE DEF t, p
<1>6. Mixed(Regs(s), M, s.Wlow, s.Whigh) = [A |-> t.A, B |-> t.B, C |-> t.C]
  <2>1. Regs(s).C = x.C
    BY <1>1 DEF Regs
  <2>2. QED
    BY <2>1, <1>4 DEF Mixed, p
<1>7. Mixed(Regs(s), M, s.Wlow, s.Whigh) \in Registers
  BY MixedTyped DEF HashState
<1>8. Regs(t) = Mixed(Regs(s), M, s.Wlow, s.Whigh)
  BY <1>6 DEF Regs
<1>9. HashState(t)
  BY <1>1, <1>4, <1>7, <1>8 DEF HashState
<1>10. Beside(s, t)
  BY <1>2, <1>5, BesideTwice
<1>11. QED
  BY <1>1, <1>4, <1>8, <1>9, <1>10 DEF t, x

\* A message block is a round.
LEMMA MessageBlock ==
  ASSUME NEW s, HashState(s), NEW M \in Block
  PROVE  LET t == message_block(s, M)
         IN  /\ HashState(t) /\ Beside(s, t)
             /\ Regs(t) = round(Regs(s), M, s.Wlow, s.Whigh)
             /\ t.Wlow = Plus(s.Wlow, One) /\ t.Whigh = Counted(s.Wlow, s.Whigh)
<1> DEFINE a == INPUT_BLOCK_ADD(s, M)
           p == APPLY_P(XOR_W(a), M)
           t == message_block(s, M)
           q == Mixed(Added(Regs(s), M), M, s.Wlow, s.Whigh)
<1>1. /\ HashState(a) /\ Beside(s, a) /\ Regs(a) = Added(Regs(s), M)
      /\ a.Wlow = s.Wlow /\ a.Whigh = s.Whigh
  BY AddBlock
<1> HIDE DEF a
<1>2. /\ HashState(p) /\ Beside(a, p) /\ Regs(p) = q
      /\ p.Wlow = s.Wlow /\ p.Whigh = s.Whigh
  BY <1>1, Permute
<1>3. t = INCR_W(SWAP_BC(INPUT_BLOCK_SUB(p, M)))
  BY DEF message_block, a
<1> HIDE DEF p, q, t
<1>4. /\ DOMAIN t = DOMAIN p /\ t.A = p.A /\ t.C = p.B
      /\ t.B = [i \in R16 |-> Minus(p.C[i], M[i])]
      /\ t.Wlow = Plus(p.Wlow, One)
      /\ t.Whigh = Counted(p.Wlow, p.Whigh)
  BY <1>2, <1>3 DEF INCR_W, SWAP_BC, INPUT_BLOCK_SUB, HashState, Counted
<1>5. Beside(p, t)
  BY <1>2, <1>3 DEF INCR_W, SWAP_BC, INPUT_BLOCK_SUB, Beside
<1>6. /\ round(Regs(s), M, s.Wlow, s.Whigh) =
           [A |-> q.A, B |-> [j \in R16 |-> Minus(q.C[j], M[j])], C |-> q.B]
      /\ round(Regs(s), M, s.Wlow, s.Whigh) \in Registers
  BY RoundIs DEF HashState, q
<1>7. Regs(t) = round(Regs(s), M, s.Wlow, s.Whigh)
  BY <1>2, <1>4, <1>6 DEF Regs
<1>8. t.Wlow \in Word /\ t.Whigh \in Word
  BY <1>2, <1>4, PlusWord, Constants DEF HashState, Counted
<1>9. HashState(t)
  BY <1>2, <1>4, <1>6, <1>7, <1>8 DEF HashState
<1>10. Beside(s, t)
  BY <1>1, <1>2, <1>5, BesideTwice
<1>11. QED
  BY <1>2, <1>4, <1>7, <1>9, <1>10 DEF t

\* Four rounds with the counter standing still.
Closing(r, M, Wlow, Whigh) ==
  LET again(x) == round(x, M, Wlow, Whigh)
  IN  again(again(again(again(r))))

\* SWAP_BC, XOR_W and APPLY_P once more are a round without its last swap.
LEMMA SwapStep ==
  ASSUME NEW s, HashState(s), NEW M \in Block, NEW r \in Registers,
         Regs(s) = Mixed(Added(r, M), M, s.Wlow, s.Whigh)
  PROVE  LET t == APPLY_P(XOR_W(SWAP_BC(s)), M)
             r1 == round(r, M, s.Wlow, s.Whigh)
         IN  /\ HashState(t) /\ t.Wlow = s.Wlow /\ t.Whigh = s.Whigh
             /\ r1 \in Registers
             /\ Regs(t) = Mixed(Added(r1, M), M, s.Wlow, s.Whigh)
<1> DEFINE w == SWAP_BC(s)
           t == APPLY_P(XOR_W(w), M)
           r1 == round(r, M, s.Wlow, s.Whigh)
           q == Mixed(Added(r, M), M, s.Wlow, s.Whigh)
<1>1. /\ DOMAIN w = DOMAIN s /\ w.A = s.A /\ w.B = s.C /\ w.C = s.B
      /\ w.Wlow = s.Wlow /\ w.Whigh = s.Whigh
  BY DEF SWAP_BC, HashState
<1> HIDE DEF w
<1>2. s.A \in [R12 -> Word] /\ s.B \in [R16 -> Word] /\ s.C \in [R16 -> Word]
  <2>1. Regs(s).A = s.A /\ Regs(s).B = s.B /\ Regs(s).C = s.C
    BY DEF Regs
  <2>2. QED
    BY <2>1, RegsParts DEF HashState
<1>3. HashState(w)
  BY <1>1, <1>2, RegsMade DEF HashState, Regs
<1>4. /\ r1 = [A |-> s.A, B |-> [j \in R16 |-> Minus(s.C[j], M[j])], C |-> s.B]
      /\ r1 \in Registers
  <2>1. /\ r1 = [A |-> q.A, B |-> [j \in R16 |-> Minus(q.C[j], M[j])], C |-> q.B]
        /\ r1 \in Registers
    BY RoundIs DEF HashState
  <2>2. q.A = s.A /\ q.B = s.B /\ q.C = s.C
    <3>1. q = Regs(s)
      OBVIOUS
    <3> HIDE DEF q
    <3>2. QED
      BY <3>1 DEF Regs
  <2> HIDE DEF q, r1
  <2>3. QED
    BY <2>1, <2>2
<1> HIDE DEF r1
<1>5. Added(r1, M) = Regs(w)
  <2>1. [j \in R16 |-> Plus(r1.B[j], M[j])] = s.C
    <3>1. \A j \in R16 : Plus(Minus(s.C[j], M[j]), M[j]) = s.C[j]
      BY <1>2, PlusOfMinus DEF Block
    <3>2. QED
      BY <3>1, <1>2, <1>4
  <2>2. /\ Added(r1, M) \in Registers /\ Added(r1, M).A = s.A
        /\ Added(r1, M).C = s.B /\ Added(r1, M).B = s.C
    BY <1>4, <2>1, AddedTyped
  <2>3. QED
    BY <1>1, <2>2, RegsParts DEF Regs
<1>6. /\ HashState(t) /\ Regs(t) = Mixed(Regs(w), M, s.Wlow, s.Whigh)
      /\ t.Wlow = s.Wlow /\ t.Whigh = s.Whigh
  BY <1>1, <1>3, Permute
<1> HIDE DEF t
<1>7. QED
  BY <1>4, <1>5, <1>6 DEF t, w, r1

\* What the scalar hash keeps in B after the last block, the closing rounds
\* leave in C.
LEMMA FinalBlock ==
  ASSUME NEW s, HashState(s), NEW M \in Block
  PROVE  final_block(s, M).B = Closing(Regs(s), M, s.Wlow, s.Whigh).C
<1> DEFINE again(x) == APPLY_P(XOR_W(SWAP_BC(x)), M)
           r0 == Regs(s)
           r1 == round(r0, M, s.Wlow, s.Whigh)
           r2 == round(r1, M, s.Wlow, s.Whigh)
           r3 == round(r2, M, s.Wlow, s.Whigh)
           s1 == APPLY_P(XOR_W(INPUT_BLOCK_ADD(s, M)), M)
           s2 == again(s1)
           s3 == again(s2)
           s4 == again(s3)
<1>1. /\ HashState(s1) /\ s1.Wlow = s.Wlow /\ s1.Whigh = s.Whigh
      /\ Regs(s1) = Mixed(Added(r0, M), M, s.Wlow, s.Whigh) /\ r0 \in Registers
  <2> DEFINE a == INPUT_BLOCK_ADD(s, M)
  <2>1. /\ HashState(a) /\ Regs(a) = Added(Regs(s), M)
        /\ a.Wlow = s.Wlow /\ a.Whigh = s.Whigh
    BY AddBlock
  <2> HIDE DEF a
  <2>2. LET t == APPLY_P(XOR_W(a), M)
        IN  /\ HashState(t)
             /\ Regs(t) = Mixed(Regs(a), M, a.Wlow, a.Whigh)
             /\ t.Wlow = a.Wlow /\ t.Whigh = a.Whigh
    BY <2>1, Permute
  <2>3. QED
    BY <2>1, <2>2 DEF a, HashState
<1> HIDE DEF r0, s1
<1>2. /\ HashState(s2) /\ s2.Wlow = s.Wlow /\ s2.Whigh = s.Whigh
      /\ Regs(s2) = Mixed(Added(r1, M), M, s.Wlow, s.Whigh) /\ r1 \in Registers
  BY <1>1, SwapStep
<1> HIDE DEF r1, s2
<1>3. /\ HashState(s3) /\ s3.Wlow = s.Wlow /\ s3.Whigh = s.Whigh
      /\ Regs(s3) = Mixed(Added(r2, M), M, s.Wlow, s.Whigh) /\ r2 \in Registers
  BY <1>2, SwapStep
<1> HIDE DEF r2, s3
<1>4. /\ HashState(s4)
      /\ Regs(s4) = Mixed(Added(r3, M), M, s.Wlow, s.Whigh) /\ r3 \in Registers
  BY <1>3, SwapStep
<1> HIDE DEF r3
<1>5. round(r3, M, s.Wlow, s.Whigh).C = Mixed(Added(r3, M), M, s.Wlow, s.Whigh).B
  <2> DEFINE q == Mixed(Added(r3, M), M, s.Wlow, s.Whigh)
  <2>1. round(r3, M, s.Wlow, s.Whigh) =
          [A |-> q.A, B |-> [j \in R16 |-> Minus(q.C[j], M[j])], C |-> q.B]
    BY <1>4, RoundIs DEF HashState
  <2> HIDE DEF q
  <2>2. QED
    BY <2>1 DEF q
<1>6. s4.B = round(r3, M, s.Wlow, s.Whigh).C
  <2>1. s4.B = Regs(s4).B
    BY DEF Regs
  <2> HIDE DEF s4
  <2>2. QED
    BY <2>1, <1>4, <1>5
<1>7. final_block(s, M) = s4
  BY DEF final_block, s1, s2, s3
<1>8. Closing(Regs(s), M, s.Wlow, s.Whigh) = round(r3, M, s.Wlow, s.Whigh)
  BY DEF Closing, r0, r1, r2, r3
<1>9. QED
  BY <1>6, <1>7, <1>8

\* Closing keeps the types.
LEMMA ClosingTyped ==
  ASSUME NEW r \in Registers, NEW M \in Block, NEW Wlow \in Word, NEW Whigh \in Word
  PROVE  Closing(r, M, Wlow, Whigh) \in Registers
<1> DEFINE r1 == round(r, M, Wlow, Whigh)
           r2 == round(r1, M, Wlow, Whigh)
           r3 == round(r2, M, Wlow, Whigh)
           r4 == round(r3, M, Wlow, Whigh)
<1>1. r1 \in Registers
  BY RoundIs
<1> HIDE DEF r1
<1>2. r2 \in Registers
  BY <1>1, RoundIs
<1> HIDE DEF r2
<1>3. r3 \in Registers
  BY <1>2, RoundIs
<1> HIDE DEF r3
<1>4. r4 \in Registers
  BY <1>3, RoundIs
<1>5. Closing(r, M, Wlow, Whigh) = r4
  BY DEF Closing, r1, r2, r3
<1> HIDE DEF r4
<1>6. QED
  BY <1>4, <1>5

\* s and h hold the same registers and the same counter.
SameState(s, h) == Regs(s) = Regs(h) /\ s.Wlow = h.Wlow /\ s.Whigh = h.Whigh

\* States that agree still do after the same block.
LEMMA SameBlock ==
  ASSUME NEW s, HashState(s), NEW h, HashState(h), SameState(s, h), NEW M \in Block
  PROVE  SameState(message_block(s, M), message_block(h, M))
<1> DEFINE t == message_block(s, M)
           u == message_block(h, M)
<1>1. /\ Regs(t) = round(Regs(s), M, s.Wlow, s.Whigh)
      /\ t.Wlow = Plus(s.Wlow, One) /\ t.Whigh = Counted(s.Wlow, s.Whigh)
  BY MessageBlock
<1>2. /\ Regs(u) = round(Regs(h), M, h.Wlow, h.Whigh)
      /\ u.Wlow = Plus(h.Wlow, One) /\ u.Whigh = Counted(h.Wlow, h.Whigh)
  BY MessageBlock
<1> HIDE DEF t, u
<1>3. QED
  BY <1>1, <1>2 DEF SameState, t, u

\* States that agree close alike.
LEMMA SameEnd ==
  ASSUME NEW s, HashState(s), NEW h, HashState(h), SameState(s, h), NEW M \in Block
  PROVE  final_block(s, M).B = final_block(h, M).B
<1>1. /\ final_block(s, M).B = Closing(Regs(s), M, s.Wlow, s.Whigh).C
      /\ final_block(h, M).B = Closing(Regs(h), M, h.Wlow, h.Whigh).C
  BY FinalBlock
<1>2. QED
  BY <1>1 DEF SameState

-----------------------------------------------------------------------------
(* The lanes of a vector context.                                           *)

Widths == {4, 8, 16}

VectorState(V, sc) ==
  /\ {"state", "Wlow", "Whigh"} \subseteq DOMAIN sc
  /\ sc.Wlow \in Word /\ sc.Whigh \in Word
  /\ \A l \in Lanes(V) : lane(V, sc, l) \in Registers

\* t has the buffers and the size of sc.
Around(sc, t) ==
  /\ DOMAIN t = DOMAIN sc
  /\ "bufs" \in DOMAIN sc => t.bufs = sc.bufs
  /\ "ptr" \in DOMAIN sc => t.ptr = sc.ptr
  /\ "out_size" \in DOMAIN sc => t.out_size = sc.out_size

\* Two steps that leave buffers and size alone leave them alone.
LEMMA AroundTwice ==
  ASSUME NEW s, NEW t, NEW u, Around(s, t), Around(t, u)
  PROVE  Around(s, u)
BY DEF Around

\* Where register j of lane l lies in state, and what is found there.
LEMMA Layout ==
  ASSUME NEW V \in Widths, NEW l \in Lanes(V), NEW j \in 0..43
  PROVE  /\ V * j + l \in 0..(44 * V - 1)
         /\ (V * j + l) % V = l /\ (V * j + l) \div V = j
<1>1. CASE V = 4
  BY <1>1 DEF Lanes
<1>2. CASE V = 8
  BY <1>2 DEF Lanes
<1>3. CASE V = 16
  BY <1>3 DEF Lanes
<1>4. QED
  BY <1>1, <1>2, <1>3 DEF Widths

\* What is stored for a lane is found in it.
LEMMA LaneOfStored ==
  ASSUME NEW V \in Widths, NEW rs \in [Lanes(V) -> Registers],
         NEW t, t.state = stored(V)[rs], NEW l \in Lanes(V)
  PROVE  lane(V, t, l) = rs[l]
<1> DEFINE st == [k \in 0..(44 * V - 1) |->
                    LET m == k % V
                        j == k \div V
                    IN  IF j < 12 THEN rs[m].A[j]
                        ELSE IF j < 28 THEN rs[m].B[j - 12] ELSE rs[m].C[j - 28]]
<1>1. t.state = st
  BY DEF stored
<1>2. \A j \in 0..43 : st[V * j + l] = IF j < 12 THEN rs[l].A[j]
                         ELSE IF j < 28 THEN rs[l].B[j - 12] ELSE rs[l].C[j - 28]
  <2> SUFFICES ASSUME NEW j \in 0..43
               PROVE  st[V * j + l] = IF j < 12 THEN rs[l].A[j]
                         ELSE IF j < 28 THEN rs[l].B[j - 12] ELSE rs[l].C[j - 28]
    OBVIOUS
  <2> DEFINE k == V * j + l
  <2>1. k \in 0..(44 * V - 1) /\ k % V = l /\ k \div V = j
    BY Layout
  <2> HIDE DEF k
  <2>2. st[k] = IF j < 12 THEN rs[l].A[j]
                         ELSE IF j < 28 THEN rs[l].B[j - 12] ELSE rs[l].C[j - 28]
    BY <2>1
  <2>3. QED
    BY <2>2 DEF k
<1> HIDE DEF st
<1>3. rs[l] \in Registers
  OBVIOUS
<1>4. lane(V, t, l).A = rs[l].A
  <2>1. \A j \in R12 : j \in 0..43 /\ j < 12
    BY DEF R12
  <2>2. \A j \in R12 : t.state[V * j + l] = rs[l].A[j]
    BY <2>1, <1>1, <1>2
  <2>3. QED
    BY <1>3, <2>2, RegsParts DEF lane
<1>5. lane(V, t, l).B = rs[l].B
  <2>1. \A j \in R16 : j + 12 \in 0..43 /\ ~(j + 12 < 12) /\ j + 12 < 28 /\ (j + 12) - 12 = j
    BY DEF R16
  <2>2. \A j \in R16 : t.state[V * (j + 12) + l] = rs[l].B[j]
    <3> SUFFICES ASSUME NEW j \in R16 PROVE t.state[V * (j + 12) + l] = rs[l].B[j]
      OBVIOUS
    <3> DEFINE i == j + 12
    <3>1. i \in 0..43 /\ ~(i < 12) /\ i < 28 /\ i - 12 = j
      BY <2>1
    <3> HIDE DEF i
    <3>2. t.state[V * i + l] = rs[l].B[j]
      BY <3>1, <1>1, <1>2
    <3>3. QED
      BY <3>2 DEF i
  <2>3. QED
    BY <1>3, <2>2, RegsParts DEF lane
<1>6. lane(V, t, l).C = rs[l].C
  <2>1. \A j \in R16 : j + 28 \in 0..43 /\ ~(j + 28 < 12) /\ ~(j + 28 < 28)
                       /\ (j + 28) - 28 = j
    BY DEF R16
  <2>2. \A j \in R16 : t.state[V * (j + 28) + l] = rs[l].C[j]
    <3> SUFFICES ASSUME NEW j \in R16 PROVE t.state[V * (j + 28) + l] = rs[l].C[j]
      OBVIOUS
    <3> DEFINE i == j + 28
    <3>1. i \in 0..43 /\ ~(i < 12) /\ ~(i < 28) /\ i - 28 = j
      BY <2>1
    <3> HIDE DEF i
    <3>2. t.state[V * i + l] = rs[l].C[j]
      BY <3>1, <1>1, <1>2
    <3>3. QED
      BY <3>2 DEF i
  <2>3. QED
    BY <1>3, <2>2, RegsParts DEF lane
<1>7. lane(V, t, l) = [A |-> lane(V, t, l).A, B |-> lane(V, t, l).B,
                       C |-> lane(V, t, l).C]
  BY DEF lane
<1>8. QED
  BY <1>3, <1>4, <1>5, <1>6, <1>7, RegsParts

\* A round of the vectors is a round of every lane.
LEMMA RoundsLanes ==
  ASSUME NEW V \in Widths, NEW sc, VectorState(V, sc), NEW M \in [Lanes(V) -> Block]
  PROVE  LET t == rounds(V, sc, M)
         IN  /\ VectorState(V, t) /\ Around(sc, t)
             /\ \A l \in Lanes(V) :
                  lane(V, t, l) = round(lane(V, sc, l), M[l], sc.Wlow, sc.Whigh)
             /\ t.Wlow = Plus(sc.Wlow, One) /\ t.Whigh = Counted(sc.Wlow, sc.Whigh)
<1> DEFINE rs == [l \in Lanes(V) |-> round(lane(V, sc, l), M[l], sc.Wlow, sc.Whigh)]
           x == [sc EXCEPT !.state = stored(V)[rs]]
           t == rounds(V, sc, M)
<1>1. rs \in [Lanes(V) -> Registers]
  <2>1. ASSUME NEW l \in Lanes(V)
        PROVE  round(lane(V, sc, l), M[l], sc.Wlow, sc.Whigh) \in Registers
    <3>1. lane(V, sc, l) \in Registers /\ M[l] \in Block
      BY DEF VectorState
    <3>2. QED
      BY <3>1, RoundIs DEF VectorState
  <2>2. QED
    BY <2>1
<1>2. \A l \in Lanes(V) : rs[l] = round(lane(V, sc, l), M[l], sc.Wlow, sc.Whigh)
  OBVIOUS
<1>3. t = counted(x)
  BY DEF rounds
<1> HIDE DEF rs, t
<1>4. /\ DOMAIN x = DOMAIN sc /\ x.state = stored(V)[rs] /\ Around(sc, x)
      /\ x.Wlow = sc.Wlow /\ x.Whigh = sc.Whigh
  BY DEF VectorState, Around
<1> HIDE DEF x
<1>5. /\ DOMAIN t = DOMAIN sc /\ t.state = stored(V)[rs] /\ Around(x, t)
      /\ t.Wlow = Plus(sc.Wlow, One) /\ t.Whigh = Counted(sc.Wlow, sc.Whigh)
  BY <1>3, <1>4 DEF VectorState, Around, counted, Counted
<1>6. \A l \in Lanes(V) : lane(V, t, l) = rs[l]
  BY <1>1, <1>5, LaneOfStored
<1>7. t.Wlow \in Word /\ t.Whigh \in Word
  BY <1>5, PlusWord, Constants DEF VectorState, Counted
<1>8. VectorState(V, t)
  BY <1>1, <1>5, <1>6, <1>7 DEF VectorState
<1>9. Around(sc, t)
  BY <1>4, <1>5, AroundTwice
<1>10. QED
  BY <1>2, <1>5, <1>6, <1>8, <1>9 DEF t

\* Setting the counter back undoes counting.
LEMMA CountBack ==
  ASSUME NEW w \in Word, NEW h \in Word
  PROVE  /\ Minus(Plus(w, One), One) = w
         /\ (IF Plus(w, One) = Zero THEN Minus(Counted(w, h), One) ELSE Counted(w, h)) = h
<1>1. /\ Minus(Plus(w, One), One) = w /\ Minus(Plus(h, One), One) = h
      /\ (Plus(w, One) = Zero <=> w = Ones)
  BY Constants, MinusOfPlus, Wraps
<1>2. QED
  BY <1>1 DEF Counted

\* A closing round leaves the counter as it was.
LEMMA StandingRound ==
  ASSUME NEW V \in Widths, NEW sc, VectorState(V, sc), NEW M \in [Lanes(V) -> Block]
  PROVE  LET t == uncounted(rounds(V, sc, M))
         IN  /\ VectorState(V, t) /\ Around(sc, t)
             /\ \A l \in Lanes(V) :
                  lane(V, t, l) = round(lane(V, sc, l), M[l], sc.Wlow, sc.Whigh)
             /\ t.Wlow = sc.Wlow /\ t.Whigh = sc.Whigh
<1> DEFINE x == rounds(V, sc, M)
           t == uncounted(x)
<1>1. /\ VectorState(V, x) /\ Around(sc, x)
      /\ \A l \in Lanes(V) :
           lane(V, x, l) = round(lane(V, sc, l), M[l], sc.Wlow, sc.Whigh)
      /\ x.Wlow = Plus(sc.Wlow, One) /\ x.Whigh = Counted(sc.Wlow, sc.Whigh)
  BY RoundsLanes
<1> HIDE DEF x
<1>2. /\ DOMAIN t = DOMAIN x /\ t.state = x.state /\ Around(x, t)
      /\ t.Wlow = Minus(x.Wlow, One)
      /\ t.Whigh = IF x.Wlow = Zero THEN Minus(x.Whigh, One) ELSE x.Whigh
  BY <1>1 DEF uncounted, VectorState, Around
<1> HIDE DEF t
<1>3. t.Wlow = sc.Wlow /\ t.Whigh = sc.Whigh
  BY <1>1, <1>2, CountBack DEF VectorState
<1>4. \A l \in Lanes(V) : lane(V, t, l) = lane(V, x, l)
  BY <1>2 DEF lane
<1>5. VectorState(V, t)
  BY <1>1, <1>2, <1>3, <1>4 DEF VectorState
<1>6. Around(sc, t)
  BY <1>1, <1>2, AroundTwice
<1>7. QED
  BY <1>1, <1>3, <1>4, <1>5, <1>6 DEF t, x

\* The four closing rounds of the vectors are those of every lane.
LEMMA ClosingLanes ==
  ASSUME NEW V \in Widths, NEW sc, VectorState(V, sc), NEW M \in [Lanes(V) -> Block]
  PROVE  LET again(s) == uncounted(rounds(V, s, M))
             t == again(again(again(again(sc))))
         IN  /\ VectorState(V, t) /\ Around(sc, t)
             /\ \A l \in Lanes(V) :
                  lane(V, t, l) = Closing(lane(V, sc, l), M[l], sc.Wlow, sc.Whigh)
             /\ t.Wlow = sc.Wlow /\ t.Whigh = sc.Whigh
<1> DEFINE again(s) == uncounted(rounds(V, s, M))
           After(s, t) ==
             /\ VectorState(V, t) /\ Around(s, t)
             /\ \A l \in Lanes(V) :
                  lane(V, t, l) = round(lane(V, s, l), M[l], s.Wlow, s.Whigh)
             /\ t.Wlow = s.Wlow /\ t.Whigh = s.Whigh
           t1 == again(sc)
           t2 == again(t1)
           t3 == again(t2)
           t4 == again(t3)
<1>1. ASSUME NEW s, VectorState(V, s) PROVE After(s, again(s))
  BY <1>1, StandingRound
<1> HIDE DEF again
<1>2. After(sc, t1) /\ After(t1, t2) /\ After(t2, t3) /\ After(t3, t4)
  <2>1. After(sc, t1)
    BY <1>1
  <2> HIDE DEF t1
  <2>2. After(t1, t2)
    BY <1>1, <2>1
  <2> HIDE DEF t2
  <2>3. After(t2, t3)
    BY <1>1, <2>2
  <2> HIDE DEF t3
  <2>4. After(t3, t4)
    BY <1>1, <2>3
  <2>5. QED
    BY <2>1, <2>2, <2>3, <2>4
<1>3. t4 = again(again(again(again(sc))))
  OBVIOUS
<1> HIDE DEF t1, t2, t3, t4
<1>4. Around(sc, t4)
  BY <1>2, AroundTwice
<1>5. \A l \in Lanes(V) : lane(V, t4, l) = Closing(lane(V, sc, l), M[l], sc.Wlow, sc.Whigh)
  BY <1>2 DEF Closing
<1>6. VectorState(V, t4) /\ t4.Wlow = sc.Wlow /\ t4.Whigh = sc.Whigh
  BY <1>2
<1>7. QED
  BY <1>3, <1>4, <1>5, <1>6 DEF again

-----------------------------------------------------------------------------
(* Lanes in step with scalar hashes.                                        *)

\* Lane l holds the registers of the scalar state h, and the counter is h's.
InStep(V, sc, l, h) ==
  lane(V, sc, l) = Regs(h) /\ sc.Wlow = h.Wlow /\ sc.Whigh = h.Whigh

\* A lane in step with a scalar state stays in step when both take a block.
LEMMA RoundInStep ==
  ASSUME NEW V \in Widths, NEW sc, VectorState(V, sc), NEW M \in [Lanes(V) -> Block],
         NEW l \in Lanes(V), NEW h, HashState(h), InStep(V, sc, l, h)
  PROVE  InStep(V, rounds(V, sc, M), l, message_block(h, M[l]))
<1> DEFINE t == rounds(V, sc, M)
           b == message_block(h, M[l])
<1>1. /\ lane(V, t, l) = round(lane(V, sc, l), M[l], sc.Wlow, sc.Whigh)
      /\ t.Wlow = Plus(sc.Wlow, One) /\ t.Whigh = Counted(sc.Wlow, sc.Whigh)
  BY RoundsLanes
<1>2. M[l] \in Block
  OBVIOUS
<1>3. /\ Regs(b) = round(Regs(h), M[l], h.Wlow, h.Whigh)
      /\ b.Wlow = Plus(h.Wlow, One) /\ b.Whigh = Counted(h.Wlow, h.Whigh)
  BY <1>2, MessageBlock
<1> HIDE DEF t, b
<1>4. QED
  BY <1>1, <1>3 DEF InStep, t, b

\* A lane in step with a scalar state closes like it: its C is the B of the
\* scalar one, which swaps once less.
LEMMA ClosedInStep ==
  ASSUME NEW V \in Widths, NEW sc, VectorState(V, sc), NEW M \in [Lanes(V) -> Block],
         NEW l \in Lanes(V), NEW h, HashState(h), InStep(V, sc, l, h)
  PROVE  LET again(s) == uncounted(rounds(V, s, M))
         IN  lane(V, again(again(again(again(sc)))), l).C = final_block(h, M[l]).B
<1> DEFINE again(s) == uncounted(rounds(V, s, M))
           t == again(again(again(again(sc))))
<1>1. lane(V, t, l) = Closing(lane(V, sc, l), M[l], sc.Wlow, sc.Whigh)
  BY ClosingLanes
<1>2. M[l] \in Block
  OBVIOUS
<1>3. final_block(h, M[l]).B = Closing(Regs(h), M[l], h.Wlow, h.Whigh).C
  BY <1>2, FinalBlock
<1> HIDE DEF t
<1>4. lane(V, t, l).C = final_block(h, M[l]).B
  BY <1>1, <1>3 DEF InStep
<1>5. QED
  BY <1>4 DEF t

\* Registers C[0..15] of a lane, in the state.
LEMMA StateOfLane ==
  ASSUME NEW V \in Widths, NEW sc, NEW l, NEW j \in R16
  PROVE  sc.state[V * (j + 28) + l] = lane(V, sc, l).C[j]
BY DEF lane

-----------------------------------------------------------------------------
(* The context the tables describe, and the routines that start from it.    *)

\* The tables are a state.
LEMMA StartState ==
  ASSUME TablesTyped
  PROVE  HashState(fast_start)
<1>1. /\ fast_start.A = A_init_256 /\ fast_start.B = B_init_256
      /\ fast_start.C = C_init_256
      /\ fast_start.Wlow = One /\ fast_start.Whigh = Zero
      /\ {"A", "B", "C", "Wlow", "Whigh"} \subseteq DOMAIN fast_start
  BY DEF fast_start
<1>2. QED
  BY <1>1, Constants, RegsMade DEF TablesTyped, HashState, Regs

\* A context, with buffers or without, whose lanes hold the tables.
FromTables(V, sc) ==
  /\ VectorState(V, sc)
  /\ \A l \in Lanes(V) : InStep(V, sc, l, fast_start)

\* The lanes of the vector blocks of two halves.
LEMMA HalfIndex ==
  ASSUME NEW V \in Widths, NEW l \in Lanes(V), NEW i \in R16
  PROVE  /\ V * i + l \in 0..(16 * V - 1)
         /\ (V * i + l) % V = l /\ (V * i + l) \div V = i
         /\ (V * i + l < 8 * V) <=> (i < 8)
         /\ i >= 8 => ((V * i + l) - 8 * V) \div V = i - 8
<1>1. CASE V = 4
  BY <1>1 DEF Lanes, R16
<1>2. CASE V = 8
  BY <1>2 DEF Lanes, R16
<1>3. CASE V = 16
  BY <1>3 DEF Lanes, R16
<1>4. QED
  BY <1>1, <1>2, <1>3 DEF Widths

Scoop == [R16 -> Word]

\* The two blocks sph_shabal_deadline_fast makes.
FirstBlock(scoop, gensig) ==
  [k \in R16 |-> IF k < 8 THEN gensig[k] ELSE scoop[k - 8]]
SecondBlock(scoop) ==
  [k \in R16 |-> IF k < 8 THEN scoop[k + 8] ELSE IF k = 8 THEN {7} ELSE {}]

\* The lanes of the two vector blocks of a group are the two blocks of a scoop.
LEMMA GroupBlocks ==
  ASSUME NEW V \in Widths, NEW l \in Lanes(V), NEW scoops, NEW i \in Nat,
         NEW gensig
  PROVE  /\ lanes_of(V, u1(V, scoops, i, gensig))[l] = FirstBlock(scoops[i + l], gensig)
         /\ lanes_of(V, u2(V, scoops, i))[l] = SecondBlock(scoops[i + l])
<1>1. ASSUME NEW k \in R16
      PROVE  u1(V, scoops, i, gensig)[V * k + l] =
               IF k < 8 THEN gensig[k] ELSE scoops[i + l][k - 8]
  <2> DEFINE n == V * k + l
  <2>1. /\ n \in 0..(16 * V - 1) /\ n % V = l /\ n \div V = k
        /\ (n < 8 * V) <=> (k < 8)
        /\ k >= 8 => (n - 8 * V) \div V = k - 8
    BY HalfIndex
  <2>2. k < 8 \/ k >= 8
    BY DEF R16
  <2> HIDE DEF n
  <2>3. u1(V, scoops, i, gensig)[n] =
               IF k < 8 THEN gensig[k] ELSE scoops[i + l][k - 8]
    BY <2>1, <2>2 DEF u1
  <2>4. QED
    BY <2>3 DEF n
<1>2. ASSUME NEW k \in R16
      PROVE  u2(V, scoops, i)[V * k + l] =
               IF k < 8 THEN scoops[i + l][k + 8] ELSE IF k = 8 THEN {7} ELSE {}
  <2> DEFINE n == V * k + l
  <2>1. /\ n \in 0..(16 * V - 1) /\ n % V = l /\ n \div V = k
        /\ (n < 8 * V) <=> (k < 8)
        /\ k >= 8 => (n - 8 * V) \div V = k - 8
    BY HalfIndex
  <2>2. k < 8 \/ k >= 8
    BY DEF R16
  <2> HIDE DEF n
  <2>3. u2(V, scoops, i)[n] =
               IF k < 8 THEN scoops[i + l][8 + k] ELSE term[k - 8]
    BY <2>1, <2>2 DEF u2
  <2>4. k >= 8 => term[k - 8] = IF k = 8 THEN {7} ELSE {}
    BY DEF term, R16
  <2>5. 8 + k = k + 8
    BY DEF R16
  <2>6. QED
    BY <2>2, <2>3, <2>4, <2>5 DEF n
<1>3. QED
  BY <1>1, <1>2 DEF lanes_of, FirstBlock, SecondBlock

\* The group of a search, started from the tables: the deadline of each of its
\* scoops, as the scalar routine computes it, and the context put back.
LEMMA GroupDeadlines ==
  ASSUME TablesTyped, NEW V \in Widths, NEW sc, FromTables(V, sc),
         sc.Wlow = One, sc.Whigh = Zero, sc = [x \in DOMAIN sc |-> sc[x]],
         NEW i \in Nat, NEW gensig \in [0..7 -> Word],
         NEW scoops, \A l \in Lanes(V) : scoops[i + l] \in Scoop
  PROVE  LET r == deadline_fast(V, sc, u1(V, scoops, i, gensig), u2(V, scoops, i))
         IN  /\ r.dst = [l \in Lanes(V) |->
                           sph_shabal_deadline_fast(scoops[i + l], gensig)]
             /\ r.sc = sc
<1> DEFINE m == lanes_of(V, u1(V, scoops, i, gensig))
           f == lanes_of(V, u2(V, scoops, i))
           s == rounds(V, sc, m)
           again(x) == uncounted(rounds(V, x, f))
           t == again(again(again(again(s))))
           r == deadline_fast(V, sc, u1(V, scoops, i, gensig), u2(V, scoops, i))
<1>1. ASSUME NEW l \in Lanes(V)
      PROVE  /\ m[l] = FirstBlock(scoops[i + l], gensig)
             /\ f[l] = SecondBlock(scoops[i + l])
             /\ m[l] \in Block /\ f[l] \in Block
  <2>1. m[l] = FirstBlock(scoops[i + l], gensig) /\ f[l] = SecondBlock(scoops[i + l])
    <3> HIDE DEF s, again, t, r
    <3>1. QED
      BY GroupBlocks
  <2>2. scoops[i + l] \in [R16 -> Word]
    BY DEF Scoop
  <2>3. {7} \in Word /\ {} \in Word
    BY DEF Word, Bits
  <2>4. \A k \in R16 : /\ k < 8 => k \in 0..7 /\ k + 8 \in R16
                       /\ ~(k < 8) => k - 8 \in R16
    BY DEF R16
  <2> HIDE DEF m, f
  <2>5. m[l] \in Block
    BY <2>1, <2>2, <2>4 DEF Block, FirstBlock
  <2>6. f[l] \in Block
    BY <2>1, <2>2, <2>3, <2>4 DEF Block, SecondBlock
  <2>7. QED
    BY <2>1, <2>5, <2>6
<1>2. m \in [Lanes(V) -> Block] /\ f \in [Lanes(V) -> Block]
  <2>1. /\ m = [l \in Lanes(V) |-> m[l]] /\ f = [l \in Lanes(V) |-> f[l]]
    BY DEF lanes_of
  <2> HIDE DEF m, f
  <2>2. QED
    BY <1>1, <2>1
<1>3. HashState(fast_start)
  BY StartState
<1>4. r = [dst |-> [l \in Lanes(V) |-> Word64(t.state[36 * V + l], t.state[37 * V + l])],
           sc |-> reset(sc, t)]
  BY DEF deadline_fast, final_rounds
<1> HIDE DEF m, f, r
<1>5. VectorState(V, s)
  BY <1>2, RoundsLanes DEF FromTables
<1>6. ASSUME NEW l \in Lanes(V)
      PROVE  Word64(t.state[36 * V + l], t.state[37 * V + l]) =
               sph_shabal_deadline_fast(scoops[i + l], gensig)
  <2> DEFINE h == message_block(fast_start, m[l])
             b == final_block(h, f[l])
  <2>1. InStep(V, s, l, h)
    BY <1>2, <1>3, RoundInStep DEF FromTables
  <2>2. HashState(h)
    BY <1>1, <1>3, MessageBlock
  <2> HIDE DEF h, s
  <2>3. lane(V, t, l).C = b.B
    BY <1>2, <1>5, <2>1, <2>2, ClosedInStep
  <2> HIDE DEF t, b
  <2>4. t.state[V * (8 + 28) + l] = b.B[8] /\ t.state[V * (9 + 28) + l] = b.B[9]
    BY <2>3, StateOfLane DEF R16
  <2>5. V * (8 + 28) = 36 * V /\ V * (9 + 28) = 37 * V
    BY DEF Widths
  <2>6. Word64(t.state[36 * V + l], t.state[37 * V + l]) = Word64(b.B[8], b.B[9])
    BY <2>4, <2>5
  <2>7. sph_shabal_deadline_fast(scoops[i + l], gensig) = Word64(b.B[8], b.B[9])
    BY <1>1 DEF sph_shabal_deadline_fast, FirstBlock, SecondBlock, b, h
  <2>8. QED
    BY <2>6, <2>7
<1>7. reset(sc, t) = sc
  BY DEF reset
<1>8. QED
  <2> HIDE DEF t
  <2>1. r.sc = sc
    BY <1>4, <1>7
  <2>2. r.dst = [l \in Lanes(V) |-> Word64(t.state[36 * V + l], t.state[37 * V + l])]
    BY <1>4
  <2>3. QED
    BY <1>6, <2>1, <2>2 DEF r

\* The lanes of the copy a search or the plotter starts from.
LEMMA FastCopy ==
  ASSUME NEW V \in Widths, NEW sc, FromTables(V, sc)
  PROVE  FromTables(V, fast_copy(sc, 44 * V))
<1> DEFINE x == fast_copy(sc, 44 * V)
<1>1. /\ x.Wlow = sc.Wlow /\ x.Whigh = sc.Whigh
      /\ {"state", "Wlow", "Whigh"} \subseteq DOMAIN x
      /\ x.state = [k \in 0..(44 * V - 1) |-> sc.state[k]]
  BY DEF fast_copy
<1> HIDE DEF x
<1>2. ASSUME NEW l \in Lanes(V) PROVE lane(V, x, l) = lane(V, sc, l)
  <2>1. ASSUME NEW j \in 0..43 PROVE x.state[V * j + l] = sc.state[V * j + l]
    <3> DEFINE k == V * j + l
    <3>1. k \in 0..(44 * V - 1)
      BY Layout
    <3> HIDE DEF k
    <3>2. x.state[k] = sc.state[k]
      BY <1>1, <3>1
    <3>3. QED
      BY <3>2 DEF k
  <2>2. \A j \in R12 : x.state[V * j + l] = sc.state[V * j + l]
    BY <2>1 DEF R12
  <2>3. \A j \in R16 : x.state[V * (j + 12) + l] = sc.state[V * (j + 12) + l]
    <3> SUFFICES ASSUME NEW j \in R16
                 PROVE  x.state[V * (j + 12) + l] = sc.state[V * (j + 12) + l]
      OBVIOUS
    <3>1. j + 12 \in 0..43
      BY DEF R16
    <3>2. QED
      BY <2>1, <3>1
  <2>4. \A j \in R16 : x.state[V * (j + 28) + l] = sc.state[V * (j + 28) + l]
    <3> SUFFICES ASSUME NEW j \in R16
                 PROVE  x.state[V * (j + 28) + l] = sc.state[V * (j + 28) + l]
      OBVIOUS
    <3>1. j + 28 \in 0..43
      BY DEF R16
    <3>2. QED
      BY <2>1, <3>1
  <2>5. QED
    BY <2>2, <2>3, <2>4 DEF lane
<1>3. QED
  BY <1>1, <1>2 DEF FromTables, VectorState, InStep, x

\* A context just initialised.
LEMMA StartedFromTables ==
  ASSUME TablesTyped, NEW V \in Widths, NEW sc, Started(V, sc)
  PROVE  FromTables(V, sc) /\ sc.Wlow = One /\ sc.Whigh = Zero
<1>1. /\ {"state", "Wlow", "Whigh"} \subseteq DOMAIN sc
      /\ sc.Wlow = One /\ sc.Whigh = Zero
  BY DEF Started
<1>2. \A l \in Lanes(V) : lane(V, sc, l) = Regs(fast_start)
  BY DEF Started, Regs, fast_start
<1>3. HashState(fast_start) /\ fast_start.Wlow = One /\ fast_start.Whigh = Zero
  BY StartState DEF fast_start
<1>4. VectorState(V, sc)
  BY <1>1, <1>2, <1>3, Constants DEF VectorState, HashState
<1>5. \A l \in Lanes(V) : InStep(V, sc, l, fast_start)
  BY <1>1, <1>2, <1>3 DEF InStep
<1>6. QED
  BY <1>1, <1>4, <1>5 DEF FromTables

-----------------------------------------------------------------------------
(* The loops over blocks.                                                   *)

\* The states of the parallel hash, round after round.
RoundRun(f, V, sc, blocks, N) ==
  f[0] = sc /\ \A j \in 1..N : f[j] = rounds(V, f[j - 1], blocks[j])

\* all_rounds is a run over its blocks.
LEMMA AllRoundsIs ==
  ASSUME NEW V, NEW sc, NEW blocks, NEW N \in Nat, Len(blocks) = N
  PROVE  \E f : RoundRun(f, V, sc, blocks, N) /\ all_rounds(V, sc, blocks) = f[N]
<1> DEFINE Step(s, j) == rounds(V, s, blocks[j])
           Fits(f, n) == f[0] = sc /\ \A j \in 1..n : f[j] = Step(f[j - 1], j)
           Is(F) == F = [j \in 0..N |-> IF j = 0 THEN sc ELSE Step(F[j - 1], j)]
           T == {n \in Nat : \E f : Fits(f, n)}
           F == CHOOSE F : Is(F)
<1>1. all_rounds(V, sc, blocks) = F[N]
  BY DEF all_rounds
<1> HIDE DEF Step
<1>2. 0 \in T
  <2>1. Fits([k \in 0..0 |-> sc], 0)
    OBVIOUS
  <2> HIDE DEF Fits
  <2>2. QED
    BY <2>1
<1>3. ASSUME NEW n \in Nat, n \in T PROVE n + 1 \in T
  <2>1. PICK f : Fits(f, n)
    BY <1>3
  <2> DEFINE h == [k \in 0..(n + 1) |-> IF k = n + 1 THEN Step(f[n], n + 1) ELSE f[k]]
  <2>2. h[0] = sc
    <3>1. 0 \in 0..(n + 1) /\ 0 # n + 1
      OBVIOUS
    <3>2. h[0] = f[0]
      BY <3>1
    <3>3. QED
      BY <3>2, <2>1
  <2>3. ASSUME NEW j \in 1..(n + 1) PROVE h[j] = Step(h[j - 1], j)
    <3>1. CASE j = n + 1
      <4>1. h[j] = Step(f[n], n + 1) /\ h[j - 1] = f[n]
        BY <3>1
      <4> HIDE DEF h
      <4>2. QED
        BY <3>1, <4>1
    <3>2. CASE j # n + 1
      <4>1. j \in 1..n /\ h[j] = f[j] /\ h[j - 1] = f[j - 1]
        BY <3>2
      <4> HIDE DEF h
      <4>2. QED
        BY <2>1, <4>1
    <3>3. QED
      BY <3>1, <3>2
  <2> HIDE DEF h
  <2>4. Fits(h, n + 1)
    BY <2>2, <2>3
  <2> HIDE DEF Fits
  <2>5. QED
    BY <2>4
<1>4. N \in T
  <2> HIDE DEF T
  <2>1. QED
    BY <1>2, <1>3, SetInduction
<1>5. PICK f : Fits(f, N)
  BY <1>4
<1>6. Is([j \in 0..N |-> f[j]])
  <2> DEFINE g == [j \in 0..N |-> f[j]]
  <2>1. ASSUME NEW j \in 0..N
        PROVE  f[j] = IF j = 0 THEN sc ELSE Step(g[j - 1], j)
    <3>1. CASE j = 0
      BY <3>1, <1>5
    <3>2. CASE j # 0
      <4>1. j \in 1..N /\ g[j - 1] = f[j - 1]
        BY <3>2
      <4> HIDE DEF g
      <4>2. QED
        BY <3>2, <4>1, <1>5
    <3>3. QED
      BY <3>1, <3>2
  <2>2. QED
    BY <2>1
<1>7. Is(F)
  <2> HIDE DEF Is
  <2>1. QED
    BY <1>6
<1> HIDE DEF F
<1>8. F[0] = sc /\ \A j \in 1..N : F[j] = Step(F[j - 1], j)
  BY <1>7
<1>9. QED
  BY <1>1, <1>8 DEF Step, RoundRun

\* The states of the scalar one, block after block.
BlockRun(f, s0, message, N) ==
  f[0] = s0 /\ \A j \in 1..N : f[j] = message_block(f[j - 1], message[j])

\* message_blocks is a run over its blocks.
LEMMA MessageBlocksIs ==
  ASSUME NEW s0, NEW message, NEW N \in Nat, Len(message) = N
  PROVE  \E f : BlockRun(f, s0, message, N) /\ message_blocks(s0, message) = f[N]
<1> DEFINE Step(s, j) == message_block(s, message[j])
           Fits(f, n) == f[0] = s0 /\ \A j \in 1..n : f[j] = Step(f[j - 1], j)
           Is(F) == F = [j \in 0..N |-> IF j = 0 THEN s0 ELSE Step(F[j - 1], j)]
           T == {n \in Nat : \E f : Fits(f, n)}
           F == CHOOSE F : Is(F)
<1>1. message_blocks(s0, message) = F[N]
  BY DEF message_blocks
<1> HIDE DEF Step
<1>2. 0 \in T
  <2>1. Fits([k \in 0..0 |-> s0], 0)
    OBVIOUS
  <2> HIDE DEF Fits
  <2>2. QED
    BY <2>1
<1>3. ASSUME NEW n \in Nat, n \in T PROVE n + 1 \in T
  <2>1. PICK f : Fits(f, n)
    BY <1>3
  <2> DEFINE h == [k \in 0..(n + 1) |-> IF k = n + 1 THEN Step(f[n], n + 1) ELSE f[k]]
  <2>2. h[0] = s0
    <3>1. 0 \in 0..(n + 1) /\ 0 # n + 1
      OBVIOUS
    <3>2. h[0] = f[0]
      BY <3>1
    <3>3. QED
      BY <3>2, <2>1
  <2>3. ASSUME NEW j \in 1..(n + 1) PROVE h[j] = Step(h[j - 1], j)
    <3>1. CASE j = n + 1
      <4>1. h[j] = Step(f[n], n + 1) /\ h[j - 1] = f[n]
        BY <3>1
      <4> HIDE DEF h
      <4>2. QED
        BY <3>1, <4>1
    <3>2. CASE j # n + 1
      <4>1. j \in 1..n /\ h[j] = f[j] /\ h[j - 1] = f[j - 1]
        BY <3>2
      <4> HIDE DEF h
      <4>2. QED
        BY <2>1, <4>1
    <3>3. QED
      BY <3>1, <3>2
  <2> HIDE DEF h
  <2>4. Fits(h, n + 1)
    BY <2>2, <2>3
  <2> HIDE DEF Fits
  <2>5. QED
    BY <2>4
<1>4. N \in T
  <2> HIDE DEF T
  <2>1. QED
    BY <1>2, <1>3, SetInduction
<1>5. PICK f : Fits(f, N)
  BY <1>4
<1>6. Is([j \in 0..N |-> f[j]])
  <2> DEFINE g == [j \in 0..N |-> f[j]]
  <2>1. ASSUME NEW j \in 0..N
        PROVE  f[j] = IF j = 0 THEN s0 ELSE Step(g[j - 1], j)
    <3>1. CASE j = 0
      BY <3>1, <1>5
    <3>2. CASE j # 0
      <4>1. j \in 1..N /\ g[j - 1] = f[j - 1]
        BY <3>2
      <4> HIDE DEF g
      <4>2. QED
        BY <3>2, <4>1, <1>5
    <3>3. QED
      BY <3>1, <3>2
  <2>2. QED
    BY <2>1
<1>7. Is(F)
  <2> HIDE DEF Is
  <2>1. QED
    BY <1>6
<1> HIDE DEF F
<1>8. F[0] = s0 /\ \A j \in 1..N : F[j] = Step(F[j - 1], j)
  BY <1>7
<1>9. QED
  BY <1>1, <1>8 DEF Step, BlockRun

\* The loop that hashes the buffer whenever it is full: the bytes of data used
\* after j times, the buffer of the j-th, and the context after it.
used_after(cc, j) == IF j = 0 THEN 0 ELSE 64 * j - cc.ptr
full_buf(cc, s, data, j) ==
  copied(s.buf, s.ptr, advanced(data, used_after(cc, j - 1)), 64 - s.ptr)
emptied(cc, s, data, j) ==
  [message_block(s, DECODE_BLOCK(full_buf(cc, s, data, j))) EXCEPT
     !.buf = full_buf(cc, s, data, j), !.ptr = 0]
kept_rest(s, cc, data, len, n) ==
  [s EXCEPT !.buf = copied(@, 0, advanced(data, used_after(cc, n)),
                           len - used_after(cc, n)),
            !.ptr = len - used_after(cc, n)]

\* The contexts of that loop.
ConsumeRun(f, cc, data, N) ==
  f[0] = cc /\ \A j \in 1..N : f[j] = emptied(cc, f[j - 1], data, j)

\* consume is a run of its loop, and the rest kept.
LEMMA ConsumeIs ==
  ASSUME NEW cc, NEW data, NEW len, NEW N \in Nat, N = (cc.ptr + len) \div 64
  PROVE  \E f : ConsumeRun(f, cc, data, N) /\ consume(cc, data, len) = kept_rest(f[N], cc, data, len, N)
<1> DEFINE Step(s, j) == emptied(cc, s, data, j)
           Fits(f, n) == f[0] = cc /\ \A j \in 1..n : f[j] = Step(f[j - 1], j)
           Is(F) == F = [j \in 0..N |-> IF j = 0 THEN cc ELSE Step(F[j - 1], j)]
           T == {n \in Nat : \E f : Fits(f, n)}
           F == CHOOSE F : Is(F)
<1>1. consume(cc, data, len) = kept_rest(F[N], cc, data, len, N)
  BY DEF consume, emptied, full_buf, used_after, kept_rest
<1> HIDE DEF Step
<1>2. 0 \in T
  <2>1. Fits([k \in 0..0 |-> cc], 0)
    OBVIOUS
  <2> HIDE DEF Fits
  <2>2. QED
    BY <2>1
<1>3. ASSUME NEW n \in Nat, n \in T PROVE n + 1 \in T
  <2>1. PICK f : Fits(f, n)
    BY <1>3
  <2> DEFINE h == [k \in 0..(n + 1) |-> IF k = n + 1 THEN Step(f[n], n + 1) ELSE f[k]]
  <2>2. h[0] = cc
    <3>1. 0 \in 0..(n + 1) /\ 0 # n + 1
      OBVIOUS
    <3>2. h[0] = f[0]
      BY <3>1
    <3>3. QED
      BY <3>2, <2>1
  <2>3. ASSUME NEW j \in 1..(n + 1) PROVE h[j] = Step(h[j - 1], j)
    <3>1. CASE j = n + 1
      <4>1. h[j] = Step(f[n], n + 1) /\ h[j - 1] = f[n]
        BY <3>1
      <4> HIDE DEF h
      <4>2. QED
        BY <3>1, <4>1
    <3>2. CASE j # n + 1
      <4>1. j \in 1..n /\ h[j] = f[j] /\ h[j - 1] = f[j - 1]
        BY <3>2
      <4> HIDE DEF h
      <4>2. QED
        BY <2>1, <4>1
    <3>3. QED
      BY <3>1, <3>2
  <2> HIDE DEF h
  <2>4. Fits(h, n + 1)
    BY <2>2, <2>3
  <2> HIDE DEF Fits
  <2>5. QED
    BY <2>4
<1>4. N \in T
  <2> HIDE DEF T
  <2>1. QED
    BY <1>2, <1>3, SetInduction
<1>5. PICK f : Fits(f, N)
  BY <1>4
<1>6. Is([j \in 0..N |-> f[j]])
  <2> DEFINE g == [j \in 0..N |-> f[j]]
  <2>1. ASSUME NEW j \in 0..N
        PROVE  f[j] = IF j = 0 THEN cc ELSE Step(g[j - 1], j)
    <3>1. CASE j = 0
      BY <3>1, <1>5
    <3>2. CASE j # 0
      <4>1. j \in 1..N /\ g[j - 1] = f[j - 1]
        BY <3>2
      <4> HIDE DEF g
      <4>2. QED
        BY <3>2, <4>1, <1>5
    <3>3. QED
      BY <3>1, <3>2
  <2>2. QED
    BY <2>1
<1>7. Is(F)
  <2> HIDE DEF Is
  <2>1. QED
    BY <1>6
<1> HIDE DEF F
<1>8. F[0] = cc /\ \A j \in 1..N : F[j] = Step(F[j - 1], j)
  BY <1>7
<1>9. QED
  BY <1>1, <1>8 DEF Step, ConsumeRun
=============================================================================
