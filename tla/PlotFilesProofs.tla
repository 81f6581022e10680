-------------------------- MODULE PlotFilesProofs --------------------------
(***************************************************************************)
(* Proofs about PlotFiles, for every disk, sector size, buffer and scoop:   *)
(* the chunks of a plot lie where they are said to lie, follow each other   *)
(* and leave out less than a sector at each end, the read arithmetic only   *)
(* overflows for a plot smaller than a sector, and the check for overlaps   *)
(* is right where no sum wraps around.                                      *)
(***************************************************************************)
EXTENDS PlotFiles, TLAPS, SequenceTheorems

-----------------------------------------------------------------------------
(* Division.                                                                *)

LEMMA ModRange ==
  ASSUME NEW x \in Int, NEW s \in Nat \ {0}
  PROVE  x % s \in Nat /\ x % s < s
OBVIOUS

LEMMA ModLeq ==
  ASSUME NEW x \in Nat, NEW s \in Nat \ {0}
  PROVE  x % s <= x
OBVIOUS

LEMMA ModSmall ==
  ASSUME NEW x \in Nat, NEW s \in Nat \ {0}, x < s
  PROVE  x % s = x
OBVIOUS

LEMMA ModExact ==
  ASSUME NEW s \in Nat \ {0}, NEW x \in Int, x % s = 0
  PROVE  x \div s \in Int /\ x = s * (x \div s)
OBVIOUS

LEMMA ModMultiple ==
  ASSUME NEW s \in Nat \ {0}, NEW q \in Int
  PROVE  (s * q) % s = 0
OBVIOUS

\* Sums, differences and remainders of multiples of s are multiples of s.
LEMMA ModSum ==
  ASSUME NEW s \in Nat \ {0}, NEW x \in Int, NEW y \in Int, x % s = 0, y % s = 0
  PROVE  (x + y) % s = 0 /\ (x - y) % s = 0
<1> DEFINE p == x \div s
           q == y \div s
<1>1. p \in Int /\ q \in Int /\ x = s * p /\ y = s * q
  BY ModExact
<1>2. x + y = s * (p + q) /\ x - y = s * (p - q)
  BY <1>1
<1>3. (s * (p + q)) % s = 0 /\ (s * (p - q)) % s = 0
  BY <1>1, ModMultiple
<1>4. QED
  BY <1>2, <1>3

LEMMA ModRounded ==
  ASSUME NEW s \in Nat \ {0}, NEW x \in Int
  PROVE  (x - (x % s)) % s = 0
<1> DEFINE q == x \div s
<1>1. q \in Int /\ x = s * q + (x % s)
  OBVIOUS
<1>2. x - (x % s) = s * q
  BY <1>1, ModRange
<1>3. QED
  BY <1>1, <1>2, ModMultiple

LEMMA Distribute ==
  ASSUME NEW k \in Int, NEW m \in Int, NEW n \in Int, NEW q \in Int, NEW r \in Int,
         k * n = (k * m) * q + r
  PROVE  r = k * (n - m * q)
OBVIOUS

LEMMA ModOfMultiples ==
  ASSUME NEW k \in Nat \ {0}, NEW s \in Nat \ {0}, NEW x \in Int,
         s % k = 0, x % k = 0
  PROVE  (x % s) % k = 0
<1> DEFINE q == x \div s
           m == s \div k
           n == x \div k
<1>1. q \in Int /\ x = s * q + (x % s) /\ x % s \in Int
  OBVIOUS
<1>2. m \in Int /\ n \in Int /\ s = k * m /\ x = k * n
  BY ModExact
<1>a. k * n = (k * m) * q + (x % s)
  BY <1>1, <1>2
<1>3. x % s = k * (n - m * q)
  <2> HIDE DEF q, m, n
  <2>1. QED
    BY <1>1, <1>2, <1>a, Distribute
<1>4. (k * (n - m * q)) % k = 0
  BY <1>1, <1>2, ModMultiple
<1>5. QED
  BY <1>3, <1>4

-----------------------------------------------------------------------------
(* Types.                                                                   *)

LEMMA SettingTypes ==
  ASSUME TypeOK
  PROVE  /\ setting.direct_io \in BOOLEAN
         /\ setting.sector_size \in Nat \ {0} /\ setting.sector_size % 64 = 0
         /\ setting.capacity \in Nat \ {0} /\ setting.capacity % 64 = 0
         /\ setting.direct_io => setting.capacity % setting.sector_size = 0
BY PlotAssumption DEF TypeOK, SCOOP_SIZE

LEMMA PlotTypes ==
  ASSUME TypeOK, NEW i \in 1..Len(plots)
  PROVE  /\ plots[i].nonces \in Nat /\ plots[i].start_nonce \in Nat
         /\ ScoopLength(plots[i]) \in Nat /\ ScoopLength(plots[i]) % 64 = 0
         /\ ScoopLength(plots[i]) = 64 * plots[i].nonces
         /\ ScoopStart(plots[i], scoop) \in Nat /\ ScoopStart(plots[i], scoop) % 64 = 0
         /\ ScoopStart(plots[i], scoop) = 64 * (scoop * plots[i].nonces)
<1>1. plots[i] \in Files
  BY DEF TypeOK
<1>2. plots[i].nonces \in Nat /\ plots[i].start_nonce \in Nat /\ scoop \in Nat
  BY <1>1, PlotAssumption DEF TypeOK
<1>3. scoop * plots[i].nonces \in Nat
  BY <1>2
<1>4. scoop * plots[i].nonces * 64 = 64 * (scoop * plots[i].nonces)
  BY <1>2
<1>5. QED
  BY <1>2, <1>3, <1>4, ModMultiple DEF ScoopLength, ScoopStart, SCOOP_SIZE

\* The bytes to read are no more than are left, and fill the buffer otherwise.
LEMMA BytesToRead ==
  ASSUME TypeOK, plot # 0, Last => left >= 0
  PROVE  /\ bytes_to_read \in Nat
         /\ Last => bytes_to_read <= left
         /\ ~Last => read_offset + bytes_to_read < ScoopLength(plots[plot])
<1>1. plot \in 1..Len(plots) /\ read_offset \in Nat
  BY DEF TypeOK
<1>2. ScoopLength(plots[plot]) \in Nat
  BY <1>1, PlotTypes
<1>3. CASE Last
  <2>1. left \in Nat
    BY <1>1, <1>2, <1>3 DEF left
  <2>2. left % setting.sector_size \in Nat /\ left % setting.sector_size <= left
    BY <2>1, ModRange, ModLeq, SettingTypes
  <2>3. QED
    BY <1>3, <2>1, <2>2 DEF bytes_to_read
<1>4. CASE ~Last
  BY <1>1, <1>2, <1>4, SettingTypes DEF bytes_to_read, Last
<1>5. QED
  BY <1>3, <1>4

LEMMA Rounding ==
  ASSUME TypeOK, NEW a \in Nat
  PROVE  /\ round_seek_addr(a) \in Nat
         /\ round_seek_addr(a) < setting.sector_size
         /\ (a + round_seek_addr(a)) % setting.sector_size = 0
<1> DEFINE s == setting.sector_size
<1>1. s \in Nat \ {0} /\ a % s \in Nat /\ a % s < s
  BY SettingTypes, ModRange
<1>2. CASE a % s = 0
  BY <1>1, <1>2 DEF round_seek_addr
<1>3. CASE a % s # 0
  <2>1. round_seek_addr(a) = s - (a % s)
    BY <1>3 DEF round_seek_addr
  <2>2. (a - (a % s)) % s = 0 /\ (s * 1) % s = 0
    BY <1>1, ModRounded, ModMultiple
  <2>3. ((a - (a % s)) + s) % s = 0
    BY <1>1, <2>2, ModSum
  <2>4. a + (s - (a % s)) = (a - (a % s)) + s
    BY <1>1
  <2>5. QED
    BY <1>1, <1>3, <2>1, <2>3, <2>4
<1>4. QED
  BY <1>2, <1>3

LEMMA TypeInit == Init => TypeOK
<1> SUFFICES ASSUME Init PROVE TypeOK
  OBVIOUS
<1>1. disk \in Seq(Files) /\ plots \in Seq(Files) /\ Len(plots) = 0
  BY PlotAssumption DEF Init
<1>2. unread \subseteq 1..Len(plots) /\ plot \in 0..Len(plots)
  BY <1>1 DEF Init
<1>3. checked \in BOOLEAN /\ warned \in BOOLEAN /\ panicked \in BOOLEAN
  BY DEF Init
<1>4. scoop \in Nat /\ read_offset \in Nat /\ setting \in Settings
  BY DEF Init
<1>5. QED
  BY <1>1, <1>2, <1>3, <1>4 DEF TypeOK

LEMMA TypeStep == TypeOK /\ [Next]_vars => TypeOK'
<1> SUFFICES ASSUME TypeOK, [Next]_vars PROVE TypeOK'
  OBVIOUS
<1> USE DEF TypeOK, loading
<1>1. CASE scan_plots
  <2>1. Head(disk) \in Files /\ Tail(disk) \in Seq(Files)
    BY <1>1 DEF scan_plots
  <2>2. plots' \in Seq(Files) /\ Len(plots) <= Len(plots')
    BY <1>1, <2>1 DEF scan_plots
  <2>3. Len(plots) \in Nat /\ Len(plots') \in Nat
    BY <2>2
  <2>4. QED
    BY <1>1, <2>1, <2>2, <2>3 DEF scan_plots
<1>2. CASE CheckPlots
  BY <1>2 DEF CheckPlots, check_overlap
<1>3. ASSUME NEW s \in Scoops, start_reading(s) PROVE TypeOK'
  BY <1>3, PlotAssumption DEF start_reading
<1>4. ASSUME NEW i \in unread, prepare(i) PROVE TypeOK'
  <2>1. i \in 1..Len(plots) /\ ScoopStart(plots[i], scoop) \in Nat
    BY PlotTypes
  <2>2. read_offset' \in Nat
    BY <1>4, <2>1, Rounding DEF prepare
  <2>3. QED
    BY <1>4, <2>1, <2>2 DEF prepare
<1>5. ASSUME NEW i \in unread, PrepareFails(i) PROVE TypeOK'
  BY <1>5 DEF PrepareFails
<1>6. CASE read
  <2>1. bytes_to_read \in Nat
    BY <1>6, BytesToRead DEF read
  <2>2. read_offset' \in Nat /\ plot' \in 0..Len(plots)
    BY <1>6, <2>1 DEF read
  <2>3. QED
    BY <1>6, <2>2 DEF read
<1>7. CASE ReadPanics
  BY <1>7 DEF ReadPanics
<1>8. CASE ReadFails
  BY <1>8 DEF ReadFails
<1>9. CASE UNCHANGED vars
  BY <1>9 DEF vars
<1>10. QED
  BY <1>1, <1>2, <1>3, <1>4, <1>5, <1>6, <1>7, <1>8, <1>9 DEF Next

\* The variables keep their types (plot.rs, scan_plots).
THEOREM Typing == Spec => []TypeOK
BY TypeInit, TypeStep, PTL DEF Spec

-----------------------------------------------------------------------------
(* Loading and the check for overlaps.                                      *)

\* Nothing is read before all is loaded and checked, and then the answer of
\* the check stays.
LoadInv ==
  /\ disk # <<>> => ~checked
  /\ ~checked => chunks = {} /\ plot = 0 /\ unread = {} /\ ~panicked
  /\ checked => warned = check_overlap(plots)

LEMMA LoadInit == Init => LoadInv
BY DEF Init, LoadInv

LEMMA LoadStep == TypeOK /\ LoadInv /\ [Next]_vars => LoadInv'
<1> SUFFICES ASSUME TypeOK, LoadInv, [Next]_vars PROVE LoadInv'
  OBVIOUS
<1> USE DEF LoadInv, loading
<1>1. CASE scan_plots
  BY <1>1 DEF scan_plots
<1>2. CASE CheckPlots
  BY <1>2 DEF CheckPlots, check_overlap, overlaps_with, End
<1>3. ASSUME NEW s \in Scoops, start_reading(s) PROVE LoadInv'
  BY <1>3 DEF start_reading, check_overlap, overlaps_with, End
<1>4. ASSUME NEW i \in unread, prepare(i) \/ PrepareFails(i) PROVE LoadInv'
  BY <1>4 DEF prepare, PrepareFails, check_overlap, overlaps_with, End
<1>5. CASE read \/ ReadPanics \/ ReadFails
  BY <1>5 DEF read, ReadPanics, ReadFails, check_overlap, overlaps_with, End
<1>6. CASE UNCHANGED vars
  BY <1>6 DEF vars, check_overlap, overlaps_with, End
<1>7. QED
  BY <1>1, <1>2, <1>3, <1>4, <1>5, <1>6 DEF Next

\* The comparison of two plots is right if neither sum wraps around.
LEMMA OverlapIsShared ==
  ASSUME NEW p, NEW q,
         p.start_nonce \in Nat, p.nonces \in Nat, p.nonces > 0, ~Wraps(p),
         q.start_nonce \in Nat, q.nonces \in Nat, q.nonces > 0, ~Wraps(q)
  PROVE  overlaps_with(p, q) <=> NoncesOf(p) \cap NoncesOf(q) # {}
<1>a. Modulus \in Nat \ {0}
  BY PlotAssumption
<1>b. /\ p.start_nonce + p.nonces \in Nat /\ p.start_nonce + p.nonces < Modulus
      /\ q.start_nonce + q.nonces \in Nat /\ q.start_nonce + q.nonces < Modulus
  BY <1>a DEF Wraps
<1>c. (p.start_nonce + p.nonces) % Modulus = p.start_nonce + p.nonces
  BY <1>a, <1>b, ModSmall
<1>d. (q.start_nonce + q.nonces) % Modulus = q.start_nonce + q.nonces
  BY <1>a, <1>b, ModSmall
<1>1. End(p) = p.start_nonce + p.nonces /\ End(q) = q.start_nonce + q.nonces
  BY <1>c, <1>d DEF End
<1>2. ASSUME overlaps_with(p, q) PROVE NoncesOf(p) \cap NoncesOf(q) # {}
  <2>1. CASE p.start_nonce <= q.start_nonce
    <3>1. q.start_nonce \in NoncesOf(p) \cap NoncesOf(q)
      BY <1>1, <1>2, <2>1 DEF overlaps_with, NoncesOf
    <3>2. QED
      BY <3>1
  <2>2. CASE q.start_nonce < p.start_nonce
    <3>1. p.start_nonce \in NoncesOf(p) \cap NoncesOf(q)
      BY <1>1, <1>2, <2>2 DEF overlaps_with, NoncesOf
    <3>2. QED
      BY <3>1
  <2>3. QED
    BY <2>1, <2>2
<1>3. ASSUME NoncesOf(p) \cap NoncesOf(q) # {} PROVE overlaps_with(p, q)
  BY <1>1, <1>3 DEF overlaps_with, NoncesOf
<1>4. QED
  BY <1>2, <1>3

LEMMA CheckIsRight == TypeOK /\ LoadInv => WarnedIsShared
<1> SUFFICES ASSUME TypeOK, LoadInv, checked,
                    \A i \in 1..Len(plots) : plots[i].nonces > 0 /\ ~Wraps(plots[i])
             PROVE  warned <=> \E i, j \in 1..Len(plots) :
                      /\ i # j /\ plots[i].account_id = plots[j].account_id
                      /\ NoncesOf(plots[i]) \cap NoncesOf(plots[j]) # {}
  BY DEF WarnedIsShared
<1> DEFINE Same(i, j) == plots[i].account_id = plots[j].account_id
           Shares(i, j) == NoncesOf(plots[i]) \cap NoncesOf(plots[j]) # {}
<1>1. \A i, j \in 1..Len(plots) : overlaps_with(plots[j], plots[i]) <=> Shares(j, i)
  BY OverlapIsShared, PlotTypes
<1>2. \A i, j \in 1..Len(plots) : Shares(i, j) <=> Shares(j, i)
  OBVIOUS
<1>3. warned <=> \E i, j \in 1..Len(plots) :
        i < j /\ Same(i, j) /\ overlaps_with(plots[j], plots[i])
  BY DEF LoadInv, check_overlap
<1>4. ASSUME warned
      PROVE  \E i, j \in 1..Len(plots) : i # j /\ Same(i, j) /\ Shares(i, j)
  <2>1. PICK i \in 1..Len(plots), j \in 1..Len(plots) :
          i < j /\ Same(i, j) /\ overlaps_with(plots[j], plots[i])
    BY <1>3, <1>4
  <2>2. i # j /\ Shares(i, j)
    BY <1>1, <1>2, <2>1
  <2>3. QED
    BY <2>1, <2>2
<1>5. ASSUME NEW i \in 1..Len(plots), NEW j \in 1..Len(plots),
             i # j, Same(i, j), Shares(i, j)
      PROVE  warned
  <2> HIDE DEF Shares
  <2>1. CASE i < j
    BY <1>1, <1>2, <1>3, <1>5, <2>1
  <2>2. CASE j < i
    <3>1. Same(j, i) /\ overlaps_with(plots[i], plots[j])
      BY <1>1, <1>5
    <3>2. QED
      BY <1>3, <2>2, <3>1
  <2>3. QED
    BY <1>5, <2>1, <2>2
<1>6. QED
  BY <1>4, <1>5

\* Reader::new warns exactly of plots that share nonces, for every set of plots
\* that neither are empty nor reach the end of the range of nonces.
THEOREM OverlapsFound == Spec => []WarnedIsShared
BY TypeInit, TypeStep, LoadInit, LoadStep, CheckIsRight, PTL DEF Spec

-----------------------------------------------------------------------------
(* Where the chunks lie.                                                    *)

Sector == setting.sector_size

ChunkFine(c) ==
  /\ c.plot \in 1..Len(plots) /\ c.offset \in Nat /\ c.len \in Nat
  /\ c.offset % 64 = 0 /\ c.len % 64 = 0
  /\ c.from = ScoopStart(plots[c.plot], scoop) + c.offset
  /\ c.offset + c.len <= ScoopLength(plots[c.plot])
  /\ c.start_nonce = (plots[c.plot].start_nonce + (c.offset \div 64)) % Modulus
  /\ setting.direct_io => c.from % Sector = 0 /\ c.len % Sector = 0

PositionFine ==
  plot # 0 =>
    /\ read_offset % 64 = 0
    /\ \/ read_offset <= ScoopLength(plots[plot])
       \/ setting.direct_io /\ read_offset < Sector
    /\ setting.direct_io =>
         (ScoopStart(plots[plot], scoop) + read_offset) % Sector = 0

PlacedInv ==
  /\ \A c \in chunks : ChunkFine(c)
  /\ PositionFine
  /\ panicked => plot # 0 /\ left < 0

LEMMA PlacedInit == Init => PlacedInv
BY DEF Init, PlacedInv, PositionFine

LEMMA PrepareKeepsPlaced ==
  ASSUME TypeOK, PlacedInv, NEW i \in unread, prepare(i)
  PROVE  PlacedInv'
<1>1. /\ i \in 1..Len(plots) /\ plot' = i /\ chunks' = chunks /\ scoop' = scoop
      /\ plots' = plots /\ setting' = setting /\ ~panicked /\ panicked' = panicked
  BY DEF prepare, loading, TypeOK
<1> DEFINE a == ScoopStart(plots[i], scoop)
<1>2. a \in Nat /\ a % 64 = 0 /\ ScoopLength(plots[i]) \in Nat
  BY <1>1, PlotTypes
<1>3. CASE setting.direct_io
  <2>1. read_offset' = round_seek_addr(a)
    BY <1>3 DEF prepare
  <2>2. /\ read_offset' \in Nat /\ read_offset' < Sector
        /\ (a + read_offset') % Sector = 0
    BY <1>2, <2>1, Rounding DEF Sector
  <2>3. Sector \in Nat \ {0} /\ Sector % 64 = 0
    BY SettingTypes DEF Sector
  <2>a. a % Sector \in Nat
    BY <1>2, <2>3, ModRange
  <2>b. (a % Sector) % 64 = 0
    BY <1>2, <2>3, ModOfMultiples
  <2>4. (a % Sector) % 64 = 0 /\ a % Sector \in Nat
    BY <2>a, <2>b
  <2>5. (Sector - (a % Sector)) % 64 = 0
    BY <2>3, <2>4, ModSum
  <2>6. read_offset' % 64 = 0
    BY <2>1, <2>5 DEF round_seek_addr, Sector
  <2>7. PositionFine'
    BY <1>1, <1>3, <2>2, <2>6 DEF PositionFine, Sector, ScoopStart
  <2>8. QED
    BY <1>1, <2>7 DEF PlacedInv, ChunkFine, ScoopStart, ScoopLength, Sector
<1>4. CASE ~setting.direct_io
  <2>1. read_offset' = 0
    BY <1>4 DEF prepare
  <2>a. read_offset' % 64 = 0 /\ read_offset' <= ScoopLength(plots[i])
    BY <1>2, <2>1
  <2>b. ScoopLength(plots[plot])' = ScoopLength(plots[i]) /\ setting'.direct_io = setting.direct_io
    BY <1>1 DEF ScoopLength
  <2>2. PositionFine'
    BY <1>4, <2>a, <2>b DEF PositionFine
  <2>3. QED
    BY <1>1, <2>2 DEF PlacedInv, ChunkFine, ScoopStart, ScoopLength, Sector
<1>5. QED
  BY <1>3, <1>4

LEMMA ReadKeepsPlaced ==
  ASSUME TypeOK, PlacedInv, read
  PROVE  PlacedInv'
<1> DEFINE p == plots[plot]
           a == ScoopStart(p, scoop)
           b == bytes_to_read
           c == [plot |-> plot, offset |-> read_offset, from |-> a + read_offset,
                 len |-> b,
                 start_nonce |-> (p.start_nonce + (read_offset \div 64)) % Modulus]
<1>1. /\ plot # 0 /\ plot \in 1..Len(plots) /\ ~panicked /\ panicked' = panicked
      /\ chunks' = chunks \cup {c} /\ read_offset' = read_offset + b
      /\ plots' = plots /\ setting' = setting /\ scoop' = scoop
      /\ read_offset \in Nat /\ (Last => left >= 0)
  BY DEF read, loading, TypeOK
<1>2. a \in Nat /\ ScoopLength(p) \in Nat /\ ScoopLength(p) % 64 = 0
  BY <1>1, PlotTypes
<1>3. b \in Nat /\ read_offset + b <= ScoopLength(p)
  <2>1. CASE Last
    BY <1>1, <1>2, <2>1, BytesToRead DEF left
  <2>2. CASE ~Last
    BY <1>1, <1>2, <2>2, BytesToRead
  <2>3. QED
    BY <2>1, <2>2
<1>4. read_offset % 64 = 0
  BY <1>1 DEF PlacedInv, PositionFine
<1>s. /\ Sector \in Nat \ {0} /\ Sector % 64 = 0
      /\ setting.capacity \in Nat /\ setting.capacity % 64 = 0
      /\ setting.direct_io => setting.capacity % Sector = 0
  BY SettingTypes DEF Sector
<1>5. left % 64 = 0 /\ left \in Int
  BY <1>1, <1>2, <1>4, ModSum DEF left
<1>6. b % 64 = 0
  <2>a. left % Sector \in Int
    BY <1>5, <1>s, ModRange
  <2>c. Sector \in Nat \ {0} /\ Sector % 64 = 0 /\ 64 \in Nat \ {0}
    BY <1>s
  <2>b. (left % Sector) % 64 = 0
    BY <1>5, <2>c, ModOfMultiples
  <2>1. (left % Sector) % 64 = 0 /\ left % Sector \in Int
    BY <2>a, <2>b
  <2>2. (left - (left % Sector)) % 64 = 0
    BY <1>5, <2>1, ModSum
  <2>3. QED
    BY <1>5, <1>s, <2>2 DEF bytes_to_read, Sector
<1>7. ASSUME setting.direct_io
      PROVE  (a + read_offset) % Sector = 0 /\ b % Sector = 0
  <2>1. (left - (left % Sector)) % Sector = 0
    BY <1>5, <1>s, ModRounded
  <2>2. b % Sector = 0
    BY <1>7, <1>s, <2>1 DEF bytes_to_read, Sector
  <2>3. (a + read_offset) % Sector = 0
    BY <1>1, <1>7 DEF PlacedInv, PositionFine
  <2>4. QED
    BY <2>2, <2>3
<1>8. ChunkFine(c)
  BY <1>1, <1>3, <1>4, <1>6, <1>7 DEF ChunkFine
<1>9. \A d \in chunks' : ChunkFine(d)'
  <2>1. \A d \in chunks' : ChunkFine(d)
    BY <1>1, <1>8 DEF PlacedInv
  <2>2. QED
    BY <1>1, <2>1 DEF ChunkFine, ScoopStart, ScoopLength, Sector
<1>10. PositionFine'
  <2>1. read_offset' % 64 = 0
    BY <1>1, <1>3, <1>4, <1>6, ModSum
  <2>2. ASSUME setting.direct_io PROVE (a + read_offset') % Sector = 0
    <3>a. a + read_offset \in Int /\ b \in Int /\ Sector \in Nat \ {0}
      BY <1>1, <1>2, <1>3, <1>s
    <3>b. (a + read_offset) % Sector = 0 /\ b % Sector = 0
      BY <1>7, <2>2
    <3>1. ((a + read_offset) + b) % Sector = 0
      BY <3>a, <3>b, ModSum
    <3>2. a + read_offset' = (a + read_offset) + b
      BY <1>1, <1>2, <1>3
    <3>3. QED
      BY <3>1, <3>2
  <2>3. plot' = 0 \/ plot' = plot
    BY DEF read
  <2>4. CASE plot' = plot
    <3>1. ScoopLength(plots[plot])' = ScoopLength(p) /\ ScoopStart(plots[plot], scoop)' = a
          /\ Sector' = Sector /\ setting'.direct_io = setting.direct_io
      BY <1>1, <2>4 DEF ScoopLength, ScoopStart, Sector
    <3>2. read_offset' <= ScoopLength(p)
      BY <1>1, <1>3
    <3>3. QED
      BY <2>1, <2>2, <3>1, <3>2 DEF PositionFine
  <2>5. QED
    BY <2>3, <2>4 DEF PositionFine
<1>11. QED
  BY <1>1, <1>9, <1>10 DEF PlacedInv

LEMMA PlacedStep == TypeOK /\ LoadInv /\ PlacedInv /\ [Next]_vars => PlacedInv'
<1> SUFFICES ASSUME TypeOK, LoadInv, PlacedInv, [Next]_vars PROVE PlacedInv'
  OBVIOUS
<1>1. CASE scan_plots \/ CheckPlots
  <2>1. chunks' = {} /\ plot' = 0 /\ ~panicked'
    BY <1>1 DEF scan_plots, CheckPlots, LoadInv
  <2>2. QED
    BY <2>1 DEF PlacedInv, PositionFine
<1>2. ASSUME NEW s \in Scoops, start_reading(s) PROVE PlacedInv'
  BY <1>2 DEF start_reading, PlacedInv, PositionFine
<1>3. ASSUME NEW i \in unread, prepare(i) PROVE PlacedInv'
  BY <1>3, PrepareKeepsPlaced
<1>4. CASE read
  BY <1>4, ReadKeepsPlaced
<1>5. CASE \/ \E i \in unread : PrepareFails(i)
           \/ ReadPanics \/ ReadFails \/ UNCHANGED vars
  <2>1. /\ plots' = plots /\ setting' = setting /\ scoop' = scoop /\ chunks' = chunks
        /\ read_offset' = read_offset
        /\ plot' = 0 \/ plot' = plot
    BY <1>5 DEF PrepareFails, ReadPanics, ReadFails, vars, loading
  <2>2. \A c \in chunks' : ChunkFine(c)'
    BY <2>1 DEF PlacedInv, ChunkFine, ScoopStart, ScoopLength, Sector
  <2>3. PositionFine'
    BY <2>1 DEF PlacedInv, PositionFine, ScoopStart, ScoopLength, Sector
  <2>4. panicked' => plot' # 0 /\ left' < 0
    BY <1>5 DEF PlacedInv, PrepareFails, ReadPanics, ReadFails, vars, loading, left,
                ScoopLength
  <2>5. QED
    BY <2>2, <2>3, <2>4 DEF PlacedInv
<1>6. QED
  BY <1>1, <1>2, <1>3, <1>4, <1>5 DEF Next

LEMMA FineIsPlaced == TypeOK /\ PlacedInv => ChunksPlaced
<1> SUFFICES ASSUME TypeOK, PlacedInv, NEW c \in chunks
             PROVE  LET p == plots[c.plot]
                    IN  /\ c.len >= 0
                        /\ ScoopStart(p, scoop) <= c.from
                        /\ c.from + c.len <= ScoopStart(p, scoop) + ScoopLength(p)
                        /\ \E n \in 0..p.nonces :
                             /\ c.from = ScoopStart(p, scoop) + n * SCOOP_SIZE
                             /\ c.start_nonce = (p.start_nonce + n) % Modulus
                        /\ c.len % SCOOP_SIZE = 0
                        /\ setting.direct_io => c.from % setting.sector_size = 0
                                                /\ c.len % setting.sector_size = 0
  BY DEF ChunksPlaced
<1> DEFINE p == plots[c.plot]
           n == c.offset \div 64
<1>1. ChunkFine(c) /\ c.plot \in 1..Len(plots) /\ c.offset \in Nat /\ c.len \in Nat
  BY DEF PlacedInv, ChunkFine
<1>2. /\ p.nonces \in Nat /\ ScoopLength(p) = 64 * p.nonces
      /\ ScoopStart(p, scoop) \in Nat
  BY <1>1, PlotTypes
<1>a. c.offset \in Int /\ c.offset % 64 = 0 /\ 64 \in Nat \ {0}
  BY <1>1 DEF ChunkFine
<1>3. n \in Int /\ c.offset = 64 * n
  BY <1>a, ModExact
<1>4. c.offset <= 64 * p.nonces
  BY <1>1, <1>2 DEF ChunkFine
<1>5. n \in 0..p.nonces
  BY <1>1, <1>2, <1>3, <1>4
<1>6. /\ c.from = ScoopStart(p, scoop) + n * SCOOP_SIZE
      /\ c.start_nonce = (p.start_nonce + n) % Modulus
  BY <1>1, <1>2, <1>3 DEF ChunkFine, SCOOP_SIZE
<1>7. /\ c.len >= 0
      /\ ScoopStart(p, scoop) <= c.from
      /\ c.from + c.len <= ScoopStart(p, scoop) + ScoopLength(p)
  BY <1>1, <1>2 DEF ChunkFine
<1>8. /\ c.len % SCOOP_SIZE = 0
      /\ setting.direct_io => c.from % setting.sector_size = 0
                              /\ c.len % setting.sector_size = 0
  BY <1>1 DEF ChunkFine, SCOOP_SIZE, Sector
<1> HIDE DEF n
<1>9. QED
  BY <1>5, <1>6, <1>7, <1>8

LEMMA PanicIsWarned == TypeOK /\ PlacedInv => PanicsOnlyWhenWarned
<1> SUFFICES ASSUME TypeOK, PlacedInv, panicked PROVE NotEnoughNonces(plots[plot])
  BY DEF PanicsOnlyWhenWarned
<1> DEFINE p == plots[plot]
           m == Sector \div 64
<1>1. plot # 0 /\ left < 0 /\ plot \in 1..Len(plots) /\ read_offset \in Nat
  BY DEF PlacedInv, TypeOK
<1>2. p.nonces \in Nat /\ ScoopLength(p) = 64 * p.nonces
  BY <1>1, PlotTypes
<1>3. setting.direct_io /\ read_offset < Sector
  BY <1>1, <1>2 DEF PlacedInv, PositionFine, left
<1>4. Sector \in Nat \ {0} /\ Sector % 64 = 0
  BY SettingTypes DEF Sector
<1>5. m \in Int /\ Sector = 64 * m
  BY <1>4, ModExact
<1>6. 64 * p.nonces < 64 * m
  BY <1>1, <1>2, <1>3, <1>5 DEF left
<1>7. m > p.nonces
  BY <1>2, <1>5, <1>6
<1>8. QED
  BY <1>3, <1>7 DEF NotEnoughNonces, Sector

\* Every chunk lies in its scoop, is labelled with its nonce and is aligned for
\* direct I/O, for every sector size, buffer and plot.
THEOREM PlacedInScoop == Spec => []ChunksPlaced
BY TypeInit, TypeStep, LoadInit, LoadStep, PlacedInit, PlacedStep, FineIsPlaced,
   PTL DEF Spec

\* Reading only panics for a plot with fewer nonces than a sector.
THEOREM PanicsWarned == Spec => []PanicsOnlyWhenWarned
BY TypeInit, TypeStep, LoadInit, LoadStep, PlacedInit, PlacedStep, PanicIsWarned,
   PTL DEF Spec

-----------------------------------------------------------------------------
(* How the chunks of a plot follow each other.                              *)

Apart(c, d) == c.offset + c.len <= d.offset \/ d.offset + d.len <= c.offset

TileInv ==
  /\ plot \notin unread
  /\ \A c \in chunks : c.plot \notin unread
  /\ \A c, d \in chunks : c.plot = d.plot /\ c # d => Apart(c, d)
  /\ \A c \in chunks : c.plot = plot =>
       /\ c.offset + c.len <= read_offset
       /\ \/ \E d \in chunks : d.plot = plot /\ d.offset = c.offset + c.len
          \/ read_offset = c.offset + c.len

LEMMA TileInit == Init => TileInv
BY DEF Init, TileInv

LEMMA ReadKeepsTiles ==
  ASSUME TypeOK, PlacedInv, TileInv, read
  PROVE  TileInv'
<1> DEFINE c == [plot |-> plot, offset |-> read_offset,
                 from |-> ScoopStart(plots[plot], scoop) + read_offset,
                 len |-> bytes_to_read,
                 start_nonce |->
                   (plots[plot].start_nonce + (read_offset \div 64)) % Modulus]
<1>1. /\ chunks' = chunks \cup {c} /\ c.plot = plot /\ c.offset = read_offset
      /\ c.len = bytes_to_read
  BY DEF read
<1> HIDE DEF c
<1>2. /\ plot # 0 /\ plot' \in {0, plot} /\ unread' = unread /\ read_offset \in Nat
      /\ bytes_to_read \in Nat /\ read_offset' = read_offset + bytes_to_read
  BY BytesToRead DEF read, TypeOK
<1>3. \A d \in chunks : d.offset \in Nat /\ d.len \in Nat
  BY DEF PlacedInv, ChunkFine
<1>4. 0 \notin unread
  BY DEF TypeOK
<1>5. plot' \notin unread' /\ \A d \in chunks' : d.plot \notin unread'
  BY <1>1, <1>2, <1>4 DEF TileInv
<1>6. \A d, e \in chunks' : d.plot = e.plot /\ d # e => Apart(d, e)
  BY <1>1, <1>2, <1>3 DEF TileInv, Apart
<1>7. \A d \in chunks' : d.plot = plot' =>
        /\ d.offset + d.len <= read_offset'
        /\ \/ \E e \in chunks' : e.plot = plot' /\ e.offset = d.offset + d.len
           \/ read_offset' = d.offset + d.len
  <2> SUFFICES ASSUME NEW d \in chunks', d.plot = plot'
               PROVE  /\ d.offset + d.len <= read_offset'
                      /\ \/ \E e \in chunks' : e.plot = plot' /\ e.offset = d.offset + d.len
                         \/ read_offset' = d.offset + d.len
    OBVIOUS
  <2>1. plot' = plot
    <3>1. d.plot # 0
      BY <1>1, <1>2 DEF PlacedInv, ChunkFine
    <3>2. QED
      BY <1>2, <3>1
  <2>2. CASE d = c
    BY <1>1, <1>2, <2>2
  <2>3. CASE d # c
    <3>1. d \in chunks /\ d.plot = plot
      BY <1>1, <2>1, <2>3
    <3>2. /\ d.offset + d.len <= read_offset
          /\ \/ \E e \in chunks : e.plot = plot /\ e.offset = d.offset + d.len
             \/ read_offset = d.offset + d.len
      BY <3>1 DEF TileInv
    <3>3. d.offset + d.len <= read_offset'
      BY <1>2, <1>3, <3>1, <3>2
    <3>4. QED
      BY <1>1, <2>1, <3>2, <3>3
  <2>4. QED
    BY <2>2, <2>3
<1>8. QED
  BY <1>5, <1>6, <1>7 DEF TileInv, Apart

LEMMA TileStep ==
  TypeOK /\ LoadInv /\ PlacedInv /\ TileInv /\ [Next]_vars => TileInv'
<1> SUFFICES ASSUME TypeOK, LoadInv, PlacedInv, TileInv, [Next]_vars PROVE TileInv'
  OBVIOUS
<1>a. 0 \notin unread /\ 0 \notin 1..Len(plots)
  BY DEF TypeOK
<1>b. \A c \in chunks : c.plot # 0
  BY DEF PlacedInv, ChunkFine
<1>1. CASE scan_plots \/ CheckPlots
  <2>1. chunks' = {} /\ plot' = 0 /\ unread' = {}
    BY <1>1 DEF scan_plots, CheckPlots, LoadInv
  <2>2. QED
    BY <2>1 DEF TileInv
<1>2. ASSUME NEW s \in Scoops, start_reading(s) PROVE TileInv'
  BY <1>2, <1>a DEF start_reading, TileInv
<1>3. ASSUME NEW i \in unread, prepare(i) PROVE TileInv'
  <2>1. /\ chunks' = chunks /\ plot' = i /\ unread' = unread \ {i}
        /\ \A c \in chunks : c.plot # i
    BY <1>3 DEF prepare, TileInv
  <2>2. QED
    BY <2>1 DEF TileInv, Apart
<1>4. CASE read
  BY <1>4, ReadKeepsTiles
<1>5. ASSUME NEW i \in unread, PrepareFails(i) PROVE TileInv'
  BY <1>5 DEF PrepareFails, TileInv, Apart
<1>6. CASE ReadPanics \/ ReadFails \/ UNCHANGED vars
  <2>1. /\ chunks' = chunks /\ unread' = unread /\ read_offset' = read_offset
        /\ plot' = 0 \/ plot' = plot
    BY <1>6 DEF ReadPanics, ReadFails, vars
  <2>2. CASE plot' = plot
    BY <2>1, <2>2 DEF TileInv, Apart
  <2>3. CASE plot' = 0
    BY <1>a, <1>b, <2>1, <2>3 DEF TileInv, Apart
  <2>4. QED
    BY <2>1, <2>2, <2>3
<1>7. QED
  BY <1>1, <1>2, <1>3, <1>4, <1>5, <1>6 DEF Next

LEMMA TilesFollow == TileInv => ChunksTile
BY DEF TileInv, ChunksTile, ChunksOf, Apart

\* What is read of a plot is read once and without a gap, whatever the sizes.
THEOREM ReadOnce == Spec => []ChunksTile
BY TypeInit, TypeStep, LoadInit, LoadStep, PlacedInit, PlacedStep, TileInit, TileStep,
   TilesFollow, PTL DEF Spec

-----------------------------------------------------------------------------
(* What is left out of a plot.                                              *)

\* Where the first chunk of plot i starts.
StartOf(i) ==
  IF setting.direct_io THEN round_seek_addr(ScoopStart(plots[i], scoop)) ELSE 0

\* All that was read of the plot under way lies behind its start, and something
\* was read there unless nothing was read yet.
StartInv ==
  plot # 0 =>
    /\ read_offset >= StartOf(plot)
    /\ \A c \in chunks : c.plot = plot => c.offset >= StartOf(plot)
    /\ \/ read_offset = StartOf(plot)
       \/ \E c \in chunks : c.plot = plot /\ c.offset = StartOf(plot)

LEMMA StartInit == Init => StartInv
BY DEF Init, StartInv

\* The first chunk starts within the first sector of the scoop, and at its very
\* beginning where nothing has to be rounded.
LEMMA StartBounds ==
  ASSUME TypeOK, NEW i \in 1..Len(plots)
  PROVE  /\ StartOf(i) \in Nat /\ StartOf(i) < Sector
         /\ ~setting.direct_io \/ ScoopLength(plots[i]) % Sector = 0 => StartOf(i) = 0
<1> DEFINE all == ScoopLength(plots[i])
           a == ScoopStart(plots[i], scoop)
<1>1. Sector \in Nat \ {0}
  BY SettingTypes DEF Sector
<1>2. a \in Nat /\ all \in Nat /\ scoop \in Nat /\ plots[i].nonces \in Nat
  BY PlotTypes DEF TypeOK
<1>3. StartOf(i) \in Nat /\ StartOf(i) < Sector
  <2>1. round_seek_addr(a) \in Nat /\ round_seek_addr(a) < Sector
    <3> HIDE DEF a
    <3>1. QED
      BY <1>2, Rounding DEF Sector
  <2>2. CASE setting.direct_io
    BY <2>1, <2>2 DEF StartOf
  <2>3. CASE ~setting.direct_io
    BY <1>1, <2>3 DEF StartOf
  <2>4. QED
    BY <2>2, <2>3
<1>4. ASSUME all % Sector = 0 PROVE a % Sector = 0
  <2> DEFINE q == all \div Sector
  <2>1. q \in Int /\ all = Sector * q
    <3> HIDE DEF all
    <3>1. all \in Int /\ all % Sector = 0
      BY <1>2, <1>4
    <3>2. QED
      BY <1>1, <3>1, ModExact
  <2>2. a = all * scoop
    <3>1. all = 64 * plots[i].nonces /\ a = 64 * (scoop * plots[i].nonces)
      BY PlotTypes
    <3> HIDE DEF all, a
    <3>2. QED
      BY <1>2, <3>1
  <2> HIDE DEF q, a, all
  <2>3. a = Sector * (q * scoop) /\ q * scoop \in Int
    BY <1>1, <1>2, <2>1, <2>2
  <2>4. (Sector * (q * scoop)) % Sector = 0
    BY <1>1, <2>3, ModMultiple
  <2>5. QED
    BY <2>3, <2>4
<1>5. ASSUME all % Sector = 0 PROVE StartOf(i) = 0
  BY <1>4, <1>5 DEF StartOf, round_seek_addr, Sector
<1>6. ~setting.direct_io => StartOf(i) = 0
  BY DEF StartOf
<1>7. QED
  BY <1>3, <1>5, <1>6

LEMMA ReadKeepsStart ==
  ASSUME TypeOK, StartInv, read
  PROVE  /\ \A c \in chunks' : c.plot = plot => c.offset >= StartOf(plot)
         /\ \E c \in chunks' : c.plot = plot /\ c.offset = StartOf(plot)
         /\ read_offset' >= StartOf(plot)
<1> DEFINE c == [plot |-> plot, offset |-> read_offset,
                 from |-> ScoopStart(plots[plot], scoop) + read_offset,
                 len |-> bytes_to_read,
                 start_nonce |->
                   (plots[plot].start_nonce + (read_offset \div 64)) % Modulus]
<1>1. chunks' = chunks \cup {c} /\ c.plot = plot /\ c.offset = read_offset
  BY DEF read
<1> HIDE DEF c
<1>2. /\ plot # 0 /\ plot \in 1..Len(plots) /\ read_offset \in Nat
      /\ bytes_to_read \in Nat /\ read_offset' = read_offset + bytes_to_read
  BY BytesToRead DEF read, TypeOK
<1>3. StartOf(plot) \in Nat /\ read_offset >= StartOf(plot)
  BY <1>2, StartBounds DEF StartInv
<1>4. QED
  BY <1>1, <1>2, <1>3 DEF StartInv

LEMMA StartStep ==
  TypeOK /\ LoadInv /\ TileInv /\ StartInv /\ [Next]_vars => StartInv'
<1> SUFFICES ASSUME TypeOK, LoadInv, TileInv, StartInv, [Next]_vars, plot' # 0
             PROVE  StartInv'
  BY DEF StartInv
<1>1. CASE scan_plots \/ CheckPlots
  BY <1>1 DEF scan_plots, CheckPlots, LoadInv
<1>2. ASSUME NEW s \in Scoops, start_reading(s) PROVE StartInv'
  BY <1>2 DEF start_reading
<1>3. ASSUME NEW i \in unread, prepare(i) PROVE StartInv'
  <2>1. /\ chunks' = chunks /\ plot' = i /\ i \in 1..Len(plots)
        /\ \A c \in chunks : c.plot # i
        /\ setting' = setting /\ plots' = plots /\ scoop' = scoop
    BY <1>3 DEF prepare, TileInv, TypeOK, loading
  <2>2. StartOf(plot)' = StartOf(i)
    BY <2>1 DEF StartOf, round_seek_addr, ScoopStart
  <2>3. read_offset' = StartOf(i) /\ StartOf(i) \in Nat
    BY <1>3, <2>1, StartBounds DEF prepare, StartOf
  <2>4. QED
    BY <2>1, <2>2, <2>3 DEF StartInv
<1>4. CASE read
  <2>1. plot' = plot /\ setting' = setting /\ plots' = plots /\ scoop' = scoop
    BY <1>4 DEF read, loading
  <2>2. StartOf(plot)' = StartOf(plot)
    BY <2>1 DEF StartOf, round_seek_addr, ScoopStart
  <2>3. QED
    BY <1>4, <2>1, <2>2, ReadKeepsStart DEF StartInv
<1>5. CASE \/ \E i \in unread : PrepareFails(i)
           \/ ReadPanics \/ ReadFails \/ UNCHANGED vars
  <2>1. /\ chunks' = chunks /\ read_offset' = read_offset /\ plot' = plot
        /\ setting' = setting /\ plots' = plots /\ scoop' = scoop
    BY <1>5 DEF PrepareFails, ReadPanics, ReadFails, vars, loading
  <2>2. StartOf(plot)' = StartOf(plot)
    BY <2>1 DEF StartOf, round_seek_addr, ScoopStart
  <2>3. QED
    BY <2>1, <2>2 DEF StartInv
<1>6. QED
  BY <1>1, <1>2, <1>3, <1>4, <1>5 DEF Next

\* Where the last chunk of a plot ends.
LEMMA LastReadsAll ==
  ASSUME TypeOK, PlacedInv, read, Last
  PROVE  /\ read_offset' > ScoopLength(plots[plot]) - Sector
         /\ ~setting.direct_io \/ ScoopLength(plots[plot]) % Sector = 0 =>
              read_offset' = ScoopLength(plots[plot])
<1> DEFINE all == ScoopLength(plots[plot])
           a == ScoopStart(plots[plot], scoop)
<1>1. /\ plot # 0 /\ plot \in 1..Len(plots) /\ read_offset \in Nat
      /\ read_offset' = read_offset + bytes_to_read
  BY DEF read, TypeOK
<1>2. Sector \in Nat \ {0} /\ all \in Nat /\ a \in Nat
  BY <1>1, SettingTypes, PlotTypes DEF Sector
<1>3. left = all - read_offset /\ left \in Int
  BY <1>1, <1>2 DEF left
<1>4. left % Sector \in Nat /\ left % Sector < Sector
  BY <1>2, <1>3, ModRange
<1>5. CASE ~setting.direct_io
  <2>1. bytes_to_read = left
    BY <1>5 DEF bytes_to_read
  <2> HIDE DEF all
  <2>2. read_offset' = all
    BY <1>1, <1>2, <1>3, <2>1
  <2>3. all > all - Sector
    BY <1>2
  <2>4. QED
    BY <2>2, <2>3 DEF all
<1>6. CASE setting.direct_io
  <2>1. bytes_to_read = left - (left % Sector)
    BY <1>6 DEF bytes_to_read, Sector
  <2> HIDE DEF all, a
  <2>2. read_offset' = all - (left % Sector)
    BY <1>1, <1>2, <1>3, <1>4, <2>1
  <2>3. read_offset' > all - Sector
    BY <1>2, <1>4, <2>2
  <2>4. ASSUME all % Sector = 0 PROVE left % Sector = 0
    <3>1. StartOf(plot) = 0
      BY <1>1, <2>4, StartBounds DEF all
    <3>2. a % Sector = 0
      <4>1. round_seek_addr(a) = 0
        BY <1>6, <3>1 DEF StartOf, a
      <4>2. (a + 0) % Sector = 0
        BY <1>2, <4>1, Rounding DEF Sector
      <4>3. QED
        BY <1>2, <4>2
    <3>3. (a + read_offset) % Sector = 0
      BY <1>1, <1>6 DEF PlacedInv, PositionFine, a
    <3>a. a + read_offset \in Int /\ a \in Int /\ all \in Int /\ read_offset \in Int
      BY <1>1, <1>2
    <3>4. ((a + read_offset) - a) % Sector = 0
      BY <1>2, <3>a, <3>2, <3>3, ModSum
    <3>5. (a + read_offset) - a = read_offset
      BY <3>a
    <3>b. read_offset % Sector = 0
      BY <3>4, <3>5
    <3>6. (all - read_offset) % Sector = 0
      BY <1>2, <2>4, <3>a, <3>b, ModSum
    <3>7. QED
      BY <1>3, <3>6
  <2>5. ASSUME all % Sector = 0 PROVE read_offset' = all
    BY <1>2, <2>2, <2>4, <2>5
  <2>6. QED
    BY <1>6, <2>3, <2>5 DEF all
<1>7. QED
  BY <1>5, <1>6

\* The step that reads the last chunk leaves out less than a sector at each end.
LEMMA LastLeavesLittle ==
  ASSUME TypeOK, PlacedInv, StartInv, read, Last
  PROVE  LET first == CHOOSE c \in chunks' :
                       /\ c.plot = plot
                       /\ \A d \in chunks' : d.plot = plot => c.offset <= d.offset
             all == ScoopLength(plots[plot])
         IN  /\ first.offset < setting.sector_size
             /\ read_offset' > all - setting.sector_size
             /\ ~setting.direct_io \/ all % setting.sector_size = 0 =>
                  first.offset = 0 /\ read_offset' = all
<1> DEFINE Least(c) == /\ c.plot = plot
                       /\ \A d \in chunks' : d.plot = plot => c.offset <= d.offset
           first == CHOOSE c \in chunks' : Least(c)
<1>1. plot \in 1..Len(plots)
  BY DEF read, TypeOK
<1>2. /\ StartOf(plot) \in Nat /\ StartOf(plot) < Sector
      /\ ~setting.direct_io \/ ScoopLength(plots[plot]) % Sector = 0 => StartOf(plot) = 0
  BY <1>1, StartBounds
<1>3. PICK e \in chunks' : e.plot = plot /\ e.offset = StartOf(plot)
  BY ReadKeepsStart
<1>4. \A c \in chunks' : c.plot = plot => c.offset >= StartOf(plot) /\ c.offset \in Nat
  <2>1. PlacedInv'
    BY ReadKeepsPlaced
  <2>2. \A c \in chunks' : c.offset \in Nat
    BY <2>1 DEF PlacedInv, ChunkFine
  <2>3. QED
    BY <2>2, ReadKeepsStart
<1>5. Least(e)
  BY <1>2, <1>3, <1>4
<1>6. first \in chunks' /\ Least(first)
  <2> HIDE DEF Least
  <2>1. QED
    BY <1>3, <1>5
<1>7. first.offset = StartOf(plot)
  <2> HIDE DEF first
  <2>1. first.offset <= e.offset /\ first.offset >= StartOf(plot) /\ first.offset \in Nat
    BY <1>3, <1>4, <1>6
  <2>2. QED
    BY <1>2, <1>3, <2>1
<1>8. /\ read_offset' > ScoopLength(plots[plot]) - Sector
      /\ ~setting.direct_io \/ ScoopLength(plots[plot]) % Sector = 0 =>
           read_offset' = ScoopLength(plots[plot])
  BY LastReadsAll
<1> HIDE DEF first
<1>9. /\ first.offset < Sector
      /\ ~setting.direct_io \/ ScoopLength(plots[plot]) % Sector = 0 =>
           first.offset = 0
  BY <1>2, <1>7
<1>10. QED
  BY <1>8, <1>9 DEF Sector, first

\* Of every plot that is read to its end less than a sector is left out at each
\* end of the scoop, and nothing where nothing has to be rounded, whatever the
\* sizes of sectors and buffers (Plot::prepare and Plot::read).
THEOREM LeavesLittle == Spec => LittleIsLeftOut
<1>1. TypeOK /\ PlacedInv /\ StartInv /\ [Next]_vars =>
        [ read /\ Last =>
            LET first == CHOOSE c \in chunks' :
                           /\ c.plot = plot
                           /\ \A d \in chunks' : d.plot = plot => c.offset <= d.offset
                all == ScoopLength(plots[plot])
            IN  /\ first.offset < setting.sector_size
                /\ read_offset' > all - setting.sector_size
                /\ ~setting.direct_io \/ all % setting.sector_size = 0 =>
                     first.offset = 0 /\ read_offset' = all ]_vars
  BY LastLeavesLittle
<1>2. QED
  BY <1>1, TypeInit, TypeStep, LoadInit, LoadStep, PlacedInit, PlacedStep, TileInit,
     TileStep, StartInit, StartStep, PTL DEF Spec, LittleIsLeftOut
=============================================================================
