----------------------------- MODULE MCFindBest -----------------------------
(* FindBest over the real hashes, with short buffers, for TLC. *)
EXTENDS FindBest, SearchHashes

(***************************************************************************)
(* The data.  A scoop is one of four, the first two those of the tests in   *)
(* cpu_worker.rs: the winner, all zeros, and the loser, all fives.          *)
(***************************************************************************)
Contents == << [v \in R16 |-> Zero], [v \in R16 |-> W(\h0505, \h0505)],
               [v \in R16 |-> Number(v)],
               [v \in R16 |-> Number(v * v) \cup {31}] >>

\* 4a6f686e6e7946464d206861742064656e206772f6df74656e2050656e697321
TestGensig ==
  LET g == << W(\h6e68, \h6f4a), W(\h4646, \h796e), W(\h6168, \h204d),
              W(\h6564, \h2074), W(\h7267, \h206e), W(\h6574, \hdff6),
              W(\h6550, \h206e), W(\h2173, \h696e) >>
  IN  [v \in 0..7 |-> g[v + 1]]

\* n nonces, the winner at p and at q, losers of two kinds or of one elsewhere.
Buffer(n, p, q, mixed) ==
  [scoops |-> [j \in 0..(n - 1) |->
                 IF j \in {p, q} THEN 1
                 ELSE IF mixed THEN 2 + (j % 3) ELSE 2],
   nonce_count |-> n, gensig |-> "test"]

\* The calls of the test, with the winner last, around the group sizes; two
\* winners in one group, in two groups, in a group and in the tail; no winner.
MCCalls ==
  { Buffer(n, n - 1, n - 1, FALSE) : n \in {1, 2, 4, 5, 8, 9, 16, 17, 32} }
  \cup
  { Buffer(0, 0, 0, FALSE), Buffer(3, 1, 2, TRUE), Buffer(4, 3, 3, TRUE),
    Buffer(6, 99, 99, TRUE), Buffer(9, 4, 7, TRUE), Buffer(17, 3, 9, TRUE),
    Buffer(18, 99, 99, TRUE), Buffer(33, 18, 32, TRUE) }

Reference == [s \in 1..4 |-> deadline_of(Contents[s], TestGensig)]
MCDeadlineOf(c, j) == Reference[c.scoops[j]]

-----------------------------------------------------------------------------
(* The parameters of FindBest.                                              *)

\* The buffer and what lies behind it in memory.
Words_of(c) ==
  [j \in 0..(c.nonce_count + MSHABAL512_VECTOR_SIZE) |->
     IF j \in DOMAIN c.scoops THEN Contents[c.scoops[j]] ELSE Contents[4]]

MCGroup(impl, y, c, j) == search_group(impl, y, Words_of(c), j, TestGensig)
MCScalar(c, j) == sph_shabal_deadline_fast(Contents[c.scoops[j]], TestGensig)

\* A machine for each implementation; the one without AVX512F is a Mac, where
\* it is never looked for.
Machine(arch, apple, avx512f, avx2, avx) ==
  [arch |-> arch, apple |-> apple, avx512f |-> avx512f, avx2 |-> avx2,
   avx |-> avx]
MCMachines ==
  { Machine("x86_64", FALSE, TRUE, TRUE, TRUE),
    Machine("x86_64", TRUE, FALSE, TRUE, TRUE),
    Machine("x86_64", FALSE, FALSE, FALSE, TRUE),
    Machine("x86_64", FALSE, FALSE, FALSE, FALSE),
    Machine("arm", FALSE, FALSE, FALSE, FALSE),
    Machine("other", FALSE, FALSE, FALSE, FALSE) }

MCDeadlines == SUBSET (0..63)
MCMaxDeadline == 0..63

-----------------------------------------------------------------------------
\* The test vector of test_c_dispatcher_hashing (cpu_worker.rs:126): with the
\* generation signature of the test, a buffer that holds the winner has the
\* best deadline 3084580316385335914 once its first winner is compared, at the
\* winner's nonce.
TestVector == Word64(W(\h774F, \h5A6A), W(\h2ACE, \hA174))
WinnerFound ==
  call # NoCall =>
    \A p \in DOMAIN call.scoops :
      /\ call.scoops[p] = 1 /\ p < at + done
      /\ \A j \in 0..(p - 1) : call.scoops[j] # 1
      => best_deadline = TestVector /\ best_offset = p
=============================================================================
