-------------------------- MODULE FindBestProofs ---------------------------
(***************************************************************************)
(* Proofs about FindBest.  First for every machine, every set of calls,     *)
(* every number of lanes and every hash: if a group's lanes are the         *)
(* deadlines of its nonces and leave the context alone, the search returns  *)
(* the first minimum of the buffer and hashes nothing outside it.  Then for *)
(* the hashes of the searches of src/c, which are shown to do so.           *)
(***************************************************************************)
EXTENDS FindBest, SearchHashes, ShabalProofs

CONSTANTS ScoopsOf(_), GensigOf(_)   \* the words of a call's arguments

\* Arguments and results of a search, and the number of lanes.
WellTyped ==
  /\ NoCall \notin Calls
  /\ MaxDeadline \in Deadlines
  /\ \A c \in Calls : c.nonce_count \in Nat
  /\ \A c \in Calls, i \in Nat :
       i < c.nonce_count => DeadlineOf(c, i) \in Deadlines
  /\ \A impl \in Impls : VectorSize[impl] \in Nat \ {0}

\* < on uint64_t.
SmallerOrders ==
  /\ \A d \in Deadlines : ~Smaller(d, d)
  /\ \A d, e, f \in Deadlines : Smaller(d, e) /\ Smaller(e, f) => Smaller(d, f)
  /\ \A d, e \in Deadlines : d = e \/ Smaller(d, e) \/ Smaller(e, d)

\* A group started from the fast context returns, lane by lane, the deadlines
\* of its nonces and the fast context; so does one nonce hashed alone.
GroupsAgree ==
  /\ \A impl \in Impls \ {"base"}, c \in Calls, i \in Nat :
       i + VectorSize[impl] <= c.nonce_count =>
         /\ Group(impl, FastContext(impl), c, i).sc = FastContext(impl)
         /\ Group(impl, FastContext(impl), c, i).dst =
              [l \in 0..(VectorSize[impl] - 1) |-> DeadlineOf(c, i + l)]
  /\ \A c \in Calls, i \in Nat : i < c.nonce_count => Scalar(c, i) = DeadlineOf(c, i)

HashesRight == WellTyped /\ SmallerOrders /\ GroupsAgree

\* What is about to be compared are the deadlines of the nonces from `at` on.
GroupIsNext ==
  call # NoCall => \A l \in 0..(width - 1) : dls[l] = DeadlineOf(call, at + l)

SearchInv == TypeOK /\ GroupIsNext /\ FirstMinimum /\ ReadsInside /\ ContextKept

-----------------------------------------------------------------------------
(* One comparison.                                                          *)

\* The result of a scan of n nonces, and one more comparison, are those of a
\* scan of n + 1.
LEMMA OneMore ==
  ASSUME HashesRight, NEW c \in Calls, NEW n \in Nat, n < c.nonce_count,
         NEW best \in Deadlines, NEW off \in Nat, FirstLeast(c, n, best, off)
  PROVE  IF Smaller(DeadlineOf(c, n), best)
         THEN FirstLeast(c, n + 1, DeadlineOf(c, n), n)
         ELSE FirstLeast(c, n + 1, best, off)
<1> DEFINE d == DeadlineOf(c, n)
<1>1. d \in Deadlines /\ \A j \in 0..n : DeadlineOf(c, j) \in Deadlines
  <2>1. \A j \in 0..n : j \in Nat /\ j < c.nonce_count
    BY DEF HashesRight, WellTyped
  <2>2. QED
    BY <2>1 DEF HashesRight, WellTyped
<1>2. 0..((n + 1) - 1) = 0..(n - 1) \cup {n}
  OBVIOUS
<1>3. ASSUME Smaller(d, best) PROVE FirstLeast(c, n + 1, d, n)
  <2>1. ASSUME NEW j \in 0..(n - 1) PROVE Smaller(d, DeadlineOf(c, j))
    <3>1. ~Smaller(DeadlineOf(c, j), best) /\ DeadlineOf(c, j) \in Deadlines
      BY <1>1, <2>1 DEF FirstLeast
    <3>2. QED
      BY <1>1, <1>3, <3>1 DEF HashesRight, SmallerOrders
  <2>2. \A j \in 0..(n - 1) : ~Smaller(DeadlineOf(c, j), d)
    BY <1>1, <2>1 DEF HashesRight, SmallerOrders
  <2>3. ~Smaller(d, d)
    BY <1>1 DEF HashesRight, SmallerOrders
  <2>4. QED
    BY <1>2, <2>1, <2>2, <2>3 DEF FirstLeast
<1>4. ASSUME ~Smaller(d, best) PROVE FirstLeast(c, n + 1, best, off)
  BY <1>2, <1>4 DEF FirstLeast
<1>5. QED
  BY <1>3, <1>4

-----------------------------------------------------------------------------
(* The invariant of a search.                                               *)

\* The dispatcher picks one of the six.
LEMMA SelectedIsImpl == \A m : selected(m) \in Impls
BY DEF selected, Impls

\* The invariant holds before the first search, and every step keeps it.
LEMMA SearchInit ==
  ASSUME HashesRight, Init
  PROVE  SearchInv
<1>1. TypeOK
  BY DEF HashesRight, WellTyped, Init, TypeOK, Impls
<1>2. GroupIsNext /\ FirstMinimum /\ ReadsInside /\ ContextKept
  BY DEF Init, GroupIsNext, FirstMinimum, ReadsInside, ContextKept
<1>3. QED
  BY <1>1, <1>2 DEF SearchInv

\* Entering a search.
LEMMA StartKeeps ==
  ASSUME HashesRight, SearchInv, NEW c \in Calls, find_best_deadline_sph(c)
  PROVE  SearchInv'
<1>1. current_impl' \in Impls /\ call' = c /\ call' # NoCall
  BY SelectedIsImpl DEF find_best_deadline_sph, SearchInv, TypeOK, HashesRight, WellTyped
<1>2. width' = 0 /\ done' = 0 /\ at' = 0 /\ c.nonce_count \in Nat
  BY DEF find_best_deadline_sph, SearchInv, TypeOK, ReadsInside, HashesRight, WellTyped
<1>3. TypeOK'
  BY <1>1, <1>2 DEF find_best_deadline_sph, SearchInv, TypeOK, HashesRight, WellTyped
<1>4. FirstMinimum'
  BY <1>1, <1>2 DEF find_best_deadline_sph, FirstMinimum, FirstLeast
<1>5. GroupIsNext' /\ ReadsInside' /\ ContextKept'
  BY <1>1, <1>2 DEF find_best_deadline_sph, GroupIsNext, ReadsInside, ContextKept
<1>6. QED
  BY <1>3, <1>4, <1>5 DEF SearchInv

\* Hashing a group.
LEMMA GroupKeeps ==
  ASSUME HashesRight, SearchInv, HashGroup
  PROVE  SearchInv'
<1> DEFINE V == VectorSize[current_impl]
<1>1. /\ call \in Calls /\ call # NoCall /\ call.nonce_count \in Nat /\ at \in Nat
      /\ current_impl \in Impls \ {"base"} /\ V \in Nat \ {0}
      /\ at + V <= call.nonce_count /\ ctx = FastContext(current_impl)
  BY DEF HashGroup, Hashing, GroupFits, SearchInv, TypeOK, ContextKept, HashesRight,
         WellTyped
<1>2. /\ dls' = [l \in 0..(V - 1) |-> DeadlineOf(call, at + l)]
      /\ ctx' = ctx
  BY <1>1 DEF HashGroup, HashesRight, GroupsAgree
<1>3. width = 0 /\ width' = V /\ done = 0 /\ done' = 0 /\ at' = at /\ call' = call
      /\ current_impl' = current_impl /\ best_deadline' = best_deadline
      /\ best_offset' = best_offset /\ machine' = machine
      /\ initialized' = initialized
  BY DEF HashGroup, Hashing, SearchInv, TypeOK
<1>4. dls' \in [0..(V - 1) -> Deadlines]
  <2>1. \A l \in 0..(V - 1) : at + l \in Nat /\ at + l < call.nonce_count
    BY <1>1
  <2>2. \A l \in 0..(V - 1) : DeadlineOf(call, at + l) \in Deadlines
    BY <1>1, <2>1 DEF HashesRight, WellTyped
  <2>3. QED
    BY <1>2, <2>2
<1>5. TypeOK'
  BY <1>1, <1>3, <1>4 DEF SearchInv, TypeOK
<1>6. GroupIsNext'
  BY <1>1, <1>2, <1>3 DEF GroupIsNext
<1>7. FirstMinimum' /\ ReadsInside' /\ ContextKept'
  BY <1>1, <1>2, <1>3 DEF SearchInv, FirstMinimum, ReadsInside, ContextKept
<1>8. QED
  BY <1>5, <1>6, <1>7 DEF SearchInv

\* Hashing one nonce.
LEMMA NonceKeeps ==
  ASSUME HashesRight, SearchInv, HashNonce
  PROVE  SearchInv'
<1>1. /\ call \in Calls /\ call # NoCall /\ call.nonce_count \in Nat /\ at \in Nat
      /\ at < call.nonce_count
  BY DEF HashNonce, Hashing, SearchInv, TypeOK, HashesRight, WellTyped
<1>2. dls' = [l \in {0} |-> DeadlineOf(call, at)]
  BY <1>1 DEF HashNonce, HashesRight, GroupsAgree
<1>3. width = 0 /\ width' = 1 /\ done = 0 /\ done' = 0 /\ at' = at /\ call' = call
      /\ current_impl' = current_impl /\ best_deadline' = best_deadline
      /\ best_offset' = best_offset /\ machine' = machine
      /\ initialized' = initialized /\ ctx' = ctx
  BY DEF HashNonce, Hashing, SearchInv, TypeOK
<1>4. 0..(1 - 1) = {0}
  OBVIOUS
<1>5. DeadlineOf(call, at) \in Deadlines
  BY <1>1 DEF HashesRight, WellTyped
<1>a. dls' \in [0..(1 - 1) -> Deadlines]
  BY <1>2, <1>4, <1>5
<1>6. TypeOK'
  BY <1>1, <1>3, <1>a DEF SearchInv, TypeOK
<1>7. GroupIsNext'
  BY <1>1, <1>2, <1>3, <1>4 DEF GroupIsNext
<1>8. FirstMinimum' /\ ReadsInside' /\ ContextKept'
  BY <1>1, <1>3 DEF SearchInv, FirstMinimum, ReadsInside, ContextKept
<1>9. QED
  BY <1>6, <1>7, <1>8 DEF SearchInv

\* Comparing one deadline.
LEMMA CompareKeeps ==
  ASSUME HashesRight, SearchInv, SetBestDeadline
  PROVE  SearchInv'
<1>1. /\ width \in Nat /\ done \in Nat /\ done < width /\ width # 0
      /\ call \in Calls /\ call # NoCall /\ at \in Nat
      /\ call.nonce_count \in Nat /\ at + width <= call.nonce_count
      /\ best_deadline \in Deadlines /\ best_offset \in Nat
      /\ current_impl \in Impls /\ dls \in [0..(width - 1) -> Deadlines]
  BY DEF SetBestDeadline, SearchInv, TypeOK, ReadsInside, HashesRight, WellTyped
<1>2. dls[done] = DeadlineOf(call, at + done) /\ dls[done] \in Deadlines
  BY <1>1 DEF SearchInv, GroupIsNext
<1>3. FirstLeast(call, at + done, best_deadline, best_offset)
  BY <1>1 DEF SearchInv, FirstMinimum
<1>4. FirstLeast(call, at + done + 1, best_deadline', best_offset')
  <2>1. at + done \in Nat /\ at + done < call.nonce_count
    BY <1>1
  <2>2. QED
    BY <1>1, <1>2, <1>3, <2>1, OneMore DEF SetBestDeadline
<1>5. /\ call' = call /\ current_impl' = current_impl /\ ctx' = ctx /\ dls' = dls
      /\ machine' = machine /\ initialized' = initialized
      /\ best_deadline' \in Deadlines /\ best_offset' \in Nat
  BY <1>1, <1>2 DEF SetBestDeadline
<1>6. CASE done + 1 = width
  <2>1. done' = 0 /\ width' = 0 /\ at' = at + width /\ at' + done' = at + done + 1
        /\ at' \in Nat
    BY <1>1, <1>6 DEF SetBestDeadline
  <2>2. TypeOK'
    BY <1>1, <1>5, <2>1 DEF SearchInv, TypeOK
  <2>3. FirstMinimum' /\ ReadsInside' /\ GroupIsNext' /\ ContextKept'
    BY <1>1, <1>4, <1>5, <2>1 DEF SearchInv, FirstMinimum, ReadsInside, GroupIsNext, ContextKept
  <2>4. QED
    BY <2>2, <2>3 DEF SearchInv
<1>7. CASE done + 1 # width
  <2>1. done' = done + 1 /\ width' = width /\ at' = at
        /\ at' + done' = at + done + 1 /\ done' \in Nat /\ done' < width
    BY <1>1, <1>7 DEF SetBestDeadline
  <2>2. TypeOK'
    BY <1>1, <1>5, <2>1 DEF SearchInv, TypeOK
  <2>3. FirstMinimum' /\ ReadsInside' /\ GroupIsNext' /\ ContextKept'
    BY <1>1, <1>4, <1>5, <2>1 DEF SearchInv, FirstMinimum, ReadsInside, GroupIsNext, ContextKept
  <2>4. QED
    BY <2>2, <2>3 DEF SearchInv
<1>8. QED
  BY <1>6, <1>7

\* The other steps.
LEMMA OthersKeep ==
  ASSUME HashesRight, SearchInv, init_shabal_all \/ Return \/ UNCHANGED vars
  PROVE  SearchInv'
<1>1. CASE init_shabal_all
  <2>1. width = 0
    BY <1>1 DEF init_shabal_all, SearchInv, TypeOK
  <2>2. TypeOK'
    BY <1>1, <2>1, SelectedIsImpl DEF init_shabal_all, SearchInv, TypeOK
  <2>3. QED
    BY <1>1, <2>2 DEF init_shabal_all, SearchInv, GroupIsNext, FirstMinimum, ReadsInside,
                    ContextKept
<1>2. CASE Return
  BY <1>2 DEF Return, SearchInv, TypeOK, GroupIsNext, FirstMinimum, ReadsInside, ContextKept
<1>3. CASE UNCHANGED vars
  BY <1>3 DEF vars, SearchInv, TypeOK, GroupIsNext, FirstMinimum, FirstLeast, ReadsInside,
              ContextKept
<1>4. QED
  BY <1>1, <1>2, <1>3

\* Every step keeps the invariant.
LEMMA SearchStep == HashesRight /\ SearchInv /\ [Next]_vars => SearchInv'
BY StartKeeps, GroupKeeps, NonceKeeps, CompareKeeps, OthersKeep DEF Next

-----------------------------------------------------------------------------
(* The theorems.                                                            *)

\* The variables keep their types (shabal_dispatch.c, shabal_*.c).
THEOREM Typing == HashesRight => (Spec => []TypeOK)
<1> SUFFICES ASSUME HashesRight PROVE Spec => []TypeOK
  OBVIOUS
<1>1. Init => SearchInv
  BY SearchInit
<1>2. SearchInv /\ [Next]_vars => SearchInv'
  BY SearchStep
<1>3. SearchInv => TypeOK
  BY DEF SearchInv
<1>4. QED
  BY <1>1, <1>2, <1>3, PTL DEF Spec

\* Whatever implementation is chosen and whatever its number of lanes, the
\* search returns the least deadline of the buffer at its first nonce, as the
\* loop of find_best_deadline_base does.
THEOREM FindsFirstMinimum == HashesRight => (Spec => []FirstMinimum)
<1> SUFFICES ASSUME HashesRight PROVE Spec => []FirstMinimum
  OBVIOUS
<1>1. Init => SearchInv
  BY SearchInit
<1>2. SearchInv /\ [Next]_vars => SearchInv'
  BY SearchStep
<1>3. SearchInv => FirstMinimum
  BY DEF SearchInv
<1>4. QED
  BY <1>1, <1>2, <1>3, PTL DEF Spec

\* No group and no single hash takes data from behind the buffer's nonces.
THEOREM StaysInside == HashesRight => (Spec => []ReadsInside)
<1> SUFFICES ASSUME HashesRight PROVE Spec => []ReadsInside
  OBVIOUS
<1>1. Init => SearchInv
  BY SearchInit
<1>2. SearchInv /\ [Next]_vars => SearchInv'
  BY SearchStep
<1>3. SearchInv => ReadsInside
  BY DEF SearchInv
<1>4. QED
  BY <1>1, <1>2, <1>3, PTL DEF Spec

\* Every group of a search is hashed from the context the first one was.
THEOREM KeepsContext == HashesRight => (Spec => []ContextKept)
<1> SUFFICES ASSUME HashesRight PROVE Spec => []ContextKept
  OBVIOUS
<1>1. Init => SearchInv
  BY SearchInit
<1>2. SearchInv /\ [Next]_vars => SearchInv'
  BY SearchStep
<1>3. SearchInv => ContextKept
  BY DEF SearchInv
<1>4. QED
  BY <1>1, <1>2, <1>3, PTL DEF Spec

-----------------------------------------------------------------------------
(* The groups of the searches of src/c.                                     *)

\* r is what hashing the group of V nonces from i on is to return: their
\* deadlines and the context x it was given.
GroupRight(V, x, r, scoops, i, gensig) ==
  /\ r.dst = [l \in Lanes(V) |-> sph_shabal_deadline_fast(scoops[i + l], gensig)]
  /\ r.sc = x

\* V scoops from i on, and a generation signature.
GroupData(V, scoops, i, gensig) ==
  /\ i \in Nat /\ gensig \in [0..7 -> Word]
  /\ \A l \in Lanes(V) : scoops[i + l] \in Scoop

\* A group hashed from the fast copy of a context just initialised is right.
LEMMA StartedGroup ==
  ASSUME NEW V \in Widths, NEW sc, Started(V, sc), NEW scoops, NEW i, NEW gensig,
         GroupData(V, scoops, i, gensig)
  PROVE  GroupRight(V, fast_copy(sc, 44 * V),
                    deadline_fast(V, fast_copy(sc, 44 * V), u1(V, scoops, i, gensig),
                                  u2(V, scoops, i)),
                    scoops, i, gensig)
<1> DEFINE x == fast_copy(sc, 44 * V)
<1>1. TablesTyped
  BY InitialContexts
<1>2. FromTables(V, sc) /\ sc.Wlow = One /\ sc.Whigh = Zero
  BY <1>1, StartedFromTables
<1>3. FromTables(V, x)
  BY <1>2, FastCopy
<1>4. x.Wlow = One /\ x.Whigh = Zero /\ x = [d \in DOMAIN x |-> x[d]]
  BY <1>2 DEF fast_copy
<1> HIDE DEF x
<1>5. GroupRight(V, x, deadline_fast(V, x, u1(V, scoops, i, gensig), u2(V, scoops, i)),
                 scoops, i, gensig)
  BY <1>1, <1>3, <1>4, GroupDeadlines DEF GroupRight, GroupData
<1>6. QED
  BY <1>5 DEF x

\* The searches that hash groups.
Searches == {"sse2", "avx", "neon", "avx2", "avx512f"}

\* The lanes of the searches.
LEMMA SearchSizes ==
  /\ vector_size["base"] = 1 /\ vector_size["sse2"] = 4 /\ vector_size["avx"] = 4
  /\ vector_size["neon"] = 4 /\ vector_size["avx2"] = 8 /\ vector_size["avx512f"] = 16
  /\ \A impl \in Searches : vector_size[impl] \in Widths
BY DEF vector_size, Widths, Searches, MSHABAL128_VECTOR_SIZE, MSHABAL256_VECTOR_SIZE,
       MSHABAL512_VECTOR_SIZE

\* So it is in each of the five searches.
LEMMA SearchGroups ==
  ASSUME NEW impl \in Searches, NEW scoops, NEW i, NEW gensig,
         GroupData(vector_size[impl], scoops, i, gensig)
  PROVE  GroupRight(vector_size[impl], search_context(impl),
                    search_group(impl, search_context(impl), scoops, i, gensig),
                    scoops, i, gensig)
<1> DEFINE From(V, sc) == GroupRight(V, fast_copy(sc, 44 * V),
             deadline_fast(V, fast_copy(sc, 44 * V), u1(V, scoops, i, gensig),
                           u2(V, scoops, i)),
             scoops, i, gensig)
<1>1. CASE impl = "sse2"
  <2>1. Started(4, mshabal_init_sse2(256)) /\ GroupData(4, scoops, i, gensig) /\ 4 \in Widths
    BY <1>1, InitialContexts, SearchSizes DEF MSHABAL128_VECTOR_SIZE, Widths
  <2>2. From(4, mshabal_init_sse2(256))
    BY <2>1, StartedGroup
  <2>3. 44 * 4 = 176
    OBVIOUS
  <2>4. QED
    BY <1>1, <2>2, <2>3, SearchSizes DEF search_context, search_group, init_shabal_sse2,
       group_sse2, mshabal_deadline_fast_sse2, MSHABAL128_VECTOR_SIZE
<1>2. CASE impl = "avx"
  <2>1. Started(4, mshabal_init_avx(256)) /\ GroupData(4, scoops, i, gensig) /\ 4 \in Widths
    BY <1>2, InitialContexts, SearchSizes DEF MSHABAL128_VECTOR_SIZE, Widths
  <2>2. From(4, mshabal_init_avx(256))
    BY <2>1, StartedGroup
  <2>3. 44 * 4 = 176
    OBVIOUS
  <2>4. QED
    BY <1>2, <2>2, <2>3, SearchSizes DEF search_context, search_group, init_shabal_avx,
       group_avx, mshabal_deadline_fast_avx, MSHABAL128_VECTOR_SIZE
<1>3. CASE impl = "neon"
  <2>1. Started(4, mshabal_init_neon(256)) /\ GroupData(4, scoops, i, gensig) /\ 4 \in Widths
    BY <1>3, InitialContexts, SearchSizes DEF MSHABAL128_VECTOR_SIZE, Widths
  <2>2. From(4, mshabal_init_neon(256))
    BY <2>1, StartedGroup
  <2>3. 44 * 4 = 176
    OBVIOUS
  <2>4. QED
    BY <1>3, <2>2, <2>3, SearchSizes DEF search_context, search_group, init_shabal_neon,
       group_neon, mshabal_deadline_fast_neon, MSHABAL128_VECTOR_SIZE
<1>4. CASE impl = "avx2"
  <2>1. Started(8, mshabal_init_avx2(256)) /\ GroupData(8, scoops, i, gensig) /\ 8 \in Widths
    BY <1>4, InitialContexts, SearchSizes DEF MSHABAL256_VECTOR_SIZE, Widths
  <2>2. From(8, mshabal_init_avx2(256))
    BY <2>1, StartedGroup
  <2>3. 44 * 8 = 352
    OBVIOUS
  <2>4. QED
    BY <1>4, <2>2, <2>3, SearchSizes DEF search_context, search_group, init_shabal_avx2,
       group_avx2, mshabal_deadline_fast_avx2, MSHABAL256_VECTOR_SIZE
<1>5. CASE impl = "avx512f"
  <2>1. Started(16, mshabal_init_avx512f(256)) /\ GroupData(16, scoops, i, gensig)
        /\ 16 \in Widths
    BY <1>5, InitialContexts, SearchSizes DEF MSHABAL512_VECTOR_SIZE, Widths
  <2>2. From(16, mshabal_init_avx512f(256))
    BY <2>1, StartedGroup
  <2>3. 44 * 16 = 704
    OBVIOUS
  <2>4. QED
    BY <1>5, <2>2, <2>3, SearchSizes DEF search_context, search_group, init_shabal_avx512f,
       group_avx512f, mshabal_deadline_fast_avx512f, MSHABAL512_VECTOR_SIZE
<1>6. QED
  BY <1>1, <1>2, <1>3, <1>4, <1>5 DEF Searches

-----------------------------------------------------------------------------
(* The order of deadlines.                                                  *)

\* A set of bit positions that is not empty has a greatest one.
LEMMA Greatest ==
  ASSUME NEW S, S \subseteq 0..63, S # {}
  PROVE  \E i \in S : \A j \in S : j <= i
<1> DEFINE U == {63 - i : i \in S}
<1>1. U \subseteq Nat /\ U # {}
  <2>1. \A i \in S : 63 - i \in Nat
    OBVIOUS
  <2>2. QED
    BY <2>1
<1>2. PICK x \in U : \A y \in U : x <= y
  <2> HIDE DEF U
  <2>1. QED
    BY <1>1, LeastNat
<1>3. PICK i \in S : x = 63 - i
  OBVIOUS
<1>4. ASSUME NEW j \in S PROVE j <= i
  <2>1. 63 - j \in U
    OBVIOUS
  <2>2. x <= 63 - j
    BY <1>2, <2>1
  <2>3. QED
    BY <1>3, <2>2
<1>5. QED
  BY <1>4

\* Two deadlines that differ differ in a highest bit.
LEMMA BelowTotal ==
  ASSUME NEW d \in SUBSET (0..63), NEW e \in SUBSET (0..63), d # e
  PROVE  Below(d, e) \/ Below(e, d)
<1>1. Xor(d, e) \subseteq 0..63 /\ Xor(d, e) # {} /\ Xor(e, d) = Xor(d, e)
  BY DEF Xor
<1>2. PICK i \in Xor(d, e) : \A j \in Xor(d, e) : j <= i
  BY <1>1, Greatest
<1>3. i \in e \ d \/ i \in d \ e
  BY <1>2 DEF Xor
<1>4. QED
  BY <1>1, <1>2, <1>3 DEF Below

\* Of two highest bits the higher decides.
LEMMA BelowTransitive ==
  ASSUME NEW d \in SUBSET (0..63), NEW e \in SUBSET (0..63), NEW f \in SUBSET (0..63),
         Below(d, e), Below(e, f)
  PROVE  Below(d, f)
<1>1. PICK i \in e \ d : \A j \in Xor(d, e) : j <= i
  BY DEF Below
<1>2. PICK k \in f \ e : \A j \in Xor(e, f) : j <= k
  BY DEF Below
<1>3. i \in 0..63 /\ k \in 0..63 /\ i # k
  BY <1>1, <1>2
<1>4. \A j \in Xor(d, f) : j \in 0..63 /\ (j \in Xor(d, e) \/ j \in Xor(e, f))
  BY DEF Xor
<1>5. CASE i < k
  <2>1. k \notin Xor(d, e)
    BY <1>1, <1>3, <1>5
  <2>2. k \in f \ d
    BY <1>2, <2>1 DEF Xor
  <2>3. \A j \in Xor(d, f) : j <= k
    BY <1>1, <1>2, <1>3, <1>4, <1>5
  <2>4. QED
    BY <2>2, <2>3 DEF Below
<1>6. CASE k < i
  <2>1. i \notin Xor(e, f)
    BY <1>2, <1>3, <1>6
  <2>2. i \in f \ d
    BY <1>1, <2>1 DEF Xor
  <2>3. \A j \in Xor(d, f) : j <= i
    BY <1>1, <1>2, <1>3, <1>4, <1>6
  <2>4. QED
    BY <2>2, <2>3 DEF Below
<1>7. QED
  BY <1>3, <1>5, <1>6

-----------------------------------------------------------------------------
(* The deadline, by its definition.                                         *)

\* Byte k of a word.
byte_of(w, k) == {b \in 0..7 : (8 * k) + b \in w}

\* A word is read back from its bytes.
LEMMA WordOfBytes ==
  ASSUME NEW w \in Word
  PROVE  Word32(byte_of(w, 0), byte_of(w, 1), byte_of(w, 2), byte_of(w, 3)) = w
<1> DEFINE v == Word32(byte_of(w, 0), byte_of(w, 1), byte_of(w, 2), byte_of(w, 3))
<1>1. ASSUME NEW x \in v PROVE x \in w
  BY DEF Word32, byte_of
<1>2. ASSUME NEW x \in w PROVE x \in v
  <2>1. x \in 0..31
    BY DEF Word, Bits
  <2>2. x \in 0..7 \/ (x - 8) \in 0..7 \/ (x - 16) \in 0..7 \/ (x - 24) \in 0..7
    BY <2>1
  <2>3. CASE x \in 0..7
    <3>1. x \in byte_of(w, 0)
      BY <2>3 DEF byte_of
    <3>2. QED
      BY <3>1 DEF Word32
  <2>4. CASE (x - 8) \in 0..7
    <3>1. x - 8 \in byte_of(w, 1) /\ x = (x - 8) + 8
      BY <2>1, <2>4 DEF byte_of
    <3>2. QED
      BY <3>1 DEF Word32
  <2>5. CASE (x - 16) \in 0..7
    <3>1. x - 16 \in byte_of(w, 2) /\ x = (x - 16) + 16
      BY <2>1, <2>5 DEF byte_of
    <3>2. QED
      BY <3>1 DEF Word32
  <2>6. CASE (x - 24) \in 0..7
    <3>1. x - 24 \in byte_of(w, 3) /\ x = (x - 24) + 24
      BY <2>1, <2>6 DEF byte_of
    <3>2. QED
      BY <3>1 DEF Word32
  <2>7. QED
    BY <2>2, <2>3, <2>4, <2>5, <2>6
<1>3. QED
  BY <1>1, <1>2

\* The bytes at 4 * i.
LEMMA BytesAt ==
  ASSUME NEW words, NEW n \in Nat, NEW i \in 0..(n - 1), NEW k \in 0..3
  PROVE  bytes(words, n)[4 * i + k] = byte_of(words[i], k)
<1> DEFINE o == 4 * i + k
<1>1. o \in 0..(4 * n - 1) /\ o % 4 = k /\ o \div 4 = i
  OBVIOUS
<1> HIDE DEF o
<1>2. bytes(words, n)[o] = {b \in 0..7 : (8 * (o % 4)) + b \in words[o \div 4]}
  BY <1>1 DEF bytes
<1>3. bytes(words, n)[o] = byte_of(words[i], k)
  BY <1>1, <1>2 DEF byte_of
<1>4. QED
  BY <1>3 DEF o

\* Four bytes of a buffer that are those of a word.
WordIn(buf, i, w) == \A k \in 0..3 : buf[4 * i + k] = byte_of(w, k)

\* A word is found where its bytes are.
LEMMA WordFound ==
  ASSUME NEW buf, NEW i \in R16, NEW w \in Word, WordIn(buf, i, w)
  PROVE  word_at(buf, 4 * i) = w
<1>1. /\ buf[4 * i] = byte_of(w, 0) /\ buf[4 * i + 1] = byte_of(w, 1)
      /\ buf[4 * i + 2] = byte_of(w, 2) /\ buf[4 * i + 3] = byte_of(w, 3)
  BY DEF WordIn, R16
<1>2. QED
  BY <1>1, WordOfBytes DEF word_at

\* b is buf with n bytes of data from p on.
IsCopy(b, buf, p, data, n) ==
  \A o \in R64 : b[o] = IF o >= p /\ o < p + n THEN data[o - p] ELSE buf[o]

\* copied is such a copy.
LEMMA CopiedAt ==
  ASSUME NEW buf, NEW p \in Nat, NEW data, NEW n \in Nat
  PROVE  IsCopy(copied(buf, p, data, n), buf, p, data, n)
<1>1. \A o \in R64 : o \in p..(p + n - 1) <=> (o >= p /\ o < p + n)
  BY DEF R64
<1>2. QED
  BY <1>1 DEF copied, IsCopy

\* Byte k of the words after the first d bytes.
LEMMA AdvancedAt ==
  ASSUME NEW words, NEW n \in Nat, NEW d \in 0..(4 * n), NEW k \in 0..(4 * n - d - 1)
  PROVE  advanced(bytes(words, n), d)[k] = bytes(words, n)[k + d]
<1> DEFINE x == bytes(words, n)
<1>1. DOMAIN x = 0..(4 * n - 1)
  BY DEF bytes
<1> HIDE DEF x
<1>2. k + d \in DOMAIN x /\ k + d >= d /\ k = (k + d) - d
  BY <1>1
<1>3. k \in {e - d : e \in {e \in DOMAIN x : e >= d}}
  BY <1>2
<1>4. advanced(x, d)[k] = x[k + d]
  BY <1>3 DEF advanced
<1>5. QED
  BY <1>4 DEF x

\* The buffer that the first block is hashed from, and the last block's.
first_buf(scoop, gensig) ==
  [o \in R64 |-> IF o < 32 THEN bytes(gensig, 8)[o] ELSE bytes(scoop, 16)[o - 32]]
HasRest(buf, scoop) == \A o \in 0..31 : buf[o] = bytes(scoop, 16)[o + 32]

\* The buffer filled first decodes to the first block of the fast routine.
LEMMA FirstDecoded ==
  ASSUME NEW scoop \in Scoop, NEW gensig \in [0..7 -> Word]
  PROVE  DECODE_BLOCK(first_buf(scoop, gensig)) = FirstBlock(scoop, gensig)
<1> DEFINE buf == first_buf(scoop, gensig)
           w(i) == IF i < 8 THEN gensig[i] ELSE scoop[i - 8]
<1>1. ASSUME NEW i \in R16 PROVE word_at(buf, 4 * i) = w(i)
  <2>1. CASE i < 8
    <3>1. i \in 0..7 /\ w(i) = gensig[i] /\ gensig[i] \in Word /\ 8 - 1 = 7 /\ 8 \in Nat
      BY <2>1 DEF R16
    <3>2. ASSUME NEW k \in 0..3 PROVE buf[4 * i + k] = byte_of(gensig[i], k)
      <4>1. 4 * i + k \in R64 /\ 4 * i + k < 32
        BY <3>1 DEF R64
      <4>2. buf[4 * i + k] = bytes(gensig, 8)[4 * i + k]
        BY <4>1 DEF first_buf
      <4>3. QED
        BY <3>1, <4>2, BytesAt
    <3>3. WordIn(buf, i, gensig[i])
      BY <3>2 DEF WordIn
    <3> HIDE DEF buf, w
    <3>4. QED
      BY <3>1, <3>3, WordFound
  <2>2. CASE ~(i < 8)
    <3> DEFINE j == i - 8
    <3>1. j \in 0..15 /\ w(i) = scoop[j] /\ scoop[j] \in Word /\ 16 - 1 = 15 /\ 16 \in Nat
      <4>1. j \in R16 /\ j \in 0..15
        BY <2>2 DEF R16
      <4>2. QED
        BY <2>2, <4>1 DEF Scoop
    <3>2. ASSUME NEW k \in 0..3 PROVE buf[4 * i + k] = byte_of(scoop[j], k)
      <4>1. /\ 4 * i + k \in R64 /\ ~(4 * i + k < 32) /\ (4 * i + k) - 32 = 4 * j + k
        BY <2>2 DEF R16, R64
      <4>2. buf[4 * i + k] = bytes(scoop, 16)[4 * j + k]
        BY <4>1 DEF first_buf
      <4> HIDE DEF j
      <4>3. QED
        BY <3>1, <4>2, BytesAt
    <3>3. WordIn(buf, i, scoop[j])
      BY <3>2 DEF WordIn
    <3> HIDE DEF buf, w, j
    <3>4. QED
      BY <3>1, <3>3, WordFound
  <2>3. QED
    BY <2>1, <2>2
<1> HIDE DEF buf
<1>2. QED
  BY <1>1 DEF DECODE_BLOCK, FirstBlock, buf

\* The buffer padded last decodes to its second block.
LEMMA LastDecoded ==
  ASSUME NEW scoop \in Scoop, NEW buf, HasRest(buf, scoop)
  PROVE  DECODE_BLOCK(padded(buf, 32, {}, 0)) = SecondBlock(scoop)
<1> DEFINE b == padded(buf, 32, {}, 0)
           w(i) == IF i < 8 THEN scoop[i + 8] ELSE IF i = 8 THEN {7} ELSE {}
<1>1. last_byte({}, 0) = {7}
  BY DEF last_byte
<1>2. \A o \in R64 : b[o] = IF o < 32 THEN buf[o] ELSE IF o = 32 THEN {7} ELSE {}
  BY <1>1 DEF padded
<1>3. ASSUME NEW i \in R16 PROVE word_at(b, 4 * i) = w(i)
  <2>1. CASE i < 8
    <3> DEFINE j == i + 8
    <3>1. j \in 0..15 /\ w(i) = scoop[j] /\ scoop[j] \in Word /\ 16 - 1 = 15 /\ 16 \in Nat
      <4>1. j \in R16 /\ j \in 0..15
        BY <2>1 DEF R16
      <4>2. QED
        BY <2>1, <4>1 DEF Scoop
    <3>2. ASSUME NEW k \in 0..3 PROVE b[4 * i + k] = byte_of(scoop[j], k)
      <4>1. /\ 4 * i + k \in R64 /\ 4 * i + k < 32 /\ 4 * i + k \in 0..31
            /\ (4 * i + k) + 32 = 4 * j + k
        BY <2>1 DEF R16, R64
      <4> HIDE DEF b
      <4>2. b[4 * i + k] = bytes(scoop, 16)[4 * j + k]
        BY <1>2, <4>1 DEF HasRest
      <4> HIDE DEF j
      <4>3. QED
        BY <3>1, <4>2, BytesAt
    <3>3. WordIn(b, i, scoop[j])
      BY <3>2 DEF WordIn
    <3> HIDE DEF b, w, j
    <3>4. QED
      BY <3>1, <3>3, WordFound
  <2>2. CASE ~(i < 8)
    <3> HIDE DEF b
    <3>1. \A k \in 0..3 : /\ 4 * i + k \in R64 /\ ~(4 * i + k < 32)
                          /\ (4 * i + k = 32) <=> (i = 8 /\ k = 0)
      BY <2>2 DEF R16, R64
    <3>2. \A k \in 0..3 : b[4 * i + k] = IF i = 8 /\ k = 0 THEN {7} ELSE {}
      BY <1>2, <3>1
    <3>3. \A k \in 0..3 : byte_of(w(i), k) = IF i = 8 /\ k = 0 THEN {7} ELSE {}
      <4>1. \A k \in 0..3 : \A x \in 0..7 : ((8 * k) + x = 7) <=> (k = 0 /\ x = 7)
        OBVIOUS
      <4>2. CASE i = 8
        <5>1. w(i) = {7}
          BY <4>2
        <5> HIDE DEF w
        <5>2. QED
          BY <4>1, <4>2, <5>1 DEF byte_of
      <4>3. CASE i # 8
        BY <2>2, <4>3 DEF byte_of
      <4>4. QED
        BY <4>2, <4>3
    <3>4. w(i) \in Word
      BY <2>2 DEF Word, Bits
    <3> HIDE DEF w
    <3>5. WordIn(b, i, w(i))
      BY <3>2, <3>3 DEF WordIn
    <3> DEFINE v == w(i)
    <3> HIDE DEF v
    <3>6. word_at(b, 4 * i) = v
      BY <3>4, <3>5, WordFound DEF v
    <3>7. QED
      BY <3>6 DEF v
  <2>3. QED
    BY <2>1, <2>2
<1> HIDE DEF b
<1>4. QED
  BY <1>3 DEF DECODE_BLOCK, SecondBlock, b

\* A context after whole blocks: h, with n bytes waiting in a buffer.
Waiting(cc, h, n) ==
  /\ {"A", "B", "C", "Wlow", "Whigh", "buf", "ptr"} \subseteq DOMAIN cc
  /\ HashState(cc) /\ SameState(cc, h) /\ cc.ptr = n

\* A fresh context has the tables, and nothing waits.
LEMMA FreshWaits ==
  Waiting(fresh, fast_start, 0) /\ HashState(fast_start)
<1>1. TablesTyped
  BY InitialContexts
<1>2. /\ {"A", "B", "C", "Wlow", "Whigh", "buf", "ptr"} \subseteq DOMAIN fresh
      /\ fresh.A = A_init_256 /\ fresh.B = B_init_256 /\ fresh.C = C_init_256
      /\ fresh.Wlow = One /\ fresh.Whigh = Zero /\ fresh.ptr = 0
  BY DEF fresh, sph_shabal256_init
<1>3. /\ Regs(fresh) = Regs(fast_start) /\ HashState(fast_start)
      /\ fast_start.Wlow = One /\ fast_start.Whigh = Zero
  BY <1>1, <1>2, StartState DEF Regs, fast_start
<1>4. HashState(fresh)
  BY <1>2, <1>3 DEF HashState
<1>5. QED
  BY <1>2, <1>3, <1>4 DEF Waiting, SameState

\* Another buffer and another count of waiting bytes.
rebuffered(cc, buf, n) == [cc EXCEPT !.buf = buf, !.ptr = n]

\* It changes nothing else.
LEMMA Rebuffered ==
  ASSUME NEW cc, NEW h, NEW m, Waiting(cc, h, m), NEW buf, NEW n,
         NEW u, u = rebuffered(cc, buf, n)
  PROVE  Waiting(u, h, n) /\ u.buf = buf
<1>1. /\ DOMAIN u = DOMAIN cc /\ u.A = cc.A /\ u.B = cc.B /\ u.C = cc.C
      /\ u.Wlow = cc.Wlow /\ u.Whigh = cc.Whigh /\ u.buf = buf /\ u.ptr = n
  BY DEF Waiting, rebuffered
<1>2. QED
  BY <1>1 DEF Waiting, HashState, SameState, Regs

\* The signature waits in the buffer.
LEMMA SignedWaits ==
  ASSUME NEW gensig
  PROVE  /\ Waiting(signed(gensig), fast_start, 32)
         /\ signed(gensig).buf = copied(fresh.buf, 0, bytes(gensig, 8), 32)
<1> DEFINE g == bytes(gensig, 8)
           b == copied(fresh.buf, 0, g, 32)
<1>1. Waiting(fresh, fast_start, 0)
  BY FreshWaits
<1>2. fresh.ptr = 0
  BY <1>1 DEF Waiting
<1>3. signed(gensig) = rebuffered(fresh, b, 32)
  BY <1>1, <1>2 DEF rebuffered, signed, sph_shabal256, Waiting
<1> HIDE DEF b
<1>4. Waiting(signed(gensig), fast_start, 32) /\ signed(gensig).buf = b
  BY <1>1, <1>3, Rebuffered
<1>5. QED
  BY <1>4 DEF b

\* The signature and half of the scoop fill the buffer.
LEMMA FirstFull ==
  ASSUME NEW scoop, NEW gensig
  PROVE  full_buf(signed(gensig), signed(gensig), bytes(scoop, 16), 1) = first_buf(scoop, gensig)
<1> DEFINE c == signed(gensig)
           x == bytes(scoop, 16)
           a == advanced(x, 0)
           b == copied(c.buf, 32, a, 32)
           d == first_buf(scoop, gensig)
<1>1. c.ptr = 32 /\ c.buf = copied(fresh.buf, 0, bytes(gensig, 8), 32)
  BY SignedWaits DEF Waiting
<1>2. full_buf(c, c, x, 1) = b
  BY <1>1 DEF full_buf, used_after
<1>a. IsCopy(b, c.buf, 32, a, 32)
  <2>1. 32 \in Nat
    OBVIOUS
  <2> HIDE DEF a, c
  <2>2. QED
    BY <2>1, CopiedAt
<1>3. ASSUME NEW o \in R64 PROVE b[o] = d[o]
  <2>1. CASE o < 32
    <3>1. c.buf[o] = bytes(gensig, 8)[o]
      <4>1. 0 \in Nat /\ 32 \in Nat /\ o >= 0 /\ o < 0 + 32 /\ o - 0 = o
        BY <2>1 DEF R64
      <4>2. IsCopy(c.buf, fresh.buf, 0, bytes(gensig, 8), 32)
        BY <1>1, <4>1, CopiedAt
      <4> HIDE DEF c
      <4>3. QED
        BY <4>1, <4>2 DEF IsCopy
    <3>2. ~(o >= 32)
      BY <2>1 DEF R64
    <3> HIDE DEF a, b, c
    <3>3. b[o] = c.buf[o]
      BY <1>a, <3>2 DEF IsCopy
    <3>4. QED
      BY <2>1, <3>1, <3>3 DEF first_buf
  <2>2. CASE ~(o < 32)
    <3> DEFINE k == o - 32
    <3>1. o >= 32 /\ o < 32 + 32 /\ k \in 0..(4 * 16 - 0 - 1) /\ k + 0 = k
          /\ 0 \in 0..(4 * 16) /\ 16 \in Nat /\ 32 \in Nat
      BY <2>2 DEF R64
    <3> HIDE DEF a, b, c
    <3>2. b[o] = a[k]
      BY <1>a, <3>1 DEF IsCopy
    <3>3. a[k] = x[k]
      <4> HIDE DEF k
      <4>1. QED
        BY <3>1, AdvancedAt DEF a
    <3>4. QED
      BY <2>2, <3>2, <3>3 DEF first_buf
  <2>3. QED
    BY <2>1, <2>2
<1>4. b = [o \in R64 |-> b[o]] /\ d = [o \in R64 |-> d[o]]
  BY DEF copied, first_buf
<1> HIDE DEF b, d
<1>5. b = d
  BY <1>3, <1>4
<1>6. QED
  BY <1>2, <1>5 DEF d

\* The first half of the scoop has filled the buffer and gone into the state,
\* the second half waits.
LEMMA ScoopWaits ==
  ASSUME NEW scoop \in Scoop, NEW gensig \in [0..7 -> Word],
         NEW cc, cc = sph_shabal256(signed(gensig), bytes(scoop, 16), 64)
  PROVE  /\ Waiting(cc, message_block(fast_start, FirstBlock(scoop, gensig)), 32)
         /\ HasRest(cc.buf, scoop)
<1> DEFINE c == signed(gensig)
           x == bytes(scoop, 16)
           M == FirstBlock(scoop, gensig)
           full == first_buf(scoop, gensig)
           h == message_block(fast_start, M)
           t == message_block(c, M)
<1>1. Waiting(c, fast_start, 32) /\ HashState(fast_start)
  BY SignedWaits, FreshWaits
<1>2. c.ptr = 32
  BY <1>1 DEF Waiting
<1>3. cc = consume(c, x, 64)
  BY <1>2 DEF sph_shabal256
<1>4. PICK f : ConsumeRun(f, c, x, 1) /\ cc = kept_rest(f[1], c, x, 64, 1)
  <2>1. 1 \in Nat /\ 1 = (c.ptr + 64) \div 64
    BY <1>2
  <2> HIDE DEF c, x
  <2>2. QED
    BY <1>3, <2>1, ConsumeIs
<1>5. full_buf(c, c, x, 1) = full /\ DECODE_BLOCK(full) = M
  BY FirstFull, FirstDecoded
<1>6. f[1] = rebuffered(t, full, 0)
  <2>1. f[1] = emptied(c, f[0], x, 1) /\ f[0] = c
    BY <1>4 DEF ConsumeRun
  <2> HIDE DEF c, x, full, M
  <2>2. QED
    BY <1>5, <2>1 DEF emptied, rebuffered
<1>7. M \in Block
  <2>1. \A k \in R16 : /\ k < 8 => k \in 0..7
                       /\ ~(k < 8) => k - 8 \in R16
    BY DEF R16
  <2>2. QED
    BY <2>1 DEF FirstBlock, Block, Scoop
<1> HIDE DEF M
<1>8. HashState(t) /\ DOMAIN t = DOMAIN c /\ SameState(t, h)
  BY <1>1, <1>7, MessageBlock, SameBlock DEF Waiting, Beside
<1> HIDE DEF t, h
<1>9. Waiting(t, h, t.ptr)
  BY <1>1, <1>8 DEF Waiting
<1> HIDE DEF full
<1>10. Waiting(f[1], h, 0) /\ f[1].buf = full
  BY <1>6, <1>9, Rebuffered
<1>11. used_after(c, 1) = 32 /\ 64 - 32 = 32
  BY <1>2 DEF used_after
<1> DEFINE a == advanced(x, 32)
           b == copied(f[1].buf, 0, a, 32)
<1>12. cc = rebuffered(f[1], b, 32)
  <2> HIDE DEF c, x
  <2>1. QED
    BY <1>4, <1>10, <1>11 DEF kept_rest, Waiting, rebuffered
<1> HIDE DEF a
<1>a. IsCopy(b, f[1].buf, 0, a, 32)
  <2>1. 32 \in Nat /\ 0 \in Nat
    OBVIOUS
  <2>2. QED
    BY <2>1, CopiedAt
<1> HIDE DEF b
<1>13. ASSUME NEW o \in 0..31 PROVE b[o] = x[o + 32]
  <2>1. /\ o \in R64 /\ o >= 0 /\ o < 0 + 32 /\ o - 0 = o /\ 0 \in Nat /\ 32 \in Nat
        /\ o \in 0..(4 * 16 - 32 - 1) /\ 32 \in 0..(4 * 16) /\ 16 \in Nat
    BY DEF R64
  <2>2. b[o] = a[o]
    BY <1>a, <2>1 DEF IsCopy
  <2>3. a[o] = x[o + 32]
    BY <2>1, AdvancedAt DEF a
  <2>4. QED
    BY <2>2, <2>3
<1>14. Waiting(cc, h, 32) /\ cc.buf = b
  BY <1>10, <1>12, Rebuffered
<1>15. HasRest(cc.buf, scoop)
  BY <1>13, <1>14 DEF HasRest
<1>16. QED
  BY <1>14, <1>15 DEF h, M

\* The routine for whole blocks computes the deadline as it is defined: the
\* beginning of the Shabal-256 hash of the signature followed by the scoop
\* (sph_shabal_deadline_fast against sph_shabal256 and its _close).
THEOREM DeadlineIsHash ==
  ASSUME NEW scoop \in Scoop, NEW gensig \in [0..7 -> Word]
  PROVE  sph_shabal_deadline_fast(scoop, gensig) = deadline_of(scoop, gensig)
<1> DEFINE cc == sph_shabal256(signed(gensig), bytes(scoop, 16), 64)
           M == FirstBlock(scoop, gensig)
           E == SecondBlock(scoop)
           h == message_block(fast_start, M)
           d == sph_shabal256_close(cc)
<1>1. Waiting(cc, h, 32) /\ HasRest(cc.buf, scoop)
  BY ScoopWaits
<1>2. deadline_of(scoop, gensig) = Word64(d[0], d[1])
  BY DEF deadline_of
<1> HIDE DEF cc
<1>3. DECODE_BLOCK(padded(cc.buf, 32, {}, 0)) = E
  BY <1>1, LastDecoded
<1>4. M \in Block /\ E \in Block
  <2>1. {7} \in Word /\ {} \in Word
    BY DEF Word, Bits
  <2>2. \A k \in R16 : /\ k < 8 => k \in 0..7 /\ k + 8 \in R16
                       /\ ~(k < 8) => k - 8 \in R16
    BY DEF R16
  <2>3. M \in Block
    BY <2>2 DEF FirstBlock, Block, Scoop
  <2>4. E \in Block
    BY <2>1, <2>2 DEF SecondBlock, Block, Scoop
  <2>5. QED
    BY <2>3, <2>4
<1> HIDE DEF E
<1>5. HashState(h)
  BY <1>4, FreshWaits, MessageBlock
<1>6. d = [i \in 0..7 |-> final_block(cc, E).B[i + 8]]
  BY <1>1, <1>3 DEF sph_shabal256_close, shabal_close, Waiting
<1>7. d[0] = final_block(cc, E).B[8] /\ d[1] = final_block(cc, E).B[9]
  BY <1>6
<1> HIDE DEF M, d, h
<1>8. final_block(cc, E).B = final_block(h, E).B
  BY <1>1, <1>4, <1>5, SameEnd DEF Waiting
<1>9. sph_shabal_deadline_fast(scoop, gensig) =
        Word64(final_block(h, E).B[8], final_block(h, E).B[9])
  BY DEF sph_shabal_deadline_fast, FirstBlock, SecondBlock, M, E, h
<1>10. QED
  BY <1>2, <1>7, <1>8, <1>9

\* The two blocks of a search are blocks.
LEMMA BlocksTyped ==
  ASSUME NEW scoop \in Scoop, NEW gensig \in [0..7 -> Word]
  PROVE  FirstBlock(scoop, gensig) \in Block /\ SecondBlock(scoop) \in Block
<1>1. {7} \in Word /\ {} \in Word
  BY DEF Word, Bits
<1>2. \A k \in R16 : /\ k < 8 => k \in 0..7 /\ k + 8 \in R16
                     /\ ~(k < 8) => k - 8 \in R16
  BY DEF R16
<1>3. FirstBlock(scoop, gensig) \in Block
  BY <1>2 DEF FirstBlock, Block, Scoop
<1>4. SecondBlock(scoop) \in Block
  BY <1>1, <1>2 DEF SecondBlock, Block, Scoop
<1>5. QED
  BY <1>3, <1>4

\* Two words make 64 bits.
LEMMA Word64Typed ==
  ASSUME NEW lo \in Word, NEW hi \in Word
  PROVE  Word64(lo, hi) \in SUBSET (0..63)
<1>1. lo \subseteq 0..31 /\ hi \subseteq 0..31
  BY DEF Word, Bits
<1>2. \A i \in hi : i + 32 \in 0..63
  BY <1>1
<1>3. \A i \in lo : i \in 0..63
  BY <1>1
<1>4. QED
  BY <1>2, <1>3 DEF Word64

\* A deadline has 64 bits.
LEMMA DeadlineTyped ==
  ASSUME NEW scoop \in Scoop, NEW gensig \in [0..7 -> Word]
  PROVE  sph_shabal_deadline_fast(scoop, gensig) \in SUBSET (0..63)
<1> DEFINE M == FirstBlock(scoop, gensig)
           E == SecondBlock(scoop)
           h == message_block(fast_start, M)
           b == final_block(h, E).B
<1>1. M \in Block /\ E \in Block
  BY BlocksTyped
<1>2. sph_shabal_deadline_fast(scoop, gensig) = Word64(b[8], b[9])
  BY DEF sph_shabal_deadline_fast, FirstBlock, SecondBlock
<1> HIDE DEF M, E
<1>3. HashState(h)
  BY <1>1, FreshWaits, MessageBlock
<1> HIDE DEF h
<1>4. b = Closing(Regs(h), E, h.Wlow, h.Whigh).C
  BY <1>1, <1>3, FinalBlock
<1>5. Closing(Regs(h), E, h.Wlow, h.Whigh) \in Registers
  BY <1>1, <1>3, ClosingTyped DEF HashState
<1>6. b \in [R16 -> Word]
  BY <1>4, <1>5, RegsParts
<1> HIDE DEF b
<1>7. b[8] \in Word /\ b[9] \in Word
  BY <1>6 DEF R16
<1>8. QED
  BY <1>2, <1>7, Word64Typed

-----------------------------------------------------------------------------
(* The searches of src/c.                                                   *)

\* The parameters of FindBest are those of the searches: their hashes, and
\* as the deadline the one that is defined; a buffer holds nonce_count scoops.
ShabalSearch ==
  /\ NoCall \notin Calls
  /\ \A c \in Calls :
       /\ c.nonce_count \in Nat /\ GensigOf(c) \in [0..7 -> Word]
       /\ \A i \in Nat : i < c.nonce_count => ScoopsOf(c)[i] \in Scoop
  /\ Deadlines = SUBSET (0..63) /\ MaxDeadline = 0..63
  /\ \A d, e \in Deadlines : Smaller(d, e) <=> Below(d, e)
  /\ VectorSize = vector_size
  /\ \A impl \in Impls : FastContext(impl) = search_context(impl)
  /\ \A impl \in Impls, c \in Calls, i \in Nat :
       Group(impl, FastContext(impl), c, i) =
         search_group(impl, search_context(impl), ScoopsOf(c), i, GensigOf(c))
  /\ \A c \in Calls, i \in Nat : i < c.nonce_count =>
       /\ Scalar(c, i) = sph_shabal_deadline_fast(ScoopsOf(c)[i], GensigOf(c))
       /\ DeadlineOf(c, i) = deadline_of(ScoopsOf(c)[i], GensigOf(c))

\* The groups of a search are right while they fit its buffer.
LEMMA ShabalGroups ==
  ASSUME ShabalSearch, NEW impl \in Impls \ {"base"}, NEW c \in Calls, NEW i \in Nat,
         i + VectorSize[impl] <= c.nonce_count
  PROVE  /\ Group(impl, FastContext(impl), c, i).sc = FastContext(impl)
         /\ Group(impl, FastContext(impl), c, i).dst =
              [l \in 0..(VectorSize[impl] - 1) |-> DeadlineOf(c, i + l)]
<1> DEFINE V == vector_size[impl]
           x == search_context(impl)
           s == ScoopsOf(c)
           g == GensigOf(c)
           r == search_group(impl, x, s, i, g)
<1>1. impl \in Searches /\ V \in Widths /\ VectorSize[impl] = V
  BY SearchSizes DEF Impls, Searches, ShabalSearch
<1>2. V \in Nat /\ i + V <= c.nonce_count /\ c.nonce_count \in Nat
  BY <1>1 DEF Widths, ShabalSearch
<1>3. FastContext(impl) = x /\ Group(impl, FastContext(impl), c, i) = r
  BY DEF ShabalSearch
<1> HIDE DEF V
<1>4. \A l \in Lanes(V) : i + l \in Nat /\ i + l < c.nonce_count
  BY <1>2 DEF Lanes
<1>5. g \in [0..7 -> Word] /\ \A l \in Lanes(V) : s[i + l] \in Scoop
  BY <1>4 DEF ShabalSearch
<1>6. GroupData(V, s, i, g)
  BY <1>5 DEF GroupData
<1>7. GroupRight(V, x, r, s, i, g)
  <2> HIDE DEF x, s, g, r
  <2>1. QED
    BY <1>1, <1>6, SearchGroups DEF V, x, r
<1>8. ASSUME NEW l \in Lanes(V)
      PROVE  sph_shabal_deadline_fast(s[i + l], g) = DeadlineOf(c, i + l)
  <2>1. DeadlineOf(c, i + l) = deadline_of(s[i + l], g)
    BY <1>4 DEF ShabalSearch
  <2>2. sph_shabal_deadline_fast(s[i + l], g) = deadline_of(s[i + l], g)
    BY <1>5, DeadlineIsHash
  <2>3. QED
    BY <2>1, <2>2
<1> HIDE DEF x, s, g, r
<1>9. r.dst = [l \in Lanes(V) |-> DeadlineOf(c, i + l)]
  BY <1>7, <1>8 DEF GroupRight
<1>10. r.sc = x
  BY <1>7 DEF GroupRight
<1>11. QED
  BY <1>1, <1>3, <1>9, <1>10 DEF Lanes

\* What the theorems above ask of the hashes, the searches of src/c have.
THEOREM ShabalIsRight == ShabalSearch => HashesRight
<1> SUFFICES ASSUME ShabalSearch PROVE HashesRight
  OBVIOUS
<1>1. ASSUME NEW c \in Calls, NEW i \in Nat, i < c.nonce_count
      PROVE  Scalar(c, i) = DeadlineOf(c, i) /\ DeadlineOf(c, i) \in Deadlines
  <2>1. ScoopsOf(c)[i] \in Scoop /\ GensigOf(c) \in [0..7 -> Word]
    BY <1>1 DEF ShabalSearch
  <2>2. /\ Scalar(c, i) = sph_shabal_deadline_fast(ScoopsOf(c)[i], GensigOf(c))
        /\ DeadlineOf(c, i) = deadline_of(ScoopsOf(c)[i], GensigOf(c))
        /\ Deadlines = SUBSET (0..63)
    BY <1>1 DEF ShabalSearch
  <2>3. QED
    BY <2>1, <2>2, DeadlineIsHash, DeadlineTyped
<1>2. \A impl \in Impls : VectorSize[impl] \in Nat \ {0}
  <2>1. VectorSize = vector_size
    BY DEF ShabalSearch
  <2>2. QED
    BY <2>1, SearchSizes DEF Impls
<1>3. WellTyped
  BY <1>1, <1>2 DEF WellTyped, ShabalSearch
<1>4. SmallerOrders
  <2>1. Deadlines = SUBSET (0..63) /\ \A d, e \in Deadlines : Smaller(d, e) <=> Below(d, e)
    BY DEF ShabalSearch
  <2>2. \A d \in Deadlines : ~Below(d, d)
    BY DEF Below
  <2>3. \A d, e, f \in Deadlines : Below(d, e) /\ Below(e, f) => Below(d, f)
    BY <2>1, BelowTransitive
  <2>4. \A d, e \in Deadlines : d = e \/ Below(d, e) \/ Below(e, d)
    BY <2>1, BelowTotal
  <2>5. QED
    BY <2>1, <2>2, <2>3, <2>4 DEF SmallerOrders
<1>5. GroupsAgree
  BY <1>1, ShabalGroups DEF GroupsAgree
<1>6. QED
  BY <1>3, <1>4, <1>5 DEF HashesRight

\* On every machine, whichever implementation it gets, a search of any buffer
\* returns the least deadline and the first nonce that has it, a deadline being
\* the beginning of the Shabal-256 hash of the signature and the scoop.
THEOREM ShabalFindsFirstMinimum == ShabalSearch => (Spec => []FirstMinimum)
BY ShabalIsRight, FindsFirstMinimum

\* Every group of the searches of src/c is hashed from the fast context, and
\* none of its data comes from behind the buffer.
THEOREM ShabalSearchesSafely == ShabalSearch => (Spec => [](ReadsInside /\ ContextKept))
<1>1. ShabalSearch => (Spec => []ReadsInside)
  BY ShabalIsRight, StaysInside
<1>2. ShabalSearch => (Spec => []ContextKept)
  BY ShabalIsRight, KeepsContext
<1>3. QED
  BY <1>1, <1>2, PTL
=============================================================================
