------------------------------ MODULE FindBest ------------------------------
(***************************************************************************)
(* The search for the best deadline of a buffer: the dispatcher of          *)
(* src/c/shabal_dispatch.c, which picks an implementation once, and the     *)
(* loop that find_best_deadline_base and the five SIMD searches share.  The *)
(* loop hashes V nonces at once while V are left and one at a time after    *)
(* that, and compares each deadline with the best so far.                   *)
(*                                                                          *)
(* The hashes are parameters: module SearchHashes has those of the code,    *)
(* which MCFindBest runs; FindBestProofs says what a search needs of its    *)
(* hashes, and that these have it.                                          *)
(***************************************************************************)
EXTENDS Naturals

CONSTANTS
  Machines,     \* [arch, apple, avx512f, avx2, avx]: the platform and what
                \* the detect_* functions report of it
  Calls,        \* [scoops, nonce_count, gensig]: arguments of a search
  NoCall,
  Deadlines,    \* the values of a deadline, uint64_t
  MaxDeadline,  \* u64::MAX, which cpu_worker.rs passes in
  Smaller(_, _),  \* d < *best_deadline
  VectorSize,   \* the lanes of each implementation; 1 for the base one
  FastContext(_),     \* the context init_shabal_* leaves
  Group(_, _, _, _),  \* (impl, x, call, i): the deadlines of the nonces from i
                      \* on, one per lane, and the context after them
  Scalar(_, _),       \* (call, i): sph_shabal_deadline_fast
  DeadlineOf(_, _)    \* (call, i): what the deadline of nonce i is

VARIABLES
  machine,
  initialized, current_impl,   \* the dispatcher's globals
  call,                        \* the arguments of the running search
  at,                          \* i, the loop's counter
  ctx,                         \* x, the search's copy of the fast context
  dls,                         \* d0, d1, ...: the deadlines just computed
  width,                       \* how many they are; 0: about to hash
  done,                        \* how many of them have been compared
  best_deadline, best_offset

vars == <<machine, initialized, current_impl, call, at, ctx, dls, width, done,
          best_deadline, best_offset>>

Impls == {"base", "sse2", "avx", "avx2", "avx512f", "neon"}

\* detect_sse2 is 1 on every x86_64.
selected(m) ==
  CASE m.arch = "x86_64" /\ ~m.apple /\ m.avx512f -> "avx512f"
    [] m.arch = "x86_64" /\ (m.apple \/ ~m.avx512f) /\ m.avx2 -> "avx2"
    [] m.arch = "x86_64" /\ (m.apple \/ ~m.avx512f) /\ ~m.avx2 /\ m.avx -> "avx"
    [] m.arch = "x86_64" /\ (m.apple \/ ~m.avx512f) /\ ~m.avx2 /\ ~m.avx -> "sse2"
    [] m.arch = "arm" -> "neon"
    [] OTHER -> "base"

\* d0 = d1 = ... = 0, which nothing reads.
NoneYet == [l \in {} |-> MaxDeadline]

Init ==
  /\ machine \in Machines
  /\ initialized = FALSE
  /\ current_impl = "base"
  /\ call = NoCall
  /\ at = 0
  /\ ctx = FastContext("base")
  /\ dls = NoneYet
  /\ width = 0
  /\ done = 0
  /\ best_deadline = MaxDeadline
  /\ best_offset = 0

\* main.rs calls it before there is anything to search.
init_shabal_all ==
  /\ call = NoCall
  /\ ~initialized
  /\ initialized' = TRUE
  /\ current_impl' = selected(machine)
  /\ UNCHANGED <<machine, call, at, ctx, dls, width, done, best_deadline,
                 best_offset>>

\* The call enters, initializing the dispatcher if nobody has (the tests do
\* not), and reaches the loop of the chosen search.
find_best_deadline_sph(c) ==
  /\ call = NoCall
  /\ call' = c
  /\ initialized' = TRUE
  /\ current_impl' = IF initialized THEN current_impl ELSE selected(machine)
  /\ ctx' = FastContext(current_impl')
  /\ at' = 0
  /\ best_deadline' = MaxDeadline
  /\ best_offset' = 0
  /\ dls' = NoneYet
  /\ UNCHANGED <<machine, width, done>>

Hashing == call # NoCall /\ width = 0 /\ at < call.nonce_count
\* Mutated: a group may begin at any nonce that is left.
GroupFits_Begins == current_impl # "base" /\ at < call.nonce_count
GroupFits == current_impl # "base"
             /\ at + VectorSize[current_impl] <= call.nonce_count

HashGroup ==
  /\ Hashing /\ GroupFits
  /\ LET r == Group(current_impl, ctx, call, at)
     IN  dls' = r.dst /\ ctx' = r.sc
  /\ width' = VectorSize[current_impl]
  /\ UNCHANGED <<machine, initialized, current_impl, call, at, done,
                 best_deadline, best_offset>>

HashNonce ==
  /\ Hashing /\ ~GroupFits
  /\ dls' = [l \in {0} |-> Scalar(call, at)]
  /\ width' = 1
  /\ UNCHANGED <<machine, initialized, current_impl, call, at, ctx, done,
                 best_deadline, best_offset>>

\* Mutated: the offset is the group's.
SetBestDeadline_OfGroup ==
  /\ done < width
  /\ IF Smaller(dls[done], best_deadline)
     THEN best_deadline' = dls[done] /\ best_offset' = at
     ELSE UNCHANGED <<best_deadline, best_offset>>
  /\ IF done + 1 = width
     THEN done' = 0 /\ width' = 0 /\ at' = at + width
     ELSE done' = done + 1 /\ UNCHANGED <<width, at>>
  /\ UNCHANGED <<machine, initialized, current_impl, call, ctx, dls>>

\* SET_BEST_DEADLINE(d0, i + 0), (d1, i + 1), ...; after the last one the loop's
\* counter moves past the group.
SetBestDeadline ==
  /\ done < width
  /\ IF Smaller(dls[done], best_deadline)
     THEN best_deadline' = dls[done] /\ best_offset' = at + done
     ELSE UNCHANGED <<best_deadline, best_offset>>
  /\ IF done + 1 = width
     THEN done' = 0 /\ width' = 0 /\ at' = at + width
     ELSE done' = done + 1 /\ UNCHANGED <<width, at>>
  /\ UNCHANGED <<machine, initialized, current_impl, call, ctx, dls>>

Return ==
  /\ call # NoCall /\ width = 0 /\ at >= call.nonce_count
  /\ call' = NoCall
  /\ UNCHANGED <<machine, initialized, current_impl, at, ctx, dls, width, done,
                 best_deadline, best_offset>>

Next ==
  \/ init_shabal_all
  \/ \E c \in Calls : find_best_deadline_sph(c)
  \/ HashGroup
  \/ HashNonce
  \/ SetBestDeadline
  \/ Return

Spec == Init /\ [][Next]_vars

-----------------------------------------------------------------------------
(* Properties.                                                              *)

\* The values of the variables.
TypeOK ==
  /\ machine \in Machines
  /\ initialized \in BOOLEAN
  /\ current_impl \in Impls
  /\ call \in Calls \cup {NoCall}
  /\ at \in Nat /\ done \in Nat
  /\ width \in {0, 1, VectorSize[current_impl]}
  /\ width # 0 => done < width /\ call # NoCall /\ dls \in [0..(width - 1) -> Deadlines]
  /\ width = 0 => done = 0
  /\ best_deadline \in Deadlines
  /\ best_offset \in Nat

\* best and off are the least deadline of the first n nonces of call c that is
\* below u64::MAX, and the first nonce that has it.
FirstLeast(c, n, best, off) ==
  /\ \A j \in 0..(n - 1) : ~Smaller(DeadlineOf(c, j), best)
  /\ \/ best = MaxDeadline /\ off = 0
     \/ /\ off \in 0..(n - 1)
        /\ best = DeadlineOf(c, off)
        /\ \A j \in 0..(off - 1) : Smaller(best, DeadlineOf(c, j))

\* At every moment of a search the result is that of a scan, nonce by nonce,
\* of the nonces compared so far: whichever implementation the machine got,
\* however the nonces were split into groups and a tail, and with ties going
\* to the lower nonce.  At the end it is the buffer's best (shabal_*.c, the
\* SET_BEST_DEADLINE sequences against the loop of find_best_deadline_base).
FirstMinimum ==
  call # NoCall => FirstLeast(call, at + done, best_deadline, best_offset)

\* Every nonce a step hashes is one of the buffer: a group never reaches past
\* nonce_count, and what is left of it is hashed (the guards i + V <=
\* nonce_count, whose tail is the scalar branch).
ReadsInside ==
  call # NoCall => at + width <= call.nonce_count

\* Between two groups the search's context is the one it began with: the
\* counters that hashing a group moves have been put back, so that the second
\* group is hashed like the first ("reset Wlow & Whigh").
ContextKept ==
  call # NoCall => ctx = FastContext(current_impl)
=============================================================================
