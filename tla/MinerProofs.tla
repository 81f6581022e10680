---------------------------- MODULE MinerProofs ----------------------------
(***************************************************************************)
(* Proofs about Miner, for every number of drives, plots, accounts, blocks  *)
(* and restarts.  First the type invariant and Steps, the kinds of step the *)
(* cases go through.  Then what the nonce handler submits: at most one      *)
(* solution per block with submit_only_best, strictly better ones without   *)
(* it, data that was not hashed only as a last resort, and, when the        *)
(* annode's height never goes down, only solutions of the block the miner   *)
(* is on, as SubmissionQueue asks.  Then what the poll task starts: scans   *)
(* with the scoop of their block, by one task per drive, and, where heights *)
(* do not go down, rounds whose end counts every drive.  Last, for what the *)
(* environment must grant them, that a round which scans has work, and that *)
(* the best of the first scan is submitted.                                 *)
(***************************************************************************)
EXTENDS Miner, TLAPS, FiniteSetTheorems, SequenceTheorems

LEMMA ConstantTypes ==
  /\ NoBest \in Nat /\ MaxBlock \in Nat /\ MaxHeight \in Nat /\ MaxRuns \in Nat
  /\ MaxDeadline \in 0..NoBest /\ NoBest \in 0..NoBest
  /\ Deadlines \subseteq 0..NoBest
  /\ 1 \in Plots /\ PlotCount \in Plots
  /\ Cardinality(Drives) \in Nat
<1>1. Cardinality(Drives) \in Nat
  BY MinerAssumption, FS_CardinalityType
<1>2. QED
  BY <1>1, MinerAssumption DEF NoBest, Deadlines, Plots

-----------------------------------------------------------------------------
(* The functions on State keep its type and tell what they change.          *)

LEMMA StateUpdates ==
  \A s \in State :
    /\ \A x \in 0..MaxHeight : [s EXCEPT !.height = x] \in State
    /\ \A x \in 0..MaxBlock : [s EXCEPT !.block = x] \in State
    /\ \A x \in 0..MaxBlock : [s EXCEPT !.scoop = x] \in State
    /\ \A x \in [Accounts -> 0..NoBest] :
         [s EXCEPT !.account_id_to_best_deadline = x] \in State
    /\ \A x \in 0..NoBest : [s EXCEPT !.annode_target_deadline = x] \in State
    /\ \A x \in Nat : [s EXCEPT !.processed_reader_tasks = x] \in State
    /\ \A x \in BOOLEAN : [s EXCEPT !.scanning = x] \in State
    /\ \A x \in BOOLEAN : [s EXCEPT !.solo_mining_enabled = x] \in State
    /\ \A x \in BOOLEAN : [s EXCEPT !.share_mining_enabled = x] \in State
    /\ \A x \in BOOLEAN : [s EXCEPT !.submitted_for_this_block = x] \in State
    /\ \A x \in BOOLEAN : [s EXCEPT !.finished_scanning = x] \in State
BY DEF State

LEMMA ConsumeSuccessType ==
  ASSUME NEW s \in State
  PROVE  /\ ConsumeSuccess(s) \in State
         /\ ConsumeSuccess(s).height = s.height
         /\ ConsumeSuccess(s).block = s.block
         /\ ConsumeSuccess(s).finished_scanning = s.finished_scanning
         /\ ConsumeSuccess(s).processed_reader_tasks = s.processed_reader_tasks
         /\ ConsumeSuccess(s).account_id_to_best_deadline = s.account_id_to_best_deadline
         /\ s.submitted_for_this_block => ConsumeSuccess(s).submitted_for_this_block
         /\ ConsumeSuccess(s).scanning => s.scanning
<1>1. ConsumeSuccess(s) \in State
  BY StateUpdates DEF ConsumeSuccess
<1>2. QED
  BY <1>1 DEF ConsumeSuccess, State

LEMMA ResetForNewBlockType ==
  ASSUME NEW s \in State, s.block + 1 <= MaxBlock
  PROVE  LET r == ResetForNewBlock(s)
         IN  /\ r \in State
             /\ r.block = s.block + 1
             /\ r.finished_scanning = FALSE
             /\ r.submitted_for_this_block = FALSE
             /\ r.processed_reader_tasks = 0
             /\ r.account_id_to_best_deadline = [a \in Accounts |-> NoBest]
             /\ r.scanning = s.scanning
<1>1. /\ s.block + 1 \in 0..MaxBlock
      /\ [a \in Accounts |-> NoBest] \in [Accounts -> 0..NoBest]
  BY ConstantTypes DEF State
<1>2. ResetForNewBlock(s) \in State
  BY <1>1, StateUpdates DEF ResetForNewBlock
<1>3. QED
  BY <1>2 DEF ResetForNewBlock, State

LEMMA InfoTypes ==
  ASSUME NEW info \in MiningInfo
  PROVE  /\ info.height \in Heights /\ info.height \in 0..MaxHeight
         /\ info.target \in 0..NoBest
         /\ info.status.live \in BOOLEAN
         /\ info.status.mining \in BOOLEAN
         /\ info.status.share \in BOOLEAN
<1>1. /\ info.height \in Heights
      /\ info.target \in AnnodeTargets
      /\ info.status \in Statuses
  BY DEF MiningInfo
<1>2. info.status \in Status /\ info.target \in 0..NoBest
  BY <1>1, MinerAssumption
<1>3. info.height \in 0..MaxHeight
  BY <1>1, ConstantTypes DEF Heights
<1>4. QED
  BY <1>1, <1>2, <1>3 DEF Status

LEMMA TakeInfoSame ==
  ASSUME NEW s \in State, NEW info \in MiningInfo, info.height = s.height
  PROVE  LET t == TakeInfo(s, info)
         IN  /\ t \in State
             /\ t.height = s.height
             /\ t.block = s.block
             /\ t.finished_scanning = s.finished_scanning
             /\ t.submitted_for_this_block = s.submitted_for_this_block
             /\ t.processed_reader_tasks = s.processed_reader_tasks
             /\ t.account_id_to_best_deadline = s.account_id_to_best_deadline
             /\ t.scanning = s.scanning
<1> DEFINE solo == info.status.live /\ info.status.mining
           share == solo /\ info.status.share
           t == [s EXCEPT !.height = info.height,
                          !.annode_target_deadline = info.target,
                          !.solo_mining_enabled = solo,
                          !.share_mining_enabled = share]
<1>1. TakeInfo(s, info) = t
  BY DEF TakeInfo
<1>2. t \in State
  BY InfoTypes, StateUpdates
<1>3. QED
  BY <1>1, <1>2 DEF State

LEMMA TakeInfoNew ==
  ASSUME NEW s \in State, NEW info \in MiningInfo, info.height # s.height,
         s.block + 1 <= MaxBlock
  PROVE  LET t == TakeInfo(s, info)
         IN  /\ t \in State
             /\ t.height = info.height
             /\ t.block = s.block + 1
             /\ t.finished_scanning = FALSE
             /\ t.submitted_for_this_block = FALSE
             /\ t.processed_reader_tasks = 0
             /\ t.account_id_to_best_deadline = [a \in Accounts |-> NoBest]
             /\ t.scanning = s.scanning
<1> DEFINE r == ResetForNewBlock(s)
           solo == info.status.live /\ info.status.mining
           share == solo /\ info.status.share
           t == [r EXCEPT !.height = info.height,
                          !.annode_target_deadline = info.target,
                          !.solo_mining_enabled = solo,
                          !.share_mining_enabled = share]
<1>1. /\ r \in State
      /\ r.block = s.block + 1
      /\ r.finished_scanning = FALSE
      /\ r.submitted_for_this_block = FALSE
      /\ r.processed_reader_tasks = 0
      /\ r.account_id_to_best_deadline = [a \in Accounts |-> NoBest]
      /\ r.scanning = s.scanning
  BY ResetForNewBlockType
<1>2. TakeInfo(s, info) = t
  BY DEF TakeInfo
<1> HIDE DEF r
<1>3. t \in State
  BY <1>1, InfoTypes, StateUpdates
<1>4. QED
  BY <1>1, <1>2, <1>3 DEF State

\* What update_mining_info may change after TakeInfo.
LEMMA UpdateFromTaken ==
  ASSUME NEW s, NEW info \in MiningInfo, TakeInfo(s, info) \in State
  PROVE  LET t == TakeInfo(s, info)
             u == update_mining_info(s, info)
         IN  /\ u \in State
             /\ u.height = t.height
             /\ u.block = t.block
             /\ u.finished_scanning = t.finished_scanning
             /\ u.submitted_for_this_block = t.submitted_for_this_block
             /\ u.account_id_to_best_deadline = t.account_id_to_best_deadline
             /\ \/ u.processed_reader_tasks = t.processed_reader_tasks
                \/ u.processed_reader_tasks = 0 /\ t.finished_scanning = FALSE
<1> DEFINE t == TakeInfo(s, info)
           off == [t EXCEPT !.scanning = FALSE]
           scooped == [t EXCEPT !.scoop = t.block]
           on == [scooped EXCEPT !.scanning = TRUE, !.processed_reader_tasks = 0]
<1>1. t \in State /\ t.block \in 0..MaxBlock
  BY DEF State
<1>2. \/ update_mining_info(s, info) = t
      \/ update_mining_info(s, info) = off
      \/ update_mining_info(s, info) = scooped
      \/ update_mining_info(s, info) = on /\ ~t.finished_scanning
  BY DEF update_mining_info, ResumeScanning
<1> HIDE DEF t
<1>3. off \in State /\ scooped \in State /\ on \in State
  BY <1>1, StateUpdates
<1>4. QED
  BY <1>1, <1>2, <1>3 DEF State, t

\* The fields a poll at the same height leaves alone.
SameRound(s, t) ==
  /\ t.height = s.height
  /\ t.block = s.block
  /\ t.finished_scanning = s.finished_scanning
  /\ t.account_id_to_best_deadline = s.account_id_to_best_deadline
  /\ \/ t.processed_reader_tasks = s.processed_reader_tasks
     \/ t.processed_reader_tasks = 0 /\ s.finished_scanning = FALSE

LEMMA UpdateSame ==
  ASSUME NEW s \in State, NEW info \in MiningInfo, info.height = s.height
  PROVE  LET u == update_mining_info(s, info)
         IN  /\ u \in State
             /\ SameRound(s, u)
             /\ u.submitted_for_this_block = s.submitted_for_this_block
<1> DEFINE t == TakeInfo(s, info)
           u == update_mining_info(s, info)
<1>1. /\ t \in State
      /\ t.height = s.height /\ t.block = s.block
      /\ t.finished_scanning = s.finished_scanning
      /\ t.submitted_for_this_block = s.submitted_for_this_block
      /\ t.processed_reader_tasks = s.processed_reader_tasks
      /\ t.account_id_to_best_deadline = s.account_id_to_best_deadline
  BY TakeInfoSame
<1>2. /\ u \in State
      /\ u.height = t.height /\ u.block = t.block
      /\ u.finished_scanning = t.finished_scanning
      /\ u.submitted_for_this_block = t.submitted_for_this_block
      /\ u.account_id_to_best_deadline = t.account_id_to_best_deadline
      /\ \/ u.processed_reader_tasks = t.processed_reader_tasks
         \/ u.processed_reader_tasks = 0 /\ t.finished_scanning = FALSE
  BY <1>1, UpdateFromTaken
<1> HIDE DEF t, u
<1>3. QED
  BY <1>1, <1>2 DEF SameRound, t, u

LEMMA UpdateNew ==
  ASSUME NEW s \in State, NEW info \in MiningInfo, info.height # s.height,
         s.block < MaxBlock
  PROVE  LET u == update_mining_info(s, info)
         IN  /\ u \in State
             /\ u.height = info.height
             /\ u.block = s.block + 1
             /\ u.finished_scanning = FALSE
             /\ u.processed_reader_tasks = 0
             /\ u.account_id_to_best_deadline = [a \in Accounts |-> NoBest]
<1>1. s.block + 1 <= MaxBlock
  BY ConstantTypes DEF State
<1> DEFINE t == TakeInfo(s, info)
           u == update_mining_info(s, info)
<1>2. /\ t \in State
      /\ t.height = info.height /\ t.block = s.block + 1
      /\ t.finished_scanning = FALSE
      /\ t.processed_reader_tasks = 0
      /\ t.account_id_to_best_deadline = [a \in Accounts |-> NoBest]
  BY <1>1, TakeInfoNew
<1>3. /\ u \in State
      /\ u.height = t.height /\ u.block = t.block
      /\ u.finished_scanning = t.finished_scanning
      /\ u.account_id_to_best_deadline = t.account_id_to_best_deadline
      /\ \/ u.processed_reader_tasks = t.processed_reader_tasks
         \/ u.processed_reader_tasks = 0 /\ t.finished_scanning = FALSE
  BY <1>2, UpdateFromTaken
<1> HIDE DEF t, u
<1>4. QED
  BY <1>2, <1>3 DEF t, u

\* Everything the properties need to know of a poll.
PollAtNewHeight(info) ==
  /\ info.height # state.height
  /\ state'.height = info.height
  /\ state'.block = state.block + 1
  /\ state'.finished_scanning = FALSE
  /\ state'.processed_reader_tasks = 0
  /\ state'.account_id_to_best_deadline = [a \in Accounts |-> NoBest]
  /\ IF state'.scanning
     THEN start_reading(state'.height, state'.block, state'.scoop)
     ELSE KeepReading

PollAtSameHeight ==
  /\ state.height \in Heights
  /\ SameRound(state, state')
  /\ \/ ~state'.scanning /\ (KeepReading \/ stop_reading)
     \/ state.scanning /\ KeepReading
     \/ /\ ~state.finished_scanning /\ ~state.submitted_for_this_block
        /\ state'.scanning
        /\ start_reading(state'.height, state'.block, state'.scoop)

LEMMA PollCases ==
  ASSUME TypeOK, NEW info \in MiningInfo, Poll(info)
  PROVE  /\ state' \in State
         /\ PollAtNewHeight(info) \/ PollAtSameHeight
<1> DEFINE s == ConsumeSuccess(state)
           u == update_mining_info(s, info)
<1>1. /\ s \in State
      /\ s.height = state.height /\ s.block = state.block
      /\ s.finished_scanning = state.finished_scanning
      /\ s.processed_reader_tasks = state.processed_reader_tasks
      /\ s.account_id_to_best_deadline = state.account_id_to_best_deadline
      /\ state.submitted_for_this_block => s.submitted_for_this_block
      /\ s.scanning => state.scanning
  BY ConsumeSuccessType DEF TypeOK
<1>2. PollNewHeight(s, info) \/ PollDone(s, info) \/ PollSameHeight(s, info)
  BY DEF Poll
<1> HIDE DEF s
<1>3. CASE PollNewHeight(s, info)
  <2>1. /\ u \in State
        /\ u.height = info.height
        /\ u.block = s.block + 1
        /\ u.finished_scanning = FALSE
        /\ u.processed_reader_tasks = 0
        /\ u.account_id_to_best_deadline = [a \in Accounts |-> NoBest]
    BY <1>1, <1>3, UpdateNew DEF PollNewHeight
  <2>2. /\ state' = u /\ info.height # s.height
        /\ IF u.scanning THEN start_reading(info.height, u.block, u.scoop)
           ELSE KeepReading
    BY <1>3 DEF PollNewHeight
  <2> HIDE DEF u
  <2>3. QED
    BY <1>1, <2>1, <2>2 DEF PollAtNewHeight
<1>4. ASSUME info.height = s.height
      PROVE  /\ u \in State
             /\ SameRound(state, u)
             /\ u.submitted_for_this_block = s.submitted_for_this_block
             /\ state.height \in Heights
  <2>1. /\ u \in State
        /\ SameRound(s, u)
        /\ u.submitted_for_this_block = s.submitted_for_this_block
    BY <1>1, <1>4, UpdateSame
  <2>2. state.height \in Heights
    BY <1>1, <1>4, InfoTypes
  <2> HIDE DEF u
  <2>3. QED
    BY <1>1, <2>1, <2>2 DEF SameRound
<1>5. CASE PollDone(s, info)
  <2>1. /\ info.height = s.height
        /\ state' = [u EXCEPT !.scanning = FALSE]
        /\ KeepReading
    BY <1>5 DEF PollDone
  <2> HIDE DEF u
  <2>2. state' \in State
    BY <1>4, <2>1, StateUpdates
  <2>3. SameRound(state, state') /\ ~state'.scanning
    BY <1>4, <2>1 DEF SameRound, State
  <2>4. QED
    BY <1>4, <2>1, <2>2, <2>3 DEF PollAtSameHeight
<1>6. CASE PollSameHeight(s, info)
  <2> DEFINE emergency == Mode = "SHARE" /\ ~u.share_mining_enabled
             on == u.solo_mining_enabled /\ ~emergency
             sent == u.submitted_for_this_block \/ emergency
  <2>1. /\ info.height = s.height
        /\ ~u.submitted_for_this_block /\ ~u.finished_scanning
        /\ state' = [u EXCEPT !.scanning = on, !.submitted_for_this_block = sent]
        /\ IF emergency THEN stop_reading
           ELSE IF on /\ ~s.scanning
           THEN start_reading(info.height, u.block, u.scoop)
           ELSE KeepReading
    BY <1>6 DEF PollSameHeight, RoundDone
  <2> HIDE DEF u
  <2>2. state' \in State
    BY <1>4, <2>1, StateUpdates
  <2>3. /\ SameRound(state, state')
        /\ state'.scanning <=> on
        /\ state'.height = info.height
        /\ state'.block = u.block /\ state'.scoop = u.scoop
    BY <1>1, <1>4, <2>1 DEF SameRound, State
  <2>4. ~state.finished_scanning /\ ~state.submitted_for_this_block
    BY <1>1, <1>4, <2>1 DEF SameRound
  <2>5. QED
    BY <1>1, <1>4, <2>1, <2>2, <2>3, <2>4 DEF PollAtSameHeight
<1>7. QED
  BY <1>2, <1>3, <1>5, <1>6

-----------------------------------------------------------------------------
(* Types of what the readers and the handler change.                        *)

LEMMA InterruptedType ==
  ASSUME tasks \subseteq Task
  PROVE  Interrupted(tasks) \subseteq Task
<1>1. ASSUME NEW u \in tasks
      PROVE  [u EXCEPT !.interrupted = @ \/ u.run = reading.run] \in Task
  <2>1. u \in Task /\ (u.interrupted \/ u.run = reading.run) \in BOOLEAN
    OBVIOUS
  <2>2. QED
    BY <2>1 DEF Task
<1>2. QED
  BY <1>1 DEF Interrupted

LEMMA StartReadingType ==
  ASSUME tasks \subseteq Task, reading \in Reading,
         NEW h \in Heights, NEW b \in Blocks, NEW c \in 0..MaxBlock,
         start_reading(h, b, c)
  PROVE  tasks' \subseteq Task /\ reading' \in Reading
<1>0. reading.run + 1 \in Nat /\ 1 \in Plots
  BY ConstantTypes DEF Reading
<1>1. NewTasks(reading.run + 1, h, b, c) \subseteq Task
  <2> DEFINE r == reading.run + 1
  <2>1. \A d \in Drives :
          [run |-> r, drive |-> d, next |-> 1, interrupted |-> FALSE,
           height |-> h, block |-> b, scoop |-> c] \in Task
    BY <1>0 DEF Task
  <2> HIDE DEF r
  <2>2. NewTasks(r, h, b, c) \subseteq Task
    BY <2>1 DEF NewTasks
  <2>3. QED
    BY <2>2 DEF r
<1>2. tasks' \subseteq Task
  BY <1>1, InterruptedType DEF start_reading
<1>3. reading' = [run |-> reading.run + 1, height |-> h, block |-> b, scoop |-> c,
                  again |-> reading.block = b, marked |-> {}]
  BY DEF start_reading
<1>4. /\ h \in 0..MaxHeight /\ b \in 0..MaxBlock
      /\ reading.run + 1 \in Nat
      /\ (reading.block = b) \in BOOLEAN
      /\ {} \in SUBSET Drives
  BY ConstantTypes DEF Heights, Blocks, Reading
<1>5. reading' \in Reading
  BY <1>3, <1>4 DEF Reading
<1>6. QED
  BY <1>2, <1>5

LEMMA AdvancedType ==
  ASSUME tasks \subseteq Task, NEW t \in tasks
  PROVE  Advanced(t) \subseteq Task
<1>1. ~IsLast(t) => t.next + 1 \in Plots
  BY ConstantTypes DEF IsLast, Plots, Task
<1>2. ~IsLast(t) => [t EXCEPT !.next = @ + 1] \in Task
  BY <1>1 DEF Task
<1>3. QED
  BY <1>2 DEF Advanced

LEMMA NonceOfType ==
  ASSUME tasks \subseteq Task, NEW t \in tasks, NEW hashed \in BOOLEAN
  PROVE  NonceOf(t, hashed) \in NonceData
<1>1. /\ t.run \in Nat /\ t.drive \in Drives /\ t.next \in Plots
      /\ t.height \in Heights /\ t.block \in Blocks /\ t.scoop \in 0..MaxBlock
  BY DEF Task
<1>2. AccountOf[<<t.drive, t.next>>] \in Accounts
  BY <1>1, MinerAssumption
<1>3. DeadlineOf[<<t.block, t.drive, t.next>>] \in Deadlines /\ MaxDeadline \in Deadlines
  BY <1>1, MinerAssumption DEF Deadlines
<1>4. IsLast(t) \in BOOLEAN
  BY DEF IsLast
<1>5. QED
  BY <1>1, <1>2, <1>3, <1>4 DEF NonceOf, NonceData

\* What the handler's pure parts do.
LEMMA ImprovedType ==
  ASSUME NEW s \in State, NEW m \in NonceData, Improves(s, m)
  PROVE  LET t == Improved(s, m)
         IN  /\ t \in State
             /\ t.height = s.height /\ t.block = s.block
             /\ t.finished_scanning = s.finished_scanning
             /\ t.processed_reader_tasks = s.processed_reader_tasks
             /\ t.scanning => s.scanning
             /\ s.submitted_for_this_block => t.submitted_for_this_block
             /\ t.account_id_to_best_deadline =
                  [s.account_id_to_best_deadline EXCEPT ![m.account_id] = m.deadline]
<1> DEFINE best == [s.account_id_to_best_deadline EXCEPT ![m.account_id] = m.deadline]
           first == Mode = "SHARE" /\ ~SubmitOnlyBest
           on == s.scanning /\ ~first
           sent == s.submitted_for_this_block \/ first
           t == [s EXCEPT !.account_id_to_best_deadline = best,
                          !.scanning = on, !.submitted_for_this_block = sent]
<1>1. m.account_id \in Accounts /\ m.deadline \in 0..NoBest
  BY ConstantTypes DEF NonceData
<1>2. best \in [Accounts -> 0..NoBest]
  BY <1>1 DEF State
<1>3. Improved(s, m) = t
  BY DEF Improved, State
<1>4. t \in State
  BY <1>2, StateUpdates
<1>5. QED
  BY <1>3, <1>4 DEF State

LEMMA CountedType ==
  ASSUME NEW s \in State, NEW m \in NonceData, NEW sent \in BOOLEAN
  PROVE  LET t == Counted(s, m, sent)
         IN  /\ t \in State
             /\ t.height = s.height /\ t.block = s.block
             /\ t.account_id_to_best_deadline = s.account_id_to_best_deadline
             /\ t.scanning => s.scanning
             /\ t.processed_reader_tasks =
                  s.processed_reader_tasks + (IF m.reader_task_processed THEN 1 ELSE 0)
             /\ t.finished_scanning = (s.finished_scanning \/ CompletesRound(s, m))
<1>1. CASE ~m.reader_task_processed
  BY <1>1 DEF Counted, CompletesRound, State
<1>2. CASE m.reader_task_processed
  <2> DEFINE n == s.processed_reader_tasks + 1
             all == CompletesRound(s, m)
             fin == s.finished_scanning \/ all
             on == s.scanning /\ ~all
             done == s.submitted_for_this_block \/ sent
             t == [s EXCEPT !.processed_reader_tasks = n,
                            !.finished_scanning = fin,
                            !.scanning = on,
                            !.submitted_for_this_block = done]
  <2>1. Counted(s, m, sent) = t
    BY <1>2 DEF Counted, State
  <2>2. n \in Nat
    BY DEF State
  <2> HIDE DEF all
  <2>3. t \in State
    BY <2>2, StateUpdates
  <2>4. t.finished_scanning = (s.finished_scanning \/ all)
    BY DEF State
  <2>5. t.processed_reader_tasks = s.processed_reader_tasks + 1
    BY DEF State
  <2>6. /\ t.height = s.height /\ t.block = s.block
        /\ t.account_id_to_best_deadline = s.account_id_to_best_deadline
        /\ t.scanning => s.scanning
    BY DEF State
  <2> HIDE DEF t
  <2>7. QED
    BY <1>2, <2>1, <2>3, <2>4, <2>5, <2>6 DEF all
<1>3. QED
  BY <1>1, <1>2

\* Everything the properties need to know of nonce data that is taken.
Taken(m) ==
  /\ m.height = state.height
  /\ state'.height = state.height /\ state'.block = state.block
  /\ state'.scanning => state.scanning
  /\ state'.processed_reader_tasks =
       state.processed_reader_tasks + (IF m.reader_task_processed THEN 1 ELSE 0)
  /\ state'.finished_scanning = (state.finished_scanning \/ CompletesRound(state, m))
  /\ state'.account_id_to_best_deadline =
       IF Improves(state, m)
       THEN [state.account_id_to_best_deadline EXCEPT ![m.account_id] = m.deadline]
       ELSE state.account_id_to_best_deadline
  /\ best_nonce_data' =
       IF Improves(state, m) /\ SubmitOnlyBest THEN m ELSE best_nonce_data
  /\ \/ ~SubmitOnlyBest /\ Improves(state, m) /\ submit_nonce(m)
     \/ /\ SubmitOnlyBest /\ CompletesRound(state, m)
        /\ best_nonce_data'.height = state.height
        /\ submit_nonce(best_nonce_data')
     \/ UNCHANGED <<submissions, queued>>
  /\ tasks' = tasks
  /\ reading'.run = reading.run
  /\ reading'.height = reading.height /\ reading'.block = reading.block

LEMMA HandlerTakesCases ==
  ASSUME TypeOK, NEW m \in nonce_data, HandlerTakes(m)
  PROVE  state' \in State /\ reading' \in Reading /\ Taken(m)
<1> DEFINE better == Improves(state, m)
           s == IF better THEN Improved(state, m) ELSE state
           best == IF better /\ SubmitOnlyBest THEN m ELSE best_nonce_data
           sendBest == SubmitOnlyBest /\ CompletesRound(state, m) /\ HasBest(best)
<1>1. m \in NonceData /\ state \in State /\ reading \in Reading
  BY DEF TypeOK
<1>2. /\ s \in State
      /\ s.height = state.height /\ s.block = state.block
      /\ s.finished_scanning = state.finished_scanning
      /\ s.processed_reader_tasks = state.processed_reader_tasks
      /\ s.scanning => state.scanning
      /\ s.account_id_to_best_deadline =
           IF better
           THEN [state.account_id_to_best_deadline EXCEPT ![m.account_id] = m.deadline]
           ELSE state.account_id_to_best_deadline
  <2>1. CASE better
    BY <1>1, <2>1, ImprovedType
  <2>2. CASE ~better
    BY <1>1, <2>2
  <2>3. QED
    BY <2>1, <2>2
<1>3. /\ m.height = state.height
      /\ state' = Counted(s, m, sendBest)
      /\ best_nonce_data' = best
      /\ IF better /\ ~SubmitOnlyBest THEN submit_nonce(m)
         ELSE IF sendBest THEN submit_nonce(best)
         ELSE UNCHANGED <<submissions, queued>>
      /\ tasks' = tasks
  BY DEF HandlerTakes, IsCurrent
<1>4. reading' \in Reading /\ reading'.run = reading.run
      /\ reading'.height = reading.height /\ reading'.block = reading.block
  <2>1. m.drive \in Drives
    BY <1>1 DEF NonceData
  <2>2. \/ reading' = reading
        \/ reading' = [reading EXCEPT !.marked = @ \cup {m.drive}]
    BY DEF HandlerTakes
  <2>3. QED
    BY <1>1, <2>1, <2>2 DEF Reading
<1>5. sendBest \in BOOLEAN
  OBVIOUS
<1>6. CompletesRound(s, m) = CompletesRound(state, m)
  BY <1>2 DEF CompletesRound
<1>7. HasBest(best) => best.height = state.height
  BY DEF HasBest
<1> DEFINE sent == sendBest
<1> HIDE DEF s
<1>8. /\ Counted(s, m, sent) \in State
      /\ Counted(s, m, sent).height = s.height
      /\ Counted(s, m, sent).block = s.block
      /\ Counted(s, m, sent).scanning => s.scanning
      /\ Counted(s, m, sent).account_id_to_best_deadline = s.account_id_to_best_deadline
      /\ Counted(s, m, sent).processed_reader_tasks =
           s.processed_reader_tasks + (IF m.reader_task_processed THEN 1 ELSE 0)
      /\ Counted(s, m, sent).finished_scanning =
           (s.finished_scanning \/ CompletesRound(s, m))
  <2> HIDE DEF sendBest
  <2>1. QED
    BY <1>1, <1>2, <1>5, CountedType
<1>9. QED
  BY <1>2, <1>3, <1>4, <1>6, <1>7, <1>8 DEF Taken

-----------------------------------------------------------------------------
(* Every step is of one of these kinds.                                     *)

StateKept == UNCHANGED <<state, best_nonce_data, submissions, reading>>

LEMMA ReaderStepKeeps ==
  ASSUME TypeOK, NEW t \in tasks, ReaderStep(t)
  PROVE  /\ StateKept /\ queued' = queued
         /\ UNCHANGED <<SHOULD_STOP_MINING, SUBMISSION_SUCCESS>>
         /\ tasks' = tasks \ {t} \/ tasks' = Advanced(t)
         /\ \/ nonce_data' = nonce_data
            \/ \E h \in BOOLEAN : nonce_data' = nonce_data \cup {NonceOf(t, h)}
BY DEF ReaderStep, ReaderStops, PrepareFails, PlotRead, ReadFails, ReaderUnchanged,
       StateKept

LEMMA SubmitType ==
  ASSUME submissions \in Seq(Submission), queued \subseteq Submission,
         NEW n \in NonceData, state.block \in Blocks, submit_nonce(n)
  PROVE  submissions' \in Seq(Submission) /\ queued' \subseteq Submission
<1>1. [nonce |-> n, round |-> state.block] \in Submission
  BY DEF Submission
<1>2. QED
  BY <1>1 DEF submit_nonce

LEMMA TypeStep == TypeOK /\ [Next]_vars => TypeOK'
<1> SUFFICES ASSUME TypeOK, [Next]_vars PROVE TypeOK'
  OBVIOUS
<1> USE DEF TypeOK
<1>1. ASSUME NEW info \in MiningInfo, Poll(info) PROVE TypeOK'
  <2>1. state' \in State /\ (PollAtNewHeight(info) \/ PollAtSameHeight)
    BY <1>1, PollCases
  <2>2. /\ best_nonce_data' = best_nonce_data /\ nonce_data' = nonce_data
        /\ submissions' = submissions /\ queued' = queued
        /\ SHOULD_STOP_MINING' \in BOOLEAN /\ SUBMISSION_SUCCESS' \in BOOLEAN
    BY <1>1 DEF Poll
  <2>3. state'.height \in Heights /\ state'.block \in Blocks
    <3>1. CASE PollAtNewHeight(info)
      BY <2>1, <3>1, InfoTypes, ConstantTypes
         DEF PollAtNewHeight, State, Blocks
    <3>2. CASE PollAtSameHeight
      BY <2>1, <3>2, ConstantTypes
         DEF PollAtSameHeight, SameRound, State, Blocks, Heights
    <3>3. QED
      BY <2>1, <3>1, <3>2
  <2>4. state'.block = 0 <=> state'.height = 0
    BY <2>3 DEF Heights, Blocks
  <2>5. state'.scoop \in 0..MaxBlock
    BY <2>1 DEF State
  <2>6. tasks' \subseteq Task /\ reading' \in Reading
    <3>1. CASE start_reading(state'.height, state'.block, state'.scoop)
      BY <2>3, <2>5, <3>1, StartReadingType
    <3>2. CASE stop_reading
      BY <3>2, InterruptedType DEF stop_reading
    <3>3. CASE KeepReading
      BY <3>3 DEF KeepReading
    <3>4. QED
      BY <2>1, <3>1, <3>2, <3>3 DEF PollAtNewHeight, PollAtSameHeight
  <2>7. QED
    BY <2>1, <2>2, <2>4, <2>6
<1>2. ASSUME NEW t \in tasks, ReaderStep(t) PROVE TypeOK'
  <2>1. tasks' \subseteq Task
    BY <1>2, ReaderStepKeeps, AdvancedType
  <2>2. nonce_data' \subseteq NonceData
    BY <1>2, ReaderStepKeeps, NonceOfType
  <2>3. QED
    BY <1>2, <2>1, <2>2, ReaderStepKeeps DEF StateKept
<1>3. ASSUME NEW m \in nonce_data, HandleNonce(m) PROVE TypeOK'
  <2>1. /\ nonce_data' \subseteq NonceData /\ m \in NonceData
        /\ UNCHANGED <<SHOULD_STOP_MINING, SUBMISSION_SUCCESS>>
    BY <1>3 DEF HandleNonce
  <2>2. CASE HandlerStops(m)
    <3>1. state' \in State
      BY <2>2, StateUpdates DEF HandlerStops
    <3>2. state'.height = state.height /\ state'.block = state.block
      BY <2>2 DEF HandlerStops, State
    <3>3. tasks' \subseteq Task /\ reading' = reading
      BY <2>2, InterruptedType DEF HandlerStops, stop_reading
    <3>4. QED
      BY <2>1, <2>2, <3>1, <3>2, <3>3 DEF HandlerStops
  <2>3. CASE HandlerForgets(m)
    BY <2>1, <2>3 DEF HandlerForgets, KeepReading
  <2>4. CASE HandlerTakes(m)
    <3>1. state' \in State /\ reading' \in Reading /\ Taken(m)
      BY <1>3, <2>4, HandlerTakesCases
    <3>2. best_nonce_data' \in NonceData \cup {NoNonce}
      BY <2>1, <3>1 DEF Taken
    <3>3. state.height # 0 /\ state.block \in Blocks
      BY <2>1, <3>1, ConstantTypes DEF Taken, NonceData, Heights, State, Blocks
    <3>4. best_nonce_data'.height = state.height => best_nonce_data' \in NonceData
      BY <3>2, <3>3 DEF NoNonce
    <3>5. submissions' \in Seq(Submission) /\ queued' \subseteq Submission
      BY <2>1, <3>1, <3>3, <3>4, SubmitType DEF Taken
    <3>6. QED
      BY <2>1, <3>1, <3>2, <3>5 DEF Taken
  <2>5. QED
    BY <1>3, <2>2, <2>3, <2>4 DEF HandleNonce
<1>4. ASSUME NEW x \in queued, SubmissionConfirmed(x) \/ SubmissionGivenUp(x)
      PROVE  TypeOK'
  BY <1>4 DEF SubmissionConfirmed, SubmissionGivenUp
<1>5. CASE UNCHANGED vars
  BY <1>5 DEF vars
<1>6. QED
  BY <1>1, <1>2, <1>3, <1>4, <1>5 DEF Next

LEMMA TypeInit == Init => TypeOK
<1> SUFFICES ASSUME Init PROVE TypeOK
  OBVIOUS
<1>1. [a \in Accounts |-> NoBest] \in [Accounts -> 0..NoBest]
  BY ConstantTypes
<1>2. state \in State
  BY <1>1, ConstantTypes DEF Init, State
<1>3. state.block = 0 /\ state.height = 0
  BY DEF Init
<1>4. reading \in Reading
  BY ConstantTypes DEF Init, Reading
<1>5. /\ best_nonce_data = NoNonce /\ tasks = {} /\ nonce_data = {}
      /\ submissions = <<>> /\ queued = {}
      /\ SHOULD_STOP_MINING = FALSE /\ SUBMISSION_SUCCESS = FALSE
  BY DEF Init
<1>6. submissions \in Seq(Submission)
  BY <1>5, EmptySeq
<1>7. QED
  BY <1>2, <1>3, <1>4, <1>5, <1>6 DEF TypeOK

\* The state, the tasks and every message keep their types.
THEOREM Typing == Spec => []TypeOK
BY TypeInit, TypeStep, PTL DEF Spec

-----------------------------------------------------------------------------
(* The kinds of step, told by what they may change.                         *)

PollKind(info) ==
  /\ Poll(info)
  /\ info.height >= state.height \/ Reorgs
  /\ PollAtNewHeight(info) \/ PollAtSameHeight
  /\ UNCHANGED <<best_nonce_data, nonce_data, submissions>>

TaskKind(t) ==
  /\ ReaderStep(t)
  /\ StateKept
  /\ tasks' = tasks \ {t} \/ tasks' = Advanced(t)
  /\ \/ nonce_data' = nonce_data
     \/ \E h \in BOOLEAN : nonce_data' = nonce_data \cup {NonceOf(t, h)}

StopKind ==
  /\ \E m \in nonce_data : HandlerStops(m)
  /\ SameRound(state, state')
  /\ state'.processed_reader_tasks = state.processed_reader_tasks
  /\ ~state'.scanning
  /\ stop_reading
  /\ nonce_data' \subseteq nonce_data
  /\ UNCHANGED <<best_nonce_data, submissions>>

ForgetKind ==
  /\ best_nonce_data' = NoNonce \/ best_nonce_data' = best_nonce_data
  /\ \E m \in nonce_data : ~IsCurrent(m) /\ nonce_data' = nonce_data \ {m}
  /\ nonce_data' \subseteq nonce_data
  /\ UNCHANGED <<state, tasks, reading, submissions>>

TakeKind(m) ==
  /\ HandleNonce(m) /\ HandlerTakes(m)
  /\ Taken(m)
  /\ nonce_data' \subseteq nonce_data

QuietKind == UNCHANGED <<state, best_nonce_data, tasks, nonce_data, submissions, reading>>

LEMMA Steps ==
  ASSUME TypeOK, [Next]_vars
  PROVE  \/ \E info \in MiningInfo : PollKind(info)
         \/ \E t \in tasks : TaskKind(t)
         \/ StopKind
         \/ ForgetKind
         \/ \E m \in nonce_data : TakeKind(m)
         \/ QuietKind
<1>1. ASSUME NEW info \in MiningInfo, Poll(info) PROVE PollKind(info)
  BY <1>1, PollCases DEF PollKind, Poll
<1>2. ASSUME NEW t \in tasks, ReaderStep(t) PROVE TaskKind(t)
  BY <1>2, ReaderStepKeeps DEF TaskKind
<1>3. ASSUME NEW m \in nonce_data, HandleNonce(m)
      PROVE  StopKind \/ ForgetKind \/ TakeKind(m)
  <2>1. nonce_data' \subseteq nonce_data /\ nonce_data' = nonce_data \ {m}
    BY <1>3 DEF HandleNonce
  <2>2. CASE HandlerStops(m)
    <3>1. /\ SameRound(state, state') /\ ~state'.scanning
          /\ state'.processed_reader_tasks = state.processed_reader_tasks
      BY <2>2 DEF HandlerStops, SameRound, TypeOK, State
    <3>2. QED
      BY <2>1, <2>2, <3>1 DEF HandlerStops, StopKind
  <2>3. CASE HandlerForgets(m)
    BY <2>1, <2>3 DEF HandlerForgets, KeepReading, ForgetKind
  <2>4. CASE HandlerTakes(m)
    BY <1>3, <2>1, <2>4, HandlerTakesCases DEF TakeKind
  <2>5. QED
    BY <1>3, <2>2, <2>3, <2>4 DEF HandleNonce
<1>4. ASSUME NEW x \in queued, SubmissionConfirmed(x) \/ SubmissionGivenUp(x)
      PROVE  QuietKind
  BY <1>4 DEF SubmissionConfirmed, SubmissionGivenUp, QuietKind
<1>5. CASE UNCHANGED vars
  BY <1>5 DEF vars, QuietKind
<1>6. QED
  BY <1>1, <1>2, <1>3, <1>4, <1>5 DEF Next

-----------------------------------------------------------------------------
(* Scanning and the readers.                                                *)

LEMMA InterruptedTasks ==
  ASSUME tasks \subseteq Task, NEW t \in Interrupted(tasks)
  PROVE  \E u \in tasks :
           /\ t.run = u.run /\ t.height = u.height /\ t.block = u.block
           /\ t.drive = u.drive /\ t.scoop = u.scoop
           /\ t.interrupted <=> u.interrupted \/ u.run = reading.run
<1>1. PICK u \in tasks : t = [u EXCEPT !.interrupted = @ \/ u.run = reading.run]
  BY DEF Interrupted
<1>2. u \in Task
  OBVIOUS
<1>3. QED
  BY <1>1, <1>2 DEF Task

LEMMA AdvancedTasks ==
  ASSUME tasks \subseteq Task, NEW v \in tasks, NEW t \in Advanced(v)
  PROVE  \E u \in tasks :
           /\ t.run = u.run /\ t.height = u.height /\ t.block = u.block
           /\ t.drive = u.drive /\ t.scoop = u.scoop
           /\ t.interrupted = u.interrupted
<1>1. CASE t \in tasks
  BY <1>1
<1>2. CASE t \notin tasks
  <2>1. t = [v EXCEPT !.next = @ + 1]
    BY <1>2 DEF Advanced
  <2>2. v \in Task
    OBVIOUS
  <2>3. QED
    BY <2>1, <2>2 DEF Task
<1>3. QED
  BY <1>1, <1>2

LEMMA StartFacts ==
  ASSUME tasks \subseteq Task, NEW h, NEW b, NEW c, start_reading(h, b, c)
  PROVE  /\ reading'.height = h /\ reading'.block = b
         /\ reading'.run = reading.run + 1 /\ reading'.scoop = c
         /\ reading'.again = (reading.block = b) /\ reading'.marked = {}
         /\ \A t \in tasks' :
              \/ t \in Interrupted(tasks)
              \/ /\ t.run = reading'.run /\ t.height = h /\ t.block = b
                 /\ t.scoop = c /\ ~t.interrupted
<1>1. reading' = [run |-> reading.run + 1, height |-> h, block |-> b, scoop |-> c,
                  again |-> reading.block = b, marked |-> {}]
  BY DEF start_reading
<1>2. \A t \in NewTasks(reading.run + 1, h, b, c) :
        /\ t.run = reading.run + 1 /\ t.height = h /\ t.block = b
        /\ t.scoop = c /\ ~t.interrupted
  BY DEF NewTasks
<1>3. QED
  BY <1>1, <1>2 DEF start_reading

\* The started readers are those of the block in state, and the only ones that
\* are not interrupted: each start interrupts those of the one before it, and
\* these were then the only ones left.
ReadingInv ==
  /\ ScanningIsStarted
  /\ \A t \in tasks : t.interrupted \/ t.run = reading.run

LEMMA ReadingStep ==
  ASSUME TypeOK, ReadingInv, [Next]_vars
  PROVE  ReadingInv'
<1> DEFINE One == \A t \in tasks : t.interrupted \/ t.run = reading.run
<1> USE DEF ReadingInv, ScanningIsStarted
<1>0. tasks \subseteq Task
  BY DEF TypeOK
<1>i. \A t \in Interrupted(tasks) : t.interrupted
  BY <1>0, InterruptedTasks
<1>a. ASSUME NEW h, NEW b, NEW c, start_reading(h, b, c)
      PROVE  reading'.height = h /\ reading'.block = b /\ One'
  BY <1>0, <1>i, <1>a, StartFacts
<1>b. stop_reading => One'
  BY <1>i DEF stop_reading
<1>c. KeepReading => One' /\ reading' = reading
  BY DEF KeepReading
<1>1. ASSUME NEW info \in MiningInfo, PollKind(info) PROVE ReadingInv'
  <2>1. CASE PollAtNewHeight(info)
    BY <2>1, <1>a, <1>c DEF PollAtNewHeight
  <2>2. CASE PollAtSameHeight
    <3>1. state'.height = state.height /\ state'.block = state.block
      BY <2>2 DEF PollAtSameHeight, SameRound
    <3>2. CASE ~state'.scanning /\ (KeepReading \/ stop_reading)
      BY <3>2, <1>b, <1>c
    <3>3. CASE state.scanning /\ KeepReading
      BY <3>1, <3>3, <1>c
    <3>4. CASE start_reading(state'.height, state'.block, state'.scoop)
      BY <3>4, <1>a
    <3>5. QED
      BY <2>2, <3>2, <3>3, <3>4 DEF PollAtSameHeight
  <2>3. QED
    BY <1>1, <2>1, <2>2 DEF PollKind
<1>2. ASSUME NEW t \in tasks, TaskKind(t) PROVE ReadingInv'
  BY <1>0, <1>2, AdvancedTasks DEF TaskKind, StateKept
<1>3. CASE StopKind
  BY <1>3, <1>b DEF StopKind
<1>4. CASE ForgetKind
  BY <1>4 DEF ForgetKind
<1>5. ASSUME NEW m \in nonce_data, TakeKind(m) PROVE ReadingInv'
  BY <1>5 DEF TakeKind, Taken
<1>6. CASE QuietKind
  BY <1>6 DEF QuietKind
<1>7. QED
  BY <1>1, <1>2, <1>3, <1>4, <1>5, <1>6, Steps

\* A block that is finished or submitted for is not read again.
THEOREM NoRescan == Spec => NoRescanWhenDone
<1> DEFINE P == reading'.run # reading.run =>
                  \/ state'.block # state.block
                  \/ ~state.finished_scanning /\ ~state.submitted_for_this_block
<1>1. ASSUME TypeOK, [Next]_vars PROVE P
  <2>1. ASSUME NEW info \in MiningInfo, PollKind(info) PROVE P
    <3>1. CASE PollAtNewHeight(info)
      <4>1. state'.block = state.block + 1 /\ state.block \in Nat
        BY <1>1, <3>1, ConstantTypes DEF PollAtNewHeight, TypeOK, State
      <4>2. QED
        BY <4>1
    <3>2. CASE PollAtSameHeight
      BY <3>2 DEF PollAtSameHeight, KeepReading, stop_reading
    <3>3. QED
      BY <2>1, <3>1, <3>2 DEF PollKind
  <2>2. QED
    BY <1>1, <2>1, Steps
       DEF TaskKind, StateKept, StopKind, stop_reading, ForgetKind, TakeKind,
           Taken, QuietKind
<1>2. TypeOK /\ [Next]_vars => [P]_vars
  BY <1>1
<1>3. QED
  BY <1>2, Typing, PTL DEF Spec, NoRescanWhenDone

-----------------------------------------------------------------------------
(* What is submitted.                                                       *)

LEMMA Submitted ==
  ASSUME submissions \in Seq(Submission), NEW n, submit_nonce(n)
  PROVE  /\ Len(submissions) \in Nat
         /\ Len(submissions') = Len(submissions) + 1
         /\ \A i \in 1..Len(submissions) : submissions'[i] = submissions[i]
         /\ submissions'[Len(submissions) + 1].nonce = n
         /\ submissions'[Len(submissions) + 1].round = state.block
<1> DEFINE x == [nonce |-> n, round |-> state.block]
<1>1. submissions' = Append(submissions, x)
  BY DEF submit_nonce
<1>2. x.nonce = n /\ x.round = state.block
  OBVIOUS
<1>3. QED
  BY <1>1, <1>2

LEMMA SubmissionTypes ==
  ASSUME TypeOK, NEW i \in 1..Len(submissions)
  PROVE  /\ submissions[i].round \in Blocks
         /\ submissions[i].nonce \in NonceData
         /\ submissions[i].nonce.deadline \in Deadlines
         /\ submissions[i].nonce.account_id \in Accounts
<1>1. submissions[i] \in Submission
  BY DEF TypeOK
<1>2. QED
  BY <1>1 DEF Submission, NonceData

-----------------------------------------------------------------------------
(* One submission per block.                                                *)

\* A submission closes its round: with submit_only_best it is made by the
\* marker that finishes the round, and the count of ended drives does not come
\* back to that value while the round lasts, as only an unfinished round has
\* its count reset.
OnceInv ==
  /\ \A i \in 1..Len(submissions) : submissions[i].round <= state.block
  /\ state.finished_scanning => state.processed_reader_tasks >= Cardinality(Drives)
  /\ SubmitOnlyBest =>
       \A i \in 1..Len(submissions) :
         submissions[i].round = state.block => state.finished_scanning
  /\ AtMostOneSubmission

LEMMA DriveCount == Cardinality(Drives) \in Nat
BY MinerAssumption, FS_CardinalityType

LEMMA OnceSameRound ==
  ASSUME TypeOK, OnceInv, SameRound(state, state'), submissions' = submissions
  PROVE  OnceInv'
BY DriveCount DEF OnceInv, SameRound, AtMostOneSubmission

LEMMA OnceNewRound ==
  ASSUME TypeOK, OnceInv, state'.block = state.block + 1,
         state'.finished_scanning = FALSE, submissions' = submissions
  PROVE  OnceInv'
<1>1. state.block \in Nat
  BY ConstantTypes DEF TypeOK, State
<1>2. \A i \in 1..Len(submissions) : submissions[i].round \in Nat
  BY SubmissionTypes, ConstantTypes DEF Blocks
<1>3. \A i \in 1..Len(submissions) : submissions[i].round < state'.block
  BY <1>1, <1>2 DEF OnceInv
<1>4. QED
  BY <1>1, <1>2, <1>3 DEF OnceInv, AtMostOneSubmission

LEMMA OnceTaken ==
  ASSUME TypeOK, OnceInv, NEW m \in nonce_data, Taken(m)
  PROVE  OnceInv'
<1> DEFINE N == Cardinality(Drives)
           count == state.processed_reader_tasks
<1>1. /\ count \in Nat /\ N \in Nat /\ state.block \in Nat
      /\ state.finished_scanning \in BOOLEAN
      /\ m.reader_task_processed \in BOOLEAN
  BY ConstantTypes, DriveCount DEF TypeOK, State, NonceData
<1>2. /\ state'.block = state.block
      /\ state'.processed_reader_tasks =
           count + (IF m.reader_task_processed THEN 1 ELSE 0)
      /\ state'.finished_scanning = (state.finished_scanning \/ CompletesRound(state, m))
  BY DEF Taken
<1>3. state'.finished_scanning => state'.processed_reader_tasks >= N
  BY <1>1, <1>2 DEF OnceInv, CompletesRound
<1>4. CASE submissions' = submissions
  BY <1>1, <1>2, <1>3, <1>4 DEF OnceInv, AtMostOneSubmission
<1>5. ASSUME NEW n, submit_nonce(n), SubmitOnlyBest => CompletesRound(state, m)
      PROVE  OnceInv'
  <2>1. /\ Len(submissions) \in Nat
        /\ Len(submissions') = Len(submissions) + 1
        /\ \A i \in 1..Len(submissions) : submissions'[i] = submissions[i]
        /\ submissions'[Len(submissions) + 1].round = state.block
    <3>1. submissions \in Seq(Submission)
      BY DEF TypeOK
    <3>2. QED
      BY <1>5, <3>1, Submitted
  <2>2. \A i \in 1..Len(submissions') :
          i \in 1..Len(submissions) \/ i = Len(submissions')
    BY <2>1
  <2>3. \A i \in 1..Len(submissions') : submissions'[i].round <= state'.block
    BY <1>1, <1>2, <2>1, <2>2 DEF OnceInv
  <2>4. CASE SubmitOnlyBest
    <3>1. ~state.finished_scanning /\ state'.finished_scanning
      BY <1>1, <1>2, <1>5, <2>4 DEF OnceInv, CompletesRound
    <3>2. \A i \in 1..Len(submissions) : submissions[i].round # state.block
      BY <2>4, <3>1 DEF OnceInv
    <3>3. AtMostOneSubmission'
      BY <2>1, <2>2, <2>4, <3>2 DEF OnceInv, AtMostOneSubmission
    <3>4. QED
      BY <1>3, <2>3, <3>1, <3>3 DEF OnceInv
  <2>5. CASE ~SubmitOnlyBest
    BY <1>3, <2>3, <2>5 DEF OnceInv, AtMostOneSubmission
  <2>6. QED
    BY <2>4, <2>5
<1>6. QED
  BY <1>4, <1>5 DEF Taken

LEMMA OnceStep ==
  ASSUME TypeOK, OnceInv, [Next]_vars
  PROVE  OnceInv'
<1>1. ASSUME NEW info \in MiningInfo, PollKind(info) PROVE OnceInv'
  <2>1. submissions' = submissions
    BY <1>1 DEF PollKind
  <2>2. CASE PollAtNewHeight(info)
    BY <2>1, <2>2, OnceNewRound DEF PollAtNewHeight
  <2>3. CASE PollAtSameHeight
    BY <2>1, <2>3, OnceSameRound DEF PollAtSameHeight
  <2>4. QED
    BY <1>1, <2>2, <2>3 DEF PollKind
<1>2. ASSUME NEW t \in tasks, TaskKind(t) PROVE OnceInv'
  BY <1>2 DEF TaskKind, StateKept, OnceInv, AtMostOneSubmission
<1>3. CASE StopKind
  BY <1>3, OnceSameRound DEF StopKind
<1>4. CASE ForgetKind
  BY <1>4 DEF ForgetKind, OnceInv, AtMostOneSubmission
<1>5. ASSUME NEW m \in nonce_data, TakeKind(m) PROVE OnceInv'
  BY <1>5, OnceTaken DEF TakeKind
<1>6. CASE QuietKind
  BY <1>6 DEF QuietKind, OnceInv, AtMostOneSubmission
<1>7. QED
  BY <1>1, <1>2, <1>3, <1>4, <1>5, <1>6, Steps

\* With submit_only_best no block is submitted for twice, whatever is
\* interrupted, resumed or still under way.
THEOREM AtMostOnce == Spec => []AtMostOneSubmission
<1>1. Init => OnceInv
  BY DEF Init, OnceInv, AtMostOneSubmission
<1>2. TypeOK /\ OnceInv /\ [Next]_vars => OnceInv'
  BY OnceStep
<1>3. OnceInv => AtMostOneSubmission
  BY DEF OnceInv
<1>4. QED
  BY <1>1, <1>2, <1>3, Typing, PTL DEF Spec
-----------------------------------------------------------------------------
(* Strictly better solutions.                                               *)

\* What was submitted for the block under way is no better than what state
\* holds as its account's best deadline, which the next one has to beat.
BestBounds ==
  \A i \in 1..Len(submissions) :
    submissions[i].round = state.block =>
      state.account_id_to_best_deadline[submissions[i].nonce.account_id]
        <= submissions[i].nonce.deadline

ImproveInv == ~SubmitOnlyBest => BestBounds /\ SubmissionsImprove

LEMMA ImproveTaken ==
  ASSUME TypeOK, ~SubmitOnlyBest, BestBounds, SubmissionsImprove,
         NEW m \in nonce_data, Taken(m)
  PROVE  BestBounds' /\ SubmissionsImprove'
<1> DEFINE best == state.account_id_to_best_deadline
<1>1. /\ best \in [Accounts -> 0..NoBest]
      /\ m.account_id \in Accounts /\ m.deadline \in Deadlines
      /\ NoBest \in Nat /\ Deadlines \subseteq Nat
      /\ state'.block = state.block
  BY ConstantTypes DEF TypeOK, State, NonceData, Taken, Deadlines
<1>2. CASE Improves(state, m)
  <2>1. /\ m.deadline < best[m.account_id]
        /\ state'.account_id_to_best_deadline = [best EXCEPT ![m.account_id] = m.deadline]
    BY <1>2 DEF Taken, Improves
  <2>2. \A a \in Accounts :
          /\ best[a] \in Nat
          /\ state'.account_id_to_best_deadline[a] \in Nat
          /\ state'.account_id_to_best_deadline[a] <= best[a]
    <3> DEFINE next == [best EXCEPT ![m.account_id] = m.deadline]
    <3>1. \A a \in Accounts : best[a] \in Nat
      BY <1>1
    <3>2. m.deadline \in Nat
      BY <1>1
    <3>3. next[m.account_id] = m.deadline
      BY <1>1
    <3>4. \A a \in Accounts : a # m.account_id => next[a] = best[a]
      BY <1>1
    <3>5. \A a \in Accounts : next[a] \in Nat /\ next[a] <= best[a]
      BY <2>1, <3>1, <3>2, <3>3, <3>4
    <3>6. QED
      BY <2>1, <3>1, <3>5
  <2>3. state'.account_id_to_best_deadline[m.account_id] = m.deadline
    BY <1>1, <2>1
  <2>4. CASE submissions' = submissions
    <3>1. \A i \in 1..Len(submissions) :
            /\ submissions[i].nonce.account_id \in Accounts
            /\ submissions[i].nonce.deadline \in Nat
      BY <1>1, SubmissionTypes
    <3>2. BestBounds'
      BY <1>1, <2>2, <2>4, <3>1 DEF BestBounds
    <3>3. QED
      BY <2>4, <3>2 DEF SubmissionsImprove
  <2>5. CASE submit_nonce(m)
    <3>1. /\ Len(submissions) \in Nat
          /\ Len(submissions') = Len(submissions) + 1
          /\ \A i \in 1..Len(submissions) : submissions'[i] = submissions[i]
          /\ submissions'[Len(submissions) + 1].nonce = m
      <4>1. submissions \in Seq(Submission)
        BY DEF TypeOK
      <4>2. QED
        BY <2>5, <4>1, Submitted
    <3>2. \A i \in 1..Len(submissions') :
            i \in 1..Len(submissions) \/ i = Len(submissions')
      BY <3>1
    <3>3. \A i \in 1..Len(submissions) :
            /\ submissions[i].nonce.account_id \in Accounts
            /\ submissions[i].nonce.deadline \in Nat
      BY <1>1, SubmissionTypes
    <3>4. BestBounds'
      <4> DEFINE next == state'.account_id_to_best_deadline
      <4>1. \A i \in 1..Len(submissions) :
              submissions[i].round = state.block =>
                next[submissions[i].nonce.account_id] <= submissions[i].nonce.deadline
        <5> SUFFICES ASSUME NEW i \in 1..Len(submissions),
                            submissions[i].round = state.block
                     PROVE  next[submissions[i].nonce.account_id]
                              <= submissions[i].nonce.deadline
          OBVIOUS
        <5>1. best[submissions[i].nonce.account_id] <= submissions[i].nonce.deadline
          BY DEF BestBounds
        <5> DEFINE a == submissions[i].nonce.account_id
        <5>2. a \in Accounts /\ submissions[i].nonce.deadline \in Nat
          BY <3>3
        <5>3. next[a] \in Nat /\ best[a] \in Nat /\ next[a] <= best[a]
          BY <2>2, <5>2
        <5>4. QED
          BY <5>1, <5>2, <5>3
      <4>2. next[submissions'[Len(submissions')].nonce.account_id]
              <= submissions'[Len(submissions')].nonce.deadline
        <5>1. m.deadline \in Nat
          BY <1>1
        <5>2. QED
          BY <2>3, <3>1, <5>1
      <4>3. QED
        BY <1>1, <3>1, <3>2, <4>1, <4>2 DEF BestBounds
    <3>5. \A i \in 1..Len(submissions) :
            /\ submissions[i].round = state.block
            /\ submissions[i].nonce.account_id = m.account_id
            => m.deadline < submissions[i].nonce.deadline
      BY <1>1, <2>1, <2>2, <3>3 DEF BestBounds
    <3>6. submissions'[Len(submissions')].round = state.block
      <4>1. submissions \in Seq(Submission)
        BY DEF TypeOK
      <4>2. QED
        BY <2>5, <3>1, <4>1, Submitted
    <3>7. SubmissionsImprove'
      BY <3>1, <3>2, <3>5, <3>6 DEF SubmissionsImprove
    <3>8. QED
      BY <3>4, <3>7
  <2>6. QED
    BY <2>4, <2>5 DEF Taken
<1>3. CASE ~Improves(state, m)
  <2>1. state'.account_id_to_best_deadline = best /\ submissions' = submissions
    BY <1>3 DEF Taken
  <2>2. QED
    BY <1>1, <2>1 DEF BestBounds, SubmissionsImprove
<1>4. QED
  BY <1>2, <1>3

LEMMA ImproveStep ==
  ASSUME TypeOK, OnceInv, ImproveInv, [Next]_vars
  PROVE  ImproveInv'
<1> SUFFICES ASSUME ~SubmitOnlyBest PROVE BestBounds' /\ SubmissionsImprove'
  BY DEF ImproveInv
<1>0. BestBounds /\ SubmissionsImprove
  BY DEF ImproveInv
<1>a. ASSUME SameRound(state, state'), submissions' = submissions
      PROVE  BestBounds' /\ SubmissionsImprove'
  BY <1>0, <1>a DEF SameRound, BestBounds, SubmissionsImprove
<1>1. ASSUME NEW info \in MiningInfo, PollKind(info)
      PROVE  BestBounds' /\ SubmissionsImprove'
  <2>1. submissions' = submissions
    BY <1>1 DEF PollKind
  <2>2. CASE PollAtNewHeight(info)
    <3>1. state.block \in Nat /\ state'.block = state.block + 1
      BY <2>2, ConstantTypes DEF PollAtNewHeight, TypeOK, State
    <3>2. \A i \in 1..Len(submissions) : submissions[i].round \in Nat
      BY SubmissionTypes, ConstantTypes DEF Blocks
    <3>3. \A i \in 1..Len(submissions) : submissions[i].round # state'.block
      BY <3>1, <3>2 DEF OnceInv
    <3>4. QED
      BY <1>0, <2>1, <3>3 DEF BestBounds, SubmissionsImprove
  <2>3. CASE PollAtSameHeight
    BY <1>a, <2>1, <2>3 DEF PollAtSameHeight
  <2>4. QED
    BY <1>1, <2>2, <2>3 DEF PollKind
<1>2. ASSUME NEW t \in tasks, TaskKind(t) PROVE BestBounds' /\ SubmissionsImprove'
  BY <1>0, <1>2 DEF TaskKind, StateKept, BestBounds, SubmissionsImprove
<1>3. CASE StopKind
  BY <1>a, <1>3 DEF StopKind
<1>4. CASE ForgetKind
  BY <1>0, <1>4 DEF ForgetKind, BestBounds, SubmissionsImprove
<1>5. ASSUME NEW m \in nonce_data, TakeKind(m) PROVE BestBounds' /\ SubmissionsImprove'
  BY <1>0, <1>5, ImproveTaken DEF TakeKind
<1>6. CASE QuietKind
  BY <1>0, <1>6 DEF QuietKind, BestBounds, SubmissionsImprove
<1>7. QED
  BY <1>1, <1>2, <1>3, <1>4, <1>5, <1>6, Steps

\* Whatever an account submits for a block beats what it submitted before for
\* that block, in every mode and whatever the annode's heights do.
THEOREM StrictlyBetter == Spec => []SubmissionsImprove
<1>1. Init => OnceInv /\ ImproveInv
  BY DEF Init, OnceInv, ImproveInv, BestBounds, SubmissionsImprove, AtMostOneSubmission
<1>2. TypeOK /\ OnceInv /\ ImproveInv /\ [Next]_vars => OnceInv' /\ ImproveInv'
  BY OnceStep, ImproveStep
<1>3. TypeOK /\ OnceInv /\ ImproveInv => SubmissionsImprove
  <2> SUFFICES ASSUME TypeOK, OnceInv, ImproveInv PROVE SubmissionsImprove
    OBVIOUS
  <2>1. CASE SubmitOnlyBest
    <3>1. Len(submissions) \in Nat
      BY DEF TypeOK
    <3>2. \A i, j \in 1..Len(submissions) : i < j => i # j
      BY <3>1
    <3>3. QED
      BY <2>1, <3>2 DEF OnceInv, AtMostOneSubmission, SubmissionsImprove
  <2>2. CASE ~SubmitOnlyBest
    BY <2>2 DEF ImproveInv
  <2>3. QED
    BY <2>1, <2>2
<1>4. QED
  BY <1>1, <1>2, <1>3, Typing, PTL DEF Spec
-----------------------------------------------------------------------------
(* Heights stand for blocks while the annode's height never goes down.      *)

\* x is not of a later height than s, and of the same block at the same one.
Current(s, x) == x.height <= s.height /\ (x.height = s.height => x.block = s.block)

\* Everything that carries a height was made for the block that height stands
\* for; the handler's retained solution is its account's best of that block.
CurrentInv ==
  /\ \A t \in tasks : Current(state, t)
  /\ \A m \in nonce_data : Current(state, m)
  /\ best_nonce_data # NoNonce => Current(state, best_nonce_data)
  /\ ~SubmitOnlyBest => best_nonce_data = NoNonce
  /\ RetainedIsBest
  /\ SubmissionsMatchRound

LEMMA HeightTypes ==
  ASSUME TypeOK
  PROVE  /\ state.height \in Nat /\ NoNonce.height = 0
         /\ \A t \in tasks : t.height \in Nat \ {0}
         /\ \A m \in nonce_data : m.height \in Nat \ {0}
         /\ best_nonce_data # NoNonce =>
              best_nonce_data \in NonceData /\ best_nonce_data.height \in Nat \ {0}
BY ConstantTypes DEF TypeOK, State, Task, NonceData, NoNonce, Heights

LEMMA CurrentSameRound ==
  ASSUME CurrentInv, SameRound(state, state'),
         \A t \in tasks' : Current(state', t),
         nonce_data' \subseteq nonce_data,
         UNCHANGED <<best_nonce_data, submissions>>
  PROVE  CurrentInv'
BY DEF CurrentInv, Current, SameRound, RetainedIsBest, SubmissionsMatchRound

LEMMA CurrentInterrupted ==
  ASSUME TypeOK, CurrentInv, NEW t \in Interrupted(tasks)
  PROVE  Current(state, t)
<1>1. PICK u \in tasks : t.height = u.height /\ t.block = u.block
  BY InterruptedTasks DEF TypeOK
<1>2. QED
  BY <1>1 DEF CurrentInv, Current

LEMMA CurrentNewRound ==
  ASSUME TypeOK, CurrentInv, ~Reorgs, NEW info \in MiningInfo,
         PollKind(info), PollAtNewHeight(info)
  PROVE  CurrentInv'
<1>1. state'.height \in Nat /\ state.height < state'.height
  BY ConstantTypes, HeightTypes DEF PollKind, PollAtNewHeight, MiningInfo, Heights
<1>2. UNCHANGED <<best_nonce_data, nonce_data, submissions>>
  BY DEF PollKind
<1>3. ASSUME NEW x, Current(state, x), x.height \in Nat PROVE Current(state', x)
  BY <1>1, <1>3, HeightTypes DEF Current
<1>4. \A t \in tasks' : Current(state', t)
  <2>1. CASE tasks' = tasks
    BY <1>3, <2>1, HeightTypes DEF CurrentInv
  <2>2. CASE start_reading(state'.height, state'.block, state'.scoop)
    <3>1. \A t \in Interrupted(tasks) : Current(state', t)
      <4> SUFFICES ASSUME NEW t \in Interrupted(tasks) PROVE Current(state', t)
        OBVIOUS
      <4>1. PICK u \in tasks : t.height = u.height
        BY InterruptedTasks DEF TypeOK
      <4>2. Current(state, t) /\ t.height \in Nat
        BY <4>1, CurrentInterrupted, HeightTypes
      <4>3. QED
        BY <1>3, <4>2
    <3>2. \A t \in tasks' :
            \/ t \in Interrupted(tasks)
            \/ t.height = state'.height /\ t.block = state'.block
      <4>1. tasks \subseteq Task
        BY DEF TypeOK
      <4>2. QED
        BY <2>2, <4>1, StartFacts
    <3>3. QED
      BY <1>1, <3>1, <3>2 DEF Current
  <2>3. QED
    BY <2>1, <2>2 DEF PollAtNewHeight, KeepReading
<1>5. \A m \in nonce_data' : Current(state', m)
  BY <1>2, <1>3, HeightTypes DEF CurrentInv
<1>6. best_nonce_data' # NoNonce =>
        Current(state', best_nonce_data') /\ best_nonce_data'.height # state'.height
  <2>1. CASE best_nonce_data = NoNonce
    BY <1>2, <2>1
  <2>2. CASE best_nonce_data # NoNonce
    <3>1. Current(state, best_nonce_data) /\ best_nonce_data.height \in Nat
      BY <2>2, HeightTypes DEF CurrentInv
    <3>2. best_nonce_data.height # state'.height
      BY <1>1, <3>1, HeightTypes DEF Current
    <3>3. QED
      BY <1>2, <1>3, <3>1, <3>2
  <2>3. QED
    BY <2>1, <2>2
<1>7. QED
  BY <1>2, <1>4, <1>5, <1>6
     DEF CurrentInv, RetainedIsBest, SubmissionsMatchRound

LEMMA CurrentTaken ==
  ASSUME TypeOK, CurrentInv, NEW m \in nonce_data, Taken(m),
         nonce_data' \subseteq nonce_data
  PROVE  CurrentInv'
<1>1. /\ state'.height = state.height /\ state'.block = state.block
      /\ tasks' = tasks /\ m.height = state.height
  BY DEF Taken
<1>2. m.block = state.block /\ m.height # 0 /\ m \in NonceData
  BY <1>1, HeightTypes DEF CurrentInv, Current, TypeOK
<1>3. /\ \A t \in tasks' : Current(state', t)
      /\ \A n \in nonce_data' : Current(state', n)
  BY <1>1 DEF CurrentInv, Current
<1>4. CASE Improves(state, m) /\ SubmitOnlyBest
  <2>1. best_nonce_data' = m
    BY <1>4 DEF Taken
  <2>2. state'.account_id_to_best_deadline =
          [state.account_id_to_best_deadline EXCEPT ![m.account_id] = m.deadline]
    BY <1>4 DEF Taken
  <2>3. state'.account_id_to_best_deadline[m.account_id] = m.deadline
    BY <1>2, <2>2 DEF TypeOK, State, NonceData
  <2>4. RetainedIsBest'
    BY <1>1, <1>2, <2>1, <2>3 DEF RetainedIsBest
  <2>5. best_nonce_data'.block = state.block
    BY <1>2, <2>1
  <2>6. Current(state', best_nonce_data')
    BY <1>1, <1>2, <2>1, HeightTypes DEF Current
  <2>7. SubmissionsMatchRound'
    <3>1. CASE submissions' = submissions
      BY <3>1 DEF CurrentInv, SubmissionsMatchRound
    <3>2. CASE submit_nonce(best_nonce_data')
      <4>1. submissions \in Seq(Submission)
        BY DEF TypeOK
      <4>2. /\ Len(submissions) \in Nat
            /\ Len(submissions') = Len(submissions) + 1
            /\ \A i \in 1..Len(submissions) : submissions'[i] = submissions[i]
            /\ submissions'[Len(submissions) + 1].nonce = best_nonce_data'
            /\ submissions'[Len(submissions) + 1].round = state.block
        BY <3>2, <4>1, Submitted
      <4>3. QED
        BY <2>5, <4>2 DEF CurrentInv, SubmissionsMatchRound
    <3>3. QED
      BY <1>4, <3>1, <3>2 DEF Taken
  <2>8. QED
    BY <1>3, <1>4, <2>4, <2>6, <2>7 DEF CurrentInv
<1>5. CASE ~(Improves(state, m) /\ SubmitOnlyBest)
  <2>1. best_nonce_data' = best_nonce_data
    BY <1>5 DEF Taken
  <2>2. best_nonce_data' # NoNonce => Current(state', best_nonce_data')
    BY <1>1, <2>1 DEF CurrentInv, Current
  <2>3. RetainedIsBest'
    <3>1. CASE SubmitOnlyBest
      <4>1. state'.account_id_to_best_deadline = state.account_id_to_best_deadline
        BY <1>5, <3>1 DEF Taken
      <4>2. QED
        BY <1>1, <2>1, <4>1 DEF CurrentInv, RetainedIsBest
    <3>2. CASE ~SubmitOnlyBest
      BY <2>1, <3>2 DEF CurrentInv, RetainedIsBest
    <3>3. QED
      BY <3>1, <3>2
  <2>4. SubmissionsMatchRound'
    <3>1. CASE submissions' = submissions
      BY <3>1 DEF CurrentInv, SubmissionsMatchRound
    <3>2. ASSUME NEW n, submit_nonce(n), n.block = state.block
          PROVE  SubmissionsMatchRound'
      <4>1. submissions \in Seq(Submission)
        BY DEF TypeOK
      <4>2. /\ Len(submissions) \in Nat
            /\ Len(submissions') = Len(submissions) + 1
            /\ \A i \in 1..Len(submissions) : submissions'[i] = submissions[i]
            /\ submissions'[Len(submissions) + 1].nonce = n
            /\ submissions'[Len(submissions) + 1].round = state.block
        BY <3>2, <4>1, Submitted
      <4>3. QED
        BY <3>2, <4>2 DEF CurrentInv, SubmissionsMatchRound
    <3>3. best_nonce_data'.height = state.height => best_nonce_data'.block = state.block
      <4>1. CASE best_nonce_data = NoNonce
        BY <1>1, <1>2, <2>1, <4>1, HeightTypes
      <4>2. CASE best_nonce_data # NoNonce
        BY <2>1, <4>2 DEF CurrentInv, Current
      <4>3. QED
        BY <4>1, <4>2
    <3>4. QED
      BY <1>2, <3>1, <3>2, <3>3 DEF Taken
  <2>5. ~SubmitOnlyBest => best_nonce_data' = NoNonce
    BY <2>1 DEF CurrentInv
  <2>6. QED
    BY <1>3, <2>2, <2>3, <2>4, <2>5 DEF CurrentInv
<1>6. QED
  BY <1>4, <1>5

LEMMA CurrentTask ==
  ASSUME TypeOK, CurrentInv, NEW t \in tasks, TaskKind(t)
  PROVE  CurrentInv'
<1>1. /\ state' = state
      /\ UNCHANGED <<best_nonce_data, submissions>>
  BY DEF TaskKind, StateKept
<1>2. \A u \in tasks' : Current(state', u)
  <2>1. \A u \in Advanced(t) : \E v \in tasks : u.height = v.height /\ u.block = v.block
    BY AdvancedTasks DEF TypeOK
  <2>2. QED
    BY <1>1, <2>1 DEF TaskKind, CurrentInv, Current
<1>3. \A m \in nonce_data' : Current(state', m)
  <2>1. \A h \in BOOLEAN : Current(state, NonceOf(t, h))
    BY DEF CurrentInv, Current, NonceOf
  <2>2. QED
    BY <1>1, <2>1 DEF TaskKind, CurrentInv
<1>4. QED
  BY <1>1, <1>2, <1>3 DEF CurrentInv, RetainedIsBest, SubmissionsMatchRound

LEMMA CurrentStep ==
  ASSUME TypeOK, CurrentInv, ~Reorgs, [Next]_vars
  PROVE  CurrentInv'
<1>a. ASSUME tasks' = Interrupted(tasks), SameRound(state, state')
      PROVE  \A t \in tasks' : Current(state', t)
  BY <1>a, CurrentInterrupted DEF SameRound, Current
<1>1. ASSUME NEW info \in MiningInfo, PollKind(info) PROVE CurrentInv'
  <2>1. UNCHANGED <<best_nonce_data, nonce_data, submissions>>
    BY <1>1 DEF PollKind
  <2>2. CASE PollAtNewHeight(info)
    BY <1>1, <2>2, CurrentNewRound
  <2>3. CASE PollAtSameHeight
    <3>1. SameRound(state, state')
      BY <2>3 DEF PollAtSameHeight
    <3>2. CASE KeepReading
      <4>1. \A t \in tasks' : Current(state', t)
        BY <3>1, <3>2 DEF KeepReading, CurrentInv, Current, SameRound
      <4>2. QED
        BY <2>1, <3>1, <4>1, CurrentSameRound
    <3>3. CASE stop_reading
      <4>1. \A t \in tasks' : Current(state', t)
        BY <1>a, <3>1, <3>3 DEF stop_reading
      <4>2. QED
        BY <2>1, <3>1, <4>1, CurrentSameRound
    <3>4. CASE start_reading(state'.height, state'.block, state'.scoop)
      <4>1. \A t \in Interrupted(tasks) : Current(state', t)
        BY <3>1, CurrentInterrupted DEF SameRound, Current
      <4>2. tasks \subseteq Task
        BY DEF TypeOK
      <4>3. \A t \in tasks' :
              \/ t \in Interrupted(tasks)
              \/ t.height = state'.height /\ t.block = state'.block
        BY <3>4, <4>2, StartFacts
      <4>4. state'.height \in Nat
        BY <3>1, HeightTypes DEF SameRound
      <4>5. \A t \in tasks' : Current(state', t)
        BY <4>1, <4>3, <4>4 DEF Current
      <4>6. QED
        BY <2>1, <3>1, <4>5, CurrentSameRound
    <3>5. QED
      BY <2>3, <3>2, <3>3, <3>4 DEF PollAtSameHeight
  <2>4. QED
    BY <1>1, <2>2, <2>3 DEF PollKind
<1>2. ASSUME NEW t \in tasks, TaskKind(t) PROVE CurrentInv'
  BY <1>2, CurrentTask
<1>3. CASE StopKind
  <2>1. \A t \in tasks' : Current(state', t)
    BY <1>a, <1>3 DEF StopKind, stop_reading
  <2>2. QED
    BY <1>3, <2>1, CurrentSameRound DEF StopKind
<1>4. CASE ForgetKind
  <2>1. best_nonce_data' = NoNonce => RetainedIsBest'
    BY DEF RetainedIsBest
  <2>2. QED
    BY <1>4, <2>1 DEF ForgetKind, CurrentInv, RetainedIsBest, SubmissionsMatchRound
<1>5. ASSUME NEW m \in nonce_data, TakeKind(m) PROVE CurrentInv'
  BY <1>5, CurrentTaken DEF TakeKind
<1>6. CASE QuietKind
  BY <1>6 DEF QuietKind, CurrentInv, RetainedIsBest, SubmissionsMatchRound
<1>7. QED
  BY <1>1, <1>2, <1>3, <1>4, <1>5, <1>6, Steps

LEMMA CurrentAlways == Spec => [](~Reorgs => CurrentInv)
<1> DEFINE I == ~Reorgs => CurrentInv
<1>1. Init => I
  BY DEF Init, CurrentInv, RetainedIsBest, SubmissionsMatchRound
<1>2. TypeOK /\ I /\ [Next]_vars => I'
  BY CurrentStep
<1>3. QED
  BY <1>1, <1>2, Typing, PTL DEF Spec

\* While the annode's height never goes down, the solution the handler retains
\* is the best its account has for the block under way, and every submission is
\* of the block whose generation signature it is sent with.
THEOREM Retained == Spec => [](~Reorgs => RetainedIsBest /\ SubmissionsMatchRound)
<1>1. (~Reorgs => CurrentInv) => (~Reorgs => RetainedIsBest /\ SubmissionsMatchRound)
  BY DEF CurrentInv
<1>2. QED
  BY <1>1, CurrentAlways, PTL

\* Without reorganisations the generation signature a submission is sent with
\* is the one it was computed for (miner.rs:987).
THEOREM RoundMatched == Spec => [](~Reorgs => SubmissionsMatchRound)
BY Retained, PTL

-----------------------------------------------------------------------------
(* Miner keeps its half of SubmissionQueue in every instance: the handler   *)
(* hands over rounds in order and only improving solutions within a round,  *)
(* and nothing it handed over is taken up again.  SubmissionProofs shows    *)
(* the other half of the contract.                                          *)


\* What is pending was submitted.
PendingInv == \A x \in queued : \E i \in 1..Len(submissions) : submissions[i] = x

ContractInv == TypeOK /\ OnceInv /\ ImproveInv /\ SubmissionsImprove /\ PendingInv

LEMMA AppendOffered ==
  ASSUME TypeOK, NEW n, submit_nonce(n)
  PROVE  LET x == [nonce |-> n, round |-> state.block]
         IN  /\ offered' = offered \cup {Offered(x)}
             /\ pending' = pending \cup {Offered(x)}
             /\ queued' = queued \cup {x}
             /\ PendingInv => PendingInv'
<1> DEFINE x == [nonce |-> n, round |-> state.block]
<1>1. submissions' = Append(submissions, x) /\ queued' = queued \cup {x}
  BY DEF submit_nonce
<1>2. submissions \in Seq(Submission)
  BY DEF TypeOK
<1> HIDE DEF x
<1>3. /\ Len(submissions) \in Nat
      /\ Len(submissions') = Len(submissions) + 1
      /\ \A i \in 1..Len(submissions) : submissions'[i] = submissions[i]
      /\ submissions'[Len(submissions) + 1] = x
  BY <1>1, <1>2
<1>4. \A i \in 1..Len(submissions') :
        i \in 1..Len(submissions) \/ i = Len(submissions) + 1
  BY <1>3
<1>5. /\ \A i \in 1..Len(submissions) : i \in 1..Len(submissions')
      /\ Len(submissions) + 1 \in 1..Len(submissions')
  BY <1>3
<1>6. offered' = offered \cup {Offered(x)}
  <2>1. offered' = {Offered(submissions'[i]) : i \in 1..Len(submissions')}
    BY DEF offered, Offered
  <2>2. QED
    BY <1>3, <1>4, <1>5, <2>1 DEF offered
<1>7. pending' = pending \cup {Offered(x)}
  <2>1. pending' = {Offered(y) : y \in queued'}
    BY DEF pending, Offered
  <2>2. QED
    BY <1>1, <2>1 DEF pending
<1>8. PendingInv => PendingInv'
  BY <1>1, <1>3, <1>5 DEF PendingInv
<1>9. QED
  BY <1>1, <1>6, <1>7, <1>8 DEF x

LEMMA OfferedUnchanged ==
  ASSUME submissions' = submissions
  PROVE  offered' = offered
BY DEF offered, Offered

LEMMA PendingUnchanged ==
  ASSUME queued' = queued
  PROVE  pending' = pending
BY DEF pending, Offered

\* Two submissions are never the same to the request handler.
LEMMA OfferedApart ==
  ASSUME TypeOK, SubmissionsImprove, PendingInv,
         NEW x \in queued, NEW y \in queued, Offered(x) = Offered(y)
  PROVE  x = y
<1>1. PICK i \in 1..Len(submissions) : submissions[i] = x
  BY DEF PendingInv
<1>2. PICK j \in 1..Len(submissions) : submissions[j] = y
  BY DEF PendingInv
<1>3. /\ x.round = y.round /\ x.nonce.account_id = y.nonce.account_id
      /\ x.nonce.deadline = y.nonce.deadline
  BY DEF Offered
<1>4. x.nonce.deadline \in Nat /\ i \in Nat /\ j \in Nat
  <2>1. submissions[i].nonce.deadline \in Deadlines
    BY <1>1, SubmissionTypes
  <2>2. Len(submissions) \in Nat
    BY DEF TypeOK
  <2>3. QED
    BY <1>1, <2>1, <2>2 DEF Deadlines
<1>5. ~(i < j) /\ ~(j < i)
  BY <1>1, <1>2, <1>3, <1>4 DEF SubmissionsImprove
<1>6. QED
  BY <1>1, <1>2, <1>4, <1>5

\* Letting a submission go lets go of what the request handler sees of it.
LEMMA PendingRemoved ==
  ASSUME TypeOK, SubmissionsImprove, PendingInv,
         NEW x \in queued, queued' = queued \ {x}
  PROVE  Offered(x) \in pending /\ pending' = pending \ {Offered(x)}
<1>1. pending' = {Offered(y) : y \in queued'}
  BY DEF pending, Offered
<1>2. \A y \in queued : Offered(y) = Offered(x) => y = x
  BY OfferedApart
<1>3. QED
  BY <1>1, <1>2 DEF pending

\* What may be handed over: a solution that follows all that was.
LEMMA SubmitFollows ==
  ASSUME TypeOK, OnceInv, ImproveInv, NEW n \in NonceData,
         SubmitOnlyBest => ~state.finished_scanning,
         ~SubmitOnlyBest =>
           /\ n.deadline < state.account_id_to_best_deadline[n.account_id]
           /\ state.account_id_to_best_deadline[n.account_id] \in Nat,
         NEW q \in offered
  PROVE  LET p == Offered([nonce |-> n, round |-> state.block])
         IN  p # q /\ Queue!Follows(p, q)
<1> DEFINE p == Offered([nonce |-> n, round |-> state.block])
<1>1. /\ p.round = state.block /\ p.account_id = n.account_id
      /\ p.deadline = n.deadline
  BY DEF Offered
<1>2. PICK i \in 1..Len(submissions) : q = Offered(submissions[i])
  BY DEF offered
<1>3. /\ q.round = submissions[i].round
      /\ q.account_id = submissions[i].nonce.account_id
      /\ q.deadline = submissions[i].nonce.deadline
  BY <1>2 DEF Offered
<1>4. q.round \in Nat /\ state.block \in Nat /\ q.round <= state.block
  <2>1. submissions[i].round \in Nat
    BY SubmissionTypes DEF Blocks
  <2>2. state.block \in Nat
    BY DEF TypeOK, State
  <2>3. QED
    BY <1>3, <2>1, <2>2 DEF OnceInv
<1> HIDE DEF p
<1>5. ASSUME q.round < state.block PROVE p # q /\ Queue!Follows(p, q)
  BY <1>1, <1>4, <1>5 DEF Queue!Follows
<1>6. ASSUME q.round = state.block, q.account_id # p.account_id
      PROVE  p # q /\ Queue!Follows(p, q)
  BY <1>1, <1>6 DEF Queue!Follows
<1>7. ASSUME q.round = state.block, q.account_id = p.account_id
      PROVE  p # q /\ Queue!Follows(p, q)
  <2>1. ~SubmitOnlyBest
    BY <1>3, <1>7 DEF OnceInv
  <2>2. state.account_id_to_best_deadline[n.account_id] <= q.deadline
    BY <1>1, <1>3, <1>7, <2>1 DEF ImproveInv, BestBounds
  <2>3. q.deadline \in Nat /\ n.deadline \in Nat
    <3>1. submissions[i].nonce.deadline \in Nat
      BY SubmissionTypes DEF Deadlines
    <3>2. QED
      BY <1>3, <3>1 DEF NonceData, Deadlines
  <2>4. p.deadline < q.deadline
    BY <1>1, <2>1, <2>2, <2>3
  <2>5. QED
    BY <1>1, <1>7, <2>3, <2>4 DEF Queue!Follows
<1>8. QED
  BY <1>4, <1>5, <1>6, <1>7 DEF p

\* What the handler hands over is typed and follows all that was.
LEMMA TakenSubmits ==
  ASSUME TypeOK, OnceInv, ImproveInv, NEW m \in nonce_data, Taken(m), TypeOK'
  PROVE  \/ UNCHANGED <<submissions, queued>>
         \/ \E n \in NonceData :
              /\ submit_nonce(n)
              /\ SubmitOnlyBest => ~state.finished_scanning
              /\ ~SubmitOnlyBest =>
                   /\ n.deadline < state.account_id_to_best_deadline[n.account_id]
                   /\ state.account_id_to_best_deadline[n.account_id] \in Nat
<1>1. m \in NonceData /\ m.account_id \in Accounts
  BY DEF TypeOK, NonceData
<1>2. CASE ~SubmitOnlyBest /\ Improves(state, m) /\ submit_nonce(m)
  <2>1. state.account_id_to_best_deadline[m.account_id] \in Nat
    BY <1>1, ConstantTypes DEF TypeOK, State
  <2>2. QED
    BY <1>1, <1>2, <2>1 DEF Improves
<1>3. CASE /\ SubmitOnlyBest /\ CompletesRound(state, m)
           /\ best_nonce_data'.height = state.height
           /\ submit_nonce(best_nonce_data')
  <2>1. best_nonce_data' # NoNonce
    <3>1. m.height # 0 /\ m.height = state.height
      BY HeightTypes DEF Taken
    <3>2. QED
      BY <1>3, <3>1 DEF NoNonce
  <2>2. best_nonce_data' \in NonceData
    BY <2>1 DEF TypeOK
  <2>3. ~state.finished_scanning
    <3>1. state.processed_reader_tasks \in Nat /\ Cardinality(Drives) \in Nat
      BY ConstantTypes DEF TypeOK, State
    <3>2. QED
      BY <1>3, <3>1 DEF OnceInv, CompletesRound
  <2>4. QED
    BY <1>3, <2>2, <2>3
<1>4. QED
  BY <1>2, <1>3 DEF Taken

LEMMA OfferedTypes ==
  ASSUME TypeOK, NEW n \in NonceData, state.block \in Blocks
  PROVE  Offered([nonce |-> n, round |-> state.block]) \in Queue!Params
BY DEF Offered, NonceData, Queue!Params, Queue!Rounds, Blocks, Deadlines

LEMMA ContractSubmit ==
  ASSUME ContractInv, NEW n \in NonceData, submit_nonce(n), state.block \in Blocks,
         SubmitOnlyBest => ~state.finished_scanning,
         ~SubmitOnlyBest =>
           /\ n.deadline < state.account_id_to_best_deadline[n.account_id]
           /\ state.account_id_to_best_deadline[n.account_id] \in Nat,
         SUBMISSION_SUCCESS' = SUBMISSION_SUCCESS
  PROVE  Queue!Next /\ PendingInv'
<1> DEFINE p == Offered([nonce |-> n, round |-> state.block])
<1>0. TypeOK /\ OnceInv /\ ImproveInv /\ PendingInv
  BY DEF ContractInv
<1>1. /\ offered' = offered \cup {p} /\ pending' = pending \cup {p}
      /\ PendingInv'
  BY <1>0, AppendOffered
<1>2. p \in Queue!Params
  BY <1>0, OfferedTypes
<1>3. \A q \in offered : p # q /\ Queue!Follows(p, q)
  BY <1>0, SubmitFollows
<1> HIDE DEF p
<1>4. Queue!submit_nonce(p)
  BY <1>1, <1>3 DEF Queue!submit_nonce
<1>5. QED
  BY <1>1, <1>2, <1>4 DEF Queue!Next

LEMMA QuietContract ==
  ASSUME PendingInv, UNCHANGED <<submissions, queued>>
  PROVE  PendingInv' /\ offered' = offered /\ pending' = pending
BY OfferedUnchanged, PendingUnchanged DEF PendingInv

LEMMA ContractStep ==
  ASSUME ContractInv, TypeOK', [Next]_vars
  PROVE  PendingInv' /\ [Queue!Next]_(Queue!vars)
<1>0. TypeOK /\ OnceInv /\ ImproveInv /\ PendingInv /\ SubmissionsImprove
  BY DEF ContractInv
<1>1. ASSUME NEW info \in MiningInfo, Poll(info)
      PROVE  PendingInv' /\ Queue!TakeSuccess
  BY <1>0, <1>1, QuietContract DEF Poll, Queue!TakeSuccess
<1>2. CASE \/ \E t \in tasks : ReaderStep(t)
           \/ UNCHANGED vars
  <2>1. UNCHANGED <<submissions, queued, SUBMISSION_SUCCESS>>
    BY <1>2 DEF ReaderStep, ReaderStops, PrepareFails, PlotRead, ReadFails,
                ReaderUnchanged, vars
  <2>2. QED
    BY <1>0, <2>1, QuietContract DEF Queue!vars
<1>3. ASSUME NEW m \in nonce_data, HandleNonce(m)
      PROVE  PendingInv' /\ [Queue!Next]_(Queue!vars)
  <2>1. SUBMISSION_SUCCESS' = SUBMISSION_SUCCESS
    BY <1>3 DEF HandleNonce
  <2>2. CASE UNCHANGED <<submissions, queued>>
    BY <1>0, <2>1, <2>2, QuietContract DEF Queue!vars
  <2>3. CASE HandlerTakes(m)
    <3>1. Taken(m)
      BY <1>0, <2>3, HandlerTakesCases
    <3>2. state.block \in Blocks
      <4>1. state.height # 0
        BY <1>0, <3>1, HeightTypes DEF Taken
      <4>2. QED
        BY <1>0, <4>1 DEF TypeOK, State, Blocks
    <3>3. CASE \E n \in NonceData :
                 /\ submit_nonce(n)
                 /\ SubmitOnlyBest => ~state.finished_scanning
                 /\ ~SubmitOnlyBest =>
                      /\ n.deadline < state.account_id_to_best_deadline[n.account_id]
                      /\ state.account_id_to_best_deadline[n.account_id] \in Nat
      <4>1. Queue!Next /\ PendingInv'
        BY <2>1, <3>2, <3>3, ContractSubmit
      <4>2. QED
        BY <4>1
    <3>4. QED
      BY <1>0, <2>2, <3>1, <3>3, TakenSubmits
  <2>4. QED
    BY <1>3, <2>2, <2>3 DEF HandleNonce, HandlerStops, HandlerForgets
<1>4. ASSUME NEW x \in queued, SubmissionConfirmed(x) \/ SubmissionGivenUp(x)
      PROVE  PendingInv' /\ Queue!Next
  <2>1. /\ queued' = queued \ {x} /\ submissions' = submissions
        /\ SUBMISSION_SUCCESS' = SUBMISSION_SUCCESS \/ SUBMISSION_SUCCESS' = TRUE
    BY <1>4 DEF SubmissionConfirmed, SubmissionGivenUp
  <2>2. Offered(x) \in pending /\ pending' = pending \ {Offered(x)}
    BY <1>0, <2>1, PendingRemoved
  <2>3. offered' = offered
    BY <2>1, OfferedUnchanged
  <2>4. Queue!Confirm(Offered(x)) \/ Queue!GiveUp(Offered(x))
    BY <2>1, <2>2, <2>3 DEF Queue!Confirm, Queue!GiveUp
  <2>5. PendingInv'
    BY <1>0, <2>1 DEF PendingInv
  <2>6. QED
    BY <2>2, <2>4, <2>5 DEF Queue!Next
<1>5. QED
  BY <1>1, <1>2, <1>3, <1>4 DEF Next, Queue!Next

\* In every instance, whatever is interrupted, resumed or reorganised, the
\* handler keeps its half of the contract with the request handler.
THEOREM KeepsContract == Spec => QueueSpec
<1>1. Init => OnceInv /\ ImproveInv /\ PendingInv
  BY DEF Init, OnceInv, ImproveInv, BestBounds, SubmissionsImprove,
         AtMostOneSubmission, PendingInv
<1>2. Init => Queue!Init
  <2> SUFFICES ASSUME Init PROVE Queue!Init
    OBVIOUS
  <2>1. Len(submissions) = 0 /\ queued = {} /\ SUBMISSION_SUCCESS = FALSE
    BY DEF Init
  <2>2. offered = {} /\ pending = {}
    BY <2>1 DEF offered, pending
  <2>3. QED
    BY <2>1, <2>2 DEF Queue!Init
<1>3. TypeOK /\ OnceInv /\ ImproveInv /\ [Next]_vars => OnceInv' /\ ImproveInv'
  BY OnceStep, ImproveStep
<1>4. TypeOK /\ TypeOK' /\ OnceInv /\ ImproveInv /\ SubmissionsImprove /\ PendingInv
        /\ [Next]_vars => PendingInv' /\ [Queue!Next]_(Queue!vars)
  BY ContractStep DEF ContractInv
<1>5. QED
  BY <1>1, <1>2, <1>3, <1>4, Typing, StrictlyBetter, PTL
     DEF Spec, QueueSpec, Queue!Spec

-----------------------------------------------------------------------------
(* What a submission was computed from.                                     *)

\* The handler submits what it takes or what it retains, once it improved on
\* every target.
LEMMA GivenSolution ==
  ASSUME TypeOK, NEW m \in nonce_data, TakeKind(m)
  PROVE  /\ \/ best_nonce_data' = best_nonce_data
            \/ Improves(state, m) /\ best_nonce_data' = m
         /\ \/ submissions' = submissions
            \/ \E n : /\ submit_nonce(n)
                      /\ \/ ~SubmitOnlyBest /\ n = m /\ Improves(state, m)
                         \/ SubmitOnlyBest /\ n = best_nonce_data' /\ n # NoNonce
<1>1. m.height = state.height /\ m.height # 0 /\ NoNonce.height = 0
  BY HeightTypes DEF TakeKind, Taken
<1>2. best_nonce_data'.height = state.height => best_nonce_data' # NoNonce
  BY <1>1
<1>3. QED
  BY <1>2 DEF TakeKind, Taken

\* Only data with the largest deadline is not hashed; the handler retains it only
\* for an account without a target.
UnreadInv ==
  /\ \A m \in nonce_data : m.hashed \/ m.deadline = MaxDeadline
  /\ best_nonce_data # NoNonce =>
       best_nonce_data.hashed \/ AccountTarget[best_nonce_data.account_id] = NoBest
  /\ UnreadIsLastResort

\* n may be submitted now: if it was not hashed, it is its account's first.
MayFollow(n) ==
  ~n.hashed =>
    /\ AccountTarget[n.account_id] = NoBest
    /\ \A j \in 1..Len(submissions) :
         submissions[j].round = state.block =>
           submissions[j].nonce.account_id # n.account_id

LEMMA UnreadImproves ==
  ASSUME TypeOK, UnreadInv, NEW m \in nonce_data, Improves(state, m), ~m.hashed
  PROVE  AccountTarget[m.account_id] = NoBest /\ m.deadline = MaxDeadline
<1>1. m \in NonceData
  BY DEF TypeOK
<1>2. AccountTarget[m.account_id] \in 0..NoBest
  BY <1>1, MinerAssumption DEF NonceData
<1>3. m.deadline = MaxDeadline /\ m.deadline < AccountTarget[m.account_id]
  BY DEF UnreadInv, Improves
<1>4. MaxDeadline \in Nat /\ NoBest = MaxDeadline + 1
  BY MinerAssumption DEF NoBest
<1>5. QED
  BY <1>2, <1>3, <1>4

\* Whatever was submitted for the account in this round beats it already.
LEMMA UnreadFirst ==
  ASSUME TypeOK, UnreadInv, BestBounds, NEW m \in nonce_data, Improves(state, m)
  PROVE  MayFollow(m)
<1> SUFFICES ASSUME ~m.hashed PROVE MayFollow(m)
  BY DEF MayFollow
<1> DEFINE best == state.account_id_to_best_deadline
<1>1. AccountTarget[m.account_id] = NoBest /\ m.deadline = MaxDeadline
  BY UnreadImproves
<1>2. MaxDeadline \in Nat /\ m.account_id \in Accounts
  BY MinerAssumption DEF TypeOK, NonceData
<1>3. best[m.account_id] \in Nat /\ MaxDeadline < best[m.account_id]
  <2>1. best[m.account_id] \in 0..NoBest
    BY <1>2 DEF TypeOK, State
  <2>2. QED
    BY <1>1, <2>1, ConstantTypes DEF Improves
<1>4. ASSUME NEW j \in 1..Len(submissions), submissions[j].round = state.block,
             submissions[j].nonce.account_id = m.account_id
      PROVE  FALSE
  <2>1. submissions[j].nonce.deadline \in Deadlines
    BY SubmissionTypes
  <2>2. best[m.account_id] <= submissions[j].nonce.deadline
    BY <1>4 DEF BestBounds
  <2>3. QED
    BY <1>2, <1>3, <2>1, <2>2 DEF Deadlines
<1>5. QED
  BY <1>1, <1>4 DEF MayFollow

LEMMA UnreadSubmitted ==
  ASSUME TypeOK, UnreadIsLastResort, NEW n, submit_nonce(n), MayFollow(n)
  PROVE  UnreadIsLastResort'
<1>1. submissions \in Seq(Submission)
  BY DEF TypeOK
<1>2. /\ Len(submissions) \in Nat
      /\ Len(submissions') = Len(submissions) + 1
      /\ \A i \in 1..Len(submissions) : submissions'[i] = submissions[i]
      /\ submissions'[Len(submissions) + 1].nonce = n
      /\ submissions'[Len(submissions) + 1].round = state.block
  BY <1>1, Submitted
<1>3. \A i \in 1..(Len(submissions) + 1) :
        i \in 1..Len(submissions) \/ i = Len(submissions) + 1
  BY <1>2
<1>4. ASSUME NEW i \in 1..Len(submissions), ~submissions'[i].nonce.hashed
      PROVE  /\ AccountTarget[submissions'[i].nonce.account_id] = NoBest
             /\ \A j \in 1..(i - 1) :
                  submissions'[j].round = submissions'[i].round =>
                    submissions'[j].nonce.account_id # submissions'[i].nonce.account_id
  <2>1. \A j \in 1..(i - 1) : j \in 1..Len(submissions)
    BY <1>2
  <2>2. QED
    BY <1>2, <1>4, <2>1 DEF UnreadIsLastResort
<1>5. CASE ~n.hashed
  <2>1. \A j \in 1..((Len(submissions) + 1) - 1) : j \in 1..Len(submissions)
    BY <1>2
  <2>2. /\ AccountTarget[n.account_id] = NoBest
        /\ \A j \in 1..((Len(submissions) + 1) - 1) :
             submissions'[j].round = state.block =>
               submissions'[j].nonce.account_id # n.account_id
    BY <1>2, <1>5, <2>1 DEF MayFollow
  <2>3. QED
    BY <1>2, <1>3, <1>4, <2>2 DEF UnreadIsLastResort
<1>6. CASE n.hashed
  BY <1>2, <1>3, <1>4, <1>6 DEF UnreadIsLastResort
<1>7. QED
  BY <1>5, <1>6

LEMMA UnreadTake ==
  ASSUME TypeOK, AtMostOneSubmission', ImproveInv, UnreadInv,
         NEW m \in nonce_data, TakeKind(m)
  PROVE  UnreadInv'
<1>1. nonce_data' \subseteq nonce_data /\ state'.block = state.block
  BY DEF TakeKind, Taken
<1>2. best_nonce_data' # NoNonce =>
        \/ best_nonce_data'.hashed
        \/ AccountTarget[best_nonce_data'.account_id] = NoBest
  BY GivenSolution, UnreadImproves DEF UnreadInv
<1>3. CASE submissions' = submissions
  BY <1>1, <1>2, <1>3 DEF UnreadInv, UnreadIsLastResort
<1>4. CASE ~SubmitOnlyBest /\ submit_nonce(m) /\ Improves(state, m)
  <2>1. MayFollow(m)
    BY <1>4, UnreadFirst DEF ImproveInv
  <2>2. UnreadIsLastResort'
    BY <1>4, <2>1, UnreadSubmitted DEF UnreadInv
  <2>3. QED
    BY <1>1, <1>2, <2>2 DEF UnreadInv
<1>5. ASSUME NEW n, SubmitOnlyBest, submit_nonce(n), n = best_nonce_data', n # NoNonce
      PROVE  UnreadInv'
  <2>1. /\ Len(submissions) \in Nat
        /\ Len(submissions') = Len(submissions) + 1
        /\ \A i \in 1..Len(submissions) : submissions'[i] = submissions[i]
        /\ submissions'[Len(submissions) + 1].round = state.block
    <3>1. submissions \in Seq(Submission)
      BY DEF TypeOK
    <3>2. QED
      BY <1>5, <3>1, Submitted
  <2>2. ASSUME NEW j \in 1..Len(submissions) PROVE submissions[j].round # state.block
    <3>1. /\ j \in 1..Len(submissions') /\ Len(submissions) + 1 \in 1..Len(submissions')
          /\ j # Len(submissions) + 1
      BY <2>1
    <3>2. QED
      BY <1>5, <2>1, <3>1 DEF AtMostOneSubmission
  <2>3. MayFollow(n)
    BY <1>2, <1>5, <2>2 DEF MayFollow
  <2>4. UnreadIsLastResort'
    BY <1>5, <2>3, UnreadSubmitted DEF UnreadInv
  <2>5. QED
    BY <1>1, <1>2, <2>4 DEF UnreadInv
<1>6. QED
  BY <1>3, <1>4, <1>5, GivenSolution

LEMMA UnreadStep ==
  ASSUME TypeOK, AtMostOneSubmission', ImproveInv, UnreadInv, [Next]_vars
  PROVE  UnreadInv'
<1>1. ASSUME NEW t \in tasks, TaskKind(t) PROVE UnreadInv'
  <2>1. UNCHANGED <<best_nonce_data, submissions>>
    BY <1>1 DEF TaskKind, StateKept
  <2>2. \A h \in BOOLEAN : NonceOf(t, h).hashed \/ NonceOf(t, h).deadline = MaxDeadline
    BY DEF NonceOf
  <2>3. QED
    BY <1>1, <2>1, <2>2 DEF TaskKind, UnreadInv, UnreadIsLastResort
<1>2. ASSUME UNCHANGED submissions, nonce_data' \subseteq nonce_data,
             best_nonce_data' = NoNonce \/ UNCHANGED best_nonce_data
      PROVE  UnreadInv'
  BY <1>2 DEF UnreadInv, UnreadIsLastResort
<1>3. QED
  BY <1>1, <1>2, UnreadTake, Steps DEF PollKind, StopKind, ForgetKind, QuietKind

\* In every instance, the default target included: what ends a drive without
\* data is submitted only for an account without a target, and only before
\* anything else of that account in the round; whatever was found for the account
\* keeps it from being submitted (cpu_worker.rs:50-63, miner.rs:985-1000).
THEOREM Unread == Spec => []UnreadIsLastResort
<1>1. Init => OnceInv /\ ImproveInv /\ UnreadInv
  BY DEF Init, OnceInv, ImproveInv, BestBounds, SubmissionsImprove,
         AtMostOneSubmission, UnreadInv, UnreadIsLastResort
<1>2. TypeOK /\ OnceInv /\ ImproveInv /\ [Next]_vars => OnceInv' /\ ImproveInv'
  BY OnceStep, ImproveStep
<1>3. TypeOK /\ AtMostOneSubmission' /\ ImproveInv /\ UnreadInv /\ [Next]_vars
        => UnreadInv'
  BY UnreadStep
<1>4. UnreadInv => UnreadIsLastResort
  BY DEF UnreadInv
<1>5. QED
  BY <1>1, <1>2, <1>3, <1>4, Typing, AtMostOnce, PTL DEF Spec

-----------------------------------------------------------------------------
(* What a poll makes of the annode's status.                                *)

\* The annode lets the miner scan.
Solo(info) == info.status.live /\ info.status.mining
Open(info) == Solo(info) /\ (Mode = "SHARE" => info.status.share)

LEMMA TakenStatus ==
  ASSUME NEW s \in State, NEW info \in MiningInfo,
         info.height = s.height \/ s.block < MaxBlock
  PROVE  LET t == TakeInfo(s, info)
         IN  /\ t \in State
             /\ t.solo_mining_enabled <=> Solo(info)
             /\ t.share_mining_enabled <=> Solo(info) /\ info.status.share
             /\ t.scanning = s.scanning
             /\ info.height # s.height => ~t.finished_scanning /\ ~t.submitted_for_this_block
<1> DEFINE r == IF info.height # s.height THEN ResetForNewBlock(s) ELSE s
           solo == info.status.live /\ info.status.mining
           share == solo /\ info.status.share
           t == [r EXCEPT !.height = info.height,
                          !.annode_target_deadline = info.target,
                          !.solo_mining_enabled = solo,
                          !.share_mining_enabled = share]
<1>1. TakeInfo(s, info) = t
  BY DEF TakeInfo
<1>2. /\ r \in State /\ r.scanning = s.scanning
      /\ info.height # s.height => ~r.finished_scanning /\ ~r.submitted_for_this_block
  <2>1. CASE info.height = s.height
    BY <2>1
  <2>2. CASE info.height # s.height
    <3>1. s.block + 1 <= MaxBlock
      BY <2>2, ConstantTypes DEF State
    <3>2. QED
      BY <2>2, <3>1, ResetForNewBlockType
  <2>3. QED
    BY <2>1, <2>2
<1> HIDE DEF r
<1>3. t \in State
  BY <1>2, InfoTypes, StateUpdates
<1>4. /\ t.solo_mining_enabled = solo /\ t.share_mining_enabled = share
      /\ t.scanning = r.scanning /\ t.finished_scanning = r.finished_scanning
      /\ t.submitted_for_this_block = r.submitted_for_this_block
  BY <1>2 DEF State
<1>5. QED
  BY <1>1, <1>2, <1>3, <1>4 DEF Solo

\* update_mining_info resumes the scan of a block that is not done; only then
\* it sets the count of ended drives back.
Resumes(t) ==
  /\ t.solo_mining_enabled /\ (Mode = "SHARE" => t.share_mining_enabled)
  /\ ~t.finished_scanning /\ ~t.scanning /\ ~t.submitted_for_this_block

LEMMA UpdatedFields ==
  ASSUME NEW s, NEW info \in MiningInfo, TakeInfo(s, info) \in State
  PROVE  LET t == TakeInfo(s, info)
             u == update_mining_info(s, info)
             open == t.solo_mining_enabled /\ (Mode = "SHARE" => t.share_mining_enabled)
         IN  /\ u \in State
             /\ u.solo_mining_enabled = t.solo_mining_enabled
             /\ u.share_mining_enabled = t.share_mining_enabled
             /\ u.finished_scanning = t.finished_scanning
             /\ u.submitted_for_this_block = t.submitted_for_this_block
             /\ open => u.scoop = u.block
             /\ u.scanning <=> Resumes(t) \/ (t.scanning /\ (open \/ ~t.solo_mining_enabled))
             /\ ~Resumes(t) => u.processed_reader_tasks = t.processed_reader_tasks
<1> DEFINE t == TakeInfo(s, info)
           u == update_mining_info(s, info)
           off == [t EXCEPT !.scanning = FALSE]
           scooped == [t EXCEPT !.scoop = t.block]
           on == [scooped EXCEPT !.scanning = TRUE, !.processed_reader_tasks = 0]
           open == t.solo_mining_enabled /\ (Mode = "SHARE" => t.share_mining_enabled)
<1>1. t \in State /\ t.block \in 0..MaxBlock /\ Mode \in {"SOLO", "SHARE"}
  BY MinerAssumption DEF State
<1>2. \/ ~t.solo_mining_enabled /\ u = t
      \/ t.solo_mining_enabled /\ ~open /\ u = off
      \/ open /\ ~Resumes(t) /\ u = scooped
      \/ Resumes(t) /\ open /\ u = on
  BY DEF update_mining_info, ResumeScanning, Resumes
<1> HIDE DEF t, u
<1>3. off \in State /\ scooped \in State /\ on \in State
  BY <1>1, StateUpdates
<1>4. CASE ~t.solo_mining_enabled /\ u = t
  BY <1>1, <1>4 DEF Resumes, t, u
<1>5. CASE t.solo_mining_enabled /\ ~open /\ u = off
  <2>1. /\ off.solo_mining_enabled = t.solo_mining_enabled
        /\ off.share_mining_enabled = t.share_mining_enabled
        /\ off.finished_scanning = t.finished_scanning
        /\ off.submitted_for_this_block = t.submitted_for_this_block
        /\ off.processed_reader_tasks = t.processed_reader_tasks
        /\ ~off.scanning
    BY <1>1 DEF State
  <2>2. QED
    BY <1>3, <1>5, <2>1 DEF Resumes, t, u
<1>6. CASE open /\ ~Resumes(t) /\ u = scooped
  <2>1. /\ scooped.solo_mining_enabled = t.solo_mining_enabled
        /\ scooped.share_mining_enabled = t.share_mining_enabled
        /\ scooped.finished_scanning = t.finished_scanning
        /\ scooped.submitted_for_this_block = t.submitted_for_this_block
        /\ scooped.processed_reader_tasks = t.processed_reader_tasks
        /\ scooped.scanning = t.scanning /\ scooped.scoop = scooped.block
    BY <1>1 DEF State
  <2>2. QED
    BY <1>3, <1>6, <2>1 DEF t, u
<1>7. CASE Resumes(t) /\ open /\ u = on
  <2>1. /\ on.solo_mining_enabled = t.solo_mining_enabled
        /\ on.share_mining_enabled = t.share_mining_enabled
        /\ on.finished_scanning = t.finished_scanning
        /\ on.submitted_for_this_block = t.submitted_for_this_block
        /\ on.scanning /\ on.scoop = on.block
    BY <1>1 DEF State
  <2>2. QED
    BY <1>3, <1>7, <2>1 DEF t, u
<1>8. QED
  BY <1>2, <1>4, <1>5, <1>6, <1>7

LEMMA PollNew ==
  ASSUME TypeOK, NEW info \in MiningInfo, Poll(info), info.height # state.height
  PROVE  /\ PollAtNewHeight(info)
         /\ state'.solo_mining_enabled <=> Solo(info)
         /\ state'.share_mining_enabled <=> Solo(info) /\ info.status.share
         /\ Open(info) => state'.scanning /\ state'.scoop = state'.block
         /\ Solo(info) /\ state'.scanning => Open(info)
<1> DEFINE s == ConsumeSuccess(state)
           t == TakeInfo(s, info)
           u == update_mining_info(s, info)
<1>1. s \in State /\ s.height = state.height
  BY ConsumeSuccessType DEF TypeOK
<1>2. PollNewHeight(s, info)
  BY <1>1 DEF Poll, PollDone, PollSameHeight
<1>3. s.block < MaxBlock /\ state' = u
  BY <1>2 DEF PollNewHeight
<1> HIDE DEF s
<1>4. /\ t \in State
      /\ t.solo_mining_enabled <=> Solo(info)
      /\ t.share_mining_enabled <=> Solo(info) /\ info.status.share
      /\ ~t.finished_scanning /\ ~t.submitted_for_this_block
  BY <1>1, <1>3, TakenStatus
<1>5. LET open == t.solo_mining_enabled /\ (Mode = "SHARE" => t.share_mining_enabled)
      IN  /\ u.solo_mining_enabled = t.solo_mining_enabled
          /\ u.share_mining_enabled = t.share_mining_enabled
          /\ open => u.scoop = u.block
          /\ u.scanning <=> Resumes(t) \/ (t.scanning /\ (open \/ ~t.solo_mining_enabled))
  BY <1>4, UpdatedFields
<1>6. u.block = s.block + 1
  BY <1>1, <1>3, UpdateNew
<1>7. s.block = state.block /\ state.block \in Nat
  BY ConsumeSuccessType, ConstantTypes DEF s, TypeOK, State
<1> HIDE DEF t, u
<1>8. ~SameRound(state, state')
  BY <1>3, <1>6, <1>7 DEF SameRound
<1>9. PollAtNewHeight(info)
  BY <1>8, PollCases DEF PollAtSameHeight
<1>10. QED
  BY <1>3, <1>4, <1>5, <1>9 DEF Open, Solo, Resumes

LEMMA PollSame ==
  ASSUME TypeOK, NEW info \in MiningInfo, Poll(info), info.height = state.height
  PROVE  /\ PollAtSameHeight
         /\ state'.share_mining_enabled <=> Solo(info) /\ info.status.share
         /\ state'.scanning => Open(info) /\ state'.scoop = state'.block
         /\ UNCHANGED reading =>
              state'.processed_reader_tasks = state.processed_reader_tasks
         /\ Open(info) => \/ state'.scanning \/ state'.finished_scanning
                          \/ state'.submitted_for_this_block
         /\ Open(info) /\ ( \/ state.scanning \/ state.finished_scanning
                            \/ state.submitted_for_this_block ) => KeepReading
<1> DEFINE s == ConsumeSuccess(state)
           t == TakeInfo(s, info)
           u == update_mining_info(s, info)
<1>0. PollAtSameHeight
  BY PollCases DEF PollAtNewHeight
<1>1. /\ s \in State /\ s.height = state.height
      /\ s.finished_scanning = state.finished_scanning
      /\ s.processed_reader_tasks = state.processed_reader_tasks
      /\ state.submitted_for_this_block => s.submitted_for_this_block
      /\ state.scanning => s.scanning \/ s.submitted_for_this_block
  <2>1. state \in State
    BY DEF TypeOK
  <2>2. state.scanning => s.scanning \/ s.submitted_for_this_block
    BY <2>1 DEF ConsumeSuccess, State
  <2>3. QED
    BY <2>1, <2>2, ConsumeSuccessType
<1>2. PollDone(s, info) \/ PollSameHeight(s, info)
  BY <1>1 DEF Poll, PollNewHeight
<1> HIDE DEF s
<1>3. /\ t \in State
      /\ t.solo_mining_enabled <=> Solo(info)
      /\ t.share_mining_enabled <=> Solo(info) /\ info.status.share
      /\ t.scanning = s.scanning
      /\ t.finished_scanning = s.finished_scanning
      /\ t.submitted_for_this_block = s.submitted_for_this_block
      /\ t.processed_reader_tasks = s.processed_reader_tasks
  BY <1>1, TakenStatus, TakeInfoSame
<1>4. LET open == t.solo_mining_enabled /\ (Mode = "SHARE" => t.share_mining_enabled)
      IN  /\ u \in State
          /\ u.solo_mining_enabled = t.solo_mining_enabled
          /\ u.share_mining_enabled = t.share_mining_enabled
          /\ u.finished_scanning = t.finished_scanning
          /\ u.submitted_for_this_block = t.submitted_for_this_block
          /\ open => u.scoop = u.block
          /\ u.scanning <=> Resumes(t) \/ (t.scanning /\ (open \/ ~t.solo_mining_enabled))
          /\ ~Resumes(t) => u.processed_reader_tasks = t.processed_reader_tasks
  BY <1>3, UpdatedFields
<1>5. /\ Open(info) <=> t.solo_mining_enabled /\ (Mode = "SHARE" => t.share_mining_enabled)
      /\ Mode \in {"SOLO", "SHARE"}
  BY <1>3, MinerAssumption DEF Open, Solo
<1> HIDE DEF t, u
<1>6. CASE PollDone(s, info)
  <2>1. /\ state' = [u EXCEPT !.scanning = FALSE] /\ KeepReading
        /\ \/ u.submitted_for_this_block \/ u.finished_scanning
           \/ Mode = "SHARE" /\ ~u.share_mining_enabled
    BY <1>6 DEF PollDone, RoundDone, ShareRefused, u
  <2>2. /\ state'.share_mining_enabled = u.share_mining_enabled
        /\ state'.processed_reader_tasks = u.processed_reader_tasks
        /\ state'.finished_scanning = u.finished_scanning
        /\ state'.submitted_for_this_block = u.submitted_for_this_block
        /\ ~state'.scanning
    BY <1>4, <2>1 DEF State
  <2>3. ~Resumes(t)
    BY <1>4, <2>1 DEF Resumes
  <2>4. state'.processed_reader_tasks = state.processed_reader_tasks
    BY <1>1, <1>3, <1>4, <2>2, <2>3
  <2>5. QED
    BY <1>0, <1>3, <1>4, <1>5, <2>1, <2>2, <2>4
<1>7. CASE PollSameHeight(s, info)
  <2> DEFINE emergency == Mode = "SHARE" /\ ~u.share_mining_enabled
             on == u.solo_mining_enabled /\ ~emergency
             sent == u.submitted_for_this_block \/ emergency
  <2>1. /\ ~u.submitted_for_this_block /\ ~u.finished_scanning
        /\ state' = [u EXCEPT !.scanning = on, !.submitted_for_this_block = sent]
        /\ IF emergency THEN stop_reading
           ELSE IF on /\ ~s.scanning
           THEN start_reading(info.height, u.block, u.scoop)
           ELSE KeepReading
    BY <1>7 DEF PollSameHeight, RoundDone, u
  <2>2. /\ state'.share_mining_enabled = u.share_mining_enabled
        /\ state'.processed_reader_tasks = u.processed_reader_tasks
        /\ state'.scoop = u.scoop /\ state'.block = u.block
        /\ state'.scanning <=> on
    BY <1>4, <2>1 DEF State
  <2>3. on <=> Open(info)
    BY <1>4, <1>5
  <2>4. Resumes(t) => reading' # reading
    <3>1. Resumes(t) => on /\ ~s.scanning /\ ~emergency
      BY <1>3, <1>4, <1>5 DEF Resumes
    <3>2. start_reading(info.height, u.block, u.scoop) => reading'.run = reading.run + 1
      BY DEF start_reading
    <3>3. reading.run \in Nat
      BY DEF TypeOK, Reading
    <3>4. QED
      BY <2>1, <3>1, <3>2, <3>3
  <2>5. UNCHANGED reading => state'.processed_reader_tasks = state.processed_reader_tasks
    BY <1>1, <1>3, <1>4, <2>2, <2>4
  <2>6. Open(info) /\ state.scanning => KeepReading
    BY <1>1, <1>3, <1>4, <2>1, <2>3
  <2>7. ~state.finished_scanning /\ ~state.submitted_for_this_block
    BY <1>1, <1>3, <1>4, <2>1
  <2>8. QED
    BY <1>0, <1>3, <1>4, <1>5, <2>2, <2>3, <2>5, <2>6, <2>7
<1>8. QED
  BY <1>2, <1>6, <1>7

-----------------------------------------------------------------------------
(* The scoop that is read.                                                  *)

\* Whatever the annode reports: a scan that is started reads its block's scoop,
\* but for the one the poll that first sees a block may start while the annode is
\* not both LIVE and MINING; a scan resumed after it always does
\* (miner.rs:184-244, 784-800, 873-909).
THEOREM ScoopUsed == Spec => ScansUseScoop
<1> DEFINE P == reading'.run # reading.run =>
                  \/ reading'.scoop = reading'.block
                  \/ state'.block # state.block /\ ~state'.solo_mining_enabled
<1>1. ASSUME TypeOK, [Next]_vars PROVE P
  <2>1. ASSUME NEW info \in MiningInfo, PollKind(info), reading'.run # reading.run
        PROVE  P
    <3>1. /\ start_reading(state'.height, state'.block, state'.scoop)
          /\ state'.scanning
      BY <2>1 DEF PollKind, PollAtNewHeight, PollAtSameHeight, KeepReading, stop_reading
    <3>2. reading'.block = state'.block /\ reading'.scoop = state'.scoop
      BY <1>1, <3>1, StartFacts DEF TypeOK
    <3>3. CASE info.height = state.height
      BY <1>1, <2>1, <3>1, <3>2, <3>3, PollSame DEF PollKind
    <3>4. CASE info.height # state.height
      <4>1. /\ PollAtNewHeight(info)
            /\ state'.solo_mining_enabled <=> Solo(info)
            /\ Open(info) => state'.scoop = state'.block
            /\ Solo(info) => Open(info)
        BY <1>1, <2>1, <3>1, <3>4, PollNew DEF PollKind
      <4>2. state'.block # state.block
        BY <1>1, <4>1, ConstantTypes DEF PollAtNewHeight, TypeOK, State
      <4>3. QED
        BY <3>2, <4>1, <4>2
    <3>5. QED
      BY <3>3, <3>4
  <2>2. QED
    BY <1>1, <2>1, Steps
       DEF TaskKind, StateKept, StopKind, stop_reading, ForgetKind, TakeKind,
           Taken, QuietKind
<1>2. TypeOK /\ [Next]_vars => [P]_vars
  BY <1>1
<1>3. QED
  BY <1>2, Typing, PTL DEF Spec, ScansUseScoop

-----------------------------------------------------------------------------
(* The ends of the drives.                                                  *)

\* x was made by the last call of start_reading.
Ours(x) == x.run = reading.run

\* Runs follow the blocks: what is of an earlier run is of an earlier block,
\* unless the block was started again.
RunOf(x) ==
  /\ x.run <= reading.run /\ x.block <= reading.block
  /\ Ours(x) => x.block = reading.block /\ x.height = reading.height
  /\ ~Ours(x) /\ ~reading.again => x.block < reading.block

RunsInv ==
  /\ reading.block <= state.block
  /\ reading.block = state.block => reading.height = state.height
  /\ \A t \in tasks : RunOf(t)
  /\ \A m \in nonce_data : RunOf(m)

\* m says that its drive ends.
Marks(m) == Ours(m) /\ m.reader_task_processed

\* A drive's end is read, under way, or counted, never two of these.
DrivesInv ==
  /\ \A t \in tasks : Ours(t) => t.drive \notin reading.marked
  /\ \A t, u \in tasks : Ours(t) /\ Ours(u) /\ t.drive = u.drive => t = u
  /\ \A m \in nonce_data : Marks(m) => m.drive \notin reading.marked
  /\ \A m \in nonce_data, t \in tasks : Marks(m) /\ Ours(t) => t.drive # m.drive
  /\ \A m, n \in nonce_data : Marks(m) /\ Marks(n) /\ m.drive = n.drive => m = n

LEMMA RunTypes ==
  ASSUME TypeOK
  PROVE  /\ reading.run \in Nat /\ reading.block \in Nat /\ reading.marked \subseteq Drives
         /\ reading.again \in BOOLEAN /\ state.block \in Nat
         /\ \A t \in tasks : t.run \in Nat /\ t.block \in Nat /\ t.drive \in Drives
         /\ \A m \in nonce_data : m.run \in Nat /\ m.block \in Nat /\ m.drive \in Drives
<1>1. state \in State /\ reading \in Reading /\ tasks \subseteq Task /\ nonce_data \subseteq NonceData
  BY DEF TypeOK
<1>2. Blocks \subseteq Nat /\ 0..MaxBlock \subseteq Nat
  BY ConstantTypes DEF Blocks
<1>3. QED
  BY <1>1, <1>2 DEF State, Reading, Task, NonceData

\* What is interrupted stays of its run and drive.
LEMMA InterruptedScan ==
  ASSUME TypeOK, RunsInv, NEW t \in Interrupted(tasks)
  PROVE  RunOf(t)
<1>1. PICK u \in tasks : t.run = u.run /\ t.block = u.block /\ t.height = u.height
  BY InterruptedTasks DEF TypeOK
<1>2. QED
  BY <1>1 DEF RunsInv, RunOf, Ours

\* The readers started last are one per drive; nothing else is theirs.
LEMMA StartedScan ==
  ASSUME TypeOK, RunsInv, NEW h, NEW b, NEW c, start_reading(h, b, c),
         b \in Nat, state.block <= b, UNCHANGED nonce_data
  PROVE  /\ \A t \in tasks' : RunOf(t)'
         /\ \A m \in nonce_data' : RunOf(m)'
         /\ \A m \in nonce_data' : m.run # reading'.run
         /\ \A t, u \in tasks' :
              t.run = reading'.run /\ u.run = reading'.run /\ t.drive = u.drive => t = u
<1>1. /\ reading'.height = h /\ reading'.block = b /\ reading'.run = reading.run + 1
      /\ reading'.again = (reading.block = b)
      /\ \A t \in tasks' :
           \/ t \in Interrupted(tasks)
           \/ t.run = reading'.run /\ t.height = h /\ t.block = b
  BY StartFacts DEF TypeOK
<1>2. reading.block <= b /\ reading.block \in Nat /\ reading.run \in Nat
  BY RunTypes DEF RunsInv
<1>3. ASSUME NEW x, RunOf(x), x.run \in Nat, x.block \in Nat
      PROVE  /\ x.run < reading'.run /\ x.block <= reading'.block
             /\ ~reading'.again => x.block < reading'.block
  <2>1. x.run <= reading.run /\ x.block <= reading.block
    BY <1>3 DEF RunOf
  <2>2. ~reading'.again => reading.block # b
    BY <1>1
  <2>3. QED
    BY <1>1, <1>2, <1>3, <2>1, <2>2
<1>4. ASSUME NEW t \in Interrupted(tasks)
      PROVE  RunOf(t)' /\ t.run # reading'.run
  <2>1. t.run \in Nat /\ t.block \in Nat
    <3>1. PICK u \in tasks : t.run = u.run /\ t.block = u.block
      BY InterruptedTasks DEF TypeOK
    <3>2. QED
      BY <3>1, RunTypes
  <2>2. /\ t.run < reading'.run /\ t.block <= reading'.block
        /\ ~reading'.again => t.block < reading'.block
    BY <1>3, <2>1, InterruptedScan
  <2>3. t.run <= reading'.run /\ t.run # reading'.run
    BY <1>1, <1>2, <2>1, <2>2
  <2>4. QED
    BY <2>2, <2>3 DEF RunOf, Ours
<1>5. ASSUME NEW m \in nonce_data
      PROVE  RunOf(m)' /\ m.run # reading'.run
  <2>1. m.run \in Nat /\ m.block \in Nat /\ RunOf(m)
    BY RunTypes DEF RunsInv
  <2>2. /\ m.run < reading'.run /\ m.block <= reading'.block
        /\ ~reading'.again => m.block < reading'.block
    BY <1>3, <2>1
  <2>3. m.run <= reading'.run /\ m.run # reading'.run
    BY <1>1, <1>2, <2>1, <2>2
  <2>4. QED
    BY <2>2, <2>3 DEF RunOf, Ours
<1>6. ASSUME NEW t \in tasks', t \notin Interrupted(tasks)
      PROVE  RunOf(t)'
  <2>1. t.run = reading'.run /\ t.height = reading'.height /\ t.block = reading'.block
    BY <1>1, <1>6
  <2>2. t.run <= reading'.run /\ t.block <= reading'.block
    BY <1>1, <1>2, <2>1
  <2>3. QED
    BY <2>1, <2>2 DEF RunOf, Ours
<1>7. ASSUME NEW t \in tasks', NEW u \in tasks', t.run = reading'.run,
             u.run = reading'.run, t.drive = u.drive
      PROVE  t = u
  <2>0. tasks' = Interrupted(tasks) \cup NewTasks(reading.run + 1, h, b, c)
    BY DEF start_reading
  <2>1. /\ t \in NewTasks(reading.run + 1, h, b, c)
        /\ u \in NewTasks(reading.run + 1, h, b, c)
    BY <1>4, <1>7, <2>0
  <2> DEFINE new(d) == [run |-> reading.run + 1, drive |-> d, next |-> 1,
                        interrupted |-> FALSE, height |-> h, block |-> b, scoop |-> c]
  <2>2. PICK d \in Drives, e \in Drives : t = new(d) /\ u = new(e)
    BY <2>1 DEF NewTasks
  <2>3. t.drive = d /\ u.drive = e
    BY <2>2
  <2>4. QED
    BY <1>7, <2>2, <2>3
<1>8. QED
  BY <1>4, <1>5, <1>6, <1>7

LEMMA RunsStep ==
  ASSUME TypeOK, RunsInv, [Next]_vars
  PROVE  RunsInv'
<1>a. ASSUME UNCHANGED <<reading, nonce_data>>, UNCHANGED tasks \/ stop_reading
      PROVE  (\A t \in tasks' : RunOf(t)') /\ (\A m \in nonce_data' : RunOf(m)')
  <2>1. \A x : RunOf(x) => RunOf(x)'
    BY <1>a DEF RunOf, Ours
  <2>2. \A t \in tasks' : RunOf(t)
    BY <1>a, InterruptedScan DEF RunsInv, stop_reading
  <2>3. QED
    BY <1>a, <2>1, <2>2 DEF RunsInv
<1>b. ASSUME nonce_data' \subseteq nonce_data, UNCHANGED tasks,
             reading'.run = reading.run, reading'.height = reading.height,
             reading'.block = reading.block, reading'.again = reading.again
      PROVE  (\A t \in tasks' : RunOf(t)') /\ (\A n \in nonce_data' : RunOf(n)')
  BY <1>b DEF RunsInv, RunOf, Ours
<1>1. ASSUME NEW info \in MiningInfo, PollKind(info) PROVE RunsInv'
  <2>0. UNCHANGED nonce_data
    BY <1>1 DEF PollKind
  <2>1. ASSUME start_reading(state'.height, state'.block, state'.scoop),
               state'.block \in Nat, state.block <= state'.block
        PROVE  RunsInv'
    <3>1. (\A t \in tasks' : RunOf(t)') /\ (\A m \in nonce_data' : RunOf(m)')
      BY <2>0, <2>1, StartedScan
    <3>2. reading'.height = state'.height /\ reading'.block = state'.block
      BY <2>1, StartFacts DEF TypeOK
    <3>3. QED
      BY <2>1, <3>1, <3>2 DEF RunsInv
  <2>2. CASE PollAtNewHeight(info)
    <3>1. /\ state'.block = state.block + 1 /\ state.block \in Nat /\ reading.block \in Nat
          /\ reading.block <= state.block
      BY <2>2, RunTypes DEF PollAtNewHeight, RunsInv
    <3>2. state'.block \in Nat /\ state.block <= state'.block /\ reading.block < state'.block
      BY <3>1
    <3>3. CASE KeepReading
      <4>1. reading' = reading /\ tasks' = tasks
        BY <3>3 DEF KeepReading
      <4>2. (\A t \in tasks' : RunOf(t)') /\ (\A m \in nonce_data' : RunOf(m)')
        BY <1>a, <2>0, <4>1
      <4>3. reading'.block <= state'.block /\ reading'.block # state'.block
        BY <3>1, <3>2, <4>1
      <4>4. QED
        BY <4>2, <4>3 DEF RunsInv
    <3>4. QED
      BY <2>1, <2>2, <3>2, <3>3 DEF PollAtNewHeight
  <2>3. CASE PollAtSameHeight
    <3>1. state'.block = state.block /\ state'.height = state.height /\ state.block \in Nat
      BY <2>3, RunTypes DEF PollAtSameHeight, SameRound
    <3>2. CASE KeepReading \/ stop_reading
      BY <1>a, <2>0, <3>1, <3>2 DEF KeepReading, stop_reading, RunsInv
    <3>3. state'.block \in Nat /\ state.block <= state'.block
      BY <3>1
    <3>4. QED
      BY <2>1, <2>3, <3>2, <3>3 DEF PollAtSameHeight
  <2>4. QED
    BY <1>1, <2>2, <2>3 DEF PollKind
<1>2. ASSUME NEW t \in tasks, TaskKind(t) PROVE RunsInv'
  <2>1. UNCHANGED <<state, reading>>
    BY <1>2 DEF TaskKind, StateKept
  <2>2. ASSUME NEW u \in tasks' PROVE RunOf(u)'
    <3>1. PICK v \in tasks : u.run = v.run /\ u.block = v.block /\ u.height = v.height
      BY <1>2, AdvancedTasks DEF TaskKind, TypeOK
    <3>2. QED
      BY <2>1, <3>1 DEF RunsInv, RunOf, Ours
  <2>3. ASSUME NEW m \in nonce_data' PROVE RunOf(m)'
    <3>1. \/ m \in nonce_data
          \/ m.run = t.run /\ m.block = t.block /\ m.height = t.height
      BY <1>2 DEF TaskKind, NonceOf
    <3>2. QED
      BY <2>1, <3>1 DEF RunsInv, RunOf, Ours
  <2>4. QED
    BY <2>1, <2>2, <2>3 DEF RunsInv
<1>3. CASE StopKind
  <2>1. \A x : RunOf(x) => RunOf(x)'
    BY <1>3 DEF StopKind, stop_reading, RunOf, Ours
  <2>2. \A t \in tasks' : RunOf(t)
    BY <1>3, InterruptedScan DEF StopKind, stop_reading
  <2>3. QED
    BY <1>3, <2>1, <2>2 DEF StopKind, stop_reading, SameRound, RunsInv
<1>4. CASE ForgetKind
  BY <1>4, <1>b DEF ForgetKind, RunsInv
<1>5. ASSUME NEW m \in nonce_data, TakeKind(m) PROVE RunsInv'
  <2>1. /\ nonce_data' \subseteq nonce_data /\ UNCHANGED tasks
        /\ reading'.run = reading.run /\ reading'.height = reading.height
        /\ reading'.block = reading.block
        /\ state'.block = state.block /\ state'.height = state.height
    BY <1>5 DEF TakeKind, Taken
  <2>2. reading'.again = reading.again
    BY <1>5 DEF TakeKind, HandlerTakes, TypeOK, Reading
  <2>3. QED
    BY <1>b, <2>1, <2>2 DEF RunsInv
<1>6. CASE QuietKind
  BY <1>6, <1>b DEF QuietKind, RunsInv
<1>7. QED
  BY <1>1, <1>2, <1>3, <1>4, <1>5, <1>6, Steps

LEMMA DrivesStart ==
  ASSUME TypeOK, RunsInv, DrivesInv, NEW info \in MiningInfo, PollKind(info),
         start_reading(state'.height, state'.block, state'.scoop)
  PROVE  DrivesInv'
<1>1. state'.block \in Nat /\ state.block <= state'.block
  <2>1. state.block \in Nat
    BY RunTypes
  <2>2. state'.block = state.block + 1 \/ state'.block = state.block
    BY DEF PollKind, PollAtNewHeight, PollAtSameHeight, SameRound
  <2>3. QED
    BY <2>1, <2>2
<1>2. /\ \A m \in nonce_data' : ~Ours(m)'
      /\ \A t, u \in tasks' : Ours(t)' /\ Ours(u)' /\ t.drive = u.drive => t = u
  BY <1>1, StartedScan DEF PollKind, Ours
<1>3. reading'.marked = {}
  BY StartFacts DEF TypeOK
<1>4. QED
  BY <1>2, <1>3 DEF DrivesInv, Marks

LEMMA DrivesInterrupted ==
  ASSUME TypeOK, DrivesInv, stop_reading, nonce_data' \subseteq nonce_data
  PROVE  DrivesInv'
<1>1. UNCHANGED reading /\ tasks' = Interrupted(tasks)
  BY DEF stop_reading
<1>2. ASSUME NEW t \in tasks'
      PROVE  \E v \in tasks :
               /\ t = [v EXCEPT !.interrupted = @ \/ v.run = reading.run]
               /\ t.run = v.run /\ t.drive = v.drive
  <2>1. PICK v \in tasks : t = [v EXCEPT !.interrupted = @ \/ v.run = reading.run]
    BY <1>1 DEF Interrupted
  <2>2. v \in Task
    BY DEF TypeOK
  <2>3. QED
    BY <2>1, <2>2 DEF Task
<1>3. \A x : Ours(x)' <=> Ours(x)
  BY <1>1 DEF Ours
<1>4. ASSUME NEW t \in tasks', Ours(t)'
      PROVE  /\ t.drive \notin reading.marked
             /\ \A m \in nonce_data : Marks(m) => t.drive # m.drive
  <2>1. PICK v \in tasks : t.run = v.run /\ t.drive = v.drive
    BY <1>2
  <2>2. QED
    BY <1>3, <1>4, <2>1 DEF DrivesInv, Ours
<1>5. ASSUME NEW t \in tasks', NEW u \in tasks', Ours(t)', Ours(u)', t.drive = u.drive
      PROVE  t = u
  <2>1. PICK v \in tasks :
         /\ t = [v EXCEPT !.interrupted = @ \/ v.run = reading.run]
         /\ t.run = v.run /\ t.drive = v.drive
    BY <1>2
  <2>2. PICK w \in tasks :
         /\ u = [w EXCEPT !.interrupted = @ \/ w.run = reading.run]
         /\ u.run = w.run /\ u.drive = w.drive
    BY <1>2
  <2>3. Ours(v) /\ Ours(w) /\ v.drive = w.drive
    BY <1>3, <1>5, <2>1, <2>2 DEF Ours
  <2>4. v = w
    BY <2>3 DEF DrivesInv
  <2>5. QED
    BY <2>1, <2>2, <2>4
<1>6. \A m : Marks(m)' <=> Marks(m)
  BY <1>3 DEF Marks
<1>7. QED
  BY <1>1, <1>4, <1>5, <1>6 DEF DrivesInv

\* A task leaves the drive it ends, and says so at most once.
LEMMA DrivesTask ==
  ASSUME TypeOK, DrivesInv, NEW t \in tasks, TaskKind(t)
  PROVE  DrivesInv'
<1>1. UNCHANGED reading /\ t \in Task
  BY DEF TaskKind, StateKept, TypeOK
<1>2. \A x : (Ours(x)' <=> Ours(x)) /\ (Marks(x)' <=> Marks(x))
  BY <1>1 DEF Ours, Marks
<1> DEFINE next == [t EXCEPT !.next = @ + 1]
<1>3. next.run = t.run /\ next.drive = t.drive
  BY <1>1 DEF Task
<1>4. \A u \in tasks' : (u \in tasks /\ u # t) \/ (~IsLast(t) /\ u = next)
  BY DEF TaskKind, Advanced
<1>5. ASSUME NEW m \in nonce_data', m \notin nonce_data
      PROVE  /\ m.run = t.run /\ m.drive = t.drive
             /\ m.reader_task_processed => IsLast(t)
  BY <1>5 DEF TaskKind, NonceOf
<1>6. ASSUME NEW m \in nonce_data', NEW n \in nonce_data',
             m \notin nonce_data, n \notin nonce_data
      PROVE  m = n
  BY <1>6 DEF TaskKind
<1> HIDE DEF next
<1>7. ASSUME NEW u \in tasks', Ours(u)
      PROVE  /\ u.drive \notin reading.marked
             /\ \A m \in nonce_data : Marks(m) => u.drive # m.drive
  BY <1>3, <1>4, <1>7 DEF DrivesInv, Ours
<1>8. ASSUME NEW u \in tasks', NEW v \in tasks', Ours(u), Ours(v), u.drive = v.drive
      PROVE  u = v
  BY <1>3, <1>4, <1>8 DEF DrivesInv, Ours
<1>9. ASSUME NEW m \in nonce_data', m \notin nonce_data, Marks(m)
      PROVE  /\ m.drive \notin reading.marked
             /\ \A u \in tasks' : Ours(u) => u.drive # m.drive
             /\ \A n \in nonce_data : Marks(n) => n.drive # m.drive
  <2>1. m.run = t.run /\ m.drive = t.drive /\ IsLast(t) /\ Ours(t)
    BY <1>5, <1>9 DEF Marks, Ours
  <2>2. \A u \in tasks' : u \in tasks /\ u # t
    BY <1>4, <2>1
  <2>3. QED
    BY <2>1, <2>2 DEF DrivesInv
<1>10. \A m \in nonce_data' : Marks(m) => m.drive \notin reading.marked
  BY <1>9 DEF DrivesInv
<1>11. \A m \in nonce_data', u \in tasks' : Marks(m) /\ Ours(u) => u.drive # m.drive
  BY <1>7, <1>9
<1>12. \A m, n \in nonce_data' : Marks(m) /\ Marks(n) /\ m.drive = n.drive => m = n
  BY <1>6, <1>9 DEF DrivesInv
<1>13. QED
  BY <1>1, <1>2, <1>7, <1>8, <1>10, <1>11, <1>12 DEF DrivesInv

\* A mark that is taken is counted.
LEMMA Marked ==
  ASSUME TypeOK, NEW m \in nonce_data, TakeKind(m)
  PROVE  /\ nonce_data' = nonce_data \ {m}
         /\ reading'.run = reading.run /\ reading'.again = reading.again
         /\ reading'.marked =
              IF Marks(m) THEN reading.marked \cup {m.drive} ELSE reading.marked
<1>1. nonce_data' = nonce_data \ {m} /\ reading \in Reading
  BY DEF TakeKind, HandleNonce, TypeOK
<1>2. reading' = IF Marks(m) THEN [reading EXCEPT !.marked = @ \cup {m.drive}]
                             ELSE reading
  BY DEF TakeKind, HandlerTakes, Marks, Ours
<1>3. QED
  BY <1>1, <1>2 DEF Reading

LEMMA DrivesTake ==
  ASSUME TypeOK, DrivesInv, NEW m \in nonce_data, TakeKind(m)
  PROVE  DrivesInv'
<1>1. /\ nonce_data' = nonce_data \ {m} /\ UNCHANGED tasks
      /\ reading'.run = reading.run
      /\ reading'.marked =
           IF Marks(m) THEN reading.marked \cup {m.drive} ELSE reading.marked
  BY Marked DEF TakeKind, Taken
<1>2. \A x : (Ours(x)' <=> Ours(x)) /\ (Marks(x)' <=> Marks(x))
  BY <1>1 DEF Ours, Marks
<1>3. \A t \in tasks' : Ours(t) => t.drive \notin reading'.marked
  BY <1>1 DEF DrivesInv
<1>4. \A n \in nonce_data' : Marks(n) => n.drive \notin reading'.marked
  BY <1>1 DEF DrivesInv
<1>5. QED
  BY <1>1, <1>2, <1>3, <1>4 DEF DrivesInv

LEMMA DrivesStep ==
  ASSUME TypeOK, RunsInv, DrivesInv, [Next]_vars
  PROVE  DrivesInv'
<1>a. ASSUME UNCHANGED <<reading, tasks>>, nonce_data' \subseteq nonce_data
      PROVE  DrivesInv'
  BY <1>a DEF DrivesInv, Marks, Ours
<1>1. ASSUME NEW info \in MiningInfo, PollKind(info) PROVE DrivesInv'
  <2>1. UNCHANGED nonce_data
    BY <1>1 DEF PollKind
  <2>2. CASE KeepReading
    BY <1>a, <2>1, <2>2 DEF KeepReading
  <2>3. CASE stop_reading
    BY <2>1, <2>3, DrivesInterrupted
  <2>4. CASE start_reading(state'.height, state'.block, state'.scoop)
    BY <1>1, <2>4, DrivesStart
  <2>5. QED
    BY <1>1, <2>2, <2>3, <2>4 DEF PollKind, PollAtNewHeight, PollAtSameHeight
<1>2. ASSUME NEW t \in tasks, TaskKind(t) PROVE DrivesInv'
  BY <1>2, DrivesTask
<1>3. CASE StopKind
  BY <1>3, DrivesInterrupted DEF StopKind
<1>4. CASE ForgetKind
  BY <1>4, <1>a DEF ForgetKind
<1>5. ASSUME NEW m \in nonce_data, TakeKind(m) PROVE DrivesInv'
  BY <1>5, DrivesTake
<1>6. CASE QuietKind
  BY <1>6, <1>a DEF QuietKind
<1>7. QED
  BY <1>1, <1>2, <1>3, <1>4, <1>5, <1>6, Steps

-----------------------------------------------------------------------------
(* The count of ended drives.                                               *)

\* Of a block that was started once, what is counted is what is marked.
CountInv ==
  /\ reading.block # state.block =>
       state.processed_reader_tasks = 0 /\ ~state.finished_scanning
  /\ reading.block = state.block /\ ~reading.again =>
       state.processed_reader_tasks = Cardinality(reading.marked)
  /\ FinishedIsScanned

LEMMA CountTake ==
  ASSUME TypeOK, CurrentInv, RunsInv, DrivesInv, CountInv, NEW m \in nonce_data, TakeKind(m)
  PROVE  CountInv'
<1>1. /\ m.height = state.height /\ state'.block = state.block
      /\ state'.processed_reader_tasks =
           state.processed_reader_tasks + (IF m.reader_task_processed THEN 1 ELSE 0)
      /\ state'.finished_scanning = (state.finished_scanning \/ CompletesRound(state, m))
      /\ reading'.block = reading.block /\ reading'.run = reading.run
  BY DEF TakeKind, Taken
<1>2. /\ reading'.again = reading.again
      /\ reading'.marked =
           IF Marks(m) THEN reading.marked \cup {m.drive} ELSE reading.marked
  BY Marked
<1>3. reading.block = state.block
  <2>1. m.block = state.block
    BY <1>1 DEF CurrentInv, Current
  <2>2. m.block <= reading.block /\ reading.block <= state.block
    BY DEF RunsInv, RunOf
  <2>3. QED
    BY <2>1, <2>2, RunTypes
<1>4. ASSUME ~reading.again
      PROVE  /\ state'.processed_reader_tasks = Cardinality(reading'.marked)
             /\ state'.finished_scanning => reading'.marked = Drives
  <2>1. Ours(m)
    <3>1. m.block = state.block
      BY <1>1 DEF CurrentInv, Current
    <3>2. m.block \in Nat /\ ~(m.block < reading.block)
      BY <1>3, <3>1, RunTypes
    <3>3. QED
      BY <1>4, <3>2 DEF RunsInv, RunOf
  <2>2. /\ state.processed_reader_tasks = Cardinality(reading.marked)
        /\ state.finished_scanning => reading.marked = Drives
    BY <1>3, <1>4 DEF CountInv, FinishedIsScanned
  <2>3. CASE ~m.reader_task_processed
    <3>1. reading'.marked = reading.marked /\ ~CompletesRound(state, m)
      BY <1>2, <2>3 DEF Marks, CompletesRound
    <3>2. state.processed_reader_tasks \in Nat
      BY DEF TypeOK, State
    <3>3. state'.processed_reader_tasks = state.processed_reader_tasks
      BY <1>1, <2>3, <3>2
    <3>4. state'.finished_scanning => state.finished_scanning
      BY <1>1, <3>1
    <3>5. QED
      BY <2>2, <3>1, <3>3, <3>4
  <2>4. CASE m.reader_task_processed
    <3>1. /\ m.drive \notin reading.marked /\ m.drive \in Drives
          /\ reading'.marked = reading.marked \cup {m.drive}
          /\ reading.marked \subseteq Drives
      BY <1>2, <2>1, <2>4, RunTypes DEF DrivesInv, Marks
    <3>2. IsFiniteSet(Drives) /\ IsFiniteSet(reading.marked)
      BY <3>1, MinerAssumption, FS_Subset
    <3>3. Cardinality(reading'.marked) = Cardinality(reading.marked) + 1
      BY <3>1, <3>2, FS_AddElement
    <3>4. state'.processed_reader_tasks = Cardinality(reading'.marked)
      BY <1>1, <2>2, <2>4, <3>3
    <3>5. CompletesRound(state, m) => Cardinality(reading'.marked) = Cardinality(Drives)
      BY <2>2, <3>3 DEF CompletesRound
    <3>6. Cardinality(reading'.marked) = Cardinality(Drives) => reading'.marked = Drives
      BY <3>1, <3>2, FS_Subset
    <3>7. ~state.finished_scanning
      BY <2>2, <3>1
    <3>8. QED
      BY <1>1, <3>4, <3>5, <3>6, <3>7
  <2>5. QED
    BY <2>3, <2>4
<1>5. QED
  BY <1>1, <1>2, <1>3, <1>4 DEF CountInv, FinishedIsScanned

LEMMA CountPoll ==
  ASSUME TypeOK, RunsInv, CountInv, NEW info \in MiningInfo, PollKind(info)
  PROVE  CountInv'
<1>1. CASE info.height # state.height
  <2>1. PollAtNewHeight(info)
    BY <1>1, PollNew DEF PollKind
  <2>2. /\ ~state'.finished_scanning /\ state'.processed_reader_tasks = 0
        /\ state'.block = state.block + 1
    BY <2>1 DEF PollAtNewHeight
  <2>3. CASE KeepReading
    <3>1. reading'.block # state'.block
      BY <2>2, <2>3, RunTypes DEF KeepReading, RunsInv
    <3>2. QED
      BY <2>2, <3>1 DEF CountInv, FinishedIsScanned
  <2>4. CASE start_reading(state'.height, state'.block, state'.scoop)
    <3>1. reading'.block = state'.block /\ reading'.marked = {}
      BY <2>4, StartFacts DEF TypeOK
    <3>2. QED
      BY <2>2, <3>1, FS_EmptySet DEF CountInv, FinishedIsScanned
  <2>5. QED
    BY <2>1, <2>3, <2>4 DEF PollAtNewHeight
<1>2. CASE info.height = state.height
  <2>1. /\ PollAtSameHeight
        /\ UNCHANGED reading =>
             state'.processed_reader_tasks = state.processed_reader_tasks
    BY <1>2, PollSame DEF PollKind
  <2>2. /\ state'.block = state.block
        /\ state'.finished_scanning = state.finished_scanning
        /\ \/ state'.processed_reader_tasks = state.processed_reader_tasks
           \/ state'.processed_reader_tasks = 0
    BY <2>1 DEF PollAtSameHeight, SameRound
  <2>3. CASE KeepReading \/ stop_reading
    BY <2>1, <2>2, <2>3 DEF KeepReading, stop_reading, CountInv, FinishedIsScanned
  <2>4. CASE ~state.finished_scanning
             /\ start_reading(state'.height, state'.block, state'.scoop)
    <3>1. /\ reading'.block = state'.block /\ reading'.marked = {}
          /\ reading'.again = (reading.block = state'.block)
      BY <2>4, StartFacts DEF TypeOK
    <3>2. ~reading'.again => state'.processed_reader_tasks = 0
      BY <2>2, <3>1 DEF CountInv
    <3>3. QED
      BY <2>2, <2>4, <3>1, <3>2, FS_EmptySet DEF CountInv, FinishedIsScanned
  <2>5. QED
    BY <2>1, <2>3, <2>4 DEF PollAtSameHeight
<1>3. QED
  BY <1>1, <1>2

LEMMA CountStep ==
  ASSUME TypeOK, CurrentInv, RunsInv, DrivesInv, CountInv, [Next]_vars
  PROVE  CountInv'
<1>1. ASSUME UNCHANGED <<state, reading>> PROVE CountInv'
  BY <1>1 DEF CountInv, FinishedIsScanned
<1>2. CASE StopKind
  BY <1>2 DEF StopKind, SameRound, stop_reading, CountInv, FinishedIsScanned
<1>3. QED
  BY <1>1, <1>2, CountPoll, CountTake, Steps DEF TaskKind, StateKept, ForgetKind, QuietKind

ScanInv == RunsInv /\ DrivesInv /\ (~Reorgs => CountInv)

LEMMA ScanAlways == Spec => []ScanInv
<1>1. Init => ScanInv
  <2> SUFFICES ASSUME Init PROVE ScanInv
    OBVIOUS
  <2>1. /\ tasks = {} /\ nonce_data = {} /\ reading.block = 0 /\ reading.height = 0
        /\ reading.marked = {} /\ state.block = 0 /\ state.height = 0
        /\ state.processed_reader_tasks = 0 /\ ~state.finished_scanning
    BY DEF Init
  <2>2. QED
    BY <2>1, FS_EmptySet DEF ScanInv, RunsInv, DrivesInv, CountInv, FinishedIsScanned
<1>2. TypeOK /\ (~Reorgs => CurrentInv) /\ ScanInv /\ [Next]_vars => ScanInv'
  BY RunsStep, DrivesStep, CountStep DEF ScanInv
<1>3. QED
  BY <1>1, <1>2, Typing, CurrentAlways, PTL DEF Spec

\* Whatever the annode reports and whenever, scanning is only ever set with the
\* readers of the current block started; and although a start only tells the
\* tasks of the start before it to stop, no drive is ever read by two tasks that
\* were not told, and none that was not told reads for another block than the
\* one being scanned (reader.rs:47-56, 95-97, miner.rs:784-909).
THEOREM ReadingSafe == Spec => [](ScanningIsStarted /\ OneRunAtATime)
<1>1. Init => ReadingInv
  BY DEF Init, ReadingInv, ScanningIsStarted
<1>2. TypeOK /\ ReadingInv /\ [Next]_vars => ReadingInv'
  BY ReadingStep
<1>3. ReadingInv /\ ScanInv => ScanningIsStarted /\ OneRunAtATime
  <2> SUFFICES ASSUME ReadingInv, ScanInv
               PROVE  ScanningIsStarted /\ OneRunAtATime
    OBVIOUS
  <2>1. \A t \in tasks : ~t.interrupted => Ours(t) /\ RunOf(t)
    BY DEF ReadingInv, ScanInv, RunsInv, Ours
  <2>2. \A t, u \in tasks :
          ~t.interrupted /\ ~u.interrupted /\ u.drive = t.drive => u = t
    BY <2>1 DEF ScanInv, DrivesInv
  <2>3. \A t \in tasks : ~t.interrupted /\ state.scanning =>
          t.block = state.block /\ t.height = state.height
    BY <2>1 DEF ReadingInv, ScanningIsStarted, RunOf
  <2>4. QED
    BY <2>1, <2>2, <2>3 DEF ReadingInv, OneRunAtATime, Ours
<1>4. QED
  BY <1>1, <1>2, <1>3, Typing, ScanAlways, PTL DEF Spec

\* While the annode's height never goes down, and however the scan is
\* interrupted and whatever is left under way of earlier ones, a block whose
\* readers were started once is finished only when every drive has ended and
\* was counted once (miner.rs:1073-1117).
THEOREM Finished == Spec => [](~Reorgs => FinishedIsScanned)
<1>1. ScanInv => (~Reorgs => FinishedIsScanned)
  BY DEF ScanInv, CountInv
<1>2. QED
  BY <1>1, ScanAlways, PTL

-----------------------------------------------------------------------------
(* Nothing but a poll says whether to stop.                                 *)

\* The annode is LIVE and MINING whenever it answers.
Synced == \A x \in Statuses : x.live /\ x.mining

LEMMA SyncedInfo ==
  ASSUME Synced, NEW info \in MiningInfo
  PROVE  Solo(info)
BY DEF MiningInfo, Synced, Solo

\* The annode never keeps the miner from scanning.
AlwaysOpen == Synced /\ (Mode = "SHARE" => \A x \in Statuses : x.share)

\* The plot that ends a drive can be prepared.
EndsPrepared == \A d \in Drives : <<d, PlotCount>> \notin PrepareFaults

LEMMA OpenInfo ==
  ASSUME AlwaysOpen, NEW info \in MiningInfo
  PROVE  Open(info) /\ info.status.mining
BY SyncedInfo DEF MiningInfo, AlwaysOpen, Open, Solo

LEMMA NeverStops == Spec => [](Synced => ~SHOULD_STOP_MINING)
<1>1. Init => ~SHOULD_STOP_MINING
  BY DEF Init
<1>2. ASSUME Synced, ~SHOULD_STOP_MINING, [Next]_vars
      PROVE  ~SHOULD_STOP_MINING'
  <2>1. ASSUME NEW info \in MiningInfo, Poll(info) PROVE ~SHOULD_STOP_MINING'
    BY <1>2, <2>1, SyncedInfo DEF Poll, Solo
  <2>2. CASE UNCHANGED SHOULD_STOP_MINING
    BY <1>2, <2>2
  <2>3. QED
    BY <1>2, <2>1, <2>2
    DEF Next, vars, ReaderStep, ReaderStops, PrepareFails, PlotRead, ReadFails,
        ReaderUnchanged, HandleNonce, SubmissionConfirmed, SubmissionGivenUp
<1>3. (Synced => ~SHOULD_STOP_MINING) /\ [Next]_vars => (Synced => ~SHOULD_STOP_MINING)'
  BY <1>2 DEF Synced
<1>4. QED
  BY <1>1, <1>3, PTL DEF Spec

-----------------------------------------------------------------------------
(* A round that scans has work left.                                        *)

\* The end of drive d is counted, under way, or being read for.
Accounted(d) ==
  \/ d \in reading.marked
  \/ \E t \in tasks : Ours(t) /\ t.drive = d
  \/ \E m \in nonce_data : Marks(m) /\ m.drive = d

\* The readers of the block are never interrupted, so that no drive's end is
\* lost; the round ends with the last of them.
SteadyInv ==
  /\ state.block # 0 /\ Mode = "SHARE" => state.share_mining_enabled
  /\ reading.block = state.block /\ ~reading.again
  /\ \A t \in tasks : Ours(t) => ~t.interrupted
  /\ state.block # 0 =>
       /\ \A d \in Drives : Accounted(d)
       /\ state.scanning \/ state.finished_scanning \/ state.submitted_for_this_block
  /\ state.scanning => state.block # 0 /\ reading.marked # Drives

LEMMA TakenScanning ==
  ASSUME TypeOK, NEW m \in nonce_data, HandlerTakes(m)
  PROVE  /\ state'.share_mining_enabled = state.share_mining_enabled
         /\ state.submitted_for_this_block => state'.submitted_for_this_block
         /\ state.scanning => \/ state'.scanning \/ state'.finished_scanning
                              \/ state'.submitted_for_this_block
         /\ state'.scanning => ~CompletesRound(state, m)
<1> DEFINE better == Improves(state, m)
           s == IF better THEN Improved(state, m) ELSE state
           best == IF better /\ SubmitOnlyBest THEN m ELSE best_nonce_data
           sendBest == SubmitOnlyBest /\ CompletesRound(state, m) /\ HasBest(best)
           all == CompletesRound(s, m)
<1>1. m \in NonceData /\ state \in State /\ state' = Counted(s, m, sendBest)
  BY DEF TypeOK, HandlerTakes
<1>2. /\ s \in State
      /\ s.processed_reader_tasks = state.processed_reader_tasks
      /\ s.share_mining_enabled = state.share_mining_enabled
      /\ state.submitted_for_this_block => s.submitted_for_this_block
      /\ state.scanning => s.scanning \/ s.submitted_for_this_block
  <2>1. CASE better
    <3>1. s \in State /\ s.processed_reader_tasks = state.processed_reader_tasks
      BY <1>1, <2>1, ImprovedType
    <3>2. /\ s.share_mining_enabled = state.share_mining_enabled
          /\ state.submitted_for_this_block => s.submitted_for_this_block
          /\ state.scanning => s.scanning \/ s.submitted_for_this_block
      BY <1>1, <2>1 DEF Improved, State
    <3>3. QED
      BY <3>1, <3>2
  <2>2. CASE ~better
    BY <1>1, <2>2
  <2>3. QED
    BY <2>1, <2>2
<1>3. all <=> CompletesRound(state, m)
  BY <1>2 DEF CompletesRound
<1>4. ~m.reader_task_processed => ~CompletesRound(state, m)
  BY DEF CompletesRound
<1> HIDE DEF s, all
<1>5. CASE ~m.reader_task_processed
  BY <1>1, <1>2, <1>4, <1>5 DEF Counted
<1>6. CASE m.reader_task_processed
  <2> DEFINE n == s.processed_reader_tasks + 1
             fin == s.finished_scanning \/ all
             on == s.scanning /\ ~all
             done == s.submitted_for_this_block \/ sendBest
  <2>1. state' = [s EXCEPT !.processed_reader_tasks = n, !.finished_scanning = fin,
                           !.scanning = on, !.submitted_for_this_block = done]
    BY <1>1, <1>2, <1>6 DEF Counted, State, all
  <2> HIDE DEF n, sendBest
  <2>2. /\ state'.share_mining_enabled = s.share_mining_enabled
        /\ state'.finished_scanning = fin /\ state'.scanning = on
        /\ state'.submitted_for_this_block = done
    BY <1>2, <2>1 DEF State
  <2>3. QED
    BY <1>2, <1>3, <2>2
<1>7. QED
  BY <1>5, <1>6

LEMMA SteadyStart ==
  ASSUME TypeOK, RunsInv, SteadyInv, AlwaysOpen, NEW info \in MiningInfo, PollKind(info),
         info.height # state.height
  PROVE  SteadyInv'
<1>1. /\ state'.share_mining_enabled <=> Solo(info) /\ info.status.share
      /\ state'.scanning /\ PollAtNewHeight(info) /\ Open(info)
  BY PollNew, OpenInfo DEF PollKind
<1>2. /\ start_reading(state'.height, state'.block, state'.scoop)
      /\ state'.block = state.block + 1 /\ state.block \in Nat
  BY <1>1, RunTypes DEF PollAtNewHeight
<1>3. /\ reading'.block = state'.block /\ reading'.run = reading.run + 1
      /\ reading'.again = (reading.block = state'.block) /\ reading'.marked = {}
      /\ \A t \in tasks' : t \in Interrupted(tasks) \/ ~t.interrupted
  BY <1>2, StartFacts DEF TypeOK
<1>4. state'.block # 0 /\ state'.block # state.block /\ ~reading'.again
  <2>1. reading.block = state.block
    BY DEF SteadyInv
  <2>2. state'.block # 0 /\ state'.block # state.block
    BY <1>2
  <2>3. QED
    BY <1>3, <2>1, <2>2
<1>5. \A t \in tasks' : Ours(t)' => ~t.interrupted
  <2>1. ASSUME NEW t \in Interrupted(tasks) PROVE ~Ours(t)'
    <3>1. PICK u \in tasks : t.run = u.run
      BY InterruptedTasks DEF TypeOK
    <3>2. u.run \in Nat /\ u.run <= reading.run /\ reading.run \in Nat
      BY RunTypes DEF RunsInv, RunOf
    <3>3. t.run # reading'.run
      BY <1>3, <3>1, <3>2
    <3>4. QED
      BY <3>3 DEF Ours
  <2>2. QED
    BY <1>3, <2>1
<1>6. ASSUME NEW d \in Drives PROVE Accounted(d)'
  <2> DEFINE r == reading.run + 1
             t == [run |-> r, drive |-> d, next |-> 1, interrupted |-> FALSE,
                   height |-> state'.height, block |-> state'.block,
                   scoop |-> state'.scoop]
  <2>1. t.run = r /\ t.drive = d
    OBVIOUS
  <2>2. t \in NewTasks(r, state'.height, state'.block, state'.scoop)
    BY DEF NewTasks
  <2>3. t \in tasks'
    BY <1>2, <2>2 DEF start_reading
  <2> HIDE DEF t
  <2>4. QED
    BY <1>3, <2>1, <2>3 DEF Accounted, Ours
<1>7. Drives # {}
  BY MinerAssumption
<1>8. Mode = "SHARE" => state'.share_mining_enabled
  BY <1>1 DEF Open
<1>9. QED
  BY <1>1, <1>3, <1>4, <1>5, <1>6, <1>7, <1>8 DEF SteadyInv

LEMMA SteadySame ==
  ASSUME TypeOK, SteadyInv, AlwaysOpen, NEW info \in MiningInfo, PollKind(info),
         info.height = state.height
  PROVE  SteadyInv'
<1>1. state.block # 0
  BY InfoTypes DEF Heights, TypeOK
<1>2. /\ PollAtSameHeight /\ KeepReading /\ Open(info)
      /\ state'.share_mining_enabled <=> Solo(info) /\ info.status.share
      /\ \/ state'.scanning \/ state'.finished_scanning \/ state'.submitted_for_this_block
  BY <1>1, PollSame, OpenInfo DEF PollKind, SteadyInv
<1>3. UNCHANGED <<reading, tasks, nonce_data>> /\ state'.block = state.block
  BY <1>2 DEF KeepReading, PollKind, PollAtSameHeight, SameRound
<1>4. state'.scanning => state.scanning
  <2>1. ~start_reading(state'.height, state'.block, state'.scoop)
    <3>1. reading.run \in Nat /\ reading'.run = reading.run
      BY <1>3, RunTypes
    <3>2. QED
      BY <3>1, StartFacts DEF TypeOK
  <2>2. QED
    BY <1>2, <2>1 DEF PollAtSameHeight
<1>5. \A d \in Drives : Accounted(d)'
  BY <1>1, <1>3 DEF SteadyInv, Accounted, Ours, Marks
<1>6. Mode = "SHARE" => state'.share_mining_enabled
  BY <1>2 DEF Open
<1>7. QED
  BY <1>1, <1>2, <1>3, <1>4, <1>5, <1>6 DEF SteadyInv, Ours

\* An uninterrupted task goes on, or says that its drive ends.
LEMMA TaskAccounts ==
  ASSUME TypeOK, EndsPrepared, ~SHOULD_STOP_MINING, NEW t \in tasks, ReaderStep(t),
         ~t.interrupted, Ours(t)
  PROVE  \/ \E u \in tasks' : Ours(u) /\ u.drive = t.drive
         \/ \E m \in nonce_data' : Marks(m) /\ m.drive = t.drive
<1>1. t \in Task /\ tasks' = Advanced(t)
  BY DEF TypeOK, ReaderStep, ReaderStops, PrepareFails, PlotRead, ReadFails
<1>2. CASE ~IsLast(t)
  <2> DEFINE next == [t EXCEPT !.next = @ + 1]
  <2>1. next \in tasks'
    BY <1>1, <1>2 DEF Advanced
  <2>2. next.run = t.run /\ next.drive = t.drive
    BY <1>1 DEF Task
  <2> HIDE DEF next
  <2>3. QED
    BY <2>1, <2>2 DEF Ours
<1>3. CASE IsLast(t)
  <2>1. t.drive \in Drives /\ t.next = PlotCount
    BY <1>1, <1>3 DEF Task, IsLast
  <2>2. ~PrepareFails(t)
    BY <2>1 DEF PrepareFails, EndsPrepared
  <2>3. PICK h \in BOOLEAN : NonceOf(t, h) \in nonce_data'
    BY <1>3, <2>2 DEF ReaderStep, ReaderStops, PlotRead, ReadFails
  <2>4. /\ NonceOf(t, h).run = t.run /\ NonceOf(t, h).drive = t.drive
        /\ NonceOf(t, h).reader_task_processed
    BY <1>3 DEF NonceOf
  <2>5. QED
    BY <2>3, <2>4 DEF Marks, Ours
<1>4. QED
  BY <1>2, <1>3

LEMMA SteadyTask ==
  ASSUME TypeOK, SteadyInv, EndsPrepared, ~SHOULD_STOP_MINING,
         NEW t \in tasks, TaskKind(t)
  PROVE  SteadyInv'
<1>1. UNCHANGED <<state, reading>> /\ nonce_data \subseteq nonce_data'
  BY DEF TaskKind, StateKept
<1>2. \A x : (Ours(x)' <=> Ours(x)) /\ (Marks(x)' <=> Marks(x))
  BY <1>1 DEF Ours, Marks
<1>3. ASSUME NEW u \in tasks', Ours(u) PROVE ~u.interrupted
  <2>1. PICK v \in tasks : u.run = v.run /\ u.interrupted = v.interrupted
    BY AdvancedTasks DEF TaskKind, TypeOK
  <2>2. QED
    BY <1>3, <2>1 DEF SteadyInv, Ours
<1>4. ASSUME NEW d \in Drives, Accounted(d) PROVE Accounted(d)'
  <2>1. CASE d \in reading.marked \/ \E m \in nonce_data : Marks(m) /\ m.drive = d
    BY <1>1, <1>2, <2>1 DEF Accounted
  <2>2. ASSUME NEW u \in tasks, Ours(u), u.drive = d
        PROVE  Accounted(d)'
    <3>1. CASE u # t
      BY <1>2, <2>2, <3>1 DEF TaskKind, Advanced, Accounted
    <3>2. CASE u = t
      <4>1. ReaderStep(t) /\ ~t.interrupted /\ Ours(t)
        BY <2>2, <3>2 DEF TaskKind, SteadyInv
      <4>2. QED
        BY <1>2, <2>2, <3>2, <4>1, TaskAccounts DEF Accounted
    <3>3. QED
      BY <3>1, <3>2
  <2>3. QED
    BY <1>4, <2>1, <2>2 DEF Accounted
<1>5. QED
  BY <1>1, <1>2, <1>3, <1>4 DEF SteadyInv

LEMMA SteadyStop ==
  ASSUME TypeOK, RunsInv, SteadyInv
  PROVE  ~StopKind
<1> SUFFICES ASSUME NEW m \in nonce_data, HandlerStops(m)
             PROVE  FALSE
  BY DEF StopKind
<1>1. m.block \in Blocks
  BY DEF TypeOK, NonceData
<1>2. m.block \in Nat /\ m.block # 0
  BY <1>1 DEF Blocks
<1>3. m.block <= reading.block /\ reading.block <= state.block
  BY DEF RunsInv, RunOf
<1>4. state.block # 0
  BY <1>2, <1>3, RunTypes
<1>5. QED
  BY <1>4 DEF HandlerStops, SteadyInv

\* What is forgotten is of another height, so it is not of this scan.
LEMMA SteadyForget ==
  ASSUME TypeOK, RunsInv, SteadyInv, ForgetKind
  PROVE  SteadyInv'
<1>1. UNCHANGED <<state, tasks, reading>>
  BY DEF ForgetKind
<1>2. PICK m \in nonce_data : ~IsCurrent(m) /\ nonce_data' = nonce_data \ {m}
  BY DEF ForgetKind
<1>3. ~Marks(m)
  BY <1>2 DEF Marks, IsCurrent, RunsInv, RunOf, SteadyInv
<1>4. \A x : (Ours(x)' <=> Ours(x)) /\ (Marks(x)' <=> Marks(x))
  BY <1>1 DEF Ours, Marks
<1>5. ASSUME NEW d \in Drives, Accounted(d) PROVE Accounted(d)'
  BY <1>1, <1>2, <1>3, <1>4, <1>5 DEF Accounted
<1>6. QED
  BY <1>1, <1>4, <1>5 DEF SteadyInv

\* A round that goes on scanning has not counted its last drive.
LEMMA SteadyTake ==
  ASSUME TypeOK, CurrentInv, RunsInv, DrivesInv, CountInv, SteadyInv,
         NEW m \in nonce_data, TakeKind(m)
  PROVE  SteadyInv'
<1>1. /\ nonce_data' = nonce_data \ {m}
      /\ reading'.run = reading.run /\ reading'.again = reading.again
      /\ reading'.marked = IF Marks(m) THEN reading.marked \cup {m.drive} ELSE reading.marked
  BY Marked
<1>2. /\ state'.block = state.block /\ reading'.block = reading.block
      /\ tasks' = tasks
      /\ state'.scanning => state.scanning
  BY DEF TakeKind, Taken
<1>3. \A x : (Ours(x)' <=> Ours(x)) /\ (Marks(x)' <=> Marks(x))
  BY <1>1 DEF Ours, Marks
<1>4. ASSUME NEW d \in Drives, Accounted(d) PROVE Accounted(d)'
  <2>1. reading.marked \subseteq reading'.marked
    BY <1>1
  <2>2. CASE d \in reading.marked
    BY <2>1, <2>2 DEF Accounted
  <2>3. CASE \E t \in tasks : Ours(t) /\ t.drive = d
    BY <1>2, <1>3, <2>3 DEF Accounted
  <2>4. ASSUME NEW n \in nonce_data, Marks(n), n.drive = d PROVE Accounted(d)'
    <3>1. CASE n = m
      BY <1>1, <2>4, <3>1 DEF Accounted
    <3>2. CASE n # m
      BY <1>1, <1>3, <2>4, <3>2 DEF Accounted
    <3>3. QED
      BY <3>1, <3>2
  <2>5. QED
    BY <1>4, <2>2, <2>3, <2>4 DEF Accounted
<1>5. ASSUME state'.scanning PROVE state'.block # 0 /\ reading'.marked # Drives
  <2>1. state'.block # 0 /\ reading.marked # Drives
    BY <1>2, <1>5 DEF SteadyInv
  <2>2. ~CompletesRound(state, m)
    BY <1>5, TakenScanning DEF TakeKind
  <2>3. ASSUME Marks(m) PROVE reading'.marked # Drives
    <3>1. m.reader_task_processed
      BY <2>3 DEF Marks
    <3>2. state'.processed_reader_tasks = state.processed_reader_tasks + 1
      BY <3>1 DEF TakeKind, Taken
    <3>3. state'.processed_reader_tasks # Cardinality(Drives)
      BY <2>2, <3>1, <3>2 DEF CompletesRound
    <3>4. reading'.block = state'.block /\ ~reading'.again
      BY <1>1, <1>2 DEF SteadyInv
    <3>5. state'.processed_reader_tasks = Cardinality(reading'.marked)
      BY <3>4, CountTake DEF CountInv
    <3>6. QED
      BY <3>3, <3>5
  <2>4. QED
    BY <1>1, <2>1, <2>3
<1>6. state'.share_mining_enabled = state.share_mining_enabled
  BY TakenScanning DEF TakeKind
<1>7. state.scanning \/ state.finished_scanning \/ state.submitted_for_this_block =>
        state'.scanning \/ state'.finished_scanning \/ state'.submitted_for_this_block
  <2>1. state.finished_scanning => state'.finished_scanning
    BY DEF TakeKind, Taken
  <2>2. QED
    BY <2>1, TakenScanning DEF TakeKind
<1>8. QED
  BY <1>1, <1>2, <1>3, <1>4, <1>5, <1>6, <1>7 DEF SteadyInv

LEMMA SteadyStep ==
  ASSUME TypeOK, ~Reorgs, CurrentInv, ScanInv, SteadyInv, AlwaysOpen, EndsPrepared,
         ~SHOULD_STOP_MINING, [Next]_vars
  PROVE  SteadyInv'
<1>1. CASE QuietKind
  BY <1>1 DEF QuietKind, SteadyInv, Accounted, Ours, Marks
<1>2. QED
  BY <1>1, Steps, SteadyStart, SteadySame, SteadyTask, SteadyStop, SteadyForget,
     SteadyTake DEF ScanInv

LEMMA SteadyAlways == Spec => [](~Reorgs /\ AlwaysOpen /\ EndsPrepared => SteadyInv)
<1> DEFINE Kept == ~Reorgs /\ AlwaysOpen /\ EndsPrepared
<1>1. Init => SteadyInv
  <2> SUFFICES ASSUME Init PROVE SteadyInv
    OBVIOUS
  <2>1. /\ tasks = {} /\ reading.block = 0 /\ ~reading.again
        /\ state.block = 0 /\ ~state.scanning
    BY DEF Init
  <2>2. QED
    BY <2>1 DEF SteadyInv
<1>2. /\ TypeOK /\ (~Reorgs => CurrentInv) /\ ScanInv /\ (Synced => ~SHOULD_STOP_MINING)
      /\ (Kept => SteadyInv) /\ [Next]_vars
      => (Kept => SteadyInv)'
  <2>1. Kept' <=> Kept
    BY DEF AlwaysOpen, Synced, EndsPrepared
  <2>2. AlwaysOpen => Synced
    BY DEF AlwaysOpen
  <2>3. QED
    BY <2>1, <2>2, SteadyStep
<1>3. QED
  BY <1>1, <1>2, Typing, CurrentAlways, ScanAlways, NeverStops, PTL DEF Spec

\* While the annode's height never goes down and it keeps mining (and, of a
\* SHARE miner, keeps share mining on), and the plot that ends a drive can be
\* prepared, a round that is scanning has a reader at work or nonce data to
\* handle, and is not left with nothing that could finish it
\* (reader.rs:95-157, miner.rs:985-1190).  What keeps a scan from resuming
\* with work once the annode pauses is the subject of the run syncing_blip.
THEOREM HasWork ==
  Spec => [](~Reorgs /\ AlwaysOpen /\ EndsPrepared => ScanningHasWork)
<1>1. ASSUME TypeOK, SteadyInv, state.scanning
      PROVE  \/ \E t \in tasks : t.run = reading.run
             \/ \E m \in nonce_data : m.run = reading.run
  <2>1. state.block # 0 /\ reading.marked # Drives
    BY <1>1 DEF SteadyInv
  <2>2. PICK d \in Drives : d \notin reading.marked
    BY <1>1, <2>1, RunTypes
  <2>3. Accounted(d)
    BY <1>1, <2>1 DEF SteadyInv
  <2>4. QED
    BY <2>2, <2>3 DEF Accounted, Ours, Marks
<1>2. TypeOK /\ (~Reorgs /\ AlwaysOpen /\ EndsPrepared => SteadyInv)
      => (~Reorgs /\ AlwaysOpen /\ EndsPrepared => ScanningHasWork)
  BY <1>1 DEF ScanningHasWork
<1>3. QED
  BY <1>2, Typing, SteadyAlways, PTL

-----------------------------------------------------------------------------
(* The best deadline of a block is submitted.                               *)

\* The best deadline of account a was submitted for the block.
BestSent(a) ==
  \E i \in 1..Len(submissions) :
    /\ submissions[i].round = state.block
    /\ submissions[i].nonce.deadline = state.account_id_to_best_deadline[a]

\* Every solution is submitted as soon as it is found.
EachInv ==
  \A a \in Accounts : state.account_id_to_best_deadline[a] # NoBest => BestSent(a)

LEMMA SubmitSent ==
  ASSUME TypeOK, NEW n, submit_nonce(n), state'.block = state.block, NEW a \in Accounts
  PROVE  /\ n.deadline = state'.account_id_to_best_deadline[a] => BestSent(a)'
         /\ state'.account_id_to_best_deadline[a] = state.account_id_to_best_deadline[a]
              /\ BestSent(a) => BestSent(a)'
<1>1. /\ Len(submissions) \in Nat /\ Len(submissions') = Len(submissions) + 1
      /\ \A i \in 1..Len(submissions) : submissions'[i] = submissions[i]
      /\ submissions'[Len(submissions) + 1].nonce = n
      /\ submissions'[Len(submissions) + 1].round = state.block
  BY Submitted DEF TypeOK
<1>2. /\ \A i \in 1..Len(submissions) : i \in 1..Len(submissions')
      /\ Len(submissions) + 1 \in 1..Len(submissions')
  BY <1>1
<1>3. QED
  BY <1>1, <1>2 DEF BestSent

LEMMA EachTake ==
  ASSUME TypeOK, EachInv, ~SubmitOnlyBest, NEW m \in nonce_data, TakeKind(m)
  PROVE  EachInv'
<1>1. state'.block = state.block /\ m.account_id \in Accounts /\ state \in State
  BY DEF TakeKind, Taken, TypeOK, NonceData
<1>2. CASE Improves(state, m)
  <2>1. submit_nonce(m)
    BY <1>2 DEF TakeKind, HandlerTakes
  <2>2. state'.account_id_to_best_deadline =
          [state.account_id_to_best_deadline EXCEPT ![m.account_id] = m.deadline]
    BY <1>2 DEF TakeKind, Taken
  <2>3. ASSUME NEW a \in Accounts, state'.account_id_to_best_deadline[a] # NoBest
        PROVE  BestSent(a)'
    <3>1. CASE a = m.account_id
      <4>1. state'.account_id_to_best_deadline[a] = m.deadline
        BY <1>1, <2>2, <3>1 DEF State
      <4>2. QED
        BY <1>1, <2>1, <4>1, SubmitSent
    <3>2. CASE a # m.account_id
      <4>1. state'.account_id_to_best_deadline[a] = state.account_id_to_best_deadline[a]
        BY <1>1, <2>2, <3>2 DEF State
      <4>2. BestSent(a)
        BY <2>3, <4>1 DEF EachInv
      <4>3. QED
        BY <1>1, <2>1, <4>1, <4>2, SubmitSent
    <3>3. QED
      BY <3>1, <3>2
  <2>4. QED
    BY <2>3 DEF EachInv
<1>3. CASE ~Improves(state, m)
  <2>1. /\ state'.account_id_to_best_deadline = state.account_id_to_best_deadline
        /\ submissions' = submissions
    BY <1>3 DEF TakeKind, Taken
  <2>2. QED
    BY <1>1, <2>1 DEF EachInv, BestSent
<1>4. QED
  BY <1>2, <1>3

LEMMA EachStep ==
  ASSUME TypeOK, EachInv, ~SubmitOnlyBest, [Next]_vars
  PROVE  EachInv'
<1>1. ASSUME SameRound(state, state'), UNCHANGED submissions PROVE EachInv'
  BY <1>1 DEF SameRound, EachInv, BestSent
<1>2. ASSUME UNCHANGED <<state, submissions>> PROVE EachInv'
  BY <1>2 DEF EachInv, BestSent
<1>3. ASSUME NEW info \in MiningInfo, PollAtNewHeight(info) PROVE EachInv'
  BY <1>3 DEF PollAtNewHeight, EachInv
<1>4. QED
  BY <1>1, <1>2, <1>3, EachTake, Steps
  DEF PollKind, PollAtSameHeight, TaskKind, StateKept, StopKind, ForgetKind, QuietKind

LEMMA EachAlways == Spec => [](~SubmitOnlyBest => EachInv)
<1>1. Init => EachInv
  BY DEF Init, EachInv
<1>2. TypeOK /\ (~SubmitOnlyBest => EachInv) /\ [Next]_vars => (~SubmitOnlyBest => EachInv)'
  BY EachStep
<1>3. QED
  BY <1>1, <1>2, Typing, PTL DEF Spec

\* A reader task that is alone on the pool is handled in the order of its
\* plots, so that its marker is the last of it.
OrderInv ==
  /\ \A t \in tasks : t.run # 0
  /\ \A m \in nonce_data :
       /\ m.run # 0 /\ (m.reader_task_processed <=> m.plot = PlotCount)
       /\ Ours(m) => m.drive \notin reading.marked

LEMMA OrderPoll ==
  ASSUME TypeOK, RunsInv, OrderInv, NEW info \in MiningInfo, PollKind(info)
  PROVE  OrderInv'
<1>1. UNCHANGED nonce_data
  BY DEF PollKind
<1>2. CASE KeepReading
  BY <1>1, <1>2 DEF KeepReading, OrderInv, Ours
<1>a. ASSUME NEW t \in Interrupted(tasks) PROVE t.run # 0
  <2>1. PICK u \in tasks : t.run = u.run
    BY InterruptedTasks DEF TypeOK
  <2>2. QED
    BY <2>1 DEF OrderInv
<1>3. CASE stop_reading
  BY <1>1, <1>3, <1>a DEF stop_reading, OrderInv, Ours
<1>4. CASE start_reading(state'.height, state'.block, state'.scoop)
  <2>1. reading'.run = reading.run + 1 /\ reading.run \in Nat
        /\ \A t \in tasks' : t \in Interrupted(tasks) \/ t.run = reading'.run
    BY <1>4, StartFacts, RunTypes DEF TypeOK
  <2>2. reading'.run # 0
    BY <2>1
  <2>3. ASSUME NEW m \in nonce_data PROVE ~Ours(m)'
    <3>1. m.run <= reading.run /\ m.run \in Nat
      BY RunTypes DEF RunsInv, RunOf
    <3>2. m.run # reading'.run
      BY <2>1, <3>1
    <3>3. QED
      BY <3>2 DEF Ours
  <2>4. \A t \in tasks' : t.run # 0
    BY <1>a, <2>1, <2>2
  <2>5. QED
    BY <1>1, <2>3, <2>4 DEF OrderInv
<1>5. QED
  BY <1>2, <1>3, <1>4 DEF PollKind, PollAtNewHeight, PollAtSameHeight

LEMMA OrderTask ==
  ASSUME TypeOK, DrivesInv, OrderInv, NEW t \in tasks, TaskKind(t)
  PROVE  OrderInv'
<1>1. UNCHANGED reading /\ \A x : Ours(x)' <=> Ours(x)
  BY DEF TaskKind, StateKept, Ours
<1>2. ASSUME NEW u \in tasks' PROVE u.run # 0
  <2>1. PICK v \in tasks : u.run = v.run
    BY AdvancedTasks DEF TaskKind, TypeOK
  <2>2. QED
    BY <2>1 DEF OrderInv
<1>3. ASSUME NEW m \in nonce_data', m \notin nonce_data
      PROVE  /\ m.run # 0 /\ (m.reader_task_processed <=> m.plot = PlotCount)
             /\ Ours(m) => m.drive \notin reading.marked
  <2>1. PICK h \in BOOLEAN : m = NonceOf(t, h)
    BY <1>3 DEF TaskKind
  <2>2. /\ m.run = t.run /\ m.drive = t.drive /\ m.plot = t.next
        /\ m.reader_task_processed = (t.next = PlotCount)
    BY <2>1 DEF NonceOf, IsLast
  <2>3. t.run # 0 /\ (Ours(t) => t.drive \notin reading.marked)
    BY DEF OrderInv, DrivesInv
  <2>4. QED
    BY <2>2, <2>3 DEF Ours
<1>4. QED
  BY <1>1, <1>2, <1>3 DEF OrderInv

LEMMA OrderTake ==
  ASSUME TypeOK, OneHasher, DrivesInv, OrderInv, NEW m \in nonce_data, TakeKind(m)
  PROVE  OrderInv'
<1>1. /\ nonce_data' = nonce_data \ {m} /\ reading'.run = reading.run
      /\ reading'.marked = IF Marks(m) THEN reading.marked \cup {m.drive} ELSE reading.marked
      /\ tasks' = tasks
  BY Marked DEF TakeKind, Taken
<1>2. ASSUME NEW n \in nonce_data', Ours(n) PROVE n.drive \notin reading'.marked
  <2>1. n \in nonce_data /\ n # m /\ n.drive \notin reading.marked
    BY <1>1, <1>2 DEF OrderInv
  <2>2. ASSUME Marks(m), n.drive = m.drive PROVE FALSE
    <3>1. m.plot = PlotCount /\ n.run = m.run
      BY <1>2, <2>2 DEF Marks, OrderInv, Ours
    <3>2. m.plot <= n.plot
      BY <2>1, <2>2, <3>1 DEF TakeKind, HandleNonce, MayArrive
    <3>3. n.plot \in 1..PlotCount /\ PlotCount \in Nat
      BY <2>1, MinerAssumption DEF TypeOK, NonceData, Plots
    <3>4. n.plot = PlotCount
      BY <3>1, <3>2, <3>3
    <3>5. Marks(n)
      BY <1>2, <2>1, <3>4 DEF Marks, OrderInv
    <3>6. QED
      BY <2>1, <2>2, <3>5 DEF DrivesInv
  <2>3. QED
    BY <1>1, <2>1, <2>2
<1>3. QED
  BY <1>1, <1>2 DEF OrderInv, Ours

LEMMA OrderStep ==
  ASSUME TypeOK, OneHasher, RunsInv, DrivesInv, OrderInv, [Next]_vars
  PROVE  OrderInv'
<1>1. ASSUME UNCHANGED <<tasks, reading>>, nonce_data' \subseteq nonce_data
      PROVE  OrderInv'
  BY <1>1 DEF OrderInv, Ours
<1>2. CASE StopKind
  <2>1. \A t \in tasks' : t.run # 0
    <3>1. ASSUME NEW t \in Interrupted(tasks) PROVE t.run # 0
      <4>1. PICK u \in tasks : t.run = u.run
        BY InterruptedTasks DEF TypeOK
      <4>2. QED
        BY <4>1 DEF OrderInv
    <3>2. QED
      BY <1>2, <3>1 DEF StopKind, stop_reading
  <2>2. QED
    BY <1>2, <2>1 DEF StopKind, stop_reading, OrderInv, Ours
<1>3. QED
  BY <1>1, <1>2, OrderPoll, OrderTask, OrderTake, Steps DEF ForgetKind, QuietKind

LEMMA OrderAlways == Spec => [](OneHasher => OrderInv)
<1>1. Init => OrderInv
  BY DEF Init, OrderInv
<1>2. TypeOK /\ ScanInv /\ (OneHasher => OrderInv) /\ [Next]_vars => (OneHasher => OrderInv)'
  BY OrderStep DEF ScanInv
<1>3. QED
  BY <1>1, <1>2, Typing, ScanAlways, PTL DEF Spec

OneAccountOwns == \A a, b \in Accounts : a = b

\* During the first scan the handler retains what is best, and submits it when
\* it counts the last drive.
BestInv ==
  reading.run <= 1 =>
    \A a \in Accounts : state.account_id_to_best_deadline[a] # NoBest =>
      /\ best_nonce_data # NoNonce /\ best_nonce_data.height = state.height
      /\ reading.marked = Drives => BestSent(a)

\* Everything under way during the first scan is of that scan.
LEMMA FirstScan ==
  ASSUME TypeOK, RunsInv, OrderInv, SteadyInv, reading.run <= 1, NEW m \in nonce_data
  PROVE  Ours(m) /\ IsCurrent(m)
<1>1. m.run # 0 /\ m.run <= reading.run /\ m.run \in Nat /\ reading.run \in Nat
  BY RunTypes DEF RunsInv, RunOf, OrderInv
<1>2. m.run = reading.run
  BY <1>1
<1>3. QED
  BY <1>2 DEF Ours, RunsInv, RunOf, SteadyInv, IsCurrent

\* What completes the round submits what is retained of it.
LEMMA RoundSends ==
  ASSUME NEW m \in nonce_data, HandlerTakes(m), SubmitOnlyBest, CompletesRound(state, m),
         best_nonce_data'.height = state.height
  PROVE  submit_nonce(best_nonce_data')
BY DEF HandlerTakes, HasBest

LEMMA BestTake ==
  ASSUME TypeOK, CurrentInv, RunsInv, DrivesInv, CountInv, SteadyInv, OrderInv, BestInv,
         SubmitOnlyBest, OneAccountOwns, CurrentInv', CountInv', TypeOK',
         NEW m \in nonce_data, TakeKind(m)
  PROVE  BestInv'
<1> SUFFICES ASSUME reading'.run <= 1, NEW a \in Accounts,
                    state'.account_id_to_best_deadline[a] # NoBest
             PROVE  /\ best_nonce_data' # NoNonce
                    /\ best_nonce_data'.height = state'.height
                    /\ reading'.marked = Drives => BestSent(a)'
  BY DEF BestInv
<1>1. /\ reading'.run = reading.run /\ reading'.block = reading.block
      /\ state'.height = state.height /\ state'.block = state.block
      /\ reading'.again = reading.again
      /\ reading'.marked = IF Marks(m) THEN reading.marked \cup {m.drive} ELSE reading.marked
  BY Marked DEF TakeKind, Taken
<1>2. best_nonce_data' # NoNonce /\ best_nonce_data'.height = state.height
  <2>1. CASE Improves(state, m)
    <3>1. best_nonce_data' = m
      BY <2>1 DEF TakeKind, Taken
    <3>2. m.height = state.height /\ m.height # 0 /\ NoNonce.height = 0
      BY HeightTypes DEF TakeKind, Taken
    <3>3. QED
      BY <3>1, <3>2
  <2>2. CASE ~Improves(state, m)
    <3>1. /\ best_nonce_data' = best_nonce_data
          /\ state.account_id_to_best_deadline[a] # NoBest
      BY <2>2 DEF TakeKind, Taken
    <3>2. reading.run <= 1
      BY <1>1
    <3>3. QED
      BY <3>1, <3>2 DEF BestInv
  <2>3. QED
    BY <2>1, <2>2
<1>3. best_nonce_data'.deadline = state'.account_id_to_best_deadline[a]
  <2>1. best_nonce_data'.deadline =
          state'.account_id_to_best_deadline[best_nonce_data'.account_id]
    BY <1>1, <1>2 DEF CurrentInv, RetainedIsBest
  <2>2. best_nonce_data'.account_id \in Accounts
    BY <1>2 DEF TypeOK, NonceData
  <2>3. QED
    BY <2>1, <2>2 DEF OneAccountOwns
<1>4. ASSUME reading'.marked = Drives PROVE BestSent(a)'
  <2>1. Ours(m) /\ m.drive \notin reading.marked /\ m.drive \in Drives
    BY <1>1, FirstScan, RunTypes DEF OrderInv
  <2>2. m.reader_task_processed
    BY <1>1, <1>4, <2>1 DEF Marks
  <2>3. state'.processed_reader_tasks = state.processed_reader_tasks + 1
    BY <2>2 DEF TakeKind, Taken
  <2>4. reading'.block = state'.block /\ ~reading'.again
    BY <1>1 DEF SteadyInv
  <2>5. state'.processed_reader_tasks = Cardinality(Drives)
    BY <1>4, <2>4 DEF CountInv
  <2>6. CompletesRound(state, m)
    BY <2>2, <2>3, <2>5 DEF CompletesRound
  <2>7. submit_nonce(best_nonce_data')
    BY <1>2, <2>6, RoundSends DEF TakeKind
  <2>8. QED
    BY <1>1, <1>3, <2>7, SubmitSent
<1>5. QED
  BY <1>1, <1>2, <1>4

LEMMA BestStep ==
  ASSUME TypeOK, ~Reorgs, CurrentInv, ScanInv, SteadyInv, OrderInv, BestInv, AlwaysOpen,
         EndsPrepared, SubmitOnlyBest, OneAccountOwns, [Next]_vars, TypeOK', CurrentInv',
         ScanInv'
  PROVE  BestInv'
<1>1. ASSUME UNCHANGED <<state, best_nonce_data, reading, submissions>>
      PROVE  BestInv'
  BY <1>1 DEF BestInv, BestSent
<1>2. ASSUME NEW info \in MiningInfo, PollKind(info) PROVE BestInv'
  <2>1. CASE info.height # state.height
    <3>1. state'.account_id_to_best_deadline = [a \in Accounts |-> NoBest]
      BY <1>2, <2>1, PollNew DEF PollKind, PollAtNewHeight
    <3>2. QED
      BY <3>1 DEF BestInv
  <2>2. CASE info.height = state.height
    <3>1. state.block # 0
      BY <2>2, InfoTypes DEF Heights, TypeOK
    <3>2. PollAtSameHeight /\ KeepReading
      BY <1>2, <2>2, <3>1, PollSame, OpenInfo DEF PollKind, SteadyInv
    <3>3. /\ UNCHANGED <<best_nonce_data, reading, submissions>>
          /\ state'.height = state.height /\ state'.block = state.block
          /\ state'.account_id_to_best_deadline = state.account_id_to_best_deadline
      BY <1>2, <3>2 DEF KeepReading, PollKind, PollAtSameHeight, SameRound
    <3>4. QED
      BY <3>3 DEF BestInv, BestSent
  <2>3. QED
    BY <2>1, <2>2
<1>3. CASE ForgetKind
  <2>1. UNCHANGED reading /\ \E m \in nonce_data : ~IsCurrent(m)
    BY <1>3 DEF ForgetKind
  <2>2. ~(reading.run <= 1)
    BY <2>1, FirstScan DEF ScanInv
  <2>3. QED
    BY <2>1, <2>2 DEF BestInv
<1>4. ASSUME NEW t \in tasks, TaskKind(t) PROVE BestInv'
  BY <1>1, <1>4 DEF TaskKind, StateKept
<1>5. CASE QuietKind
  BY <1>1, <1>5 DEF QuietKind
<1>6. ASSUME NEW m \in nonce_data, TakeKind(m) PROVE BestInv'
  BY <1>6, BestTake DEF ScanInv
<1>7. ~StopKind
  BY SteadyStop DEF ScanInv
<1>8. QED
  BY <1>2, <1>3, <1>4, <1>5, <1>6, <1>7, Steps

\* A miner that scans each block undisturbed, with a single hashing thread and
\* the plots of one account.
Undisturbed ==
  ~Reorgs /\ AlwaysOpen /\ EndsPrepared /\ OneHasher /\ OneAccountOwns

LEMMA BestAlways == Spec => [](Undisturbed /\ SubmitOnlyBest => BestInv)
<1> DEFINE Kept == ~Reorgs /\ AlwaysOpen /\ EndsPrepared
           Good == Undisturbed /\ SubmitOnlyBest
           All == /\ TypeOK /\ (~Reorgs => CurrentInv) /\ ScanInv
                  /\ (Kept => SteadyInv) /\ (OneHasher => OrderInv)
<1>1. Init => BestInv
  BY DEF Init, BestInv
<1>2. All /\ All' /\ (Good => BestInv) /\ [Next]_vars => (Good => BestInv)'
  <2>1. Good' <=> Good
    BY DEF Undisturbed, AlwaysOpen, Synced, EndsPrepared, OneAccountOwns
  <2>2. Good => ~Reorgs /\ AlwaysOpen /\ EndsPrepared /\ SubmitOnlyBest
                /\ OneAccountOwns /\ OneHasher
    BY DEF Undisturbed
  <2>3. QED
    BY <2>1, <2>2, BestStep
<1>3. QED
  BY <1>1, <1>2, Typing, CurrentAlways, ScanAlways, SteadyAlways, OrderAlways,
     PTL DEF Spec

\* Once nothing of the first scan is left to read or handle, the best deadline
\* found for an account has been submitted (miner.rs:985-1055, 1107-1171):
\* always when every solution is submitted as it is found; with
\* submit_only_best when a single thread hashes the plots of one account and
\* nothing disturbs the scan.
THEOREM BestSubmitted ==
  Spec => [](~SubmitOnlyBest \/ Undisturbed => BestIsSubmitted)
<1> DEFINE Kept == ~Reorgs /\ AlwaysOpen /\ EndsPrepared
<1>1. ASSUME EachInv PROVE BestIsSubmitted
  BY <1>1 DEF EachInv, BestSent, BestIsSubmitted
<1>2. ASSUME TypeOK, SteadyInv, BestInv PROVE BestIsSubmitted
  <2> SUFFICES ASSUME reading.run = 1,
                      \A t \in tasks : t.run # reading.run,
                      \A m \in nonce_data : m.run # reading.run,
                      NEW a \in Accounts, state.account_id_to_best_deadline[a] # NoBest
               PROVE  BestSent(a)
    BY DEF BestIsSubmitted, BestSent
  <2>1. /\ best_nonce_data # NoNonce /\ best_nonce_data.height = state.height
        /\ reading.marked = Drives => BestSent(a)
    BY <1>2 DEF BestInv
  <2>2. state.block # 0
    BY <1>2, <2>1, HeightTypes DEF TypeOK
  <2>3. \A d \in Drives : d \in reading.marked
    BY <1>2, <2>2 DEF SteadyInv, Accounted, Ours, Marks
  <2>4. QED
    BY <1>2, <2>1, <2>3, RunTypes
<1>3. (Undisturbed => Kept) /\ (SubmitOnlyBest \/ ~SubmitOnlyBest)
  BY DEF Undisturbed
<1>4. /\ TypeOK /\ (Kept => SteadyInv) /\ (Undisturbed /\ SubmitOnlyBest => BestInv)
      /\ (~SubmitOnlyBest => EachInv)
      => (~SubmitOnlyBest \/ Undisturbed => BestIsSubmitted)
  BY <1>1, <1>2, <1>3
<1>5. QED
  BY <1>4, Typing, SteadyAlways, BestAlways, EachAlways, PTL
=============================================================================
