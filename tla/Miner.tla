------------------------------- MODULE Miner -------------------------------
(***************************************************************************)
(* The two asynchronous tasks of anne-miner and the state they share        *)
(* (miner.rs): the poll task asks the annode for mining info every interval *)
(* and starts or stops the plot readers, the nonce handler collects what    *)
(* the hashing workers found and hands solutions to the request handler.    *)
(* Each holds the state mutex for its whole body, so each body is one step. *)
(*                                                                          *)
(* The readers and workers (reader.rs, cpu_worker.rs) appear here as what   *)
(* these tasks can see of them: one task per drive and start_reading call   *)
(* that reads its plots in order, and the nonce data under way in any order *)
(* (hash tasks run on a pool); their buffers, channels and locks are left   *)
(* out.  The request handler appears as a set of queued submissions,        *)
(* each answered or given up at some later time (see Submissions).          *)
(*                                                                          *)
(* Left out: the fields `first` and `outage`, the stop watch and the        *)
(* progress log, and the flag SUBMISSION_FAILED, which only choose what is  *)
(* logged.  Deadlines are the adjusted ones (divided by 2000000000).        *)
(***************************************************************************)
EXTENDS Integers, FiniteSets, Sequences

CONSTANTS
  Mode,           \* mining_mode, "SOLO" or "SHARE"
  SubmitOnlyBest, \* submit_only_best
  Drives,         \* the keys of drive_id_to_plots
  PlotCount,      \* plots per drive, each read in one piece here
  Accounts,       \* account ids that own plots
  AccountOf,      \* [Drives \X (1..PlotCount) -> Accounts], Meta::account_id
  MaxDeadline,    \* u64::MAX / 2000000000, the largest adjusted deadline
  DeadlineOf,     \* best deadline a plot has for a block
  AccountTarget,  \* [Accounts -> ...], configured target deadline
  AnnodeTargets,  \* target deadlines the annode may send
  Statuses,       \* the [live, mining, share] statuses the annode may report
  OneHasher,      \* whether a single thread hashes (cpu_threads)
  Reorgs,         \* whether the height the annode reports may go down
  PrepareFaults,  \* <<drive, plot>> whose prepare may fail
  ReadFaults,     \* <<drive, plot>> whose read may fail
  MaxHeight,      \* bound: heights the annode reports
  MaxBlock,       \* bound: blocks seen
  MaxRuns         \* bound: calls of start_reading

NoBest == MaxDeadline + 1   \* u64::MAX, a deadline no adjusted one reaches
Plots == 1..PlotCount
Blocks == 1..MaxBlock
Heights == 1..MaxHeight
Deadlines == 0..MaxDeadline
Status == [live : BOOLEAN, mining : BOOLEAN, share : BOOLEAN]

ASSUME MinerAssumption ==
  /\ Mode \in {"SOLO", "SHARE"}
  /\ SubmitOnlyBest \in BOOLEAN
  /\ IsFiniteSet(Drives) /\ Drives # {}
  /\ PlotCount \in Nat \ {0}
  /\ MaxDeadline \in Nat
  /\ AccountOf \in [Drives \X Plots -> Accounts]
  /\ AccountTarget \in [Accounts -> 0..NoBest]
  /\ AnnodeTargets \subseteq 0..NoBest
  /\ Statuses \subseteq Status
  /\ Reorgs \in BOOLEAN /\ OneHasher \in BOOLEAN
  /\ PrepareFaults \subseteq Drives \X Plots
  /\ ReadFaults \subseteq Drives \X Plots
  /\ MaxHeight \in Nat \ {0} /\ MaxBlock \in Nat \ {0} /\ MaxRuns \in Nat
  /\ DeadlineOf \in [Blocks \X Drives \X Plots -> Deadlines]

VARIABLES
  state,              \* State, under its mutex
  best_nonce_data,    \* the nonce handler's own best solution so far
  tasks,              \* reader tasks that have not ended
  nonce_data,         \* nonce data between a reader's send and the handler
  submissions,        \* everything given to RequestHandler::submit_nonce, in order
  queued,             \* submissions the request handler still works on
  SHOULD_STOP_MINING,
  SUBMISSION_SUCCESS,
  reading             \* history: the last call of start_reading

vars == <<state, best_nonce_data, tasks, nonce_data, submissions, queued,
          SHOULD_STOP_MINING, SUBMISSION_SUCCESS, reading>>

-----------------------------------------------------------------------------
(* Types.  run and plot tell apart messages that carry equal data; scoop    *)
(* and hashed record how the deadline came about.                           *)

State ==
  [height : 0..MaxHeight, block : 0..MaxBlock, scoop : 0..MaxBlock,
   account_id_to_best_deadline : [Accounts -> 0..NoBest],
   annode_target_deadline : 0..NoBest,
   scanning : BOOLEAN, processed_reader_tasks : Nat,
   solo_mining_enabled : BOOLEAN, share_mining_enabled : BOOLEAN,
   submitted_for_this_block : BOOLEAN, finished_scanning : BOOLEAN]

Task ==
  [run : Nat, drive : Drives, next : Plots, interrupted : BOOLEAN,
   height : Heights, block : Blocks, scoop : 0..MaxBlock]

NonceData ==
  [run : Nat, drive : Drives, plot : Plots, scoop : 0..MaxBlock, hashed : BOOLEAN,
   height : Heights, block : Blocks, account_id : Accounts, deadline : Deadlines,
   reader_task_processed : BOOLEAN]

\* The handler's initial value of best_nonce_data, which it also resets to.
NoNonce == [height |-> 0]

\* What start_reading was last called with; again says that it had already
\* been called for that block, marked which drives' end-of-drive markers of
\* that call the handler has counted.
Reading ==
  [run : Nat, height : 0..MaxHeight, block : 0..MaxBlock, scoop : 0..MaxBlock,
   again : BOOLEAN, marked : SUBSET Drives]

\* A submission, and the block the miner was working on when it was made.
Submission == [nonce : NonceData, round : Blocks]

TypeOK ==
  /\ state \in State
  /\ state.block = 0 <=> state.height = 0
  /\ best_nonce_data \in NonceData \cup {NoNonce}
  /\ tasks \subseteq Task
  /\ nonce_data \subseteq NonceData
  /\ submissions \in Seq(Submission)
  /\ queued \subseteq Submission
  /\ SHOULD_STOP_MINING \in BOOLEAN
  /\ SUBMISSION_SUCCESS \in BOOLEAN
  /\ reading \in Reading

Init ==
  /\ state = [height |-> 0, block |-> 0, scoop |-> 0,
              account_id_to_best_deadline |-> [a \in Accounts |-> NoBest],
              annode_target_deadline |-> NoBest,
              scanning |-> FALSE, processed_reader_tasks |-> 0,
              solo_mining_enabled |-> FALSE, share_mining_enabled |-> FALSE,
              submitted_for_this_block |-> FALSE, finished_scanning |-> FALSE]
  /\ best_nonce_data = NoNonce
  /\ tasks = {} /\ nonce_data = {}
  /\ submissions = <<>> /\ queued = {}
  /\ SHOULD_STOP_MINING = FALSE
  /\ SUBMISSION_SUCCESS = FALSE
  /\ reading = [run |-> 0, height |-> 0, block |-> 0, scoop |-> 0,
                again |-> FALSE, marked |-> {}]

-----------------------------------------------------------------------------
(* State::update_mining_info, as a function of the state and the info.      *)

MiningInfo == [height : Heights, status : Statuses, target : AnnodeTargets]

\* Mutated: the count of ended drives survives the block.
ResetForNewBlock_KeepsCount(s) ==
  [s EXCEPT !.submitted_for_this_block = FALSE, !.finished_scanning = FALSE,
            !.block = @ + 1,
            !.account_id_to_best_deadline = [a \in Accounts |-> NoBest]]

\* Mutated: the block is not counted.
ResetForNewBlock_SameBlock(s) ==
  [s EXCEPT !.submitted_for_this_block = FALSE, !.finished_scanning = FALSE,
            !.processed_reader_tasks = 0,
            !.account_id_to_best_deadline = [a \in Accounts |-> NoBest]]

ResetForNewBlock(s) ==
  [s EXCEPT !.submitted_for_this_block = FALSE, !.finished_scanning = FALSE,
            !.processed_reader_tasks = 0, !.block = @ + 1,
            !.account_id_to_best_deadline = [a \in Accounts |-> NoBest]]

TakeInfo(s, info) ==
  LET solo == info.status.live /\ info.status.mining
  IN  [(IF info.height # s.height THEN ResetForNewBlock(s) ELSE s)
         EXCEPT !.height = info.height,
                !.annode_target_deadline = info.target,
                !.solo_mining_enabled = solo,
                !.share_mining_enabled = solo /\ info.status.share]

\* Mutated: the scoop is computed only for a scan that begins.
ResumeScanning_KeepsScoop(s) ==
  IF s.finished_scanning \/ s.scanning \/ s.submitted_for_this_block THEN s
  ELSE [s EXCEPT !.scoop = s.block, !.scanning = TRUE, !.processed_reader_tasks = 0]

\* Past the early returns the annode is LIVE and MINING, so the code's
\* "was_mining && !can_mine_now" branch is never taken.
ResumeScanning(s) ==
  LET scooped == [s EXCEPT !.scoop = s.block]
  IN  IF s.finished_scanning \/ s.scanning \/ s.submitted_for_this_block
      THEN scooped
      ELSE [scooped EXCEPT !.scanning = TRUE, !.processed_reader_tasks = 0]

update_mining_info(s, info) ==
  LET t == TakeInfo(s, info)
  IN  IF ~t.solo_mining_enabled THEN t
      ELSE IF Mode = "SHARE" /\ ~t.share_mining_enabled
           THEN [t EXCEPT !.scanning = FALSE]
           ELSE ResumeScanning(t)

-----------------------------------------------------------------------------
(* Reader::start_reading and stop_reading, as the state's owners see them.  *)

\* Each task has an interrupt channel of its own, and self.interupts holds the
\* senders of the last start only: tasks of earlier ones are not told again.
Interrupted(ts) ==
  {[t EXCEPT !.interrupted = @ \/ t.run = reading.run] : t \in ts}

NewTasks(run, height, block, scoop) ==
  {[run |-> run, drive |-> d, next |-> 1, interrupted |-> FALSE,
    height |-> height, block |-> block, scoop |-> scoop] : d \in Drives}

\* Mutated: interrupts when self.interupts holds the new tasks' senders.
start_reading_InterruptsLast(height, block, scoop) ==
  /\ reading.run < MaxRuns
  /\ tasks' = tasks \cup {[t EXCEPT !.interrupted = TRUE] :
                 t \in NewTasks(reading.run + 1, height, block, scoop)}
  /\ reading' = [run |-> reading.run + 1, height |-> height,
                 block |-> block, scoop |-> scoop,
                 again |-> reading.block = block, marked |-> {}]

\* Mutated: the tasks of the last start are not interrupted.
start_reading_NotInterrupting(height, block, scoop) ==
  /\ reading.run < MaxRuns
  /\ tasks' = tasks \cup NewTasks(reading.run + 1, height, block, scoop)
  /\ reading' = [run |-> reading.run + 1, height |-> height,
                 block |-> block, scoop |-> scoop,
                 again |-> reading.block = block, marked |-> {}]

start_reading(height, block, scoop) ==
  /\ reading.run < MaxRuns
  /\ tasks' = Interrupted(tasks) \cup NewTasks(reading.run + 1, height, block, scoop)
  /\ reading' = [run |-> reading.run + 1, height |-> height,
                 block |-> block, scoop |-> scoop,
                 again |-> reading.block = block, marked |-> {}]

stop_reading ==
  /\ tasks' = Interrupted(tasks)
  /\ UNCHANGED reading

KeepReading == UNCHANGED <<tasks, reading>>

-----------------------------------------------------------------------------
(* The poll task.                                                           *)

\* A confirmed submission is credited to the block now being worked on.
ConsumeSuccess(s) ==
  IF SUBMISSION_SUCCESS
  THEN [s EXCEPT !.submitted_for_this_block = TRUE, !.scanning = FALSE]
  ELSE s

PollNewHeight(s, info) ==
  LET u == update_mining_info(s, info)
  IN  /\ info.height # s.height
      /\ s.block < MaxBlock
      /\ state' = u
      /\ IF u.scanning THEN start_reading(info.height, u.block, u.scoop)
         ELSE KeepReading

\* Mutated: a finished round without a submission is not done.
RoundDone_Submitted(u) == u.submitted_for_this_block

RoundDone(u) == u.submitted_for_this_block \/ u.finished_scanning

ShareRefused(u, info) ==
  Mode = "SHARE" /\ ~u.share_mining_enabled /\ ~info.status.share

\* The three early returns of the same-height branch.
PollDone(s, info) ==
  LET u == update_mining_info(s, info)
  IN  /\ info.height = s.height
      /\ RoundDone(u) \/ ShareRefused(u, info)
      /\ state' = [u EXCEPT !.scanning = FALSE]
      /\ KeepReading

PollSameHeight(s, info) ==
  LET u == update_mining_info(s, info)
      emergency == Mode = "SHARE" /\ ~u.share_mining_enabled
      on == u.solo_mining_enabled /\ ~emergency
  IN  /\ info.height = s.height
      /\ ~RoundDone(u) /\ ~ShareRefused(u, info)
      /\ state' = [u EXCEPT !.scanning = on,
                            !.submitted_for_this_block = @ \/ emergency]
      /\ IF emergency THEN stop_reading
         ELSE IF on /\ ~s.scanning
         THEN start_reading(info.height, u.block, u.scoop)
         ELSE KeepReading

\* One interval tick whose request was answered.  A tick whose request failed
\* only sets `first` and `outage`.
Poll(info) ==
  LET s == ConsumeSuccess(state)
  IN  /\ info.height >= state.height \/ Reorgs
      /\ SHOULD_STOP_MINING' = ~info.status.mining
      /\ SUBMISSION_SUCCESS' = FALSE
      /\ \/ PollNewHeight(s, info)
         \/ PollDone(s, info)
         \/ PollSameHeight(s, info)
      /\ UNCHANGED <<best_nonce_data, nonce_data, submissions, queued>>

-----------------------------------------------------------------------------
(* A reader task and the hashing of what it read.                           *)

IsLast(t) == t.next = PlotCount

\* The task after its current plot.
Advanced(t) ==
  (tasks \ {t}) \cup (IF IsLast(t) THEN {} ELSE {[t EXCEPT !.next = @ + 1]})

\* The nonce data a hash task sends.  A reply without data makes one only when
\* it ends a drive, with deadline u64::MAX and nonce 0.
NonceOf(t, hashed) ==
  [run |-> t.run, drive |-> t.drive, plot |-> t.next, scoop |-> t.scoop,
   hashed |-> hashed, height |-> t.height, block |-> t.block,
   account_id |-> AccountOf[<<t.drive, t.next>>],
   deadline |-> IF hashed THEN DeadlineOf[<<t.block, t.drive, t.next>>]
                          ELSE MaxDeadline,
   reader_task_processed |-> IsLast(t)]

ReaderUnchanged ==
  UNCHANGED <<state, best_nonce_data, submissions, queued,
              SHOULD_STOP_MINING, SUBMISSION_SUCCESS, reading>>

ReaderStops(t) ==
  /\ SHOULD_STOP_MINING \/ t.interrupted
  /\ tasks' = tasks \ {t}
  /\ UNCHANGED nonce_data
  /\ ReaderUnchanged

\* "error preparing ... -> skip one round": the next plot, without a check of
\* the interrupt.
PrepareFails(t) ==
  /\ ~SHOULD_STOP_MINING
  /\ <<t.drive, t.next>> \in PrepareFaults
  /\ tasks' = Advanced(t)
  /\ UNCHANGED nonce_data
  /\ ReaderUnchanged

PlotRead(t) ==
  /\ ~SHOULD_STOP_MINING /\ ~t.interrupted
  /\ tasks' = Advanced(t)
  /\ nonce_data' = nonce_data \cup {NonceOf(t, TRUE)}
  /\ ReaderUnchanged

ReadFails(t) ==
  /\ ~SHOULD_STOP_MINING /\ ~t.interrupted
  /\ <<t.drive, t.next>> \in ReadFaults
  /\ tasks' = Advanced(t)
  /\ nonce_data' = nonce_data \cup (IF IsLast(t) THEN {NonceOf(t, FALSE)} ELSE {})
  /\ ReaderUnchanged

-----------------------------------------------------------------------------
(* The nonce handler.                                                       *)

\* Mutated: accepts data of an earlier height.
IsCurrent_OrEarlier(m) == m.height <= state.height

IsCurrent(m) == m.height = state.height

\* A SHARE miner whose share mining is disabled drops the data and stops.
HandlerStops(m) ==
  /\ Mode = "SHARE" /\ ~state.share_mining_enabled
  /\ state' = [state EXCEPT !.scanning = FALSE,
                            !.submitted_for_this_block = TRUE]
  /\ stop_reading
  /\ UNCHANGED <<best_nonce_data, submissions, queued>>

\* Data of another height.
HandlerForgets(m) ==
  /\ Mode = "SOLO" \/ state.share_mining_enabled
  /\ ~IsCurrent(m)
  /\ best_nonce_data' = IF m.height # best_nonce_data.height
                        THEN NoNonce ELSE best_nonce_data
  /\ KeepReading
  /\ UNCHANGED <<state, submissions, queued>>

\* Mutated: compares with the targets only.
Improves_Targets(s, m) ==
  /\ m.deadline < s.annode_target_deadline
  /\ m.deadline < AccountTarget[m.account_id]

\* Mutated: a deadline may equal the account's target.
Improves_AtTarget(s, m) ==
  /\ m.deadline < s.account_id_to_best_deadline[m.account_id]
  /\ m.deadline < s.annode_target_deadline
  /\ m.deadline <= AccountTarget[m.account_id]

Improves(s, m) ==
  /\ m.deadline < s.account_id_to_best_deadline[m.account_id]
  /\ m.deadline < s.annode_target_deadline
  /\ m.deadline < AccountTarget[m.account_id]

\* Mutated: the account's best deadline is not stored.
Improved_NotStored(s, m) ==
  LET first == Mode = "SHARE" /\ ~SubmitOnlyBest
  IN  [s EXCEPT !.scanning = @ /\ ~first,
                !.submitted_for_this_block = @ \/ first]

\* The state once m is the account's best solution.
Improved(s, m) ==
  LET first == Mode = "SHARE" /\ ~SubmitOnlyBest
  IN  [s EXCEPT !.account_id_to_best_deadline[m.account_id] = m.deadline,
                !.scanning = @ /\ ~first,
                !.submitted_for_this_block = @ \/ first]

\* Mutated: every marker from the last drive's on completes the round.
CompletesRound_OrMore(s, m) ==
  m.reader_task_processed /\ s.processed_reader_tasks + 1 >= Cardinality(Drives)

\* Mutated: one marker too many is waited for.
CompletesRound_OffByOne(s, m) ==
  m.reader_task_processed /\ s.processed_reader_tasks = Cardinality(Drives)

\* m ends the last drive.
CompletesRound(s, m) ==
  m.reader_task_processed /\ s.processed_reader_tasks + 1 = Cardinality(Drives)

\* The state once the marker in m, if it has one, is counted; sent says that
\* the best solution is submitted with it.
Counted(s, m, sent) ==
  IF ~m.reader_task_processed THEN s
  ELSE [s EXCEPT !.processed_reader_tasks = @ + 1,
                 !.finished_scanning = @ \/ CompletesRound(s, m),
                 !.scanning = @ /\ ~CompletesRound(s, m),
                 !.submitted_for_this_block = @ \/ sent]

HasBest(best) == best.height = state.height

\* RequestHandler::submit_nonce.
submit_nonce(n) ==
  LET x == [nonce |-> n, round |-> state.block]
  IN  /\ submissions' = Append(submissions, x)
      /\ queued' = queued \cup {x}

HandlerTakes(m) ==
  LET better == Improves(state, m)
      s == IF better THEN Improved(state, m) ELSE state
      best == IF better /\ SubmitOnlyBest THEN m ELSE best_nonce_data
      sendBest == /\ SubmitOnlyBest /\ CompletesRound(state, m)
                  /\ HasBest(best)
  IN  /\ Mode = "SOLO" \/ state.share_mining_enabled
      /\ IsCurrent(m)
      /\ state' = Counted(s, m, sendBest)
      /\ best_nonce_data' = best
      /\ IF better /\ ~SubmitOnlyBest THEN submit_nonce(m)
         ELSE IF sendBest THEN submit_nonce(best)
         ELSE UNCHANGED <<submissions, queued>>
      /\ reading' = IF m.reader_task_processed /\ m.run = reading.run
                    THEN [reading EXCEPT !.marked = @ \cup {m.drive}]
                    ELSE reading
      /\ UNCHANGED tasks

\* Hash tasks of several threads end in any order; a single thread keeps the
\* order of each reader task.
MayArrive(m) ==
  OneHasher => \A n \in nonce_data :
                 n.run = m.run /\ n.drive = m.drive => m.plot <= n.plot

HandleNonce(m) ==
  /\ MayArrive(m)
  /\ nonce_data' = nonce_data \ {m}
  /\ \/ HandlerStops(m)
     \/ HandlerForgets(m)
     \/ HandlerTakes(m)
  /\ UNCHANGED <<SHOULD_STOP_MINING, SUBMISSION_SUCCESS>>

-----------------------------------------------------------------------------
(* RequestHandler::handle_submissions, as the poll task sees it.            *)

\* "success" or "already submit" came back.
SubmissionConfirmed(x) ==
  /\ queued' = queued \ {x}
  /\ SUBMISSION_SUCCESS' = TRUE
  /\ UNCHANGED <<state, best_nonce_data, tasks, nonce_data, submissions,
                 SHOULD_STOP_MINING, reading>>

\* Refused, timed out, or displaced in the queue: not tried again.
SubmissionGivenUp(x) ==
  /\ queued' = queued \ {x}
  /\ UNCHANGED <<state, best_nonce_data, tasks, nonce_data, submissions,
                 SHOULD_STOP_MINING, SUBMISSION_SUCCESS, reading>>

-----------------------------------------------------------------------------
ReaderStep(t) ==
  ReaderStops(t) \/ PrepareFails(t) \/ PlotRead(t) \/ ReadFails(t)

Next ==
  \/ \E info \in MiningInfo : Poll(info)
  \/ \E t \in tasks : ReaderStep(t)
  \/ \E m \in nonce_data : HandleNonce(m)
  \/ \E x \in queued : SubmissionConfirmed(x) \/ SubmissionGivenUp(x)

Spec == Init /\ [][Next]_vars

\* The pool runs every reader and hash task, and the executor the handler.
\* Nothing is assumed of the annode: it may stop answering for good.
FairSpec ==
  /\ Spec
  /\ WF_vars(\E t \in tasks : ReaderStep(t))
  /\ WF_vars(\E m \in nonce_data : HandleNonce(m))

-----------------------------------------------------------------------------
(* Properties.                                                              *)

\* While the miner says it is scanning, the readers were last started for the
\* block it is working on (poll task, miner.rs:784-909): no path leaves
\* scanning set with only the previous block's readers running.
ScanningIsStarted ==
  state.scanning => reading.block = state.block /\ reading.height = state.height

\* Of the reader tasks not told to stop there is at most one per drive, all of
\* the last start, though each call only tells the tasks of the start before it
\* (reader.rs:47-56, 95-97, 136-157); and while the miner says it is scanning,
\* they read the block it is working on, whatever outages and returns from
\* update_mining_info came between (miner.rs:784-909).
OneRunAtATime ==
  \A t \in tasks : ~t.interrupted =>
    /\ t.run = reading.run
    /\ \A u \in tasks : ~u.interrupted /\ u.drive = t.drive => u = t
    /\ state.scanning => t.block = state.block /\ t.height = state.height

\* With submit_only_best a block is submitted for at most once, however often
\* its scan is interrupted and resumed and whatever markers of an interrupted
\* scan are still under way (miner.rs:1115-1171).
AtMostOneSubmission ==
  SubmitOnlyBest =>
    \A i, j \in 1..Len(submissions) :
      submissions[i].round = submissions[j].round => i = j

\* What the handler retains for the current height is its account's best
\* deadline of this block, so nothing worse is ever submitted at the end
\* (miner.rs:987-1055, 1127-1160).
RetainedIsBest ==
  (best_nonce_data # NoNonce /\ best_nonce_data.height = state.height) =>
    /\ best_nonce_data.block = state.block
    /\ best_nonce_data.deadline =
         state.account_id_to_best_deadline[best_nonce_data.account_id]

\* A submission is sent with the generation signature the state has then; it
\* was computed for that same block (miner.rs:987 compares heights only).
SubmissionsMatchRound ==
  \A i \in 1..Len(submissions) : submissions[i].nonce.block = submissions[i].round

\* Successive submissions of an account for one block get strictly better
\* (miner.rs:993-1016), also when a resumed scan finds the same nonces again.
SubmissionsImprove ==
  \A i, j \in 1..Len(submissions) :
    ( /\ i < j
      /\ submissions[i].round = submissions[j].round
      /\ submissions[i].nonce.account_id = submissions[j].nonce.account_id )
    => submissions[j].nonce.deadline < submissions[i].nonce.deadline

\* A block whose readers were started once is finished only when every drive's
\* end was counted, each drive once (miner.rs:1073-1117).
FinishedIsScanned ==
  state.finished_scanning /\ ~reading.again => reading.marked = Drives

\* Once a block is finished or submitted for, its plots are not read again
\* (miner.rs:252-272, 824-866): a step that starts readers starts them for a
\* block that was neither.
NoRescanWhenDone ==
  [][ reading'.run # reading.run =>
        \/ state'.block # state.block
        \/ ~state.finished_scanning /\ ~state.submitted_for_this_block ]_vars

\* "it scans them for each new block" (README.md:21): while the annode mines, a
\* round that is scanning has a reader at work or nonce data to handle, and is
\* not left with nothing that could finish it.
ScanningHasWork ==
  state.scanning /\ ~SHOULD_STOP_MINING =>
    \/ \E t \in tasks : t.run = reading.run
    \/ \E m \in nonce_data : m.run = reading.run

\* "submitting best solution after full scan" (miner.rs:1130, 1146): once
\* nothing of the first scan is left to read or handle, the best deadline found
\* for an account has been submitted.  (Later scans may be met by nonce data of
\* an interrupted one, see NoResultMeansNone.)
BestIsSubmitted ==
  ( /\ reading.run = 1
    /\ \A t \in tasks : t.run # reading.run
    /\ \A m \in nonce_data : m.run # reading.run ) =>
    \A a \in Accounts :
      LET best == state.account_id_to_best_deadline[a]
      IN  best # NoBest =>
            \E i \in 1..Len(submissions) :
              /\ submissions[i].round = state.block
              /\ submissions[i].nonce.deadline = best

\* Every scan that is started ends: the round is finished or submitted for, or
\* a new block takes its place.
RoundEnds ==
  \A b \in Blocks :
    (state.scanning /\ state.block = b) ~>
      (state.finished_scanning \/ state.submitted_for_this_block \/ state.block # b)

\* A submission as the request handler sees it.
Offered(x) ==
  [account_id |-> x.nonce.account_id, block |-> x.nonce.block, round |-> x.round,
   deadline |-> x.nonce.deadline]

offered == {Offered(submissions[i]) : i \in 1..Len(submissions)}
pending == {Offered(x) : x \in queued}

Queue == INSTANCE SubmissionQueue WITH submitted <- offered, queued <- pending

\* What the handler gives to the request handler, and when, is what
\* SubmissionQueue promises the latter: rounds in order and, within a round,
\* only better solutions of an account (miner.rs:985-1055, 1127-1160).
QueueSpec == Queue!Spec

\* "finished scanning, no result found" (miner.rs:259): a finished round
\* without a submission found no solution.
NoResultMeansNone ==
  state.finished_scanning /\ ~state.submitted_for_this_block =>
    \A a \in Accounts : state.account_id_to_best_deadline[a] = NoBest

\* "Already submitted ... for this height" (miner.rs:834, 856): the flag is
\* set only when something was submitted for the block.
SubmittedMeansSent ==
  state.submitted_for_this_block =>
    \E i \in 1..Len(submissions) : submissions[i].round = state.block

\* The end marker of a drive whose last read failed passes for a solution only
\* when its account has no target (u64::MAX, the default), and only as the first
\* of the account's submissions for a block: it never follows, and so never
\* replaces at the request handler, a solution computed from plot data
\* (cpu_worker.rs:50-63, miner.rs:985-1000).
UnreadIsLastResort ==
  \A i \in 1..Len(submissions) :
    LET n == submissions[i].nonce
    IN  ~n.hashed =>
          /\ AccountTarget[n.account_id] = NoBest
          /\ \A j \in 1..(i - 1) :
               submissions[j].round = submissions[i].round =>
                 submissions[j].nonce.account_id # n.account_id

\* A scan is started with the scoop of its block, which update_mining_info
\* computes past its early returns (miner.rs:184-244): only the poll that first
\* sees a block can start one with the scoop of an earlier block, and only in
\* grace mode or while the annode is not MINING (miner.rs:784-800).  Every scan
\* that resumes one of these reads the block's own.
ScansUseScoop ==
  [][ reading'.run # reading.run =>
        \/ reading'.scoop = reading'.block
        \/ state'.block # state.block /\ ~state'.solo_mining_enabled ]_vars
=============================================================================
