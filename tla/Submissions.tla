---------------------------- MODULE Submissions ----------------------------
(***************************************************************************)
(* The request handler's submission task (requests.rs) and the stream it    *)
(* reads, PrioRetry (future/prio_retry.rs), ordered by the Ord of           *)
(* SubmissionParameters (com/client.rs).                                    *)
(*                                                                          *)
(* submit_nonce sends into an unbounded channel.  The task asks PrioRetry   *)
(* for the next item; PrioRetry empties the channel, keeps the greatest     *)
(* item and puts every other one on a heap that nothing ever takes from,    *)
(* and yields the kept item once its delay has passed.  The task then does  *)
(* one request and, depending on the answer, confirms the item, gives it up *)
(* or sends it into the channel again.  While a request is under way the    *)
(* stream is not polled.                                                    *)
(*                                                                          *)
(* Left out: SUBMISSION_FAILED, which nothing reads but to clear it, what   *)
(* is logged, and the fields that only go into the request.  The clock is   *)
(* a flag that says whether the delay has passed.                           *)
(***************************************************************************)
EXTENDS Integers, Sequences, Functions

CONSTANTS
  Accounts, MaxDeadline, MaxBlock,
  Reorgs,       \* whether a solution's block may differ from the miner's
  MaxRetries    \* bound: items sent back into the channel

ASSUME SubmissionsAssumption ==
  /\ MaxDeadline \in Nat /\ MaxBlock \in Nat \ {0}
  /\ Reorgs \in BOOLEAN /\ MaxRetries \in Nat

Rounds == 1..MaxBlock

Params == [account_id : Accounts, block : Rounds, round : Rounds,
           deadline : 0..MaxDeadline]

NoParams == [block |-> 0]

VARIABLES
  round,              \* the miner's state.block
  submitted,          \* history: everything given to submit_nonce
  channel,            \* tx_submit_data to rx_submit_nonce_data
  delayed_item,       \* PrioRetry's delayed_item, NoParams if none
  elapsed,            \* whether PrioRetry's delay has passed
  buffer,             \* PrioRetry's buffer
  sub_par,            \* the item a request is under way for, NoParams if none
  attempted,          \* history: items a request was made for
  retries,            \* items sent back into the channel
  SUBMISSION_SUCCESS

prio == <<delayed_item, elapsed, buffer>>
vars == <<round, submitted, channel, prio, sub_par, attempted, retries,
          SUBMISSION_SUCCESS>>

TypeOK ==
  /\ round \in 0..MaxBlock
  /\ submitted \subseteq Params
  /\ channel \in Seq(Params)
  /\ delayed_item \in Params \cup {NoParams}
  /\ elapsed \in BOOLEAN
  /\ buffer \subseteq Params
  /\ sub_par \in Params \cup {NoParams}
  /\ attempted \subseteq Params
  /\ retries \in 0..MaxRetries
  /\ SUBMISSION_SUCCESS \in BOOLEAN

Init ==
  /\ round = 0
  /\ submitted = {} /\ channel = <<>>
  /\ delayed_item = NoParams /\ elapsed = FALSE /\ buffer = {}
  /\ sub_par = NoParams
  /\ attempted = {} /\ retries = 0
  /\ SUBMISSION_SUCCESS = FALSE

-----------------------------------------------------------------------------
(* The miner.                                                               *)

NewRound ==
  /\ round < MaxBlock
  /\ round' = round + 1
  /\ UNCHANGED <<submitted, channel, prio, sub_par, attempted, retries,
                 SUBMISSION_SUCCESS>>

\* p may be submitted next: Miner shows that it keeps to this (SubmissionQueue).
Improves(p) ==
  /\ p.round = round
  /\ Reorgs \/ p.block = round
  /\ \A q \in submitted :
       /\ p # q
       /\ q.round = round /\ q.account_id = p.account_id => p.deadline < q.deadline

submit_nonce(p) ==
  /\ Improves(p)
  /\ submitted' = submitted \cup {p}
  /\ channel' = Append(channel, p)
  /\ UNCHANGED <<round, prio, sub_par, attempted, retries,
                 SUBMISSION_SUCCESS>>

TakeSuccess ==
  /\ SUBMISSION_SUCCESS
  /\ SUBMISSION_SUCCESS' = FALSE
  /\ UNCHANGED <<round, submitted, channel, prio, sub_par, attempted, retries>>

-----------------------------------------------------------------------------
(* PrioRetry.                                                               *)

\* Mutated: the larger deadline wins.
Less_Reversed(p, q) ==
  \/ p.block < q.block
  \/ p.block = q.block /\ (p.round # q.round \/ p.deadline < q.deadline)

\* Ord::cmp is Ordering::Less.  It is never Equal, and of two items with
\* different generation signatures for one block either is Less.
Less(p, q) ==
  \/ p.block < q.block
  \/ p.block = q.block /\ (p.round # q.round \/ p.deadline > q.deadline)

Busy == sub_par # NoParams

Delay(p) == delayed_item' = p /\ elapsed' = FALSE

\* Mutated: an absent item is put aside like any other.
TakeItem_BuffersNone ==
  /\ ~Busy
  /\ channel # <<>>
  /\ channel' = Tail(channel)
  /\ LET new_item == Head(channel)
     IN  IF delayed_item # NoParams /\ Less(new_item, delayed_item)
         THEN buffer' = buffer \cup {new_item} /\ UNCHANGED <<delayed_item, elapsed>>
         ELSE buffer' = buffer \cup {delayed_item} /\ Delay(new_item)
  /\ UNCHANGED <<round, submitted, sub_par, attempted, retries,
                 SUBMISSION_SUCCESS>>

\* poll_next takes an item from the channel.
TakeItem ==
  /\ ~Busy
  /\ channel # <<>>
  /\ channel' = Tail(channel)
  /\ LET new_item == Head(channel)
     IN  IF delayed_item = NoParams
         THEN Delay(new_item) /\ UNCHANGED buffer
         ELSE IF Less(new_item, delayed_item)
         THEN buffer' = buffer \cup {new_item} /\ UNCHANGED <<delayed_item, elapsed>>
         ELSE buffer' = buffer \cup {delayed_item} /\ Delay(new_item)
  /\ UNCHANGED <<round, submitted, sub_par, attempted, retries,
                 SUBMISSION_SUCCESS>>

\* Mutated: only a new item wakes the task.
DelayPasses_NotWoken ==
  /\ ~elapsed
  /\ channel # <<>>
  /\ elapsed' = TRUE
  /\ UNCHANGED <<round, submitted, channel, delayed_item, buffer, sub_par, attempted,
                 retries, SUBMISSION_SUCCESS>>

DelayPasses ==
  /\ ~elapsed
  /\ elapsed' = TRUE
  /\ UNCHANGED <<round, submitted, channel, delayed_item, buffer, sub_par, attempted,
                 retries, SUBMISSION_SUCCESS>>

\* Mutated: does not empty the channel first.
Yield_Undrained ==
  /\ ~Busy
  /\ elapsed
  /\ delayed_item # NoParams
  /\ sub_par' = delayed_item
  /\ delayed_item' = NoParams
  /\ attempted' = attempted \cup {delayed_item}
  /\ UNCHANGED <<round, submitted, channel, elapsed, buffer, retries,
                 SUBMISSION_SUCCESS>>

\* Mutated: the yielded item is kept.
Yield_KeepsItem ==
  /\ ~Busy
  /\ channel = <<>>
  /\ elapsed
  /\ delayed_item # NoParams
  /\ sub_par' = delayed_item
  /\ attempted' = attempted \cup {delayed_item}
  /\ UNCHANGED <<round, submitted, channel, prio, retries,
                 SUBMISSION_SUCCESS>>

\* poll_next finds the channel empty and the delay passed; the task makes the
\* request for the item.
Yield ==
  /\ ~Busy
  /\ channel = <<>>
  /\ elapsed
  /\ delayed_item # NoParams
  /\ sub_par' = delayed_item
  /\ delayed_item' = NoParams
  /\ attempted' = attempted \cup {delayed_item}
  /\ UNCHANGED <<round, submitted, channel, elapsed, buffer, retries,
                 SUBMISSION_SUCCESS>>

-----------------------------------------------------------------------------
(* The end of a request.                                                    *)

RequestEnds ==
  /\ Busy
  /\ sub_par' = NoParams
  /\ UNCHANGED <<round, submitted, prio, attempted>>

\* Mutated: sends the confirmed item back.
Confirmed_Resends ==
  /\ RequestEnds
  /\ SUBMISSION_SUCCESS' = TRUE
  /\ retries < MaxRetries
  /\ retries' = retries + 1
  /\ channel' = Append(channel, sub_par)

\* "success", or a message that contains "already submit".
Confirmed ==
  /\ RequestEnds
  /\ SUBMISSION_SUCCESS' = TRUE
  /\ UNCHANGED <<channel, retries>>

\* Any other result, "limit exceeded", any other message; a success without a
\* message field too, which does not parse as a SubmitNonceResponse.
Refused ==
  /\ RequestEnds
  /\ UNCHANGED <<channel, retries, SUBMISSION_SUCCESS>>

TimedOut ==
  /\ RequestEnds
  /\ UNCHANGED <<channel, retries, SUBMISSION_SUCCESS>>

\* An empty answer, no connection, or another HTTP error.
Retried ==
  /\ RequestEnds
  /\ retries < MaxRetries
  /\ retries' = retries + 1
  /\ channel' = Append(channel, sub_par)
  /\ UNCHANGED <<SUBMISSION_SUCCESS>>

HandlerStep ==
  TakeItem \/ Yield \/ Confirmed \/ Refused \/ TimedOut \/ Retried

Next ==
  \/ NewRound
  \/ \E p \in Params : submit_nonce(p)
  \/ TakeSuccess
  \/ DelayPasses
  \/ HandlerStep

Spec == Init /\ [][Next]_vars

\* The executor runs the task, time passes, and a request ends at the latest
\* with its timeout.
FairSpec ==
  /\ Spec
  /\ WF_vars(DelayPasses)
  /\ WF_vars(HandlerStep)

-----------------------------------------------------------------------------
(* Properties.                                                              *)

One(p) == {p} \ {NoParams}

\* What the task still has to do.
queued == Range(channel) \cup One(delayed_item) \cup One(sub_par)

\* q makes up for p: it is of a later block, or for the same block no worse.
MakesUpFor(q, p) ==
  \/ q.block > p.block
  \/ q.block = p.block /\ q.deadline <= p.deadline

\* No item is in the task's hands twice, so none is confirmed or given up and
\* then sent again (requests.rs:281-293, 323-369: every way a request ends
\* either lets go of the item or sends it back, prio_retry.rs:61-78).
HeldOnce ==
  /\ \A i, j \in 1..Len(channel) : channel[i] = channel[j] => i = j
  /\ delayed_item \notin Range(channel)
  /\ sub_par \notin Range(channel)
  /\ Busy => delayed_item = NoParams

\* A request is never made for an older block than an earlier request, nor for
\* a worse deadline of the same block and account, whatever is retried and
\* whatever arrives while a request is under way (prio_retry.rs:60-86).
AttemptsOnlyImprove ==
  [][ ~Busy /\ Busy' =>
        \A q \in attempted :
          /\ sub_par'.block >= q.block
          /\ sub_par'.block = q.block /\ sub_par'.account_id = q.account_id
               => sub_par'.deadline <= q.deadline ]_vars

\* What PrioRetry puts aside for good is made up for by what it keeps or by
\* what was sent (prio_retry.rs:65-72, client.rs:31-34), and nothing else
\* disappears before it is sent.
NothingIsLost ==
  \A p \in submitted :
    \/ p \in queued
    \/ p \in attempted
    \/ \E q \in attempted \cup queued : q # p /\ MakesUpFor(q, p)

\* Time and again everything submitted has been sent to the annode, or something
\* that makes up for it: no order of new items and retries starves one.
IsAttempted ==
  []<>(\A p \in submitted : \E q \in attempted : MakesUpFor(q, p))

\* The task and its queue are what the miner counts on.
Queue == INSTANCE SubmissionQueue
QueueSpec == Queue!Spec
=============================================================================
