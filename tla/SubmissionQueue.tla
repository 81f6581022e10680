-------------------------- MODULE SubmissionQueue --------------------------
(***************************************************************************)
(* What the miner and its request handler promise each other about the      *)
(* solutions that RequestHandler::submit_nonce hands over (requests.rs,     *)
(* miner.rs).  The miner hands over rounds in order and, within a round,    *)
(* only solutions that beat the account's earlier ones.  The request        *)
(* handler keeps each until the annode confirms it or it is given up, and   *)
(* it never takes one up again.  Miner is shown to keep the first half,     *)
(* Submissions to implement the whole.                                      *)
(***************************************************************************)
EXTENDS Integers

CONSTANTS
  Accounts,     \* account ids
  MaxDeadline,  \* the largest adjusted deadline
  MaxBlock      \* bound: blocks seen

Rounds == 1..MaxBlock

\* What a SubmissionParameters says here; round stands for gen_sig, which is
\* that of the block the miner is on.
Params == [account_id : Accounts, block : Rounds, round : Rounds,
           deadline : 0..MaxDeadline]

VARIABLES
  submitted,         \* history: everything handed over
  queued,            \* what the request handler still has to do
  SUBMISSION_SUCCESS

vars == <<submitted, queued, SUBMISSION_SUCCESS>>

Init == submitted = {} /\ queued = {} /\ SUBMISSION_SUCCESS = FALSE

\* p is of no earlier round than q and better than q if it replaces it.
Follows(p, q) ==
  \/ q.round < p.round
  \/ q.round = p.round /\ (q.account_id = p.account_id => p.deadline < q.deadline)

submit_nonce(p) ==
  /\ \A q \in submitted : Follows(p, q) /\ p # q
  /\ submitted' = submitted \cup {p}
  /\ queued' = queued \cup {p}
  /\ UNCHANGED SUBMISSION_SUCCESS

Confirm(p) ==
  /\ queued' = queued \ {p}
  /\ SUBMISSION_SUCCESS' = TRUE
  /\ UNCHANGED submitted

GiveUp(p) ==
  /\ queued' = queued \ {p}
  /\ UNCHANGED <<submitted, SUBMISSION_SUCCESS>>

\* The poll task reads and clears the flag.
TakeSuccess ==
  /\ SUBMISSION_SUCCESS' = FALSE
  /\ UNCHANGED <<submitted, queued>>

Next ==
  \/ \E p \in Params : submit_nonce(p)
  \/ \E p \in queued : Confirm(p) \/ GiveUp(p)
  \/ TakeSuccess

Spec == Init /\ [][Next]_vars
=============================================================================
