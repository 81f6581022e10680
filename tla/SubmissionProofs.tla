-------------------------- MODULE SubmissionProofs --------------------------
(***************************************************************************)
(* Proved of Submissions for every set of accounts, every bound and any     *)
(* number of retries: types, that no item is held twice, that it implements *)
(* SubmissionQueue, and, while a solution's block is the miner's, that      *)
(* requests only improve and that nothing is lost.                          *)
(***************************************************************************)
EXTENDS Submissions, SequenceTheorems, TLAPS

LEMMA NoParamsIsNone == NoParams \notin Params
BY DEF NoParams, Params, Rounds

LEMMA AppendRange ==
  ASSUME NEW S, NEW s \in Seq(S), NEW x \in S
  PROVE  /\ Append(s, x) \in Seq(S)
         /\ Range(Append(s, x)) = Range(s) \cup {x}
         /\ Len(Append(s, x)) = Len(s) + 1
         /\ \A i \in 1..Len(s) : Append(s, x)[i] = s[i]
         /\ Append(s, x)[Len(s) + 1] = x
<1>1. /\ Append(s, x) \in Seq(S)
      /\ Len(Append(s, x)) = Len(s) + 1
      /\ \A i \in 1..Len(s) : Append(s, x)[i] = s[i]
      /\ Append(s, x)[Len(s) + 1] = x
  BY AppendProperties
<1>2. Range(Append(s, x)) = {Append(s, x)[i] : i \in 1..Len(Append(s, x))}
  BY <1>1, RangeEquality
<1>3. Range(s) = {s[i] : i \in 1..Len(s)}
  BY RangeEquality
<1>4. Len(s) \in Nat
  OBVIOUS
<1>5. Range(Append(s, x)) \subseteq Range(s) \cup {x}
  BY <1>1, <1>2, <1>3, <1>4
<1>6. Range(s) \cup {x} \subseteq Range(Append(s, x))
  BY <1>1, <1>2, <1>3, <1>4
<1>7. QED
  BY <1>1, <1>5, <1>6

LEMMA TailRange ==
  ASSUME NEW S, NEW s \in Seq(S), s # <<>>
  PROVE  /\ Head(s) \in S /\ Tail(s) \in Seq(S)
         /\ Range(s) = Range(Tail(s)) \cup {Head(s)}
         /\ Len(Tail(s)) = Len(s) - 1 /\ Len(s) \in Nat \ {0}
         /\ Head(s) = s[1]
         /\ \A i \in 1..Len(Tail(s)) : Tail(s)[i] = s[i + 1]
<1>1. /\ Head(s) \in S /\ Tail(s) \in Seq(S)
      /\ Len(Tail(s)) = Len(s) - 1 /\ Len(s) \in Nat \ {0}
      /\ \A i \in 1..Len(Tail(s)) : Tail(s)[i] = s[i + 1]
  BY HeadTailProperties, EmptySeq
<1>2. Head(s) = s[1]
  OBVIOUS
<1>3. Range(Tail(s)) = {Tail(s)[i] : i \in 1..Len(Tail(s))}
  BY <1>1, RangeEquality
<1>4. Range(s) = {s[i] : i \in 1..Len(s)}
  BY RangeEquality
<1>5. Range(Tail(s)) \cup {Head(s)} \subseteq Range(s)
  BY <1>1, <1>2, <1>3, <1>4
<1>6. ASSUME NEW i \in 1..Len(s) PROVE s[i] \in Range(Tail(s)) \cup {Head(s)}
  <2>1. CASE i = 1
    BY <1>2, <2>1
  <2>2. CASE i # 1
    <3>1. i - 1 \in 1..Len(Tail(s))
      BY <1>1, <2>2
    <3>2. Tail(s)[i - 1] = s[i]
      BY <1>1, <3>1
    <3>3. QED
      BY <1>3, <3>1, <3>2
  <2>3. QED
    BY <2>1, <2>2
<1>7. QED
  BY <1>1, <1>2, <1>4, <1>5, <1>6

-----------------------------------------------------------------------------
(* Types.                                                                   *)

LEMMA TypeStep == TypeOK /\ [Next]_vars => TypeOK'
<1> SUFFICES ASSUME TypeOK, [Next]_vars PROVE TypeOK'
  OBVIOUS
<1> USE DEF TypeOK
<1>0. MaxBlock \in Nat \ {0} /\ MaxRetries \in Nat
  BY SubmissionsAssumption
<1>1. CASE NewRound
  <2>1. round + 1 \in 0..MaxBlock
    BY <1>0, <1>1 DEF NewRound
  <2>2. QED
    BY <1>1, <2>1 DEF NewRound, prio
<1>2. ASSUME NEW p \in Params, submit_nonce(p) PROVE TypeOK'
  <2>1. Append(channel, p) \in Seq(Params)
    BY AppendRange
  <2>2. QED
    BY <1>2, <2>1 DEF submit_nonce, prio
<1>3. CASE TakeSuccess
  BY <1>3 DEF TakeSuccess, prio
<1>4. CASE DelayPasses
  BY <1>4 DEF DelayPasses
<1>5. CASE TakeItem
  <2>1. Head(channel) \in Params /\ Tail(channel) \in Seq(Params)
    BY <1>5, TailRange DEF TakeItem
  <2>2. CASE delayed_item = NoParams
    BY <1>5, <2>1, <2>2 DEF TakeItem, Delay
  <2>3. CASE delayed_item # NoParams /\ Less(Head(channel), delayed_item)
    BY <1>5, <2>1, <2>3 DEF TakeItem
  <2>4. CASE delayed_item # NoParams /\ ~Less(Head(channel), delayed_item)
    BY <1>5, <2>1, <2>4 DEF TakeItem, Delay
  <2>5. QED
    BY <2>2, <2>3, <2>4
<1>6. CASE Yield
  BY <1>6 DEF Yield
<1>7. CASE Confirmed
  BY <1>7 DEF Confirmed, RequestEnds, Busy, prio
<1>8. CASE Refused
  BY <1>8 DEF Refused, RequestEnds, Busy, prio
<1>9. CASE TimedOut
  BY <1>9 DEF TimedOut, RequestEnds, Busy, prio
<1>10. CASE Retried
  <2>1. sub_par \in Params
    BY <1>10 DEF Retried, RequestEnds, Busy
  <2>2. Append(channel, sub_par) \in Seq(Params)
    BY <2>1, AppendRange
  <2>3. retries + 1 \in 0..MaxRetries
    BY <1>0, <1>10 DEF Retried
  <2>4. QED
    BY <1>10, <2>2, <2>3 DEF Retried, RequestEnds, prio
<1>11. CASE UNCHANGED vars
  BY <1>11 DEF vars, prio
<1>12. QED
  BY <1>1, <1>2, <1>3, <1>4, <1>5, <1>6, <1>7, <1>8, <1>9, <1>10, <1>11
     DEF Next, HandlerStep

LEMMA TypeInit == Init => TypeOK
<1> SUFFICES ASSUME Init PROVE TypeOK
  OBVIOUS
<1>1. channel \in Seq(Params)
  BY EmptySeq DEF Init
<1>2. round \in 0..MaxBlock /\ retries \in 0..MaxRetries
  BY SubmissionsAssumption DEF Init
<1>3. /\ submitted = {} /\ buffer = {} /\ attempted = {}
      /\ delayed_item = NoParams /\ sub_par = NoParams
      /\ elapsed = FALSE /\ SUBMISSION_SUCCESS = FALSE
  BY DEF Init
<1>4. QED
  BY <1>1, <1>2, <1>3 DEF TypeOK

\* Everything the task holds keeps its type.
THEOREM Typing == Spec => []TypeOK
BY TypeInit, TypeStep, PTL DEF Spec
-----------------------------------------------------------------------------
(* What the task holds.                                                     *)

HeldInv ==
  /\ HeldOnce
  /\ queued \subseteq submitted
  /\ attempted \subseteq submitted
  /\ Busy => sub_par \in attempted
  /\ \A p \in submitted : p.round <= round

\* The steps, told by what becomes of the items held.
NewKind(p) ==
  /\ submit_nonce(p)
  /\ queued' = queued \cup {p}
  /\ UNCHANGED <<round, attempted>>

\* Of two items held, one is put aside for the other.
DisplaceKind ==
  /\ \E kept \in queued, lost \in queued :
       /\ kept # lost
       /\ Less(lost, kept) \/ ~Less(kept, lost)
       /\ queued' = queued \ {lost}
       /\ kept \in queued'
  /\ UNCHANGED <<round, submitted, attempted, sub_par, SUBMISSION_SUCCESS>>

YieldKind ==
  /\ ~Busy /\ Busy'
  /\ queued = {sub_par'} /\ queued' = queued
  /\ attempted' = attempted \cup {sub_par'}
  /\ UNCHANGED <<round, submitted, SUBMISSION_SUCCESS>>

\* The item a request was made for is let go.
EndKind ==
  /\ Busy /\ ~Busy'
  /\ queued' = queued \ {sub_par}
  /\ SUBMISSION_SUCCESS' = SUBMISSION_SUCCESS \/ SUBMISSION_SUCCESS' = TRUE
  /\ UNCHANGED <<round, submitted, attempted>>

SameKind ==
  /\ queued' = queued
  /\ round' \in {round, round + 1}
  /\ Busy' => Busy /\ sub_par' = sub_par
  /\ SUBMISSION_SUCCESS' = SUBMISSION_SUCCESS \/ SUBMISSION_SUCCESS' = FALSE
  /\ UNCHANGED <<submitted, attempted>>

LEMMA TakeSteps ==
  ASSUME TypeOK, HeldOnce, TakeItem
  PROVE  HeldOnce' /\ (SameKind \/ DisplaceKind)
<1> DEFINE new == Head(channel)
<1>1. /\ new \in Params /\ Tail(channel) \in Seq(Params)
      /\ Range(channel) = Range(Tail(channel)) \cup {new}
      /\ Len(Tail(channel)) = Len(channel) - 1 /\ Len(channel) \in Nat \ {0}
      /\ new = channel[1]
      /\ \A i \in 1..Len(Tail(channel)) : Tail(channel)[i] = channel[i + 1]
  BY TailRange DEF TypeOK, TakeItem
<1>2. channel' = Tail(channel) /\ ~Busy /\ sub_par' = sub_par /\ sub_par = NoParams
  BY DEF TakeItem, Busy
<1>3. \A i, j \in 1..Len(channel') : channel'[i] = channel'[j] => i = j
  <2>1. \A i \in 1..Len(channel') : i + 1 \in 1..Len(channel) /\ i \in Nat
    BY <1>1, <1>2
  <2>2. QED
    BY <1>1, <1>2, <2>1 DEF HeldOnce
<1>4. new \notin Range(channel')
  <2>0. channel' \in Seq(Params)
    BY <1>1, <1>2
  <2>1. Range(channel') = {channel'[i] : i \in 1..Len(channel')}
    BY <2>0, RangeEquality
  <2>2. \A i \in 1..Len(channel') :
          i + 1 \in 1..Len(channel) /\ i + 1 # 1 /\ 1 \in 1..Len(channel)
    BY <1>1, <1>2
  <2>3. \A i \in 1..Len(channel') : channel'[i] # new
    BY <1>1, <1>2, <2>2 DEF HeldOnce
  <2>4. QED
    BY <2>1, <2>3
<1>5. NoParams \notin Range(channel) /\ NoParams \notin Range(channel')
  BY <1>1, <1>2, NoParamsIsNone, RangeOfSeq DEF TypeOK
<1>6. new # NoParams
  BY <1>1, NoParamsIsNone
<1>7. /\ queued = Range(channel') \cup {new} \cup One(delayed_item)
      /\ queued' = Range(channel') \cup One(delayed_item')
      /\ Range(channel') \subseteq Range(channel)
  BY <1>1, <1>2, <1>5 DEF queued, One
<1>8. UNCHANGED <<round, submitted, attempted, sub_par, SUBMISSION_SUCCESS>>
  BY DEF TakeItem
<1>9. CASE delayed_item = NoParams
  <2>1. delayed_item' = new
    BY <1>9 DEF TakeItem, Delay
  <2>2. queued' = queued
    BY <1>7, <1>9, <2>1, <1>6 DEF One
  <2>3. HeldOnce'
    BY <1>2, <1>3, <1>4, <1>5, <2>1 DEF HeldOnce, Busy
  <2>4. SameKind
    BY <1>2, <1>8, <2>2 DEF SameKind, Busy
  <2>5. QED
    BY <2>3, <2>4
<1>10. CASE delayed_item # NoParams
  <2>1. /\ delayed_item \notin Range(channel)
        /\ delayed_item # new
        /\ new \in Range(channel) /\ new \notin Range(channel')
        /\ delayed_item \notin Range(channel')
    BY <1>1, <1>4, <1>7 DEF HeldOnce
  <2>2. queued = Range(channel') \cup {new, delayed_item}
    BY <1>7, <1>10 DEF One
  <2>3. CASE Less(new, delayed_item)
    <3>1. delayed_item' = delayed_item
      BY <1>10, <2>3 DEF TakeItem
    <3>2. queued' = queued \ {new} /\ delayed_item \in queued'
      BY <1>7, <1>10, <2>1, <2>2, <3>1 DEF One
    <3>3. HeldOnce'
      BY <1>2, <1>3, <1>5, <2>1, <3>1 DEF HeldOnce, Busy
    <3>4. DisplaceKind
      BY <1>8, <2>1, <2>2, <2>3, <3>2 DEF DisplaceKind
    <3>5. QED
      BY <3>3, <3>4
  <2>4. CASE ~Less(new, delayed_item)
    <3>1. delayed_item' = new
      BY <1>10, <2>4 DEF TakeItem, Delay
    <3>2. queued' = queued \ {delayed_item} /\ new \in queued'
      BY <1>6, <1>7, <2>1, <2>2, <3>1 DEF One
    <3>3. HeldOnce'
      BY <1>2, <1>3, <1>4, <1>5, <3>1 DEF HeldOnce, Busy
    <3>4. DisplaceKind
      BY <1>8, <2>1, <2>2, <2>4, <3>2 DEF DisplaceKind
    <3>5. QED
      BY <3>3, <3>4
  <2>5. QED
    BY <2>3, <2>4
<1>11. QED
  BY <1>9, <1>10

LEMMA HeldUnchanged ==
  ASSUME HeldOnce, UNCHANGED <<channel, delayed_item, sub_par>>
  PROVE  HeldOnce' /\ queued' = queued /\ (Busy' <=> Busy)
BY DEF HeldOnce, Busy, queued, One

LEMMA AppendHeld ==
  ASSUME TypeOK, HeldOnce, NEW p \in Params, p \notin Range(channel),
         channel' = Append(channel, p),
         delayed_item' = delayed_item, delayed_item # p,
         sub_par' = sub_par \/ sub_par' = NoParams, sub_par' # p
  PROVE  HeldOnce' /\ Range(channel') = Range(channel) \cup {p}
<1>1. /\ channel \in Seq(Params) /\ channel' \in Seq(Params)
      /\ Range(channel') = Range(channel) \cup {p}
      /\ Len(channel') = Len(channel) + 1
      /\ \A i \in 1..Len(channel) : channel'[i] = channel[i]
      /\ channel'[Len(channel) + 1] = p
  BY AppendRange DEF TypeOK
<1>2. Len(channel) \in Nat /\ Range(channel) = {channel[i] : i \in 1..Len(channel)}
  BY <1>1, RangeEquality
<1>3. \A i \in 1..Len(channel') : i \in 1..Len(channel) \/ i = Len(channel) + 1
  BY <1>1, <1>2
<1>4. \A i \in 1..Len(channel) : channel[i] # p
  BY <1>2
<1>5. \A i, j \in 1..Len(channel') : channel'[i] = channel'[j] => i = j
  BY <1>1, <1>3, <1>4 DEF HeldOnce
<1>6. NoParams \notin Range(channel')
  BY <1>1, NoParamsIsNone, RangeOfSeq
<1>7. QED
  BY <1>1, <1>5, <1>6 DEF HeldOnce, Busy

LEMMA Steps ==
  ASSUME TypeOK, HeldInv, [Next]_vars
  PROVE  /\ HeldOnce'
         /\ \/ \E p \in Params : NewKind(p)
            \/ DisplaceKind
            \/ YieldKind
            \/ EndKind
            \/ SameKind
<1>0. HeldOnce /\ round \in Int
  BY DEF HeldInv, TypeOK
<1>1. CASE NewRound \/ TakeSuccess \/ DelayPasses \/ UNCHANGED vars
  <2>1. UNCHANGED <<channel, delayed_item, sub_par>>
    BY <1>1 DEF NewRound, TakeSuccess, DelayPasses, vars, prio
  <2>2. HeldOnce' /\ queued' = queued /\ (Busy' <=> Busy)
    BY <1>0, <2>1, HeldUnchanged
  <2>3. SameKind
    BY <1>1, <2>2 DEF SameKind, NewRound, TakeSuccess, DelayPasses, vars, prio
  <2>4. QED
    BY <2>2, <2>3
<1>2. ASSUME NEW p \in Params, submit_nonce(p) PROVE HeldOnce' /\ NewKind(p)
  <2>1. p \notin queued
    BY <1>2 DEF HeldInv, submit_nonce, Improves
  <2>2. /\ p \notin Range(channel) /\ p # NoParams
        /\ delayed_item # p /\ sub_par # p
    BY <2>1, NoParamsIsNone DEF queued, One
  <2>3. /\ channel' = Append(channel, p)
        /\ UNCHANGED <<round, attempted, delayed_item, sub_par>>
    BY <1>2 DEF submit_nonce, prio
  <2>4. HeldOnce' /\ Range(channel') = Range(channel) \cup {p}
    BY <1>0, <2>2, <2>3, AppendHeld
  <2>5. queued' = queued \cup {p}
    BY <2>3, <2>4 DEF queued, One
  <2>6. QED
    BY <1>2, <2>3, <2>4, <2>5 DEF NewKind
<1>3. CASE TakeItem
  BY <1>0, <1>3, TakeSteps
<1>4. CASE Yield
  <2>1. /\ channel = <<>> /\ channel' = channel /\ ~Busy
        /\ delayed_item # NoParams /\ sub_par = NoParams
        /\ sub_par' = delayed_item /\ delayed_item' = NoParams
        /\ attempted' = attempted \cup {delayed_item}
        /\ UNCHANGED <<round, submitted, SUBMISSION_SUCCESS>>
    BY <1>4 DEF Yield, Busy
  <2>2. Range(channel) = {}
    BY <2>1 DEF Range
  <2>3. Range(channel') = {}
    BY <2>1, <2>2
  <2>4. queued = {sub_par'} /\ queued' = queued
    BY <2>1, <2>2, <2>3 DEF queued, One
  <2>5. HeldOnce'
    BY <1>0, <2>1, <2>3 DEF HeldOnce, Busy
  <2>6. YieldKind
    BY <2>1, <2>4 DEF YieldKind, Busy
  <2>7. QED
    BY <2>5, <2>6
<1>5. CASE Confirmed \/ Refused \/ TimedOut
  <2>1. /\ channel' = channel /\ Busy /\ sub_par' = NoParams
        /\ delayed_item' = delayed_item
        /\ UNCHANGED <<round, submitted, attempted>>
        /\ SUBMISSION_SUCCESS' = SUBMISSION_SUCCESS \/ SUBMISSION_SUCCESS' = TRUE
    BY <1>5 DEF Confirmed, Refused, TimedOut, RequestEnds, prio
  <2>2. delayed_item = NoParams /\ sub_par \notin Range(channel) /\ sub_par # NoParams
    BY <1>0, <2>1 DEF HeldOnce, Busy
  <2>3. NoParams \notin Range(channel)
    BY NoParamsIsNone, RangeOfSeq DEF TypeOK
  <2>4. queued' = queued \ {sub_par}
    BY <2>1, <2>2 DEF queued, One
  <2>5. HeldOnce'
    BY <1>0, <2>1, <2>3 DEF HeldOnce, Busy
  <2>6. EndKind
    BY <2>1, <2>4 DEF EndKind, Busy
  <2>7. QED
    BY <2>5, <2>6
<1>6. CASE Retried
  <2>1. /\ channel' = Append(channel, sub_par) /\ Busy /\ sub_par' = NoParams
        /\ delayed_item' = delayed_item
        /\ UNCHANGED <<round, submitted, attempted, SUBMISSION_SUCCESS>>
    BY <1>6 DEF Retried, RequestEnds, prio
  <2>2. /\ delayed_item = NoParams /\ sub_par \notin Range(channel)
        /\ sub_par # NoParams /\ sub_par \in Params
    BY <1>0, <2>1 DEF HeldOnce, Busy, TypeOK
  <2>3. HeldOnce' /\ Range(channel') = Range(channel) \cup {sub_par}
    BY <1>0, <2>1, <2>2, AppendHeld
  <2>4. queued' = queued
    BY <2>1, <2>2, <2>3 DEF queued, One
  <2>5. SameKind
    BY <2>1, <2>4 DEF SameKind, Busy
  <2>6. QED
    BY <2>3, <2>5
<1>7. QED
  BY <1>1, <1>2, <1>3, <1>4, <1>5, <1>6 DEF Next, HandlerStep

LEMMA HeldStep == TypeOK /\ HeldInv /\ [Next]_vars => HeldInv'
<1> SUFFICES ASSUME TypeOK, HeldInv, [Next]_vars PROVE HeldInv'
  OBVIOUS
<1>1. HeldOnce'
  BY Steps
<1>2. round \in Nat /\ \A p \in submitted : p.round \in Nat
  BY SubmissionsAssumption DEF TypeOK, Params, Rounds
<1>3. ASSUME NEW p \in Params, NewKind(p) PROVE HeldInv'
  <2>1. /\ submitted' = submitted \cup {p} /\ sub_par' = sub_par
        /\ p.round = round
    BY <1>3 DEF NewKind, submit_nonce, Improves, prio
  <2>2. QED
    BY <1>1, <1>2, <1>3, <2>1 DEF NewKind, HeldInv, Busy
<1>4. CASE DisplaceKind
  BY <1>1, <1>4 DEF DisplaceKind, HeldInv, Busy
<1>5. CASE YieldKind
  BY <1>1, <1>5 DEF YieldKind, HeldInv, Busy
<1>6. CASE EndKind
  BY <1>1, <1>6 DEF EndKind, HeldInv
<1>7. CASE SameKind
  <2>1. \A p \in submitted : p.round <= round'
    BY <1>2, <1>7 DEF SameKind, HeldInv
  <2>2. QED
    BY <1>1, <1>7, <2>1 DEF SameKind, HeldInv, Busy
<1>8. QED
  BY <1>3, <1>4, <1>5, <1>6, <1>7, Steps

LEMMA HeldInit == Init => HeldInv
<1> SUFFICES ASSUME Init PROVE HeldInv
  OBVIOUS
<1>1. /\ channel = <<>> /\ delayed_item = NoParams /\ sub_par = NoParams
      /\ attempted = {} /\ submitted = {}
  BY DEF Init
<1>2. Len(channel) = 0 /\ Range(channel) = {}
  BY <1>1 DEF Range
<1>3. HeldOnce
  BY <1>1, <1>2 DEF HeldOnce, Busy
<1>4. queued = {}
  BY <1>1, <1>2 DEF queued, One
<1>5. QED
  BY <1>1, <1>3, <1>4 DEF HeldInv, Busy

\* No item is held twice, at whatever point of a request or retry.
THEOREM Once == Spec => []HeldOnce
<1>1. HeldInv => HeldOnce
  BY DEF HeldInv
<1>2. QED
  BY <1>1, TypeInit, TypeStep, HeldInit, HeldStep, PTL DEF Spec

-----------------------------------------------------------------------------
(* It implements SubmissionQueue.                                           *)

LEMMA QueueStep == TypeOK /\ HeldInv /\ [Next]_vars => [Queue!Next]_(Queue!vars)
<1> SUFFICES ASSUME TypeOK, HeldInv, [Next]_vars PROVE [Queue!Next]_(Queue!vars)
  OBVIOUS
<1>1. ASSUME NEW p \in Params, NewKind(p) PROVE Queue!submit_nonce(p)
  <2>1. round \in Nat /\ \A q \in submitted : q.round \in Nat
    BY SubmissionsAssumption DEF TypeOK, Params, Rounds
  <2>2. p.round = round /\ \A q \in submitted : q.round <= round
    BY <1>1 DEF NewKind, submit_nonce, Improves, HeldInv
  <2>3. \A q \in submitted : p # q /\ Queue!Follows(p, q)
    BY <1>1, <2>1, <2>2 DEF NewKind, submit_nonce, Improves, Queue!Follows
  <2>4. QED
    BY <1>1, <2>3 DEF NewKind, submit_nonce, Queue!submit_nonce
<1>2. CASE DisplaceKind
  <2>1. \E lost \in queued : Queue!GiveUp(lost)
    BY <1>2 DEF DisplaceKind, Queue!GiveUp
  <2>2. QED
    BY <2>1 DEF Queue!Next
<1>3. CASE YieldKind
  BY <1>3 DEF YieldKind, Queue!vars
<1>4. CASE EndKind
  <2>1. sub_par \in queued
    BY <1>4 DEF EndKind, queued, One, Busy
  <2>2. Queue!Confirm(sub_par) \/ Queue!GiveUp(sub_par)
    BY <1>4 DEF EndKind, Queue!Confirm, Queue!GiveUp
  <2>3. QED
    BY <2>1, <2>2 DEF Queue!Next
<1>5. CASE SameKind
  BY <1>5 DEF SameKind, Queue!vars, Queue!Next, Queue!TakeSuccess
<1>6. Queue!Params = Params
  BY DEF Queue!Params, Params, Queue!Rounds, Rounds
<1>7. QED
  BY <1>1, <1>2, <1>3, <1>4, <1>5, <1>6, Steps DEF Queue!Next

\* The task and its queue implement the contract: what is held only grows by
\* what the miner submits, and what was let go never comes back.
THEOREM ImplementsQueue == Spec => QueueSpec
<1>1. Init => Queue!Init
  <2> SUFFICES ASSUME Init PROVE Queue!Init
    OBVIOUS
  <2>1. /\ channel = <<>> /\ delayed_item = NoParams /\ sub_par = NoParams
        /\ submitted = {} /\ SUBMISSION_SUCCESS = FALSE
    BY DEF Init
  <2>2. Range(channel) = {}
    BY <2>1 DEF Range
  <2>3. queued = {}
    BY <2>1, <2>2 DEF queued, One
  <2>4. QED
    BY <2>1, <2>3 DEF Queue!Init
<1>2. QED
  BY <1>1, TypeInit, TypeStep, HeldInit, HeldStep, QueueStep, PTL
     DEF Spec, QueueSpec, Queue!Spec

-----------------------------------------------------------------------------
(* What holds while a solution's block is the miner's, that is without      *)
(* reorganisations.                                                         *)

OwnBlock == \A p \in submitted : p.block = p.round

\* What is held improves on what was sent.
HeldImproves ==
  \A p \in queued, q \in attempted :
    /\ p.block >= q.block
    /\ p.block = q.block /\ p.account_id = q.account_id => p.deadline <= q.deadline

OrderInv == ~Reorgs => OwnBlock /\ HeldImproves

LEMMA ParamsAreNat ==
  ASSUME NEW p \in Params
  PROVE  p.block \in Nat /\ p.round \in Nat /\ p.deadline \in Nat
BY SubmissionsAssumption DEF Params, Rounds

LEMMA OrderStep == TypeOK /\ HeldInv /\ OrderInv /\ [Next]_vars => OrderInv'
<1> SUFFICES ASSUME TypeOK, HeldInv, OrderInv, [Next]_vars, ~Reorgs
             PROVE  OwnBlock' /\ HeldImproves'
  BY DEF OrderInv
<1>0. OwnBlock /\ HeldImproves
  BY DEF OrderInv
<1>1. ASSUME NEW p \in Params, NewKind(p) PROVE OwnBlock' /\ HeldImproves'
  <2>1. /\ submitted' = submitted \cup {p} /\ queued' = queued \cup {p}
        /\ attempted' = attempted
        /\ p.round = round /\ p.block = round
        /\ \A q \in submitted :
             q.round = round /\ q.account_id = p.account_id => p.deadline < q.deadline
    BY <1>1 DEF NewKind, submit_nonce, Improves
  <2>2. OwnBlock'
    BY <1>0, <2>1 DEF OwnBlock
  <2>3. ASSUME NEW q \in attempted
        PROVE  /\ p.block >= q.block
               /\ p.block = q.block /\ p.account_id = q.account_id
                    => p.deadline <= q.deadline
    <3>1. q \in submitted /\ q \in Params /\ q.block = q.round /\ q.round <= round
      BY <1>0 DEF HeldInv, TypeOK, OwnBlock
    <3>2. p.deadline \in Nat /\ q.deadline \in Nat /\ q.block \in Nat /\ p.block \in Nat
      BY <3>1, ParamsAreNat
    <3>3. QED
      BY <2>1, <3>1, <3>2
  <2>4. HeldImproves'
    BY <1>0, <2>1, <2>3 DEF HeldImproves
  <2>5. QED
    BY <2>2, <2>4
<1>2. CASE DisplaceKind
  BY <1>0, <1>2 DEF DisplaceKind, OwnBlock, HeldImproves
<1>3. CASE YieldKind
  <2>1. sub_par' \in Params
    BY <1>3 DEF YieldKind, HeldInv, TypeOK
  <2>2. sub_par'.block \in Nat /\ sub_par'.deadline \in Nat
    BY <2>1, ParamsAreNat
  <2>3. QED
    BY <1>0, <1>3, <2>2 DEF YieldKind, OwnBlock, HeldImproves
<1>4. CASE EndKind
  BY <1>0, <1>4 DEF EndKind, OwnBlock, HeldImproves
<1>5. CASE SameKind
  BY <1>0, <1>5 DEF SameKind, OwnBlock, HeldImproves
<1>6. QED
  BY <1>1, <1>2, <1>3, <1>4, <1>5, Steps

LEMMA OrderInit == Init => OrderInv
BY DEF Init, OrderInv, OwnBlock, HeldImproves

LEMMA AttemptStep ==
  ASSUME TypeOK, HeldInv, OrderInv, ~Reorgs, [Next]_vars, ~Busy, Busy',
         NEW q \in attempted
  PROVE  /\ sub_par'.block >= q.block
         /\ sub_par'.block = q.block /\ sub_par'.account_id = q.account_id
              => sub_par'.deadline <= q.deadline
<1>1. ASSUME NEW p \in Params, NewKind(p) PROVE FALSE
  BY <1>1 DEF NewKind, submit_nonce, Busy
<1>2. CASE DisplaceKind
  BY <1>2 DEF DisplaceKind, Busy
<1>3. CASE YieldKind
  BY <1>3 DEF YieldKind, OrderInv, HeldImproves
<1>4. CASE EndKind
  BY <1>4 DEF EndKind
<1>5. CASE SameKind
  BY <1>5 DEF SameKind
<1>6. QED
  BY <1>1, <1>2, <1>3, <1>4, <1>5, Steps

\* Requests only improve, for any interleaving of new items with retries.
THEOREM Improvement == ~Reorgs => (Spec => AttemptsOnlyImprove)
<1> SUFFICES ASSUME ~Reorgs PROVE Spec => AttemptsOnlyImprove
  OBVIOUS
<1>1. TypeOK /\ HeldInv /\ OrderInv /\ [Next]_vars =>
        [ ~Busy /\ Busy' =>
            \A q \in attempted :
              /\ sub_par'.block >= q.block
              /\ sub_par'.block = q.block /\ sub_par'.account_id = q.account_id
                   => sub_par'.deadline <= q.deadline ]_vars
  BY AttemptStep
<1>2. QED
  BY <1>1, TypeInit, TypeStep, HeldInit, HeldStep, OrderInit, OrderStep, PTL
     DEF Spec, AttemptsOnlyImprove

\* Every item is held or sent, or something held or sent makes up for it.
KeptInv == ~Reorgs => NothingIsLost

LEMMA KeptMonotone ==
  ASSUME NothingIsLost, submitted' = submitted,
         \A p : p \in queued => p \in queued' \/ p \in attempted',
         \A p : p \in attempted => p \in attempted'
  PROVE  NothingIsLost'
BY DEF NothingIsLost, MakesUpFor

LEMMA MakesUpForTransitive ==
  ASSUME NEW p \in Params, NEW q \in Params, NEW r \in Params,
         MakesUpFor(p, q), MakesUpFor(q, r)
  PROVE  MakesUpFor(p, r)
BY ParamsAreNat DEF MakesUpFor

LEMMA DisplacedIsMadeUpFor ==
  ASSUME NEW kept \in Params, NEW lost \in Params,
         kept.block = kept.round, lost.block = lost.round,
         Less(lost, kept) \/ ~Less(kept, lost)
  PROVE  MakesUpFor(kept, lost)
BY ParamsAreNat DEF MakesUpFor, Less

LEMMA DisplaceKeeps ==
  ASSUME TypeOK, HeldInv, OwnBlock, NothingIsLost, DisplaceKind
  PROVE  NothingIsLost'
<1>1. PICK kept \in queued, lost \in queued :
        /\ kept # lost
        /\ Less(lost, kept) \/ ~Less(kept, lost)
        /\ queued' = queued \ {lost}
        /\ kept \in queued'
  BY DEF DisplaceKind
<1>2. submitted' = submitted /\ attempted' = attempted
  BY DEF DisplaceKind
<1>3. queued \subseteq Params /\ attempted \subseteq Params /\ submitted \subseteq Params
  BY DEF HeldInv, TypeOK
<1>4. MakesUpFor(kept, lost)
  BY <1>1, <1>3, DisplacedIsMadeUpFor DEF HeldInv, OwnBlock
<1>5. ASSUME NEW p \in submitted,
             NEW q \in attempted \cup queued, q # p, MakesUpFor(q, p), p # kept
      PROVE  \E r \in attempted \cup queued' : r # p /\ MakesUpFor(r, p)
  <2>1. CASE q # lost
    BY <1>1, <1>5, <2>1
  <2>2. CASE q = lost
    <3>1. MakesUpFor(kept, p)
      BY <1>1, <1>3, <1>4, <1>5, <2>2, MakesUpForTransitive
    <3>2. QED
      BY <1>1, <1>5, <3>1
  <2>3. QED
    BY <2>1, <2>2
<1>6. ASSUME NEW p \in submitted
      PROVE  \/ p \in queued' \/ p \in attempted
             \/ \E r \in attempted \cup queued' : r # p /\ MakesUpFor(r, p)
  <2>1. CASE p = kept
    BY <1>1, <2>1
  <2>2. CASE p = lost
    BY <1>1, <1>4, <2>2
  <2>3. CASE p # kept /\ p # lost
    BY <1>1, <1>5, <2>3 DEF NothingIsLost
  <2>4. QED
    BY <2>1, <2>2, <2>3
<1>7. QED
  BY <1>2, <1>6 DEF NothingIsLost, MakesUpFor

LEMMA KeptStep == TypeOK /\ HeldInv /\ OrderInv /\ KeptInv /\ [Next]_vars => KeptInv'
<1> SUFFICES ASSUME TypeOK, HeldInv, OrderInv, KeptInv, [Next]_vars, ~Reorgs
             PROVE  NothingIsLost'
  BY DEF KeptInv
<1>0. NothingIsLost /\ OwnBlock
  BY DEF KeptInv, OrderInv
<1>1. ASSUME NEW p \in Params, NewKind(p) PROVE NothingIsLost'
  BY <1>0, <1>1 DEF NewKind, submit_nonce, NothingIsLost, MakesUpFor
<1>2. CASE DisplaceKind
  BY <1>0, <1>2, DisplaceKeeps
<1>3. CASE YieldKind
  BY <1>0, <1>3, KeptMonotone DEF YieldKind
<1>4. CASE EndKind
  <2>1. sub_par \in attempted
    BY <1>4 DEF EndKind, HeldInv
  <2>2. QED
    BY <1>0, <1>4, <2>1, KeptMonotone DEF EndKind
<1>5. CASE SameKind
  BY <1>0, <1>5, KeptMonotone DEF SameKind
<1>6. QED
  BY <1>1, <1>2, <1>3, <1>4, <1>5, Steps

LEMMA KeptInit == Init => KeptInv
BY DEF Init, KeptInv, NothingIsLost

\* The heap that nothing takes from holds nothing that is still needed.
THEOREM Kept == Spec => [](~Reorgs => NothingIsLost)
<1>1. KeptInv => (~Reorgs => NothingIsLost)
  BY DEF KeptInv
<1>2. QED
  BY <1>1, TypeInit, TypeStep, HeldInit, HeldStep, OrderInit, OrderStep,
     KeptInit, KeptStep, PTL DEF Spec
=============================================================================
