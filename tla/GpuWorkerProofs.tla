-------------------------- MODULE GpuWorkerProofs --------------------------
(***************************************************************************)
(* Proofs about GpuWorker, for any number of drives, buffers and scans and  *)
(* either worker: the types of what can hold a buffer, that every buffer is *)
(* always in one place, that what is hashed is a reply's own data with its  *)
(* scan's generation signature, and that a round in which every drive ended *)
(* has reported each of its replies once.                                   *)
(***************************************************************************)
EXTENDS GpuWorker, TLAPS, SequenceTheorems, FiniteSetTheorems, FunctionTheorems

Pcs == {"new", "spawned", "reading", "sending", "signalling", "ended", "stopped",
        "skipped"}

LEMMA Distinct ==
  /\ NoReply \notin Replies
  /\ \A m \in Replies : m.gpu_signal = 0 /\ m.buffer \in Buffers
  /\ \A m \in Signals : m.gpu_signal # 0 /\ m.len = 1
<1>1. NoReply.run = 0
  BY DEF NoReply
<1>2. \A m \in Replies : m.run # 0 /\ m.gpu_signal = 0 /\ m.buffer \in Buffers
  BY GpuAssumption DEF Replies
<1>3. \A m \in Signals : m.gpu_signal # 0 /\ m.len = 1
  <2>1. \A n \in 1..MaxRuns, kind \in {1, 2} :
          Signal(n, kind).len = 1 /\ Signal(n, kind).gpu_signal = kind
    BY DEF Signal, NoReply
  <2>2. QED
    BY <2>1 DEF Signals
<1>4. QED
  BY <1>1, <1>2, <1>3

-----------------------------------------------------------------------------
(* Types.                                                                   *)

\* Tasks not yet made do nothing.
NotYet == \A t \in Tasks : t[1] > run => pc[t] = "new"

Typed == TypeOK /\ NotYet

LEMMA TypeInit == Init => Typed
<1> SUFFICES ASSUME Init PROVE Typed
  OBVIOUS
<1>1. \A s \in Settings : Len(s.heights) \in Nat
  BY GpuAssumption
<1>2. run \in 0..Len(setting.heights)
  BY <1>1 DEF Init
<1>3. /\ pc \in [Tasks -> Pcs] /\ next \in [Tasks -> Nat]
      /\ reply \in [Tasks -> Replies \cup {NoReply}]
      /\ \A t \in Tasks : next[t] \in 1..ChunkCount[t[2]]
  <2>1. \A t \in Tasks : ChunkCount[t[2]] \in Nat \ {0}
    BY GpuAssumption DEF Tasks
  <2>2. QED
    BY <2>1 DEF Init, Pcs
<1>4. \A t \in Tasks : pc[t] = "sending" <=> reply[t] # NoReply
  BY DEF Init
<1>5. rx_read_replies \in Seq(Replies \cup Signals)
  BY DEF Init
<1>6. NotYet
  BY DEF Init, NotYet
<1>7. QED
  BY <1>2, <1>3, <1>4, <1>5, <1>6 DEF Init, Typed, TypeOK, Pcs

\* The scan a task belongs to has been started, or can be.
LEMMA TaskTypes ==
  ASSUME TypeOK
  PROVE  /\ \A t \in Tasks : t = <<t[1], t[2]>> /\ t[1] \in 1..MaxRuns /\ t[2] \in Drives
         /\ run \in Nat /\ MaxRuns \in Nat
         /\ run < Len(setting.heights) => run + 1 \in 1..MaxRuns
<1>1. MaxRuns \in Nat /\ Len(setting.heights) \in Nat /\ Len(setting.heights) <= MaxRuns
  BY GpuAssumption DEF TypeOK
<1>2. run \in 0..Len(setting.heights)
  BY DEF TypeOK
<1>3. QED
  BY <1>1, <1>2 DEF Tasks

LEMMA StartTyped == ASSUME Typed, start_reading PROVE Typed'
<1> USE DEF Typed
<1>1. run' \in 0..Len(setting.heights) /\ run' = run + 1 /\ run + 1 \in 1..MaxRuns
  <2>1. Len(setting.heights) \in Nat
    BY GpuAssumption DEF TypeOK
  <2>2. QED
    BY <2>1, TaskTypes DEF start_reading, TypeOK
<1>2. pc' \in [Tasks -> Pcs]
  BY DEF start_reading, TypeOK, Pcs
<1>3. rx_read_replies' \in Seq(Replies \cup Signals)
  <2>1. Signal(run + 1, 1) \in Signals
    BY <1>1 DEF Signals
  <2>2. QED
    BY <2>1 DEF start_reading, TypeOK
<1>4. ASSUME NEW t \in Tasks
      PROVE  /\ pc'[t] = "sending" <=> pc[t] = "sending"
             /\ t[1] > run' => pc'[t] = "new"
  BY <1>1, TaskTypes DEF start_reading, NotYet
<1>5. NotYet'
  BY <1>4 DEF NotYet
<1>6. /\ setting' = setting /\ next' = next /\ reply' = reply
      /\ rx_empty_buffers' = rx_empty_buffers /\ rx_sink' = rx_sink
  BY DEF start_reading, worker
<1>7. \A t \in Tasks : (pc[t] = "sending" <=> reply[t] # NoReply)'
  BY <1>4, <1>6 DEF TypeOK
<1>8. TypeOK'
  BY <1>1, <1>2, <1>3, <1>6, <1>7 DEF TypeOK, Pcs
<1>9. QED
  BY <1>5, <1>8

\* A task is always at one of the chunks of its drive.
NextTyped ==
  /\ next \in [Tasks -> Nat]
  /\ \A t \in Tasks : next[t] \in 1..ChunkCount[t[2]]

\* The chunks a task can be done with: its next one up to the last one.
LEMMA DoneTyped ==
  ASSUME TypeOK, NEW t \in Tasks
  PROVE  /\ PlotEnd(t) \in next[t]..ChunkCount[t[2]]
         /\ \A failed \in BOOLEAN : Done(t, failed) \in next[t]..ChunkCount[t[2]]
         /\ next[t] \in Nat /\ ChunkCount[t[2]] \in Nat
<1>1. /\ t[2] \in Drives /\ next[t] \in 1..ChunkCount[t[2]]
      /\ ChunkCount[t[2]] \in Nat
  BY GpuAssumption DEF TypeOK, Tasks
<1>2. PlotEnd(t) \in next[t]..ChunkCount[t[2]]
  BY <1>1, GpuAssumption DEF PlotEnd
<1>3. next[t] \in next[t]..ChunkCount[t[2]]
  BY <1>1
<1>4. QED
  BY <1>1, <1>2, <1>3 DEF Done

\* A task goes on behind what it is done with, if anything is left.
LEMMA PassesTyped ==
  ASSUME TypeOK, NEW t \in Tasks, NEW done \in next[t]..ChunkCount[t[2]], NEW end,
         Passes(t, done, end)
  PROVE  /\ NextTyped'
         /\ \A u \in Tasks : u # t => next'[u] = next[u]
         /\ \/ Goes(t, end) /\ next' = next
            \/ Goes(t, "spawned") /\ next'[t] > next[t]
            \/ Goes(t, "reading") /\ next'[t] > next[t]
<1>1. next[t] \in 1..ChunkCount[t[2]] /\ ChunkCount[t[2]] \in Nat /\ next[t] \in Nat
  BY DoneTyped DEF TypeOK
<1>2. CASE done = ChunkCount[t[2]]
  BY <1>2 DEF Passes, NextTyped, TypeOK
<1>3. CASE done # ChunkCount[t[2]]
  <2>1. next' = [next EXCEPT ![t] = done + 1] /\ next \in [Tasks -> Nat]
    BY <1>3 DEF Passes, TypeOK
  <2>2. done + 1 \in 1..ChunkCount[t[2]] /\ done + 1 > next[t] /\ done + 1 \in Nat
    BY <1>1, <1>3
  <2>3. next'[t] = done + 1 /\ \A u \in Tasks : u # t => next'[u] = next[u]
    BY <2>1
  <2>4. next' \in [Tasks -> Nat]
    BY <2>1, <2>2
  <2>5. NextTyped'
    BY <2>2, <2>3, <2>4 DEF NextTyped, TypeOK
  <2>6. Goes(t, "spawned") \/ Goes(t, "reading")
    BY <1>3 DEF Passes
  <2>7. QED
    BY <2>2, <2>3, <2>5, <2>6
<1>4. QED
  BY <1>2, <1>3

\* A task that neither reads nor sends a reply.
Moves(t) == Prepare(t) \/ ReadElsewhere(t) \/ Stops(t) \/ SendEnd(t)

\* What such a task goes to.
LEMMA MoveTo ==
  ASSUME TypeOK, NEW t \in Tasks, Moves(t)
  PROVE  /\ NextTyped'
         /\ \A u \in Tasks : u # t => next'[u] = next[u]
         /\ Goes(t, pc'[t]) /\ pc'[t] \in Pcs \ {"new", "sending"}
         /\ \A u \in Tasks : u # t => pc'[u] = pc[u]
         /\ pc'[t] = "ended" <=> SendEnd(t)
         /\ pc'[t] \in {"spawned", "reading"} =>
              pc[t] \in {"spawned", "reading"} /\ next'[t] >= next[t]
<1>1. ASSUME NEW to \in Pcs \ {"new", "sending"}, Goes(t, to)
      PROVE  /\ Goes(t, pc'[t]) /\ pc'[t] = to
             /\ \A u \in Tasks : u # t => pc'[u] = pc[u]
  BY <1>1 DEF Goes, TypeOK
<1>2. /\ NextTyped /\ next[t] \in Nat /\ next \in [Tasks -> Nat]
      /\ next[t] \in next[t]..ChunkCount[t[2]] /\ 1 \in 1..ChunkCount[t[2]]
  BY DoneTyped DEF NextTyped, TypeOK
<1>3. ASSUME next' = next PROVE NextTyped' /\ next'[t] >= next[t]
  BY <1>2, <1>3 DEF NextTyped
<1>4. ASSUME next' = [next EXCEPT ![t] = 1]
      PROVE  NextTyped' /\ \A u \in Tasks : u # t => next'[u] = next[u]
  BY <1>2, <1>4 DEF NextTyped
<1>5. ASSUME NEW done \in next[t]..ChunkCount[t[2]], NEW end \in {"skipped", "signalling"},
             Passes(t, done, end), pc[t] \in {"spawned", "reading"}, ~SendEnd(t)
      PROVE  /\ NextTyped'
             /\ \A u \in Tasks : u # t => next'[u] = next[u]
             /\ Goes(t, pc'[t]) /\ pc'[t] \in Pcs \ {"new", "sending"}
             /\ \A u \in Tasks : u # t => pc'[u] = pc[u]
             /\ pc'[t] = "ended" <=> SendEnd(t)
             /\ pc'[t] \in {"spawned", "reading"} =>
                  pc[t] \in {"spawned", "reading"} /\ next'[t] >= next[t]
  <2>1. /\ NextTyped'
        /\ \A u \in Tasks : u # t => next'[u] = next[u]
        /\ \/ Goes(t, end) /\ next' = next
           \/ Goes(t, "spawned") /\ next'[t] > next[t]
           \/ Goes(t, "reading") /\ next'[t] > next[t]
    BY <1>5, PassesTyped
  <2>2. PICK to \in {"skipped", "signalling", "spawned", "reading"} :
          Goes(t, to) /\ (to \in {"spawned", "reading"} => next'[t] > next[t])
    BY <1>5, <2>1
  <2>3. to \in Pcs \ {"new", "sending"}
    BY DEF Pcs
  <2>4. /\ Goes(t, pc'[t]) /\ pc'[t] = to
        /\ \A u \in Tasks : u # t => pc'[u] = pc[u]
    BY <1>1, <2>2, <2>3
  <2>5. next'[t] \in Nat
    BY <2>1 DEF NextTyped
  <2>6. QED
    BY <1>2, <1>5, <2>1, <2>2, <2>3, <2>4, <2>5
<1>6. CASE Prepare(t)
  <2>1. pc[t] = "spawned" /\ ~SendEnd(t)
    BY <1>6 DEF Prepare, SendEnd
  <2>2. CASE Goes(t, "reading") /\ next' = next
    BY <1>1, <1>3, <2>1, <2>2 DEF Pcs
  <2>3. CASE Passes(t, PlotEnd(t), "skipped")
    BY <1>5, <2>1, <2>3, DoneTyped
  <2>4. QED
    BY <1>6, <2>2, <2>3 DEF Prepare
<1>7. CASE ReadElsewhere(t)
  <2>1. pc[t] = "reading" /\ ~SendEnd(t)
    BY <1>7 DEF ReadElsewhere, SendEnd
  <2>2. PICK failed \in BOOLEAN : Passes(t, Done(t, failed), "signalling")
    BY <1>7 DEF ReadElsewhere
  <2>3. QED
    BY <1>5, <2>1, <2>2, DoneTyped
<1>8. CASE Stops(t)
  <2>1. /\ pc[t] \in {"spawned", "reading"} /\ Goes(t, "stopped")
        /\ next' = [next EXCEPT ![t] = 1] /\ ~SendEnd(t)
    BY <1>8 DEF Stops, SendEnd
  <2>2. QED
    BY <1>1, <1>4, <2>1 DEF Pcs
<1>9. CASE SendEnd(t)
  <2>1. Goes(t, "ended") /\ next' = [next EXCEPT ![t] = 1]
    BY <1>9 DEF SendEnd
  <2>2. QED
    BY <1>1, <1>4, <1>9, <2>1 DEF Pcs
<1>10. QED
  BY <1>6, <1>7, <1>8, <1>9 DEF Moves

\* Such a task leaves all buffers where they are.
LEMMA OnlyMoves ==
  ASSUME Typed, NEW t \in Tasks, Moves(t)
  PROVE  /\ Typed' /\ Sending' = Sending
         /\ UNCHANGED <<reply, rx_empty_buffers, rx_sink>>
         /\ rx_read_replies' = rx_read_replies
              \/ \E m \in Signals : rx_read_replies' = Append(rx_read_replies, m)
<1> USE DEF Typed
<1>1. /\ NextTyped' /\ pc' \in [Tasks -> Pcs] /\ pc'[t] \notin {"new", "sending"}
      /\ \A u \in Tasks : u # t => pc'[u] = pc[u]
  BY MoveTo DEF Goes, TypeOK, Pcs
<1>2. /\ pc[t] \notin {"new", "sending"}
      /\ UNCHANGED <<setting, run, reply, rx_empty_buffers, rx_sink>>
      /\ rx_read_replies' = rx_read_replies \/ rx_read_replies' =
           Append(rx_read_replies, Signal(t[1], 2))
  BY DEF Moves, Prepare, ReadElsewhere, Stops, SendEnd, worker
<1>3. Signal(t[1], 2) \in Signals
  BY TaskTypes DEF Signals
<1>4. rx_read_replies' \in Seq(Replies \cup Signals)
  <2>1. rx_read_replies \in Seq(Replies \cup Signals)
    BY DEF TypeOK
  <2>2. Append(rx_read_replies, Signal(t[1], 2)) \in Seq(Replies \cup Signals)
    BY <1>3, <2>1
  <2>3. QED
    BY <1>2, <2>1, <2>2
<1>5. \A u \in Tasks : pc'[u] = "sending" <=> pc[u] = "sending"
  BY <1>1, <1>2
<1>6. \A u \in Tasks : (pc[u] = "sending" <=> reply[u] # NoReply)'
  BY <1>2, <1>5 DEF TypeOK
<1>7. TypeOK'
  BY <1>1, <1>2, <1>4, <1>6 DEF TypeOK, Pcs, NextTyped
<1>8. NotYet'
  BY <1>1, <1>2 DEF NotYet
<1>9. Sending' = Sending
  BY <1>5 DEF Sending
<1>10. QED
  BY <1>2, <1>3, <1>7, <1>8, <1>9

-----------------------------------------------------------------------------
(* Queues.                                                                  *)

\* The messages of a queue that carry a buffer, their buffers, and that no two
\* carry the same.
Carrying(s) == {i \in 1..Len(s) : s[i].gpu_signal = 0}
Carried(s) == {s[i].buffer : i \in Carrying(s)}
Apart(s) == \A i, j \in Carrying(s) : s[i].buffer = s[j].buffer => i = j

LEMMA Appended ==
  ASSUME NEW M, NEW s \in Seq(M), NEW m \in M
  PROVE  /\ m.gpu_signal = 0 =>
              /\ Carried(Append(s, m)) = Carried(s) \cup {m.buffer}
              /\ Apart(s) /\ m.buffer \notin Carried(s) => Apart(Append(s, m))
         /\ m.gpu_signal # 0 =>
              /\ Carried(Append(s, m)) = Carried(s)
              /\ Apart(s) => Apart(Append(s, m))
<1> DEFINE n == Len(s)
           q == Append(s, m)
<1>1. /\ n \in Nat /\ Len(q) = n + 1 /\ q[n + 1] = m
      /\ \A i \in 1..n : q[i] = s[i]
  OBVIOUS
<1>2. 1..(n + 1) = (1..n) \cup {n + 1} /\ n + 1 \notin 1..n
  BY <1>1
<1> HIDE DEF n, q
<1>3. ASSUME m.gpu_signal = 0
      PROVE  /\ Carried(q) = Carried(s) \cup {m.buffer}
             /\ Apart(s) /\ m.buffer \notin Carried(s) => Apart(q)
  <2>1. Carrying(q) = Carrying(s) \cup {n + 1}
    BY <1>1, <1>2, <1>3 DEF Carrying, n
  <2>2. \A i \in Carrying(s) : q[i] = s[i] /\ i # n + 1
    BY <1>1, <1>2 DEF Carrying, n
  <2>3. QED
    BY <1>1, <2>1, <2>2 DEF Carried, Apart
<1>4. ASSUME m.gpu_signal # 0
      PROVE  Carried(q) = Carried(s) /\ (Apart(s) => Apart(q))
  <2>1. Carrying(q) = Carrying(s)
    BY <1>1, <1>2, <1>4 DEF Carrying, n
  <2>2. \A i \in Carrying(s) : q[i] = s[i]
    BY <1>1 DEF Carrying, n
  <2>3. QED
    BY <2>1, <2>2 DEF Carried, Apart
<1>5. QED
  BY <1>3, <1>4 DEF q

LEMMA Taken ==
  ASSUME NEW M, NEW s \in Seq(M), s # <<>>, Apart(s)
  PROVE  /\ Head(s).gpu_signal = 0 =>
              /\ Carried(Tail(s)) = Carried(s) \ {Head(s).buffer}
              /\ Head(s).buffer \in Carried(s)
         /\ Head(s).gpu_signal # 0 => Carried(Tail(s)) = Carried(s)
         /\ Apart(Tail(s))
<1> DEFINE n == Len(s)
           q == Tail(s)
           m == Head(s)
<1>1. /\ n \in Nat \ {0} /\ Len(q) = n - 1 /\ m = s[1]
      /\ \A i \in 1..(n - 1) : q[i] = s[i + 1]
  OBVIOUS
<1> HIDE DEF n, q, m
<1>2. \A i \in Carrying(q) : i + 1 \in Carrying(s) /\ q[i] = s[i + 1] /\ i \in Nat
  BY <1>1 DEF Carrying, n
<1>3. \A i \in Carrying(s) : i = 1 \/ (i - 1 \in Carrying(q) /\ q[i - 1] = s[i])
  <2> SUFFICES ASSUME NEW i \in Carrying(s), i # 1
               PROVE  i - 1 \in Carrying(q) /\ q[i - 1] = s[i]
    OBVIOUS
  <2>1. i \in 1..n /\ s[i].gpu_signal = 0
    BY DEF Carrying, n
  <2>2. i - 1 \in 1..(n - 1) /\ (i - 1) + 1 = i
    BY <1>1, <2>1
  <2>3. q[i - 1] = s[i]
    BY <1>1, <2>2
  <2>4. QED
    BY <1>1, <2>1, <2>2, <2>3 DEF Carrying
<1>4. 1 \in Carrying(s) <=> m.gpu_signal = 0
  BY <1>1 DEF Carrying, n
<1>5. Apart(q)
  <2> SUFFICES ASSUME NEW i \in Carrying(q), NEW j \in Carrying(q),
                      q[i].buffer = q[j].buffer
               PROVE  i = j
    BY DEF Apart
  <2>1. i + 1 = j + 1
    BY <1>2 DEF Apart
  <2>2. QED
    BY <1>2, <2>1
<1>6. Carried(q) \subseteq Carried(s)
  BY <1>2 DEF Carried
<1>7. ASSUME NEW b \in Carried(s), ~(m.gpu_signal = 0 /\ b = m.buffer)
      PROVE  b \in Carried(q)
  <2>1. PICK i \in Carrying(s) : s[i].buffer = b
    BY DEF Carried
  <2>2. i # 1
    BY <1>1, <1>4, <1>7, <2>1
  <2>3. QED
    BY <1>3, <2>1, <2>2 DEF Carried
<1>8. ASSUME m.gpu_signal = 0
      PROVE  m.buffer \in Carried(s) /\ m.buffer \notin Carried(q)
  <2>1. m.buffer \in Carried(s)
    BY <1>1, <1>4, <1>8 DEF Carried
  <2>2. ASSUME m.buffer \in Carried(q) PROVE FALSE
    <3>1. PICK i \in Carrying(q) : q[i].buffer = m.buffer
      BY <2>2 DEF Carried
    <3>2. i + 1 = 1
      BY <1>1, <1>2, <1>4, <1>8, <3>1 DEF Apart
    <3>3. i \in 1..(n - 1)
      BY <1>1 DEF Carrying
    <3>4. QED
      BY <1>1, <3>2, <3>3
  <2>3. QED
    BY <2>1, <2>2
<1>9. QED
  BY <1>5, <1>6, <1>7, <1>8 DEF q, m

-----------------------------------------------------------------------------
(* Buffers.                                                                 *)

\* The four places hold all buffers, and no two the same.
Parted(E, F, Q, S) ==
  /\ E \cup F \cup Q \cup S = Buffers
  /\ E \cap F = {} /\ E \cap Q = {} /\ E \cap S = {}
  /\ F \cap Q = {} /\ F \cap S = {} /\ Q \cap S = {}

\* No two tasks are about to send the same buffer.
Single == \A t, u \in Sending : reply[t].buffer = reply[u].buffer => t = u

LEMMA ConservedParts ==
  BuffersConserved <=>
    /\ Parted(rx_empty_buffers, Filled, Carried(rx_read_replies), rx_sink)
    /\ Single /\ Apart(rx_read_replies)
<1>1. Waiting = Carrying(rx_read_replies) /\ Queued = Carried(rx_read_replies)
  BY DEF Waiting, Carrying, Queued, Carried
<1>2. QED
  BY <1>1 DEF BuffersConserved, Parted, Single, Apart

\* The same of the next state.
LEMMA ConservedNext ==
  ASSUME Parted(rx_empty_buffers', Filled', Carried(rx_read_replies'), rx_sink'),
         Single', Apart(rx_read_replies')
  PROVE  BuffersConserved'
<1>1. Waiting' = Carrying(rx_read_replies') /\ Queued' = Carried(rx_read_replies')
  BY DEF Waiting, Carrying, Queued, Carried
<1>2. QED
  BY <1>1 DEF BuffersConserved, Parted, Single, Apart

LEMMA NothingMoves ==
  ASSUME BuffersConserved, Sending' = Sending,
         UNCHANGED <<reply, rx_empty_buffers, rx_sink>>,
         TypeOK,
         rx_read_replies' = rx_read_replies
           \/ \E m \in Signals : rx_read_replies' = Append(rx_read_replies, m)
  PROVE  BuffersConserved'
<1>1. Parted(rx_empty_buffers, Filled, Carried(rx_read_replies), rx_sink)
      /\ Single /\ Apart(rx_read_replies)
  BY ConservedParts
<1>2. Filled' = Filled /\ Single'
  BY <1>1 DEF Filled, Single
<1>3. Carried(rx_read_replies') = Carried(rx_read_replies) /\ Apart(rx_read_replies')
  <2>1. CASE rx_read_replies' = rx_read_replies
    BY <1>1, <2>1
  <2>2. ASSUME NEW m \in Signals, rx_read_replies' = Append(rx_read_replies, m)
        PROVE  /\ Carried(rx_read_replies') = Carried(rx_read_replies)
               /\ Apart(rx_read_replies')
    <3>1. rx_read_replies \in Seq(Replies \cup Signals) /\ m.gpu_signal # 0
      BY Distinct DEF TypeOK
    <3>2. QED
      BY <1>1, <2>2, <3>1, Appended
  <2>3. QED
    BY <2>1, <2>2
<1>4. QED
  BY <1>1, <1>2, <1>3, ConservedNext

LEMMA ReadConserves ==
  ASSUME Typed, BuffersConserved, NEW t \in Tasks, Read(t)
  PROVE  Typed' /\ BuffersConserved'
<1> USE DEF Typed
<1>1. PICK len \in {0, 64}, b \in rx_empty_buffers :
        /\ rx_empty_buffers' = rx_empty_buffers \ {b}
        /\ reply' = [reply EXCEPT ![t] =
             [buffer |-> b, len |-> len, run |-> t[1], drive |-> t[2],
              chunk |-> next[t], finished |-> Done(t, len = 0) = ChunkCount[t[2]],
              gpu_signal |-> 0]]
  BY DEF Read
<1>2. /\ pc[t] = "reading" /\ pc' = [pc EXCEPT ![t] = "sending"]
      /\ UNCHANGED <<setting, run, next, rx_read_replies, rx_sink>>
  BY DEF Read, Goes, worker
<1> DEFINE r == [buffer |-> b, len |-> len, run |-> t[1], drive |-> t[2],
                 chunk |-> next[t], finished |-> Done(t, len = 0) = ChunkCount[t[2]],
              gpu_signal |-> 0]
<1>3. r \in Replies /\ r # NoReply /\ r.buffer = b
  <2>1. t[1] \in 1..MaxRuns /\ t[2] \in Drives /\ next[t] \in Nat /\ b \in Buffers
    BY TaskTypes DEF TypeOK
  <2>2. (Done(t, len = 0) = ChunkCount[t[2]]) \in BOOLEAN
    OBVIOUS
  <2>3. r \in Replies
    BY <2>1, <2>2 DEF Replies
  <2>4. QED
    BY <2>3, Distinct
<1>4. reply'[t] = r /\ \A u \in Tasks : u # t => reply'[u] = reply[u]
  BY <1>1 DEF TypeOK
<1> HIDE DEF r
<1>5. pc'[t] = "sending" /\ \A u \in Tasks : u # t => pc'[u] = pc[u]
  BY <1>2 DEF TypeOK
<1>6. TypeOK'
  <2>1. \A u \in Tasks : (pc[u] = "sending" <=> reply[u] # NoReply)'
    BY <1>3, <1>4, <1>5 DEF TypeOK
  <2>2. pc' \in [Tasks -> Pcs]
    BY <1>2 DEF TypeOK, Pcs
  <2>3. reply' \in [Tasks -> Replies \cup {NoReply}]
    BY <1>1, <1>3 DEF TypeOK, r
  <2>4. QED
    BY <1>1, <1>2, <2>1, <2>2, <2>3 DEF TypeOK, Pcs
<1>7. NotYet'
  BY <1>2, <1>5 DEF NotYet
<1>8. Sending' = Sending \cup {t} /\ t \notin Sending
  BY <1>2, <1>5 DEF Sending
<1>9. \A u \in Sending : u # t /\ reply'[u] = reply[u]
  BY <1>4, <1>8 DEF Sending
<1>10. Filled' = Filled \cup {b}
  BY <1>3, <1>4, <1>8, <1>9 DEF Filled
<1>11. Parted(rx_empty_buffers, Filled, Carried(rx_read_replies), rx_sink)
       /\ Single /\ Apart(rx_read_replies)
  BY ConservedParts
<1>12. Parted(rx_empty_buffers', Filled', Carried(rx_read_replies'), rx_sink')
  BY <1>1, <1>2, <1>10, <1>11 DEF Parted
<1>13. \A u \in Sending : reply[u].buffer # b
  BY <1>11 DEF Parted, Filled
<1>14. Single'
  BY <1>3, <1>4, <1>8, <1>9, <1>11, <1>13 DEF Single
<1>15. Apart(rx_read_replies')
  BY <1>2, <1>11
<1>16. QED
  BY <1>6, <1>7, <1>12, <1>14, <1>15, ConservedNext

LEMMA SendConserves ==
  ASSUME Typed, BuffersConserved, NEW t \in Tasks, Send(t)
  PROVE  Typed' /\ BuffersConserved'
<1> USE DEF Typed
<1> DEFINE r == reply[t]
           b == r.buffer
<1>1. r \in Replies /\ r.gpu_signal = 0 /\ b \in Buffers /\ r.finished \in BOOLEAN
  <2>1. r \in Replies
    BY DEF Send, TypeOK
  <2>2. QED
    BY <2>1, Distinct DEF Replies
<1>2. NextTyped' /\ \E to \in {"signalling", "spawned", "reading"} : Goes(t, to)
  <2>1. Done(t, r.len = 0) \in next[t]..ChunkCount[t[2]]
    BY DoneTyped
  <2>2. Passes(t, Done(t, r.len = 0), "signalling")
    BY DEF Send
  <2>3. QED
    BY <2>1, <2>2, PassesTyped
<1> PICK to \in {"signalling", "spawned", "reading"} : Goes(t, to)
  BY <1>2
<1>3. /\ pc[t] = "sending" /\ rx_read_replies' = Append(rx_read_replies, r)
      /\ reply' = [reply EXCEPT ![t] = NoReply]
      /\ UNCHANGED <<setting, run, rx_empty_buffers, rx_sink>>
  BY DEF Send, worker
<1>4. /\ reply'[t] = NoReply /\ \A u \in Tasks : u # t => reply'[u] = reply[u]
      /\ pc'[t] = to /\ \A u \in Tasks : u # t => pc'[u] = pc[u]
  BY <1>3 DEF TypeOK, Goes
<1>5. TypeOK'
  <2>1. \A u \in Tasks : (pc[u] = "sending" <=> reply[u] # NoReply)'
    BY <1>4 DEF TypeOK
  <2>2. pc' \in [Tasks -> Pcs] /\ reply' \in [Tasks -> Replies \cup {NoReply}]
    BY <1>3 DEF TypeOK, Pcs, Goes
  <2>3. rx_read_replies' \in Seq(Replies \cup Signals)
    BY <1>1, <1>3 DEF TypeOK
  <2>4. QED
    BY <1>2, <1>3, <2>1, <2>2, <2>3 DEF TypeOK, Pcs, NextTyped
<1>6. NotYet'
  BY <1>3, <1>4 DEF NotYet
<1>7. Sending' = Sending \ {t} /\ t \in Sending /\ \A u \in Sending' : reply'[u] = reply[u]
  BY <1>3, <1>4 DEF Sending
<1>8. Parted(rx_empty_buffers, Filled, Carried(rx_read_replies), rx_sink)
      /\ Single /\ Apart(rx_read_replies)
  BY ConservedParts
<1> HIDE DEF r
<1>9. Filled' = Filled \ {b} /\ b \in Filled
  <2>1. \A u \in Sending : u # t => reply[u].buffer # b
    BY <1>7, <1>8 DEF Single, r
  <2>2. Filled' = {reply[u].buffer : u \in Sending \ {t}}
    BY <1>7 DEF Filled
  <2>3. QED
    BY <1>7, <2>1, <2>2 DEF Filled, r
<1>10. b \notin Carried(rx_read_replies)
  BY <1>8, <1>9 DEF Parted
<1>11. /\ Carried(rx_read_replies') = Carried(rx_read_replies) \cup {b}
       /\ Apart(rx_read_replies')
  <2>1. rx_read_replies \in Seq(Replies \cup Signals) /\ r \in Replies \cup Signals
    BY <1>1 DEF TypeOK
  <2>2. QED
    BY <1>1, <1>3, <1>8, <1>10, <2>1, Appended
<1>12. Parted(rx_empty_buffers', Filled', Carried(rx_read_replies'), rx_sink')
  BY <1>3, <1>8, <1>9, <1>11 DEF Parted
<1>13. Single'
  BY <1>7, <1>8 DEF Single
<1>14. QED
  BY <1>5, <1>6, <1>11, <1>12, <1>13, ConservedNext

\* The places after the worker has taken a message: what carries no buffer may
\* empty the sink; a buffer goes back, or into the sink, which is emptied first.
Outcomes(m) ==
  \/ m.gpu_signal # 0 /\ UNCHANGED <<rx_empty_buffers, rx_sink>>
  \/ m.gpu_signal # 0 /\ Drained
  \/ /\ m.gpu_signal = 0 /\ rx_empty_buffers' = rx_empty_buffers \cup {m.buffer}
     /\ UNCHANGED rx_sink
  \/ /\ m.gpu_signal = 0 /\ rx_sink' = {m.buffer}
     /\ rx_empty_buffers' = rx_empty_buffers \cup rx_sink

LEMMA WorkerMoves ==
  ASSUME TypeOK, WorkerStep
  PROVE  /\ rx_read_replies # <<>>
         /\ rx_read_replies' = Tail(rx_read_replies)
         /\ Outcomes(Head(rx_read_replies))
         /\ UNCHANGED <<setting, run, pc, next, reply>>
<1> DEFINE m == Head(rx_read_replies)
<1>1. /\ rx_read_replies # <<>> /\ rx_read_replies' = Tail(rx_read_replies)
      /\ NothingRead(m) \/ HashNow(m) \/ StartSignal(m) \/ EndSignal(m)
         \/ FirstBuffer(m) \/ NextBuffer(m)
      /\ UNCHANGED <<setting, run, pc, next, reply>>
  BY DEF WorkerStep, Next_reply, readers
<1>2. m \in Replies \cup Signals
  BY <1>1 DEF TypeOK
<1>3. m.gpu_signal = 0 \/ (m.gpu_signal \in {1, 2} /\ m.len = 1)
  <2>1. CASE m \in Replies
    BY <2>1, Distinct
  <2>2. CASE m \in Signals
    <3>1. PICK n \in 1..MaxRuns, kind \in {1, 2} : m = Signal(n, kind)
      BY <2>2 DEF Signals
    <3>2. QED
      BY <3>1 DEF Signal, NoReply
  <2>3. QED
    BY <1>2, <2>1, <2>2
<1> HIDE DEF m
<1>4. ASSUME NothingRead(m) PROVE Outcomes(m)
  BY <1>3, <1>4 DEF NothingRead, worker, Outcomes
<1>5. ASSUME HashNow(m) PROVE Outcomes(m)
  BY <1>3, <1>5 DEF HashNow, Outcomes
<1>6. ASSUME StartSignal(m) PROVE Outcomes(m)
  BY <1>3, <1>6 DEF StartSignal, Outcomes
<1>7. ASSUME EndSignal(m) PROVE Outcomes(m)
  BY <1>3, <1>7 DEF EndSignal, Outcomes
<1>8. ASSUME FirstBuffer(m) PROVE Outcomes(m)
  BY <1>3, <1>8 DEF FirstBuffer, Sinks, Outcomes
<1>9. ASSUME NextBuffer(m) PROVE Outcomes(m)
  BY <1>3, <1>9 DEF NextBuffer, transfer_and_hash, Sinks, Outcomes
<1>10. Outcomes(m)
  BY <1>1, <1>4, <1>5, <1>6, <1>7, <1>8, <1>9
<1>11. QED
  BY <1>1, <1>10 DEF m

LEMMA WorkerConserves ==
  ASSUME Typed, BuffersConserved, WorkerStep
  PROVE  Typed' /\ BuffersConserved'
<1> USE DEF Typed
<1> DEFINE m == Head(rx_read_replies)
<1>1. /\ rx_read_replies # <<>> /\ rx_read_replies' = Tail(rx_read_replies)
      /\ Outcomes(m) /\ UNCHANGED <<setting, run, pc, next, reply>>
  BY WorkerMoves
<1>2. rx_read_replies \in Seq(Replies \cup Signals)
  BY DEF TypeOK
<1>3. m \in Replies \cup Signals /\ rx_read_replies' \in Seq(Replies \cup Signals)
  BY <1>1, <1>2
<1>4. m.gpu_signal = 0 => m.buffer \in Buffers
  BY <1>3, Distinct
<1>5. Parted(rx_empty_buffers, Filled, Carried(rx_read_replies), rx_sink)
      /\ Single /\ Apart(rx_read_replies)
  BY ConservedParts
<1>6. /\ m.gpu_signal = 0 =>
           /\ Carried(rx_read_replies') = Carried(rx_read_replies) \ {m.buffer}
           /\ m.buffer \in Carried(rx_read_replies)
      /\ m.gpu_signal # 0 => Carried(rx_read_replies') = Carried(rx_read_replies)
      /\ Apart(rx_read_replies')
  BY <1>1, <1>2, <1>5, Taken
<1>7. Filled' = Filled /\ Single'
  <2>1. Sending' = Sending
    BY <1>1 DEF Sending
  <2>2. QED
    BY <1>1, <1>5, <2>1 DEF Filled, Single
<1> HIDE DEF m
<1>8. Parted(rx_empty_buffers', Filled', Carried(rx_read_replies'), rx_sink')
  <2>1. CASE m.gpu_signal # 0 /\ UNCHANGED <<rx_empty_buffers, rx_sink>>
    BY <1>5, <1>6, <1>7, <2>1
  <2>2. CASE m.gpu_signal # 0 /\ Drained
    BY <1>5, <1>6, <1>7, <2>2 DEF Drained, Parted
  <2>3. CASE /\ m.gpu_signal = 0 /\ rx_empty_buffers' = rx_empty_buffers \cup {m.buffer}
             /\ UNCHANGED rx_sink
    BY <1>5, <1>6, <1>7, <2>3 DEF Parted
  <2>4. CASE /\ m.gpu_signal = 0 /\ rx_sink' = {m.buffer}
             /\ rx_empty_buffers' = rx_empty_buffers \cup rx_sink
    BY <1>5, <1>6, <1>7, <2>4 DEF Parted
  <2>5. QED
    BY <1>1, <2>1, <2>2, <2>3, <2>4 DEF Outcomes
<1>9. Typed'
  <2>1. rx_empty_buffers' \subseteq Buffers /\ rx_sink' \subseteq Buffers
    BY <1>1, <1>4 DEF Outcomes, Drained, TypeOK
  <2>2. QED
    BY <1>1, <1>3, <2>1 DEF TypeOK, NotYet
<1>10. QED
  BY <1>6, <1>7, <1>8, <1>9, ConservedNext

LEMMA StartConserves ==
  ASSUME Typed, BuffersConserved, start_reading
  PROVE  Typed' /\ BuffersConserved'
<1>1. Typed'
  BY StartTyped
<1>2. /\ UNCHANGED <<reply, rx_empty_buffers, rx_sink>>
      /\ rx_read_replies' = Append(rx_read_replies, Signal(run + 1, 1))
  BY DEF start_reading, worker
<1>3. Signal(run + 1, 1) \in Signals
  BY TaskTypes DEF start_reading, Signals, Typed
<1>4. Sending' = Sending
  <2>1. Sending = {t \in Tasks : reply[t] # NoReply}
    BY DEF Sending, Typed, TypeOK
  <2>2. Sending' = {t \in Tasks : reply'[t] # NoReply}
    BY <1>1 DEF Sending, Typed, TypeOK
  <2>3. QED
    BY <1>2, <2>1, <2>2
<1>5. QED
  BY <1>1, <1>2, <1>3, <1>4, NothingMoves DEF Typed

LEMMA NextConserves ==
  ASSUME Typed, BuffersConserved, [Next]_vars
  PROVE  Typed' /\ BuffersConserved'
<1>1. CASE start_reading
  BY <1>1, StartConserves
<1>2. ASSUME NEW t \in Tasks, ReaderStep(t)
      PROVE  Typed' /\ BuffersConserved'
  <2>1. CASE Read(t)
    BY <2>1, ReadConserves
  <2>2. CASE Send(t)
    BY <2>2, SendConserves
  <2>3. CASE Moves(t)
    BY <2>3, OnlyMoves, NothingMoves DEF Typed
  <2>4. QED
    BY <1>2, <2>1, <2>2, <2>3 DEF ReaderStep, Moves
<1>3. CASE WorkerStep
  BY <1>3, WorkerConserves
<1>4. CASE stop_reading \/ UNCHANGED vars
  <2>1. UNCHANGED <<setting, run, pc, next, reply, rx_empty_buffers, rx_read_replies, rx_sink>>
    BY <1>4 DEF vars, readers, worker, stop_reading
  <2>2. Typed' /\ Sending' = Sending
    BY <2>1 DEF Typed, TypeOK, NotYet, Sending
  <2>3. QED
    BY <2>1, <2>2, NothingMoves DEF Typed
<1>5. QED
  BY <1>1, <1>2, <1>3, <1>4 DEF Next

LEMMA InitConserved == Init => BuffersConserved
<1> SUFFICES ASSUME Init PROVE BuffersConserved
  OBVIOUS
<1>1. Sending = {} /\ Waiting = {}
  BY DEF Init, Sending, Waiting
<1>2. Filled = {} /\ Queued = {}
  BY <1>1 DEF Filled, Queued
<1>3. QED
  BY <1>1, <1>2 DEF Init, BuffersConserved

LEMMA Inductive == Spec => [](Typed /\ BuffersConserved)
<1>1. Init => Typed /\ BuffersConserved
  BY TypeInit, InitConserved
<1>2. (Typed /\ BuffersConserved) /\ [Next]_vars => (Typed /\ BuffersConserved)'
  BY NextConserves
<1>3. QED
  BY <1>1, <1>2, PTL DEF Spec

\* The tasks, their replies and the channels keep their types, and only a task
\* about to send holds a reply (reader.rs:205-366).
THEOREM Typing == Spec => []TypeOK
<1>1. Typed /\ BuffersConserved => TypeOK
  BY DEF Typed
<1>2. QED
  BY <1>1, Inductive, PTL

\* Every buffer of a GPU is in exactly one place at any time, whichever worker
\* has it and whatever scans are interrupted or fail to be read
\* (gpu_worker_async.rs:49-173, gpu_worker.rs:28-82, reader.rs:221-366).
THEOREM Conserved == Spec => []BuffersConserved
<1>1. Typed /\ BuffersConserved => BuffersConserved
  OBVIOUS
<1>2. QED
  BY <1>1, Inductive, PTL

-----------------------------------------------------------------------------
(* What is in the buffers.                                                  *)

LEMMA AtEnd ==
  ASSUME NEW M, NEW s \in Seq(M), NEW m \in M
  PROVE  /\ Len(s) \in Nat /\ Len(Append(s, m)) = Len(s) + 1
         /\ Append(s, m)[Len(s) + 1] = m /\ Len(s) + 1 \in 1..Len(Append(s, m))
         /\ \A i \in 1..Len(s) :
              i \in 1..Len(Append(s, m)) /\ Append(s, m)[i] = s[i] /\ i < Len(s) + 1
         /\ \A i \in 1..Len(Append(s, m)) : i \in 1..Len(s) \/ i = Len(s) + 1
         /\ Len(s) + 1 \notin 1..Len(s)
OBVIOUS

LEMMA AtHead ==
  ASSUME NEW M, NEW s \in Seq(M), s # <<>>
  PROVE  /\ Head(s) = s[1] /\ 1 \in 1..Len(s)
         /\ \A i \in 1..Len(Tail(s)) :
              i \in Nat /\ i + 1 \in 1..Len(s) /\ Tail(s)[i] = s[i + 1] /\ i + 1 # 1
         /\ \A i \in 1..Len(s) : i # 1 =>
              i \in Nat /\ i - 1 \in 1..Len(Tail(s)) /\ Tail(s)[i - 1] = s[i]
<1>1. /\ Len(s) \in Nat \ {0} /\ Len(Tail(s)) = Len(s) - 1 /\ Head(s) = s[1]
      /\ \A i \in 1..(Len(s) - 1) : Tail(s)[i] = s[i + 1]
  OBVIOUS
<1>2. ASSUME NEW i \in 1..Len(s), i # 1
      PROVE  i \in Nat /\ i - 1 \in 1..Len(Tail(s)) /\ Tail(s)[i - 1] = s[i]
  <2>1. i - 1 \in 1..(Len(s) - 1) /\ (i - 1) + 1 = i
    BY <1>1, <1>2
  <2>2. QED
    BY <1>1, <2>1
<1>3. QED
  BY <1>1, <1>2

\* What was read for reply m.
Own(m) == <<m.run, m.drive, m.chunk>>

Data == (0..MaxRuns) \X (Drives \cup {"none"}) \X Nat

\* Reply m says of its buffer what is in it.
AsRead(d, m) ==
  m.len # 0 => d[m.buffer] = Own(m)

Places == 1..Len(rx_read_replies)

FilledInv ==
  /\ data \in [Buffers -> Data] /\ data_gpu \in [Buffers -> Data]
  /\ {t \in Tasks : t[1] < run} \subseteq interupts
  /\ \A t \in Sending :
       /\ reply[t].run = t[1] /\ reply[t].drive = t[2] /\ reply[t].chunk = next[t]
       /\ AsRead(data, reply[t])
  /\ \A i \in Places : rx_read_replies[i].run \in 1..run
  /\ \A i \in Waiting : AsRead(data, rx_read_replies[i])

\* A task that has been started is of a scan that was.
LEMMA StartedRun ==
  ASSUME Typed
  PROVE  /\ run \in Nat
         /\ \A t \in Tasks : pc[t] # "new" => t[1] \in 1..run
<1>1. ASSUME NEW t \in Tasks, pc[t] # "new" PROVE t[1] \in 1..run
  <2>1. t[1] \in 1..MaxRuns /\ ~(t[1] > run)
    BY <1>1, TaskTypes DEF Typed, NotYet
  <2>2. QED
    BY <2>1, TaskTypes DEF Typed
<1>2. QED
  BY <1>1, TaskTypes DEF Typed

\* What a read does: nobody else holds the buffer it fills.
LEMMA ReadFacts ==
  ASSUME Typed, BuffersConserved, FilledInv, NEW t \in Tasks, Read(t)
  PROVE  /\ reply'[t] \in Replies
         /\ reply'[t].run = t[1] /\ reply'[t].drive = t[2] /\ reply'[t].chunk = next[t]
         /\ reply'[t].len # 0 => data'[reply'[t].buffer] = Own(reply'[t])
         /\ data' \in [Buffers -> Data]
         /\ reply'[t].buffer \in rx_empty_buffers
         /\ \A c \in Buffers : c # reply'[t].buffer => data'[c] = data[c]
         /\ \A u \in Tasks : u # t => reply'[u] = reply[u] /\ pc'[u] = pc[u]
         /\ pc'[t] = "sending" /\ pc[t] = "reading" /\ t[1] = run
         /\ Sending' = Sending \cup {t} /\ t \notin Sending
         /\ UNCHANGED <<setting, run, next, interupts, sent, rx_read_replies, worker,
                        reports>>
<1>1. PICK len \in {0, 64}, b \in rx_empty_buffers :
        /\ data' = IF len = 0 THEN data ELSE [data EXCEPT ![b] = Chunk(t)]
        /\ reply' = [reply EXCEPT ![t] =
             [buffer |-> b, len |-> len, run |-> t[1], drive |-> t[2],
              chunk |-> next[t], finished |-> Done(t, len = 0) = ChunkCount[t[2]],
              gpu_signal |-> 0]]
  BY DEF Read
<1>2. /\ pc[t] = "reading" /\ t \notin interupts /\ pc' = [pc EXCEPT ![t] = "sending"]
      /\ UNCHANGED <<setting, run, next, interupts, sent, rx_read_replies, worker, reports>>
  BY DEF Read, Goes
<1> DEFINE r == [buffer |-> b, len |-> len, run |-> t[1], drive |-> t[2],
                 chunk |-> next[t], finished |-> Done(t, len = 0) = ChunkCount[t[2]],
              gpu_signal |-> 0]
<1>3. /\ t[1] \in 1..MaxRuns /\ t[2] \in Drives /\ next[t] \in Nat /\ b \in Buffers
      /\ t[1] \in 1..run
  BY <1>2, TaskTypes, StartedRun DEF Typed, TypeOK
<1>4. /\ r.buffer = b /\ r.len = len /\ r.run = t[1] /\ r.drive = t[2]
      /\ r.chunk = next[t]
  OBVIOUS
<1>5. r \in Replies
  <2>1. (Done(t, len = 0) = ChunkCount[t[2]]) \in BOOLEAN
    OBVIOUS
  <2>2. QED
    BY <1>3, <2>1 DEF Replies
<1>6. reply'[t] = r /\ \A u \in Tasks : u # t => reply'[u] = reply[u]
  BY <1>1 DEF Typed, TypeOK
<1>7. pc'[t] = "sending" /\ \A u \in Tasks : u # t => pc'[u] = pc[u]
  BY <1>2 DEF Typed, TypeOK
<1>8. t[1] = run
  <2>1. ~(t[1] < run)
    BY <1>2 DEF FilledInv
  <2>2. QED
    BY <1>3, <2>1, StartedRun
<1>9. Chunk(t) = Own(r) /\ Chunk(t) \in Data
  <2>1. Chunk(t) = Own(r)
    BY <1>4 DEF Chunk, Own
  <2>2. t[1] \in 0..MaxRuns
    BY <1>3, TaskTypes DEF Typed
  <2>3. QED
    BY <1>3, <2>1, <2>2 DEF Chunk, Data
<1>10. Sending' = Sending \cup {t} /\ t \notin Sending
  BY <1>2, <1>7 DEF Sending
<1> HIDE DEF r
<1>11. /\ data' \in [Buffers -> Data]
       /\ len # 0 => data'[b] = Own(r)
       /\ \A c \in Buffers : c # b => data'[c] = data[c]
  BY <1>1, <1>3, <1>9 DEF FilledInv
<1>12. QED
  BY <1>2, <1>4, <1>5, <1>6, <1>7, <1>8, <1>10, <1>11

\* A reply that is under way is not in an empty buffer.
LEMMA NotEmpty ==
  ASSUME BuffersConserved
  PROVE  /\ \A t \in Sending : reply[t].buffer \notin rx_empty_buffers
         /\ \A i \in Waiting : rx_read_replies[i].buffer \notin rx_empty_buffers
BY DEF BuffersConserved, Filled, Queued

LEMMA WaitingTypes ==
  ASSUME TypeOK
  PROVE  /\ \A i \in Places : rx_read_replies[i] \in Replies \cup Signals
         /\ \A i \in Waiting : i \in Places /\ rx_read_replies[i] \in Replies
         /\ \A t \in Sending : t \in Tasks /\ reply[t] \in Replies
<1>1. \A i \in Places : rx_read_replies[i] \in Replies \cup Signals
  BY DEF TypeOK, Places
<1>2. ASSUME NEW i \in Waiting PROVE i \in Places /\ rx_read_replies[i] \in Replies
  BY <1>1, <1>2, Distinct DEF Waiting, Places
<1>3. ASSUME NEW t \in Sending PROVE t \in Tasks /\ reply[t] \in Replies
  BY <1>3 DEF Sending, TypeOK
<1>4. QED
  BY <1>1, <1>2, <1>3

\* A message put at the end of the queue leaves the others in their places.
LEMMA PlacesAppended ==
  ASSUME TypeOK, NEW m \in Replies \cup Signals,
         rx_read_replies' = Append(rx_read_replies, m)
  PROVE  /\ Places' = Places \cup {Len(rx_read_replies) + 1}
         /\ Len(rx_read_replies) + 1 \notin Places
         /\ rx_read_replies'[Len(rx_read_replies) + 1] = m
         /\ \A i \in Places : rx_read_replies'[i] = rx_read_replies[i]
                              /\ i < Len(rx_read_replies) + 1
         /\ m.gpu_signal = 0 => Waiting' = Waiting \cup {Len(rx_read_replies) + 1}
         /\ m.gpu_signal # 0 => Waiting' = Waiting
<1> DEFINE s == rx_read_replies
           q == Append(s, m)
           n == Len(s) + 1
<1>1. s \in Seq(Replies \cup Signals)
  BY DEF TypeOK
<1>2. /\ q[n] = m /\ n \in 1..Len(q) /\ n \notin 1..Len(s)
      /\ \A i \in 1..Len(s) : i \in 1..Len(q) /\ q[i] = s[i] /\ i < n
      /\ \A i \in 1..Len(q) : i \in 1..Len(s) \/ i = n
  BY <1>1, AtEnd
<1>3. Places = 1..Len(s) /\ Places' = 1..Len(q)
  BY DEF Places
<1>4. /\ Waiting = {i \in 1..Len(s) : s[i].gpu_signal = 0}
      /\ Waiting' = {i \in 1..Len(q) : q[i].gpu_signal = 0}
  BY DEF Waiting
<1>5. rx_read_replies' = q
  OBVIOUS
<1> HIDE DEF q, n
<1>6. m.gpu_signal = 0 => Waiting' = Waiting \cup {n}
  BY <1>2, <1>4
<1>7. m.gpu_signal # 0 => Waiting' = Waiting
  BY <1>2, <1>4
<1>8. QED
  BY <1>2, <1>3, <1>5, <1>6, <1>7 DEF n

\* The others move up when the first message is taken.
LEMMA PlacesTaken ==
  ASSUME TypeOK, rx_read_replies # <<>>, rx_read_replies' = Tail(rx_read_replies)
  PROVE  /\ 1 \in Places /\ Head(rx_read_replies) = rx_read_replies[1]
         /\ Head(rx_read_replies) \in Replies \cup Signals
         /\ \A i \in Places' : /\ i \in Nat /\ i + 1 \in Places /\ i + 1 # 1
                               /\ rx_read_replies'[i] = rx_read_replies[i + 1]
         /\ \A i \in Places : i # 1 =>
              i \in Nat /\ i - 1 \in Places' /\ rx_read_replies'[i - 1] = rx_read_replies[i]
         /\ \A i \in Waiting' : i \in Places' /\ i + 1 \in Waiting
         /\ \A i \in Waiting : i \in Places /\ (i # 1 => i - 1 \in Waiting')
         /\ Head(rx_read_replies).gpu_signal = 0 <=> 1 \in Waiting
<1> DEFINE s == rx_read_replies
           q == Tail(s)
<1>1. s \in Seq(Replies \cup Signals) /\ Head(s) \in Replies \cup Signals
  BY DEF TypeOK
<1>2. /\ Head(s) = s[1] /\ 1 \in 1..Len(s)
      /\ \A i \in 1..Len(q) : i \in Nat /\ i + 1 \in 1..Len(s) /\ q[i] = s[i + 1] /\ i + 1 # 1
      /\ \A i \in 1..Len(s) : i # 1 => i \in Nat /\ i - 1 \in 1..Len(q) /\ q[i - 1] = s[i]
  BY <1>1, AtHead
<1>3. Places = 1..Len(s) /\ Places' = 1..Len(q) /\ rx_read_replies' = q
  BY DEF Places
<1>4. /\ Waiting = {i \in 1..Len(s) : s[i].gpu_signal = 0}
      /\ Waiting' = {i \in 1..Len(q) : q[i].gpu_signal = 0}
  BY DEF Waiting
<1> HIDE DEF s, q
<1>5. /\ \A i \in Waiting' : i \in Places' /\ i + 1 \in Waiting
      /\ \A i \in Waiting : i \in Places /\ (i # 1 => i - 1 \in Waiting')
      /\ Head(s).gpu_signal = 0 <=> 1 \in Waiting
  BY <1>2, <1>3, <1>4
<1>6. QED
  BY <1>1, <1>2, <1>3, <1>5 DEF s

LEMMA MoveFacts ==
  ASSUME Typed, NEW t \in Tasks, Moves(t)
  PROVE  /\ \A u \in Tasks : u # t => pc'[u] = pc[u] /\ next'[u] = next[u]
         /\ pc[t] \notin {"new", "sending", "ended"}
         /\ pc'[t] \notin {"new", "sending"}
         /\ pc'[t] \in {"spawned", "reading"} =>
              pc[t] \in {"spawned", "reading"} /\ next'[t] >= next[t]
         /\ Sending' = Sending /\ t \notin Sending
         /\ UNCHANGED <<setting, run, reply, interupts, sent, rx_empty_buffers, data,
                        worker, reports>>
         /\ \/ rx_read_replies' = rx_read_replies /\ pc'[t] # "ended"
            \/ /\ rx_read_replies' = Append(rx_read_replies, Signal(t[1], 2))
               /\ Signal(t[1], 2) \in Signals /\ pc[t] = "signalling" /\ pc'[t] = "ended"
<1>1. /\ UNCHANGED <<setting, run, reply, interupts, sent, rx_empty_buffers, data,
                     worker, reports>>
      /\ pc[t] \notin {"new", "sending", "ended"}
  BY DEF Moves, Prepare, ReadElsewhere, Stops, SendEnd
<1>2. Sending' = Sending /\ t \notin Sending
  BY <1>1, OnlyMoves DEF Sending
<1>3. /\ \A u \in Tasks : u # t => pc'[u] = pc[u] /\ next'[u] = next[u]
      /\ pc'[t] \notin {"new", "sending"}
      /\ pc'[t] \in {"spawned", "reading"} =>
           pc[t] \in {"spawned", "reading"} /\ next'[t] >= next[t]
      /\ pc'[t] = "ended" <=> SendEnd(t)
  BY MoveTo DEF Typed
<1>4. CASE SendEnd(t)
  <2>1. t[1] \in 1..MaxRuns
    BY TaskTypes DEF Typed
  <2>2. Signal(t[1], 2) \in Signals
    BY <2>1 DEF Signals
  <2>3. /\ rx_read_replies' = Append(rx_read_replies, Signal(t[1], 2))
        /\ pc[t] = "signalling"
    BY <1>4 DEF SendEnd
  <2>4. QED
    BY <1>1, <1>2, <1>3, <1>4, <2>2, <2>3
<1>5. CASE ~SendEnd(t)
  <2>1. rx_read_replies' = rx_read_replies /\ pc'[t] # "ended"
    BY <1>3, <1>5 DEF Moves, Prepare, ReadElsewhere, Stops
  <2>2. QED
    BY <1>1, <1>2, <1>3, <2>1
<1>6. QED
  BY <1>4, <1>5

\* A reply goes to the worker.
LEMMA SendFacts ==
  ASSUME Typed, NEW t \in Tasks, Send(t)
  PROVE  /\ \A u \in Tasks : u # t => /\ pc'[u] = pc[u] /\ next'[u] = next[u]
                                      /\ reply'[u] = reply[u]
         /\ pc[t] = "sending" /\ t \in Sending /\ Sending' = Sending \ {t}
         /\ pc'[t] \in {"signalling", "spawned", "reading"}
         /\ pc'[t] \in {"spawned", "reading"} => next'[t] > next[t]
         /\ reply[t] \in Replies
         /\ rx_read_replies' = Append(rx_read_replies, reply[t])
         /\ sent' = sent \cup {Said(reply[t])}
         /\ UNCHANGED <<setting, run, interupts, rx_empty_buffers, data, worker, reports>>
<1>1. /\ pc[t] = "sending" /\ Passes(t, Done(t, reply[t].len = 0), "signalling")
      /\ rx_read_replies' = Append(rx_read_replies, reply[t])
      /\ sent' = sent \cup {Said(reply[t])}
      /\ reply' = [reply EXCEPT ![t] = NoReply]
      /\ UNCHANGED <<setting, run, interupts, rx_empty_buffers, data, worker, reports>>
  BY DEF Send
<1>2. reply[t] \in Replies
  BY <1>1 DEF Typed, TypeOK
<1>3. Done(t, reply[t].len = 0) \in next[t]..ChunkCount[t[2]]
  BY DoneTyped DEF Typed
<1>4. /\ \A u \in Tasks : u # t => next'[u] = next[u]
      /\ \/ Goes(t, "signalling") /\ next' = next
         \/ Goes(t, "spawned") /\ next'[t] > next[t]
         \/ Goes(t, "reading") /\ next'[t] > next[t]
  BY <1>1, <1>3, PassesTyped DEF Typed
<1>5. /\ \A u \in Tasks : u # t => pc'[u] = pc[u]
      /\ pc'[t] \in {"signalling", "spawned", "reading"}
      /\ pc'[t] \in {"spawned", "reading"} => next'[t] > next[t]
  BY <1>4 DEF Goes, Typed, TypeOK
<1>6. \A u \in Tasks : u # t => reply'[u] = reply[u]
  BY <1>1 DEF Typed, TypeOK
<1>7. t \in Sending /\ Sending' = Sending \ {t}
  BY <1>1, <1>5 DEF Sending
<1>8. QED
  BY <1>1, <1>2, <1>4, <1>5, <1>6, <1>7

LEMMA SignalFields ==
  /\ \A n, kind : Signal(n, kind).run = n /\ Signal(n, kind).gpu_signal = kind
  /\ \A m \in Replies : m.run \in 1..MaxRuns /\ m.gpu_signal = 0 /\ m.buffer \in Buffers
                        /\ m.len \in {0, 64}
  /\ \A m \in Signals : m.run \in 1..MaxRuns /\ m.gpu_signal \in {1, 2} /\ m.len = 1
<1>1. \A n, kind : Signal(n, kind).run = n /\ Signal(n, kind).gpu_signal = kind
                   /\ Signal(n, kind).len = 1
  BY DEF Signal, NoReply
<1>2. QED
  BY <1>1 DEF Signals, Replies

\* What the worker does with the first message.
WorkerActs(m) ==
  NothingRead(m) \/ HashNow(m) \/ StartSignal(m) \/ EndSignal(m)
    \/ FirstBuffer(m) \/ NextBuffer(m)

LEMMA WorkerCases ==
  ASSUME TypeOK, WorkerStep
  PROVE  /\ rx_read_replies # <<>> /\ rx_read_replies' = Tail(rx_read_replies)
         /\ WorkerActs(Head(rx_read_replies))
         /\ Head(rx_read_replies) \in Replies \cup Signals
         /\ UNCHANGED <<setting, run, pc, next, reply, interupts, sent, data>>
         /\ Sending' = Sending
<1>1. /\ rx_read_replies # <<>> /\ rx_read_replies' = Tail(rx_read_replies)
      /\ WorkerActs(Head(rx_read_replies))
      /\ UNCHANGED <<setting, run, pc, next, reply, interupts, sent, data>>
  BY DEF WorkerStep, Next_reply, readers, WorkerActs
<1>2. Head(rx_read_replies) \in Replies \cup Signals
  BY <1>1 DEF TypeOK
<1>3. Sending' = Sending
  BY <1>1 DEF Sending
<1>4. QED
  BY <1>1, <1>2, <1>3

LEMMA FilledStart ==
  ASSUME Typed, FilledInv, start_reading
  PROVE  FilledInv'
<1>1. /\ run' = run + 1 /\ run \in Nat /\ Signal(run + 1, 1) \in Signals
      /\ rx_read_replies' = Append(rx_read_replies, Signal(run + 1, 1))
      /\ interupts' = interupts \cup {t \in Tasks : t[1] = run}
      /\ UNCHANGED <<setting, next, reply, rx_empty_buffers, data, data_gpu>>
  BY TaskTypes DEF start_reading, Signals, Typed, worker, Started
<1>2. Sending' = Sending
  <2>1. \A t \in Tasks : pc'[t] = "sending" <=> pc[t] = "sending"
    BY <1>1, StartTyped DEF Typed, TypeOK
  <2>2. QED
    BY <2>1 DEF Sending
<1>3. /\ Places' = Places \cup {Len(rx_read_replies) + 1} /\ Waiting' = Waiting
      /\ rx_read_replies'[Len(rx_read_replies) + 1] = Signal(run + 1, 1)
      /\ \A i \in Places : rx_read_replies'[i] = rx_read_replies[i]
  BY <1>1, PlacesAppended, Distinct DEF Typed
<1>4. {t \in Tasks : t[1] < run'} \subseteq interupts'
  <2>1. \A t \in Tasks : t[1] < run + 1 => t[1] < run \/ t[1] = run
    BY <1>1, TaskTypes DEF Typed
  <2>2. QED
    BY <1>1, <2>1 DEF FilledInv
<1>5. \A i \in Places' : rx_read_replies'[i].run \in 1..run'
  <2>1. \A i \in Places : rx_read_replies'[i].run \in 1..run'
    <3>1. 1..run \subseteq 1..run'
      BY <1>1
    <3>2. QED
      BY <1>3, <3>1 DEF FilledInv
  <2>2. Signal(run + 1, 1).run \in 1..run'
    BY <1>1, SignalFields
  <2>3. QED
    BY <1>3, <2>1, <2>2
<1>6. \A i \in Waiting' : AsRead(data', rx_read_replies'[i]) 
  BY <1>1, <1>3, WaitingTypes DEF FilledInv, Typed
<1>7. \A t \in Sending' : AsRead(data', reply'[t])
  BY <1>1, <1>2 DEF FilledInv
<1>8. QED
  BY <1>1, <1>2, <1>4, <1>5, <1>6, <1>7 DEF FilledInv

LEMMA FilledRead ==
  ASSUME Typed, BuffersConserved, FilledInv, NEW t \in Tasks, Read(t)
  PROVE  FilledInv'
<1>1. /\ data' \in [Buffers -> Data] /\ Sending' = Sending \cup {t}
      /\ UNCHANGED <<run, next, interupts, rx_read_replies, data_gpu>>
      /\ \A u \in Sending : u # t /\ reply'[u] = reply[u]
  BY ReadFacts DEF worker, Sending
<1>2. /\ reply'[t].run = t[1] /\ reply'[t].drive = t[2] /\ reply'[t].chunk = next[t]
      /\ AsRead(data', reply'[t])
  BY ReadFacts DEF AsRead
<1>3. ASSUME NEW m \in Replies, m.buffer \notin rx_empty_buffers, AsRead(data, m)
      PROVE  AsRead(data', m)
  BY <1>3, ReadFacts, SignalFields DEF AsRead
<1>4. \A u \in Sending : AsRead(data', reply'[u])
  BY <1>1, <1>3, NotEmpty, WaitingTypes DEF FilledInv, Typed
<1>5. \A i \in Waiting' : AsRead(data', rx_read_replies'[i])
  <2>1. Waiting' = Waiting
    BY <1>1 DEF Waiting
  <2>2. QED
    BY <1>1, <1>3, <2>1, NotEmpty, WaitingTypes DEF FilledInv, Typed
<1>6. \A i \in Places' : rx_read_replies'[i].run \in 1..run'
  BY <1>1 DEF FilledInv, Places
<1>7. QED
  BY <1>1, <1>2, <1>4, <1>5, <1>6 DEF FilledInv

LEMMA FilledSend ==
  ASSUME Typed, FilledInv, NEW t \in Tasks, Send(t)
  PROVE  FilledInv'
<1>1. /\ reply[t] \in Replies /\ t \in Sending /\ Sending' = Sending \ {t}
      /\ rx_read_replies' = Append(rx_read_replies, reply[t])
      /\ UNCHANGED <<run, interupts, data, data_gpu>>
      /\ \A u \in Sending' : reply'[u] = reply[u] /\ next'[u] = next[u]
  BY SendFacts DEF worker, Sending
<1>2. /\ Places' = Places \cup {Len(rx_read_replies) + 1}
      /\ Waiting' = Waiting \cup {Len(rx_read_replies) + 1}
      /\ rx_read_replies'[Len(rx_read_replies) + 1] = reply[t]
      /\ \A i \in Places : rx_read_replies'[i] = rx_read_replies[i]
  BY <1>1, PlacesAppended, SignalFields DEF Typed
<1>3. \A i \in Places' : rx_read_replies'[i].run \in 1..run'
  <2>1. reply[t].run \in 1..run
    BY <1>1, StartedRun DEF FilledInv, Sending
  <2>2. QED
    BY <1>1, <1>2, <2>1 DEF FilledInv
<1>4. \A i \in Waiting' : AsRead(data', rx_read_replies'[i])
  BY <1>1, <1>2, WaitingTypes DEF FilledInv, Typed
<1>5. \A u \in Sending' : AsRead(data', reply'[u])
  BY <1>1 DEF FilledInv
<1>6. QED
  BY <1>1, <1>3, <1>4, <1>5 DEF FilledInv

LEMMA FilledMove ==
  ASSUME Typed, FilledInv, NEW t \in Tasks, Moves(t)
  PROVE  FilledInv'
<1>1. /\ Sending' = Sending
      /\ UNCHANGED <<run, reply, interupts, data, data_gpu>>
      /\ \A u \in Sending : next'[u] = next[u]
  BY MoveFacts DEF worker, Sending
<1>2. /\ \A i \in Places' : rx_read_replies'[i].run \in 1..run
      /\ \A i \in Waiting' : i \in Waiting /\ rx_read_replies'[i] = rx_read_replies[i]
  <2>1. CASE rx_read_replies' = rx_read_replies
    BY <2>1 DEF FilledInv, Places, Waiting
  <2>2. CASE /\ rx_read_replies' = Append(rx_read_replies, Signal(t[1], 2))
             /\ Signal(t[1], 2) \in Signals /\ pc[t] = "signalling"
    <3>1. t[1] \in 1..run /\ Signal(t[1], 2).run = t[1]
      BY <2>2, StartedRun, SignalFields
    <3>2. /\ Places' = Places \cup {Len(rx_read_replies) + 1} /\ Waiting' = Waiting
          /\ rx_read_replies'[Len(rx_read_replies) + 1] = Signal(t[1], 2)
          /\ \A i \in Places : rx_read_replies'[i] = rx_read_replies[i]
      BY <2>2, PlacesAppended, Distinct DEF Typed
    <3>3. QED
      BY <3>1, <3>2, WaitingTypes DEF FilledInv, Typed
  <2>3. QED
    BY <2>1, <2>2, MoveFacts
<1>3. \A i \in Waiting' : AsRead(data', rx_read_replies'[i])
  BY <1>1, <1>2 DEF FilledInv
<1>4. \A u \in Sending' : AsRead(data', reply'[u])
  BY <1>1 DEF FilledInv
<1>5. QED
  BY <1>1, <1>2, <1>3, <1>4 DEF FilledInv

LEMMA FilledWork ==
  ASSUME Typed, FilledInv, WorkerStep
  PROVE  FilledInv'
<1> DEFINE m == Head(rx_read_replies)
<1>1. /\ rx_read_replies # <<>> /\ rx_read_replies' = Tail(rx_read_replies)
      /\ WorkerActs(m) /\ m \in Replies \cup Signals
      /\ UNCHANGED <<run, next, reply, interupts, data>> /\ Sending' = Sending
  BY WorkerCases DEF Typed
<1> HIDE DEF m
<1>2. data_gpu' \in [Buffers -> Data]
  <2>1. ASSUME m.gpu_signal = 0, transfer_buffer_to_gpu(m.buffer)
        PROVE  data_gpu' \in [Buffers -> Data]
    <3>1. m.buffer \in Buffers
      BY <1>1, <2>1, Distinct
    <3>2. QED
      BY <2>1, <3>1 DEF transfer_buffer_to_gpu, FilledInv
  <2>2. ASSUME data_gpu' = data_gpu PROVE data_gpu' \in [Buffers -> Data]
    BY <2>2 DEF FilledInv
  <2>3. m.gpu_signal \in {0, 1, 2}
    BY <1>1, SignalFields
  <2>4. CASE NothingRead(m) \/ StartSignal(m) \/ EndSignal(m)
    BY <2>2, <2>4 DEF NothingRead, worker, StartSignal, EndSignal
  <2>5. CASE HashNow(m)
    BY <2>1, <2>2, <2>3, <2>5 DEF HashNow
  <2>6. CASE FirstBuffer(m) \/ NextBuffer(m)
    BY <2>1, <2>6 DEF FirstBuffer, NextBuffer, transfer_and_hash
  <2>7. QED
    BY <1>1, <2>4, <2>5, <2>6 DEF WorkerActs
<1>3. \A i \in Places' : rx_read_replies'[i].run \in 1..run'
  BY <1>1, PlacesTaken DEF Typed, FilledInv
<1>4. \A i \in Waiting' : AsRead(data', rx_read_replies'[i])
  <2>1. \A i \in Waiting' : /\ i + 1 \in Waiting
                            /\ rx_read_replies'[i] = rx_read_replies[i + 1]
    BY <1>1, PlacesTaken DEF Typed
  <2>2. QED
    BY <1>1, <2>1 DEF FilledInv
<1>5. \A t \in Sending' : AsRead(data', reply'[t])
  BY <1>1 DEF FilledInv
<1>6. QED
  BY <1>1, <1>2, <1>3, <1>4, <1>5 DEF FilledInv

\* The kinds of step.
LEMMA Kinds ==
  ASSUME [Next]_vars
  PROVE  \/ start_reading \/ stop_reading
         \/ \E t \in Tasks : Read(t) \/ Send(t) \/ Moves(t)
         \/ WorkerStep
         \/ UNCHANGED vars
BY DEF Next, ReaderStep, Moves

LEMMA FilledStep ==
  ASSUME Typed, BuffersConserved, FilledInv, [Next]_vars
  PROVE  FilledInv'
<1>1. CASE stop_reading \/ UNCHANGED vars
  <2>1. /\ UNCHANGED <<run, pc, next, reply, rx_read_replies, data, data_gpu>>
        /\ interupts \subseteq interupts'
    BY <1>1 DEF vars, readers, worker, stop_reading
  <2>2. Sending' = Sending /\ Waiting' = Waiting /\ Places' = Places
    BY <2>1 DEF Sending, Waiting, Places
  <2>3. QED
    BY <2>1, <2>2 DEF FilledInv
<1>2. QED
  BY <1>1, Kinds, FilledStart, FilledRead, FilledSend, FilledMove, FilledWork

-----------------------------------------------------------------------------
(* The order of the queue, and the worker's round.                          *)

Starts(m) == m.gpu_signal = 1

\* The start signal of a scan is ahead of all else of it, and the worker has
\* seen those of the scans up to started.
QueueInv ==
  /\ \A i \in Places : ~Starts(rx_read_replies[i]) =>
       \/ rx_read_replies[i].run <= started
       \/ \E j \in Places : /\ j < i /\ Starts(rx_read_replies[j])
                            /\ rx_read_replies[j].run = rx_read_replies[i].run
  /\ \A i \in Places : Starts(rx_read_replies[i]) => rx_read_replies[i].run > started
  /\ \A i, j \in Places :
       Starts(rx_read_replies[i]) /\ Starts(rx_read_replies[j]) /\ i < j
         => rx_read_replies[i].run < rx_read_replies[j].run
  /\ \A n \in 1..run : n > started =>
       \E i \in Places : Starts(rx_read_replies[i]) /\ rx_read_replies[i].run = n

\* A buffer is kept only within a round, and it is the last one.
WorkerInv ==
  /\ last_buffer \in Replies \cup {NoReply}
  /\ ~new_round => last_buffer \in Replies /\ last_buffer.len # 0
                   /\ last_buffer.run <= started
  /\ drive_count \in Nat
  /\ new_round \in BOOLEAN /\ late \in BOOLEAN /\ late_end \in BOOLEAN
  /\ rx_sink # {} => ~new_round /\ rx_sink = {last_buffer.buffer}
  /\ ~setting.gpu_async => new_round /\ started = 0 /\ ~late /\ ~late_end
  /\ started \in 0..run
  /\ started # 0 => active_height = setting.heights[started]
  /\ setting.gpu_async => QueueInv

LEMMA RunTypes ==
  ASSUME Typed, FilledInv
  PROVE  /\ run \in Nat /\ Places \subseteq Nat
         /\ \A i \in Places : rx_read_replies[i].run \in Nat
<1>1. run \in Nat
  BY StartedRun
<1>2. \A i \in 1..run : i \in Nat
  BY <1>1
<1>3. Places \subseteq Nat
  BY DEF Places
<1>4. QED
  BY <1>1, <1>2, <1>3 DEF FilledInv

LEMMA QueueAppend ==
  ASSUME Typed, FilledInv, QueueInv, NEW m \in Replies \cup Signals,
         rx_read_replies' = Append(rx_read_replies, m), ~Starts(m), m.run \in 1..run,
         UNCHANGED <<run, started>>, started \in 0..run
  PROVE  QueueInv'
<1> DEFINE n == Len(rx_read_replies) + 1
<1>1. /\ Places' = Places \cup {n} /\ n \notin Places /\ rx_read_replies'[n] = m
      /\ \A i \in Places : rx_read_replies'[i] = rx_read_replies[i] /\ i < n
  BY PlacesAppended DEF Typed
<1> HIDE DEF n
<1>2. ASSUME NEW i \in Places', ~Starts(rx_read_replies'[i])
      PROVE  \/ rx_read_replies'[i].run <= started
             \/ \E j \in Places' : /\ j < i /\ Starts(rx_read_replies'[j])
                                   /\ rx_read_replies'[j].run = rx_read_replies'[i].run
  <2>1. CASE i \in Places
    <3>1. ~Starts(rx_read_replies[i])
      BY <1>1, <1>2, <2>1
    <3>2. \/ rx_read_replies[i].run <= started
          \/ \E j \in Places : /\ j < i /\ Starts(rx_read_replies[j])
                               /\ rx_read_replies[j].run = rx_read_replies[i].run
      BY <2>1, <3>1 DEF QueueInv
    <3>3. QED
      BY <1>1, <2>1, <3>2
  <2>2. CASE i = n
    <3>1. CASE m.run <= started
      BY <1>1, <2>2, <3>1
    <3>2. CASE m.run > started
      <4>1. PICK j \in Places : Starts(rx_read_replies[j]) /\ rx_read_replies[j].run = m.run
        BY <3>2 DEF QueueInv
      <4>2. QED
        BY <1>1, <2>2, <4>1
    <3>3. m.run \in Nat /\ started \in Nat
      <4>1. run \in Nat
        BY RunTypes
      <4>2. QED
        BY <4>1
    <3>4. m.run <= started \/ m.run > started
      BY <3>3
    <3>5. QED
      BY <3>1, <3>2, <3>4
  <2>3. QED
    BY <1>1, <2>1, <2>2
<1>3. \A i \in Places' : Starts(rx_read_replies'[i]) =>
        i \in Places /\ rx_read_replies'[i] = rx_read_replies[i]
  BY <1>1
<1>4. \A k \in 1..run : k > started =>
       \E i \in Places' : Starts(rx_read_replies'[i]) /\ rx_read_replies'[i].run = k
  BY <1>1 DEF QueueInv
<1>5. \A i \in Places' : Starts(rx_read_replies'[i]) => rx_read_replies'[i].run > started
  BY <1>3 DEF QueueInv
<1>6. \A i, j \in Places' :
       Starts(rx_read_replies'[i]) /\ Starts(rx_read_replies'[j]) /\ i < j
         => rx_read_replies'[i].run < rx_read_replies'[j].run
  BY <1>3 DEF QueueInv
<1>7. QED
  BY <1>2, <1>4, <1>5, <1>6 DEF QueueInv

LEMMA QueueStart ==
  ASSUME Typed, FilledInv, QueueInv, start_reading, started \in 0..run
  PROVE  QueueInv'
<1> DEFINE n == Len(rx_read_replies) + 1
           m == Signal(run + 1, 1)
<1>1. /\ run' = run + 1 /\ run \in Nat /\ m \in Signals /\ started' = started
      /\ rx_read_replies' = Append(rx_read_replies, m)
  BY TaskTypes DEF start_reading, Signals, Typed, worker
<1>2. m.run = run + 1 /\ Starts(m)
  BY SignalFields DEF Starts
<1> HIDE DEF m
<1>3. /\ Places' = Places \cup {n} /\ n \notin Places /\ rx_read_replies'[n] = m
      /\ \A i \in Places : rx_read_replies'[i] = rx_read_replies[i] /\ i < n
      /\ n \in Nat /\ Places \subseteq Nat
  <2>1. Len(rx_read_replies) \in Nat
    BY DEF Typed, TypeOK
  <2>2. QED
    BY <1>1, <2>1, PlacesAppended DEF Typed, Places
<1> HIDE DEF n
<1>4. ASSUME NEW i \in Places', ~Starts(rx_read_replies'[i])
      PROVE  \/ rx_read_replies'[i].run <= started
             \/ \E j \in Places' : /\ j < i /\ Starts(rx_read_replies'[j])
                                   /\ rx_read_replies'[j].run = rx_read_replies'[i].run
  <2>1. i \in Places /\ ~Starts(rx_read_replies[i])
    BY <1>2, <1>3, <1>4
  <2>2. \/ rx_read_replies[i].run <= started
        \/ \E j \in Places : /\ j < i /\ Starts(rx_read_replies[j])
                             /\ rx_read_replies[j].run = rx_read_replies[i].run
    BY <2>1 DEF QueueInv
  <2>3. QED
    BY <1>3, <2>1, <2>2
<1>5. ASSUME NEW i \in Places', Starts(rx_read_replies'[i])
      PROVE  rx_read_replies'[i].run > started
  <2>1. CASE i = n
    <3>1. rx_read_replies'[i].run = run + 1
      BY <1>2, <1>3, <2>1
    <3>2. run + 1 > started
      BY <1>1
    <3>3. QED
      BY <3>1, <3>2
  <2>2. CASE i # n
    BY <1>3, <1>5, <2>2 DEF QueueInv
  <2>3. QED
    BY <2>1, <2>2
<1>6. ASSUME NEW i \in Places', NEW j \in Places', Starts(rx_read_replies'[i]),
             Starts(rx_read_replies'[j]), i < j
      PROVE  rx_read_replies'[i].run < rx_read_replies'[j].run
  <2>1. i # n
    <3>1. CASE j = n
      BY <1>3, <1>6, <3>1
    <3>2. CASE j # n
      BY <1>3, <1>6, <3>2
    <3>3. QED
      BY <3>1, <3>2
  <2>2. i \in Places /\ rx_read_replies'[i] = rx_read_replies[i]
        /\ rx_read_replies[i].run \in 1..run
    BY <1>3, <2>1 DEF FilledInv
  <2>3. CASE j = n
    <3>1. rx_read_replies'[j].run = run + 1
      BY <1>2, <1>3, <2>3
    <3>2. rx_read_replies[i].run < run + 1
      BY <1>1, <2>2
    <3>3. QED
      BY <2>2, <3>1, <3>2
  <2>4. CASE j # n
    BY <1>3, <1>6, <2>2, <2>4 DEF QueueInv
  <2>5. QED
    BY <2>3, <2>4
<1>7. ASSUME NEW k \in 1..run', k > started
      PROVE  \E i \in Places' : Starts(rx_read_replies'[i]) /\ rx_read_replies'[i].run = k
  <2>1. CASE k = run + 1
    BY <1>2, <1>3, <2>1
  <2>2. CASE k # run + 1
    <3>1. k \in 1..run
      BY <1>1, <2>2
    <3>2. QED
      BY <1>3, <1>7, <3>1 DEF QueueInv
  <2>3. QED
    BY <2>1, <2>2
<1>8. QED
  BY <1>1, <1>4, <1>5, <1>6, <1>7 DEF QueueInv

\* What the first message can be.
LEMMA FirstMessage ==
  ASSUME Typed, FilledInv, QueueInv, rx_read_replies # <<>>, started \in 0..run
  PROVE  /\ ~Starts(Head(rx_read_replies)) => Head(rx_read_replies).run <= started
         /\ Starts(Head(rx_read_replies)) => Head(rx_read_replies).run > started
         /\ Head(rx_read_replies).run \in 1..run
<1>1. 1 \in Places /\ Head(rx_read_replies) = rx_read_replies[1]
  <2>1. rx_read_replies \in Seq(Replies \cup Signals)
    BY DEF Typed, TypeOK
  <2>2. QED
    BY <2>1, AtHead DEF Places
<1>2. \A j \in Places : ~(j < 1)
  BY DEF Places
<1>3. QED
  BY <1>1, <1>2 DEF QueueInv, FilledInv

LEMMA QueueTail ==
  ASSUME Typed, FilledInv, QueueInv, rx_read_replies # <<>>, started \in 0..run,
         rx_read_replies' = Tail(rx_read_replies), run' = run,
         started' = IF Starts(Head(rx_read_replies)) THEN Head(rx_read_replies).run
                    ELSE started
  PROVE  QueueInv'
<1> DEFINE m == Head(rx_read_replies)
<1>1. /\ 1 \in Places /\ m = rx_read_replies[1]
      /\ \A i \in Places' : /\ i \in Nat /\ i + 1 \in Places /\ i + 1 # 1
                            /\ rx_read_replies'[i] = rx_read_replies[i + 1]
      /\ \A i \in Places : i # 1 =>
           i \in Nat /\ i - 1 \in Places' /\ rx_read_replies'[i - 1] = rx_read_replies[i]
  BY PlacesTaken DEF Typed
<1>2. /\ m.run \in 1..run /\ run \in Nat /\ started' \in Nat /\ started <= started'
      /\ Starts(m) => m.run > started /\ started' = m.run
      /\ ~Starts(m) => started' = started
  BY FirstMessage, StartedRun
<1> HIDE DEF m
<1>3. ASSUME NEW i \in Places', ~Starts(rx_read_replies'[i])
      PROVE  \/ rx_read_replies'[i].run <= started'
             \/ \E j \in Places' : /\ j < i /\ Starts(rx_read_replies'[j])
                                   /\ rx_read_replies'[j].run = rx_read_replies'[i].run
  <2>1. /\ i + 1 \in Places /\ rx_read_replies'[i] = rx_read_replies[i + 1]
        /\ rx_read_replies[i + 1].run \in 1..run
    BY <1>1 DEF FilledInv
  <2>2. CASE rx_read_replies[i + 1].run <= started
    <3>1. rx_read_replies[i + 1].run <= started'
      <4>1. rx_read_replies[i + 1].run \in Nat
        BY <2>1, RunTypes
      <4>2. QED
        BY <1>2, <2>2, <4>1
    <3>2. QED
      BY <2>1, <3>1
  <2>3. ASSUME NEW j \in Places, j < i + 1, Starts(rx_read_replies[j]),
               rx_read_replies[j].run = rx_read_replies[i + 1].run
        PROVE  \/ rx_read_replies'[i].run <= started'
               \/ \E k \in Places' : /\ k < i /\ Starts(rx_read_replies'[k])
                                     /\ rx_read_replies'[k].run = rx_read_replies'[i].run
    <3>1. CASE j = 1
      <4>1. m.run = rx_read_replies'[i].run /\ started' = m.run
        BY <1>1, <1>2, <2>1, <2>3, <3>1
      <4>2. m.run <= m.run
        BY <1>2
      <4>3. QED
        BY <4>1, <4>2
    <3>2. CASE j # 1
      <4>1. j - 1 \in Places' /\ rx_read_replies'[j - 1] = rx_read_replies[j]
            /\ j \in Nat /\ i \in Nat
        BY <1>1, <3>2
      <4>3. j - 1 < i
        BY <2>3, <4>1
      <4>2. QED
        BY <2>1, <2>3, <4>1, <4>3
    <3>3. QED
      BY <3>1, <3>2
  <2>4. \/ rx_read_replies[i + 1].run <= started
        \/ \E j \in Places : /\ j < i + 1 /\ Starts(rx_read_replies[j])
                             /\ rx_read_replies[j].run = rx_read_replies[i + 1].run
    <3>1. ~Starts(rx_read_replies[i + 1])
      BY <1>3, <2>1
    <3>2. QED
      BY <2>1, <3>1 DEF QueueInv
  <2>5. QED
    BY <2>2, <2>3, <2>4
<1>4. ASSUME NEW i \in Places', Starts(rx_read_replies'[i])
      PROVE  rx_read_replies'[i].run > started'
  <2>1. /\ i + 1 \in Places /\ rx_read_replies'[i] = rx_read_replies[i + 1] /\ 1 < i + 1
        /\ Starts(rx_read_replies[i + 1])
    <3>1. i \in Nat /\ i # 0
      BY <1>1
    <3>2. 1 < i + 1
      BY <3>1
    <3>3. rx_read_replies'[i] = rx_read_replies[i + 1]
      BY <1>1
    <3>4. Starts(rx_read_replies[i + 1])
      BY <1>4, <3>3
    <3>5. QED
      BY <1>1, <3>2, <3>3, <3>4
  <2>2. CASE Starts(m)
    <3>1. m.run < rx_read_replies[i + 1].run
      BY <1>1, <2>1, <2>2 DEF QueueInv
    <3>2. started' = m.run /\ m.run \in Nat /\ rx_read_replies[i + 1].run \in Nat
      BY <1>1, <1>2, <2>1, <2>2, RunTypes
    <3>3. QED
      BY <2>1, <3>1, <3>2
  <2>3. CASE ~Starts(m)
    <3>1. rx_read_replies[i + 1].run > started /\ started' = started
      BY <1>2, <2>1, <2>3 DEF QueueInv
    <3>2. QED
      BY <2>1, <3>1
  <2>4. QED
    BY <2>2, <2>3
<1>5. ASSUME NEW i \in Places', NEW j \in Places', Starts(rx_read_replies'[i]),
             Starts(rx_read_replies'[j]), i < j
      PROVE  rx_read_replies'[i].run < rx_read_replies'[j].run
  <2>1. i + 1 < j + 1 /\ i + 1 \in Places /\ j + 1 \in Places
    BY <1>1, <1>5
  <2>2. Starts(rx_read_replies[i + 1]) /\ Starts(rx_read_replies[j + 1])
    BY <1>1, <1>5
  <2>3. rx_read_replies[i + 1].run < rx_read_replies[j + 1].run
    BY <2>1, <2>2 DEF QueueInv
  <2>4. QED
    BY <1>1, <2>3
<1>6. ASSUME NEW k \in 1..run', k > started'
      PROVE  \E i \in Places' : Starts(rx_read_replies'[i]) /\ rx_read_replies'[i].run = k
  <2>1. k \in 1..run /\ k > started
    BY <1>2, <1>6
  <2>2. PICK i \in Places : Starts(rx_read_replies[i]) /\ rx_read_replies[i].run = k
    BY <2>1 DEF QueueInv
  <2>3. i # 1
    <3>1. ASSUME i = 1 PROVE FALSE
      <4>1. Starts(m) /\ m.run = k
        BY <1>1, <2>2, <3>1
      <4>2. started' = k /\ k \in Nat
        BY <1>2, <2>1, <4>1
      <4>3. QED
        BY <1>6, <4>2
    <3>2. QED
      BY <3>1
  <2>4. QED
    BY <1>1, <2>2, <2>3
<1>7. QED
  BY <1>3, <1>4, <1>5, <1>6 DEF QueueInv

\* A step of a reader leaves what the worker has.
LEMMA WorkerStays ==
  ASSUME WorkerInv, UNCHANGED <<setting, worker>>, started \in 0..run',
         setting.gpu_async => QueueInv'
  PROVE  WorkerInv'
BY DEF WorkerInv, worker

LEMMA WorkerReader ==
  ASSUME Typed, BuffersConserved, FilledInv, WorkerInv,
         \/ start_reading \/ stop_reading
         \/ \E t \in Tasks : Read(t) \/ Send(t) \/ Moves(t)
         \/ UNCHANGED vars
  PROVE  WorkerInv' /\ UNCHANGED <<setting, worker>>
<1>1. started \in 0..run /\ (setting.gpu_async => QueueInv) /\ run \in Nat
  BY RunTypes DEF WorkerInv
<1>2. CASE start_reading
  <2>1. UNCHANGED <<setting, worker>> /\ started \in 0..run'
    BY <1>1, <1>2 DEF start_reading
  <2>2. setting.gpu_async => QueueInv'
    BY <1>1, <1>2, QueueStart
  <2>3. QED
    BY <2>1, <2>2, WorkerStays
<1>3. ASSUME UNCHANGED <<setting, run, worker, rx_read_replies>>
      PROVE  WorkerInv' /\ UNCHANGED <<setting, worker>>
  <2>1. QueueInv => QueueInv'
    BY <1>3 DEF QueueInv, Places, worker
  <2>2. QED
    BY <1>1, <1>3, <2>1, WorkerStays
<1>4. ASSUME NEW t \in Tasks, Read(t) PROVE WorkerInv' /\ UNCHANGED <<setting, worker>>
  BY <1>3, <1>4, ReadFacts
<1>5. ASSUME UNCHANGED <<setting, run, worker>>, NEW m \in Replies \cup Signals,
             rx_read_replies' = Append(rx_read_replies, m), ~Starts(m), m.run \in 1..run
      PROVE  WorkerInv' /\ UNCHANGED <<setting, worker>>
  <2>1. setting.gpu_async => QueueInv'
    BY <1>1, <1>5, QueueAppend DEF worker
  <2>2. QED
    BY <1>1, <1>5, <2>1, WorkerStays
<1>6. ASSUME NEW t \in Tasks, Send(t) PROVE WorkerInv' /\ UNCHANGED <<setting, worker>>
  <2>1. /\ reply[t] \in Replies /\ rx_read_replies' = Append(rx_read_replies, reply[t])
        /\ UNCHANGED <<setting, run, worker>> /\ t \in Sending /\ pc[t] = "sending"
    BY <1>6, SendFacts
  <2>2. ~Starts(reply[t]) /\ reply[t].run \in 1..run
    BY <2>1, StartedRun, SignalFields DEF FilledInv, Starts
  <2>3. QED
    BY <1>5, <2>1, <2>2
<1>7. ASSUME NEW t \in Tasks, Moves(t) PROVE WorkerInv' /\ UNCHANGED <<setting, worker>>
  <2>1. UNCHANGED <<setting, run, worker>>
    BY <1>7, MoveFacts
  <2>2. CASE rx_read_replies' = rx_read_replies
    BY <1>3, <2>1, <2>2
  <2>3. CASE /\ rx_read_replies' = Append(rx_read_replies, Signal(t[1], 2))
             /\ Signal(t[1], 2) \in Signals /\ pc[t] = "signalling"
    <3>1. ~Starts(Signal(t[1], 2)) /\ Signal(t[1], 2).run \in 1..run
      BY <2>3, StartedRun, SignalFields DEF Starts
    <3>2. QED
      BY <1>5, <2>1, <2>3, <3>1
  <2>4. QED
    BY <1>7, <2>2, <2>3, MoveFacts
<1>8. CASE stop_reading \/ UNCHANGED vars
  BY <1>3, <1>8 DEF vars, readers, stop_reading
<1>9. QED
  BY <1>2, <1>4, <1>6, <1>7, <1>8

\* Which scan the worker is in after a message.
LEMMA WorkerStarted ==
  ASSUME TypeOK, WorkerStep, setting.gpu_async
  PROVE  started' = IF Starts(Head(rx_read_replies)) THEN Head(rx_read_replies).run
                    ELSE started
<1> DEFINE m == Head(rx_read_replies)
<1>1. WorkerActs(m) /\ m \in Replies \cup Signals
  BY WorkerCases
<1> HIDE DEF m
<1>2. CASE NothingRead(m)
  <2>1. m.gpu_signal # 1
    BY <1>1, <1>2, SignalFields DEF NothingRead
  <2>2. QED
    BY <1>2, <2>1 DEF NothingRead, worker, m, Starts
<1>3. CASE StartSignal(m)
  BY <1>3 DEF StartSignal, m, Starts
<1>4. CASE EndSignal(m)
  BY <1>4 DEF EndSignal, m, Starts
<1>5. CASE FirstBuffer(m) \/ NextBuffer(m)
  BY <1>5 DEF FirstBuffer, NextBuffer, Sinks, m, Starts
<1>6. QED
  BY <1>1, <1>2, <1>3, <1>4, <1>5 DEF WorkerActs, HashNow

LEMMA WorkerWork ==
  ASSUME Typed, FilledInv, WorkerInv, WorkerStep
  PROVE  WorkerInv'
<1> DEFINE m == Head(rx_read_replies)
<1>1. /\ WorkerActs(m) /\ m \in Replies \cup Signals /\ UNCHANGED <<setting, run>>
      /\ rx_read_replies # <<>> /\ rx_read_replies' = Tail(rx_read_replies)
  BY WorkerCases DEF Typed
<1>2. CASE ~setting.gpu_async
  BY <1>1, <1>2 DEF WorkerActs, NothingRead, HashNow, StartSignal, EndSignal, FirstBuffer,
                    NextBuffer, WorkerInv, worker
<1>3. CASE setting.gpu_async
  <2>1. /\ QueueInv /\ started \in 0..run /\ run \in Nat
    BY <1>3, RunTypes DEF WorkerInv
  <2>2. /\ started' = IF Starts(m) THEN m.run ELSE started
        /\ ~Starts(m) => m.run <= started
        /\ m.run \in 1..run
    BY <1>1, <1>3, <2>1, WorkerStarted, FirstMessage DEF Typed
  <2>3. QueueInv'
    BY <1>1, <2>1, <2>2, QueueTail
  <2> HIDE DEF m
  <2>4. CASE NothingRead(m)
    <3>1. UNCHANGED worker
      BY <2>4 DEF NothingRead
    <3>2. QED
      BY <1>1, <2>1, <2>3, <3>1, WorkerStays
  <2>5. CASE StartSignal(m)
    <3>1. m.run # 0 /\ m.run \in 0..run
      BY <2>1, <2>2
    <3>2. rx_sink' = {}
      BY <2>5 DEF StartSignal, Drained, WorkerInv
    <3>3. QED
      BY <1>1, <1>3, <2>3, <2>5, <3>1, <3>2 DEF StartSignal, WorkerInv, height
  <2>6. CASE EndSignal(m)
    <3>1. /\ UNCHANGED <<new_round, last_buffer, active_height, started, late>>
          /\ drive_count' \in Nat /\ late_end' \in BOOLEAN
      BY <2>6 DEF EndSignal, WorkerInv
    <3>2. rx_sink' = rx_sink \/ rx_sink' = {}
      BY <2>6 DEF EndSignal, Drained
    <3>3. QED
      BY <1>1, <1>3, <2>3, <3>1, <3>2 DEF WorkerInv
  <2>7. CASE FirstBuffer(m) \/ NextBuffer(m)
    <3>1. /\ rx_sink' = {m.buffer} /\ last_buffer' = m /\ new_round' = FALSE
          /\ late' \in BOOLEAN /\ m.gpu_signal = 0 /\ m.len # 0
          /\ UNCHANGED <<drive_count, active_height, started, late_end>>
      BY <2>7 DEF FirstBuffer, NextBuffer, Sinks, WorkerInv
    <3>2. m \in Replies /\ m.run <= started
      BY <1>1, <2>2, <3>1, Distinct DEF Starts
    <3>3. QED
      BY <1>1, <1>3, <2>3, <3>1, <3>2 DEF WorkerInv
  <2>8. QED
    BY <1>1, <1>3, <2>4, <2>5, <2>6, <2>7 DEF WorkerActs, HashNow
<1>4. QED
  BY <1>2, <1>3

LEMMA WorkerStepInv ==
  ASSUME Typed, BuffersConserved, FilledInv, WorkerInv, [Next]_vars
  PROVE  WorkerInv'
BY Kinds, WorkerReader, WorkerWork

-----------------------------------------------------------------------------
(* The end signals.                                                         *)

Ends(n) == {i \in Places : rx_read_replies[i].gpu_signal = 2 /\ rx_read_replies[i].run = n}
Ended(n) == {d \in Drives : pc[<<n, d>>] = "ended"}

\* The drives counted, and the end signals that are waiting, are those that have
\* ended.
CountedInv ==
  \A n \in 1..run :
    /\ n = started /\ ~late_end =>
         drive_count + Cardinality(Ends(n)) = Cardinality(Ended(n))
    /\ n > started => Cardinality(Ends(n)) = Cardinality(Ended(n))

\* An end signal is behind the replies of its drive.
BehindInv ==
  \A i \in Waiting :
    pc[<<rx_read_replies[i].run, rx_read_replies[i].drive>>] = "ended" =>
      \E j \in Places : /\ i < j /\ rx_read_replies[j].gpu_signal = 2
                        /\ rx_read_replies[j].run = rx_read_replies[i].run

LEMMA EndsFinite ==
  ASSUME Typed
  PROVE  /\ IsFiniteSet(Drives) /\ Cardinality(Drives) \in Nat
         /\ \A n : IsFiniteSet(Ends(n)) /\ Cardinality(Ends(n)) \in Nat
         /\ \A n : IsFiniteSet(Ended(n)) /\ Cardinality(Ended(n)) \in Nat
<1>1. IsFiniteSet(Drives)
  BY GpuAssumption
<1>2. IsFiniteSet(Places)
  <2>1. Len(rx_read_replies) \in Int /\ 1 \in Int
    BY DEF Typed, TypeOK
  <2>2. QED
    BY <2>1, FS_Interval DEF Places
<1>3. ASSUME NEW n PROVE IsFiniteSet(Ends(n)) /\ IsFiniteSet(Ended(n))
  <2>1. Ends(n) \in SUBSET Places /\ Ended(n) \in SUBSET Drives
    BY DEF Ends, Ended
  <2>2. QED
    BY <1>1, <1>2, <2>1, FS_Subset
<1>4. QED
  BY <1>1, <1>3, FS_CardinalityType

LEMMA EndsAppended ==
  ASSUME TypeOK, NEW m \in Replies \cup Signals,
         rx_read_replies' = Append(rx_read_replies, m), NEW n
  PROVE  Ends(n)' = IF m.gpu_signal = 2 /\ m.run = n
                    THEN Ends(n) \cup {Len(rx_read_replies) + 1} ELSE Ends(n)
BY PlacesAppended DEF Ends

\* The end signals move up, without the first if it is one.
LEMMA EndsTaken ==
  ASSUME Typed, rx_read_replies # <<>>, rx_read_replies' = Tail(rx_read_replies), NEW n
  PROVE  Cardinality(Ends(n)') =
           IF Head(rx_read_replies).gpu_signal = 2 /\ Head(rx_read_replies).run = n
           THEN Cardinality(Ends(n)) - 1 ELSE Cardinality(Ends(n))
<1> DEFINE S == Ends(n) \ {1}
           f == [i \in S |-> i - 1]
<1>1. /\ 1 \in Places /\ Head(rx_read_replies) = rx_read_replies[1]
      /\ \A i \in Places' : /\ i \in Nat /\ i + 1 \in Places /\ i + 1 # 1
                            /\ rx_read_replies'[i] = rx_read_replies[i + 1]
      /\ \A i \in Places : i # 1 =>
           i \in Nat /\ i - 1 \in Places' /\ rx_read_replies'[i - 1] = rx_read_replies[i]
  BY PlacesTaken DEF Typed
<1>2. f \in [S -> Ends(n)']
  BY <1>1 DEF Ends
<1>3. \A i, j \in S : f[i] = f[j] => i = j
  <2>1. S \subseteq Nat
    BY <1>1 DEF Ends
  <2>2. QED
    BY <2>1
<1>4. \A k \in Ends(n)' : \E i \in S : f[i] = k
  <2>1. ASSUME NEW k \in Ends(n)' PROVE k + 1 \in S /\ (k + 1) - 1 = k
    <3>1. k \in Places' /\ k \in Nat
      BY <1>1 DEF Ends
    <3>2. k + 1 \in S
      BY <1>1, <3>1 DEF Ends
    <3>3. QED
      BY <3>1, <3>2
  <2>2. QED
    BY <2>1
<1> HIDE DEF f
<1>5. f \in Bijection(S, Ends(n)')
  BY <1>2, <1>3, <1>4 DEF Bijection, Injection, Surjection, IsInjective
<1>6. IsFiniteSet(Ends(n))
  BY EndsFinite
<1>7. IsFiniteSet(S) /\ Cardinality(S) = IF 1 \in Ends(n) THEN Cardinality(Ends(n)) - 1
                                         ELSE Cardinality(Ends(n))
  BY <1>6, FS_RemoveElement
<1>8. Cardinality(Ends(n)') = Cardinality(S)
  BY <1>5, <1>7, FS_Bijection DEF ExistsBijection
<1>9. 1 \in Ends(n) <=> Head(rx_read_replies).gpu_signal = 2 /\ Head(rx_read_replies).run = n
  BY <1>1 DEF Ends
<1> HIDE DEF S
<1>10. QED
  BY <1>7, <1>8, <1>9

\* A step after which the same drives have ended and their signals wait.
LEMMA CountedSame ==
  ASSUME CountedInv, UNCHANGED <<run, started, drive_count, late_end>>,
         \A n \in 1..run : Ends(n)' = Ends(n) /\ Ended(n)' = Ended(n)
  PROVE  CountedInv'
BY DEF CountedInv

LEMMA EndedSame ==
  ASSUME Typed, \A t \in Tasks : pc[t] = "ended" <=> pc'[t] = "ended"
  PROVE  \A n \in 1..MaxRuns : Ended(n)' = Ended(n)
BY DEF Ended, Tasks

\* The task of a reply.
LEMMA TaskOf ==
  ASSUME Typed, FilledInv
  PROVE  /\ run \in Nat /\ 1..run \subseteq 1..MaxRuns
         /\ \A i \in Waiting : <<rx_read_replies[i].run, rx_read_replies[i].drive>> \in Tasks
<1>1. run \in Nat /\ 1..run \subseteq 1..MaxRuns
  <2>1. /\ MaxRuns \in Nat /\ Len(setting.heights) \in Nat
        /\ Len(setting.heights) <= MaxRuns /\ run \in 0..Len(setting.heights)
    BY GpuAssumption DEF Typed, TypeOK
  <2>2. QED
    BY <2>1
<1>2. ASSUME NEW i \in Waiting
      PROVE  <<rx_read_replies[i].run, rx_read_replies[i].drive>> \in Tasks
  <2>1. rx_read_replies[i] \in Replies
    BY WaitingTypes DEF Typed
  <2>2. QED
    BY <2>1 DEF Replies, Tasks
<1>3. QED
  BY <1>1, <1>2

LEMMA CountedReader ==
  ASSUME Typed, BuffersConserved, FilledInv, CountedInv, started \in 0..run, drive_count \in Nat,
         \/ start_reading \/ stop_reading
         \/ \E t \in Tasks : Read(t) \/ Send(t) \/ Moves(t)
         \/ UNCHANGED vars
  PROVE  CountedInv'
<1>1. run \in Nat /\ started \in Nat /\ 1..run \subseteq 1..MaxRuns
  <2>1. run \in Nat /\ 1..run \subseteq 1..MaxRuns
    BY TaskOf
  <2>2. QED
    BY <2>1
<1>2. ASSUME UNCHANGED <<run, started, drive_count, late_end, rx_read_replies>>,
             \A u \in Tasks : pc[u] = "ended" <=> pc'[u] = "ended"
      PROVE  CountedInv'
  <2>1. \A n \in 1..run : Ends(n)' = Ends(n) /\ Ended(n)' = Ended(n)
    BY <1>1, <1>2, EndedSame DEF Ends, Places
  <2>2. QED
    BY <1>2, <2>1, CountedSame
<1>3. CASE start_reading
  <2> DEFINE m == Signal(run + 1, 1)
  <2>1. /\ run' = run + 1 /\ run < Len(setting.heights) /\ UNCHANGED worker
        /\ rx_read_replies' = Append(rx_read_replies, m)
        /\ pc' = [t \in Tasks |-> IF t[1] = run + 1 THEN "spawned" ELSE pc[t]]
    BY <1>3 DEF start_reading
  <2>2. run + 1 \in 1..MaxRuns
    BY <2>1, TaskTypes DEF Typed
  <2>3. m \in Signals /\ m.gpu_signal # 2
    BY <2>2, SignalFields DEF Signals
  <2>4. \A n : Ends(n)' = Ends(n)
    BY <2>1, <2>3, EndsAppended DEF Typed
  <2>5. \A t \in Tasks : pc[t] = "ended" <=> pc'[t] = "ended"
    <3>1. \A t \in Tasks : t[1] = run + 1 => pc[t] = "new"
      BY <1>1 DEF Typed, NotYet
    <3>2. QED
      BY <2>1, <3>1
  <2>6. \A n \in 1..MaxRuns : Ended(n)' = Ended(n)
    BY <2>5, EndedSame
  <2>7. Cardinality(Ends(run + 1)) = 0 /\ Cardinality(Ended(run + 1)) = 0
    <3>1. \A t \in Tasks : t[1] = run + 1 => pc[t] # "ended"
      BY <1>1 DEF Typed, NotYet
    <3>2. Ended(run + 1) = {}
      BY <2>2, <3>1 DEF Ended, Tasks
    <3>3. run + 1 \notin 1..run
      BY <1>1
    <3>4. Ends(run + 1) = {}
      BY <3>3 DEF Ends, FilledInv
    <3>5. QED
      BY <3>2, <3>4, FS_EmptySet
  <2> HIDE DEF m
  <2>8. ASSUME NEW n \in 1..run'
        PROVE  /\ n = started' /\ ~late_end' =>
                    drive_count' + Cardinality(Ends(n)') = Cardinality(Ended(n)')
               /\ n > started' => Cardinality(Ends(n)') = Cardinality(Ended(n)')
    <3>1. /\ Ends(n)' = Ends(n) /\ Ended(n)' = Ended(n)
          /\ UNCHANGED <<started, late_end, drive_count>>
      <4>1. n \in 1..MaxRuns
        BY <1>1, <2>1, <2>2
      <4>2. QED
        BY <2>1, <2>4, <2>6, <4>1 DEF worker
    <3>2. CASE n = run + 1
      <4>1. n # started
        BY <1>1, <3>2
      <4>2. QED
        BY <2>7, <3>1, <3>2, <4>1
    <3>3. CASE n # run + 1
      <4>1. n \in 1..run
        BY <1>1, <2>1, <3>3
      <4>2. QED
        BY <3>1, <4>1 DEF CountedInv
    <3>4. QED
      BY <3>2, <3>3
  <2>9. QED
    BY <2>8 DEF CountedInv
<1>4. ASSUME NEW t \in Tasks, Read(t) PROVE CountedInv'
  BY <1>2, <1>4, ReadFacts DEF worker
<1>5. ASSUME NEW t \in Tasks, Send(t) PROVE CountedInv'
  <2>1. /\ UNCHANGED <<run, started, drive_count, late_end>> /\ reply[t] \in Replies
        /\ rx_read_replies' = Append(rx_read_replies, reply[t])
        /\ \A u \in Tasks : pc[u] = "ended" <=> pc'[u] = "ended"
    BY <1>5, SendFacts DEF worker
  <2>2. reply[t].gpu_signal # 2
    BY <2>1, SignalFields
  <2>3. \A n \in 1..run : Ends(n)' = Ends(n) /\ Ended(n)' = Ended(n)
    BY <1>1, <2>1, <2>2, EndedSame, EndsAppended DEF Typed
  <2>4. QED
    BY <2>1, <2>3, CountedSame
<1>6. ASSUME NEW t \in Tasks, Moves(t) PROVE CountedInv'
  <2>1. /\ UNCHANGED <<run, started, drive_count, late_end>>
        /\ \A u \in Tasks : u # t => pc'[u] = pc[u]
        /\ pc[t] # "ended" /\ pc[t] # "new"
    BY <1>6, MoveFacts DEF worker
  <2>2. CASE rx_read_replies' = rx_read_replies /\ pc'[t] # "ended"
    BY <1>2, <2>1, <2>2
  <2>3. CASE /\ rx_read_replies' = Append(rx_read_replies, Signal(t[1], 2))
             /\ Signal(t[1], 2) \in Signals /\ pc'[t] = "ended"
    <3> DEFINE p == Len(rx_read_replies) + 1
    <3>1. /\ \A n : Ends(n)' = IF t[1] = n THEN Ends(n) \cup {p} ELSE Ends(n)
      BY <2>3, EndsAppended, SignalFields DEF Typed
    <3>2. p \notin Ends(t[1])
      BY <2>3, PlacesAppended DEF Typed, Ends
    <3> HIDE DEF p
    <3>3. /\ Ended(t[1])' = Ended(t[1]) \cup {t[2]} /\ t[2] \notin Ended(t[1])
          /\ \A n \in 1..MaxRuns : n # t[1] => Ended(n)' = Ended(n)
      <4>1. t = <<t[1], t[2]>> /\ t[1] \in 1..MaxRuns /\ t[2] \in Drives
        BY TaskTypes DEF Typed
      <4>2. \A n \in 1..MaxRuns, d \in Drives :
              <<n, d>> \in Tasks /\ (<<n, d>> = t <=> n = t[1] /\ d = t[2])
        BY <4>1 DEF Tasks
      <4>3. \A n \in 1..MaxRuns, d \in Drives :
              pc'[<<n, d>>] = "ended" <=> pc[<<n, d>>] = "ended" \/ (n = t[1] /\ d = t[2])
        BY <2>1, <2>3, <4>2
      <4>4. QED
        BY <2>1, <4>1, <4>3 DEF Ended
    <3>4. /\ Cardinality(Ends(t[1])') = Cardinality(Ends(t[1])) + 1
          /\ Cardinality(Ended(t[1])') = Cardinality(Ended(t[1])) + 1
      BY <3>1, <3>2, <3>3, EndsFinite, FS_AddElement
    <3>5. ASSUME NEW n \in 1..run'
          PROVE  /\ n = started' /\ ~late_end' =>
                      drive_count' + Cardinality(Ends(n)') = Cardinality(Ended(n)')
                 /\ n > started' => Cardinality(Ends(n)') = Cardinality(Ended(n)')
      <4>1. n \in 1..run /\ n \in 1..MaxRuns
        BY <1>1, <2>1
      <4>2. /\ n = started /\ ~late_end =>
                 drive_count + Cardinality(Ends(n)) = Cardinality(Ended(n))
            /\ n > started => Cardinality(Ends(n)) = Cardinality(Ended(n))
        BY <4>1 DEF CountedInv
      <4>3. CASE n = t[1]
        <5>1. Cardinality(Ends(n)) \in Nat
          BY EndsFinite
        <5>2. QED
          BY <2>1, <3>4, <4>2, <4>3, <5>1
      <4>4. CASE n # t[1]
        BY <2>1, <3>1, <3>3, <4>1, <4>2, <4>4
      <4>5. QED
        BY <4>3, <4>4
    <3>6. QED
      BY <3>5 DEF CountedInv
  <2>4. QED
    BY <1>6, <2>2, <2>3, MoveFacts
<1>7. CASE stop_reading \/ UNCHANGED vars
  BY <1>2, <1>7 DEF vars, readers, stop_reading, worker
<1>8. QED
  BY <1>3, <1>4, <1>5, <1>6, <1>7

LEMMA CountedWork ==
  ASSUME Typed, FilledInv, WorkerInv, CountedInv, WorkerStep, setting.gpu_async
  PROVE  CountedInv'
<1> DEFINE m == Head(rx_read_replies)
<1>1. /\ WorkerActs(m) /\ m \in Replies \cup Signals /\ UNCHANGED <<setting, run, pc>>
      /\ rx_read_replies # <<>> /\ rx_read_replies' = Tail(rx_read_replies)
  BY WorkerCases DEF Typed
<1>2. /\ started' = IF Starts(m) THEN m.run ELSE started
      /\ ~Starts(m) => m.run <= started
      /\ Starts(m) => m.run > started
      /\ m.run \in Nat /\ started \in Nat /\ drive_count \in Nat
  <2>1. run \in Nat
    BY RunTypes
  <2>2. m.run \in 1..run /\ started \in 0..run
    BY <1>1, FirstMessage DEF WorkerInv
  <2>3. QED
    BY <1>1, <2>1, <2>2, WorkerStarted, FirstMessage DEF Typed, WorkerInv
<1>3. \A n : /\ Ended(n)' = Ended(n) /\ Cardinality(Ends(n)) \in Nat
             /\ Cardinality(Ends(n)') =
                  IF m.gpu_signal = 2 /\ m.run = n
                  THEN Cardinality(Ends(n)) - 1 ELSE Cardinality(Ends(n))
  BY <1>1, EndsFinite, EndsTaken DEF Ended
<1> HIDE DEF m
<1>4. ASSUME NEW n \in 1..run
      PROVE  /\ n = started' /\ ~late_end' =>
                  drive_count' + Cardinality(Ends(n)') = Cardinality(Ended(n)')
             /\ n > started' => Cardinality(Ends(n)') = Cardinality(Ended(n)')
  <2>1. /\ n = started /\ ~late_end =>
             drive_count + Cardinality(Ends(n)) = Cardinality(Ended(n))
        /\ n > started => Cardinality(Ends(n)) = Cardinality(Ended(n))
        /\ n \in Nat
    BY <1>4, RunTypes DEF CountedInv
  <2>2. CASE StartSignal(m)
    <3>1. /\ Starts(m) /\ drive_count' = 0 /\ m.gpu_signal = 1 /\ started' = m.run
      BY <2>2 DEF StartSignal, Starts
    <3>2. Cardinality(Ends(n)') = Cardinality(Ends(n)) /\ Ended(n)' = Ended(n)
      BY <1>3, <3>1
    <3>3. n >= m.run => Cardinality(Ends(n)) = Cardinality(Ended(n))
      BY <1>2, <2>1, <3>1
    <3>4. 0 + Cardinality(Ends(n)) = Cardinality(Ends(n))
      BY <1>3
    <3>5. QED
      BY <1>2, <2>1, <3>1, <3>2, <3>3, <3>4
  <2>3. CASE EndSignal(m)
    <3>1. /\ ~Starts(m) /\ m.gpu_signal = 2 /\ started' = started /\ m.run <= started
          /\ drive_count' = IF active_height = height(m) THEN drive_count + 1 ELSE drive_count
          /\ late_end' = (late_end \/ (Stale(m) /\ active_height = height(m)))
      BY <1>2, <2>3 DEF EndSignal, Starts
    <3>2. CASE m.run = n
      <4>1. Cardinality(Ends(n)') = Cardinality(Ends(n)) - 1
        BY <1>3, <3>1, <3>2
      <4>2. n <= started
        BY <3>1, <3>2
      <4>3. ASSUME n = started, ~late_end'
            PROVE  drive_count' + Cardinality(Ends(n)') = Cardinality(Ended(n)')
        <5>1. started # 0
          BY <1>4, <4>3
        <5>2. active_height = height(m)
          BY <3>2, <4>3, <5>1 DEF WorkerInv, height
        <5>3. ~late_end
          BY <3>1, <4>3
        <5>4. (drive_count + 1) + (Cardinality(Ends(n)) - 1) = drive_count + Cardinality(Ends(n))
          BY <1>2, <1>3
        <5>5. QED
          BY <1>3, <2>1, <3>1, <4>1, <4>3, <5>2, <5>3, <5>4
      <4>4. ~(n > started')
        BY <1>2, <2>1, <3>1, <4>2
      <4>5. n = started' /\ ~late_end' =>
              drive_count' + Cardinality(Ends(n)') = Cardinality(Ended(n)')
        BY <3>1, <4>3
      <4>6. n > started' => Cardinality(Ends(n)') = Cardinality(Ended(n)')
        BY <4>4
      <4>7. QED
        BY <4>5, <4>6
    <3>3. CASE m.run # n
      <4>1. Cardinality(Ends(n)') = Cardinality(Ends(n)) /\ Ended(n)' = Ended(n)
        BY <1>3, <3>3
      <4>2. ASSUME n = started, ~late_end' PROVE drive_count' = drive_count /\ ~late_end
        <5>1. Stale(m)
          BY <1>2, <3>1, <3>3, <4>2 DEF Stale
        <5>2. QED
          BY <3>1, <4>2, <5>1
      <4>3. QED
        BY <2>1, <3>1, <4>1, <4>2
    <3>4. QED
      BY <3>2, <3>3
  <2>4. CASE NothingRead(m) \/ FirstBuffer(m) \/ NextBuffer(m)
    <3>1. m.gpu_signal # 2 /\ UNCHANGED <<started, drive_count, late_end>>
      <4>1. CASE NothingRead(m)
        <5>1. m.len = 0
          BY <4>1 DEF NothingRead
        <5>2. m.gpu_signal = 0
          BY <1>1, <5>1, SignalFields
        <5>3. QED
          BY <4>1, <5>2 DEF NothingRead, worker
      <4>2. QED
        BY <2>4, <4>1 DEF FirstBuffer, NextBuffer, Sinks
    <3>2. QED
      BY <1>3, <2>1, <3>1
  <2>5. QED
    BY <1>1, <2>2, <2>3, <2>4 DEF WorkerActs, HashNow
<1>5. QED
  BY <1>1, <1>4 DEF CountedInv

\* A reply is sent before the end signal of its drive.
LEMMA BehindReader ==
  ASSUME Typed, BuffersConserved, FilledInv, BehindInv,
         \/ start_reading \/ stop_reading
         \/ \E t \in Tasks : Read(t) \/ Send(t) \/ Moves(t)
         \/ UNCHANGED vars
  PROVE  BehindInv'
<1> DEFINE TaskOfPlace(i) == <<rx_read_replies[i].run, rx_read_replies[i].drive>>
<1>1. \A i \in Waiting : i \in Places /\ TaskOfPlace(i) \in Tasks
  BY TaskOf, WaitingTypes DEF Typed
<1>2. ASSUME NEW i \in Waiting, pc[TaskOfPlace(i)] = "ended",
             Places \subseteq Places',
             \A j \in Places : rx_read_replies'[j] = rx_read_replies[j]
      PROVE  \E j \in Places' : /\ i < j /\ rx_read_replies'[j].gpu_signal = 2
                                /\ rx_read_replies'[j].run = rx_read_replies'[i].run
  BY <1>1, <1>2 DEF BehindInv
<1>3. ASSUME UNCHANGED rx_read_replies,
             \A u \in Tasks : pc'[u] = "ended" => pc[u] = "ended"
      PROVE  BehindInv'
  <2>1. Waiting' = Waiting /\ Places' = Places
    BY <1>3 DEF Waiting, Places
  <2>2. QED
    BY <1>1, <1>2, <1>3, <2>1 DEF BehindInv
<1>4. ASSUME NEW m \in Replies \cup Signals, m.gpu_signal # 0,
             rx_read_replies' = Append(rx_read_replies, m),
             \A u \in Tasks : pc'[u] = "ended" =>
                                \/ pc[u] = "ended"
                                \/ m.gpu_signal = 2 /\ m.run = u[1]
      PROVE  BehindInv'
  <2> DEFINE p == Len(rx_read_replies) + 1
  <2>1. /\ Places' = Places \cup {p} /\ Waiting' = Waiting /\ rx_read_replies'[p] = m
        /\ \A i \in Places : rx_read_replies'[i] = rx_read_replies[i] /\ i < p
    BY <1>4, PlacesAppended DEF Typed
  <2> HIDE DEF p
  <2>2. ASSUME NEW i \in Waiting', pc'[TaskOfPlace(i)'] = "ended"
        PROVE  \E j \in Places' : /\ i < j /\ rx_read_replies'[j].gpu_signal = 2
                                  /\ rx_read_replies'[j].run = rx_read_replies'[i].run
    <3>1. /\ i \in Waiting /\ i \in Places /\ rx_read_replies'[i] = rx_read_replies[i]
          /\ TaskOfPlace(i)' = TaskOfPlace(i) /\ i < p
      BY <1>1, <2>1
    <3>2. CASE pc[TaskOfPlace(i)] = "ended"
      BY <1>2, <2>1, <3>1, <3>2
    <3>3. CASE m.gpu_signal = 2 /\ m.run = TaskOfPlace(i)[1]
      BY <2>1, <3>1, <3>3
    <3>4. QED
      BY <1>1, <1>4, <2>2, <3>1, <3>2, <3>3
  <2>3. QED
    BY <2>2 DEF BehindInv
<1>5. CASE start_reading
  <2>1. /\ rx_read_replies' = Append(rx_read_replies, Signal(run + 1, 1))
        /\ pc' = [t \in Tasks |-> IF t[1] = run + 1 THEN "spawned" ELSE pc[t]]
        /\ run + 1 \in 1..MaxRuns
    BY <1>5, TaskTypes DEF start_reading, Typed
  <2>2. Signal(run + 1, 1) \in Signals /\ Signal(run + 1, 1).gpu_signal # 0
    BY <2>1, SignalFields DEF Signals
  <2>3. QED
    BY <1>4, <2>1, <2>2
<1>6. ASSUME NEW t \in Tasks, Read(t) PROVE BehindInv'
  BY <1>3, <1>6, ReadFacts
<1>7. ASSUME NEW t \in Tasks, Send(t) PROVE BehindInv'
  <2> DEFINE p == Len(rx_read_replies) + 1
  <2>1. /\ reply[t] \in Replies /\ rx_read_replies' = Append(rx_read_replies, reply[t])
        /\ \A u \in Tasks : pc'[u] = "ended" => pc[u] = "ended"
        /\ pc'[t] # "ended" /\ t \in Sending
    BY <1>7, SendFacts
  <2>2. /\ Places' = Places \cup {p} /\ Waiting' = Waiting \cup {p}
        /\ rx_read_replies'[p] = reply[t]
        /\ \A i \in Places : rx_read_replies'[i] = rx_read_replies[i]
    BY <2>1, PlacesAppended, SignalFields DEF Typed
  <2> HIDE DEF p
  <2>3. <<rx_read_replies'[p].run, rx_read_replies'[p].drive>> = t
    <3>1. t = <<t[1], t[2]>>
      BY TaskTypes DEF Typed
    <3>2. QED
      BY <2>1, <2>2, <3>1 DEF FilledInv
  <2>4. ASSUME NEW i \in Waiting',
               pc'[<<rx_read_replies'[i].run, rx_read_replies'[i].drive>>] = "ended"
        PROVE  \E j \in Places' : /\ i < j /\ rx_read_replies'[j].gpu_signal = 2
                                  /\ rx_read_replies'[j].run = rx_read_replies'[i].run
    <3>1. i \in Waiting
      BY <2>1, <2>2, <2>3, <2>4
    <3>2. TaskOfPlace(i)' = TaskOfPlace(i) /\ TaskOfPlace(i) \in Tasks
      BY <1>1, <2>2, <3>1
    <3>3. QED
      BY <1>2, <2>1, <2>2, <2>4, <3>1, <3>2
  <2>5. QED
    BY <2>4 DEF BehindInv
<1>8. ASSUME NEW t \in Tasks, Moves(t) PROVE BehindInv'
  <2>1. /\ \A u \in Tasks : u # t => pc'[u] = pc[u]
    BY <1>8, MoveFacts
  <2>2. CASE rx_read_replies' = rx_read_replies /\ pc'[t] # "ended"
    BY <1>3, <2>1, <2>2
  <2>3. CASE /\ rx_read_replies' = Append(rx_read_replies, Signal(t[1], 2))
             /\ Signal(t[1], 2) \in Signals
    <3>1. Signal(t[1], 2).gpu_signal = 2 /\ Signal(t[1], 2).run = t[1]
      BY SignalFields
    <3>2. QED
      BY <1>4, <2>1, <2>3, <3>1
  <2>4. QED
    BY <1>8, <2>2, <2>3, MoveFacts
<1>9. CASE stop_reading \/ UNCHANGED vars
  BY <1>3, <1>9 DEF vars, readers, stop_reading
<1>10. QED
  BY <1>5, <1>6, <1>7, <1>8, <1>9

LEMMA BehindWork ==
  ASSUME Typed, FilledInv, BehindInv, WorkerStep
  PROVE  BehindInv'
<1>1. /\ rx_read_replies # <<>> /\ rx_read_replies' = Tail(rx_read_replies) /\ pc' = pc
  BY WorkerCases DEF Typed
<1>2. /\ \A i \in Places' : /\ i \in Nat /\ i + 1 \in Places
                            /\ rx_read_replies'[i] = rx_read_replies[i + 1]
      /\ \A i \in Places : i # 1 =>
           i \in Nat /\ i - 1 \in Places' /\ rx_read_replies'[i - 1] = rx_read_replies[i]
      /\ \A i \in Waiting' : i \in Places' /\ i + 1 \in Waiting
  BY <1>1, PlacesTaken DEF Typed
<1>3. ASSUME NEW i \in Waiting',
             pc'[<<rx_read_replies'[i].run, rx_read_replies'[i].drive>>] = "ended"
      PROVE  \E j \in Places' : /\ i < j /\ rx_read_replies'[j].gpu_signal = 2
                                /\ rx_read_replies'[j].run = rx_read_replies'[i].run
  <2>1. i \in Nat /\ i # 0 /\ i + 1 \in Waiting /\ rx_read_replies'[i] = rx_read_replies[i + 1]
    BY <1>2 DEF Places
  <2>2. PICK j \in Places : /\ i + 1 < j /\ rx_read_replies[j].gpu_signal = 2
                            /\ rx_read_replies[j].run = rx_read_replies[i + 1].run
    BY <1>1, <1>3, <2>1 DEF BehindInv
  <2>3. j \in Nat /\ j # 1 /\ i < j - 1
    BY <2>1, <2>2 DEF Places
  <2>4. QED
    BY <1>2, <2>1, <2>2, <2>3
<1>4. QED
  BY <1>3 DEF BehindInv

-----------------------------------------------------------------------------
(* What is hashed.                                                          *)

\* Within a round that nothing of another has disturbed.
InRound == setting.gpu_async /\ ~new_round /\ ~late /\ ~late_end

\* The last buffer of a round is on the GPU, and in the sink until the drives have
\* ended.
LastInv ==
  InRound =>
    /\ last_buffer.run = started /\ gensig_gpu = started
    /\ data_gpu[last_buffer.buffer] = Own(last_buffer)
    /\ rx_sink = {} <=> drive_count = Cardinality(Drives)

\* Nothing else of the scan, or of one before, is in that buffer.
KeptInv ==
  InRound =>
    /\ \A t \in Sending :
         reply[t].run <= started => reply[t].buffer # last_buffer.buffer
    /\ \A i \in Waiting :
         rx_read_replies[i].run <= started => rx_read_replies[i].buffer # last_buffer.buffer

\* When every drive of the round has been counted, nothing of it is waiting.
LEMMA AllCounted ==
  ASSUME Typed, FilledInv, WorkerInv, CountedInv, BehindInv, started # 0, ~late_end
  PROVE  /\ drive_count <= Cardinality(Drives)
         /\ drive_count = Cardinality(Drives) =>
              /\ \A d \in Drives : pc[<<started, d>>] = "ended"
              /\ \A i \in Places : ~(/\ rx_read_replies[i].gpu_signal = 2
                                     /\ rx_read_replies[i].run = started)
              /\ \A i \in Waiting : rx_read_replies[i].run # started
         /\ ~(/\ drive_count = Cardinality(Drives)
              /\ \E i \in Places : /\ rx_read_replies[i].gpu_signal = 2
                                   /\ rx_read_replies[i].run = started)
<1>1. /\ drive_count + Cardinality(Ends(started)) = Cardinality(Ended(started))
      /\ drive_count \in Nat
  <2>1. run \in Nat /\ started \in 0..run
    BY RunTypes DEF WorkerInv
  <2>2. started \in 1..run
    BY <2>1
  <2>3. QED
    BY <2>2 DEF CountedInv, WorkerInv
<1>2. /\ IsFiniteSet(Drives) /\ Cardinality(Drives) \in Nat
      /\ Cardinality(Ends(started)) \in Nat /\ IsFiniteSet(Ends(started))
      /\ Cardinality(Ended(started)) \in Nat
  BY EndsFinite
<1>3. Ended(started) \in SUBSET Drives
  BY DEF Ended
<1>4. /\ Cardinality(Ended(started)) <= Cardinality(Drives)
      /\ Cardinality(Drives) = Cardinality(Ended(started)) => Drives = Ended(started)
  BY <1>2, <1>3, FS_Subset
<1>5. drive_count <= Cardinality(Drives)
  BY <1>1, <1>2, <1>4
<1>6. ASSUME drive_count = Cardinality(Drives)
      PROVE  /\ \A d \in Drives : pc[<<started, d>>] = "ended"
             /\ \A i \in Places : ~(/\ rx_read_replies[i].gpu_signal = 2
                                    /\ rx_read_replies[i].run = started)
             /\ \A i \in Waiting : rx_read_replies[i].run # started
  <2>1. /\ Cardinality(Ends(started)) = 0
        /\ Cardinality(Drives) = Cardinality(Ended(started))
    BY <1>1, <1>2, <1>4, <1>6
  <2>2. Ends(started) = {} /\ Drives = Ended(started)
    BY <1>2, <1>4, <2>1, FS_EmptySet
  <2>3. \A d \in Drives : pc[<<started, d>>] = "ended"
    BY <2>2 DEF Ended
  <2>4. \A i \in Places : ~(/\ rx_read_replies[i].gpu_signal = 2
                            /\ rx_read_replies[i].run = started)
    BY <2>2 DEF Ends
  <2>5. ASSUME NEW i \in Waiting PROVE rx_read_replies[i].run # started
    <3>1. rx_read_replies[i].drive \in Drives
      BY WaitingTypes DEF Typed, Replies
    <3>2. QED
      BY <2>3, <2>4, <3>1 DEF BehindInv
  <2>6. QED
    BY <2>3, <2>4, <2>5
<1>7. QED
  BY <1>5, <1>6

\* What the first message is.
LEMMA FirstFacts ==
  ASSUME Typed, FilledInv, WorkerInv, WorkerStep, setting.gpu_async
  PROVE  /\ QueueInv
         /\ 1 \in Places /\ Head(rx_read_replies) = rx_read_replies[1]
         /\ Head(rx_read_replies).gpu_signal = 0 =>
              /\ 1 \in Waiting /\ Head(rx_read_replies) \in Replies
              /\ AsRead(data, Head(rx_read_replies))
         /\ ~Starts(Head(rx_read_replies)) =>
              /\ Head(rx_read_replies).run <= started
              /\ ~Stale(Head(rx_read_replies)) => Head(rx_read_replies).run = started
         /\ Head(rx_read_replies).run \in Nat \ {0} /\ started \in Nat
<1>1. rx_read_replies # <<>> /\ rx_read_replies' = Tail(rx_read_replies)
  BY WorkerCases DEF Typed
<1>2. /\ QueueInv /\ started \in 0..run /\ run \in Nat
  BY RunTypes DEF WorkerInv
<1>3. /\ 1 \in Places /\ Head(rx_read_replies) = rx_read_replies[1]
      /\ Head(rx_read_replies).gpu_signal = 0 <=> 1 \in Waiting
  BY <1>1, PlacesTaken DEF Typed
<1>4. /\ ~Starts(Head(rx_read_replies)) => Head(rx_read_replies).run <= started
      /\ Head(rx_read_replies).run \in 1..run
  BY <1>1, <1>2, FirstMessage
<1>5. ASSUME ~Starts(Head(rx_read_replies)), ~Stale(Head(rx_read_replies))
      PROVE  Head(rx_read_replies).run = started
  BY <1>2, <1>4, <1>5 DEF Stale
<1>6. Head(rx_read_replies).run \in Nat \ {0} /\ started \in Nat
  BY <1>2, <1>4
<1>7. QED
  BY <1>2, <1>3, <1>4, <1>5, <1>6, WaitingTypes DEF FilledInv, Typed

LEMMA LastWork ==
  ASSUME Typed, FilledInv, WorkerInv, setting.gpu_async => CountedInv, BehindInv, LastInv,
         WorkerStep
  PROVE  LastInv'
<1> DEFINE m == Head(rx_read_replies)
<1>1. /\ WorkerActs(m) /\ m \in Replies \cup Signals /\ UNCHANGED <<setting, run, data>>
  BY WorkerCases DEF Typed
<1>2. CASE ~setting.gpu_async
  <2>1. QED
    BY <1>1, <1>2 DEF LastInv, InRound
<1>3. CASE setting.gpu_async
  <2>1. /\ 1 \in Places /\ m = rx_read_replies[1]
        /\ m.gpu_signal = 0 => 1 \in Waiting /\ m \in Replies /\ AsRead(data, m)
        /\ ~Starts(m) => m.run <= started /\ (~Stale(m) => m.run = started)
        /\ m.run \in Nat \ {0} /\ started \in Nat
    BY <1>3, FirstFacts
  <2> HIDE DEF m
  <2>2. CASE NothingRead(m)
    BY <1>1, <2>2 DEF NothingRead, worker, LastInv, InRound
  <2>3. CASE StartSignal(m)
    BY <2>3 DEF StartSignal, LastInv, InRound
  <2>4. CASE EndSignal(m)
    <3>1. /\ UNCHANGED <<new_round, last_buffer, active_height, gensig_gpu, data_gpu, started,
                         late>>
          /\ ~Starts(m) /\ m.gpu_signal = 2
          /\ drive_count' = IF active_height = height(m) THEN drive_count + 1 ELSE drive_count
          /\ late_end' = (late_end \/ (Stale(m) /\ active_height = height(m)))
          /\ IF active_height = height(m) /\ drive_count' = Cardinality(Drives) /\ ~new_round
             THEN rx_sink' = {} ELSE rx_sink' = rx_sink
      BY <2>4 DEF EndSignal, Drained, Starts
    <3>3. ASSUME ~new_round', ~late', ~late_end'
          PROVE  /\ last_buffer'.run = started' /\ gensig_gpu' = started'
                 /\ data_gpu'[last_buffer'.buffer] = Own(last_buffer')
                 /\ rx_sink' = {} <=> drive_count' = Cardinality(Drives)
      <4>1. /\ ~new_round /\ ~late /\ ~late_end
            /\ ~(Stale(m) /\ active_height = height(m))
        BY <3>1, <3>3
      <4>2. /\ last_buffer.run = started /\ gensig_gpu = started
            /\ data_gpu[last_buffer.buffer] = Own(last_buffer)
            /\ rx_sink = {} <=> drive_count = Cardinality(Drives)
        BY <1>3, <4>1 DEF LastInv, InRound
      <4>3. CASE active_height = height(m)
        <5>1. m.run = started
          BY <2>1, <3>1, <4>1, <4>3
        <5>2. drive_count # Cardinality(Drives)
          BY <1>3, <2>1, <3>1, <4>1, <5>1, AllCounted
        <5>3. QED
          BY <3>1, <4>1, <4>2, <4>3, <5>2
      <4>4. CASE active_height # height(m)
        BY <3>1, <4>2, <4>4
      <4>5. QED
        BY <4>3, <4>4
    <3>4. QED
      BY <1>1, <3>3 DEF LastInv, InRound
  <2>5. CASE FirstBuffer(m) \/ NextBuffer(m)
    <3>1. /\ rx_sink' = {m.buffer} /\ last_buffer' = m /\ m.gpu_signal = 0 /\ m.len # 0
          /\ late' = (late \/ Stale(m))
          /\ UNCHANGED <<drive_count, started, late_end>>
          /\ transfer_buffer_to_gpu(m.buffer) /\ ~Starts(m)
      BY <2>5 DEF FirstBuffer, NextBuffer, Sinks, transfer_and_hash, Starts
    <3>2. data_gpu'[m.buffer] = Own(m)
      <4>1. m.buffer \in Buffers
        BY <2>1, <3>1, SignalFields
      <4>2. QED
        BY <2>1, <3>1, <4>1 DEF transfer_buffer_to_gpu, FilledInv, AsRead
    <3>3. ASSUME ~late', ~late_end'
          PROVE  /\ m.run = started /\ gensig_gpu' = started
                 /\ drive_count # Cardinality(Drives)
      <4>1. m.run = started /\ ~late /\ ~late_end
        BY <2>1, <3>1, <3>3
      <4>2. gensig_gpu' = started
        BY <1>3, <2>5, <4>1 DEF FirstBuffer, NextBuffer, LastInv, InRound
      <4>3. drive_count # Cardinality(Drives)
        BY <1>3, <2>1, <3>1, <4>1, AllCounted
      <4>4. QED
        BY <4>1, <4>2, <4>3
    <3>4. QED
      BY <3>1, <3>2, <3>3 DEF LastInv, InRound
  <2>6. QED
    BY <1>1, <1>3, <2>2, <2>3, <2>4, <2>5 DEF WorkerActs, HashNow
<1>4. QED
  BY <1>2, <1>3

\* One more report.
LEMMA Reporting ==
  ASSUME NEW m, NEW hashed, NEW gensig, Report(m, hashed, gensig)
  PROVE  BagToSet(reports') = BagToSet(reports) \cup
           {[reply |-> Said(m), data |-> hashed, gensig |-> gensig,
             disturbed |-> late \/ late_end \/ Stale(m)]}
BY DEF Report, BagToSet, SetToBag, (+)

LEMMA SaidFields ==
  ASSUME NEW m \in Replies
  PROVE  /\ Said(m).len = m.len /\ Said(m).run = m.run /\ Said(m).drive = m.drive
         /\ Said(m).chunk = m.chunk /\ Said(m).finished = m.finished
         /\ Said(m).gpu_signal = 0
BY DEF Said, Replies

\* A buffer is filled only while a drive has not ended.
LEMMA KeptReader ==
  ASSUME Typed, BuffersConserved, FilledInv, WorkerInv, setting.gpu_async => CountedInv,
         BehindInv, LastInv, KeptInv,
         \/ start_reading \/ stop_reading
         \/ \E t \in Tasks : Read(t) \/ Send(t) \/ Moves(t)
         \/ UNCHANGED vars
  PROVE  KeptInv'
<1>1. UNCHANGED <<setting, worker>>
  BY WorkerReader
<1>2. CASE ~InRound
  BY <1>1, <1>2 DEF KeptInv, InRound, worker
<1>3. CASE InRound
  <2>1. /\ \A t \in Sending : reply[t].run <= started => reply[t].buffer # last_buffer.buffer
        /\ \A i \in Waiting : rx_read_replies[i].run <= started =>
                                rx_read_replies[i].buffer # last_buffer.buffer
    BY <1>3 DEF KeptInv
  <2>2. ASSUME \A t \in Sending' : /\ t \in Sending /\ reply'[t] = reply[t],
               \A i \in Waiting' : i \in Waiting /\ rx_read_replies'[i] = rx_read_replies[i]
        PROVE  KeptInv'
    BY <1>1, <2>1, <2>2 DEF KeptInv, worker
  <2>3. CASE start_reading
    <3>1. /\ run + 1 \in 1..MaxRuns /\ reply' = reply
          /\ rx_read_replies' = Append(rx_read_replies, Signal(run + 1, 1))
          /\ \A t \in Tasks : pc'[t] = "sending" => pc[t] = "sending"
      BY <2>3, TaskTypes DEF start_reading, Typed, TypeOK
    <3>2. Signal(run + 1, 1) \in Signals /\ Signal(run + 1, 1).gpu_signal # 0
      BY <3>1, SignalFields DEF Signals
    <3>3. /\ Waiting' = Waiting
          /\ \A i \in Waiting : rx_read_replies'[i] = rx_read_replies[i]
      BY <3>1, <3>2, PlacesAppended, WaitingTypes DEF Typed
    <3>4. QED
      BY <2>2, <3>1, <3>3 DEF Sending
  <2>4. ASSUME NEW t \in Tasks, Read(t) PROVE KeptInv'
    <3>1. /\ Sending' = Sending \cup {t} /\ pc[t] = "reading" /\ t[1] = run
          /\ reply'[t].run = t[1] /\ reply'[t].buffer \in rx_empty_buffers
          /\ \A u \in Sending : u # t /\ reply'[u] = reply[u]
          /\ rx_read_replies' = rx_read_replies
      BY <2>4, ReadFacts DEF Sending
    <3>2. Waiting' = Waiting
      BY <3>1 DEF Waiting
    <3>3. ASSUME reply'[t].run <= started PROVE reply'[t].buffer # last_buffer.buffer
      <4>1. /\ last_buffer.run = started
            /\ rx_sink = {} <=> drive_count = Cardinality(Drives)
        BY <1>3 DEF LastInv
      <4>2. CASE rx_sink = {}
        <5>1. started = run /\ started # 0
          <6>1. run \in Nat /\ started \in 0..run /\ t[1] \in 1..run
            BY <3>1, RunTypes, StartedRun DEF WorkerInv
          <6>2. QED
            BY <3>1, <3>3, <6>1
        <5>2. \A d \in Drives : pc[<<started, d>>] = "ended"
          BY <1>3, <4>1, <4>2, <5>1, AllCounted DEF InRound
        <5>3. t = <<started, t[2]>> /\ t[2] \in Drives
          BY <3>1, <5>1, TaskTypes DEF Typed
        <5>4. QED
          BY <3>1, <5>2, <5>3
      <4>3. CASE rx_sink # {}
        <5>1. last_buffer.buffer \in rx_sink
          BY <4>3 DEF WorkerInv
        <5>2. QED
          BY <3>1, <5>1 DEF BuffersConserved
      <4>4. QED
        BY <4>2, <4>3
    <3>4. QED
      BY <1>1, <2>1, <3>1, <3>2, <3>3 DEF KeptInv, worker
  <2>5. ASSUME NEW t \in Tasks, Send(t) PROVE KeptInv'
    <3> DEFINE p == Len(rx_read_replies) + 1
    <3>1. /\ reply[t] \in Replies /\ t \in Sending /\ Sending' = Sending \ {t}
          /\ rx_read_replies' = Append(rx_read_replies, reply[t])
          /\ \A u \in Sending' : reply'[u] = reply[u]
      BY <2>5, SendFacts DEF Sending
    <3>2. /\ Waiting' = Waiting \cup {p} /\ rx_read_replies'[p] = reply[t]
          /\ \A i \in Waiting : rx_read_replies'[i] = rx_read_replies[i]
      BY <3>1, PlacesAppended, SignalFields, WaitingTypes DEF Typed
    <3> HIDE DEF p
    <3>3. QED
      BY <1>1, <2>1, <3>1, <3>2 DEF KeptInv, worker
  <2>6. ASSUME NEW t \in Tasks, Moves(t) PROVE KeptInv'
    <3>1. Sending' = Sending /\ reply' = reply
      BY <2>6, MoveFacts
    <3>2. CASE rx_read_replies' = rx_read_replies
      BY <2>2, <3>1, <3>2 DEF Waiting
    <3>3. CASE /\ rx_read_replies' = Append(rx_read_replies, Signal(t[1], 2))
               /\ Signal(t[1], 2) \in Signals
      BY <2>2, <3>1, <3>3, PlacesAppended, Distinct, WaitingTypes DEF Typed
    <3>4. QED
      BY <2>6, <3>2, <3>3, MoveFacts
  <2>7. CASE stop_reading \/ UNCHANGED vars
    BY <2>2, <2>7 DEF vars, readers, stop_reading, Sending, Waiting
  <2>8. QED
    BY <2>3, <2>4, <2>5, <2>6, <2>7
<1>4. QED
  BY <1>2, <1>3

LEMMA KeptWork ==
  ASSUME Typed, BuffersConserved, BuffersConserved', KeptInv, WorkerStep
  PROVE  KeptInv'
<1> DEFINE m == Head(rx_read_replies)
<1>1. /\ WorkerActs(m) /\ UNCHANGED <<setting, reply>> /\ Sending' = Sending
      /\ rx_read_replies # <<>> /\ rx_read_replies' = Tail(rx_read_replies)
  BY WorkerCases DEF Typed
<1>2. \A i \in Waiting' : i + 1 \in Waiting /\ rx_read_replies'[i] = rx_read_replies[i + 1]
  BY <1>1, PlacesTaken DEF Typed
<1> HIDE DEF m
<1>3. ASSUME UNCHANGED <<new_round, last_buffer, started, late>>, late_end => late_end'
      PROVE  KeptInv'
  <2>1. InRound' => InRound
    BY <1>1, <1>3 DEF InRound
  <2>2. QED
    BY <1>1, <1>2, <1>3, <2>1 DEF KeptInv
<1>4. CASE NothingRead(m) \/ HashNow(m) \/ EndSignal(m)
  BY <1>3, <1>4 DEF NothingRead, HashNow, EndSignal, worker
<1>5. CASE StartSignal(m)
  BY <1>5 DEF StartSignal, KeptInv, InRound
<1>6. CASE FirstBuffer(m) \/ NextBuffer(m)
  <2>1. rx_sink' = {m.buffer} /\ last_buffer' = m
    BY <1>6 DEF FirstBuffer, NextBuffer, Sinks
  <2>2. /\ \A t \in Sending' : reply'[t].buffer # m.buffer
        /\ \A i \in Waiting' : rx_read_replies'[i].buffer # m.buffer
    BY <2>1 DEF BuffersConserved, Filled, Queued
  <2>3. QED
    BY <2>1, <2>2 DEF KeptInv
<1>7. QED
  BY <1>1, <1>4, <1>5, <1>6 DEF WorkerActs

LEMMA HashWork ==
  ASSUME Typed, FilledInv, WorkerInv, LastInv, KeptInv, HashesItsOwn, WorkerStep
  PROVE  HashesItsOwn'
<1> DEFINE m == Head(rx_read_replies)
<1>1. /\ WorkerActs(m) /\ m \in Replies \cup Signals /\ UNCHANGED <<setting, run, data>>
      /\ rx_read_replies # <<>> /\ rx_read_replies' = Tail(rx_read_replies)
  BY WorkerCases DEF Typed
<1>2. m.gpu_signal = 0 =>
        1 \in Waiting /\ m = rx_read_replies[1] /\ m \in Replies /\ AsRead(data, m)
  <2>1. /\ 1 \in Places /\ m = rx_read_replies[1]
        /\ m.gpu_signal = 0 <=> 1 \in Waiting
    BY <1>1, PlacesTaken DEF Typed
  <2>2. QED
    BY <2>1, WaitingTypes DEF Typed, FilledInv
<1> HIDE DEF m
<1>3. ASSUME reports' = reports PROVE HashesItsOwn'
  BY <1>3 DEF HashesItsOwn
<1>4. ASSUME NEW x \in Replies, NEW hashed, NEW gensig, Report(x, hashed, gensig),
             x.len # 0 /\ ~(late \/ late_end \/ Stale(x)) => hashed = Own(x) /\ gensig = x.run
      PROVE  HashesItsOwn'
  <2> DEFINE r == [reply |-> Said(x), data |-> hashed, gensig |-> gensig,
                   disturbed |-> late \/ late_end \/ Stale(x)]
  <2>1. BagToSet(reports') = BagToSet(reports) \cup {r}
    BY <1>4, Reporting
  <2>2. r.reply.len > 0 /\ ~r.disturbed =>
          /\ r.data = <<r.reply.run, r.reply.drive, r.reply.chunk>>
          /\ r.gensig = r.reply.run
    <3>1. /\ r.reply = Said(x) /\ r.data = hashed /\ r.gensig = gensig
          /\ r.disturbed <=> (late \/ late_end \/ Stale(x))
      OBVIOUS
    <3>2. x.len = 0 \/ x.len # 0
      OBVIOUS
    <3>3. Own(x) = <<Said(x).run, Said(x).drive, Said(x).chunk>>
          /\ Said(x).len = x.len /\ Said(x).run = x.run
      BY <1>4, SaidFields DEF Own
    <3>4. ~(0 > 0)
      OBVIOUS
    <3> HIDE DEF r
    <3>5. QED
      BY <1>4, <3>1, <3>3, <3>4
  <2> HIDE DEF r
  <2>3. QED
    BY <2>1, <2>2 DEF HashesItsOwn
<1>5. CASE NothingRead(m)
  <2>1. CASE m.finished
    <3>1. m.gpu_signal = 0
      BY <1>1, <1>5, SignalFields DEF NothingRead
    <3>2. QED
      BY <1>2, <1>4, <1>5, <2>1, <3>1 DEF NothingRead
  <2>2. CASE ~m.finished
    BY <1>3, <1>5, <2>2 DEF NothingRead
  <2>3. QED
    BY <2>1, <2>2
<1>6. CASE HashNow(m)
  <2>1. CASE m.gpu_signal > 0
    BY <1>3, <1>6, <2>1 DEF HashNow
  <2>2. CASE ~(m.gpu_signal > 0)
    <3>1. m.gpu_signal = 0
      BY <1>1, <2>2, SignalFields
    <3>2. /\ Report(m, data_gpu'[m.buffer], gensig_gpu') /\ gensig_gpu' = m.run
          /\ data_gpu' = [data_gpu EXCEPT ![m.buffer] = data[m.buffer]]
      BY <1>6, <2>2 DEF HashNow, transfer_buffer_to_gpu
    <3>3. m.len # 0 => data_gpu'[m.buffer] = Own(m)
      BY <1>2, <3>1, <3>2, SignalFields DEF FilledInv, AsRead
    <3>4. QED
      BY <1>2, <1>4, <3>1, <3>2, <3>3
  <2>3. QED
    BY <2>1, <2>2
<1>7. CASE StartSignal(m) \/ FirstBuffer(m)
  BY <1>3, <1>7 DEF StartSignal, FirstBuffer
<1>8. CASE EndSignal(m)
  <2>1. CASE /\ active_height = height(m) /\ drive_count' = Cardinality(Drives) /\ ~new_round
    <3>1. /\ Report(last_buffer, data_gpu[last_buffer.buffer], gensig_gpu)
          /\ drive_count' = drive_count + 1 /\ setting.gpu_async
      BY <1>8, <2>1 DEF EndSignal
    <3>2. last_buffer \in Replies
      BY <2>1 DEF WorkerInv
    <3>4. ~late /\ ~late_end => /\ data_gpu[last_buffer.buffer] = Own(last_buffer)
                                /\ gensig_gpu = last_buffer.run
      BY <2>1, <3>1 DEF LastInv, InRound
    <3>5. QED
      BY <1>4, <3>1, <3>2, <3>4
  <2>2. CASE ~(/\ active_height = height(m) /\ drive_count' = Cardinality(Drives) /\ ~new_round)
    BY <1>3, <1>8, <2>2 DEF EndSignal
  <2>3. QED
    BY <2>1, <2>2
<1>9. CASE NextBuffer(m)
  <2>1. PICK hashed \in {data_gpu[last_buffer.buffer], data_gpu'[last_buffer.buffer]} :
          Report(last_buffer, hashed, gensig_gpu)
    BY <1>9 DEF NextBuffer, transfer_and_hash
  <2>2. /\ m.gpu_signal = 0 /\ m.len # 0 /\ ~new_round /\ setting.gpu_async /\ ~Starts(m)
        /\ data_gpu' = [data_gpu EXCEPT ![m.buffer] = data[m.buffer]]
    BY <1>9 DEF NextBuffer, transfer_and_hash, transfer_buffer_to_gpu, Starts
  <2>3. last_buffer \in Replies
    BY <2>2 DEF WorkerInv
  <2>4. ASSUME ~late, ~late_end
        PROVE  hashed = Own(last_buffer) /\ gensig_gpu = last_buffer.run
    <3>1. /\ last_buffer.run = started /\ gensig_gpu = started
          /\ data_gpu[last_buffer.buffer] = Own(last_buffer)
      BY <2>2, <2>4 DEF LastInv, InRound
    <3>2. m.run <= started
      BY <2>2, FirstFacts DEF m
    <3>3. m.buffer # last_buffer.buffer
      BY <1>2, <2>2, <2>4, <3>2 DEF KeptInv, InRound
    <3>4. data_gpu'[last_buffer.buffer] = data_gpu[last_buffer.buffer]
      BY <2>2, <2>3, <3>3, SignalFields DEF FilledInv
    <3>5. QED
      BY <2>1, <3>1, <3>4
  <2>5. QED
    BY <1>4, <2>1, <2>3, <2>4
<1>10. QED
  BY <1>1, <1>5, <1>6, <1>7, <1>8, <1>9 DEF WorkerActs

RoundInv ==
  /\ Typed /\ BuffersConserved
  /\ FilledInv /\ WorkerInv /\ BehindInv
  /\ setting.gpu_async => CountedInv
  /\ LastInv /\ KeptInv /\ HashesItsOwn

LEMMA RoundInit == Init => RoundInv
<1> SUFFICES ASSUME Init PROVE RoundInv
  OBVIOUS
<1>1. Typed /\ BuffersConserved
  BY TypeInit, InitConserved
<1>2. /\ Sending = {} /\ Waiting = {} /\ Places = {}
      /\ run = 0 /\ started = 0 /\ rx_sink = {} /\ new_round
      /\ BagToSet(reports) = {}
  BY DEF Init, Sending, Waiting, Places, BagToSet, EmptyBag, SetToBag
<1>3. FilledInv
  <2>1. MaxRuns \in Nat /\ NoData \in Data
    BY GpuAssumption DEF NoData, Data
  <2>2. /\ data \in [Buffers -> Data] /\ data_gpu \in [Buffers -> Data]
    BY <2>1 DEF Init
  <2>3. {t \in Tasks : t[1] < run} = {}
    BY <1>2 DEF Tasks
  <2>4. QED
    BY <1>2, <2>2, <2>3 DEF FilledInv
<1>4. WorkerInv
  <2>1. QueueInv
    BY <1>2 DEF QueueInv
  <2>2. /\ new_round = TRUE /\ late = FALSE /\ late_end = FALSE
        /\ drive_count = 0 /\ last_buffer = NoReply
    BY DEF Init
  <2>3. started \in 0..run /\ drive_count \in Nat
    BY <1>2, <2>2
  <2>4. QED
    BY <1>2, <2>1, <2>2, <2>3 DEF WorkerInv
<1>5. BehindInv /\ CountedInv
  BY <1>2 DEF BehindInv, CountedInv
<1>6. LastInv /\ KeptInv /\ HashesItsOwn
  BY <1>2 DEF LastInv, KeptInv, InRound, HashesItsOwn
<1>7. QED
  BY <1>1, <1>3, <1>4, <1>5, <1>6 DEF RoundInv

LEMMA RoundStep == RoundInv /\ [Next]_vars => RoundInv'
<1> SUFFICES ASSUME RoundInv, [Next]_vars PROVE RoundInv'
  OBVIOUS
<1>1. /\ Typed /\ BuffersConserved /\ FilledInv /\ WorkerInv /\ BehindInv
      /\ LastInv /\ KeptInv /\ HashesItsOwn
      /\ setting.gpu_async => CountedInv
      /\ drive_count \in Nat /\ started \in 0..run
  BY DEF RoundInv, WorkerInv
<1>2. Typed' /\ BuffersConserved'
  BY <1>1, NextConserves
<1>3. FilledInv' /\ WorkerInv'
  BY <1>1, FilledStep, WorkerStepInv
<1>4. CASE WorkerStep
  <2>1. setting' = setting
    BY <1>1, <1>4, WorkerCases DEF Typed
  <2>2. QED
    BY <1>1, <1>2, <1>3, <1>4, <2>1, CountedWork, BehindWork, LastWork, KeptWork, HashWork
    DEF RoundInv
<1>5. CASE \/ start_reading \/ stop_reading
           \/ \E t \in Tasks : Read(t) \/ Send(t) \/ Moves(t)
           \/ UNCHANGED vars
  <2>1. UNCHANGED <<setting, worker>>
    BY <1>1, <1>5, WorkerReader
  <2>2. BehindInv' /\ (setting.gpu_async => CountedInv') /\ KeptInv'
    BY <1>1, <1>5, CountedReader, BehindReader, KeptReader
  <2>3. LastInv'
    BY <1>1, <2>1 DEF LastInv, InRound, worker
  <2>4. HashesItsOwn'
    <3>1. BagToSet(reports') \subseteq BagToSet(reports)
      <4>1. CASE start_reading
        BY <4>1 DEF start_reading, BagToSet, EmptyBag, SetToBag
      <4>2. CASE reports' = reports
        BY <4>2
      <4>3. QED
        BY <1>1, <1>5, <4>1, <4>2, ReadFacts, SendFacts, MoveFacts DEF vars, stop_reading
    <3>2. QED
      BY <1>1, <3>1 DEF HashesItsOwn
  <2>5. QED
    BY <1>2, <1>3, <2>1, <2>2, <2>3, <2>4 DEF RoundInv
<1>6. QED
  BY <1>4, <1>5, Kinds

\* Unless messages of an interrupted scan came after the start signal, what either
\* worker reports of a reply is computed from what was read for it, with the
\* generation signature of its scan (gpu_worker.rs, gpu_worker_async.rs).
THEOREM OwnHashed == Spec => []HashesItsOwn
<1>1. RoundInv => HashesItsOwn
  BY DEF RoundInv
<1>2. QED
  BY <1>1, RoundInit, RoundStep, PTL DEF Spec

-----------------------------------------------------------------------------
(* What becomes of the replies of the last scan.                            *)

\* Those of a task are sent in the order of its chunks, and none twice.
SentInv ==
  /\ \A t \in Tasks, x \in sent :
       /\ pc[t] \in {"new", "spawned", "reading", "sending"}
       /\ x.run = t[1] /\ x.drive = t[2]
       => pc[t] # "new" /\ x.chunk < next[t]
  /\ \A x \in sent : x.chunk \in Nat
  /\ \A i \in Waiting : rx_read_replies[i].run = run => Said(rx_read_replies[i]) \in sent
  /\ \A i, j \in Waiting :
       /\ rx_read_replies[i].run = run /\ rx_read_replies[j].run = run
       /\ Said(rx_read_replies[i]) = Said(rx_read_replies[j])
       => i = j

\* A reply on its way to be sent has not been sent.
LEMMA NotSent ==
  ASSUME Typed, FilledInv, SentInv, NEW t \in Sending
  PROVE  Said(reply[t]) \notin sent
<1>1. /\ t \in Tasks /\ reply[t] \in Replies /\ pc[t] = "sending" /\ next[t] \in Nat
      /\ reply[t].run = t[1] /\ reply[t].drive = t[2] /\ reply[t].chunk = next[t]
  BY WaitingTypes DEF Typed, TypeOK, FilledInv, Sending
<1>2. /\ Said(reply[t]).run = t[1] /\ Said(reply[t]).drive = t[2]
      /\ Said(reply[t]).chunk = next[t]
  BY <1>1, SaidFields
<1>3. Said(reply[t]) \in sent => next[t] < next[t]
  BY <1>1, <1>2 DEF SentInv
<1>4. ~(next[t] < next[t])
  BY <1>1
<1>5. QED
  BY <1>3, <1>4

\* The place of a waiting reply after the queue has moved on.
LEMMA SentQueue ==
  ASSUME SentInv, UNCHANGED run, sent \subseteq sent',
         \A i \in Waiting' : i \in Waiting /\ rx_read_replies'[i] = rx_read_replies[i]
  PROVE  /\ \A i \in Waiting' : rx_read_replies'[i].run = run' =>
                                  Said(rx_read_replies'[i]) \in sent'
         /\ \A i, j \in Waiting' :
              /\ rx_read_replies'[i].run = run' /\ rx_read_replies'[j].run = run'
              /\ Said(rx_read_replies'[i]) = Said(rx_read_replies'[j])
              => i = j
BY DEF SentInv

LEMMA SentStart ==
  ASSUME Typed, FilledInv, SentInv, start_reading
  PROVE  SentInv' /\ \A i \in Waiting' : rx_read_replies'[i].run # run'
<1>1. /\ run' = run + 1 /\ sent' = {} /\ run + 1 \in 1..MaxRuns /\ run \in Nat
      /\ rx_read_replies' = Append(rx_read_replies, Signal(run + 1, 1))
  BY TaskTypes DEF start_reading, Typed
<1>2. Signal(run + 1, 1) \in Signals /\ Signal(run + 1, 1).gpu_signal # 0
  BY <1>1, SignalFields DEF Signals
<1>3. Waiting' = Waiting /\ \A i \in Waiting : rx_read_replies'[i] = rx_read_replies[i]
  BY <1>1, <1>2, PlacesAppended, WaitingTypes DEF Typed
<1>4. run' \notin 1..run
  BY <1>1
<1>5. \A i \in Waiting' : rx_read_replies'[i].run # run'
  BY <1>3, <1>4, WaitingTypes DEF FilledInv, Typed
<1>6. QED
  BY <1>1, <1>5 DEF SentInv

LEMMA SentRead ==
  ASSUME Typed, BuffersConserved, FilledInv, SentInv, NEW t \in Tasks, Read(t)
  PROVE  SentInv'
<1>1. /\ UNCHANGED <<run, next, sent, rx_read_replies>>
      /\ \A u \in Tasks : u # t => pc'[u] = pc[u]
      /\ pc[t] = "reading" /\ pc'[t] = "sending"
  BY ReadFacts
<1>2. Waiting' = Waiting
  BY <1>1 DEF Waiting
<1>3. QED
  BY <1>1, <1>2 DEF SentInv

LEMMA SentSend ==
  ASSUME Typed, BuffersConserved, FilledInv, SentInv, NEW t \in Tasks, Send(t)
  PROVE  SentInv'
<1> DEFINE p == Len(rx_read_replies) + 1
           x == Said(reply[t])
<1>1. /\ \A u \in Tasks : u # t => pc'[u] = pc[u] /\ next'[u] = next[u]
      /\ pc[t] = "sending" /\ t \in Sending /\ reply[t] \in Replies
      /\ pc'[t] \in {"signalling", "spawned", "reading"}
      /\ pc'[t] \in {"spawned", "reading"} => next'[t] > next[t]
      /\ rx_read_replies' = Append(rx_read_replies, reply[t])
      /\ sent' = sent \cup {x} /\ UNCHANGED run
  BY SendFacts
<1>2. /\ Waiting' = Waiting \cup {p} /\ rx_read_replies'[p] = reply[t] /\ p \notin Waiting
      /\ \A i \in Waiting : rx_read_replies'[i] = rx_read_replies[i]
  BY <1>1, PlacesAppended, SignalFields, WaitingTypes DEF Typed
<1>3. x.run = t[1] /\ x.drive = t[2] /\ x.chunk = next[t] /\ next[t] \in Nat
  BY <1>1, SaidFields DEF FilledInv, Typed, TypeOK
<1>4. x \notin sent
  BY <1>1, NotSent
<1> HIDE DEF p, x
<1>5. ASSUME NEW u \in Tasks, NEW y \in sent',
             pc'[u] \in {"new", "spawned", "reading", "sending"}, y.run = u[1], y.drive = u[2]
      PROVE  pc'[u] # "new" /\ y.chunk < next'[u]
  <2>1. CASE u # t
    <3>1. y # x
      BY <1>3, <1>5, <2>1, TaskTypes DEF Typed
    <3>2. QED
      BY <1>1, <1>5, <2>1, <3>1 DEF SentInv
  <2>2. CASE u = t
    <3>1. pc'[t] # "new" /\ next'[t] > next[t] /\ next'[t] \in Nat
      <4>1. next' \in [Tasks -> Nat]
        BY SendConserves DEF Typed, TypeOK
      <4>2. QED
        BY <1>1, <1>5, <2>2, <4>1
    <3>2. CASE y = x
      BY <1>3, <2>2, <3>1, <3>2
    <3>3. CASE y \in sent
      <4>1. y.chunk < next[t] /\ y.chunk \in Nat
        BY <1>1, <1>5, <2>2, <3>3 DEF SentInv
      <4>2. QED
        BY <1>3, <2>2, <3>1, <4>1
    <3>4. QED
      BY <1>1, <3>2, <3>3
  <2>3. QED
    BY <2>1, <2>2
<1>6. \A y \in sent' : y.chunk \in Nat
  BY <1>1, <1>3 DEF SentInv
<1>7. \A i \in Waiting' : rx_read_replies'[i].run = run' => Said(rx_read_replies'[i]) \in sent'
  BY <1>1, <1>2 DEF SentInv, x
<1>8. ASSUME NEW i \in Waiting', NEW j \in Waiting',
             rx_read_replies'[i].run = run', rx_read_replies'[j].run = run',
             Said(rx_read_replies'[i]) = Said(rx_read_replies'[j])
      PROVE  i = j
  <2>1. ASSUME NEW k \in Waiting, rx_read_replies'[k].run = run'
        PROVE  Said(rx_read_replies'[k]) # x
    BY <1>1, <1>2, <1>4, <2>1 DEF SentInv
  <2>2. Said(rx_read_replies'[p]) = x
    BY <1>2 DEF x
  <2>3. CASE i = p \/ j = p
    BY <1>2, <1>8, <2>1, <2>2, <2>3
  <2>4. CASE i # p /\ j # p
    BY <1>1, <1>2, <1>8, <2>4 DEF SentInv
  <2>5. QED
    BY <2>3, <2>4
<1>9. QED
  BY <1>5, <1>6, <1>7, <1>8 DEF SentInv

LEMMA SentMove ==
  ASSUME Typed, SentInv, NEW t \in Tasks, Moves(t)
  PROVE  /\ SentInv'
         /\ Waiting' = Waiting /\ \A i \in Waiting : rx_read_replies'[i] = rx_read_replies[i]
<1>1. /\ \A u \in Tasks : u # t => pc'[u] = pc[u] /\ next'[u] = next[u]
      /\ UNCHANGED <<run, sent>>
      /\ pc'[t] \notin {"new", "sending"}
      /\ pc'[t] \in {"spawned", "reading"} =>
           pc[t] \in {"spawned", "reading"} /\ next'[t] >= next[t]
  BY MoveFacts
<1>2. Waiting' = Waiting /\ \A i \in Waiting : rx_read_replies'[i] = rx_read_replies[i]
  <2>1. CASE rx_read_replies' = rx_read_replies
    BY <2>1 DEF Waiting
  <2>2. CASE /\ rx_read_replies' = Append(rx_read_replies, Signal(t[1], 2))
             /\ Signal(t[1], 2) \in Signals
    BY <2>2, PlacesAppended, Distinct, WaitingTypes DEF Typed
  <2>3. QED
    BY <2>1, <2>2, MoveFacts
<1>3. next[t] \in Nat /\ next'[t] \in Nat
  BY OnlyMoves DEF Typed, TypeOK
<1>4. ASSUME NEW x \in sent, pc'[t] \in {"spawned", "reading"}, x.run = t[1], x.drive = t[2]
      PROVE  x.chunk < next'[t]
  <2>1. x.chunk < next[t] /\ x.chunk \in Nat /\ next'[t] >= next[t]
    BY <1>1, <1>4 DEF SentInv
  <2>2. QED
    BY <1>3, <2>1
<1>5. ASSUME NEW u \in Tasks, NEW x \in sent',
             pc'[u] \in {"new", "spawned", "reading", "sending"}, x.run = u[1], x.drive = u[2]
      PROVE  pc'[u] # "new" /\ x.chunk < next'[u]
  <2>1. CASE u = t
    BY <1>1, <1>4, <1>5, <2>1
  <2>2. CASE u # t
    BY <1>1, <1>5, <2>2 DEF SentInv
  <2>3. QED
    BY <2>1, <2>2
<1>6. \A x \in sent' : x.chunk \in Nat
  BY <1>1 DEF SentInv
<1>7. QED
  BY <1>1, <1>2, <1>5, <1>6, SentQueue DEF SentInv

LEMMA SentWork ==
  ASSUME Typed, SentInv, WorkerStep
  PROVE  SentInv'
<1>1. /\ rx_read_replies # <<>> /\ rx_read_replies' = Tail(rx_read_replies)
      /\ UNCHANGED <<run, pc, next, sent>>
  BY WorkerCases DEF Typed
<1>2. \A i \in Waiting' : /\ i \in Nat /\ i + 1 \in Waiting
                          /\ rx_read_replies'[i] = rx_read_replies[i + 1]
  BY <1>1, PlacesTaken DEF Typed
<1>3. \A i \in Waiting' : rx_read_replies'[i].run = run' => Said(rx_read_replies'[i]) \in sent'
  BY <1>1, <1>2 DEF SentInv
<1>4. ASSUME NEW i \in Waiting', NEW j \in Waiting',
             rx_read_replies'[i].run = run', rx_read_replies'[j].run = run',
             Said(rx_read_replies'[i]) = Said(rx_read_replies'[j])
      PROVE  i = j
  <2>1. i + 1 = j + 1
    BY <1>1, <1>2, <1>4 DEF SentInv
  <2>2. QED
    BY <1>2, <2>1
<1>5. QED
  BY <1>1, <1>3, <1>4 DEF SentInv

\* A reply of the last scan that is to be reported: it holds data, or ends its
\* drive.
Due(m) == m.run = run /\ (m.len # 0 \/ m.finished)

\* Of those, the ones sent, waiting, in the sink and reported.
SentNow == {x \in sent : Due(x)}
Expected == {Said(rx_read_replies[i]) : i \in {j \in Waiting : Due(rx_read_replies[j])}}
Held == IF rx_sink # {} /\ last_buffer.run = run THEN {Said(last_buffer)} ELSE {}
Told == {r.reply : r \in {q \in BagToSet(reports) : q.reply.run = run}}

Once ==
  \A r \in BagToSet(reports) :
    r.reply.run = run =>
      /\ reports[r] = 1
      /\ \A q \in BagToSet(reports) : q.reply = r.reply => q = r

\* Nothing of an earlier scan has come into the last one.
Calm == started = run => ~late /\ ~late_end

\* Every reply is in one of these.
Accounts(S, E, H, T) ==
  S = E \cup H \cup T /\ E \cap H = {} /\ E \cap T = {} /\ H \cap T = {}

AccountInv == Calm => Accounts(SentNow, Expected, Held, Told) /\ Once

LEMMA ExpectedTaken ==
  ASSUME Typed, SentInv, rx_read_replies # <<>>, run' = run,
         rx_read_replies' = Tail(rx_read_replies), NEW m, m = Head(rx_read_replies)
  PROVE  /\ m.gpu_signal = 0 /\ Due(m) =>
              Said(m) \in Expected /\ Expected' = Expected \ {Said(m)}
         /\ ~(m.gpu_signal = 0 /\ Due(m)) => Expected' = Expected
<1>1. /\ m = rx_read_replies[1]
      /\ \A i \in Waiting' : i + 1 \in Waiting /\ i + 1 # 1
                             /\ rx_read_replies'[i] = rx_read_replies[i + 1]
      /\ \A i \in Waiting : i # 1 => i - 1 \in Waiting'
                             /\ rx_read_replies'[i - 1] = rx_read_replies[i]
      /\ m.gpu_signal = 0 <=> 1 \in Waiting
  BY PlacesTaken DEF Typed
<1> DEFINE Now == {j \in Waiting : Due(rx_read_replies[j])}
           NowNext == {j \in Waiting' : Due(rx_read_replies'[j])}
<1>2. /\ Expected = {Said(rx_read_replies[i]) : i \in Now}
      /\ Expected' = {Said(rx_read_replies'[i]) : i \in NowNext}
  BY DEF Expected, Due
<1>3. /\ \A i \in NowNext : i + 1 \in Now /\ i + 1 # 1
                            /\ rx_read_replies'[i] = rx_read_replies[i + 1]
      /\ \A i \in Now : i # 1 => i - 1 \in NowNext
                            /\ rx_read_replies'[i - 1] = rx_read_replies[i]
      /\ m.gpu_signal = 0 /\ Due(m) <=> 1 \in Now
  BY <1>1
<1>4. \A i, j \in Now : Said(rx_read_replies[i]) = Said(rx_read_replies[j]) => i = j
  BY DEF SentInv, Due
<1> HIDE DEF Now, NowNext
<1>5. /\ \A x \in Expected' : \E i \in Now : i # 1 /\ x = Said(rx_read_replies[i])
      /\ \A i \in Now : i # 1 => Said(rx_read_replies[i]) \in Expected'
  <2>1. ASSUME NEW x \in Expected'
        PROVE  \E i \in Now : i # 1 /\ x = Said(rx_read_replies[i])
    <3>1. PICK i \in NowNext : x = Said(rx_read_replies'[i])
      BY <1>2
    <3>2. QED
      BY <1>3, <3>1
  <2>2. ASSUME NEW i \in Now, i # 1 PROVE Said(rx_read_replies[i]) \in Expected'
    BY <1>2, <1>3, <2>2
  <2>3. QED
    BY <2>1, <2>2
<1>6. CASE 1 \in Now
  <2>1. Said(m) \in Expected
    BY <1>1, <1>2, <1>6
  <2>2. ASSUME NEW x \in Expected' PROVE x \in Expected /\ x # Said(m)
    <3>1. PICK i \in Now : i # 1 /\ x = Said(rx_read_replies[i])
      BY <1>5
    <3>2. QED
      BY <1>1, <1>2, <1>4, <1>6, <3>1
  <2>3. ASSUME NEW x \in Expected, x # Said(m) PROVE x \in Expected'
    <3>1. PICK i \in Now : x = Said(rx_read_replies[i])
      BY <1>2
    <3>2. i # 1
      BY <1>1, <2>3, <3>1
    <3>3. QED
      BY <1>5, <3>1, <3>2
  <2>4. QED
    BY <1>3, <1>6, <2>1, <2>2, <2>3
<1>7. CASE 1 \notin Now
  <2>1. ASSUME NEW x \in Expected' PROVE x \in Expected
    BY <1>2, <1>5
  <2>2. ASSUME NEW x \in Expected PROVE x \in Expected'
    <3>1. PICK i \in Now : x = Said(rx_read_replies[i])
      BY <1>2
    <3>2. QED
      BY <1>5, <1>7, <3>1
  <2>3. QED
    BY <1>3, <1>7, <2>1, <2>2
<1>8. QED
  BY <1>6, <1>7

\* What is reported once more.
LEMMA ToldMore ==
  ASSUME NEW m \in Replies, NEW hashed, NEW gensig, Report(m, hashed, gensig), run' = run,
         Once, Said(m) \notin Told
  PROVE  /\ m.run = run => Told' = Told \cup {Said(m)}
         /\ m.run # run => Told' = Told
         /\ Once'
<1> DEFINE r == [reply |-> Said(m), data |-> hashed, gensig |-> gensig,
                 disturbed |-> late \/ late_end \/ Stale(m)]
<1>1. /\ BagToSet(reports') = BagToSet(reports) \cup {r}
      /\ \A q \in BagToSet(reports) : q # r /\ reports[q] = 1 => reports'[q] = 1
      /\ r \notin BagToSet(reports) => reports'[r] = 1
  <2>1. reports' = reports (+) SetToBag({r})
    BY DEF Report
  <2> HIDE DEF r
  <2>2. reports' = [e \in (DOMAIN reports) \cup {r} |->
                      (IF e \in DOMAIN reports THEN reports[e] ELSE 0) +
                      (IF e \in {r} THEN 1 ELSE 0)]
    BY <2>1 DEF SetToBag, (+)
  <2>3. QED
    BY <2>2 DEF BagToSet
<1>2. r.reply = Said(m) /\ Said(m).run = m.run
  BY SaidFields
<1> HIDE DEF r
<1>3. /\ m.run = run => Told' = Told \cup {Said(m)}
      /\ m.run # run => Told' = Told
  BY <1>1, <1>2 DEF Told
<1>4. m.run = run => \A q \in BagToSet(reports) : q.reply # Said(m)
  BY <1>2 DEF Told
<1>5. ASSUME NEW q \in BagToSet(reports'), q.reply.run = run
      PROVE  /\ reports'[q] = 1
             /\ \A p \in BagToSet(reports') : p.reply = q.reply => p = q
  <2>1. CASE q = r
    BY <1>1, <1>2, <1>4, <1>5, <2>1
  <2>2. CASE q # r
    <3>1. /\ q \in BagToSet(reports) /\ reports'[q] = 1
          /\ \A p \in BagToSet(reports) : p.reply = q.reply => p = q
      BY <1>1, <1>5, <2>2 DEF Once
    <3>2. q.reply # r.reply
      BY <1>2, <1>4, <1>5, <3>1
    <3>3. QED
      BY <1>1, <3>1, <3>2
  <2>3. QED
    BY <2>1, <2>2
<1>6. QED
  BY <1>3, <1>5 DEF Once

LEMMA AccountReader ==
  ASSUME Typed, BuffersConserved, FilledInv, WorkerInv, SentInv, AccountInv,
         \/ start_reading \/ stop_reading
         \/ \E t \in Tasks : Read(t) \/ Send(t) \/ Moves(t)
         \/ UNCHANGED vars
  PROVE  AccountInv'
<1>1. UNCHANGED worker
  BY WorkerReader
<1>2. ASSUME UNCHANGED <<run, reports>>
      PROVE  Held' = Held /\ Told' = Told /\ Once' = Once /\ Calm' = Calm
  BY <1>1, <1>2 DEF Held, Told, Once, Calm, worker
<1>3. ASSUME UNCHANGED <<run, reports, sent>>, Waiting' = Waiting,
             \A i \in Waiting : rx_read_replies'[i] = rx_read_replies[i]
      PROVE  AccountInv'
  <2>1. SentNow' = SentNow
    BY <1>3 DEF SentNow, Due
  <2>2. Expected' = Expected
    BY <1>3 DEF Expected, Due
  <2>3. QED
    BY <1>2, <1>3, <2>1, <2>2 DEF AccountInv
<1>4. CASE start_reading
  <2>1. /\ sent' = {} /\ reports' = EmptyBag /\ run' = run + 1
        /\ \A i \in Waiting' : rx_read_replies'[i].run # run'
    BY <1>4, SentStart DEF start_reading
  <2>2. BagToSet(reports') = {}
    BY <2>1 DEF BagToSet, EmptyBag, SetToBag
  <2>3. SentNow' = {} /\ Expected' = {} /\ Told' = {} /\ Once'
    BY <2>1, <2>2 DEF SentNow, Expected, Told, Once, Due
  <2>4. Held' = {}
    <3>1. CASE rx_sink = {}
      BY <1>1, <3>1 DEF Held, worker
    <3>2. CASE rx_sink # {}
      <4>1. /\ last_buffer \in Replies /\ last_buffer.run <= started /\ started \in 0..run
            /\ run \in Nat
        BY <3>2, RunTypes DEF WorkerInv
      <4>2. last_buffer.run \in 1..MaxRuns /\ MaxRuns \in Nat
        BY <4>1, SignalFields, GpuAssumption
      <4>3. last_buffer.run # run + 1
        BY <4>1, <4>2
      <4>4. QED
        BY <1>1, <2>1, <4>3 DEF Held, worker
    <3>3. QED
      BY <3>1, <3>2
  <2>5. QED
    BY <2>3, <2>4 DEF AccountInv, Accounts
<1>5. ASSUME NEW t \in Tasks, Read(t) PROVE AccountInv'
  <2>1. UNCHANGED <<run, reports, sent, rx_read_replies>>
    BY <1>5, ReadFacts
  <2>2. QED
    BY <1>3, <2>1 DEF Waiting
<1>6. ASSUME NEW t \in Tasks, Send(t) PROVE AccountInv'
  <2> DEFINE p == Len(rx_read_replies) + 1
             x == Said(reply[t])
  <2>1. /\ reply[t] \in Replies /\ t \in Sending /\ UNCHANGED <<run, reports>>
        /\ rx_read_replies' = Append(rx_read_replies, reply[t])
        /\ sent' = sent \cup {x}
    BY <1>6, SendFacts
  <2>2. /\ Waiting' = Waiting \cup {p} /\ rx_read_replies'[p] = reply[t] /\ p \notin Waiting
        /\ \A i \in Waiting : rx_read_replies'[i] = rx_read_replies[i]
    BY <2>1, PlacesAppended, SignalFields, WaitingTypes DEF Typed
  <2>3. x \notin sent /\ (Due(x) <=> Due(reply[t])) /\ x = Said(reply[t])
    BY <2>1, NotSent, SaidFields DEF Due
  <2> HIDE DEF p, x
  <2>4. SentNow' = IF Due(reply[t]) THEN SentNow \cup {x} ELSE SentNow
    BY <2>1, <2>3 DEF SentNow, Due
  <2>5. Expected' = IF Due(reply[t]) THEN Expected \cup {x} ELSE Expected
    <3> DEFINE Now == {j \in Waiting : Due(rx_read_replies[j])}
    <3>1. Now' = IF Due(reply[t]) THEN Now \cup {p} ELSE Now
      BY <2>1, <2>2 DEF Due
    <3>2. /\ Expected = {Said(rx_read_replies[i]) : i \in Now}
          /\ Expected' = {Said(rx_read_replies'[i]) : i \in Now'}
      BY DEF Expected, Due
    <3>3. Now \subseteq Waiting
      OBVIOUS
    <3> HIDE DEF Now
    <3>4. QED
      BY <2>2, <2>3, <3>1, <3>2, <3>3
  <2>6. x \notin SentNow
    BY <2>3 DEF SentNow
  <2>7. QED
    BY <1>2, <2>1, <2>4, <2>5, <2>6 DEF AccountInv, Accounts
<1>7. ASSUME NEW t \in Tasks, Moves(t) PROVE AccountInv'
  BY <1>3, <1>7, MoveFacts, SentMove
<1>8. CASE stop_reading \/ UNCHANGED vars
  BY <1>3, <1>8 DEF vars, readers, stop_reading, Waiting
<1>9. QED
  BY <1>4, <1>5, <1>6, <1>7, <1>8

\* A report moves one reply to those told of.
LEMMA AccountReport ==
  ASSUME NEW m \in Replies, NEW hashed, NEW gensig, Report(m, hashed, gensig),
         UNCHANGED <<run, sent>>, Once,
         NEW E, NEW H, E = Expected', H = Held',
         Accounts(SentNow, IF m.run = run THEN E \cup {Said(m)} ELSE E, H, Told)
           \/ Accounts(SentNow, E, IF m.run = run THEN H \cup {Said(m)} ELSE H, Told),
         m.run = run => Said(m) \notin E \cup H
  PROVE  AccountInv'
<1>1. SentNow' = SentNow
  BY DEF SentNow, Due
<1>2. Said(m) \notin Told
  <2>1. CASE m.run = run
    BY <2>1 DEF Accounts
  <2>2. CASE m.run # run
    <3>1. Said(m).run = m.run /\ \A x \in Told : x.run = run
      BY SaidFields DEF Told
    <3>2. QED
      BY <2>2, <3>1
  <2>3. QED
    BY <2>1, <2>2
<1>3. /\ m.run = run => Told' = Told \cup {Said(m)}
      /\ m.run # run => Told' = Told
      /\ Once'
  BY <1>2, ToldMore
<1>4. CASE m.run = run
  BY <1>1, <1>3, <1>4 DEF AccountInv, Accounts
<1>5. CASE m.run # run
  BY <1>1, <1>3, <1>5 DEF AccountInv, Accounts
<1>6. QED
  BY <1>4, <1>5

LEMMA AccountWork ==
  ASSUME Typed, BuffersConserved, FilledInv, WorkerInv, setting.gpu_async => CountedInv,
         BehindInv, LastInv, SentInv, AccountInv, WorkerStep
  PROVE  AccountInv'
<1> SUFFICES ASSUME Calm' PROVE AccountInv'
  BY DEF AccountInv
<1> DEFINE m == Head(rx_read_replies)
<1>1. /\ WorkerActs(m) /\ m \in Replies \cup Signals
      /\ UNCHANGED <<setting, run, sent>> /\ run \in Nat
      /\ rx_read_replies # <<>> /\ rx_read_replies' = Tail(rx_read_replies)
  BY WorkerCases, RunTypes DEF Typed
<1>2. /\ m.gpu_signal = 0 /\ Due(m) =>
           Said(m) \in Expected /\ Expected' = Expected \ {Said(m)}
      /\ ~(m.gpu_signal = 0 /\ Due(m)) => Expected' = Expected
  BY <1>1, ExpectedTaken
<1>3. m.gpu_signal = 0 => 1 \in Waiting /\ m = rx_read_replies[1] /\ m \in Replies
                          /\ AsRead(data, m)
  <2>1. /\ 1 \in Places /\ m = rx_read_replies[1]
        /\ m.gpu_signal = 0 <=> 1 \in Waiting
    BY <1>1, PlacesTaken DEF Typed
  <2>2. QED
    BY <2>1, WaitingTypes DEF Typed, FilledInv
<1>4. setting.gpu_async /\ ~Starts(m) =>
        m.run <= started /\ (~Stale(m) => m.run = started)
  BY FirstFacts
<1>5. ~new_round => /\ last_buffer \in Replies
                    /\ last_buffer.run = run => started = run
  <2>1. ASSUME ~new_round, last_buffer.run = run PROVE started = run
    <3>1. last_buffer.run <= started /\ started \in 0..run
      BY <2>1 DEF WorkerInv
    <3>2. QED
      BY <1>1, <2>1, <3>1
  <2>2. QED
    BY <2>1 DEF WorkerInv
<1> HIDE DEF m
<1>6. ASSUME Calm PROVE Accounts(SentNow, Expected, Held, Told) /\ Once
  BY <1>6 DEF AccountInv
<1>7. ASSUME Calm, reports' = reports, Expected' = Expected, Held' = Held PROVE AccountInv'
  <2>1. SentNow' = SentNow /\ Told' = Told /\ Once' = Once
    BY <1>1, <1>7 DEF SentNow, Told, Once, Due
  <2>2. QED
    BY <1>6, <1>7, <2>1 DEF AccountInv
<1>8. ASSUME started' = started, late => late', late_end => late_end' PROVE Calm
  BY <1>1, <1>8 DEF Calm
<1>9. ASSUME Calm, m.gpu_signal = 0, m.len # 0 \/ m.finished, Held' = Held,
             NEW hashed, NEW gensig, Report(m, hashed, gensig)
      PROVE  AccountInv'
  <2>1. Accounts(SentNow, Expected, Held, Told) /\ Once
    BY <1>6, <1>9
  <2>2. CASE m.run = run
    <3>1. Said(m) \in Expected /\ Expected' = Expected \ {Said(m)}
      BY <1>2, <1>9, <2>2 DEF Due
    <3>2. Expected' \cup {Said(m)} = Expected /\ Said(m) \notin Expected' \cup Held'
      BY <1>9, <2>1, <3>1 DEF Accounts
    <3>3. QED
      BY <1>1, <1>3, <1>9, <2>1, <2>2, <3>2, AccountReport
  <2>3. CASE m.run # run
    BY <1>1, <1>2, <1>3, <1>9, <2>1, <2>3, AccountReport DEF Due
  <2>4. QED
    BY <2>2, <2>3
<1>10. CASE NothingRead(m)
  <2>1. m.gpu_signal = 0 /\ m.len = 0
    BY <1>1, <1>10, SignalFields DEF NothingRead
  <2>2. UNCHANGED worker
    BY <1>10 DEF NothingRead
  <2>3. Calm /\ Held' = Held
    BY <1>1, <1>8, <2>2 DEF worker, Held
  <2>4. CASE m.finished
    <3>1. Report(m, NoData, m.run)
      BY <1>10, <2>4 DEF NothingRead
    <3>2. QED
      BY <1>9, <2>1, <2>3, <2>4, <3>1
  <2>5. CASE ~m.finished
    <3>1. reports' = reports /\ ~Due(m)
      BY <1>10, <2>1, <2>5 DEF NothingRead, Due
    <3>2. QED
      BY <1>2, <1>7, <2>3, <3>1
  <2>6. QED
    BY <2>4, <2>5
<1>11. CASE HashNow(m)
  <2>1. Calm /\ Held' = Held
    BY <1>1, <1>8, <1>11 DEF HashNow, Held
  <2>2. CASE m.gpu_signal > 0
    <3>1. reports' = reports
      BY <1>11, <2>2 DEF HashNow
    <3>2. m.gpu_signal # 0
      BY <2>2
    <3>3. QED
      BY <1>2, <1>7, <2>1, <3>1, <3>2
  <2>3. CASE ~(m.gpu_signal > 0)
    <3>1. m.gpu_signal = 0
      BY <1>1, <2>3, SignalFields
    <3>2. Report(m, data_gpu'[m.buffer], gensig_gpu') /\ m.len # 0
      BY <1>11, <2>3 DEF HashNow
    <3>3. QED
      BY <1>9, <2>1, <3>1, <3>2
  <2>4. QED
    BY <2>2, <2>3
<1>12. CASE StartSignal(m)
  <2>1. /\ started' = m.run /\ m.gpu_signal = 1 /\ reports' = reports
        /\ last_buffer' = last_buffer /\ rx_sink' = {} /\ setting.gpu_async
    BY <1>12 DEF StartSignal, Drained, WorkerInv
  <2>2. started # run
    <3>1. QueueInv /\ started \in 0..run
      BY <2>1 DEF WorkerInv
    <3>2. m.run \in 1..run /\ m.run > started
      BY <1>1, <2>1, <3>1, FirstMessage DEF Starts, m
    <3>3. QED
      BY <1>1, <3>1, <3>2
  <2>3. Calm
    BY <2>2 DEF Calm
  <2>4. Held = {} /\ Held' = {}
    BY <1>5, <2>1, <2>2 DEF Held, WorkerInv
  <2>5. QED
    BY <1>2, <1>7, <2>1, <2>3, <2>4
<1>13. CASE EndSignal(m)
  <2>1. /\ UNCHANGED <<new_round, last_buffer, started, late>> /\ setting.gpu_async
        /\ m.gpu_signal = 2 /\ (late_end => late_end')
    BY <1>13 DEF EndSignal
  <2>2. Calm /\ Expected' = Expected
    <3>1. late => late'
      BY <2>1
    <3>2. m.gpu_signal # 0
      BY <2>1
    <3>3. QED
      BY <1>2, <1>8, <2>1, <3>1, <3>2
  <2>3. CASE ~(/\ active_height = height(m) /\ drive_count' = Cardinality(Drives) /\ ~new_round)
    <3>1. reports' = reports /\ rx_sink' = rx_sink
      BY <1>13, <2>3 DEF EndSignal
    <3>2. Held' = Held
      BY <1>1, <2>1, <3>1 DEF Held
    <3>3. QED
      BY <1>7, <2>2, <3>1, <3>2
  <2>4. CASE active_height = height(m) /\ drive_count' = Cardinality(Drives) /\ ~new_round
    <3>1. /\ Report(last_buffer, data_gpu[last_buffer.buffer], gensig_gpu) /\ rx_sink' = {}
          /\ drive_count' = drive_count + 1 /\ drive_count \in Nat
      BY <1>13, <2>4 DEF EndSignal, Drained, WorkerInv
    <3>2. drive_count # Cardinality(Drives)
      BY <2>4, <3>1
    <3>3. Held' = {} /\ Accounts(SentNow, Expected, Held, Told) /\ Once
      BY <1>6, <2>2, <3>1 DEF Held
    <3>4. CASE last_buffer.run = run
      <4>1. InRound
        BY <1>5, <2>1, <2>2, <2>4, <3>4 DEF Calm, InRound
      <4>2. Held = {Said(last_buffer)}
        BY <3>2, <3>4, <4>1 DEF LastInv, Held
      <4>3. /\ Held' \cup {Said(last_buffer)} = Held
            /\ Said(last_buffer) \notin Expected' \cup Held'
        BY <2>2, <3>3, <4>2 DEF Accounts
      <4>4. QED
        BY <1>1, <1>5, <2>2, <2>4, <3>1, <3>3, <3>4, <4>3, AccountReport
    <3>5. CASE last_buffer.run # run
      <4>1. Held = {}
        BY <3>5 DEF Held
      <4>2. QED
        BY <1>1, <1>5, <2>2, <2>4, <3>1, <3>3, <3>5, <4>1, AccountReport
    <3>6. QED
      BY <3>4, <3>5
  <2>5. QED
    BY <2>3, <2>4
<1>14. ASSUME FirstBuffer(m) \/ NextBuffer(m)
       PROVE  /\ Calm /\ m.gpu_signal = 0 /\ setting.gpu_async /\ ~Starts(m)
              /\ Due(m) <=> m.run = run
              /\ Held' = IF m.run = run THEN {Said(m)} ELSE {}
              /\ started' = started /\ (late \/ Stale(m) => late') /\ late_end' = late_end
  <2>1. /\ rx_sink' = {m.buffer} /\ last_buffer' = m /\ m.gpu_signal = 0
        /\ late' = (late \/ Stale(m)) /\ UNCHANGED <<started, late_end>>
        /\ setting.gpu_async /\ ~Starts(m) /\ m.len # 0
    BY <1>14 DEF FirstBuffer, NextBuffer, Sinks, Starts
  <2>2. QED
    BY <1>1, <1>8, <2>1 DEF Held, Due
<1>15. CASE FirstBuffer(m)
  <2>1. Held = {} /\ reports' = reports
    BY <1>15 DEF FirstBuffer, Held
  <2>2. CASE m.run = run
    <3>1. SentNow' = SentNow /\ Told' = Told /\ Once' = Once
      BY <1>1, <2>1 DEF SentNow, Told, Once, Due
    <3>2. /\ Said(m) \in Expected /\ Expected' = Expected \ {Said(m)} /\ Held' = {Said(m)}
          /\ Accounts(SentNow, Expected, Held, Told) /\ Once
      BY <1>2, <1>6, <1>14, <1>15, <2>2
    <3>3. Accounts(SentNow, Expected', Held', Told)
      BY <2>1, <3>2 DEF Accounts
    <3>4. QED
      BY <3>1, <3>2, <3>3 DEF AccountInv
  <2>3. CASE m.run # run
    BY <1>2, <1>7, <1>14, <1>15, <2>1, <2>3
  <2>4. QED
    BY <2>2, <2>3
<1>16. CASE NextBuffer(m)
  <2>1. PICK hashed : Report(last_buffer, hashed, gensig_gpu)
    BY <1>16 DEF NextBuffer, transfer_and_hash
  <2>2. ~new_round /\ last_buffer \in Replies
    BY <1>5, <1>16 DEF NextBuffer
  <2>3. Accounts(SentNow, Expected, Held, Told) /\ Once
    BY <1>6, <1>14, <1>16
  <2>4. CASE last_buffer.run = run
    <3>1. started = run /\ ~late /\ ~late_end /\ ~Stale(m)
      BY <1>1, <1>5, <1>14, <1>16, <2>2, <2>4 DEF Calm
    <3>2. m.run = run /\ InRound /\ started # 0
      <4>1. m.run = run
        BY <1>4, <1>14, <1>16, <3>1
      <4>2. m.run # 0
        BY <1>14, <1>16, FirstFacts DEF m
      <4>3. QED
        BY <1>14, <1>16, <2>2, <3>1, <4>1, <4>2 DEF InRound
    <3>3. drive_count # Cardinality(Drives)
      BY <1>3, <1>14, <1>16, <3>1, <3>2, AllCounted
    <3>4. Held = {Said(last_buffer)}
      BY <2>4, <3>2, <3>3 DEF LastInv, Held
    <3>5. Said(m) \in Expected /\ Expected' = Expected \ {Said(m)} /\ Held' = {Said(m)}
      BY <1>2, <1>14, <1>16, <3>2
    <3>6. /\ Accounts(SentNow, Expected', Held' \cup {Said(last_buffer)}, Told)
          /\ Said(last_buffer) \notin Expected' \cup Held'
      BY <2>3, <3>4, <3>5 DEF Accounts
    <3>7. QED
      BY <1>1, <2>1, <2>2, <2>3, <2>4, <3>6, AccountReport
  <2>5. CASE last_buffer.run # run
    <3>1. Held = {}
      BY <2>5 DEF Held
    <3>2. Accounts(SentNow, Expected', Held', Told)
      <4>1. CASE m.run = run
        <5>1. Said(m) \in Expected /\ Expected' = Expected \ {Said(m)} /\ Held' = {Said(m)}
          BY <1>2, <1>14, <1>16, <4>1
        <5>2. QED
          BY <2>3, <3>1, <5>1 DEF Accounts
      <4>2. CASE m.run # run
        BY <1>2, <1>14, <1>16, <2>3, <3>1, <4>2
      <4>3. QED
        BY <4>1, <4>2
    <3>3. QED
      BY <1>1, <2>1, <2>2, <2>3, <2>5, <3>2, AccountReport
  <2>6. QED
    BY <2>4, <2>5
<1>17. QED
  BY <1>1, <1>10, <1>11, <1>12, <1>13, <1>15, <1>16 DEF WorkerActs

SettledInv == RoundInv /\ SentInv /\ AccountInv

LEMMA SettledInit == Init => SettledInv
<1> SUFFICES ASSUME Init PROVE SettledInv
  OBVIOUS
<1>1. Waiting = {} /\ BagToSet(reports) = {} /\ rx_sink = {} /\ sent = {}
  BY DEF Init, Waiting, BagToSet, EmptyBag, SetToBag
<1>2. SentInv
  BY <1>1 DEF SentInv
<1>3. SentNow = {} /\ Expected = {} /\ Held = {} /\ Told = {} /\ Once
  BY <1>1 DEF SentNow, Expected, Held, Told, Once
<1>4. QED
  BY <1>2, <1>3, RoundInit DEF SettledInv, AccountInv, Accounts

LEMMA SettledStep == SettledInv /\ [Next]_vars => SettledInv'
<1> SUFFICES ASSUME SettledInv, [Next]_vars PROVE SettledInv'
  OBVIOUS
<1>1. /\ RoundInv /\ SentInv /\ AccountInv
      /\ Typed /\ BuffersConserved /\ FilledInv /\ WorkerInv /\ BehindInv /\ LastInv
      /\ setting.gpu_async => CountedInv
  BY DEF SettledInv, RoundInv
<1>2. SentInv'
  <2>1. CASE stop_reading \/ UNCHANGED vars
    BY <1>1, <2>1 DEF vars, readers, stop_reading, SentInv, Waiting
  <2>2. QED
    BY <1>1, <2>1, Kinds, SentStart, SentRead, SentSend, SentMove, SentWork
<1>3. AccountInv'
  BY <1>1, Kinds, AccountReader, AccountWork
<1>4. QED
  BY <1>1, <1>2, <1>3, RoundStep DEF SettledInv

\* When every drive has ended and its messages have been handled, the sink is empty.
LEMMA SinkEmptied ==
  ASSUME RoundInv, run > 0, rx_read_replies = <<>>, ~late, ~late_end,
         \A d \in Drives : pc[<<run, d>>] = "ended"
  PROVE  rx_sink = {}
<1>1. Typed /\ WorkerInv /\ LastInv /\ (setting.gpu_async => CountedInv) /\ run \in Nat
  BY RunTypes DEF RoundInv
<1>2. CASE new_round
  BY <1>1, <1>2 DEF WorkerInv
<1>3. CASE ~new_round
  <2>1. setting.gpu_async /\ started \in 0..run /\ InRound
    BY <1>1, <1>3 DEF WorkerInv, InRound
  <2>2. Places = {}
    BY DEF Places
  <2>3. started = run
    <3>1. \A n \in 1..run : ~(n > started)
      BY <1>1, <2>1, <2>2 DEF WorkerInv, QueueInv
    <3>2. QED
      BY <1>1, <2>1, <3>1
  <2>4. Ends(run) = {} /\ Ended(run) = Drives
    BY <2>2 DEF Ends, Ended
  <2>5. drive_count + 0 = Cardinality(Drives) /\ drive_count \in Nat
    <3>1. run \in 1..run
      BY <1>1
    <3>2. drive_count + Cardinality(Ends(run)) = Cardinality(Ended(run))
      BY <1>1, <2>1, <2>3, <3>1 DEF CountedInv
    <3>3. QED
      BY <1>1, <2>4, <3>2, FS_EmptySet DEF WorkerInv
  <2>6. QED
    BY <1>1, <2>1, <2>5 DEF LastInv
<1>4. QED
  BY <1>2, <1>3

\* When every drive of the last scan has ended, with nothing of an earlier one in it,
\* each of its replies has been reported once and no buffer is kept.
THEOREM RoundHashed == Spec => []RoundIsHashed
<1>1. SettledInv => RoundIsHashed
  <2> SUFFICES ASSUME SettledInv, run > 0, rx_read_replies = <<>>, ~late, ~late_end,
                      \A d \in Drives : pc[<<run, d>>] = "ended"
               PROVE  /\ \A m \in sent :
                           m.run = run /\ (m.len > 0 \/ m.finished) =>
                             \E r \in BagToSet(reports) : r.reply = m /\ reports[r] = 1
                      /\ \A r, q \in BagToSet(reports) :
                           r.reply = q.reply /\ r.reply.run = run => r = q
                      /\ rx_sink = {}
    BY DEF RoundIsHashed
  <2>1. rx_sink = {}
    BY SinkEmptied DEF SettledInv
  <2>2. Accounts(SentNow, Expected, Held, Told) /\ Once
    BY DEF SettledInv, AccountInv, Calm
  <2>3. Expected = {} /\ Held = {}
    BY <2>1 DEF Expected, Waiting, Held
  <2>4. SentNow = Told
    BY <2>2, <2>3 DEF Accounts
  <2>5. ASSUME NEW m \in sent, m.run = run, m.len > 0 \/ m.finished
        PROVE  \E r \in BagToSet(reports) : r.reply = m /\ reports[r] = 1
    <3>1. m \in Told
      <4>1. m.len > 0 => m.len # 0
        OBVIOUS
      <4>2. QED
        BY <2>4, <2>5, <4>1 DEF SentNow, Due
    <3>2. PICK r \in BagToSet(reports) : r.reply = m /\ r.reply.run = run
      BY <3>1 DEF Told
    <3>3. QED
      BY <2>2, <3>2 DEF Once
  <2>6. QED
    BY <2>1, <2>2, <2>5 DEF Once
<1>2. QED
  BY <1>1, SettledInit, SettledStep, PTL DEF Spec
=============================================================================
