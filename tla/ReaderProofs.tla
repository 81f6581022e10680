--------------------------- MODULE ReaderProofs ----------------------------
(***************************************************************************)
(* Proofs about Reader, for every number of drives, plots, chunks, threads, *)
(* buffers and starts: types, the lock of each plot and the conservation of *)
(* buffers; then what a scan reports: that every task sends the chunks of   *)
(* its plots in order and none is left out, that what it sent reaches the   *)
(* nonce handler with one end marker, and how many chunks the marker can    *)
(* overtake.                                                                *)
(***************************************************************************)
EXTENDS Reader, TLAPS, FiniteSetTheorems, FunctionTheorems, SequenceTheorems

\* The plot of its drive that t is at.
At(t) == <<t[2], plot[t]>>

\* t holds the lock of At(t).
Locks(t) == pc[t] \in {"buffer", "send"}

\* A plot is locked by one task at a time.
LockedOnce ==
  \A t, u \in Tasks : Locks(t) /\ Locks(u) /\ At(t) = At(u) => t = u

\* A task that will read its plot again is not at its end.
WithinPlot ==
  \A t \in Tasks :
    pc[t] = "buffer" \/ (pc[t] = "send" /\ ~reply[t].info.next_plot) =>
      read_offset[At(t)] < ChunkCount[At(t)]

Typed == TypeOK /\ LockedOnce /\ WithinPlot

LEMMA ConstantTypes ==
  /\ MaxRuns \in Nat /\ PlotCount \in Nat \ {0} /\ 1 \in Plots /\ PlotCount \in Plots
  /\ Plots \subseteq Nat
  /\ \A t \in Tasks : t = <<t[1], t[2]>> /\ t[1] \in 1..MaxRuns /\ t[2] \in Drives
  /\ \A t \in Tasks, p \in Plots : <<t[2], p>> \in Drives \X Plots
  /\ \A x \in Drives \X Plots : ChunkCount[x] \in Nat /\ ChunkCount[x] > 0
  /\ Cardinality(Buffers) \in Nat
<1>1. Cardinality(Buffers) \in Nat
  BY ReaderAssumption, FS_CardinalityType
<1>2. \A x \in Drives \X Plots : ChunkCount[x] \in Nat /\ ChunkCount[x] > 0
  BY ReaderAssumption
<1>3. QED
  BY <1>1, <1>2, ReaderAssumption DEF Plots, Tasks

-----------------------------------------------------------------------------
(* Steps of a reader task.                                                  *)

LEMMA InitTyped == ASSUME Init PROVE Typed
<1> USE ConstantTypes
<1>1. TypeOK
  <2>1. pc \in [Tasks -> Places] /\ \A t \in Tasks : pc[t] # "send"
    BY DEF Init, Places
  <2>2. read_offset \in [Drives \X Plots -> Nat]
        /\ \A x \in Drives \X Plots : read_offset[x] <= ChunkCount[x]
    BY DEF Init
  <2>3. nonce_data \in Seq(Chunk) /\ Len(nonce_data) <= Cardinality(Buffers)
    BY DEF Init
  <2>4. rx_read_replies \in Seq(ReadReply) /\ sent \in [Tasks -> Seq(Chunk)]
    BY DEF Init
  <2>5. reply \in [Tasks -> ReadReply \cup {NoReply}]
    BY DEF Init
  <2>6. plot \in [Tasks -> Plots] /\ run \in 0..MaxRuns /\ interupts \subseteq Tasks
    BY DEF Init
  <2>a. SHOULD_STOP_MINING \in BOOLEAN
    BY DEF Init
  <2>7. rx_empty_buffers \subseteq Buffers /\ returning \subseteq Buffers
        /\ hashing \subseteq ReadReply /\ handled \subseteq Chunk
    BY DEF Init
  <2>8. QED
    BY <2>1, <2>2, <2>3, <2>4, <2>5, <2>6, <2>a, <2>7 DEF TypeOK
<1>2. LockedOnce
  BY DEF Init, LockedOnce, Locks
<1>3. WithinPlot
  BY DEF Init, WithinPlot
<1>4. QED
  BY <1>1, <1>2, <1>3 DEF Typed

\* Steps that leave the tasks and the locks alone.
LEMMA OthersTyped ==
  ASSUME Typed, UNCHANGED taskVars, TypeOK'
  PROVE  Typed'
BY DEF Typed, taskVars, LockedOnce, WithinPlot, Locks, At

LEMMA CallersTyped ==
  ASSUME Typed, start_reading \/ stop_reading \/ SetStop
  PROVE  Typed'
<1> USE ConstantTypes
<1>1. CASE start_reading
  <2>1. TypeOK'
    BY <1>1 DEF Typed, TypeOK, start_reading, hashVars, Places, Started
  <2>2. \A t \in Tasks : pc'[t] \in {"buffer", "send"} => pc[t] = pc'[t]
    BY <1>1 DEF start_reading, Typed, TypeOK
  <2>3. LockedOnce'
    BY <1>1, <2>2 DEF start_reading, Typed, LockedOnce, Locks, At
  <2>4. WithinPlot'
    BY <1>1, <2>2 DEF start_reading, Typed, WithinPlot, At
  <2>5. QED
    BY <2>1, <2>3, <2>4 DEF Typed
<1>2. CASE stop_reading
  <2>1. TypeOK'
    BY <1>2 DEF Typed, TypeOK, stop_reading, taskVars, hashVars, Started
  <2>2. QED
    BY <1>2, <2>1, OthersTyped DEF stop_reading
<1>3. CASE SetStop
  <2>1. TypeOK'
    BY <1>3 DEF Typed, TypeOK, SetStop, taskVars, hashVars
  <2>2. QED
    BY <1>3, <2>1, OthersTyped DEF SetStop
<1>4. QED
  BY <1>1, <1>2, <1>3

\* Where a task goes when it leaves its plot for the next one.
LEMMA NextPlotMoves ==
  ASSUME Typed, NEW t \in Tasks, NextPlot(t)
  PROVE  /\ pc' \in [Tasks -> Places] /\ plot' \in [Tasks -> Plots]
         /\ pc'[t] \in {"done", "plot"}
         /\ \A u \in Tasks : u # t => pc'[u] = pc[u] /\ plot'[u] = plot[u]
<1>1. pc \in [Tasks -> Places] /\ plot \in [Tasks -> Plots]
  BY DEF Typed, TypeOK
<1>2. PlotCount \in Nat /\ plot[t] \in Plots
  BY <1>1, ConstantTypes
<1>3. CASE IsLast(t)
  BY <1>1, <1>3, ConstantTypes DEF NextPlot, Goes, Places
<1>4. CASE ~IsLast(t)
  <2>1. plot[t] # PlotCount
    BY <1>4 DEF IsLast
  <2>2. ASSUME NEW p \in Plots, p # PlotCount PROVE p + 1 \in Plots
    BY <1>2, <2>2 DEF Plots
  <2>3. plot[t] + 1 \in Plots
    BY <1>2, <2>1, <2>2
  <2>4. QED
    BY <1>1, <1>4, <2>3 DEF NextPlot, Goes, Places
<1>5. QED
  BY <1>3, <1>4

\* A step of a task that holds no lock after it and changes no offset.
LEMMA LetsGo ==
  ASSUME Typed, TypeOK', NEW t \in Tasks,
         pc'[t] \notin {"buffer", "send"},
         \A u \in Tasks : u # t => pc'[u] = pc[u] /\ plot'[u] = plot[u] /\ reply'[u] = reply[u],
         \A u \in Tasks : u # t /\ Locks(u) => read_offset'[At(u)] = read_offset[At(u)]
  PROVE  Typed'
<1>1. LockedOnce'
  BY DEF Typed, LockedOnce, Locks, At
<1>2. WithinPlot'
  <2> SUFFICES ASSUME NEW u \in Tasks,
                      (pc[u] = "buffer" \/ (pc[u] = "send" /\ ~reply[u].info.next_plot))'
               PROVE  (read_offset[At(u)] < ChunkCount[At(u)])'
    BY DEF WithinPlot
  <2>1. u # t
    OBVIOUS
  <2>2. Locks(u) /\ At(u)' = At(u)
    BY <2>1 DEF Locks, At
  <2>3. QED
    BY <2>1, <2>2 DEF Typed, WithinPlot
<1>3. QED
  BY <1>1, <1>2 DEF Typed

LEMMA BeginTyped ==
  ASSUME Typed, NEW t \in Tasks, Begin(t) \/ CheckStop(t)
  PROVE  Typed'
<1>1. /\ pc' \in [Tasks -> Places]
      /\ pc'[t] \notin {"buffer", "send"}
      /\ \A u \in Tasks : u # t => pc'[u] = pc[u]
      /\ UNCHANGED <<run, SHOULD_STOP_MINING, plot, reply, read_offset, sent, interupts,
                     rx_empty_buffers, rx_read_replies, hashVars>>
  BY DEF Typed, TypeOK, Begin, CheckStop, Goes, Places, CallersUnchanged
<1>2. TypeOK'
  BY <1>1 DEF Typed, TypeOK, hashVars
<1>3. QED
  BY <1>1, <1>2, LetsGo DEF At

LEMMA LockTyped ==
  ASSUME Typed, NEW t \in Tasks, LockPlot(t)
  PROVE  Typed'
<1> USE ConstantTypes
<1> DEFINE x == At(t)
<1>1. /\ x \in Drives \X Plots
      /\ read_offset' = [read_offset EXCEPT ![x] = 0]
      /\ UNCHANGED <<run, SHOULD_STOP_MINING, reply, sent, interupts,
                     rx_empty_buffers, rx_read_replies, hashVars>>
  BY DEF Typed, TypeOK, LockPlot, At, CallersUnchanged
<1>2. /\ read_offset' \in [Drives \X Plots -> Nat]
      /\ \A y \in Drives \X Plots : read_offset'[y] <= ChunkCount[y]
  BY <1>1 DEF Typed, TypeOK
<1>3. \A u \in Tasks : Locks(u) => At(u) # x
  <2> SUFFICES ASSUME NEW u \in Tasks, Locks(u), At(u) = x
               PROVE  FALSE
    OBVIOUS
  <2>1. u[2] = t[2] /\ plot[u] = plot[t]
    BY DEF At
  <2>2. QED
    BY <2>1 DEF LockPlot, Holds, Locks
<1>4. CASE Goes(t, "buffer") /\ UNCHANGED plot
  <2>1. pc' = [pc EXCEPT ![t] = "buffer"] /\ pc \in [Tasks -> Places]
    BY <1>4 DEF Goes, Typed, TypeOK
  <2>2. pc' \in [Tasks -> Places]
    BY <2>1 DEF Places
  <2>3. \A u \in Tasks : pc'[u] = "send" => pc[u] = "send"
    BY <2>1
  <2>4. TypeOK'
    BY <1>1, <1>2, <1>4, <2>2, <2>3 DEF Typed, TypeOK, hashVars
  <2>5. LockedOnce'
    BY <1>3, <1>4, <2>1 DEF Typed, LockedOnce, Locks, At
  <2>6. WithinPlot'
    <3> SUFFICES ASSUME NEW u \in Tasks,
                        (pc[u] = "buffer" \/ (pc[u] = "send" /\ ~reply[u].info.next_plot))'
                 PROVE  (read_offset[At(u)] < ChunkCount[At(u)])'
      BY DEF WithinPlot
    <3>1. CASE u = t
      BY <1>1, <1>4, <3>1 DEF At, Typed, TypeOK
    <3>2. CASE u # t
      <4>1. Locks(u) /\ At(u)' = At(u) /\ pc'[u] = pc[u] /\ reply'[u] = reply[u]
        BY <1>1, <1>4, <2>1, <3>2 DEF Locks, At
      <4>2. read_offset'[At(u)] = read_offset[At(u)]
        BY <1>1, <1>3, <4>1 DEF Typed, TypeOK, At
      <4>3. QED
        BY <4>1, <4>2 DEF Typed, WithinPlot
    <3>3. QED
      BY <3>1, <3>2
  <2>7. QED
    BY <2>4, <2>5, <2>6 DEF Typed
<1>5. CASE NextPlot(t)
  <2>1. TypeOK'
    BY <1>1, <1>2, <1>5, NextPlotMoves DEF Typed, TypeOK, hashVars
  <2>2. \A u \in Tasks : u # t /\ Locks(u) => read_offset'[At(u)] = read_offset[At(u)]
    BY <1>1, <1>3 DEF At, Typed, TypeOK
  <2>3. QED
    BY <1>1, <1>5, <2>1, <2>2, NextPlotMoves, LetsGo
<1>6. QED
  BY <1>4, <1>5 DEF LockPlot

\* What a read, failed or not, makes is a chunk, and tells whether t will read
\* the plot again.
LEMMA ChunkTypes ==
  ASSUME Typed, NEW t \in Tasks, pc[t] = "buffer"
  PROVE  /\ NextChunk(t) \in Chunk /\ FailedChunk(t) \in Chunk
         /\ FailedChunk(t).next_plot
         /\ ~NextChunk(t).next_plot => read_offset[At(t)] + 1 < ChunkCount[At(t)]
<1>1. /\ At(t) \in Drives \X Plots /\ plot[t] \in Plots
      /\ read_offset[At(t)] \in Nat /\ ChunkCount[At(t)] \in Nat
  BY ConstantTypes DEF Typed, TypeOK, At
<1>2. NextChunk(t) \in Chunk
  BY <1>1 DEF NextChunk, Chunk, IsLast, At
<1>3. FailedChunk(t) \in Chunk
  BY <1>1 DEF FailedChunk, Chunk, IsLast
<1>4. FailedChunk(t).next_plot
  BY DEF FailedChunk
<1>5. ASSUME ~NextChunk(t).next_plot
      PROVE  read_offset[At(t)] + 1 < ChunkCount[At(t)]
  <2>1. ~(read_offset[At(t)] + 1 >= ChunkCount[At(t)])
    BY <1>5 DEF NextChunk, At
  <2>2. QED
    BY <1>1, <2>1
<1>6. QED
  BY <1>2, <1>3, <1>4, <1>5

LEMMA AdvancedOffset ==
  ASSUME Typed, NEW t \in Tasks, pc[t] = "buffer"
  PROVE  /\ Advanced(t) \in [Drives \X Plots -> Nat]
         /\ Advanced(t)[At(t)] = read_offset[At(t)] + 1
         /\ \A x \in Drives \X Plots :
              /\ Advanced(t)[x] <= ChunkCount[x]
              /\ x # At(t) => Advanced(t)[x] = read_offset[x]
<1> USE ConstantTypes
<1>1. At(t) \in Drives \X Plots /\ read_offset \in [Drives \X Plots -> Nat]
  BY DEF Typed, TypeOK, At
<1>2. read_offset[At(t)] < ChunkCount[At(t)]
  BY DEF Typed, WithinPlot
<1>3. Advanced(t) = [read_offset EXCEPT ![At(t)] = @ + 1]
  BY DEF Advanced, At
<1>4. QED
  BY <1>1, <1>2, <1>3 DEF Typed, TypeOK

\* A task that holds a lock is alone in using its offset.
LEMMA OtherOffsets ==
  ASSUME Typed, NEW t \in Tasks, pc[t] = "buffer",
         read_offset' \in {read_offset, Advanced(t)}
  PROVE  \A u \in Tasks : u # t /\ Locks(u) => read_offset'[At(u)] = read_offset[At(u)]
<1> USE ConstantTypes
<1> SUFFICES ASSUME NEW u \in Tasks, u # t, Locks(u)
             PROVE  read_offset'[At(u)] = read_offset[At(u)]
  OBVIOUS
<1>1. At(u) # At(t)
  BY DEF Typed, LockedOnce, Locks
<1>2. At(u) \in Drives \X Plots
  BY DEF Typed, TypeOK, At
<1>3. QED
  BY <1>1, <1>2, AdvancedOffset

LEMMA ReadTyped ==
  ASSUME Typed, NEW t \in Tasks, NEW b \in rx_empty_buffers, Read(t, b)
  PROVE  Typed'
<1> USE ConstantTypes
<1>1. pc[t] = "buffer"
  BY DEF Read
<1>2. /\ UNCHANGED <<run, SHOULD_STOP_MINING, plot, sent, interupts, rx_read_replies,
                     hashVars>>
      /\ rx_empty_buffers' = rx_empty_buffers \ {b}
      /\ pc' = [pc EXCEPT ![t] = "send"]
      /\ pc \in [Tasks -> Places] /\ reply \in [Tasks -> ReadReply \cup {NoReply}]
      /\ b \in Buffers
  BY DEF Read, Fills, Goes, CallersUnchanged, Typed, TypeOK
<1>3. PICK c \in Chunk : /\ reply' = [reply EXCEPT ![t] = [buffer |-> b, info |-> c]]
                         /\ \/ c = NextChunk(t) /\ read_offset' = Advanced(t)
                            \/ c = FailedChunk(t) /\ UNCHANGED read_offset
  BY <1>1, ChunkTypes DEF Read, Fills
<1>4. [buffer |-> b, info |-> c] \in ReadReply
  BY <1>2 DEF ReadReply
<1>5. /\ read_offset' \in [Drives \X Plots -> Nat]
      /\ \A x \in Drives \X Plots : read_offset'[x] <= ChunkCount[x]
  BY <1>1, <1>3, AdvancedOffset DEF Typed, TypeOK
<1>6. \A u \in Tasks : u # t => pc'[u] = pc[u] /\ reply'[u] = reply[u]
  BY <1>2, <1>3
<1>7. pc'[t] = "send" /\ reply'[t] = [buffer |-> b, info |-> c]
  BY <1>2, <1>3
<1>8. TypeOK'
  <2>1. pc' \in [Tasks -> Places]
    BY <1>2 DEF Places
  <2>2. reply' \in [Tasks -> ReadReply \cup {NoReply}]
    BY <1>2, <1>3, <1>4
  <2>3. \A u \in Tasks : pc'[u] = "send" => reply'[u] \in ReadReply
    BY <1>4, <1>6, <1>7 DEF Typed, TypeOK
  <2>4. QED
    BY <1>2, <1>5, <2>1, <2>2, <2>3 DEF Typed, TypeOK, hashVars
<1>9. LockedOnce'
  BY <1>1, <1>2, <1>6, <1>7 DEF Typed, LockedOnce, Locks, At
<1>10. WithinPlot'
  <2> SUFFICES ASSUME NEW u \in Tasks,
                      (pc[u] = "buffer" \/ (pc[u] = "send" /\ ~reply[u].info.next_plot))'
               PROVE  (read_offset[At(u)] < ChunkCount[At(u)])'
    BY DEF WithinPlot
  <2>0. At(u)' = At(u)
    BY <1>2 DEF At
  <2>1. CASE u = t
    <3>1. ~c.next_plot
      BY <1>7, <2>1
    <3>2. c = NextChunk(t) /\ read_offset' = Advanced(t)
      BY <1>1, <1>3, <3>1, ChunkTypes
    <3>3. QED
      BY <1>1, <2>0, <2>1, <3>1, <3>2, ChunkTypes, AdvancedOffset
  <2>2. CASE u # t
    <3>1. Locks(u) /\ pc'[u] = pc[u] /\ reply'[u] = reply[u]
      BY <1>6, <2>2 DEF Locks
    <3>2. read_offset'[At(u)] = read_offset[At(u)]
      BY <1>1, <1>3, <2>2, <3>1, OtherOffsets
    <3>3. QED
      BY <2>0, <3>1, <3>2 DEF Typed, WithinPlot
  <2>3. QED
    BY <2>1, <2>2
<1>11. QED
  BY <1>8, <1>9, <1>10 DEF Typed

LEMMA StopsTyped ==
  ASSUME Typed, NEW t \in Tasks, NEW b \in rx_empty_buffers, Stops(t, b)
  PROVE  Typed'
<1> USE ConstantTypes
<1>1. /\ pc[t] = "buffer"
      /\ pc' = [pc EXCEPT ![t] = "stopped"] /\ pc \in [Tasks -> Places]
      /\ read_offset' \in {read_offset, Advanced(t)}
      /\ interupts' \subseteq interupts
      /\ UNCHANGED <<run, SHOULD_STOP_MINING, plot, reply, sent, rx_empty_buffers,
                     rx_read_replies, hashVars>>
  BY DEF Stops, Goes, CallersUnchanged, Typed, TypeOK
<1>2. /\ read_offset' \in [Drives \X Plots -> Nat]
      /\ \A x \in Drives \X Plots : read_offset'[x] <= ChunkCount[x]
  BY <1>1, AdvancedOffset DEF Typed, TypeOK
<1>3. pc' \in [Tasks -> Places] /\ pc'[t] = "stopped"
      /\ \A u \in Tasks : u # t => pc'[u] = pc[u]
  BY <1>1 DEF Places
<1>4. TypeOK'
  BY <1>1, <1>2, <1>3 DEF Typed, TypeOK, hashVars
<1>5. QED
  BY <1>1, <1>3, <1>4, OtherOffsets, LetsGo

LEMMA SendTyped ==
  ASSUME Typed, NEW t \in Tasks, Send(t)
  PROVE  Typed'
<1> USE ConstantTypes
<1>1. /\ pc[t] = "send" /\ reply[t] \in ReadReply /\ reply[t].info \in Chunk
      /\ rx_read_replies' = Append(rx_read_replies, reply[t])
      /\ sent' = [sent EXCEPT ![t] = Append(@, reply[t].info)]
      /\ reply' = [reply EXCEPT ![t] = NoReply]
      /\ UNCHANGED <<run, SHOULD_STOP_MINING, read_offset, interupts, rx_empty_buffers,
                     hashVars>>
  BY DEF Send, CallersUnchanged, Typed, TypeOK, ReadReply
<1>2. /\ rx_read_replies' \in Seq(ReadReply)
      /\ sent' \in [Tasks -> Seq(Chunk)]
      /\ reply' \in [Tasks -> ReadReply \cup {NoReply}]
      /\ \A u \in Tasks : u # t => reply'[u] = reply[u]
  BY <1>1 DEF Typed, TypeOK
<1>3. CASE reply[t].info.next_plot
  <2>1. NextPlot(t)
    BY <1>3 DEF Send
  <2>2. TypeOK'
    BY <1>1, <1>2, <2>1, NextPlotMoves DEF Typed, TypeOK, hashVars
  <2>3. QED
    BY <1>1, <1>2, <2>1, <2>2, NextPlotMoves, LetsGo
<1>4. CASE ~reply[t].info.next_plot
  <2>1. pc' = [pc EXCEPT ![t] = "buffer"] /\ UNCHANGED plot /\ pc \in [Tasks -> Places]
    BY <1>4 DEF Send, Goes, Typed, TypeOK
  <2>2. pc' \in [Tasks -> Places] /\ pc'[t] = "buffer"
        /\ \A u \in Tasks : u # t => pc'[u] = pc[u]
    BY <2>1 DEF Places
  <2>3. TypeOK'
    BY <1>1, <1>2, <2>1, <2>2 DEF Typed, TypeOK, hashVars
  <2>4. LockedOnce'
    BY <1>1, <2>1, <2>2 DEF Typed, LockedOnce, Locks, At
  <2>5. WithinPlot'
    BY <1>1, <1>2, <1>4, <2>1, <2>2 DEF Typed, WithinPlot, At
  <2>6. QED
    BY <2>3, <2>4, <2>5 DEF Typed
<1>5. QED
  BY <1>3, <1>4

-----------------------------------------------------------------------------
(* Steps of the worker and the handler.                                     *)

LEMMA WorkerTyped ==
  ASSUME Typed, WorkerStep \/ HandleNonce
  PROVE  Typed'
<1> USE ConstantTypes
<1>0. UNCHANGED <<run, SHOULD_STOP_MINING, interupts, taskVars>>
  BY DEF WorkerStep, HashBegins, HashEnds, ReturnBuffer, HandleNonce, ReadersUnchanged
<1>1. CASE HashBegins
  <2>1. Head(rx_read_replies) \in ReadReply /\ Tail(rx_read_replies) \in Seq(ReadReply)
    BY <1>1 DEF HashBegins, Typed, TypeOK
  <2>2. TypeOK'
    BY <1>0, <1>1, <2>1 DEF HashBegins, Typed, TypeOK, taskVars
  <2>3. QED
    BY <1>0, <2>2, OthersTyped
<1>2. ASSUME NEW r \in hashing, HashEnds(r)
      PROVE  Typed'
  <2>1. r.buffer \in Buffers /\ r.info \in Chunk
    BY DEF Typed, TypeOK, ReadReply
  <2>2. nonce_data' \in Seq(Chunk) /\ Len(nonce_data') <= Cardinality(Buffers)
    <3>1. nonce_data \in Seq(Chunk) /\ Len(nonce_data) \in Nat
          /\ Len(nonce_data) <= Cardinality(Buffers)
      BY DEF Typed, TypeOK
    <3>2. CASE HasNonceData(r.info)
      <4>1. nonce_data' = Append(nonce_data, r.info)
            /\ Len(nonce_data) < Cardinality(Buffers)
        BY <1>2, <3>2 DEF HashEnds
      <4>2. nonce_data' \in Seq(Chunk) /\ Len(nonce_data') = Len(nonce_data) + 1
        BY <2>1, <3>1, <4>1
      <4>3. QED
        BY <3>1, <4>1, <4>2
    <3>3. CASE ~HasNonceData(r.info)
      BY <1>2, <3>1, <3>3 DEF HashEnds
    <3>4. QED
      BY <3>2, <3>3
  <2>3. TypeOK'
    BY <1>0, <1>2, <2>1, <2>2 DEF HashEnds, Typed, TypeOK, taskVars
  <2>4. QED
    BY <1>0, <2>3, OthersTyped
<1>3. ASSUME NEW b \in returning, ReturnBuffer(b)
      PROVE  Typed'
  <2>1. TypeOK'
    BY <1>0, <1>3 DEF ReturnBuffer, Typed, TypeOK, taskVars
  <2>2. QED
    BY <1>0, <2>1, OthersTyped
<1>4. CASE HandleNonce
  <2>1. Head(nonce_data) \in Chunk /\ Tail(nonce_data) \in Seq(Chunk)
        /\ Len(Tail(nonce_data)) <= Cardinality(Buffers)
    BY <1>4 DEF HandleNonce, Typed, TypeOK
  <2>2. TypeOK'
    BY <1>0, <1>4, <2>1 DEF HandleNonce, Typed, TypeOK, taskVars
  <2>3. QED
    BY <1>0, <2>2, OthersTyped
<1>5. QED
  BY <1>1, <1>2, <1>3, <1>4 DEF WorkerStep

LEMMA NextTyped ==
  ASSUME Typed, [Next]_vars
  PROVE  Typed'
<1>1. ASSUME NEW t \in Tasks, ReaderStep(t)
      PROVE  Typed'
  BY <1>1, BeginTyped, LockTyped, SendTyped, ReadTyped, StopsTyped DEF ReaderStep
<1>2. CASE UNCHANGED vars
  <2>1. TypeOK'
    BY <1>2 DEF vars, taskVars, hashVars, Typed, TypeOK
  <2>2. QED
    BY <1>2, <2>1, OthersTyped DEF vars
<1>3. QED
  BY <1>1, <1>2, CallersTyped, WorkerTyped DEF Next

\* The channels, tasks and buffers keep their types and no read goes past the
\* end of a plot, also where tasks of several scans share a plot's offset.
THEOREM Typing == Spec => []TypeOK
<1>1. Init => Typed
  BY InitTyped
<1>2. Typed /\ [Next]_vars => Typed'
  BY NextTyped
<1>3. Typed => TypeOK
  BY DEF Typed
<1>4. QED
  BY <1>1, <1>2, <1>3, PTL DEF Spec

-----------------------------------------------------------------------------
(* Buffers.                                                                 *)

\* No two of the five places share a buffer.
Apart(E, F, Q, H, R) ==
  /\ E \cap F = {} /\ E \cap Q = {} /\ E \cap H = {} /\ E \cap R = {}
  /\ F \cap Q = {} /\ F \cap H = {} /\ F \cap R = {}
  /\ Q \cap H = {} /\ Q \cap R = {} /\ H \cap R = {}

\* No place holds a buffer twice.
Single ==
  /\ \A t, u \in Sending : reply[t].buffer = reply[u].buffer => t = u
  /\ \A i, j \in 1..Len(rx_read_replies) :
       rx_read_replies[i].buffer = rx_read_replies[j].buffer => i = j
  /\ \A r, s \in hashing : r.buffer = s.buffer => r = s

Parted(E, F, Q, H, R) == E \cup F \cup Q \cup H \cup R = Buffers /\ Apart(E, F, Q, H, R)

LEMMA ConservedParts ==
  BuffersConserved <=> Parted(rx_empty_buffers, Filled, Queued, Hashed, returning) /\ Single
<1> DEFINE places == <<rx_empty_buffers, Filled, Queued, Hashed, returning>>
<1>1. (\A i, j \in 1..5 : i # j => places[i] \cap places[j] = {})
        <=> Apart(rx_empty_buffers, Filled, Queued, Hashed, returning)
  <2>1. /\ places[1] = rx_empty_buffers /\ places[2] = Filled /\ places[3] = Queued
        /\ places[4] = Hashed /\ places[5] = returning
    OBVIOUS
  <2> HIDE DEF places
  <2>2. ASSUME \A i, j \in 1..5 : i # j => places[i] \cap places[j] = {}
        PROVE  Apart(rx_empty_buffers, Filled, Queued, Hashed, returning)
    BY <2>1, <2>2 DEF Apart
  <2>3. ASSUME Apart(places[1], places[2], places[3], places[4], places[5]),
               NEW i \in 1..5, NEW j \in 1..5, i # j
        PROVE  places[i] \cap places[j] = {}
    <3>1. /\ i = 1 \/ i = 2 \/ i = 3 \/ i = 4 \/ i = 5
          /\ j = 1 \/ j = 2 \/ j = 3 \/ j = 4 \/ j = 5
      OBVIOUS
    <3>2. QED
      BY <2>3, <3>1 DEF Apart
  <2>4. QED
    BY <2>1, <2>2, <2>3
<1>2. QED
  BY <1>1 DEF BuffersConserved, OneHolder, Parted, Single

\* What a step does to the places: it moves one buffer or none.
LEMMA ReadMoves ==
  ASSUME Typed, NEW t \in Tasks, NEW b \in rx_empty_buffers, Read(t, b)
  PROVE  /\ rx_empty_buffers' = rx_empty_buffers \ {b}
         /\ Filled' = Filled \cup {b}
         /\ UNCHANGED <<rx_read_replies, hashing, returning>>
         /\ Sending' = Sending \cup {t} /\ t \notin Sending
         /\ reply'[t].buffer = b
         /\ \A u \in Sending : reply'[u] = reply[u]
<1>1. /\ pc[t] = "buffer" /\ pc' = [pc EXCEPT ![t] = "send"] /\ pc \in [Tasks -> Places]
      /\ reply \in [Tasks -> ReadReply \cup {NoReply}]
      /\ rx_empty_buffers' = rx_empty_buffers \ {b}
      /\ UNCHANGED <<rx_read_replies, hashing, returning>>
  BY DEF Read, Fills, Goes, hashVars, Typed, TypeOK
<1>2. PICK c : reply' = [reply EXCEPT ![t] = [buffer |-> b, info |-> c]]
  BY DEF Read, Fills
<1>3. Sending' = Sending \cup {t} /\ t \notin Sending
  BY <1>1 DEF Sending
<1>4. reply'[t].buffer = b /\ \A u \in Sending : reply'[u] = reply[u]
  BY <1>1, <1>2, <1>3 DEF Sending
<1>5. Filled' = Filled \cup {b}
  BY <1>3, <1>4 DEF Filled
<1>6. QED
  BY <1>1, <1>3, <1>4, <1>5

LEMMA SendMoves ==
  ASSUME Typed, Single, NEW t \in Tasks, Send(t)
  PROVE  /\ UNCHANGED <<rx_empty_buffers, hashing, returning>>
         /\ Filled' = Filled \ {reply[t].buffer}
         /\ Queued' = Queued \cup {reply[t].buffer}
         /\ reply[t].buffer \in Filled
         /\ Sending' = Sending \ {t} /\ \A u \in Sending' : reply'[u] = reply[u]
         /\ rx_read_replies' = Append(rx_read_replies, reply[t])
<1>1. /\ pc[t] = "send" /\ pc \in [Tasks -> Places]
      /\ reply \in [Tasks -> ReadReply \cup {NoReply}] /\ reply[t] \in ReadReply
      /\ rx_read_replies \in Seq(ReadReply)
      /\ rx_read_replies' = Append(rx_read_replies, reply[t])
      /\ reply' = [reply EXCEPT ![t] = NoReply]
      /\ UNCHANGED <<rx_empty_buffers, hashing, returning>>
  BY DEF Send, hashVars, Typed, TypeOK
<1>2. pc'[t] # "send" /\ \A u \in Tasks : u # t => pc'[u] = pc[u]
  <2>1. CASE reply[t].info.next_plot
    BY <2>1, NextPlotMoves DEF Send
  <2>2. CASE ~reply[t].info.next_plot
    BY <1>1, <2>2 DEF Send, Goes
  <2>3. QED
    BY <2>1, <2>2
<1>3. Sending' = Sending \ {t} /\ t \in Sending
  BY <1>1, <1>2 DEF Sending
<1>4. \A u \in Sending' : reply'[u] = reply[u]
  BY <1>1, <1>3 DEF Sending
<1>5. Filled' = Filled \ {reply[t].buffer} /\ reply[t].buffer \in Filled
  BY <1>3, <1>4 DEF Filled, Single
<1>6. Queued' = Queued \cup {reply[t].buffer}
  <2> DEFINE n == Len(rx_read_replies)
  <2>1. /\ Len(rx_read_replies') = n + 1 /\ n \in Nat
        /\ \A i \in 1..n : rx_read_replies'[i] = rx_read_replies[i]
        /\ rx_read_replies'[n + 1] = reply[t]
    BY <1>1
  <2>2. 1..(n + 1) = (1..n) \cup {n + 1}
    BY <2>1
  <2>3. QED
    BY <2>1, <2>2 DEF Queued
<1>7. QED
  BY <1>1, <1>3, <1>4, <1>5, <1>6

LEMMA HashBeginsMoves ==
  ASSUME Typed, Single, HashBegins
  PROVE  LET r == Head(rx_read_replies)
         IN  /\ UNCHANGED <<rx_empty_buffers, pc, reply, returning>>
             /\ Queued' = Queued \ {r.buffer} /\ r.buffer \in Queued
             /\ Hashed' = Hashed \cup {r.buffer}
             /\ hashing' = hashing \cup {r}
             /\ \A i, j \in 1..Len(rx_read_replies') :
                  rx_read_replies'[i].buffer = rx_read_replies'[j].buffer => i = j
<1> DEFINE n == Len(rx_read_replies)
           r == Head(rx_read_replies)
<1>1. /\ rx_read_replies \in Seq(ReadReply) /\ rx_read_replies # <<>>
      /\ rx_read_replies' = Tail(rx_read_replies)
      /\ hashing' = hashing \cup {r}
      /\ UNCHANGED <<rx_empty_buffers, pc, reply, returning>>
  BY DEF HashBegins, ReadersUnchanged, taskVars, Typed, TypeOK
<1>2. /\ n \in Nat \ {0} /\ Len(rx_read_replies') = n - 1 /\ r = rx_read_replies[1]
      /\ \A i \in 1..(n - 1) : rx_read_replies'[i] = rx_read_replies[i + 1]
  BY <1>1
<1>3. \A i, j \in 1..n : rx_read_replies[i].buffer = rx_read_replies[j].buffer => i = j
  BY DEF Single
<1>4. \A i, j \in 1..(n - 1) :
        rx_read_replies'[i].buffer = rx_read_replies'[j].buffer => i = j
  BY <1>2, <1>3
<1>5. Queued' = Queued \ {r.buffer} /\ r.buffer \in Queued
  <2>1. Queued' = {rx_read_replies[i + 1].buffer : i \in 1..(n - 1)}
    BY <1>2 DEF Queued
  <2>2. Queued = {r.buffer} \cup {rx_read_replies[i + 1].buffer : i \in 1..(n - 1)}
    <3>1. \A i \in 1..n : i = 1 \/ (i - 1 \in 1..(n - 1) /\ i = (i - 1) + 1)
      BY <1>2
    <3>2. \A i \in 1..(n - 1) : i + 1 \in 1..n
      BY <1>2
    <3>3. 1 \in 1..n
      BY <1>2
    <3>4. ASSUME NEW b \in Queued
          PROVE  b \in {r.buffer} \cup {rx_read_replies[i + 1].buffer : i \in 1..(n - 1)}
      <4>1. PICK i \in 1..n : b = rx_read_replies[i].buffer
        BY DEF Queued
      <4>2. CASE i = 1
        BY <1>2, <4>1, <4>2
      <4>3. CASE i - 1 \in 1..(n - 1) /\ i = (i - 1) + 1
        BY <4>1, <4>3
      <4>4. QED
        BY <3>1, <4>2, <4>3
    <3>5. {r.buffer} \cup {rx_read_replies[i + 1].buffer : i \in 1..(n - 1)} \subseteq Queued
      BY <1>2, <3>2, <3>3 DEF Queued
    <3>6. QED
      BY <3>4, <3>5
  <2>3. r.buffer \notin {rx_read_replies[i + 1].buffer : i \in 1..(n - 1)}
    BY <1>2, <1>3
  <2>4. QED
    BY <2>1, <2>2, <2>3
<1>6. Hashed' = Hashed \cup {r.buffer}
  BY <1>1 DEF Hashed
<1>7. QED
  BY <1>1, <1>2, <1>4, <1>5, <1>6

\* Moving a buffer from one place to another keeps the places apart.
LEMMA Moving ==
  ASSUME NEW A, NEW B, NEW C, NEW D, NEW E, NEW b \in A,
         Parted(A, B, C, D, E)
  PROVE  /\ Parted(A \ {b}, B \cup {b}, C, D, E)
         /\ b \notin B /\ b \notin C /\ b \notin D /\ b \notin E
BY DEF Parted, Apart

\* The places may be named in any order.
LEMMA Turning ==
  ASSUME NEW A, NEW B, NEW C, NEW D, NEW E
  PROVE  Parted(A, B, C, D, E) <=> Parted(B, C, D, E, A)
BY DEF Parted, Apart

LEMMA NothingMoves ==
  ASSUME BuffersConserved, Sending' = Sending,
         UNCHANGED <<rx_empty_buffers, reply, rx_read_replies, hashing, returning>>
  PROVE  BuffersConserved'
<1>1. Filled' = Filled /\ Queued' = Queued /\ Hashed' = Hashed
  BY DEF Filled, Queued, Hashed
<1>2. Parted(rx_empty_buffers, Filled, Queued, Hashed, returning)'
  BY <1>1, ConservedParts
<1>3. Single'
  BY ConservedParts DEF Single
<1>4. QED
  BY <1>2, <1>3, ConservedParts, PTL

LEMMA ReaderConserves ==
  ASSUME Typed, BuffersConserved, NEW t \in Tasks, ReaderStep(t)
  PROVE  BuffersConserved'
<1>0. Parted(rx_empty_buffers, Filled, Queued, Hashed, returning) /\ Single
  BY ConservedParts
<1>2. ASSUME NEW b \in rx_empty_buffers, Read(t, b)
      PROVE  BuffersConserved'
  <2>1. /\ rx_empty_buffers' = rx_empty_buffers \ {b}
        /\ Filled' = Filled \cup {b}
        /\ UNCHANGED <<rx_read_replies, hashing, returning>>
        /\ Sending' = Sending \cup {t} /\ t \notin Sending
        /\ reply'[t].buffer = b
        /\ \A u \in Sending : reply'[u] = reply[u]
    BY <1>2, ReadMoves
  <2>2. Queued' = Queued /\ Hashed' = Hashed
    BY <2>1 DEF Queued, Hashed
  <2>3. Parted(rx_empty_buffers, Filled, Queued, Hashed, returning)' /\ b \notin Filled
    BY <1>0, <2>1, <2>2, Moving
  <2>4. \A u \in Sending : reply[u].buffer # b
    BY <2>3 DEF Filled
  <2>5. Single'
    BY <1>0, <2>1, <2>4 DEF Single
  <2>6. QED
    BY <2>3, <2>5, ConservedParts, PTL
<1>3. ASSUME Send(t)
      PROVE  BuffersConserved'
  <2> DEFINE b == reply[t].buffer
             n == Len(rx_read_replies)
  <2>1. /\ UNCHANGED <<rx_empty_buffers, hashing, returning>>
        /\ Filled' = Filled \ {b} /\ Queued' = Queued \cup {b} /\ b \in Filled
        /\ Sending' = Sending \ {t} /\ \A u \in Sending' : reply'[u] = reply[u]
        /\ rx_read_replies' = Append(rx_read_replies, reply[t])
    BY <1>0, <1>3, SendMoves
  <2>2. Hashed' = Hashed /\ returning' = returning
        /\ rx_empty_buffers' = rx_empty_buffers
    BY <2>1 DEF Hashed
  <2>3. Parted(Filled, Queued, Hashed, returning, rx_empty_buffers)
    BY <1>0, Turning
  <2>4. Parted(Filled', Queued', Hashed', returning', rx_empty_buffers') /\ b \notin Queued
    <3>1. b \in Filled
      BY <2>1
    <3> HIDE DEF b
    <3>2. Parted(Filled \ {b}, Queued \cup {b}, Hashed, returning, rx_empty_buffers)
          /\ b \notin Queued
      BY <2>3, <3>1, Moving
    <3>3. QED
      BY <2>1, <2>2, <3>2
  <2>5. Parted(rx_empty_buffers, Filled, Queued, Hashed, returning)'
    BY <2>4, Turning
  <2>6. /\ n \in Nat /\ Len(rx_read_replies') = n + 1
        /\ \A i \in 1..n : rx_read_replies'[i] = rx_read_replies[i]
        /\ rx_read_replies'[n + 1] = reply[t]
    <3>1. rx_read_replies \in Seq(ReadReply) /\ reply[t] \in ReadReply
      BY <1>3 DEF Typed, TypeOK, Send
    <3>2. QED
      BY <2>1, <3>1
  <2>7. \A i \in 1..n : rx_read_replies[i].buffer # b
    BY <2>4 DEF Queued
  <2>8. Single'
    <3>1. \A i, j \in 1..(n + 1) :
            rx_read_replies'[i].buffer = rx_read_replies'[j].buffer => i = j
      <4> SUFFICES ASSUME NEW i \in 1..(n + 1), NEW j \in 1..(n + 1),
                          rx_read_replies'[i].buffer = rx_read_replies'[j].buffer
                   PROVE  i = j
        OBVIOUS
      <4>1. CASE i = n + 1 \/ j = n + 1
        BY <2>6, <2>7, <4>1
      <4>2. CASE i \in 1..n /\ j \in 1..n
        BY <1>0, <2>6, <4>2 DEF Single
      <4>3. QED
        BY <2>6, <4>1, <4>2
    <3>2. QED
      BY <1>0, <2>1, <2>6, <3>1 DEF Single
  <2>9. QED
    BY <2>5, <2>8, ConservedParts, PTL
<1>4. CASE Begin(t) \/ CheckStop(t)
  BY <1>4, NothingMoves DEF Begin, CheckStop, Goes, Sending, Typed, TypeOK, hashVars
<1>5. CASE LockPlot(t)
  <2>1. pc'[t] # "send" /\ pc[t] # "send" /\ \A u \in Tasks : u # t => pc'[u] = pc[u]
    BY <1>5, NextPlotMoves DEF LockPlot, Goes, Typed, TypeOK
  <2>2. Sending' = Sending
    BY <2>1 DEF Sending
  <2>3. QED
    BY <1>5, <2>2, NothingMoves DEF LockPlot, hashVars
<1>6. ASSUME NEW b \in rx_empty_buffers, Stops(t, b)
      PROVE  BuffersConserved'
  BY <1>6, NothingMoves DEF Stops, Goes, Sending, Typed, TypeOK, hashVars
<1>7. QED
  BY <1>2, <1>3, <1>4, <1>5, <1>6 DEF ReaderStep

LEMMA WorkerConserves ==
  ASSUME Typed, BuffersConserved, WorkerStep
  PROVE  BuffersConserved'
<1>0. Parted(rx_empty_buffers, Filled, Queued, Hashed, returning) /\ Single
  BY ConservedParts
<1>1. CASE HashBegins
  <2> DEFINE r == Head(rx_read_replies)
             b == r.buffer
  <2>1. /\ UNCHANGED <<rx_empty_buffers, pc, reply, returning>>
        /\ Queued' = Queued \ {b} /\ b \in Queued
        /\ Hashed' = Hashed \cup {b}
        /\ hashing' = hashing \cup {r}
        /\ \A i, j \in 1..Len(rx_read_replies') :
             rx_read_replies'[i].buffer = rx_read_replies'[j].buffer => i = j
    BY <1>0, <1>1, HashBeginsMoves
  <2>2. Filled' = Filled /\ Sending' = Sending
    BY <2>1 DEF Filled, Sending
  <2>3. Parted(Queued, Hashed, returning, rx_empty_buffers, Filled)
    BY <1>0, Turning
  <2>4. /\ Parted(Queued', Hashed', returning', rx_empty_buffers', Filled')
        /\ b \notin Hashed
    BY <2>1, <2>2, <2>3, Moving
  <2>5. Parted(rx_empty_buffers, Filled, Queued, Hashed, returning)'
    BY <2>4, Turning
  <2>6. \A s \in hashing : s.buffer # b
    BY <2>4 DEF Hashed
  <2>7. Single'
    BY <1>0, <2>1, <2>2, <2>6 DEF Single
  <2>8. QED
    BY <2>5, <2>7, ConservedParts, PTL
<1>2. ASSUME NEW r \in hashing, HashEnds(r)
      PROVE  BuffersConserved'
  <2> DEFINE b == r.buffer
  <2>1. /\ UNCHANGED <<rx_empty_buffers, pc, reply, rx_read_replies>>
        /\ hashing' = hashing \ {r} /\ returning' = returning \cup {b}
    BY <1>2 DEF HashEnds, ReadersUnchanged, taskVars
  <2>2. Filled' = Filled /\ Sending' = Sending /\ Queued' = Queued
    BY <2>1 DEF Filled, Sending, Queued
  <2>3. Hashed' = Hashed \ {b} /\ b \in Hashed
    BY <1>0, <2>1 DEF Hashed, Single
  <2>4. Parted(Hashed, returning, rx_empty_buffers, Filled, Queued)
    BY <1>0, Turning
  <2>5. Parted(Hashed', returning', rx_empty_buffers', Filled', Queued')
    BY <2>1, <2>2, <2>3, <2>4, Moving
  <2>6. Parted(rx_empty_buffers, Filled, Queued, Hashed, returning)'
    BY <2>5, Turning
  <2>7. Single'
    BY <1>0, <2>1, <2>2 DEF Single
  <2>8. QED
    BY <2>6, <2>7, ConservedParts, PTL
<1>3. ASSUME NEW b \in returning, ReturnBuffer(b)
      PROVE  BuffersConserved'
  <2>1. /\ UNCHANGED <<pc, reply, rx_read_replies, hashing>>
        /\ returning' = returning \ {b}
        /\ rx_empty_buffers' = rx_empty_buffers \cup {b}
    BY <1>3 DEF ReturnBuffer, ReadersUnchanged, taskVars
  <2>2. Filled' = Filled /\ Sending' = Sending /\ Queued' = Queued /\ Hashed' = Hashed
    BY <2>1 DEF Filled, Sending, Queued, Hashed
  <2>3. Parted(returning, rx_empty_buffers, Filled, Queued, Hashed)
    BY <1>0, Turning
  <2>4. Parted(returning', rx_empty_buffers', Filled', Queued', Hashed')
    BY <2>1, <2>2, <2>3, Moving
  <2>5. Parted(rx_empty_buffers, Filled, Queued, Hashed, returning)'
    BY <2>4, Turning
  <2>6. Single'
    BY <1>0, <2>1, <2>2 DEF Single
  <2>7. QED
    BY <2>5, <2>6, ConservedParts, PTL
<1>4. QED
  BY <1>1, <1>2, <1>3 DEF WorkerStep

\* Tasks not yet made hold nothing.
NotYet == \A t \in Tasks : t[1] > run => pc[t] = "none"

LEMMA NotYetKept ==
  ASSUME Typed, NotYet, [Next]_vars
  PROVE  NotYet'
<1> USE ConstantTypes
<1>1. ASSUME NEW t \in Tasks, ReaderStep(t)
      PROVE  NotYet'
  <2>1. UNCHANGED run /\ pc[t] # "none"
    BY <1>1 DEF ReaderStep, Begin, CheckStop, LockPlot, Send, Read, Stops, CallersUnchanged
  <2>2. \A u \in Tasks : u # t => pc'[u] = pc[u]
    BY <1>1, NextPlotMoves
    DEF ReaderStep, Begin, CheckStop, LockPlot, Send, Read, Stops, Fills, Goes, Typed, TypeOK
  <2>3. QED
    BY <2>1, <2>2 DEF NotYet
<1>2. CASE start_reading
  BY <1>2 DEF start_reading, NotYet, Typed, TypeOK
<1>3. CASE UNCHANGED <<run, pc>>
  BY <1>3 DEF NotYet
<1>4. QED
  BY <1>1, <1>2, <1>3
  DEF Next, stop_reading, SetStop, WorkerStep, HashBegins, HashEnds, ReturnBuffer,
      HandleNonce, ReadersUnchanged, taskVars, vars

LEMMA OthersConserve ==
  ASSUME Typed, NotYet, BuffersConserved,
         start_reading \/ stop_reading \/ SetStop \/ HandleNonce \/ UNCHANGED vars
  PROVE  BuffersConserved'
<1> USE ConstantTypes
<1>1. UNCHANGED <<rx_empty_buffers, reply, rx_read_replies, hashing, returning>>
  BY DEF start_reading, stop_reading, SetStop, HandleNonce, vars, hashVars, taskVars,
         ReadersUnchanged
<1>2. Sending' = Sending
  <2>1. CASE start_reading
    <3>1. \A t \in Tasks : t[1] = run + 1 => pc[t] = "none" /\ pc'[t] = "spawned"
      BY <2>1 DEF start_reading, NotYet, Typed, TypeOK
    <3>2. \A t \in Tasks : t[1] # run + 1 => pc'[t] = pc[t]
      BY <2>1 DEF start_reading
    <3>3. QED
      BY <3>1, <3>2 DEF Sending
  <2>2. CASE UNCHANGED pc
    BY <2>2 DEF Sending
  <2>3. QED
    BY <2>1, <2>2 DEF stop_reading, SetStop, HandleNonce, vars, taskVars, ReadersUnchanged
<1>3. QED
  BY <1>1, <1>2, NothingMoves

\* Every buffer is in exactly one place at any time, whatever is interrupted,
\* stopped or fails to be read (reader.rs:221-312, cpu_worker.rs:39-101).
THEOREM Conserved == Spec => []BuffersConserved
<1> DEFINE Inv == Typed /\ NotYet /\ BuffersConserved
<1>1. Init => Inv
  <2> SUFFICES ASSUME Init PROVE NotYet /\ BuffersConserved
    BY InitTyped
  <2>1. NotYet
    BY DEF Init, NotYet
  <2>2. Sending = {} /\ hashing = {} /\ Len(rx_read_replies) = 0
    BY DEF Init, Sending
  <2>3. Filled = {} /\ Queued = {} /\ Hashed = {}
    BY <2>2 DEF Filled, Queued, Hashed
  <2>4. Parted(rx_empty_buffers, Filled, Queued, Hashed, returning)
    BY <2>3 DEF Init, Parted, Apart
  <2>5. Single
    BY <2>2 DEF Single
  <2>6. QED
    BY <2>1, <2>4, <2>5, ConservedParts
<1>2. Inv /\ [Next]_vars => Inv'
  <2> SUFFICES ASSUME Inv, [Next]_vars PROVE BuffersConserved'
    BY NextTyped, NotYetKept
  <2>1. QED
    BY ReaderConserves, WorkerConserves, OthersConserve DEF Next
<1>3. QED
  BY <1>1, <1>2, PTL DEF Spec

-----------------------------------------------------------------------------
(* What a task has sent, and how that fits where it is.                     *)

\* What a task is about to send tells of the plot it has locked, and how far
\* that is read.
RepliesFit ==
  \A t \in Tasks : pc[t] = "send" =>
    LET c == reply[t].info
    IN  /\ c.task = t /\ c.plot = plot[t]
        /\ c.finished = (c.next_plot /\ IsLast(t))
        /\ c.read => /\ c.chunk + 1 = read_offset[At(t)]
                     /\ c.next_plot => read_offset[At(t)] = ChunkCount[At(t)]
        /\ ~c.read => c.next_plot /\ At(t) \in ReadFaults

\* t has sent the first n chunks of plot x, in order.
FirstChunks(t, x, n) ==
  /\ {sent[t][i].chunk : i \in Chunks(t, x)} = 0..(n - 1)
  /\ \A i, j \in Chunks(t, x) : i < j => sent[t][i].chunk < sent[t][j].chunk

\* What those n are, from where t is.
Reached(t, x, n) ==
  /\ x > plot[t] => n = 0
  /\ x = plot[t] =>
       /\ pc[t] \in {"none", "spawned", "plot", "lock"} => n = 0
       /\ pc[t] = "buffer" => n = read_offset[At(t)]
       /\ pc[t] = "send" /\ reply[t].info.read => n = reply[t].info.chunk
  /\ x < plot[t] \/ (x = plot[t] /\ pc[t] = "done") =>
       \/ <<t[2], x>> \in PrepareFaults \cup ReadFaults
       \/ n = ChunkCount[<<t[2], x>>]

Progress ==
  \A t \in Tasks, x \in Plots :
    \E n \in 0..ChunkCount[<<t[2], x>>] : FirstChunks(t, x, n) /\ Reached(t, x, n)

\* Only the last thing sent by a task that is done ends its drive; it is sent
\* unless the last plot cannot be prepared.
MarkedAtEnd ==
  \A t \in Tasks :
    /\ pc[t] = "done" => IsLast(t)
    /\ \A i \in 1..Len(sent[t]) :
         /\ sent[t][i].task = t
         /\ sent[t][i].finished => pc[t] = "done" /\ i = Len(sent[t])
    /\ pc[t] = "done" /\ <<t[2], PlotCount>> \notin PrepareFaults =>
         Len(sent[t]) > 0 /\ sent[t][Len(sent[t])].finished

Ordered == RepliesFit /\ Progress /\ MarkedAtEnd

-----------------------------------------------------------------------------
(* What becomes of it.                                                      *)

Pending == {r.info : r \in Range(rx_read_replies) \cup hashing} \cup Range(nonce_data)

\* What is under way or handled was sent, and what was sent and has nonce data
\* is under way or handled.
Traced ==
  /\ \A c \in Pending \cup handled : c \in Range(sent[c.task])
  /\ \A t \in Tasks : \A i \in 1..Len(sent[t]) :
       HasNonceData(sent[t][i]) => sent[t][i] \in Pending \cup handled

\* The hash tasks have a thread each.
HashersEnough ==
  /\ IsFiniteSet(hashing) /\ IsFiniteSet(returning)
  /\ Cardinality(hashing) + Cardinality(returning) <= Hashers

\* No reply of t waits to be hashed.
Through(t) == \A i \in 1..Len(rx_read_replies) : rx_read_replies[i].info.task # t

\* d is a chunk of t that the hash tasks send after the first i in the channel.
SentAfter(d, t, i) ==
  /\ d.task = t /\ d.read
  /\ \/ \E r \in hashing : d = r.info
     \/ \E j \in 1..Len(nonce_data) : i < j /\ d = nonce_data[j]

Behind(t, i) == {d \in Chunk : SentAfter(d, t, i)}

FewBehind(t, i) ==
  /\ Through(t)
  /\ IsFiniteSet(Behind(t, i)) /\ Cardinality(Behind(t, i)) < Hashers

Ends(c, t) == c.finished /\ c.task = t

\* Replies are taken up in order, so that an end marker leaves none of its task
\* behind in the queue, and overtakes only what is being hashed beside it.
MarkerLast(t) ==
  /\ \A i, j \in 1..Len(rx_read_replies) :
       Ends(rx_read_replies[i].info, t) /\ i < j => rx_read_replies[j].info.task # t
  /\ (\E r \in hashing : Ends(r.info, t)) => Through(t)
  /\ \A i \in 1..Len(nonce_data) : Ends(nonce_data[i], t) => FewBehind(t, i)
  /\ (\E c \in handled : Ends(c, t)) => FewBehind(t, 0)

MarkersLast == \A t \in Tasks : MarkerLast(t)

-----------------------------------------------------------------------------
(* What a step of a task leaves of the others, and what it does of its own. *)

LEMMA OthersStay ==
  ASSUME Typed, NEW t \in Tasks, ReaderStep(t), NEW u \in Tasks, u # t
  PROVE  /\ pc'[u] = pc[u] /\ plot'[u] = plot[u] /\ reply'[u] = reply[u]
         /\ sent'[u] = sent[u]
         /\ Locks(u) => read_offset'[At(u)] = read_offset[At(u)]
<1> /\ pc \in [Tasks -> Places] /\ plot \in [Tasks -> Plots]
    /\ reply \in [Tasks -> ReadReply \cup {NoReply}]
    /\ sent \in [Tasks -> Seq(Chunk)] /\ read_offset \in [Drives \X Plots -> Nat]
  BY DEF Typed, TypeOK
<1>1. CASE Begin(t) \/ CheckStop(t)
  BY <1>1 DEF Begin, CheckStop, Goes
<1>2. CASE LockPlot(t)
  <2>1. At(t) \in Drives \X Plots /\ read_offset' = [read_offset EXCEPT ![At(t)] = 0]
    BY <1>2, ConstantTypes DEF LockPlot, At
  <2>2. ASSUME Locks(u) PROVE At(u) # At(t)
    BY <1>2, <2>2 DEF LockPlot, Holds, Locks, At
  <2>3. Locks(u) => read_offset'[At(u)] = read_offset[At(u)]
    BY <2>1, <2>2, ConstantTypes DEF At
  <2>4. pc'[u] = pc[u] /\ plot'[u] = plot[u]
    BY <1>2, NextPlotMoves DEF LockPlot, Goes
  <2>5. QED
    BY <1>2, <2>3, <2>4 DEF LockPlot
<1>3. ASSUME NEW b \in rx_empty_buffers, Read(t, b) \/ Stops(t, b)
      PROVE  /\ pc'[u] = pc[u] /\ plot'[u] = plot[u] /\ reply'[u] = reply[u]
             /\ sent'[u] = sent[u]
             /\ Locks(u) => read_offset'[At(u)] = read_offset[At(u)]
  <2>1. pc[t] = "buffer" /\ read_offset' \in {read_offset, Advanced(t)}
    BY <1>3 DEF Read, Stops
  <2>2. pc'[u] = pc[u] /\ plot'[u] = plot[u] /\ reply'[u] = reply[u] /\ sent'[u] = sent[u]
    BY <1>3 DEF Read, Stops, Fills, Goes
  <2>3. QED
    BY <2>1, <2>2, OtherOffsets
<1>4. CASE Send(t)
  <2>1. reply'[u] = reply[u] /\ sent'[u] = sent[u] /\ UNCHANGED read_offset
    BY <1>4 DEF Send
  <2>2. pc'[u] = pc[u] /\ plot'[u] = plot[u]
    BY <1>4, NextPlotMoves DEF Send, Goes
  <2>3. QED
    BY <2>1, <2>2
<1>5. QED
  BY <1>1, <1>2, <1>3, <1>4 DEF ReaderStep

\* Leaving a plot, t is done with the last one, or about to take up the next.
LEMMA NextPlotGoes ==
  ASSUME Typed, NEW t \in Tasks, NextPlot(t)
  PROVE  \/ IsLast(t) /\ pc'[t] = "done" /\ plot'[t] = plot[t]
         \/ ~IsLast(t) /\ pc'[t] = "plot" /\ plot'[t] = plot[t] + 1
BY DEF NextPlot, Goes, Typed, TypeOK

\* The four ways a task's step goes on, as far as its plot and its reply tell.
Looks(t) ==
  /\ pc[t] \in {"spawned", "plot"} /\ pc'[t] \in {"stopped", "plot", "lock"}
  /\ UNCHANGED read_offset /\ plot'[t] = plot[t] /\ sent'[t] = sent[t]

LocksPlot(t) ==
  /\ pc[t] = "lock" /\ read_offset'[At(t)] = 0 /\ sent'[t] = sent[t]
  /\ \/ pc'[t] = "buffer" /\ plot'[t] = plot[t]
     \/ At(t) \in PrepareFaults /\ NextPlot(t)

Reads(t) ==
  /\ pc[t] = "buffer" /\ plot'[t] = plot[t] /\ sent'[t] = sent[t]
  /\ \/ pc'[t] = "stopped"
     \/ /\ pc'[t] = "send" /\ read_offset'[At(t)] = read_offset[At(t)] + 1
        /\ reply'[t].info = NextChunk(t)
     \/ /\ pc'[t] = "send" /\ At(t) \in ReadFaults
        /\ reply'[t].info = FailedChunk(t)

Sends(t) ==
  /\ pc[t] = "send" /\ reply[t].info \in Chunk
  /\ sent'[t] = Append(sent[t], reply[t].info)
  /\ UNCHANGED read_offset
  /\ \/ reply[t].info.next_plot /\ NextPlot(t)
     \/ ~reply[t].info.next_plot /\ pc'[t] = "buffer" /\ plot'[t] = plot[t]

LEMMA OwnStep ==
  ASSUME Typed, NEW t \in Tasks, ReaderStep(t)
  PROVE  Looks(t) \/ LocksPlot(t) \/ Reads(t) \/ Sends(t)
<1> /\ pc \in [Tasks -> Places] /\ plot \in [Tasks -> Plots]
    /\ reply \in [Tasks -> ReadReply \cup {NoReply}]
    /\ sent \in [Tasks -> Seq(Chunk)] /\ read_offset \in [Drives \X Plots -> Nat]
    /\ At(t) \in Drives \X Plots
  BY ConstantTypes DEF Typed, TypeOK, At
<1>1. CASE Begin(t) \/ CheckStop(t)
  BY <1>1 DEF Begin, CheckStop, Goes, Looks
<1>2. CASE LockPlot(t)
  BY <1>2 DEF LockPlot, Goes, LocksPlot, At
<1>3. ASSUME NEW b \in rx_empty_buffers, Read(t, b)
      PROVE  Reads(t)
  <2>1. pc[t] = "buffer"
    BY <1>3 DEF Read
  <2>2. Advanced(t)[At(t)] = read_offset[At(t)] + 1
    BY <2>1, AdvancedOffset
  <2>3. QED
    BY <1>3, <2>2 DEF Read, Fills, Goes, Reads, At
<1>4. ASSUME NEW b \in rx_empty_buffers, Stops(t, b)
      PROVE  Reads(t)
  BY <1>4 DEF Stops, Goes, Reads
<1>5. CASE Send(t)
  <2>1. reply[t] \in ReadReply
    BY <1>5 DEF Send, Typed, TypeOK
  <2>2. reply[t].info \in Chunk
    BY <2>1 DEF ReadReply
  <2>3. QED
    BY <1>5, <2>2 DEF Send, Goes, Sends
<1>6. QED
  BY <1>1, <1>2, <1>3, <1>4, <1>5 DEF ReaderStep

-----------------------------------------------------------------------------
(* The order of what is sent.                                               *)

LEMMA RepliesFitKept ==
  ASSUME Typed, RepliesFit, NEW t \in Tasks, ReaderStep(t)
  PROVE  RepliesFit'
<1> SUFFICES ASSUME NEW u \in Tasks, pc'[u] = "send"
             PROVE  /\ reply'[u].info.task = u /\ reply'[u].info.plot = plot'[u]
                    /\ reply'[u].info.finished = (reply'[u].info.next_plot /\ IsLast(u)')
                    /\ reply'[u].info.read =>
                         /\ reply'[u].info.chunk + 1 = (read_offset[At(u)])'
                         /\ reply'[u].info.next_plot =>
                              (read_offset[At(u)])' = ChunkCount[At(u)']
                    /\ ~reply'[u].info.read => reply'[u].info.next_plot /\ At(u)' \in ReadFaults
  BY DEF RepliesFit
<1>1. CASE u # t
  <2>1. pc'[u] = pc[u] /\ plot'[u] = plot[u] /\ reply'[u] = reply[u]
        /\ (Locks(u) => read_offset'[At(u)] = read_offset[At(u)])
    BY <1>1, OthersStay
  <2>2. Locks(u) /\ At(u)' = At(u) /\ IsLast(u)' = IsLast(u)
    BY <2>1 DEF Locks, At, IsLast
  <2>3. QED
    BY <2>1, <2>2 DEF RepliesFit
<1>2. CASE u = t
  <2>1. Reads(t) /\ pc'[t] = "send"
    BY <1>2, OwnStep, NextPlotGoes DEF Looks, LocksPlot, Sends
  <2>2. /\ At(t)' = At(t) /\ IsLast(t)' = IsLast(t) /\ plot'[t] = plot[t]
        /\ pc[t] = "buffer" /\ At(t) \in Drives \X Plots
    BY <2>1, ConstantTypes DEF Reads, At, IsLast, Typed, TypeOK
  <2>3. CASE /\ read_offset'[At(t)] = read_offset[At(t)] + 1
             /\ reply'[t].info = NextChunk(t)
    <3> DEFINE i == read_offset[At(t)]
    <3>1. /\ reply'[t].info.task = t /\ reply'[t].info.plot = plot[t]
          /\ reply'[t].info.chunk = i /\ reply'[t].info.read
          /\ reply'[t].info.next_plot = (i + 1 >= ChunkCount[At(t)])
          /\ reply'[t].info.finished = (i + 1 >= ChunkCount[At(t)] /\ IsLast(t))
      BY <2>3 DEF NextChunk, At
    <3>2. i \in Nat /\ ChunkCount[At(t)] \in Nat /\ i < ChunkCount[At(t)]
      BY <2>2, ConstantTypes DEF Typed, TypeOK, WithinPlot
    <3>3. i + 1 >= ChunkCount[At(t)] => i + 1 = ChunkCount[At(t)]
      BY <3>2
    <3>4. QED
      BY <1>2, <2>2, <2>3, <3>1, <3>3
  <2>4. CASE At(t) \in ReadFaults /\ reply'[t].info = FailedChunk(t)
    <3>1. /\ reply'[t].info.task = t /\ reply'[t].info.plot = plot[t]
          /\ reply'[t].info.read = FALSE /\ reply'[t].info.next_plot = TRUE
          /\ reply'[t].info.finished = (TRUE /\ IsLast(t))
      BY <2>4 DEF FailedChunk, IsLast
    <3>2. QED
      BY <1>2, <2>2, <2>4, <3>1
  <2>5. QED
    BY <2>1, <2>3, <2>4 DEF Reads
<1>3. QED
  BY <1>1, <1>2

\* Sending the next chunk of a plot is all that adds to what was sent of it.
LEMMA AppendChunk ==
  ASSUME NEW t \in Tasks, NEW c \in Chunk, sent[t] \in Seq(Chunk),
         sent'[t] = Append(sent[t], c),
         NEW x \in Plots, NEW n \in Nat, FirstChunks(t, x, n)
  PROVE  /\ ~(c.plot = x /\ c.read) => FirstChunks(t, x, n)'
         /\ c.plot = x /\ c.read /\ c.chunk = n => FirstChunks(t, x, n + 1)'
<1> DEFINE m == Len(sent[t])
<1>1. /\ m \in Nat /\ Len(sent'[t]) = m + 1 /\ sent'[t][m + 1] = c
      /\ \A i \in 1..m : sent'[t][i] = sent[t][i]
  OBVIOUS
<1>2. 1..(m + 1) = (1..m) \cup {m + 1} /\ m + 1 \notin 1..m
  BY <1>1
<1>3. Chunks(t, x) \subseteq 1..m
  BY DEF Chunks
<1>4. Chunks(t, x)' = IF c.plot = x /\ c.read THEN Chunks(t, x) \cup {m + 1} ELSE Chunks(t, x)
  BY <1>1, <1>2 DEF Chunks
<1>5. \A i \in Chunks(t, x) : sent'[t][i] = sent[t][i]
  BY <1>1, <1>3
<1> HIDE DEF m
<1>6. CASE ~(c.plot = x /\ c.read)
  <2>1. Chunks(t, x)' = Chunks(t, x)
    BY <1>4, <1>6
  <2>2. {sent'[t][i].chunk : i \in Chunks(t, x)'} = {sent[t][i].chunk : i \in Chunks(t, x)}
    BY <1>5, <2>1
  <2>3. QED
    BY <1>5, <1>6, <2>1, <2>2 DEF FirstChunks
<1>7. ASSUME c.plot = x, c.read, c.chunk = n
      PROVE  FirstChunks(t, x, n + 1)'
  <2>1. Chunks(t, x)' = Chunks(t, x) \cup {m + 1}
    BY <1>4, <1>7
  <2>2. {sent'[t][i].chunk : i \in Chunks(t, x)'}
          = {sent[t][i].chunk : i \in Chunks(t, x)} \cup {n}
    <3>1. sent'[t][m + 1].chunk = n
      BY <1>1, <1>7
    <3>2. {sent'[t][i].chunk : i \in Chunks(t, x)'}
            = {sent'[t][i].chunk : i \in Chunks(t, x)} \cup {sent'[t][m + 1].chunk}
      BY <2>1
    <3>3. {sent'[t][i].chunk : i \in Chunks(t, x)} = {sent[t][i].chunk : i \in Chunks(t, x)}
      BY <1>5
    <3>4. QED
      BY <3>1, <3>2, <3>3
  <2>3. {sent'[t][i].chunk : i \in Chunks(t, x)'} = 0..((n + 1) - 1)
    <3>1. 0..((n + 1) - 1) = 0..(n - 1) \cup {n}
      OBVIOUS
    <3>2. QED
      BY <2>2, <3>1 DEF FirstChunks
  <2>4. \A i \in Chunks(t, x) : sent[t][i].chunk \in 0..(n - 1)
    BY DEF FirstChunks
  <2>5. ASSUME NEW i \in Chunks(t, x)', NEW j \in Chunks(t, x)', i < j
        PROVE  sent'[t][i].chunk < sent'[t][j].chunk
    <3>1. i \in Chunks(t, x)
      BY <1>1, <1>3, <2>1, <2>5
    <3>2. CASE j \in Chunks(t, x)
      BY <1>5, <2>5, <3>1, <3>2 DEF FirstChunks
    <3>3. CASE j = m + 1
      <4> DEFINE a == sent'[t][i].chunk
                 b == sent'[t][j].chunk
      <4>1. a \in 0..(n - 1) /\ b = n
        BY <1>1, <1>5, <1>7, <2>4, <3>1, <3>3
      <4> HIDE DEF a, b
      <4>2. a < b
        BY <4>1
      <4>3. QED
        BY <4>2 DEF a, b
    <3>4. QED
      BY <2>1, <3>2, <3>3
  <2>6. QED
    BY <2>3, <2>5 DEF FirstChunks
<1>8. QED
  BY <1>6, <1>7

LEMMA SameChunks ==
  ASSUME NEW t \in Tasks, sent'[t] = sent[t], NEW x \in Plots, NEW n \in Nat,
         FirstChunks(t, x, n)
  PROVE  FirstChunks(t, x, n)'
BY DEF FirstChunks, Chunks

\* t's own step takes it on with the chunks it has sent.
LEMMA ProgressOwn ==
  ASSUME Typed, RepliesFit, MarkedAtEnd, NEW t \in Tasks, ReaderStep(t),
         NEW x \in Plots, NEW n \in 0..ChunkCount[<<t[2], x>>],
         FirstChunks(t, x, n), Reached(t, x, n)
  PROVE  \E k \in 0..ChunkCount[<<t[2], x>>] : (FirstChunks(t, x, k) /\ Reached(t, x, k))'
<1>1. /\ plot[t] \in Nat /\ x \in Nat /\ n \in Nat
      /\ ChunkCount[<<t[2], x>>] \in Nat /\ PlotCount \in Nat /\ x <= PlotCount
  BY ConstantTypes DEF Typed, TypeOK, Plots
<1>2. sent[t] \in Seq(Chunk)
  BY DEF Typed, TypeOK
<1>3. CASE Looks(t)
  <2>1. Reached(t, x, n)'
    BY <1>1, <1>3 DEF Looks, Reached
  <2>2. QED
    BY <1>1, <1>3, <2>1, SameChunks DEF Looks
<1>4. CASE LocksPlot(t)
  <2>1. FirstChunks(t, x, n)'
    BY <1>1, <1>4, SameChunks DEF LocksPlot
  <2>2. CASE pc'[t] = "buffer" /\ plot'[t] = plot[t]
    <3>1. Reached(t, x, n)'
      BY <1>1, <1>4, <2>2 DEF LocksPlot, Reached, At
    <3>2. QED
      BY <2>1, <3>1
  <2>3. CASE At(t) \in PrepareFaults /\ NextPlot(t)
    <3>1. Reached(t, x, n)'
      BY <1>1, <1>4, <2>3, NextPlotGoes DEF LocksPlot, Reached, At, IsLast
    <3>2. QED
      BY <2>1, <3>1
  <2>4. QED
    BY <1>4, <2>2, <2>3 DEF LocksPlot
<1>5. CASE Reads(t)
  <2>1. FirstChunks(t, x, n)'
    BY <1>1, <1>5, SameChunks DEF Reads
  <2>2. ASSUME pc'[t] = "send", reply'[t].info.read, x = plot[t]
        PROVE  n = reply'[t].info.chunk
    <3>1. reply'[t].info = NextChunk(t)
      BY <1>5, <2>2 DEF Reads, FailedChunk
    <3>2. n = read_offset[At(t)]
      BY <1>5, <2>2 DEF Reads, Reached
    <3>3. QED
      BY <3>1, <3>2 DEF NextChunk, At
  <2>3. Reached(t, x, n)'
    BY <1>1, <1>5, <2>2 DEF Reads, Reached
  <2>4. QED
    BY <2>1, <2>3
<1>6. CASE Sends(t)
  <2> DEFINE c == reply[t].info
  <2>1. /\ pc[t] = "send" /\ c \in Chunk /\ sent'[t] = Append(sent[t], c)
        /\ UNCHANGED read_offset /\ c.plot = plot[t]
        /\ c.read => /\ c.chunk + 1 = read_offset[At(t)]
                     /\ c.next_plot => read_offset[At(t)] = ChunkCount[At(t)]
        /\ ~c.read => c.next_plot /\ At(t) \in ReadFaults
        /\ c.next_plot \in BOOLEAN /\ c.read \in BOOLEAN
        /\ c.chunk \in Nat
    BY <1>6 DEF Sends, RepliesFit, Chunk
  <2>2. /\ c.next_plot => /\ NextPlot(t)
                          /\ \/ IsLast(t) /\ pc'[t] = "done" /\ plot'[t] = plot[t]
                             \/ ~IsLast(t) /\ pc'[t] = "plot" /\ plot'[t] = plot[t] + 1
        /\ ~c.next_plot => pc'[t] = "buffer" /\ plot'[t] = plot[t]
    BY <1>6, NextPlotGoes DEF Sends
  <2>3. CASE x = plot[t] /\ c.read
    <3>1. n = c.chunk
      BY <2>1, <2>3 DEF Reached
    <3>2. <<t[2], x>> = At(t) /\ n + 1 = read_offset[At(t)]
          /\ read_offset[At(t)] <= ChunkCount[At(t)]
      BY <2>1, <2>3, <3>1, ConstantTypes DEF At, Typed, TypeOK
    <3>3. n + 1 \in 0..ChunkCount[<<t[2], x>>]
      BY <1>1, <3>2
    <3>4. FirstChunks(t, x, n + 1)'
      BY <1>1, <1>2, <2>1, <2>3, <3>1, AppendChunk
    <3>5. CASE c.next_plot
      <4>1. n + 1 = ChunkCount[<<t[2], x>>]
        BY <2>1, <2>3, <3>2, <3>5
      <4>2. Reached(t, x, n + 1)'
        BY <1>1, <2>2, <2>3, <3>5, <4>1 DEF Reached
      <4>3. QED
        BY <3>3, <3>4, <4>2
    <3>6. CASE ~c.next_plot
      <4>1. At(t)' = At(t)
        BY <2>2, <3>6 DEF At
      <4>2. Reached(t, x, n + 1)'
        BY <1>1, <2>1, <2>2, <2>3, <3>2, <3>6, <4>1 DEF Reached
      <4>3. QED
        BY <3>3, <3>4, <4>2
    <3>7. QED
      BY <3>5, <3>6
  <2>4. CASE ~(x = plot[t] /\ c.read)
    <3>1. FirstChunks(t, x, n)'
      BY <1>1, <1>2, <2>1, <2>4, AppendChunk
    <3>2. x = plot[t] => c.next_plot /\ <<t[2], x>> \in ReadFaults
      BY <2>1, <2>4 DEF At
    <3> HIDE DEF c
    <3>3. Reached(t, x, n)'
      <4>1. CASE c.next_plot
        BY <1>1, <2>1, <2>2, <3>2, <4>1 DEF Reached
      <4>2. CASE ~c.next_plot
        BY <1>1, <2>1, <2>2, <3>2, <4>2 DEF Reached
      <4>3. QED
        BY <4>1, <4>2
    <3>4. QED
      BY <3>1, <3>3
  <2>5. QED
    BY <2>3, <2>4
<1>7. QED
  BY <1>3, <1>4, <1>5, <1>6, OwnStep

LEMMA ProgressKept ==
  ASSUME Typed, RepliesFit, MarkedAtEnd, Progress, NEW t \in Tasks, ReaderStep(t)
  PROVE  Progress'
<1> SUFFICES ASSUME NEW u \in Tasks, NEW x \in Plots
             PROVE  \E k \in 0..ChunkCount[<<u[2], x>>] :
                      (FirstChunks(u, x, k) /\ Reached(u, x, k))'
  BY DEF Progress
<1>1. PICK n \in 0..ChunkCount[<<u[2], x>>] : FirstChunks(u, x, n) /\ Reached(u, x, n)
  BY DEF Progress
<1>2. CASE u = t
  BY <1>1, <1>2, ProgressOwn
<1>3. CASE u # t
  <2>1. /\ pc'[u] = pc[u] /\ plot'[u] = plot[u] /\ reply'[u] = reply[u]
        /\ sent'[u] = sent[u]
        /\ Locks(u) => read_offset'[At(u)] = read_offset[At(u)]
    BY <1>3, OthersStay
  <2>2. n \in Nat
    BY ConstantTypes
  <2>3. FirstChunks(u, x, n)'
    BY <1>1, <2>1, <2>2, SameChunks
  <2>4. Reached(u, x, n)'
    BY <1>1, <2>1 DEF Reached, Locks, At
  <2>5. QED
    BY <2>3, <2>4
<1>4. QED
  BY <1>2, <1>3

LEMMA MarkedAtEndKept ==
  ASSUME Typed, RepliesFit, MarkedAtEnd, NEW t \in Tasks, ReaderStep(t)
  PROVE  MarkedAtEnd'
<1> DEFINE Own(u) ==
      /\ pc[u] = "done" => IsLast(u)
      /\ \A i \in 1..Len(sent[u]) :
           /\ sent[u][i].task = u
           /\ sent[u][i].finished => pc[u] = "done" /\ i = Len(sent[u])
      /\ pc[u] = "done" /\ <<u[2], PlotCount>> \notin PrepareFaults =>
           Len(sent[u]) > 0 /\ sent[u][Len(sent[u])].finished
<1> SUFFICES ASSUME NEW u \in Tasks PROVE Own(u)'
  BY DEF MarkedAtEnd
<1>1. Own(u)
  BY DEF MarkedAtEnd
<1>2. CASE u # t
  <2>1. pc'[u] = pc[u] /\ plot'[u] = plot[u] /\ sent'[u] = sent[u]
    BY <1>2, OthersStay
  <2>2. QED
    BY <1>1, <2>1 DEF IsLast
<1>3. CASE u = t /\ ~Sends(t)
  <2>1. /\ sent'[t] = sent[t] /\ pc[t] # "done"
        /\ pc'[t] = "done" => IsLast(t)' /\ At(t) \in PrepareFaults /\ IsLast(t)
    BY <1>3, OwnStep, NextPlotGoes DEF Looks, LocksPlot, Reads, IsLast
  <2>2. pc'[t] = "done" => <<t[2], PlotCount>> \in PrepareFaults
    BY <2>1 DEF At, IsLast
  <2>3. \A i \in 1..Len(sent[t]) : sent[t][i].task = t /\ ~sent[t][i].finished
    BY <1>1, <1>3, <2>1
  <2>4. QED
    BY <1>3, <2>1, <2>2, <2>3
<1>4. CASE u = t /\ Sends(t)
  <2> DEFINE c == reply[t].info
             m == Len(sent[t])
  <2>1. /\ pc[t] = "send" /\ c \in Chunk /\ c.task = t
        /\ c.finished = (c.next_plot /\ IsLast(t))
        /\ sent'[t] = Append(sent[t], c) /\ sent[t] \in Seq(Chunk)
    BY <1>4 DEF Sends, RepliesFit, Typed, TypeOK
  <2>2. /\ m \in Nat /\ Len(sent'[t]) = m + 1 /\ sent'[t][m + 1] = c
        /\ \A i \in 1..m : sent'[t][i] = sent[t][i]
    BY <2>1
  <2>3. \A i \in 1..m : sent[t][i].task = t /\ ~sent[t][i].finished
    BY <1>1, <1>4, <2>1
  <2>4. c.next_plot /\ IsLast(t) <=> pc'[t] = "done"
    BY <1>4, NextPlotGoes DEF Sends
  <2>5. pc'[t] = "done" => IsLast(t)'
    BY <1>4, NextPlotGoes DEF Sends, IsLast
  <2> HIDE DEF c, m
  <2>6. \A i \in 1..(m + 1) : i \in 1..m \/ i = m + 1
    BY <2>2
  <2>7. \A i \in 1..(m + 1) :
          /\ sent'[t][i].task = t
          /\ sent'[t][i].finished => pc'[t] = "done" /\ i = m + 1
    BY <2>1, <2>2, <2>3, <2>4, <2>6
  <2>8. pc'[t] = "done" => m + 1 > 0 /\ sent'[t][m + 1].finished
    <3>1. m + 1 > 0
      BY <2>2
    <3>2. pc'[t] = "done" => c.finished
      BY <2>1, <2>4
    <3>3. sent'[t][m + 1] = c
      BY <2>2
    <3>4. QED
      BY <3>1, <3>2, <3>3
  <2>9. QED
    BY <1>4, <2>2, <2>5, <2>7, <2>8
<1>5. QED
  BY <1>2, <1>3, <1>4

\* A new scan's tasks start with nothing sent; nothing else touches the tasks.
LEMMA OthersOrdered ==
  ASSUME Typed, NotYet, Ordered,
         start_reading \/ UNCHANGED taskVars
  PROVE  Ordered'
<1>1. UNCHANGED <<plot, reply, read_offset, sent>>
  BY DEF start_reading, taskVars
<1>2. \A t \in Tasks : pc'[t] = pc[t] \/ (pc[t] = "none" /\ pc'[t] = "spawned")
  BY ConstantTypes DEF start_reading, taskVars, NotYet, Typed, TypeOK
<1>3. RepliesFit'
  BY <1>1, <1>2 DEF Ordered, RepliesFit, IsLast, At
<1>4. MarkedAtEnd'
  BY <1>1, <1>2 DEF Ordered, MarkedAtEnd, IsLast
<1>5. Progress'
  <2> SUFFICES ASSUME NEW t \in Tasks, NEW x \in Plots
               PROVE  \E n \in 0..ChunkCount[<<t[2], x>>] :
                        (FirstChunks(t, x, n) /\ Reached(t, x, n))'
    BY DEF Progress
  <2>1. PICK n \in 0..ChunkCount[<<t[2], x>>] : FirstChunks(t, x, n) /\ Reached(t, x, n)
    BY DEF Ordered, Progress
  <2>2. FirstChunks(t, x, n)'
    BY <1>1, <2>1 DEF FirstChunks, Chunks
  <2>3. Reached(t, x, n)'
    BY <1>1, <1>2, <2>1 DEF Reached, At
  <2>4. QED
    BY <2>2, <2>3
<1>6. QED
  BY <1>3, <1>4, <1>5 DEF Ordered

LEMMA NextOrdered ==
  ASSUME Typed, NotYet, Ordered, [Next]_vars
  PROVE  Ordered'
<1>1. ASSUME NEW t \in Tasks, ReaderStep(t)
      PROVE  Ordered'
  BY <1>1, RepliesFitKept, ProgressKept, MarkedAtEndKept DEF Ordered
<1>2. QED
  BY <1>1, OthersOrdered
  DEF Next, stop_reading, SetStop, WorkerStep, HashBegins, HashEnds, ReturnBuffer,
      HandleNonce, ReadersUnchanged, vars

LEMMA InitOrdered ==
  ASSUME Init
  PROVE  Ordered
<1>1. \A t \in Tasks : pc[t] = "none" /\ plot[t] = 1 /\ sent[t] = <<>>
  BY DEF Init
<1>2. RepliesFit /\ MarkedAtEnd
  BY <1>1 DEF RepliesFit, MarkedAtEnd
<1>3. ASSUME NEW t \in Tasks, NEW x \in Plots
      PROVE  FirstChunks(t, x, 0) /\ Reached(t, x, 0)
  <2>1. Chunks(t, x) = {}
    BY <1>1 DEF Chunks
  <2>2. FirstChunks(t, x, 0)
    BY <2>1 DEF FirstChunks
  <2>3. x \in Nat /\ x >= 1
    BY ConstantTypes DEF Plots
  <2>4. QED
    BY <1>1, <2>2, <2>3 DEF Reached
<1>4. ASSUME NEW t \in Tasks, NEW x \in Plots
      PROVE  0 \in 0..ChunkCount[<<t[2], x>>]
  <2>1. <<t[2], x>> \in Drives \X Plots
    BY ConstantTypes
  <2>2. ChunkCount[<<t[2], x>>] \in Nat
    BY <2>1, ConstantTypes
  <2>3. QED
    BY <2>2
<1>5. Progress
  <2> SUFFICES ASSUME NEW t \in Tasks, NEW x \in Plots
               PROVE  \E n \in 0..ChunkCount[<<t[2], x>>] :
                        FirstChunks(t, x, n) /\ Reached(t, x, n)
    BY DEF Progress
  <2>1. FirstChunks(t, x, 0) /\ Reached(t, x, 0)
    BY <1>3
  <2>2. QED
    BY <1>4, <2>1
<1>6. QED
  BY <1>2, <1>5 DEF Ordered

LEMMA OrderedAlways == Spec => [](Typed /\ NotYet /\ Ordered)
<1>1. Init => Typed /\ NotYet /\ Ordered
  BY InitTyped, InitOrdered DEF Init, NotYet
<1>2. (Typed /\ NotYet /\ Ordered) /\ [Next]_vars => (Typed /\ NotYet /\ Ordered)'
  BY NextTyped, NotYetKept, NextOrdered
<1>3. QED
  BY <1>1, <1>2, PTL DEF Spec

\* As many chunks as numbers below n.
LEMMA CountChunks ==
  ASSUME Typed, NEW t \in Tasks, NEW x \in Plots, NEW n \in Nat, FirstChunks(t, x, n)
  PROVE  Cardinality(Chunks(t, x)) = n
<1> DEFINE f == [i \in Chunks(t, x) |-> sent[t][i].chunk]
<1>1. sent[t] \in Seq(Chunk) /\ Chunks(t, x) \subseteq 1..Len(sent[t])
  BY DEF Typed, TypeOK, Chunks
<1>2. Len(sent[t]) \in Nat /\ Chunks(t, x) \subseteq Nat
  BY <1>1
<1>3. IsFiniteSet(Chunks(t, x))
  <2>1. IsFiniteSet(1..Len(sent[t]))
    BY <1>2, FS_Interval
  <2>2. QED
    BY <1>1, <2>1, FS_Subset
<1>4. \A i, j \in Chunks(t, x) : i # j => sent[t][i].chunk # sent[t][j].chunk
  <2> SUFFICES ASSUME NEW i \in Chunks(t, x), NEW j \in Chunks(t, x), i # j
               PROVE  sent[t][i].chunk # sent[t][j].chunk
    OBVIOUS
  <2>1. sent[t][i].chunk \in 0..(n - 1) /\ sent[t][j].chunk \in 0..(n - 1)
    BY DEF FirstChunks
  <2>2. i < j \/ j < i
    BY <1>2
  <2>3. QED
    BY <2>1, <2>2 DEF FirstChunks
<1>5. f \in Bijection(Chunks(t, x), 0..(n - 1))
  <2>1. f \in [Chunks(t, x) -> 0..(n - 1)]
    BY DEF FirstChunks
  <2>2. \A k \in 0..(n - 1) : \E i \in Chunks(t, x) : f[i] = k
    BY DEF FirstChunks
  <2>3. \A i, j \in Chunks(t, x) : f[i] = f[j] => i = j
    BY <1>4
  <2> HIDE DEF f
  <2>4. QED
    BY <2>1, <2>2, <2>3, Fun_IsBij
<1>6. Cardinality(Chunks(t, x)) = Cardinality(0..(n - 1))
  BY <1>3, <1>5, FS_Bijection DEF ExistsBijection
<1>7. Cardinality(0..(n - 1)) = n
  BY FS_Interval
<1>8. QED
  BY <1>6, <1>7

\* Whatever scans share a plot's offset, each task sends the chunks of a plot in
\* order, and all of them if it gets to its end (reader.rs:210-260).
THEOREM ReadOrdered == Spec => []ReadsInOrder
<1>1. ASSUME Typed, Ordered PROVE ReadsInOrder
  <2> SUFFICES ASSUME NEW t \in Tasks, NEW x \in Plots
               PROVE  /\ {sent[t][i].chunk : i \in Chunks(t, x)} = 0..(Cardinality(Chunks(t, x)) - 1)
                      /\ \A i, j \in Chunks(t, x) : i < j => sent[t][i].chunk < sent[t][j].chunk
                      /\ pc[t] = "done" /\ <<t[2], x>> \notin PrepareFaults \cup ReadFaults
                           => Cardinality(Chunks(t, x)) = ChunkCount[<<t[2], x>>]
    BY DEF ReadsInOrder
  <2>1. PICK n \in 0..ChunkCount[<<t[2], x>>] : FirstChunks(t, x, n) /\ Reached(t, x, n)
    BY <1>1 DEF Ordered, Progress
  <2>2. Cardinality(Chunks(t, x)) = n
    BY <1>1, <2>1, CountChunks, ConstantTypes
  <2>3. pc[t] = "done" => x < plot[t] \/ x = plot[t]
    <3>1. pc[t] = "done" => plot[t] = PlotCount
      BY <1>1 DEF Ordered, MarkedAtEnd, IsLast
    <3>2. QED
      BY <3>1, ConstantTypes DEF Plots
  <2>4. QED
    BY <2>1, <2>2, <2>3 DEF FirstChunks, Reached
<1>2. Typed /\ NotYet /\ Ordered => ReadsInOrder
  BY <1>1
<1>3. QED
  BY <1>2, OrderedAlways, PTL

-----------------------------------------------------------------------------
(* The way of what was sent.                                                *)

LEMMA RangeOfAppend ==
  ASSUME NEW S, NEW s \in Seq(S), NEW e \in S
  PROVE  Range(Append(s, e)) = Range(s) \cup {e}
<1>1. /\ Len(s) \in Nat /\ DOMAIN s = 1..Len(s)
      /\ DOMAIN Append(s, e) = 1..(Len(s) + 1)
      /\ Append(s, e)[Len(s) + 1] = e
      /\ \A i \in 1..Len(s) : Append(s, e)[i] = s[i]
  OBVIOUS
<1>2. 1..(Len(s) + 1) = (1..Len(s)) \cup {Len(s) + 1}
  BY <1>1
<1>3. QED
  BY <1>1, <1>2 DEF Range

LEMMA RangeOfTail ==
  ASSUME NEW S, NEW s \in Seq(S), s # <<>>
  PROVE  Range(s) = {Head(s)} \cup Range(Tail(s))
<1>1. /\ Len(s) \in Nat /\ Len(s) > 0 /\ DOMAIN s = 1..Len(s) /\ Head(s) = s[1]
      /\ DOMAIN Tail(s) = 1..(Len(s) - 1)
      /\ \A i \in 1..(Len(s) - 1) : Tail(s)[i] = s[i + 1]
  OBVIOUS
<1>2. \A i \in 1..Len(s) : i = 1 \/ (i - 1 \in 1..(Len(s) - 1) /\ i = (i - 1) + 1)
  BY <1>1
<1>3. ASSUME NEW e \in Range(s) PROVE e \in {Head(s)} \cup Range(Tail(s))
  <2>1. PICK i \in 1..Len(s) : e = s[i]
    BY <1>1 DEF Range
  <2>2. CASE i = 1
    BY <1>1, <2>1, <2>2
  <2>3. CASE i - 1 \in 1..(Len(s) - 1) /\ i = (i - 1) + 1
    <3>1. Tail(s)[i - 1] = e
      BY <1>1, <2>1, <2>3
    <3>2. QED
      BY <1>1, <2>3, <3>1 DEF Range
  <2>4. QED
    BY <1>2, <2>2, <2>3
<1>4. ASSUME NEW e \in Range(Tail(s)) PROVE e \in Range(s)
  <2>1. PICK i \in 1..(Len(s) - 1) : e = Tail(s)[i]
    BY <1>1 DEF Range
  <2>2. e = s[i + 1] /\ i + 1 \in 1..Len(s)
    BY <1>1, <2>1
  <2>3. QED
    BY <1>1, <2>2 DEF Range
<1>5. Head(s) \in Range(s)
  BY <1>1 DEF Range
<1>6. QED
  BY <1>3, <1>4, <1>5

LEMMA PendingTypes ==
  ASSUME Typed
  PROVE  Pending \subseteq Chunk /\ handled \subseteq Chunk
<1>1. /\ rx_read_replies \in Seq(ReadReply) /\ nonce_data \in Seq(Chunk)
      /\ hashing \subseteq ReadReply /\ handled \subseteq Chunk
  BY DEF Typed, TypeOK
<1>2. Range(rx_read_replies) \subseteq ReadReply /\ Range(nonce_data) \subseteq Chunk
  BY <1>1 DEF Range
<1>3. \A r \in ReadReply : r.info \in Chunk
  BY DEF ReadReply
<1>4. QED
  BY <1>1, <1>2, <1>3 DEF Pending

\* A reply that is sent is pending.
LEMMA SendFlows ==
  ASSUME Typed, NEW t \in Tasks, Send(t)
  PROVE  Pending' = Pending \cup {reply[t].info} /\ handled' = handled
<1>1. /\ rx_read_replies \in Seq(ReadReply) /\ reply[t] \in ReadReply
      /\ rx_read_replies' = Append(rx_read_replies, reply[t])
      /\ UNCHANGED <<hashing, nonce_data, handled>>
  BY DEF Send, hashVars, Typed, TypeOK
<1>2. Range(rx_read_replies') = Range(rx_read_replies) \cup {reply[t]}
  BY <1>1, RangeOfAppend
<1>3. QED
  BY <1>1, <1>2 DEF Pending

\* No step of the worker or the handler loses what has nonce data.
LEMMA OthersFlow ==
  ASSUME Typed, WorkerStep \/ HandleNonce
  PROVE  /\ Pending' \cup handled' \subseteq Pending \cup handled
         /\ \A c \in Pending \cup handled : HasNonceData(c) => c \in Pending' \cup handled'
<1>1. CASE HashBegins
  <2>1. /\ rx_read_replies \in Seq(ReadReply) /\ rx_read_replies # <<>>
        /\ rx_read_replies' = Tail(rx_read_replies)
        /\ hashing' = hashing \cup {Head(rx_read_replies)}
        /\ UNCHANGED <<nonce_data, handled>>
    BY <1>1 DEF HashBegins, Typed, TypeOK
  <2>2. Range(rx_read_replies) = {Head(rx_read_replies)} \cup Range(rx_read_replies')
    BY <2>1, RangeOfTail
  <2>3. Range(rx_read_replies') \cup hashing' = Range(rx_read_replies) \cup hashing
    BY <2>1, <2>2
  <2>4. QED
    BY <2>1, <2>3 DEF Pending
<1>2. ASSUME NEW r \in hashing, HashEnds(r)
      PROVE  /\ Pending' \cup handled' \subseteq Pending \cup handled
             /\ \A c \in Pending \cup handled : HasNonceData(c) => c \in Pending' \cup handled'
  <2>1. /\ nonce_data \in Seq(Chunk) /\ r.info \in Chunk
        /\ hashing' = hashing \ {r} /\ UNCHANGED <<rx_read_replies, handled>>
    BY <1>2 DEF HashEnds, Typed, TypeOK, ReadReply
  <2>2. CASE HasNonceData(r.info)
    <3>1. nonce_data' = Append(nonce_data, r.info)
      BY <1>2, <2>2 DEF HashEnds
    <3>2. Range(nonce_data') = Range(nonce_data) \cup {r.info}
      BY <2>1, <3>1, RangeOfAppend
    <3>3. QED
      BY <2>1, <3>2 DEF Pending
  <2>3. CASE ~HasNonceData(r.info)
    <3>1. nonce_data' = nonce_data
      BY <1>2, <2>3 DEF HashEnds
    <3>2. \A c \in Pending : c \in Pending' \/ c = r.info
      BY <2>1, <3>1 DEF Pending
    <3>3. Pending' \subseteq Pending
      BY <2>1, <3>1 DEF Pending
    <3>4. QED
      BY <2>1, <2>3, <3>2, <3>3
  <2>4. QED
    BY <2>2, <2>3
<1>3. ASSUME NEW b \in returning, ReturnBuffer(b)
      PROVE  Pending' = Pending /\ handled' = handled
  BY <1>3 DEF ReturnBuffer, Pending
<1>4. CASE HandleNonce
  <2>1. /\ nonce_data \in Seq(Chunk) /\ nonce_data # <<>>
        /\ nonce_data' = Tail(nonce_data) /\ handled' = handled \cup {Head(nonce_data)}
        /\ UNCHANGED <<rx_read_replies, hashing>>
    BY <1>4 DEF HandleNonce, Typed, TypeOK
  <2>2. Range(nonce_data) = {Head(nonce_data)} \cup Range(nonce_data')
    BY <2>1, RangeOfTail
  <2>3. QED
    BY <2>1, <2>2 DEF Pending
<1>5. QED
  BY <1>1, <1>2, <1>3, <1>4 DEF WorkerStep

LEMMA SendTraced ==
  ASSUME Typed, RepliesFit, Traced, NEW t \in Tasks, Send(t)
  PROVE  Traced'
<1> DEFINE c == reply[t].info
           m == Len(sent[t])
<1>1. /\ c \in Chunk /\ c.task = t /\ sent \in [Tasks -> Seq(Chunk)]
      /\ sent' = [sent EXCEPT ![t] = Append(@, c)]
  BY DEF Send, RepliesFit, Typed, TypeOK, ReadReply
<1>2. Pending' = Pending \cup {c} /\ handled' = handled
  BY SendFlows
<1>3. /\ sent'[t] = Append(sent[t], c) /\ sent[t] \in Seq(Chunk)
      /\ \A u \in Tasks : u # t => sent'[u] = sent[u]
  BY <1>1
<1>4. Range(sent'[t]) = Range(sent[t]) \cup {c}
  BY <1>1, <1>3, RangeOfAppend
<1>5. \A u \in Tasks : Range(sent[u]) \subseteq Range(sent'[u])
  BY <1>3, <1>4
<1>6. \A d \in Pending \cup handled : d.task \in Tasks
  BY PendingTypes DEF Chunk
<1>7. \A d \in Pending' \cup handled' : d \in Range(sent'[d.task])
  BY <1>1, <1>2, <1>4, <1>5, <1>6 DEF Traced
<1>8. ASSUME NEW u \in Tasks, NEW i \in 1..Len(sent'[u]), HasNonceData(sent'[u][i])
      PROVE  sent'[u][i] \in Pending' \cup handled'
  <2>1. CASE u # t
    BY <1>2, <1>3, <1>8, <2>1 DEF Traced
  <2>2. CASE u = t
    <3>1. /\ m \in Nat /\ Len(sent'[t]) = m + 1 /\ sent'[t][m + 1] = c
          /\ \A j \in 1..m : sent'[t][j] = sent[t][j]
      BY <1>1, <1>3
    <3>2. i = m + 1 \/ i \in 1..m
      BY <2>2, <3>1
    <3>3. QED
      BY <1>2, <1>8, <2>2, <3>1, <3>2 DEF Traced
  <2>3. QED
    BY <2>1, <2>2
<1>9. QED
  BY <1>7, <1>8 DEF Traced

LEMMA NextTraced ==
  ASSUME Typed, Ordered, Traced, [Next]_vars
  PROVE  Traced'
<1>1. ASSUME NEW t \in Tasks, Send(t)
      PROVE  Traced'
  BY <1>1, SendTraced DEF Ordered
<1>2. CASE WorkerStep \/ HandleNonce
  <2>1. UNCHANGED sent
    BY <1>2
    DEF WorkerStep, HashBegins, HashEnds, ReturnBuffer, HandleNonce, ReadersUnchanged, taskVars
  <2>2. QED
    BY <1>2, <2>1, OthersFlow DEF Traced
<1>3. CASE UNCHANGED <<sent, rx_read_replies, hashing, nonce_data, handled>>
  BY <1>3 DEF Traced, Pending
<1>4. QED
  BY <1>1, <1>2, <1>3
  DEF Next, start_reading, stop_reading, SetStop, ReaderStep, Begin, CheckStop, LockPlot,
      Read, Stops, taskVars, hashVars, vars

\* What t has under way is what is pending of it.
LEMMA UnderWayIsPending ==
  ASSUME NEW t \in Tasks
  PROVE  UnderWay(t) = {c \in Pending : c.task = t}
BY DEF UnderWay, Pending

LEMMA TracedAlways == Spec => [](Typed /\ Ordered /\ Traced)
<1>1. Init => Traced
  <2> SUFFICES ASSUME Init PROVE Traced
    OBVIOUS
  <2>1. Range(rx_read_replies) = {} /\ Range(nonce_data) = {} /\ hashing = {} /\ handled = {}
    BY DEF Init, Range
  <2>2. Pending = {}
    BY <2>1 DEF Pending
  <2>3. \A t \in Tasks : Len(sent[t]) = 0
    BY DEF Init
  <2>4. QED
    BY <2>1, <2>2, <2>3 DEF Traced
<1>2. (Typed /\ NotYet /\ Ordered) /\ Traced /\ [Next]_vars => Traced'
  BY NextTraced
<1>3. QED
  BY <1>1, <1>2, OrderedAlways, PTL DEF Spec

\* What a task has sent reaches the nonce handler, with one end marker if the
\* task is done and none if it is not (reader.rs:246-252, cpu_worker.rs:48-95).
THEOREM Reported == Spec => []ScanIsReported
<1>1. ASSUME Typed, Ordered, Traced PROVE ScanIsReported
  <2> SUFFICES ASSUME NEW t \in Tasks
               PROVE  LET markers == {c \in handled \cup UnderWay(t) : c.task = t /\ c.finished}
                      IN  /\ pc[t] = "done" /\ <<t[2], PlotCount>> \notin PrepareFaults
                               => Cardinality(markers) = 1
                          /\ pc[t] # "done" => markers = {}
                          /\ UnderWay(t) = {} => \A i \in 1..Len(sent[t]) :
                               HasNonceData(sent[t][i]) => sent[t][i] \in handled
    BY DEF ScanIsReported
  <2> DEFINE markers == {c \in handled \cup UnderWay(t) : c.task = t /\ c.finished}
             m == Len(sent[t])
  <2>1. sent[t] \in Seq(Chunk) /\ m \in Nat /\ DOMAIN sent[t] = 1..m
    BY <1>1 DEF Typed, TypeOK
  <2>2. \A i \in 1..m : /\ sent[t][i].task = t
                        /\ sent[t][i].finished => pc[t] = "done" /\ i = m
    BY <1>1 DEF Ordered, MarkedAtEnd
  <2>3. \A c \in markers : \E i \in 1..m : c = sent[t][i]
    <3>1. \A c \in markers : c \in Range(sent[t])
      BY <1>1, UnderWayIsPending DEF Traced
    <3>2. QED
      BY <2>1, <3>1 DEF Range
  <2>4. pc[t] # "done" => markers = {}
    BY <2>2, <2>3
  <2>5. ASSUME pc[t] = "done", <<t[2], PlotCount>> \notin PrepareFaults
        PROVE  Cardinality(markers) = 1
    <3>1. m > 0 /\ sent[t][m].finished
      BY <1>1, <2>5 DEF Ordered, MarkedAtEnd
    <3>2. m \in 1..m /\ sent[t][m].task = t
      BY <2>1, <2>2, <3>1
    <3>3. HasNonceData(sent[t][m])
      BY <3>1 DEF HasNonceData
    <3>4. sent[t][m] \in Pending \cup handled
      BY <1>1, <3>2, <3>3 DEF Traced
    <3>5. sent[t][m] \in markers
      BY <3>1, <3>2, <3>4, UnderWayIsPending
    <3>6. \A c \in markers : c = sent[t][m]
      BY <2>2, <2>3
    <3>7. markers = {sent[t][m]}
      BY <3>5, <3>6
    <3>8. QED
      BY <3>7, FS_Singleton
  <2>6. ASSUME UnderWay(t) = {}, NEW i \in 1..m, HasNonceData(sent[t][i])
        PROVE  sent[t][i] \in handled
    <3>1. sent[t][i] \in Pending \cup handled
      BY <1>1, <2>6 DEF Traced
    <3>2. sent[t][i].task = t
      BY <2>2
    <3>3. QED
      BY <2>6, <3>1, <3>2, UnderWayIsPending
  <2>7. QED
    BY <2>4, <2>5, <2>6
<1>2. Typed /\ Ordered /\ Traced => ScanIsReported
  BY <1>1
<1>3. QED
  BY <1>2, TracedAlways, PTL

-----------------------------------------------------------------------------
(* How far an end marker gets ahead.                                        *)

LEMMA HashersEnoughKept ==
  ASSUME Typed, HashersEnough, [Next]_vars
  PROVE  HashersEnough'
<1>0. /\ Hashers \in Nat /\ Cardinality(hashing) \in Nat /\ Cardinality(returning) \in Nat
      /\ IsFiniteSet(hashing) /\ IsFiniteSet(returning)
  BY ReaderAssumption, FS_CardinalityType DEF HashersEnough
<1>1. CASE HashBegins
  <2> DEFINE r == Head(rx_read_replies)
  <2>1. /\ hashing' = hashing \cup {r} /\ UNCHANGED returning
        /\ Cardinality(hashing) + Cardinality(returning) < Hashers
    BY <1>1 DEF HashBegins, HasherFree
  <2>2. IsFiniteSet(hashing') /\ Cardinality(hashing') <= Cardinality(hashing) + 1
        /\ Cardinality(hashing') \in Nat
    BY <1>0, <2>1, FS_AddElement
  <2>3. QED
    BY <1>0, <2>1, <2>2 DEF HashersEnough
<1>2. ASSUME NEW r \in hashing, HashEnds(r)
      PROVE  HashersEnough'
  <2>1. hashing' = hashing \ {r} /\ returning' = returning \cup {r.buffer}
    BY <1>2 DEF HashEnds
  <2>2. IsFiniteSet(hashing') /\ Cardinality(hashing') = Cardinality(hashing) - 1
    BY <1>0, <2>1, FS_RemoveElement
  <2>3. IsFiniteSet(returning') /\ Cardinality(returning') <= Cardinality(returning) + 1
        /\ Cardinality(returning') \in Nat
    BY <1>0, <2>1, FS_AddElement
  <2>4. QED
    BY <1>0, <2>2, <2>3 DEF HashersEnough
<1>3. ASSUME NEW b \in returning, ReturnBuffer(b)
      PROVE  HashersEnough'
  <2>1. UNCHANGED hashing /\ returning' = returning \ {b}
    BY <1>3 DEF ReturnBuffer
  <2>2. IsFiniteSet(returning') /\ Cardinality(returning') = Cardinality(returning) - 1
    BY <1>0, <2>1, FS_RemoveElement
  <2>3. QED
    BY <1>0, <2>1, <2>2 DEF HashersEnough
<1>4. CASE UNCHANGED <<hashing, returning>>
  BY <1>4 DEF HashersEnough
<1>5. QED
  BY <1>1, <1>2, <1>3, <1>4
  DEF Next, WorkerStep, start_reading, stop_reading, SetStop, ReaderStep, Begin, CheckStop,
      LockPlot, Read, Stops, Send, HandleNonce, hashVars, vars

\* Fewer stay behind if fewer are there.
LEMMA FewKept ==
  ASSUME NEW t \in Tasks, NEW i \in Nat, NEW k \in Nat,
         FewBehind(t, i), Through(t)', Behind(t, k)' \subseteq Behind(t, i)
  PROVE  FewBehind(t, k)'
<1>1. /\ IsFiniteSet(Behind(t, i)) /\ Cardinality(Behind(t, i)) < Hashers
      /\ Cardinality(Behind(t, i)) \in Nat /\ Hashers \in Nat
  BY ReaderAssumption, FS_CardinalityType DEF FewBehind
<1>2. /\ IsFiniteSet(Behind(t, k)') /\ Cardinality(Behind(t, k)') <= Cardinality(Behind(t, i))
      /\ Cardinality(Behind(t, k)') \in Nat
  BY <1>1, FS_Subset, FS_CardinalityType
<1>3. QED
  BY <1>1, <1>2 DEF FewBehind

\* Who has sent an end marker is done.
LEMMA MarkerSentLast ==
  ASSUME Typed, Ordered, Traced, NEW t \in Tasks, NEW c \in Pending \cup handled, Ends(c, t)
  PROVE  pc[t] = "done"
<1>1. c.task = t /\ c.finished /\ c \in Range(sent[t]) /\ sent[t] \in Seq(Chunk)
  BY DEF Traced, Typed, TypeOK, Ends
<1>2. PICK i \in 1..Len(sent[t]) : c = sent[t][i]
  BY <1>1 DEF Range
<1>3. sent[t][i].finished => pc[t] = "done"
  BY Zenon DEF Ordered, MarkedAtEnd
<1>4. QED
  BY <1>1, <1>2, <1>3

LEMMA InPending ==
  ASSUME Typed
  PROVE  /\ \A i \in 1..Len(rx_read_replies) : rx_read_replies[i].info \in Pending
         /\ \A r \in hashing : r.info \in Pending
         /\ \A i \in 1..Len(nonce_data) : nonce_data[i] \in Pending
<1>1. rx_read_replies \in Seq(ReadReply) /\ nonce_data \in Seq(Chunk)
  BY DEF Typed, TypeOK
<1>2. /\ \A i \in 1..Len(rx_read_replies) : rx_read_replies[i] \in Range(rx_read_replies)
      /\ \A i \in 1..Len(nonce_data) : nonce_data[i] \in Range(nonce_data)
  BY <1>1 DEF Range
<1>3. QED
  BY <1>2 DEF Pending

\* A task that sends a reply has sent no end marker before.
LEMMA SendMarkerLast ==
  ASSUME Typed, Ordered, Traced, NEW t \in Tasks, Send(t),
         NEW u \in Tasks, MarkerLast(u)
  PROVE  MarkerLast(u)'
<1> DEFINE n == Len(rx_read_replies)
<1>1. /\ pc[t] = "send" /\ reply[t].info.task = t
      /\ rx_read_replies \in Seq(ReadReply) /\ reply[t] \in ReadReply
      /\ rx_read_replies' = Append(rx_read_replies, reply[t])
      /\ UNCHANGED <<hashing, nonce_data, handled>>
  BY DEF Send, hashVars, Ordered, RepliesFit, Typed, TypeOK
<1>2. /\ n \in Nat /\ Len(rx_read_replies') = n + 1
      /\ rx_read_replies'[n + 1] = reply[t]
      /\ \A i \in 1..n : rx_read_replies'[i] = rx_read_replies[i]
  BY <1>1
<1>3. \A c \in Pending \cup handled : Ends(c, u) => u # t
  BY <1>1, MarkerSentLast
<1> HIDE DEF n
<1>4. \A i \in 1..(n + 1) : i \in 1..n \/ i = n + 1
  BY <1>2
<1>5. u # t /\ Through(u) => Through(u)'
  BY <1>1, <1>2, <1>4 DEF Through, n
<1>6. ASSUME NEW i \in Nat, u # t, FewBehind(u, i)
      PROVE  FewBehind(u, i)'
  <2>1. Behind(u, i)' = Behind(u, i)
    BY <1>1 DEF Behind, SentAfter
  <2>2. QED
    BY <1>5, <1>6, <2>1 DEF FewBehind
<1>7. ASSUME NEW i \in 1..(n + 1), NEW j \in 1..(n + 1),
             Ends(rx_read_replies'[i].info, u), i < j
      PROVE  rx_read_replies'[j].info.task # u
  <2>1. i \in 1..n /\ rx_read_replies'[i] = rx_read_replies[i]
    BY <1>2, <1>7
  <2>2. CASE j \in 1..n
    BY <1>2, <1>7, <2>1, <2>2 DEF MarkerLast, n
  <2>3. CASE j = n + 1
    <3>1. rx_read_replies[i].info \in Pending
      BY <2>1, InPending DEF n
    <3>2. u # t
      BY <1>3, <1>7, <2>1, <3>1
    <3>3. QED
      BY <1>1, <1>2, <2>3, <3>2
  <2>4. QED
    BY <1>4, <2>2, <2>3
<1>8. (\E r \in hashing : Ends(r.info, u)) => Through(u)'
  BY <1>3, <1>5, InPending DEF MarkerLast
<1>9. ASSUME NEW i \in 1..Len(nonce_data), Ends(nonce_data[i], u)
      PROVE  FewBehind(u, i)'
  <2>1. nonce_data[i] \in Pending /\ i \in Nat
    BY <1>9, InPending
  <2>2. u # t /\ FewBehind(u, i)
    BY <1>3, <1>9, <2>1 DEF MarkerLast
  <2>3. QED
    BY <1>6, <2>1, <2>2
<1>10. (\E c \in handled : Ends(c, u)) => FewBehind(u, 0)'
  BY <1>3, <1>6 DEF MarkerLast
<1>11. QED
  BY <1>1, <1>2, <1>7, <1>8, <1>9, <1>10 DEF MarkerLast

\* The oldest reply begins to be hashed.
LEMMA BeginsMarkerLast ==
  ASSUME Typed, HashBegins, NEW u \in Tasks, MarkerLast(u)
  PROVE  MarkerLast(u)'
<1> DEFINE n == Len(rx_read_replies)
           h == Head(rx_read_replies)
<1>1. /\ rx_read_replies \in Seq(ReadReply) /\ rx_read_replies # <<>>
      /\ rx_read_replies' = Tail(rx_read_replies)
      /\ hashing' = hashing \cup {h} /\ UNCHANGED <<nonce_data, handled>>
  BY DEF HashBegins, Typed, TypeOK
<1>2. /\ n \in Nat \ {0} /\ Len(rx_read_replies') = n - 1 /\ h = rx_read_replies[1]
      /\ \A i \in 1..(n - 1) : rx_read_replies'[i] = rx_read_replies[i + 1]
                               /\ i + 1 \in 1..n /\ 1 < i + 1
      /\ 1 \in 1..n
  BY <1>1
<1> HIDE DEF n, h
<1>3. Through(u) => Through(u)' /\ h.info.task # u
  BY <1>2 DEF Through, n
<1>4. ASSUME NEW i \in Nat, FewBehind(u, i)
      PROVE  FewBehind(u, i)'
  <2>1. Through(u)' /\ h.info.task # u
    BY <1>3, <1>4 DEF FewBehind
  <2>2. Behind(u, i)' = Behind(u, i)
    BY <1>1, <2>1 DEF Behind, SentAfter
  <2>3. QED
    BY <1>4, <2>1, <2>2 DEF FewBehind
<1>5. ASSUME NEW i \in 1..(n - 1), NEW j \in 1..(n - 1),
             Ends(rx_read_replies'[i].info, u), i < j
      PROVE  rx_read_replies'[j].info.task # u
  <2>1. i + 1 \in 1..n /\ j + 1 \in 1..n /\ i + 1 < j + 1
    BY <1>2, <1>5
  <2>2. QED
    BY <1>2, <1>5, <2>1 DEF MarkerLast, n
<1>6. Ends(h.info, u) => Through(u)'
  <2>1. SUFFICES ASSUME Ends(h.info, u), NEW i \in 1..(n - 1)
                 PROVE  rx_read_replies'[i].info.task # u
    BY <1>2 DEF Through
  <2>2. QED
    BY <1>2, <2>1 DEF MarkerLast, n
<1>7. (\E r \in hashing' : Ends(r.info, u)) => Through(u)'
  BY <1>1, <1>3, <1>6 DEF MarkerLast
<1>8. \A i \in 1..Len(nonce_data) : Ends(nonce_data[i], u) => FewBehind(u, i)'
  BY <1>4 DEF MarkerLast
<1>9. (\E c \in handled : Ends(c, u)) => FewBehind(u, 0)'
  BY <1>4 DEF MarkerLast
<1>10. QED
  BY <1>1, <1>2, <1>5, <1>7, <1>8, <1>9 DEF MarkerLast

\* What is hashed beside r is less than there are threads.
LEMMA BesideHashed ==
  ASSUME HashersEnough, NEW r \in hashing, NEW t \in Tasks, Through(t)',
         hashing' = hashing \ {r},
         NEW k \in Nat, Behind(t, k)' \subseteq {s.info : s \in hashing'}
  PROVE  FewBehind(t, k)'
<1> DEFINE H == hashing \ {r}
           I == {s.info : s \in H}
           f == [s \in H |-> s.info]
<1>1. /\ IsFiniteSet(H) /\ Cardinality(H) = Cardinality(hashing) - 1
      /\ Cardinality(hashing) \in Nat /\ Cardinality(returning) \in Nat
      /\ Cardinality(hashing) <= Hashers /\ Hashers \in Nat
  <2>1. /\ IsFiniteSet(hashing) /\ IsFiniteSet(returning) /\ Hashers \in Nat
        /\ Cardinality(hashing) + Cardinality(returning) <= Hashers
    BY ReaderAssumption DEF HashersEnough
  <2>2. Cardinality(hashing) \in Nat /\ Cardinality(returning) \in Nat
    BY <2>1, FS_CardinalityType
  <2>3. IsFiniteSet(H) /\ Cardinality(H) = Cardinality(hashing) - 1
    BY <2>1, FS_RemoveElement
  <2>4. QED
    BY <2>1, <2>2, <2>3
<1>2. f \in Surjection(H, I)
  <2>1. f \in [H -> I] /\ \A x \in I : \E s \in H : f[s] = x
    OBVIOUS
  <2> HIDE DEF f, H, I
  <2>2. QED
    BY <2>1 DEF Surjection
<1>3. IsFiniteSet(I) /\ Cardinality(I) <= Cardinality(H)
  <2> HIDE DEF f, H, I
  <2>1. QED
    BY <1>1, <1>2, FS_Surjection
<1>4. Behind(t, k)' \subseteq I
  OBVIOUS
<1> HIDE DEF H, I
<1>5. IsFiniteSet(Behind(t, k)') /\ Cardinality(Behind(t, k)') <= Cardinality(I)
  BY <1>3, <1>4, FS_Subset
<1>6. Cardinality(H) \in Nat /\ Cardinality(I) \in Nat /\ Cardinality(Behind(t, k)') \in Nat
  BY <1>1, <1>3, <1>5, FS_CardinalityType
<1>7. Cardinality(Behind(t, k)') < Hashers
  BY <1>1, <1>3, <1>5, <1>6
<1>8. QED
  BY <1>5, <1>7 DEF FewBehind

\* A hash task sends its nonce data, if any, behind what is in the channel.
LEMMA EndsMarkerLast ==
  ASSUME Typed, HashersEnough, NEW r \in hashing, HashEnds(r),
         NEW u \in Tasks, MarkerLast(u)
  PROVE  MarkerLast(u)'
<1> DEFINE n == Len(nonce_data)
<1>1. /\ nonce_data \in Seq(Chunk) /\ r.info \in Chunk /\ n \in Nat
      /\ hashing' = hashing \ {r} /\ UNCHANGED <<rx_read_replies, handled>>
      /\ \/ nonce_data' = Append(nonce_data, r.info)
         \/ UNCHANGED nonce_data
  BY DEF HashEnds, Typed, TypeOK, ReadReply
<1>2. Through(u) <=> Through(u)'
  BY <1>1 DEF Through
<1>3. \/ /\ Len(nonce_data') = n + 1 /\ nonce_data'[n + 1] = r.info
         /\ \A i \in 1..n : nonce_data'[i] = nonce_data[i]
      \/ Len(nonce_data') = n /\ UNCHANGED nonce_data
  BY <1>1
<1> HIDE DEF n
<1>4. ASSUME NEW j \in 1..Len(nonce_data')
      PROVE  \/ j \in 1..n /\ nonce_data'[j] = nonce_data[j]
             \/ Len(nonce_data') = n + 1 /\ j = n + 1 /\ nonce_data'[j] = r.info
  BY <1>1, <1>3
<1>5. ASSUME NEW k \in Nat, FewBehind(u, k)
      PROVE  FewBehind(u, k)'
  <2>1. ASSUME NEW d \in Chunk, SentAfter(d, u, k)'
        PROVE  SentAfter(d, u, k)
    BY <1>1, <1>4, <2>1 DEF SentAfter, n
  <2>2. Behind(u, k)' \subseteq Behind(u, k)
    BY <2>1 DEF Behind
  <2>3. QED
    BY <1>2, <1>5, <2>2, FewKept DEF FewBehind
<1>6. ASSUME NEW i \in 1..Len(nonce_data'), Ends(nonce_data'[i], u)
      PROVE  FewBehind(u, i)'
  <2>1. i \in Nat
    BY <1>1, <1>4
  <2>2. CASE i \in 1..n /\ nonce_data'[i] = nonce_data[i]
    BY <1>5, <1>6, <2>1, <2>2 DEF MarkerLast, n
  <2>3. CASE Len(nonce_data') = n + 1 /\ i = n + 1 /\ nonce_data'[i] = r.info
    <3>1. Through(u)'
      BY <1>2, <1>6, <2>3 DEF MarkerLast
    <3>2. ASSUME NEW d \in Chunk, SentAfter(d, u, i)'
          PROVE  d \in {s.info : s \in hashing'}
      <4>1. ~ \E j \in 1..Len(nonce_data') : i < j
        BY <1>1, <2>3
      <4>2. QED
        BY <3>2, <4>1 DEF SentAfter
    <3>3. Behind(u, i)' \subseteq {s.info : s \in hashing'}
      BY <3>2 DEF Behind
    <3>4. QED
      BY <1>1, <2>1, <3>1, <3>3, BesideHashed
  <2>4. QED
    BY <1>4, <2>2, <2>3
<1>7. (\E c \in handled : Ends(c, u)) => FewBehind(u, 0)'
  BY <1>5 DEF MarkerLast
<1>8. (\E s \in hashing' : Ends(s.info, u)) => Through(u)'
  BY <1>1, <1>2 DEF MarkerLast
<1>9. QED
  BY <1>1, <1>6, <1>7, <1>8 DEF MarkerLast

\* The handler takes the oldest of the channel.
LEMMA HandleMarkerLast ==
  ASSUME Typed, HandleNonce, NEW u \in Tasks, MarkerLast(u)
  PROVE  MarkerLast(u)'
<1> DEFINE n == Len(nonce_data)
           h == Head(nonce_data)
<1>1. /\ nonce_data \in Seq(Chunk) /\ nonce_data # <<>> /\ nonce_data' = Tail(nonce_data)
      /\ handled' = handled \cup {h} /\ UNCHANGED <<rx_read_replies, hashing>>
  BY DEF HandleNonce, ReadersUnchanged, Typed, TypeOK
<1>2. /\ n \in Nat \ {0} /\ Len(nonce_data') = n - 1 /\ h = nonce_data[1] /\ 1 \in 1..n
      /\ \A i \in 1..(n - 1) : nonce_data'[i] = nonce_data[i + 1] /\ i + 1 \in 1..n
  BY <1>1
<1> HIDE DEF n, h
<1>3. Through(u) <=> Through(u)'
  BY <1>1 DEF Through
<1>4. ASSUME NEW i \in Nat, NEW k \in Nat, i <= k + 1, FewBehind(u, i)
      PROVE  FewBehind(u, k)'
  <2>1. ASSUME NEW d \in Chunk, SentAfter(d, u, k)'
        PROVE  SentAfter(d, u, i)
    <3>1. ASSUME NEW j \in 1..(n - 1), k < j
          PROVE  j + 1 \in 1..n /\ i < j + 1
      BY <1>2, <1>4, <3>1
    <3>2. QED
      BY <1>1, <1>2, <2>1, <3>1 DEF SentAfter, n
  <2>2. Behind(u, k)' \subseteq Behind(u, i)
    BY <2>1 DEF Behind
  <2>3. QED
    BY <1>3, <1>4, <2>2, FewKept DEF FewBehind
<1>5. ASSUME NEW i \in 1..(n - 1), Ends(nonce_data'[i], u)
      PROVE  FewBehind(u, i)'
  <2>1. nonce_data'[i] = nonce_data[i + 1] /\ i + 1 \in 1..n /\ i \in Nat /\ i + 1 \in Nat
    BY <1>2
  <2>2. FewBehind(u, i + 1)
    BY <1>5, <2>1 DEF MarkerLast, n
  <2>3. QED
    BY <1>4, <2>1, <2>2
<1>6. ASSUME NEW c \in handled', Ends(c, u)
      PROVE  FewBehind(u, 0)'
  <2>1. CASE c \in handled
    <3>1. FewBehind(u, 0)
      BY <1>6, <2>1 DEF MarkerLast
    <3>2. QED
      BY <1>4, <3>1
  <2>2. CASE c = h
    <3>1. FewBehind(u, 1)
      BY <1>2, <1>6, <2>2 DEF MarkerLast, n
    <3>2. QED
      BY <1>4, <3>1
  <2>3. QED
    BY <1>1, <1>6, <2>1, <2>2
<1>7. (\E r \in hashing : Ends(r.info, u)) => Through(u)'
  BY <1>3 DEF MarkerLast
<1>8. QED
  BY <1>1, <1>2, <1>5, <1>6, <1>7 DEF MarkerLast

LEMMA NextMarkersLast ==
  ASSUME Typed, HashersEnough, Ordered, Traced, MarkersLast, [Next]_vars
  PROVE  MarkersLast'
<1> SUFFICES ASSUME NEW u \in Tasks PROVE MarkerLast(u)'
  BY DEF MarkersLast
<1>0. MarkerLast(u)
  BY DEF MarkersLast
<1>1. ASSUME NEW t \in Tasks, Send(t)
      PROVE  MarkerLast(u)'
  BY <1>0, <1>1, SendMarkerLast
<1>2. CASE HashBegins
  BY <1>0, <1>2, BeginsMarkerLast
<1>3. ASSUME NEW r \in hashing, HashEnds(r)
      PROVE  MarkerLast(u)'
  BY <1>0, <1>3, EndsMarkerLast
<1>4. CASE HandleNonce
  BY <1>0, <1>4, HandleMarkerLast
<1>5. CASE UNCHANGED <<rx_read_replies, hashing, nonce_data, handled>>
  BY <1>0, <1>5 DEF MarkerLast, FewBehind, Behind, SentAfter, Through
<1>6. QED
  BY <1>1, <1>2, <1>3, <1>4, <1>5
  DEF Next, WorkerStep, ReturnBuffer, ReaderStep, Begin, CheckStop, LockPlot, Read, Stops,
      start_reading, stop_reading, SetStop, taskVars, hashVars, vars

\* When an end marker is handled, fewer chunks of its drive than there are
\* hashing threads are yet to come; none if one thread hashes
\* (cpu_worker.rs:26-34, 86-93).
THEOREM MarkerOrder == Spec => []MarkerOvertakesFew
<1> DEFINE Inv == HashersEnough /\ MarkersLast
<1>1. Init => Inv
  <2> SUFFICES ASSUME Init PROVE Inv
    OBVIOUS
  <2>1. /\ hashing = {} /\ returning = {} /\ handled = {}
        /\ Len(rx_read_replies) = 0 /\ Len(nonce_data) = 0
    BY DEF Init
  <2>2. HashersEnough
    BY <2>1, FS_EmptySet, ReaderAssumption DEF HashersEnough
  <2>3. MarkersLast
    BY <2>1 DEF MarkersLast, MarkerLast
  <2>4. QED
    BY <2>2, <2>3
<1>2. (Typed /\ Ordered /\ Traced) /\ Inv /\ [Next]_vars => Inv'
  BY HashersEnoughKept, NextMarkersLast
<1>3. ASSUME Typed, Ordered, Traced, MarkersLast PROVE MarkerOvertakesFew
  <2> SUFFICES ASSUME NEW c \in handled, c.finished
               PROVE  Cardinality({d \in UnderWay(c.task) : d.read}) < Hashers
    BY DEF MarkerOvertakesFew
  <2>1. c.task \in Tasks /\ FewBehind(c.task, 0)
    BY <1>3, PendingTypes DEF MarkersLast, MarkerLast, Chunk, Ends
  <2>2. UnderWay(c.task) \subseteq Chunk
    BY <1>3, PendingTypes DEF UnderWay, Pending
  <2>3. ASSUME NEW d \in Chunk
        PROVE  d \in UnderWay(c.task) /\ d.read <=> SentAfter(d, c.task, 0)
    <3>1. rx_read_replies \in Seq(ReadReply) /\ nonce_data \in Seq(Chunk)
      BY <1>3 DEF Typed, TypeOK
    <3>2. \A r \in Range(rx_read_replies) : r.info.task # c.task
      BY <2>1, <3>1 DEF FewBehind, Through, Range
    <3>3. d \in Range(nonce_data) <=> \E j \in 1..Len(nonce_data) : 0 < j /\ d = nonce_data[j]
      BY <3>1 DEF Range
    <3>4. QED
      BY <3>2, <3>3 DEF UnderWay, SentAfter
  <2>4. {d \in UnderWay(c.task) : d.read} = Behind(c.task, 0)
    BY <2>2, <2>3 DEF Behind
  <2>5. QED
    BY <2>1, <2>4 DEF FewBehind
<1>4. (Typed /\ Ordered /\ Traced) /\ Inv => MarkerOvertakesFew
  BY <1>3
<1> HIDE DEF Inv
<1>5. QED
  BY <1>1, <1>2, <1>4, TracedAlways, PTL DEF Spec
=============================================================================
