----------------------------- MODULE GpuWorker -----------------------------
(***************************************************************************)
(* One GPU thread of the opencl build, asynchronous (gpu_worker_async.rs)   *)
(* or synchronous (gpu_worker.rs), and what the readers send it.  The       *)
(* asynchronous worker hashes a buffer while it transfers the next one, so  *)
(* that it is always one behind: it keeps the last buffer of a round in a   *)
(* sink until an end signal of every drive has come, and it uploads the     *)
(* generation signature only with the first buffer after a start signal.    *)
(*                                                                          *)
(* Module Reader has the readers in full.  Here the chunks of a drive are   *)
(* numbered through its plots and go to this GPU or to another worker, and  *)
(* the interrupt is polled in the step of the read before it.  The flag     *)
(* SHOULD_STOP_MINING is set and cleared by polls at any moment: each test  *)
(* of it may go either way.  The channels of buffers have room for all of   *)
(* them and are sets: which one is taken first makes no odds.               *)
(***************************************************************************)
EXTENDS Naturals, Sequences, FiniteSets, Bags

CONSTANTS
  Drives,
  ChunkCount,   \* [Drives -> Nat \ {0}]: the reads of a drive
  LastOfPlot,   \* of each chunk of a drive, the last one of its plot
  Buffers,      \* the buffers of this GPU
  Settings,     \* [gpu_async, other_workers, heights, faults]: whether there
                \* are other workers, the height of each scan, and the drives
                \* that may fail to be prepared or read
  MaxRuns       \* bound: the scans of any setting

ASSUME GpuAssumption ==
  /\ MaxRuns \in Nat
  /\ IsFiniteSet(Drives)
  /\ ChunkCount \in [Drives -> Nat \ {0}]
  /\ \A d \in Drives : \A i \in 1..ChunkCount[d] :
       LastOfPlot[d][i] \in i..ChunkCount[d]
  /\ \A s \in Settings :
       /\ s.gpu_async \in BOOLEAN /\ s.other_workers \in BOOLEAN
       /\ s.heights \in Seq(Nat) /\ Len(s.heights) <= MaxRuns

Tasks == (1..MaxRuns) \X Drives

\* What the handler can tell of a reply: BufferInfo with the buffer.
NoReply == [buffer |-> "none", len |-> 0, run |-> 0, drive |-> "none",
            chunk |-> 0, finished |-> FALSE, gpu_signal |-> 0]

NoData == <<0, "none", 0>>

\* What is said of a chunk, whichever buffer it is in.
Said(m) == [m EXCEPT !.buffer = "none"]

VARIABLES
  setting,
  run,              \* scans started
  pc, next, reply,  \* of each read task: where it is, its next chunk, what it
                    \* is about to send
  interupts,        \* the tasks with a message in their interrupt channel
  rx_empty_buffers,
  rx_read_replies,  \* this GPU's channel, unbounded
  data, data_gpu,   \* what was read into each buffer last, and what of it was
                    \* transferred to the GPU last
  \* the asynchronous worker's locals
  new_round, last_buffer, drive_count, active_height, rx_sink,
  gensig_gpu,       \* the scan whose generation signature the GPU holds
  \* history
  sent,             \* since the last scan began: the replies sent to this GPU
  reports,          \* and a bag of [reply, gensig, data, disturbed]: the nonce
                    \* data sent, and what it was computed from
  started,          \* the scan of the last start signal the worker has seen
  late, late_end    \* since then it has seen a buffer, an end signal of the
                    \* same height, of an earlier scan

readers == <<run, pc, next, reply, interupts, sent>>
worker == <<new_round, last_buffer, drive_count, active_height, rx_sink,
            gensig_gpu, data_gpu, started, late, late_end>>
vars == <<setting, readers, rx_empty_buffers, rx_read_replies, data, worker,
          reports>>

Init ==
  /\ setting \in Settings
  /\ run = 0
  /\ pc = [t \in Tasks |-> "new"]
  /\ next = [t \in Tasks |-> 1]
  /\ reply = [t \in Tasks |-> NoReply]
  /\ interupts = {}
  /\ rx_empty_buffers = Buffers
  /\ rx_read_replies = <<>>
  /\ data = [b \in Buffers |-> NoData]
  /\ data_gpu = [b \in Buffers |-> NoData]
  /\ new_round = TRUE
  /\ last_buffer = NoReply
  /\ drive_count = 0
  /\ active_height = 0
  /\ rx_sink = {}
  /\ gensig_gpu = 0
  /\ sent = {}
  /\ reports = EmptyBag
  /\ started = 0
  /\ late = FALSE /\ late_end = FALSE

-----------------------------------------------------------------------------
(* The readers.                                                             *)

Signal(n, kind) == [NoReply EXCEPT !.len = 1, !.run = n, !.gpu_signal = kind]

\* Tasks of the last scan: only their channels are kept.
Started == {t \in Tasks : t[1] = run}

\* The tasks of the last scan are told to stop, a start signal goes to the GPU,
\* and a task is spawned for each drive.
start_reading ==
  /\ run < Len(setting.heights)
  /\ run' = run + 1
  /\ interupts' = interupts \cup Started
  /\ rx_read_replies' = Append(rx_read_replies, Signal(run + 1, 1))
  /\ pc' = [t \in Tasks |-> IF t[1] = run + 1 THEN "spawned" ELSE pc[t]]
  /\ sent' = {} /\ reports' = EmptyBag
  /\ UNCHANGED <<setting, next, reply, rx_empty_buffers, data, worker>>

stop_reading ==
  /\ interupts' = interupts \cup Started
  /\ UNCHANGED <<setting, run, pc, next, reply, sent, rx_empty_buffers,
                 rx_read_replies, data, worker, reports>>

Goes(t, to) == pc' = [pc EXCEPT ![t] = to]

Chunk(t) == <<t[1], t[2], next[t]>>
PlotEnd(t) == LastOfPlot[t[2]][next[t]]

\* Where a task goes that is done with its chunks up to the given one.
Passes(t, done, end) ==
  IF done = ChunkCount[t[2]]
  THEN Goes(t, end) /\ UNCHANGED next
  ELSE /\ Goes(t, IF done = PlotEnd(t) THEN "spawned" ELSE "reading")
       /\ next' = [next EXCEPT ![t] = done + 1]

\* The plot is locked by no task, and prepared.  A plot that cannot be prepared
\* is passed over; if it is the last one the task ends, with no end signal.
Prepare(t) ==
  /\ pc[t] = "spawned"
  /\ \A u \in Tasks : u[2] = t[2] /\ PlotEnd(u) = PlotEnd(t) =>
       pc[u] \notin {"reading", "sending", "signalling"}
  /\ \/ Goes(t, "reading") /\ UNCHANGED next
     \/ t[2] \in setting.faults /\ Passes(t, PlotEnd(t), "skipped")
  /\ UNCHANGED <<setting, run, reply, interupts, sent, rx_empty_buffers,
                 rx_read_replies, data, worker, reports>>

\* The chunk after which the task goes on: a read that fails ends its plot.
Done(t, failed) == IF failed THEN PlotEnd(t) ELSE next[t]

\* A buffer is filled, and neither interrupt nor flag seen.
Read(t) ==
  /\ pc[t] = "reading" /\ t \notin interupts
  /\ \E len \in {0, 64}, b \in rx_empty_buffers :
       /\ rx_empty_buffers' = rx_empty_buffers \ {b}
       /\ len = 0 => t[2] \in setting.faults
       /\ data' = IF len = 0 THEN data ELSE [data EXCEPT ![b] = Chunk(t)]
       /\ reply' = [reply EXCEPT ![t] =
            [buffer |-> b, len |-> len, run |-> t[1], drive |-> t[2],
             chunk |-> next[t], finished |-> Done(t, len = 0) = ChunkCount[t[2]],
             gpu_signal |-> 0]]
  /\ Goes(t, "sending")
  /\ UNCHANGED <<setting, run, next, interupts, sent, rx_read_replies, worker,
                 reports>>

\* The same with a buffer of another worker, to which the reply goes.
ReadElsewhere(t) ==
  /\ pc[t] = "reading" /\ t \notin interupts
  /\ setting.other_workers
  /\ \E failed \in BOOLEAN :
       /\ failed => t[2] \in setting.faults
       /\ Passes(t, Done(t, failed), "signalling")
  /\ UNCHANGED <<setting, run, reply, interupts, sent, rx_empty_buffers,
                 rx_read_replies, data, worker, reports>>

\* The flag is seen before a plot is locked, or the flag or the interrupt when a
\* buffer has been received or filled, which is given back.
Stops(t) ==
  /\ \/ pc[t] = "spawned"
     \/ pc[t] = "reading" /\ (rx_empty_buffers # {} \/ setting.other_workers)
  /\ Goes(t, "stopped")
  /\ next' = [next EXCEPT ![t] = 1]
  /\ UNCHANGED <<setting, run, reply, interupts, sent, rx_empty_buffers,
                 rx_read_replies, data, worker, reports>>

Send(t) ==
  /\ pc[t] = "sending"
  /\ rx_read_replies' = Append(rx_read_replies, reply[t])
  /\ sent' = sent \cup {Said(reply[t])}
  /\ reply' = [reply EXCEPT ![t] = NoReply]
  /\ Passes(t, Done(t, reply[t].len = 0), "signalling")
  /\ UNCHANGED <<setting, run, interupts, rx_empty_buffers, data, worker,
                 reports>>

\* The drive is finished.
SendEnd(t) ==
  /\ pc[t] = "signalling"
  /\ rx_read_replies' = Append(rx_read_replies, Signal(t[1], 2))
  /\ Goes(t, "ended")
  /\ next' = [next EXCEPT ![t] = 1]
  /\ UNCHANGED <<setting, run, reply, interupts, sent, rx_empty_buffers,
                 data, worker, reports>>

ReaderStep(t) ==
  Prepare(t) \/ Read(t) \/ ReadElsewhere(t) \/ Stops(t) \/ Send(t) \/ SendEnd(t)

-----------------------------------------------------------------------------
(* The workers.  Each action handles one reply m.                           *)

Next_reply(m) ==
  /\ rx_read_replies # <<>> /\ m = Head(rx_read_replies)
  /\ rx_read_replies' = Tail(rx_read_replies)

height(m) == setting.heights[m.run]
Stale(m) == m.run < started

\* The nonce data of reply m, hashed from the given data and generation
\* signature.
Report(m, hashed, gensig) ==
  reports' = reports (+) SetToBag({[reply |-> Said(m), data |-> hashed,
               gensig |-> gensig, disturbed |-> late \/ late_end \/ Stale(m)]})

transfer_buffer_to_gpu(b) == data_gpu' = [data_gpu EXCEPT ![b] = data[b]]

\* Nothing was read: only the end of the drive is reported.
NothingRead(m) ==
  /\ m.len = 0
  /\ IF m.finished
     THEN Report(m, NoData, m.run)
     ELSE UNCHANGED reports
  /\ rx_empty_buffers' = rx_empty_buffers \cup {m.buffer}
  /\ UNCHANGED worker

\* The synchronous worker: transfer, hash, report, give back.
HashNow(m) ==
  /\ ~setting.gpu_async /\ m.len # 0
  /\ IF m.gpu_signal > 0 THEN UNCHANGED <<rx_empty_buffers, gensig_gpu, data_gpu, reports>>
     ELSE /\ gensig_gpu' = m.run
          /\ transfer_buffer_to_gpu(m.buffer)
          /\ Report(m, data_gpu'[m.buffer], gensig_gpu')
          /\ rx_empty_buffers' = rx_empty_buffers \cup {m.buffer}
  /\ UNCHANGED <<new_round, last_buffer, drive_count, active_height, rx_sink,
                 started, late, late_end>>

\* What is in the sink goes back to the readers.
Drained == rx_empty_buffers' = rx_empty_buffers \cup rx_sink /\ rx_sink' = {}

\* Mutated: the drives of the last round stay counted.
StartSignal_KeepsCount(m) ==
  /\ setting.gpu_async /\ m.gpu_signal = 1
  /\ IF new_round THEN UNCHANGED <<rx_empty_buffers, rx_sink>> ELSE Drained
  /\ active_height' = height(m)
  /\ new_round' = TRUE
  /\ started' = m.run /\ late' = FALSE /\ late_end' = FALSE
  /\ UNCHANGED <<drive_count, last_buffer, gensig_gpu, data_gpu, reports>>

\* Mutated: the sink is not emptied.
StartSignal_KeepsSink(m) ==
  /\ setting.gpu_async /\ m.gpu_signal = 1
  /\ drive_count' = 0
  /\ active_height' = height(m)
  /\ new_round' = TRUE
  /\ started' = m.run /\ late' = FALSE /\ late_end' = FALSE
  /\ UNCHANGED <<rx_empty_buffers, rx_sink, last_buffer, gensig_gpu, data_gpu, reports>>

\* What is left of the last round is dropped.
StartSignal(m) ==
  /\ setting.gpu_async /\ m.gpu_signal = 1
  /\ IF new_round THEN UNCHANGED <<rx_empty_buffers, rx_sink>> ELSE Drained
  /\ drive_count' = 0
  /\ active_height' = height(m)
  /\ new_round' = TRUE
  /\ started' = m.run /\ late' = FALSE /\ late_end' = FALSE
  /\ UNCHANGED <<last_buffer, gensig_gpu, data_gpu, reports>>

\* The drive that completes the round has the last buffer hashed; the signals
\* of another height are passed over.
EndSignal(m) ==
  /\ setting.gpu_async /\ m.gpu_signal = 2
  /\ drive_count' = IF active_height = height(m) THEN drive_count + 1 ELSE drive_count
  /\ late_end' = (late_end \/ (Stale(m) /\ active_height = height(m)))
  /\ IF active_height = height(m) /\ drive_count' = Cardinality(Drives) /\ ~new_round
     THEN Report(last_buffer, data_gpu[last_buffer.buffer], gensig_gpu) /\ Drained
     ELSE UNCHANGED <<reports, rx_empty_buffers, rx_sink>>
  /\ UNCHANGED <<new_round, last_buffer, active_height, gensig_gpu, data_gpu,
                 started, late>>

\* The buffer goes into the sink, which has room for one.
Sinks(m) ==
  /\ rx_sink' = {m.buffer}
  /\ last_buffer' = m
  /\ new_round' = FALSE
  /\ late' = (late \/ Stale(m))
  /\ UNCHANGED <<drive_count, active_height, started, late_end>>

\* The first buffer of a round is transferred, with the generation signature.
FirstBuffer(m) ==
  /\ setting.gpu_async /\ m.gpu_signal = 0 /\ m.len # 0
  /\ new_round /\ rx_sink = {}
  /\ gensig_gpu' = m.run
  /\ transfer_buffer_to_gpu(m.buffer)
  /\ Sinks(m)
  /\ UNCHANGED <<reports, rx_empty_buffers>>

\* The transfer goes on beside the hashing, so a buffer that is both is hashed
\* before or after it.
transfer_and_hash(m) ==
  /\ transfer_buffer_to_gpu(m.buffer)
  /\ \E hashed \in {data_gpu[last_buffer.buffer], data_gpu'[last_buffer.buffer]} :
       Report(last_buffer, hashed, gensig_gpu)
  /\ rx_empty_buffers' = rx_empty_buffers \cup rx_sink

\* Mutated: what was in the sink is not given back.
NextBuffer_Forgets(m) ==
  /\ setting.gpu_async /\ m.gpu_signal = 0 /\ m.len # 0
  /\ ~new_round
  /\ transfer_buffer_to_gpu(m.buffer)
  /\ Report(last_buffer, data_gpu[last_buffer.buffer], gensig_gpu)
  /\ Sinks(m)
  /\ UNCHANGED <<gensig_gpu, rx_empty_buffers>>

\* Mutated: the new buffer is hashed as the last one.
NextBuffer_HashesNew(m) ==
  /\ setting.gpu_async /\ m.gpu_signal = 0 /\ m.len # 0
  /\ ~new_round
  /\ transfer_buffer_to_gpu(m.buffer)
  /\ Report(last_buffer, data_gpu'[m.buffer], gensig_gpu)
  /\ rx_empty_buffers' = rx_empty_buffers \cup rx_sink
  /\ Sinks(m)
  /\ UNCHANGED gensig_gpu

\* Every other one is transferred while the last one is hashed, which goes back
\* to the readers.
NextBuffer(m) ==
  /\ setting.gpu_async /\ m.gpu_signal = 0 /\ m.len # 0
  /\ ~new_round
  /\ transfer_and_hash(m)
  /\ Sinks(m)
  /\ UNCHANGED gensig_gpu

WorkerStep ==
  \E m \in {rx_read_replies[i] : i \in 1..Len(rx_read_replies)} :
    /\ Next_reply(m)
    /\ NothingRead(m) \/ HashNow(m) \/ StartSignal(m) \/ EndSignal(m)
       \/ FirstBuffer(m) \/ NextBuffer(m)
    /\ UNCHANGED <<setting, readers, data>>

Next ==
  \/ start_reading \/ stop_reading
  \/ \E t \in Tasks : ReaderStep(t)
  \/ WorkerStep

Spec == Init /\ [][Next]_vars

\* Some reader, and the worker, run when they can.
FairSpec ==
  Spec /\ WF_vars(\E t \in Tasks : ReaderStep(t)) /\ WF_vars(WorkerStep)

-----------------------------------------------------------------------------
(* Properties.                                                              *)

Replies ==
  [buffer : Buffers, len : {0, 64}, run : 1..MaxRuns, drive : Drives,
   chunk : Nat, finished : BOOLEAN, gpu_signal : {0}]
Signals == {Signal(n, kind) : n \in 1..MaxRuns, kind \in {1, 2}}

\* What the places of a buffer can hold.
TypeOK ==
  /\ setting \in Settings
  /\ run \in 0..Len(setting.heights)
  /\ pc \in [Tasks -> {"new", "spawned", "reading", "sending", "signalling",
                       "ended", "stopped", "skipped"}]
  /\ next \in [Tasks -> Nat]
  /\ \A t \in Tasks : next[t] \in 1..ChunkCount[t[2]]
  /\ reply \in [Tasks -> Replies \cup {NoReply}]
  /\ \A t \in Tasks : pc[t] = "sending" <=> reply[t] # NoReply
  /\ rx_empty_buffers \subseteq Buffers
  /\ rx_read_replies \in Seq(Replies \cup Signals)
  /\ rx_sink \subseteq Buffers

Sending == {t \in Tasks : pc[t] = "sending"}
Waiting == {i \in 1..Len(rx_read_replies) : rx_read_replies[i].gpu_signal = 0}
Filled == {reply[t].buffer : t \in Sending}
Queued == {rx_read_replies[i].buffer : i \in Waiting}

\* Every buffer of the GPU is in one place: empty, with a read task, on its way
\* to the worker, or in its sink; none is lost on any way through the worker,
\* none is filled while it may still be hashed (gpu_worker_async.rs:49-173).
BuffersConserved ==
  /\ rx_empty_buffers \cup Filled \cup Queued \cup rx_sink = Buffers
  /\ \A t, u \in Sending : reply[t].buffer = reply[u].buffer => t = u
  /\ \A i, j \in Waiting :
       rx_read_replies[i].buffer = rx_read_replies[j].buffer => i = j
  /\ rx_empty_buffers \cap (Filled \cup Queued \cup rx_sink) = {}
  /\ Filled \cap (Queued \cup rx_sink) = {}
  /\ Queued \cap rx_sink = {}

\* Unless messages of an interrupted scan came after the start signal, what is
\* reported of a reply is computed from what was read for it, with the
\* generation signature of its own scan.
HashesItsOwn ==
  \A r \in BagToSet(reports) :
    r.reply.len > 0 /\ ~r.disturbed =>
      /\ r.data = <<r.reply.run, r.reply.drive, r.reply.chunk>>
      /\ r.gensig = r.reply.run

\* When every drive of the last scan has ended, and nothing of an earlier one
\* came after its start signal, each of its replies was reported once, the last
\* one too, and no buffer is kept.
RoundIsHashed ==
  /\ run > 0 /\ rx_read_replies = <<>>
  /\ \A d \in Drives : pc[<<run, d>>] = "ended"
  /\ ~late /\ ~late_end
  => /\ \A m \in sent :
          m.run = run /\ (m.len > 0 \/ m.finished) =>
            \E r \in BagToSet(reports) : r.reply = m /\ reports[r] = 1
     /\ \A r, q \in BagToSet(reports) : r.reply = q.reply /\ r.reply.run = run => r = q
     /\ rx_sink = {}

\* Every task that was started ends, whichever buffers the worker holds back.
\* (Scans are started MaxRuns times at most, so from some moment on no task is
\* left.)
TasksEnd ==
  <>[](\A t \in Tasks : pc[t] \in {"new", "ended", "stopped", "skipped"})
=============================================================================
