------------------------------ MODULE Reader ------------------------------
(***************************************************************************)
(* The plot readers (reader.rs) with the buffers they fill, and the worker  *)
(* (cpu_worker.rs) that hashes what they read and gives the buffers back.   *)
(*                                                                          *)
(* start_reading spawns one task per drive on a pool of reader threads.  A  *)
(* task locks one plot after the other and, while it holds the lock, takes  *)
(* an empty buffer for each chunk, fills it and sends it to the worker.     *)
(* Each reply is hashed by a task of its own on the hashing pool, which     *)
(* sends the nonce data into a bounded channel and then returns the buffer. *)
(* Tasks are told to stop by an interrupt or by SHOULD_STOP_MINING.         *)
(*                                                                          *)
(* The callers of start_reading and stop_reading (poll task and nonce       *)
(* handler, see Miner) may call at any moment.  Left out: progress and      *)
(* drive statistics, wakeup, and the GPU workers of the opencl build.       *)
(***************************************************************************)
EXTENDS Integers, FiniteSets, Sequences, Functions

CONSTANTS
  Drives,         \* the keys of drive_id_to_plots
  PlotCount,      \* plots per drive
  ChunkCount,     \* [Drives \X Plots -> ...], reads until a plot is read
  Threads,        \* reader threads (hdd_reader_thread_count)
  Hashers,        \* hashing threads (cpu_threads)
  Buffers,        \* the buffers, cpu_worker_task_count more than hashing threads
  PrepareFaults,  \* <<drive, plot>> whose prepare may fail
  ReadFaults,     \* <<drive, plot>> whose read may fail
  MaxRuns         \* bound: calls of start_reading

Plots == 1..PlotCount

ASSUME ReaderAssumption ==
  /\ IsFiniteSet(Drives)
  /\ PlotCount \in Nat \ {0}
  /\ ChunkCount \in [Drives \X Plots -> Nat \ {0}]
  /\ Threads \in Nat \ {0} /\ Hashers \in Nat \ {0}
  /\ IsFiniteSet(Buffers) /\ Cardinality(Buffers) > Hashers
  /\ PrepareFaults \subseteq Drives \X Plots
  /\ ReadFaults \subseteq Drives \X Plots
  /\ MaxRuns \in Nat

\* A reader task is known by the call that made it and its drive.
Tasks == (1..MaxRuns) \X Drives

VARIABLES
  run,                \* calls of start_reading so far
  SHOULD_STOP_MINING,
  pc,                 \* where each task is
  plot,               \* the plot each task is at
  interupts,          \* tasks with a message in their interrupt channel
  reply,              \* what each sending task is about to send
  read_offset,        \* Plot::read_offset, in chunks
  rx_empty_buffers,   \* the channel of empty buffers
  rx_read_replies,    \* replies sent and not yet being hashed, in order
  hashing,            \* replies being hashed, their nonce data not yet sent
  returning,          \* buffers of hash tasks that have sent their nonce data
  nonce_data,         \* the bounded channel to the nonce handler
  handled,            \* history: nonce data the handler has taken
  sent                \* history: chunks each task has sent, in order

taskVars == <<pc, plot, reply, read_offset, sent>>
hashVars == <<hashing, returning, nonce_data, handled>>
vars == <<run, SHOULD_STOP_MINING, interupts, taskVars, rx_empty_buffers,
          rx_read_replies, hashVars>>

-----------------------------------------------------------------------------
(* Types.                                                                   *)

\* What a read made of a chunk; read is FALSE if it failed, finished TRUE if
\* it ends the drive.
Chunk == [task : Tasks, plot : Plots, chunk : Nat, read : BOOLEAN,
          next_plot : BOOLEAN, finished : BOOLEAN]

ReadReply == [buffer : Buffers, info : Chunk]

\* "spawned" waits for a thread, "plot" is about to look at the flag, "lock"
\* waits for the plot's lock and "buffer" for an empty buffer.
Places == {"none", "spawned", "plot", "lock", "buffer", "send", "done", "stopped"}

NoReply == [buffer |-> "none"]

TypeOK ==
  /\ run \in 0..MaxRuns
  /\ SHOULD_STOP_MINING \in BOOLEAN
  /\ pc \in [Tasks -> Places]
  /\ plot \in [Tasks -> Plots]
  /\ interupts \subseteq Tasks
  /\ reply \in [Tasks -> ReadReply \cup {NoReply}]
  /\ \A t \in Tasks : pc[t] = "send" => reply[t] \in ReadReply
  /\ read_offset \in [Drives \X Plots -> Nat]
  /\ \A x \in Drives \X Plots : read_offset[x] <= ChunkCount[x]
  /\ rx_empty_buffers \subseteq Buffers
  /\ rx_read_replies \in Seq(ReadReply)
  /\ hashing \subseteq ReadReply
  /\ returning \subseteq Buffers
  /\ nonce_data \in Seq(Chunk)
  /\ Len(nonce_data) <= Cardinality(Buffers)
  /\ handled \subseteq Chunk
  /\ sent \in [Tasks -> Seq(Chunk)]

Init ==
  /\ run = 0
  /\ SHOULD_STOP_MINING = FALSE
  /\ pc = [t \in Tasks |-> "none"]
  /\ plot = [t \in Tasks |-> 1]
  /\ interupts = {}
  /\ reply = [t \in Tasks |-> NoReply]
  /\ read_offset = [x \in Drives \X Plots |-> 0]
  /\ rx_empty_buffers = Buffers
  /\ rx_read_replies = <<>>
  /\ hashing = {} /\ returning = {}
  /\ nonce_data = <<>> /\ handled = {}
  /\ sent = [t \in Tasks |-> <<>>]

-----------------------------------------------------------------------------
(* The callers.                                                             *)

\* Tasks of the last call: only their channels are kept.
Started == {t \in Tasks : t[1] = run}

start_reading ==
  /\ run < MaxRuns
  /\ run' = run + 1
  /\ interupts' = interupts \cup Started
  /\ pc' = [t \in Tasks |-> IF t[1] = run + 1 THEN "spawned" ELSE pc[t]]
  /\ UNCHANGED <<SHOULD_STOP_MINING, plot, reply, read_offset, sent,
                 rx_empty_buffers, rx_read_replies, hashVars>>

stop_reading ==
  /\ interupts' = interupts \cup Started
  /\ UNCHANGED <<run, SHOULD_STOP_MINING, taskVars, rx_empty_buffers,
                 rx_read_replies, hashVars>>

\* update_mining_info stores whether the annode is MINING.
SetStop ==
  /\ SHOULD_STOP_MINING' = ~SHOULD_STOP_MINING
  /\ UNCHANGED <<run, interupts, taskVars, rx_empty_buffers, rx_read_replies,
                 hashVars>>

-----------------------------------------------------------------------------
(* A reader task.                                                           *)

Goes(t, place) == pc' = [pc EXCEPT ![t] = place]

\* A task on a reader thread.
Running(t) == pc[t] \notin {"none", "spawned", "done", "stopped"}

\* t holds the lock of plot x of its drive.
Holds(t, x) == pc[t] \in {"buffer", "send"} /\ plot[t] = x

CallersUnchanged == UNCHANGED <<run, SHOULD_STOP_MINING>>

\* A reader thread takes the task up.
Begin(t) ==
  /\ pc[t] = "spawned"
  /\ Cardinality({u \in Tasks : Running(u)}) < Threads
  /\ Goes(t, IF SHOULD_STOP_MINING THEN "stopped" ELSE "plot")
  /\ CallersUnchanged
  /\ UNCHANGED <<plot, reply, read_offset, sent, interupts, rx_empty_buffers,
                 rx_read_replies, hashVars>>

CheckStop(t) ==
  /\ pc[t] = "plot"
  /\ Goes(t, IF SHOULD_STOP_MINING THEN "stopped" ELSE "lock")
  /\ CallersUnchanged
  /\ UNCHANGED <<plot, reply, read_offset, sent, interupts, rx_empty_buffers,
                 rx_read_replies, hashVars>>

IsLast(t) == plot[t] = PlotCount

\* On to the next plot, if there is one.
NextPlot(t) ==
  IF IsLast(t)
  THEN Goes(t, "done") /\ UNCHANGED plot
  ELSE Goes(t, "plot") /\ plot' = [plot EXCEPT ![t] = @ + 1]

\* Mutated: the offset is not set back.
LockPlot_NotRewound(t) ==
  /\ pc[t] = "lock"
  /\ \A u \in Tasks : u[2] = t[2] => ~Holds(u, plot[t])
  /\ \/ Goes(t, "buffer") /\ UNCHANGED plot
     \/ <<t[2], plot[t]>> \in PrepareFaults /\ NextPlot(t)
  /\ CallersUnchanged
  /\ UNCHANGED <<reply, read_offset, sent, interupts, rx_empty_buffers,
                 rx_read_replies, hashVars>>

\* Mutated: the plot is not locked.
LockPlot_Unlocked(t) ==
  /\ pc[t] = "lock"
  /\ read_offset' = [read_offset EXCEPT ![<<t[2], plot[t]>>] = 0]
  /\ \/ Goes(t, "buffer") /\ UNCHANGED plot
     \/ <<t[2], plot[t]>> \in PrepareFaults /\ NextPlot(t)
  /\ CallersUnchanged
  /\ UNCHANGED <<reply, sent, interupts, rx_empty_buffers, rx_read_replies, hashVars>>

\* The lock, and prepare under it.
LockPlot(t) ==
  /\ pc[t] = "lock"
  /\ \A u \in Tasks : u[2] = t[2] => ~Holds(u, plot[t])
  /\ read_offset' = [read_offset EXCEPT ![<<t[2], plot[t]>>] = 0]
  /\ \/ Goes(t, "buffer") /\ UNCHANGED plot
     \/ <<t[2], plot[t]>> \in PrepareFaults /\ NextPlot(t)
  /\ CallersUnchanged
  /\ UNCHANGED <<reply, sent, interupts, rx_empty_buffers, rx_read_replies, hashVars>>

\* The next chunk of the plot t has locked.
NextChunk(t) ==
  LET x == <<t[2], plot[t]>>
      i == read_offset[x]
      last == i + 1 >= ChunkCount[x]
  IN  [task |-> t, plot |-> plot[t], chunk |-> i, read |-> TRUE,
       next_plot |-> last, finished |-> last /\ IsLast(t)]

\* Mutated: a failed read ends no drive.
FailedChunk_NoMarker(t) ==
  [task |-> t, plot |-> plot[t], chunk |-> 0, read |-> FALSE,
   next_plot |-> TRUE, finished |-> FALSE]

\* What is sent of a plot that could not be read on.
FailedChunk(t) ==
  [task |-> t, plot |-> plot[t], chunk |-> 0, read |-> FALSE,
   next_plot |-> TRUE, finished |-> IsLast(t)]

Advanced(t) ==
  [read_offset EXCEPT ![<<t[2], plot[t]>>] = @ + 1]

Fills(t, b, c) ==
  /\ rx_empty_buffers' = rx_empty_buffers \ {b}
  /\ reply' = [reply EXCEPT ![t] = [buffer |-> b, info |-> c]]
  /\ Goes(t, "send")

\* A buffer is received and filled, and then neither interrupt nor flag seen.
Read(t, b) ==
  /\ pc[t] = "buffer"
  /\ ~SHOULD_STOP_MINING /\ t \notin interupts
  /\ \/ /\ Fills(t, b, NextChunk(t))
        /\ read_offset' = Advanced(t)
     \/ /\ <<t[2], plot[t]>> \in ReadFaults
        /\ Fills(t, b, FailedChunk(t))
        /\ UNCHANGED read_offset
  /\ CallersUnchanged
  /\ UNCHANGED <<plot, sent, interupts, rx_read_replies, hashVars>>

\* Mutated: the buffer is not returned.
Stops_KeepsBuffer(t, b) ==
  /\ pc[t] = "buffer"
  /\ \/ SHOULD_STOP_MINING /\ UNCHANGED interupts
     \/ t \in interupts /\ interupts' = interupts \ {t}
  /\ Goes(t, "stopped")
  /\ rx_empty_buffers' = rx_empty_buffers \ {b}
  /\ CallersUnchanged
  /\ UNCHANGED <<plot, reply, read_offset, sent, rx_read_replies, hashVars>>

\* A buffer is received, the interrupt or the flag seen before or after it is
\* filled, and the buffer returned.
Stops(t, b) ==
  /\ pc[t] = "buffer"
  /\ \/ SHOULD_STOP_MINING /\ UNCHANGED interupts
     \/ t \in interupts /\ interupts' = interupts \ {t}
  /\ Goes(t, "stopped")
  /\ read_offset' \in {read_offset, Advanced(t)}
  /\ CallersUnchanged
  /\ UNCHANGED <<plot, reply, sent, rx_empty_buffers, rx_read_replies, hashVars>>

\* The reply goes to the worker; its channel has room for every buffer.
Send(t) ==
  /\ pc[t] = "send"
  /\ rx_read_replies' = Append(rx_read_replies, reply[t])
  /\ sent' = [sent EXCEPT ![t] = Append(@, reply[t].info)]
  /\ reply' = [reply EXCEPT ![t] = NoReply]
  /\ IF reply[t].info.next_plot THEN NextPlot(t)
     ELSE Goes(t, "buffer") /\ UNCHANGED plot
  /\ CallersUnchanged
  /\ UNCHANGED <<read_offset, interupts, rx_empty_buffers, hashVars>>

ReaderStep(t) ==
  \/ Begin(t) \/ CheckStop(t) \/ LockPlot(t) \/ Send(t)
  \/ \E b \in rx_empty_buffers : Read(t, b) \/ Stops(t, b)

-----------------------------------------------------------------------------
(* The worker, its hash tasks, and the nonce handler.                       *)

ReadersUnchanged == UNCHANGED <<run, SHOULD_STOP_MINING, interupts, taskVars>>

\* A hashing thread is free.
HasherFree == Cardinality(hashing) + Cardinality(returning) < Hashers

\* Mutated: the youngest reply first.
HashBegins_Youngest ==
  LET n == Len(rx_read_replies)
  IN  /\ rx_read_replies # <<>>
      /\ HasherFree
      /\ hashing' = hashing \cup {rx_read_replies[n]}
      /\ rx_read_replies' = SubSeq(rx_read_replies, 1, n - 1)
      /\ ReadersUnchanged
      /\ UNCHANGED <<rx_empty_buffers, returning, nonce_data, handled>>

\* The worker spawns the hash tasks in the order of the replies, and the pool's
\* threads take them up in that order.
HashBegins ==
  /\ rx_read_replies # <<>>
  /\ HasherFree
  /\ hashing' = hashing \cup {Head(rx_read_replies)}
  /\ rx_read_replies' = Tail(rx_read_replies)
  /\ ReadersUnchanged
  /\ UNCHANGED <<rx_empty_buffers, returning, nonce_data, handled>>

\* Nonce data is sent for what was read, and for what ends a drive.
HasNonceData(c) == c.read \/ c.finished

\* Mutated: the buffer of a failed read is not returned.
HashEnds_LosesFailed(r) ==
  /\ hashing' = hashing \ {r}
  /\ returning' = IF r.info.read THEN returning \cup {r.buffer} ELSE returning
  /\ IF HasNonceData(r.info)
     THEN /\ Len(nonce_data) < Cardinality(Buffers)
          /\ nonce_data' = Append(nonce_data, r.info)
     ELSE UNCHANGED nonce_data
  /\ ReadersUnchanged
  /\ UNCHANGED <<rx_empty_buffers, rx_read_replies, handled>>

\* blocking_send waits while the channel is full.
HashEnds(r) ==
  /\ hashing' = hashing \ {r}
  /\ returning' = returning \cup {r.buffer}
  /\ IF HasNonceData(r.info)
     THEN /\ Len(nonce_data) < Cardinality(Buffers)
          /\ nonce_data' = Append(nonce_data, r.info)
     ELSE UNCHANGED nonce_data
  /\ ReadersUnchanged
  /\ UNCHANGED <<rx_empty_buffers, rx_read_replies, handled>>

ReturnBuffer(b) ==
  /\ returning' = returning \ {b}
  /\ rx_empty_buffers' = rx_empty_buffers \cup {b}
  /\ ReadersUnchanged
  /\ UNCHANGED <<rx_read_replies, hashing, nonce_data, handled>>

WorkerStep ==
  \/ HashBegins
  \/ \E r \in hashing : HashEnds(r)
  \/ \E b \in returning : ReturnBuffer(b)

HandleNonce ==
  /\ nonce_data # <<>>
  /\ nonce_data' = Tail(nonce_data)
  /\ handled' = handled \cup {Head(nonce_data)}
  /\ ReadersUnchanged
  /\ UNCHANGED <<rx_empty_buffers, rx_read_replies, hashing, returning>>

-----------------------------------------------------------------------------
Next ==
  \/ start_reading \/ stop_reading \/ SetStop
  \/ \E t \in Tasks : ReaderStep(t)
  \/ WorkerStep
  \/ HandleNonce

Spec == Init /\ [][Next]_vars

\* Some reader, some hash task and the handler run when they can.
FairSpec ==
  /\ Spec
  /\ WF_vars(\E t \in Tasks : ReaderStep(t))
  /\ WF_vars(WorkerStep)
  /\ WF_vars(HandleNonce)

-----------------------------------------------------------------------------
(* Properties.                                                              *)

Sending == {t \in Tasks : pc[t] = "send"}
Filled == {reply[t].buffer : t \in Sending}
Queued == {rx_read_replies[i].buffer : i \in 1..Len(rx_read_replies)}
Hashed == {r.buffer : r \in hashing}

\* No buffer is in two places, nor twice in one.
OneHolder ==
  /\ \A t, u \in Sending : reply[t].buffer = reply[u].buffer => t = u
  /\ \A i, j \in 1..Len(rx_read_replies) :
       rx_read_replies[i].buffer = rx_read_replies[j].buffer => i = j
  /\ \A r, s \in hashing : r.buffer = s.buffer => r = s
  /\ LET places == <<rx_empty_buffers, Filled, Queued, Hashed, returning>>
     IN  \A i, j \in 1..5 : i # j => places[i] \cap places[j] = {}

\* Every buffer is in one place: none is lost on any way out of a task, none
\* is filled again while it is hashed (reader.rs:221-260, 297-312,
\* cpu_worker.rs:48-95).  So the channels of buffers, which have room for all
\* of them, never block a sender.
BuffersConserved ==
  /\ rx_empty_buffers \cup Filled \cup Queued \cup Hashed \cup returning = Buffers
  /\ OneHolder

\* The chunks of plot x that t has sent.
Chunks(t, x) == {i \in 1..Len(sent[t]) : sent[t][i].plot = x /\ sent[t][i].read}

\* A task sends the chunks of a plot in order, none twice and none left out,
\* though the plot's offset is shared with the tasks of other scans
\* (reader.rs:210-260, plot.rs:156-208); one that is done has sent all of them,
\* of every plot that can be read.
ReadsInOrder ==
  \A t \in Tasks, x \in Plots :
    /\ {sent[t][i].chunk : i \in Chunks(t, x)} = 0..(Cardinality(Chunks(t, x)) - 1)
    /\ \A i, j \in Chunks(t, x) : i < j => sent[t][i].chunk < sent[t][j].chunk
    /\ pc[t] = "done" /\ <<t[2], x>> \notin PrepareFaults \cup ReadFaults
         => Cardinality(Chunks(t, x)) = ChunkCount[<<t[2], x>>]

\* What t has sent that the handler has not taken.
UnderWay(t) ==
  {c \in {r.info : r \in Range(rx_read_replies) \cup hashing} \cup Range(nonce_data) :
     c.task = t}

\* Once nothing of a task that is done is under way, the handler has had all it
\* read and one end marker; of a task that was stopped no marker ever comes
\* (reader.rs:246-252, cpu_worker.rs:48-95).
ScanIsReported ==
  \A t \in Tasks :
    LET markers == {c \in handled \cup UnderWay(t) : c.task = t /\ c.finished}
        lastFails == <<t[2], PlotCount>> \in PrepareFaults
    IN  /\ pc[t] = "done" /\ ~lastFails => Cardinality(markers) = 1
        /\ pc[t] # "done" => markers = {}
        /\ UnderWay(t) = {} => \A i \in 1..Len(sent[t]) :
             HasNonceData(sent[t][i]) => sent[t][i] \in handled

\* When the handler takes an end marker, fewer chunks of its drive than there are
\* hashing threads are still to come: a pool that hashes replies in any order
\* lets a marker overtake only what its other threads hold (cpu_worker.rs:26-34,
\* 86-93), so what is late for the end of a round is bounded.
MarkerOvertakesFew ==
  \A c \in handled :
    c.finished => Cardinality({d \in UnderWay(c.task) : d.read}) < Hashers

\* Every reader task ends: readers that wait for a thread, a lock or a buffer,
\* hash tasks that wait for the channel and buffers that wait to be returned
\* never all wait for each other.  (Scans are started MaxRuns times at most, so
\* from some moment on no task is left.)
TasksEnd == <>[](\A t \in Tasks : pc[t] \in {"none", "done", "stopped"})
=============================================================================
