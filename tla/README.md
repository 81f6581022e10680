# A verification of anne-miner

anne-miner scans plot files for the nonce with the smallest deadline of each
block and submits it to an annode. This directory holds TLA+ models of how it
reads, hashes, chooses and submits: the tasks that run concurrently, the
arithmetic of plot files, the search for the best deadline and the hash itself,
bit for bit. With them come TLC configurations that check them on small instances
and theorems that the TLAPS prover checks for every instance.

Check a configuration with `tlc -config MCMiner_solo_best.cfg MCMiner`, a proof
module with `tlapm MinerProofs.tla`. `PROJECT.json` lists every run, the mutated
definition each property is able to reject, the source lines behind every
definition, and the hazards the properties are aimed at.

## The system

| Part | Source | State | Operations |
| --- | --- | --- | --- |
| State | `miner.rs` 60-298 | height, block counter, scoop, best deadline per account, `scanning`, `processed_reader_tasks`, `submitted_for_this_block`, `finished_scanning`, mining flags, all under one mutex | `update_mining_info` |
| Poll task | `miner.rs` 745-941 | `SHOULD_STOP_MINING`, `SUBMISSION_SUCCESS` (atomics shared with others) | one tick per interval: ask for mining info, update the state, start or stop the readers |
| Nonce handler | `miner.rs` 943-1197 | `best_nonce_data` | one body per nonce data: compare, retain or submit, count the end of a drive |
| Reader | `reader.rs` | the interrupt channels of the tasks started last; plots behind locks; empty buffers | `start_reading`, `stop_reading`, one task per drive |
| CPU worker | `cpu_worker.rs` | none | one hash task per filled buffer, on a pool |
| GPU workers | `gpu_worker.rs`, `gpu_worker_async.rs`, `ocl.rs` | last buffer, sink, drive count, round flag | one loop over filled buffers and start/end signals |
| Request handler | `requests.rs` | the submission channel, the request under way | `submit_nonce`, the submission loop |
| PrioRetry | `future/prio_retry.rs` | delayed item, timer, heap | `poll_next` |
| Client | `com/client.rs`, `com/api.rs` | none | requests, the order of submissions, parsing |
| Interval | `future/interval.rs` | timer | `poll_next` |
| Plot | `plot.rs` | file handle, read offset | `prepare`, `read`, `overlaps_with` |
| Search | `c/shabal_dispatch.c`, `c/shabal*.c`, `c/common.*` | the implementation chosen, the fast context of each | `find_best_deadline_sph` and six searches |
| Hash | `c/sph_shabal.c`, `c/mshabal_*.c` | a context per hash | open, feed, close; whole-block routines for plotting and mining |
| Hash in Rust, kernel | `shabal256.rs`, `poc_hashing.rs`, `ocl/kernel.cl` | none | scoop of a block; the search on a GPU |
| Configuration, start, logging | `config.rs`, `main.rs`, `logger.rs`, `utils.rs` | none | set-up |

How they interact:

- The poll task and the nonce handler share the state under an async mutex; each
  holds it for its whole body. Everything else about them is message passing.
- The poll task calls the reader, which tells its old tasks to stop through
  channels they only look at after their next read, and starts new ones. The tasks
  also look at `SHOULD_STOP_MINING`.
- A reader task sends each filled buffer to the worker; the worker's hash tasks
  send nonce data to the handler, in any order; the last one of a drive carries the
  drive's end marker. A round is over when the count of markers equals the number
  of drives.
- With GPUs a reader task may get its empty buffer from a GPU worker, to which the
  reply then goes; the workers also get a signal when a scan starts and one when a
  drive ends. The asynchronous worker is always one buffer behind.
- A hash task calls the search, which picks the widest implementation the processor
  has and hashes as many nonces at once as that has lanes.
- The handler sends solutions to the submission task through an unbounded channel,
  which the task also sends retries into. The task answers through
  `SUBMISSION_SUCCESS`, which the poll task reads and clears at its next tick.

What is hard about it: nothing but the height ties a message to a block, so every
delay between two of these parts is a chance to credit something to the wrong
block; the flags that say "scanning", "finished" and "submitted" are written by
both tasks on a dozen paths, several of them early returns; the readers are told to
stop in two ways that neither wait nor acknowledge; a submission may be
answered late, twice, or never; the GPU worker keeps a buffer, a generation signature
and a count of drives across messages of scans that overlap; and the parallel hash
exists in five copies with code paths for every way a message can be cut up.

## What should be true

- Scanning is only said of a block whose readers were started; of the readers that
  were not told to stop there is one per drive, on the block being mined; and a
  block that is done is not read again.
- A scan reads its block's scoop, but for one that the poll which first sees the
  block starts in grace mode.
- A started scan ends; while it lasts there is something left that can end it.
- With `submit_only_best` a block is submitted for at most once, and what is
  submitted is the best found; without it an account's submissions improve.
- A submission is of the block it is sent for; what was not computed from plot data
  is an account's first submission for a block or none.
- The submission task holds each solution once, never sends a worse or older one
  after a better one, loses none that nothing makes up for, and starves none.
- Every buffer is always in one place; a scan reads each chunk of its plots once and
  in order, though an interrupted scan may still hold the plot; a task that was
  started ends; and what it read, with one end marker, reaches the handler.
- A GPU worker hashes each buffer once, with its own data and generation signature.
- Chunks lie in the scoop they are read for and leave nothing out but what the end
  of a sector costs; plots that share nonces are warned about.
- Every search returns the first least deadline of its buffer, whatever the length
  and the processor; the five parallel hashes agree with the scalar one.

## Modules

| Module | What it is |
| --- | --- |
| `Miner` | poll task, nonce handler and shared state in full; readers, hash tasks and request handler as these two can see them |
| `MCMiner` | instances of `Miner`: statuses, deadlines, faults, targets |
| `MinerProofs` | types, reading, no rescan, the scoop; what is submitted, when a round is finished, and that `Miner` keeps its half of `SubmissionQueue`, for every instance |
| `Reader` | reader tasks, plot locks, buffers, hash tasks and the bounded nonce channel in full |
| `MCReader` | instances of `Reader`: plots and faults |
| `ReaderProofs` | types and buffer conservation; what a scan reads, in which order, and what of it reaches the nonce handler, for every instance |
| `SubmissionQueue` | abstract: what the miner and the request handler promise each other |
| `Submissions` | submission task, PrioRetry and the order of submissions in full |
| `MCSubmissions` | an instance of `Submissions` |
| `SubmissionProofs` | types, held once, the implementation of `SubmissionQueue`, and, without reorganisations, improvement and nothing lost |
| `GpuWorker` | synchronous and asynchronous GPU worker in full, with readers that send them buffers and signals |
| `GpuWorkerProofs` | types, the places of a GPU's buffers, and what is hashed and reported, for every number of drives, buffers and scans |
| `MCGpuWorker` | an instance of `GpuWorker`: both workers, faults, second scans |
| `PlotFiles` | which plots are loaded, overlap check, `prepare` and `read` with sizes in bytes |
| `MCPlotFiles` | an instance of `PlotFiles`: plots, buffers, sectors |
| `PlotFilesProofs` | types, where chunks lie, what they leave out, what overlaps, for every instance |
| `Words` | 32-bit words as sets of bits: sums with carry, rotations, comparison |
| `Shabal` | the scalar hash: `sph_shabal.c` |
| `SimdShabal` | the compression and whole-block routines of the parallel hash, for V lanes |
| `SimdStreams` | its streaming functions, for each build |
| `SimdVariants` | its five builds, and what each search does around them |
| `Streams` | messages fed to the parallel and to the scalar hash side by side |
| `MCStreams` | an instance of `Streams`: lengths, lanes left out, endings |
| `SearchHashes` | the hash of each search, and the deadline it is to find |
| `ShabalProofs` | sums of words, and the rounds, closings and groups of the parallel hash against the scalar one, for every input |
| `StreamsProofs` | the streams in step, for every build, message and way to cut it up |
| `FindBest` | the dispatcher and the loop of the six searches, over any hash |
| `MCFindBest` | an instance of `FindBest` over the real hash |
| `FindBestProofs` | what a search returns, for every hash that meets a premise, and that the hash of the code meets it |

### Miner

One action per body: `Poll` is a tick of the poll task from the consumption of
`SUBMISSION_SUCCESS` to the last assignment of the branch taken (`PollNewHeight`,
`PollDone`, `PollSameHeight`), with `update_mining_info` as a function of the state
and the answer. `HandleNonce` is one body of the nonce handler (`HandlerStops`,
`HandlerForgets`, `HandlerTakes`). Both are atomic because the code holds the state
mutex throughout; the store to `SHOULD_STOP_MINING` inside `update_mining_info` is
under it as well, and readers that run between that store and the end of the body
do nothing they could not do before or after it.

A reader task is a record that moves over its plots. Each plot is read in one piece
(`PlotRead`), fails to be read (`ReadFails`) or to be prepared (`PrepareFails`), and
the task ends when it sees its interrupt or the flag (`ReaderStops`). Each task has
an interrupt channel of its own; the reader only keeps the senders of the tasks it
started last, so a start or stop tells these and no earlier ones (`Interrupted`).
What it sends
goes straight into the set of nonce data under way: the hash tasks only add delay
and reordering, which a set has; with `OneHasher` the order within a task is kept.
The deadline found in a plot is a constant function of block, drive and plot; two
resumed scans of one block find the same. An unread last plot makes an end marker
with the largest deadline there is and `hashed = FALSE`.

Answers of the annode are any combination of height, status and target from the
constant sets; polls happen at any moment. With `Reorgs = FALSE` heights do not go
down. Generation signatures are stood for by the block counter, which goes up
exactly when they change.

### Reader

The same tasks, seen from inside. A task waits for a pool thread (`Begin`), looks at
the flag before each plot (`CheckStop`), takes the plot's lock and prepares it
(`LockPlot`), and then reads chunk by chunk (`Read`, `Send`) until the plot is read or
fails to be. Receiving a buffer, filling it and the three tests for a stop are one
step: all that others can do in between is set the flag or send the interrupt, which
is the same as doing it before the step or after the next one; so `Stops` either
leaves the offset or advances it. Sending is a step of its own, since the reply is
then in the task's hands only.

The worker thread does nothing but hand replies to the hashing pool, so its channel
and the pool's queue are one sequence, `rx_read_replies`; the pool takes tasks up in
order and runs `Hashers` of them at a time. A hash task sends its nonce data when
the bounded channel has room (`HashEnds`) and then returns the buffer
(`ReturnBuffer`). `HandleNonce` only takes from the channel; what the handler does
with it is `Miner`'s matter. `start_reading` and `stop_reading` may be called, and
`SHOULD_STOP_MINING` change, at any moment, which covers all that the poll task and
the handler do. Offsets count chunks; sectors and bytes are `PlotFiles`' matter, and
with them a last chunk that direct I/O rounds down to nothing. Replies carry the
scan, drive and chunk in place of nonces.

`Miner` sees a task send one message per plot into a set. `Reader` shows what that
rests on: chunks are not lost or mixed between scans (`ReadsInOrder`), a scan that is
done is reported whole with one marker, one that was stopped without
(`ScanIsReported`), and how far a marker can run ahead (`MarkerOvertakesFew`). That
`Reader` implements that part of `Miner` is not stated as a refinement yet.

### Submissions

`submit_nonce` appends to the channel whatever the contract allows. `TakeItem` is
one turn of `poll_next`'s loop, `Yield` its end when the delay has passed and the
channel is empty; the loop does not await, but between its turns only new items
can arrive, and they are taken in the same loop, so single turns show the same
outcomes. A request ends as `Confirmed`, `Refused`, `TimedOut` or `Retried`; while
it is under way PrioRetry is not polled. Time is the flag `elapsed`. `Less` is the
`Ord` of the code as it is, including that two items of one block with different
generation signatures are each less than the other.

### SubmissionQueue

The contract: solutions are handed over in the order of rounds and improve within
one, are held until confirmed or given up, and never come back. `Miner` implements
it with the set of submissions pending, `Submissions` with what is in the channel,
delayed, or under way. So what is checked of `Miner`, where the request handler is
only a set from which a submission may leave at any time, holds with the real one.

### GpuWorker

One GPU thread. Its loop body is one action by kind of reply: `NothingRead`, `HashNow`
for the synchronous worker; `StartSignal`, `EndSignal`, `FirstBuffer` and `NextBuffer`
for the asynchronous one, with its locals under their names. The sink is a set of at
most one buffer (the channels of buffers are sets: which buffer is taken first makes
no odds), and `FirstBuffer` waits for room in it, as sending to it blocks. Transfer
and hashing run beside each other, so a buffer that is both is hashed before or after
it (`transfer_and_hash`). Hashing is a record of what data and which scan's generation
signature were used. The readers are those of `Reader`, with the chunks of a drive
numbered through its plots (`LastOfPlot`), the choice between a buffer of this GPU and
another worker's, and the signals; here the interrupt is polled in the step of the
read before it. `start_reading` and `stop_reading` tell the tasks of the last scan to
stop, and as polls set and clear `SHOULD_STOP_MINING` at any moment, a task may see it
at any of its tests (`Stops`). `gpu_signal` is 1 for a start and 2 for an end, as in
`BufferInfo`.

### PlotFiles

`scan_plots` and `Plot::new` as a filter over what may lie on a disk, `overlaps_with`
with its wrapping sum modulo `Modulus`, `prepare`, `read` and `round_seek_addr` with
the byte arithmetic of the code. A plot with fewer nonces than a sector makes the
unsigned subtraction at `plot.rs` 183 overflow, which is a panic (`ReadPanics`);
`NotEnoughNonces` is what the constructor warns of. Plots are read one after the
other, each chunk recorded by the byte it starts at, the nonce it is announced with
and its length. The tests of `SHOULD_STOP_MINING` in `scan_plots` are left out, as
only polls set it and these begin when the scan is over. `seek_random` is left out:
only `wakeup` uses it, which nothing calls.

### Words, Shabal, SimdShabal, SimdStreams, SimdVariants

An unsigned number is the set of its one bits, so that exclusive or, complement and
rotation are set operations and a sum is a carry repeated until nothing is left to
carry; TLC's own integers have 32 bits with a sign and stop where a word wraps.
`Shabal` has the names of `sph_shabal.c`: the block buffer, the last rounds with the
same counter, the extra bits, `sph_shabal_hash_fast` and `sph_shabal_deadline_fast`.
The scalar hash starts from a table, the parallel one by hashing two blocks;
`StreamsAgree` compares the two.

Loops are functions of the number of turns (`P[48]`, `all_rounds`). A streaming
function is written once for all builds and calls the compression function of its
build (`compressed`).

The five parallel files are the same text with other intrinsics, which work on each
word of a vector by itself. So a function is written once, for V lanes, and the
functions of a file are those for its number of lanes. The layout of state and input
words over the vectors, the counters all lanes share and the taking apart of results
are kept, as that is where the files could differ. The intrinsics are modelled by
what they compute on a little-endian machine.

### Streams

One context of a build and one scalar context per lane are given the same pieces
(`Feed`), closed with the same last bits (`Close`), and opened again (`Reopen`). Lanes
may be given NULL: their data is then another lane's, and their digest is not asked
for. `Close` also computes the digests by the whole-block routines of both.

### FindBest

`init_shabal_all` picks an implementation once. A search copies that one's fast
context, hashes a group of V nonces while V are left (`HashGroup`), single ones after
that (`HashNonce`), and compares one deadline per step (`SetBestDeadline`). The hashes
are CONSTANT operators, which `MCFindBest` gives the definitions of `SearchHashes`: the
groups of `SimdVariants`, and as the deadline of a nonce the first eight bytes of the
scalar hash, as a stream, of the generation signature and the scoop. The base search
and the tails use `sph_shabal_deadline_fast` instead, so run and theorem relate three
ways to compute a deadline.

## Runs

Passing runs:

| Run | Instance | What it shows |
| --- | --- | --- |
| `solo_best` | SOLO, best only, 2 drives, 2 heights, 3 starts, outages and grace, targets of the annode that change | one reader per drive goes on and reads the block being scanned, one submission per block, the retained solution is the best, finished means every drive's end was counted, no rescan of a done block, a stale scoop only in a scan begun in grace mode |
| `share_each` | SHARE, every better solution, share mining on and off, an account with 2 drives and no target and one with a drive and a target, reads that fail, 2 starts | an account's submissions improve, match the block, do not follow one with a drive's end that has no data, keep the contract |
| `solo_steady` | SOLO, 2 plots per drive, first plots that cannot be prepared, last ones that cannot be read, 1 hash thread, fair | a scan always has work, always ends, and the best deadline of a first scan is submitted |
| `retries` | 1 account, 3 deadlines, 2 blocks, 3 retries, fair | types, held once, nothing lost, requests only improve, nothing starves, the contract |
| `readers` | 1 drive with 2 plots that may fail to be read, the first also to be prepared, 3 buffers, 2 reader threads, 2 hash threads, 2 scans, fair | types, buffers are conserved, chunks in order, scans reported whole, at most one chunk of a drive handled after its marker, every task ends |
| `gpu_rounds` | both workers, 2 drives, one with 2 plots, 2 buffers, a second scan of the same or of another block, other workers, faults, fair | buffers are conserved, each is hashed once with its own data and signature, every task ends |
| `plot_read` | plots of 0 to 20 nonces, pairs that touch, overlap or end at the last nonce, buffers of 1 to 3 sectors of 8 scoops and of 1, 3 and 32 scoops | chunks are placed and tile the scoop, little is left out, only plots warned about panic, the overlap check |
| `find_best` | the real hash, each machine, buffers of 0 to 33 nonces | the first least deadline, the one of the test vector, nothing outside the buffer, contexts kept |
| `streams` | the five builds, pieces of 1, 63 and 65 bytes (up to 3 for SSE2, 2 for the others), all lanes or one, 0 or 3 extra bits | parallel, scalar and whole-block hashes agree |

Two heights and two blocks are enough for every property that relates a message of
one block to the state of the next, three starts for an interrupted scan, its
resumption and the next block's; two drives are the least for which the count of
markers matters, and for which an account submits twice for a block, or has both a
solution and an end without data; two plots are the least for which a fault need not
be at the end. For the readers, two scans are enough for
one to be interrupted by the other, a plot of two chunks for an interrupt between
reads, and two hash threads for a marker to overtake; three buffers, fewer than the
chunks of the two scans, make a reader wait for one. For the GPU
workers, two drives make the count of end signals matter, two plots a stop or a fault
between them, and two buffers are the
least with which the asynchronous worker can go on, as it keeps one. Plots of up to
20 nonces are two and a half sectors of eight; the 2^64 of nonces is `Modulus` = 32,
so that ends of plots reach it. Buffers of up to 33 nonces hold, for each number of
lanes, less than a group, a group with and without a tail and two groups with a tail;
their scoops are one of four, two of them those of the repository's tests. The pieces
end before, at and after a block's end with the buffer empty and not. The bounds
`MaxHeight`, `MaxBlock`, `MaxRuns`, `MaxRetries` and `MaxPieces` are in the guards of
`Poll`, `start_reading` (of `Miner`, `Reader` and, by the heights of a setting,
`GpuWorker`), `NewRound`, `Retried` and `Feed`. `retries`, `gpu_rounds` and
`plot_read` have no deadlock check: the task idles once everything is answered, the
worker once the last scan's messages are handled, and the reading stops with the last
plot. The theorems hold for any bounds.

Runs that find what a line of the repository denies:

| Run | Trace |
| --- | --- |
| `lost_best` | nonce data of height h is still under way when h+1 begins; a solution of h+1 is retained, then the late data arrives and resets `best_nonce_data`; the round finishes with "no result found" |
| `late_success` | a submission for h is confirmed after the poll that saw h+1; the next poll marks h+1 as submitted with nothing sent for it. The readers of h+1 go on and its best is still submitted, but the poll reports the block as done, and would not resume its scan after an interruption |
| `syncing_blip` | h+1 is first seen while the annode is not MINING: the early return leaves `scanning` set, the readers end on the flag, and at the next poll `was_mining` keeps them from being restarted |

Other disagreements the models show, for which no run is kept:

- A block first seen in grace mode while `scanning` is set is read with the previous
  block's scoop, which is only computed past the early return (`miner.rs` 191);
  readers of a new block are started in grace mode (`miner.rs` 787).
  `ScansUseScoop` shows that no other scan is, and that the scan which resumes one of
  these has the right scoop.
- When the last plot of a drive cannot be prepared its end marker is never sent, the
  round never completes and its best solution is never submitted (`reader.rs` 213;
  hence only first plots in `solo_steady`, and `lastFails` in `ScanIsReported`). To a
  GPU no end signal is sent either, so the last buffer is never hashed.
- A pause of share mining marks the block as submitted with nothing sent (`miner.rs`
  973-979). A SHARE miner with `submit_only_best = false` submits later, better
  solutions of the block too, though it logs that it submits the first (`miner.rs`
  1029).
- End markers of an interrupted scan are counted to the resumed scan of the same
  block, which may finish early (hence `~reading.again` in `FinishedIsScanned`, and
  the first scan in `BestIsSubmitted`). With several hash threads an end marker may
  overtake a better solution, which is then not submitted (hence one thread in
  `solo_steady`). An end marker without data passes for a solution when the target is
  u64::MAX, the default; `UnreadIsLastResort` shows that it is submitted only when the
  account has submitted nothing else for the block.
- Nonce data is matched to the state by height alone (`miner.rs` 987). When the annode
  goes back to a height seen before, late data of the first block at that height is
  credited to the second (hence `Reorgs = FALSE` in the runs and in the theorems about
  blocks).
- A solution whose request times out is dropped, and every item waits 3 s, where the
  comment at `client.rs` 32 says the best parameters are always cached and resent
  with an exponential backoff, and PrioRetry's own promises instant delivery of new
  items.
- The asynchronous GPU worker takes a buffer of an interrupted scan that comes after
  the next scan's start signal for the round's first: it uploads the old generation
  signature and hashes the new round with it. An end signal of an interrupted scan of
  the same height is counted to the resumed one: the last buffer is given back early,
  and then either hashed a second time, after it was filled again, or not at all.
  Hence `disturbed`, `late` and `late_end` in `GpuWorker`'s properties.
- In benchmark mode the zero-sized buffers of GPU signals go to the readers as empty
  buffers (`gpu_worker.rs` 36, `gpu_worker_async.rs` 57).
- `overlaps_with` is wrong for plots whose end wraps around u64 (hence `Wraps` in
  `WarnedIsShared`), and with direct I/O a plot of fewer nonces than a sector can
  panic at its first read, though the constructor only warns.
- `sph_shabal.h` 97 and 111 say that closing initialises the context again; in
  `sph_shabal.c` 532 that call is commented out (hence `Reopen`).

## Fairness

`Miner`: the reader tasks and the nonce handler run when they can, as the thread
pool and the executor see to it (`WF` on each as a whole). Nothing is assumed of
the annode or of the answers to submissions: polls may stop for good, and
`RoundEnds` still holds of a scan already started. `Reader`: some reader task, some
hash task and the handler run when one of them can, each group as a whole; that is
less than its threads give, which all run. Nothing makes a caller call or the flag
settle. `GpuWorker`: some reader task runs when one can, and the worker when it has a
reply it can handle. `PlotFiles`, `FindBest` and `Streams` are sequential and only
checked for safety. `Submissions`: the timer fires
and the task runs; a request ends, at the latest by the client's timeout. Retries
are bounded in `retries`, so `IsAttempted` is not about endless failure; what it
shows is that no order of arrivals keeps an item from being sent.

## Proofs

All theorems are about the same definitions TLC checks, for arbitrary constants
satisfying the named assumption of the module (`MinerAssumption`, `ReaderAssumption`,
`SubmissionsAssumption`, `PlotAssumption`, `GpuAssumption`, `StreamParameters`).
`InitialContexts` in `SimdVariants` is not about constants: it is a computation
without parameters, that the first context of each build holds the tables of the
scalar hash, which TLC carries out whenever a module above it is run. It is used as
evaluated; all else about the hash is proved.

- `MinerProofs`. `Typing` rests on what `update_mining_info` does to the record,
  stated as lemmas (`TakeInfoSame`, `TakeInfoNew`, `UpdateSame`, `UpdateNew`) and on
  `PollCases`, which sums a poll up as a new height or the same one. `Steps` sorts
  every step into six kinds; the later proofs only go through these. `ReadingSafe`
  proves `ScanningIsStarted` and `OneRunAtATime`, `NoRescan` the action property. As a
  start tells only the tasks of the one before it, that no earlier one goes on untold
  is an induction over the starts; that the readers not told to stop are on the
  state's block while `scanning` is set is one over the polls and their early returns.
  `ScoopUsed` follows from the form of the two kinds of poll: only `PollNewHeight`
  starts readers with a scoop that `update_mining_info` may not have come to compute.
  In the second half of the module, `AtMostOnce` needs `OnceInv`: a submission with
  `submit_only_best` is made by the marker that finishes the round, and the count does
  not return to that value, as only an unfinished round has its count reset.
  `StrictlyBetter` needs `BestBounds`: what was submitted is no better than what the
  next has to beat. So does `Unread` without `submit_only_best`, as a drive's end
  without data has the largest deadline and beats only an account's empty place
  (`UnreadInv`); with it there is one submission per block to begin with. `Retained`
  needs `Current`: while heights do not go down, everything that carries the state's
  height was made for the state's block; `RoundMatched` says so of the submissions
  alone. `KeepsContract` is `Spec => QueueSpec`: a submission is of the state's block,
  no earlier one is of a later block, and `BestBounds` or the unfinished round give
  the improvement. `OfferedApart` is why letting one submission go removes exactly one
  item of the abstract queue. The rest of the module needs more of the environment,
  which each theorem names:
  - `Finished` assumes `~Reorgs`. The end of a drive is read, under way or counted,
    never two of these (`DrivesInv`); what can still be heard of earlier scans is of
    earlier blocks, unless the block was started again (`RunsInv`); so the count of the
    state is that of the drives counted (`CountInv`), and reaches the number of drives
    only when all are.
  - `HasWork` assumes that and `AlwaysOpen /\ EndsPrepared`: polls always allow
    mining, and sharing for a SHARE miner, and the plot that ends a drive can be
    prepared. Then no reader of the block is interrupted and every drive's end is one
    of the three (`SteadyInv`). Without the first, `syncing_blip` is a counterexample;
    without the second the marker is never sent.
  - `BestSubmitted` holds of every instance without `submit_only_best` (`EachInv`).
    With it, it assumes `Undisturbed`: the above, one hash thread, and one account.
    No data of a drive is then handled after its marker (`OrderInv`), and the best of
    the scan is retained until the last marker submits it (`BestInv`). With two hash
    threads the best can come after the last marker; with two accounts only the
    solution retained last is submitted, as there is one place for it; and of a later
    scan it does not hold, as late data of the scan before can empty that place
    (`lost_best`).
- `ReaderProofs`. `Typing` needs that a plot has one holder (`LockedOnce`) and that a
  holder has not read past its end (`WithinPlot`): an offset read and advanced by
  two tasks would leave its range. `Conserved` states the places of a buffer as five
  sets, any two disjoint, so that every step either moves one buffer from one to the
  next (`Moving`, used at each place by `Turning`) or none; `NotYet`, that the tasks of
  later scans are nowhere, is for the tasks a new scan starts.
  In its second half `ReadOrdered` is inductive with `Progress`: of each plot a
  task has sent the first so many chunks, as many as it has read, and all of them
  when it is past the plot, unless the plot is one that fails. `Reported` adds
  `Traced`, that what was sent is under way or handled and the reverse, and
  `MarkedAtEnd`, that the end marker is the last thing sent. `MarkerOrder` counts
  instead: only what a hash thread held when the marker passed can be overtaken, so
  a chain of `Cardinality` lemmas bounds it by the number of threads.
- `SubmissionProofs`. `Steps` tells the steps by what becomes of the items held.
  `Once` is inductive together with "held items were submitted". `ImplementsQueue`
  maps a new item to `submit_nonce`, an item put aside to `GiveUp`, the end of a
  request to `Confirm` or `GiveUp`, and all else to stutter. `Improvement` needs
  that everything held improves on everything sent; `Kept` that the loser of a
  comparison is made up for by the winner. Both assume `~Reorgs`: with two
  generation signatures for one block number the code's order is no order.
- `ShabalProofs`. The hash is defined by recursive functions, and the prover's library
  has induction only as theorems about an operator. `LeastNat` and `SetInduction` state
  it about sets instead, `BoundedInduction` over 0..n, and `RecursionExists` that a
  function with a recursive equation over 0..n is there; every loop and the sum of
  words, which recurs until nothing is left to carry (`SumExists`), go through these.
  `PlusIsSum` gives the sum by its carries, and as these are unique (`OneCarries`)
  adding and taking away undo each other (`PlusBack`): that is what relates the scalar
  hash, which takes the block off before it swaps B and C, to the parallel one, which
  does both at once and counts up and down again around the closing rounds.
  `PermutationsAgree` compares the 48 steps, `RoundIs`, `MessageBlock` and `FinalBlock`
  one round, `RoundsLanes` the rounds of all lanes over the interleaved layout
  (`LaneOfStored`), `ClosingLanes` the closing ones. `GroupDeadlines` is the group of
  a search: in each lane the scalar deadline of that lane's scoop, and the context
  put back.
- `StreamsProofs`. `StreamsInStep` is `StreamSpec => []StreamsAgree`; its premise
  `BytesGiven` says that messages consist of bytes. `StreamInv` says what a context
  holds without mention of how it was fed: the state after the whole blocks of the
  message so far, and the rest of it in the buffer (`Holds` of a scalar context,
  `VectorHolds` of a lane). `ScalarFeed` and `UpdateHolds` show that a piece of any
  length preserves that - one that ends within, at or after the end of a block, with
  something in the buffer or not - in the lanes that are not NULL, and
  `ScalarClose`, `CloseHolds`, `ScalarFast` and `FastHolds` that the digest is a
  function of it alone, the same one four times. A context of which every lane has been
  left out is not asked for anything.
- `FindBestProofs`. `FindsFirstMinimum`, `StaysInside` and `KeepsContext` hold under
  `HashesRight`: the arguments have their types, `Smaller` orders deadlines, and a
  group started from the fast context returns its nonces' deadlines, lane by lane,
  and that context. `SearchInv` adds to the three properties that the deadlines about
  to be compared are those of the nonces from `at` on (`GroupIsNext`); `OneMore` is
  one comparison. The rest of the module shows that the hash of the code meets the
  premise (`ShabalIsRight`), so that `ShabalFindsFirstMinimum` and
  `ShabalSearchesSafely` are about the searches as they are. `ShabalSearch` only says
  that the constants are those of `SearchHashes`, for scoops and signatures that are
  arbitrary words; the instance of `find_best` is one, with `Words_of` and
  `TestGensig` for `ScoopsOf` and `GensigOf`. `SearchGroups` takes `GroupDeadlines` to
  the five builds; `DeadlineIsHash` says that the scalar deadline is the beginning of
  the streamed hash of signature and scoop, 96 bytes in two pieces; `BelowTotal` and
  `BelowTransitive` that comparing from the highest bit where two numbers differ
  orders them.
- `PlotFilesProofs`. The lemmas on division say what rounding an offset up or a length
  down to a sector leaves (`ModRounded`, `Rounding`). `PlacedInScoop`, `PanicsWarned`
  and `ReadOnce` rest on `PositionFine`, where a plot stands between two reads;
  `OverlapsFound` on `OverlapIsShared`, which is about two intervals of nonces.
  `LeavesLittle`, an action property, needs `StartInv`: all that was read of a plot
  lies behind its rounded start, and something was read right there; the bounds are
  then those of `Rounding` and of the remainder the last read leaves.
- `GpuWorkerProofs`. `Conserved` states the places of a buffer as four sets - empty,
  filled, queued, in the sink - that are disjoint and cover `Buffers` (`Parted`). A
  queue that carries signals too is handled by `Taken` and `Appended`: what it carries
  loses its head, or gains its last, only if that is no signal. `Outcomes` sums up the
  four ways a reply can move buffers, whichever worker and branch takes it, and
  `NotYet` again says that the tasks of later scans hold nothing. `OwnHashed` follows
  the data: what lies in the buffer of a reply under way is the reply's
  (`FilledInv`), and within a round, that is for the asynchronous worker until
  messages of an interrupted scan disturb it (`InRound`), the last buffer is on the
  GPU and nothing else of the scan is in it (`LastInv`, `KeptInv`). That needs that a
  scan's start signal is ahead of all else of it in the channel (`QueueInv`), an end
  signal behind its drive's replies (`BehindInv`), and that the drives counted with
  the end signals waiting are the drives ended (`CountedInv`); `RoundInv` is all of
  these. `RoundHashed` adds that no reply is sent twice (`SentInv`) and, in a scan
  that is not disturbed (`Calm`), that the replies sent are exactly those in the
  channel, the one the worker keeps, and those reported, no two alike (`AccountInv`).
  Counting drives is why `GpuAssumption` has them finite: they are the keys of
  `drive_id_to_plots`.

Only model-checked: the liveness properties (`RoundEnds`, `IsAttempted`, `TasksEnd`),
which need fairness and `ENABLED`, and `WinnerFound`, which compares the search with
the deadline that a test of the repository names. That is evidence that the model is
Shabal, which the theorems about the hash leave open: they relate the hashes of the
code to each other. The three disagreements of the runs that expect a violation are
counterexamples, and nothing is proved of them.

## Not modelled

- An abstract reader that `Miner` and `Reader` both implement, which they do now only
  by argument (see Reader above), and a reader with its plots, locks and GPU routing
  in one: `Reader` and `GpuWorker` each have the part their properties are about,
  since together they are out of TLC's reach.
- Benchmark mode, in which nothing is hashed.
- The OpenCL kernel and the set-up of devices, which need a model of OpenCL's memory
  and of the machine. `HashNow` and `transfer_and_hash` have the order of transfers,
  uploads and kernel runs.
- `shabal256.rs` and `poc_hashing.rs`, a copy of the scalar hash in Rust used for the
  scoop of a block, which is a function of the block in `Miner`; `SSE2NEON.h`, which is
  vendored.
- `wakeup` and `seek_random`, which nothing calls.
- HTTP and JSON, configuration, terminal handling and logging, which have no state
  that steps of others could disturb; `Interval`, since `Miner` lets a poll happen at
  any moment; the listing of directories and device ids by `Miner::new`.
