---------------------------- MODULE MCGpuWorker ----------------------------
(* An instance of GpuWorker for TLC. *)
EXTENDS GpuWorker

CONSTANTS d1, d2, b1, b2

\* Drive d1 has two plots, d2 one, and each plot takes one read.
TwoAndOne == [d \in Drives |-> IF d = d1 THEN 2 ELSE 1]
OneEach == [d \in Drives |-> IF d = d1 THEN <<1, 2>> ELSE <<1>>]

Setting(gpu_async, other_workers, heights, faults) ==
  [gpu_async |-> gpu_async, other_workers |-> other_workers,
   heights |-> heights, faults |-> faults]

\* Both workers; a second scan of the same block or of the next; one scan with
\* failures on both drives and other workers.
SomeSettings ==
  {Setting(TRUE, FALSE, <<1, 1>>, {d2}), Setting(TRUE, FALSE, <<1, 2>>, {}),
   Setting(TRUE, TRUE, <<1>>, {d1, d2}), Setting(FALSE, FALSE, <<1, 2>>, {}),
   Setting(FALSE, TRUE, <<1>>, {d1, d2})}
=============================================================================
