------------------------------ MODULE MCMiner ------------------------------
(* Instances of Miner for TLC. *)
EXTENDS Miner

CONSTANTS d1, d2, d3, a1, a2

live == [live |-> TRUE, mining |-> TRUE, share |-> TRUE]
unshared == [live |-> TRUE, mining |-> TRUE, share |-> FALSE]
grace == [live |-> FALSE, mining |-> TRUE, share |-> TRUE]
syncing == [live |-> TRUE, mining |-> FALSE, share |-> TRUE]

LiveOnly == {live}
Outages == {live, grace, syncing}
SharePauses == {live, unshared}
Syncing == {live, syncing}

OneAccount == [x \in Drives \X Plots |-> a1]
TwoAccounts == [x \in Drives \X Plots |-> IF x[1] = d2 THEN a2 ELSE a1]

\* Different deadlines on different drives and plots, another drive having the
\* best one in the next block; 0 is the best, MaxDeadline the worst.
Rotating == [x \in Blocks \X Drives \X Plots |->
               (x[1] + 2 * x[3] + (CASE x[2] = d1 -> 0 [] x[2] = d2 -> 2 [] OTHER -> 1))
                 % (MaxDeadline + 1)]

NoTarget == [a \in Accounts |-> NoBest]
OneTarget == [a \in Accounts |-> IF a = a1 THEN NoBest ELSE MaxDeadline]
AnyTarget == {NoBest}
ShiftingTarget == {1, NoBest}

NoFaults == {}
OneEach == {d1, d2} \X Plots
FirstPlots == Drives \X {1}
LastPlots == Drives \X {PlotCount}
=============================================================================
