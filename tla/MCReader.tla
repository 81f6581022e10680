----------------------------- MODULE MCReader ------------------------------
(* Instances of Reader for TLC. *)
EXTENDS Reader

CONSTANTS d1, d2, b1, b2, b3

\* Drive d1's last plot takes two reads, every other one.
OneThenTwo == [x \in Drives \X Plots |-> IF x = <<d1, PlotCount>> THEN 2 ELSE 1]

FirstPlots == Drives \X {1}
AllPlots == Drives \X Plots
=============================================================================
