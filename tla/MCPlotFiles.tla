---------------------------- MODULE MCPlotFiles ----------------------------
(* An instance of PlotFiles for TLC. *)
EXTENDS PlotFiles

Plot(a, s, n) ==
  [account_id |-> a, start_nonce |-> s, nonces |-> n, size |-> n * NONCE_SIZE]

\* One plot of any number of nonces up to five sectors of eight; pairs that
\* touch, overlap, enclose each other or end at the last nonce, of one account
\* and of two; a plot cut short, and one of somebody else's.
OnePlot == {<<Plot(1, 7, n)>> : n \in 0..20}
Pairs ==
  {<<Plot(1, 16, 8), Plot(a, s, n)>> :
     a \in {1, 2}, s \in {0, 8, 15, 16, 18, 23, 24, 27}, n \in {1, 5, 8, 16}}
Others ==
  {<<[Plot(1, 8, 16) EXCEPT !.size = @ - 1], Plot(1, 12, 8)>>,
   <<Plot(1, 8, 16), Plot(3, 8, 8), Plot(1, 12, 16), Plot(2, 0, 9)>>}
MCDisks == OnePlot \cup Pairs \cup Others
MCFiles == UNION {{found[k] : k \in 1..Len(found)} : found \in MCDisks}

\* Buffers of one and of a few scoops; of one, two and three sectors.
MCSettings ==
  {[direct_io |-> FALSE, sector_size |-> 512, capacity |-> k * 64] : k \in {1, 3, 32}}
  \cup
  {[direct_io |-> TRUE, sector_size |-> 512, capacity |-> k * 512] : k \in {1, 2, 3}}

\* Even and odd ones, so that a scoop starts anywhere in a sector.
MCScoops == {0, 1, 5, 4095}
=============================================================================
