--------------------------- MODULE MCPoolWindows ----------------------------
(* PoolWindows on the regions of MCPool.                                   *)
EXTENDS PoolWindows, MCPool

MCOffset == [p \in MCPage |-> p[2]]

\* A chunk with two pages of its own and half of the one it shares with its
\* neighbour, an aligned third, and a region of one chunk beside them.
WindowsSizes == [r1 |-> <<10, 6, 4>>, r2 |-> <<8>>]
=============================================================================
