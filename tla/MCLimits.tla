------------------------------ MODULE MCLimits ------------------------------
(* One key with every kind of limit, over three short days of two months:  *)
(* requests run over midnight and over the end of the month.               *)
EXTENDS Limits, TLC

CONSTANTS r1, r2, r3

MCRequests == {r1, r2, r3}
MCTokenUse == {0, 2}
Symmetric == Permutations(MCRequests)
=============================================================================
