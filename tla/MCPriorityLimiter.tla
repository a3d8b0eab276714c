------------------------- MODULE MCPriorityLimiter -------------------------
(* Four requests of two priorities compete for one slot and a line of two: *)
(* newcomers overtake, are overtaken, and find the line full.              *)
EXTENDS PriorityLimiterFair

CONSTANTS r1, r2, r3, r4

MCRequests == {r1, r2, r3, r4}
MCPriorities == {3, 5}
=============================================================================
