----------------------------- MODULE MCRequestRun -----------------------------
(* Two requests and one slot of a machine that sleeps.                     *)
EXTENDS RequestRun

CONSTANTS r1, r2

MCRequests == {r1, r2}
=============================================================================
