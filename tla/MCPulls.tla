-------------------------------- MODULE MCPulls --------------------------------
(* Three models, so that two jobs can wait behind a third, and up to five  *)
(* jobs, of whose finished ones a single one is kept.  Nothing tells the   *)
(* models apart.                                                           *)
EXTENDS Pulls, TLC

CONSTANTS m1, m2, m3

MCNames == {m1, m2, m3}
Symmetry == Permutations(MCNames)
=============================================================================
