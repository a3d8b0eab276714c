------------------------------ MODULE MCAccess ------------------------------
(* Three addresses of which two are remembered, one key, one restart.      *)
EXTENDS Access

CONSTANTS a1, a2, a3, k1

MCAddresses == {a1, a2, a3}
MCIds == {k1}
Symmetric == Permutations(MCAddresses)
=============================================================================
