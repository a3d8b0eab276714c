---------------------------- MODULE MCNodeManager ----------------------------
(* One request, over and over, which may wake the machine, beside the      *)
(* monitor, the model sync and the admin API.  What the invariants say of  *)
(* several requests is proved for any number of them.                      *)
EXTENDS NodeManager

CONSTANTS r1

MCRequests == {r1}
=============================================================================
