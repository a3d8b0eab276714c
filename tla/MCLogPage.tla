------------------------------ MODULE MCLogPage ------------------------------
(* Three requests end, the second of them with an error; a page holds one  *)
(* row; the admin token changes once.                                      *)
EXTENDS LogPage

MCInputs == {"all", "errors"}
MCMatches == [f \in MCInputs |-> IF f = "all" THEN 1 .. 4 ELSE {2, 3}]
=============================================================================
