------------------------------ MODULE MCEditors ------------------------------
(* One provider with one model, or one key, in every state the editors     *)
(* tell apart; two edits in a dialog, so that a scheme and its header, or  *)
(* an idle time and an address, can be changed together; one change by     *)
(* others and one lost call.                                               *)
EXTENDS Editors
=============================================================================
