--------------------------- MODULE MCTrayBlocker ---------------------------
(* A shutdown call at a time, a request and a download, two helpers.       *)
EXTENDS TrayBlocker

CONSTANTS q1, d1, c1, h1, h2

MCRequests == {q1}
MCDownloads == {d1}
MCCalls == {c1}
MCHelpers == {h1, h2}
=============================================================================
