----------------------------- MODULE MCAgentWork -----------------------------
(* Two models, each asked for once or one of them twice, of whose finished *)
(* jobs one is kept; one request beside the downloads; two processes.      *)
EXTENDS AgentWork

CONSTANTS m1, m2, run, q1

MCNames == {m1, m2}
MCCallers == {run, q1}
=============================================================================
