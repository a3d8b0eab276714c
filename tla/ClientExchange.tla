---------------------------- MODULE ClientExchange ----------------------------
(***************************************************************************)
(* What the hub promises to a client about one request (docs/01-gate.md,   *)
(* "No silent substitution", and chat.ts:14-20), free of how it is kept:   *)
(* the answer is whole or the client is told; and it is told to ask        *)
(* another model only while it has seen nothing of an answer.              *)
(***************************************************************************)
CONSTANT Requests

VARIABLE seen   \* what the client has seen for each request

(* "elsewhere" is an error that says "fallback": true; "gone", the client  *)
(* left before the end.                                                    *)
Ended == {"complete", "error", "elsewhere", "gone"}

Init == seen = [r \in Requests |-> "none"]

Sees(r, what) == seen' = [seen EXCEPT ![r] = what]

Ask(r) == seen[r] = "none" /\ \E what \in {"waiting", "error", "elsewhere"} : Sees(r, what)

Part(r) == seen[r] = "waiting" /\ Sees(r, "part")

(* Before anything was seen, every end is possible. *)
EndEarly(r) == seen[r] = "waiting" /\ \E what \in Ended : Sees(r, what)

(* After a part, nobody else can go on with the sentence. *)
EndLate(r) == seen[r] = "part" /\ \E what \in Ended \ {"elsewhere"} : Sees(r, what)

Forget(r) == seen[r] \in Ended /\ Sees(r, "none")

Next == \E r \in Requests : Ask(r) \/ Part(r) \/ EndEarly(r) \/ EndLate(r) \/ Forget(r)

Spec == Init /\ [][Next]_seen
=============================================================================
