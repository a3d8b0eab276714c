-------------------------------- MODULE Engine --------------------------------
(***************************************************************************)
(* The agent and the Ollama it may have started: ensureRunning(), start()  *)
(* and stop() of agent/src/ollama.ts, the child processes of               *)
(* ollama-process.ts, and the way the agent ends (index.ts, server.ts).    *)
(*                                                                         *)
(* Whoever listens on the engine's address answers the health check, be it *)
(* a child of the agent, a child it has forgotten or an Ollama of somebody *)
(* else; any of them may also be too busy to answer in time.               *)
(***************************************************************************)
EXTENDS Integers, FiniteSets

CONSTANTS
  Callers,    \* callers of ensureRunning(): requests, routes, the download in progress
  MaxSpawns   \* bound: child processes over the life of the agent

ASSUME EngineAssumption == MaxSpawns \in Nat

VARIABLES
  agent,     \* "up", "closing" (app.close() waits), "stopped" (engine told to stop) or "gone"
  start,     \* the run behind `starting`: "none" (null), "checking" or "polling" its child
  awaiting,  \* the callers that wait for it
  spawned,   \* number of processes spawned; they are named 1, 2, ...
  child,     \* this.child
  alive,     \* the processes that run
  killed,    \* those that have been sent SIGTERM or taskkill
  exitSeen,  \* those whose exit event has been handled
  listener   \* who listens on the engine's address

starting == <<start, awaiting>>
processes == <<alive, listener>>
engineRest == <<agent, spawned, child, processes, killed, exitSeen>>
engineVars == <<agent, starting, spawned, child, processes, killed, exitSeen>>

Nobody == -1   \* no listener; as `child`: null
Other == 0     \* an Ollama that the agent has not started
Children == 1..spawned

Working == agent \in {"up", "closing"}

-----------------------------------------------------------------------------
EngineInit ==
  /\ agent = "up"
  /\ start = "none" /\ awaiting = {}
  /\ spawned = 0 /\ child = Nobody /\ killed = {} /\ exitSeen = {}
  /\ \/ alive = {} /\ listener = Nobody
     \/ alive = {Other} /\ listener = Other

(* ensureRunning(): the first caller begins a start, the others share it. *)
Ensure(c) ==
  /\ Working /\ c \notin awaiting
  /\ awaiting' = awaiting \cup {c}
  /\ start' = IF start = "none" THEN "checking" ELSE start

(* The start has ended, and `starting` is null again; the callers go on,   *)
(* and those of `again` ask anew at once.                                  *)
Settled(again) ==
  /\ awaiting' = again
  /\ start' = IF again = {} THEN "none" ELSE "checking"

(* The first health check: somebody answers already. *)
Adopt(again) ==
  /\ start = "checking" /\ listener # Nobody
  /\ Settled(again)
  /\ UNCHANGED engineRest

(* It fails, and the agent must not or cannot start an engine. *)
MayNotStart(again) ==
  /\ start = "checking"
  /\ Settled(again)
  /\ UNCHANGED engineRest

(* It fails, and the agent starts one. *)
Spawn ==
  /\ start = "checking" /\ spawned < MaxSpawns
  /\ spawned' = spawned + 1 /\ child' = spawned + 1
  /\ alive' = alive \cup {spawned + 1}
  /\ start' = "polling"
  /\ UNCHANGED <<agent, awaiting, killed, exitSeen, listener>>

(* The new child, or whoever was there first, answers. *)
Ready(again) ==
  /\ start = "polling" /\ listener # Nobody
  /\ Settled(again)
  /\ UNCHANGED engineRest

ChildFailed(again) ==
  /\ start = "polling" /\ spawned \in exitSeen
  /\ Settled(again)
  /\ UNCHANGED engineRest

(* killProcess(): nothing to do for a process known to have ended. *)
Kill(p) == killed' = IF p \in Children \ exitSeen THEN killed \cup {p} ELSE killed

(* A likely mistake: the loop ends only with the child. *)
StartWaitsForChild(again) ==
  /\ start = "polling" /\ spawned \in exitSeen
  /\ child' = Nobody
  /\ Settled(again)
  /\ UNCHANGED <<agent, spawned, processes, killed, exitSeen>>

(* startTimeoutMs are over. *)
StartTimesOut(again) ==
  /\ start = "polling"
  /\ Kill(spawned)
  /\ child' = Nobody
  /\ Settled(again)
  /\ UNCHANGED <<agent, spawned, processes, exitSeen>>

-----------------------------------------------------------------------------
(* The processes. *)

(* A likely mistake: whatever child ends, the agent has none any more. *)
AnyExit(p) ==
  /\ agent # "gone"
  /\ p \in Children \ (alive \cup exitSeen)
  /\ exitSeen' = exitSeen \cup {p}
  /\ child' = Nobody
  /\ UNCHANGED <<agent, starting, spawned, processes, killed>>

(* The exit event of a child. *)
Exit(p) ==
  /\ agent # "gone"
  /\ p \in Children \ (alive \cup exitSeen)
  /\ exitSeen' = exitSeen \cup {p}
  /\ child' = IF child = p THEN Nobody ELSE child
  /\ UNCHANGED <<agent, starting, spawned, processes, killed>>

Listen(p) ==
  /\ p \in alive /\ listener = Nobody
  /\ listener' = p
  /\ UNCHANGED <<agent, starting, spawned, child, alive, killed, exitSeen>>

(* It crashes, gives up because the address is taken, or has been killed. *)
Die(p) ==
  /\ p \in alive
  /\ alive' = alive \ {p}
  /\ listener' = IF listener = p THEN Nobody ELSE listener
  /\ UNCHANGED <<agent, starting, spawned, child, killed, exitSeen>>

(* Somebody else starts an Ollama. *)
OtherStarts ==
  /\ Other \notin alive /\ listener = Nobody
  /\ alive' = alive \cup {Other} /\ listener' = Other
  /\ UNCHANGED <<agent, starting, spawned, child, killed, exitSeen>>

ProcessStep ==
  \/ \E p \in Children : Exit(p) \/ Listen(p)
  \/ \E p \in 0..spawned : Die(p)
  \/ OtherStarts

-----------------------------------------------------------------------------
(* The end of the agent. *)

Close ==
  /\ agent = "up" /\ agent' = "closing"
  /\ UNCHANGED <<starting, spawned, child, processes, killed, exitSeen>>

(* app.close() is done: stop(). *)
Stop ==
  /\ agent = "closing" /\ agent' = "stopped"
  /\ Kill(child)
  /\ child' = Nobody
  /\ UNCHANGED <<starting, spawned, processes, exitSeen>>

(* process.exit(), after stop() or because closing took ten seconds. *)
Gone ==
  /\ agent \in {"closing", "stopped"} /\ agent' = "gone"
  /\ start' = "none" /\ awaiting' = {}
  /\ UNCHANGED <<spawned, child, processes, killed, exitSeen>>

Answered(again) == Adopt(again) \/ Ready(again)

Failed(again) == MayNotStart(again) \/ ChildFailed(again) \/ StartTimesOut(again)

EngineNext ==
  \/ \E c \in Callers :
       Ensure(c) /\ UNCHANGED engineRest
  \/ \E again \in SUBSET awaiting : Answered(again) \/ Failed(again)
  \/ Spawn
  \/ ProcessStep
  \/ Close \/ Stop \/ Gone

EngineSpec == EngineInit /\ [][EngineNext]_engineVars

-----------------------------------------------------------------------------
EngineTypeOK ==
  /\ agent \in {"up", "closing", "stopped", "gone"}
  /\ start \in {"none", "checking", "polling"} /\ awaiting \in SUBSET Callers
  /\ spawned \in 0..MaxSpawns /\ child \in Int
  /\ alive \in SUBSET (0..spawned) /\ killed \in SUBSET Children /\ exitSeen \in SUBSET Children
  /\ listener \in alive \cup {Nobody}

(* Nobody waits for a start that is over. *)
WaitersHaveStart == awaiting # {} => start # "none"

(* The process a start polls for is the latest one. *)
PollsItsChild == start = "polling" => spawned \in Children

(* What the agent holds is a process it started last and has neither       *)
(* killed nor seen end, and that one it never loses sight of: the exit of  *)
(* an earlier process does not make it forget the later one.               *)
KnowsItsChild ==
  /\ child # Nobody => child = spawned /\ child \in Children \ (killed \cup exitSeen)
  /\ (spawned \in Children \ (killed \cup exitSeen) /\ agent # "gone") => child = spawned
  /\ \A p \in exitSeen : p \notin alive

EngineInv ==
  /\ EngineTypeOK
  /\ WaitersHaveStart
  /\ PollsItsChild
  /\ KnowsItsChild
=============================================================================
