------------------------------- MODULE AgentWork -------------------------------
(***************************************************************************)
(* The downloads of the agent and the engine they need, together: run()    *)
(* is one of the callers of ensureRunning(), the proxied requests and the  *)
(* routes are the others, and the end of the agent ends both (server.ts).  *)
(***************************************************************************)
EXTENDS Pulls, Engine

CONSTANT Puller   \* the caller that stands for run()

ASSUME PullerAssumption == Puller \in Callers

vars == <<pullsVars, engineVars>>

Init == PullsInit /\ EngineInit

(* run() begins for a job: it asks for the engine. *)
Begins == current' # current /\ current' # 0

(* A step of the downloads that does not come from the engine's start. *)
PullsMove ==
  /\ Working
  /\ (\E name \in Names : StartPull(name)) \/ (\E i \in Ids : Cancel(i)) \/ PullStep
  /\ IF Begins THEN Ensure(Puller) /\ UNCHANGED engineRest ELSE UNCHANGED engineVars

(* A request or a route asks for the engine. *)
RequestAsks(c) ==
  /\ c # Puller
  /\ Ensure(c)
  /\ UNCHANGED <<engineRest, pullsVars>>

(* The engine's start ends.  run() goes on, and may ask anew for the next  *)
(* job before anybody else does anything.                                  *)
StartEnds ==
  \E again \in SUBSET {Puller} :
    /\ \/ Answered(again) /\ (IF Puller \in awaiting THEN EngineReady ELSE UNCHANGED pullsVars)
       \/ Failed(again) /\ (IF Puller \in awaiting THEN EngineFails ELSE UNCHANGED pullsVars)
    /\ again = IF Begins THEN {Puller} ELSE {}

Next ==
  \/ PullsMove
  \/ \E c \in Callers : RequestAsks(c)
  \/ StartEnds
  \/ Spawn /\ UNCHANGED pullsVars
  \/ ProcessStep /\ UNCHANGED pullsVars
  \/ Close /\ AbortAll
  \/ Stop /\ UNCHANGED pullsVars
  \/ Gone /\ UNCHANGED pullsVars

Spec == Init /\ [][Next]_vars

(* The engine's start has a deadline, a download that is silent runs into  *)
(* the stall timer, and an aborted connection is given up; so does a       *)
(* download that goes on, because its progress is finite.                  *)
FairSpec ==
  /\ Spec
  /\ WF_vars(StartEnds)
  /\ WF_vars(PullsMove /\ (Stall \/ PullAborted))

-----------------------------------------------------------------------------
(* run() waits for the engine exactly while it is one of the callers. *)
RunWaits == agent # "gone" => (phase = "engine" <=> Puller \in awaiting)

WorkInv == PullsInv /\ EngineInv /\ RunWaits

(* Every download ends, whatever the engine does, cancelled or not: none   *)
(* keeps the machine busy for ever.                                        *)
EveryDownloadEnds ==
  \A i \in 1..MaxStarts : (i \in Unfinished /\ agent = "up") ~> (i \notin Unfinished \/ agent # "up")

(* Whoever waits for the engine hears of it, one way or the other. *)
CallersAnswered == \A c \in Callers : c \in awaiting ~> c \notin awaiting
=============================================================================
