---------------------------- MODULE TrayBlocker ----------------------------
(***************************************************************************)
(* The tray on Windows holds a person's shutdown back while the agent is   *)
(* busy: it polls the agent's /health (tray/src/index.js) and starts and   *)
(* ends a helper program (shutdown-block.js).  Composed with the guard and *)
(* its work (AgentPower), whose steps it watches from outside.             *)
(*                                                                         *)
(* A poll is one step: what happens to the helper between its question and *)
(* its answer does not depend on it, so an answer that is late is an       *)
(* answer to an earlier question.  When the machine is up, so is the tray. *)
(***************************************************************************)
EXTENDS AgentPower

CONSTANTS
  Helpers,    \* processes; the name of one that is gone is used again
  None

ASSUME BlockerAssumption == None \notin Helpers

VARIABLES
  isBlocking, blockerProcess,   \* the tray's bookkeeping
  running,    \* helper processes that run
  exits,      \* helpers whose 'exit' or 'error' event is still to be handled
  unkilled,   \* history: helpers that run on because killing them failed
  forgotten   \* history: helpers that run on and whose record another one's exit wiped

lost == <<unkilled, forgotten>>
helper == <<isBlocking, blockerProcess, running, exits, lost>>
allVars == <<powerVars, helper>>

NoHelper ==
  /\ isBlocking = FALSE /\ blockerProcess = None
  /\ running = {} /\ exits = {} /\ unkilled = {} /\ forgotten = {}

BlockerInit == PowerInit /\ NoHelper

\* A likely mistake: the helper is started at every busy answer.
EnableAgain ==
  \E h \in Helpers \ (running \cup exits) :
     /\ isBlocking' = TRUE /\ blockerProcess' = h
     /\ running' = running \cup {h} /\ UNCHANGED <<exits, lost>>

(* enableShutdownBlock(): the helper is started, or the process cannot be  *)
(* made and says so in an event, or there is no program to start.          *)
EnableShutdownBlock ==
  \/ /\ isBlocking
     /\ UNCHANGED helper
  \/ /\ ~isBlocking
     /\ \E h \in Helpers \ (running \cup exits) :
          /\ isBlocking' = TRUE /\ blockerProcess' = h
          /\ \/ running' = running \cup {h} /\ UNCHANGED exits
             \/ exits' = exits \cup {h} /\ UNCHANGED running
          /\ UNCHANGED lost
  \/ UNCHANGED helper

\* A likely mistake: the helper is forgotten before it is killed.
ForgetHelper ==
  IF ~isBlocking \/ blockerProcess = None THEN UNCHANGED helper
  ELSE isBlocking' = FALSE /\ blockerProcess' = None /\ UNCHANGED <<running, exits, lost>>

(* kill() ends the helper, whose exit is heard later (one that has ended   *)
(* by itself is left as it is), or fails: it throws, or sends an 'error'   *)
(* event there and then, and the helper runs on.                           *)
KillHelper(h) ==
  \/ /\ running' = running \ {h}
     /\ exits' = exits \cup (running \cap {h})
     /\ UNCHANGED lost
  \/ /\ h \in running
     /\ unkilled' = unkilled \cup {h}
     /\ UNCHANGED <<running, exits, forgotten>>

(* disableShutdownBlock(): the helper is given up, killed or not.          *)
DisableShutdownBlock ==
  \/ /\ ~isBlocking \/ blockerProcess = None
     /\ UNCHANGED helper
  \/ /\ isBlocking /\ blockerProcess # None
     /\ KillHelper(blockerProcess)
     /\ isBlocking' = FALSE /\ blockerProcess' = None

(* The agent's answer is handled, which needs an agent that runs. *)
PollHears ==
  /\ Up
  /\ IF Busy THEN EnableShutdownBlock ELSE DisableShutdownBlock
  /\ UNCHANGED powerVars

(* No answer within three seconds, or an error: the agent counts as idle. *)
PollFails ==
  /\ Up
  /\ DisableShutdownBlock
  /\ UNCHANGED powerVars

(* A helper ends by itself, or somebody ends it. *)
HelperDies(h) ==
  /\ h \in running
  /\ running' = running \ {h} /\ exits' = exits \cup {h}
  /\ unkilled' = unkilled \ {h} /\ forgotten' = forgotten \ {h}
  /\ UNCHANGED <<powerVars, isBlocking, blockerProcess>>

(* The 'exit' or 'error' event of a helper, whichever it is: the record is *)
(* wiped even when it is of another helper, which then runs on unknown.    *)
HearExit(h) ==
  /\ h \in exits
  /\ exits' = exits \ {h}
  /\ isBlocking' = FALSE /\ blockerProcess' = None
  /\ forgotten' = forgotten \cup (running \cap {blockerProcess})
  /\ UNCHANGED <<powerVars, running, unkilled>>

(* A tray that ends takes its helpers along (children of a Node process on *)
(* Windows), as the machine does.                                          *)
HelpersEnd ==
  /\ isBlocking' = FALSE /\ blockerProcess' = None
  /\ running' = {} /\ exits' = {} /\ unkilled' = {} /\ forgotten' = {}

TrayRestarts == TrayRestart /\ HelpersEnd

AgentStep ==
  /\ PowerStep
  /\ IF os' = "off" THEN HelpersEnd ELSE UNCHANGED helper

BlockerNext ==
  \/ AgentStep
  \/ TrayRestarts
  \/ PollHears
  \/ PollFails
  \/ \E h \in Helpers : HelperDies(h) \/ HearExit(h)

BlockerSpec == BlockerInit /\ [][BlockerNext]_allVars

(* The tray polls on a timer; the calls end as in AgentPower. *)
FairBlockerSpec ==
  /\ BlockerSpec
  /\ \A c \in Calls : WF_allVars(CallFinishes(c) /\ UNCHANGED helper)
  /\ WF_allVars(PollHears)

-----------------------------------------------------------------------------
(* The tray loses sight of a helper that runs in two ways only: it could   *)
(* not kill it (shutdown-block.js:80), or the exit of another helper, dead *)
(* before this one was started, was heard after it (shutdown-block.js:57). *)
(* Of all others it knows the one that runs, and there is at most one; no  *)
(* exit that is still to be heard is of a helper that runs.                *)
BlockerKnown ==
  /\ running \subseteq Helpers /\ exits \subseteq Helpers
  /\ isBlocking \in BOOLEAN
  /\ isBlocking <=> blockerProcess # None
  /\ unkilled \cup forgotten \subseteq running \ {blockerProcess}
  /\ running \subseteq {blockerProcess} \cup unkilled \cup forgotten
  /\ exits \cap running = {}

(* A block does not outlast the work: when the agent stays idle, the only  *)
(* helpers that run in the end are those the tray has lost in one of the   *)
(* two ways; that it loses one keeps it from ending none of the others.    *)
BlockEnds == <>[](~Busy /\ Up) => <>[](running \subseteq unkilled \cup forgotten)
=============================================================================
