----------------------------- MODULE AgentPower -----------------------------
(***************************************************************************)
(* Switching a machine off: the agent's guard (agent/src/power.ts), the    *)
(* work it looks at (activity.ts, proxy.ts, pulls.ts), and the tray it     *)
(* asks (tray/src/ipc.js).                                                 *)
(*                                                                         *)
(* A call of Power.shutdown() has two waits, for the tray's verdict and    *)
(* for the operating system's command; every other part of it runs in one  *)
(* callback.  Between the waits requests, downloads, people and other      *)
(* calls go on.                                                            *)
(***************************************************************************)
EXTENDS FiniteSets

CONSTANTS
  Requests,   \* requests the agent may be proxying
  Downloads,  \* downloads that may be queued or running
  Calls       \* shutdown calls that may overlap

VARIABLES
  trayUrl,       \* MINDGATE_TRAY_URL is set
  inFlight,      \* requests Activity counts
  downloading,   \* jobs pulls.active counts
  userActive,    \* what the tray last told the agent
  shuttingDown,
  call,          \* the shutdown calls
  toggle,        \* tray: "don't shut down this computer"
  recentInput,   \* tray: idle time below idle_threshold_seconds
  reports,       \* what the tray reports on their way say (concurrent HTTP requests)
  os,            \* "on", "scheduled" (shutdown command accepted) or "off"
  cancelled      \* history: a person called a shutdown off while this agent ran

work == <<inFlight, downloading>>
tray == <<toggle, recentInput, reports>>
powerVars == <<trayUrl, work, userActive, shuttingDown, call, tray, os, cancelled>>

Busy == inFlight # {} \/ downloading # {}

(* A call: "asking" waits for the tray, "heard" has the tray's verdict on  *)
(* its way back, "exec" waits for the system command.  `consent`: the tray *)
(* said yes to this call.  `executed`: this call issued the command.       *)
Stages == {"none", "asking", "heard", "exec", "answered"}
NoCall == [stage |-> "none", force |-> FALSE, verdict |-> FALSE, consent |-> FALSE,
           executed |-> FALSE, allow |-> FALSE]

Up == os # "off"

-----------------------------------------------------------------------------
(* The ways a call ends or goes on.                                        *)

Answer(c, allow) ==
  call' = [call EXCEPT ![c].stage = "answered", ![c].allow = allow]

Execute(c) ==
  call' = [call EXCEPT ![c].stage = "exec", ![c].executed = TRUE]

-----------------------------------------------------------------------------
PowerInit ==
  /\ trayUrl \in BOOLEAN
  /\ inFlight = {} /\ downloading = {}
  /\ userActive = FALSE /\ shuttingDown = FALSE
  /\ call = [c \in Calls |-> NoCall]
  /\ toggle = FALSE /\ recentInput \in BOOLEAN /\ reports = {}
  /\ os = "on" /\ cancelled = FALSE

(* The proxy takes a request: no part of it looks at shuttingDown. *)
BeginRequest(q) ==
  /\ Up /\ q \notin inFlight
  /\ inFlight' = inFlight \cup {q}
  /\ UNCHANGED <<trayUrl, downloading, userActive, shuttingDown, call, tray, os, cancelled>>

EndRequest(q) ==
  /\ q \in inFlight
  /\ inFlight' = inFlight \ {q}
  /\ UNCHANGED <<trayUrl, downloading, userActive, shuttingDown, call, tray, os, cancelled>>

StartDownload(d) ==
  /\ Up /\ d \notin downloading
  /\ downloading' = downloading \cup {d}
  /\ UNCHANGED <<trayUrl, inFlight, userActive, shuttingDown, call, tray, os, cancelled>>

EndDownload(d) ==
  /\ d \in downloading
  /\ downloading' = downloading \ {d}
  /\ UNCHANGED <<trayUrl, inFlight, userActive, shuttingDown, call, tray, os, cancelled>>

(* shutdown(): everything up to its first wait. *)
Ask(c, force) ==
  /\ Up /\ call[c].stage = "none"
  /\ LET new == [NoCall EXCEPT !.force = force]
     IN  call' = [call EXCEPT ![c] =
           IF shuttingDown THEN [new EXCEPT !.stage = "answered", !.allow = TRUE]
           ELSE IF force THEN [new EXCEPT !.stage = "exec", !.executed = TRUE]
           ELSE IF Busy THEN [new EXCEPT !.stage = "answered"]
           ELSE IF trayUrl THEN [new EXCEPT !.stage = "asking"]
           ELSE IF userActive THEN [new EXCEPT !.stage = "answered"]
           ELSE [new EXCEPT !.stage = "exec", !.executed = TRUE]]
  /\ UNCHANGED <<trayUrl, work, userActive, shuttingDown, tray, os, cancelled>>

(* The tray evaluates its conditions and sends its verdict. *)
TrayDecides(c) ==
  /\ call[c].stage = "asking"
  /\ LET yes == ~toggle /\ ~recentInput
     IN  call' = [call EXCEPT ![c].stage = "heard", ![c].verdict = yes, ![c].consent = yes]
  /\ UNCHANGED <<trayUrl, work, userActive, shuttingDown, tray, os, cancelled>>

(* The verdict arrives. *)
HearVerdict(c) ==
  /\ call[c].stage = "heard"
  /\ IF call[c].verdict THEN Execute(c) ELSE Answer(c, FALSE)
  /\ UNCHANGED <<trayUrl, work, userActive, shuttingDown, tray, os, cancelled>>

(* A likely mistake: with no answer the agent goes by its own checks. *)
TrayTimesOutToYes(c) ==
  /\ call[c].stage \in {"asking", "heard"}
  /\ IF userActive THEN Answer(c, FALSE) ELSE Execute(c)
  /\ UNCHANGED <<trayUrl, work, userActive, shuttingDown, tray, os, cancelled>>

(* A likely mistake: the call to the tray has no deadline. *)
TrayNeverTimesOut(c) == FALSE /\ UNCHANGED powerVars

(* No usable answer within five seconds: tray_unreachable. *)
TrayUnreachable(c) ==
  /\ call[c].stage \in {"asking", "heard"}
  /\ Answer(c, FALSE)
  /\ UNCHANGED <<trayUrl, work, userActive, shuttingDown, tray, os, cancelled>>

(* The command ends.  It succeeds, or it fails; one that is killed after   *)
(* 15 seconds counts as failed although the system may have taken it.      *)
CommandEnds(c, ok, effect) ==
  /\ call[c].stage = "exec"
  /\ ok => effect
  /\ os' = IF effect THEN "scheduled" ELSE os
  /\ shuttingDown' = (shuttingDown \/ ok)
  /\ Answer(c, ok)
  /\ UNCHANGED <<trayUrl, work, userActive, tray, cancelled>>

(* The caller has its answer; the name is free for another call. *)
CallOver(c) ==
  /\ call[c].stage = "answered"
  /\ call' = [call EXCEPT ![c] = NoCall]
  /\ UNCHANGED <<trayUrl, work, userActive, shuttingDown, tray, os, cancelled>>

(* The tray's menu item: setUserToggle() reports the change at once. *)
SetToggle(on) ==
  /\ toggle' = on
  /\ reports' = reports \cup {on}
  /\ UNCHANGED <<trayUrl, work, userActive, shuttingDown, call, recentInput, os, cancelled>>

(* checkUserActivity(): input switches the toggle on, and reports it. *)
NoticeUser ==
  /\ ~toggle /\ recentInput
  /\ toggle' = TRUE
  /\ reports' = reports \cup {TRUE}
  /\ UNCHANGED <<trayUrl, work, userActive, shuttingDown, call, recentInput, os, cancelled>>

(* The periodic report. *)
Report ==
  /\ reports' = reports \cup {toggle}
  /\ UNCHANGED <<trayUrl, work, userActive, shuttingDown, call, toggle, recentInput, os, cancelled>>

(* A report reaches the agent, after and before others in any order. *)
HearReport(active) ==
  /\ Up /\ active \in reports
  /\ reports' = reports \ {active}
  /\ userActive' = active
  /\ UNCHANGED <<trayUrl, work, shuttingDown, call, toggle, recentInput, os, cancelled>>

LoseReport(active) ==
  /\ active \in reports
  /\ reports' = reports \ {active}
  /\ UNCHANGED <<trayUrl, work, userActive, shuttingDown, call, toggle, recentInput, os, cancelled>>

(* Somebody touches the keyboard, or has not for the threshold. *)
UserComesOrGoes ==
  /\ recentInput' = ~recentInput
  /\ UNCHANGED <<trayUrl, work, userActive, shuttingDown, call, toggle, reports, os, cancelled>>

(* The tray is started anew; it does not remember the toggle. *)
TrayRestart ==
  /\ Up
  /\ toggle' = FALSE
  /\ UNCHANGED <<trayUrl, work, userActive, shuttingDown, call, recentInput, reports, os, cancelled>>

(* The agent is started anew: all it knew is forgotten, its requests, its  *)
(* downloads and the calls it has not answered are gone.                   *)
AgentRestart ==
  /\ Up
  /\ inFlight' = {} /\ downloading' = {}
  /\ userActive' = FALSE /\ shuttingDown' = FALSE
  /\ call' = [c \in Calls |-> NoCall]
  /\ cancelled' = FALSE
  /\ UNCHANGED <<trayUrl, tray, os>>

(* The delay is over: the machine goes down and takes all programs along. *)
PowerOff ==
  /\ os = "scheduled"
  /\ os' = "off"
  /\ inFlight' = {} /\ downloading' = {}
  /\ userActive' = FALSE /\ shuttingDown' = FALSE
  /\ call' = [c \in Calls |-> NoCall]
  /\ toggle' = FALSE /\ reports' = {} /\ cancelled' = FALSE
  /\ UNCHANGED <<trayUrl, recentInput>>

(* A person calls the shutdown off (`shutdown /a`): the agent never learns *)
(* of it.                                                                  *)
PersonCancels ==
  /\ os = "scheduled"
  /\ os' = "on" /\ cancelled' = TRUE
  /\ UNCHANGED <<trayUrl, work, userActive, shuttingDown, call, tray>>

(* The machine is woken; agent and tray start from nothing. *)
Boot ==
  /\ os = "off"
  /\ os' = "on"
  /\ UNCHANGED <<trayUrl, work, userActive, shuttingDown, call, tray, cancelled>>

TrayStep ==
  /\ Up
  /\ \/ \E on \in BOOLEAN : SetToggle(on)
     \/ NoticeUser
     \/ Report
     \/ UserComesOrGoes

CallFinishes(c) ==
  \/ HearVerdict(c)
  \/ TrayUnreachable(c)
  \/ \E ok, effect \in BOOLEAN : CommandEnds(c, ok, effect)

PowerStep ==
  \/ \E q \in Requests : BeginRequest(q) \/ EndRequest(q)
  \/ \E d \in Downloads : StartDownload(d) \/ EndDownload(d)
  \/ \E c \in Calls :
       \/ \E force \in BOOLEAN : Ask(c, force)
       \/ TrayDecides(c)
       \/ CallFinishes(c)
       \/ CallOver(c)
  \/ TrayStep
  \/ \E active \in BOOLEAN : HearReport(active) \/ LoseReport(active)
  \/ AgentRestart
  \/ PowerOff
  \/ PersonCancels
  \/ Boot

PowerNext == PowerStep \/ TrayRestart

PowerSpec == PowerInit /\ [][PowerNext]_powerVars

(* A call has a deadline on each of its waits, five seconds for the tray   *)
(* and fifteen for the command, so each wait ends.                         *)
FairPowerSpec == PowerSpec /\ \A c \in Calls : WF_powerVars(CallFinishes(c))

-----------------------------------------------------------------------------
TypeOK ==
  /\ trayUrl \in BOOLEAN
  /\ inFlight \in SUBSET Requests /\ downloading \in SUBSET Downloads
  /\ userActive \in BOOLEAN /\ shuttingDown \in BOOLEAN
  /\ call \in [Calls -> [stage : Stages, force : BOOLEAN, verdict : BOOLEAN,
                         consent : BOOLEAN, executed : BOOLEAN, allow : BOOLEAN]]
  /\ toggle \in BOOLEAN /\ recentInput \in BOOLEAN /\ reports \in SUBSET BOOLEAN
  /\ os \in {"on", "scheduled", "off"} /\ cancelled \in BOOLEAN

(* "A machine that someone might be using is never switched off on a       *)
(* guess" (power.ts:122): with a tray, an unforced call that issues the    *)
(* command has had the tray's yes to this very call.                       *)
NeverOnAGuess ==
  \A c \in Calls : (call[c].executed /\ ~call[c].force /\ trayUrl) => call[c].consent

(* The hub takes "allow" for a machine that goes down: an allowing answer, *)
(* and the flag behind later ones, mean the system has taken the command,  *)
(* and are wrong only after a person has called the shutdown off: the flag *)
(* is set for good (power.ts:101), and every later call hears a yes.       *)
Taken == os = "scheduled" \/ cancelled

YesMeansDown ==
  /\ shuttingDown => Taken
  /\ \A c \in Calls : call[c].allow => Taken

(* What the proof of the two needs in addition. *)
CallsConsistent ==
  \A c \in Calls :
    /\ call[c].stage \in {"heard", "asking"} => trayUrl /\ ~call[c].force /\ ~call[c].executed
    /\ call[c].stage = "heard" => call[c].consent = call[c].verdict
    /\ call[c].allow => call[c].stage = "answered"
    /\ os = "off" => call[c] = NoCall

PowerInv == TypeOK /\ NeverOnAGuess /\ YesMeansDown /\ CallsConsistent

(* Every shutdown call is answered, or the machine goes down under it. *)
AlwaysAnswered ==
  \A c \in Calls : call[c].stage \in {"asking", "heard", "exec"} ~> call[c].stage \in {"answered", "none"}
=============================================================================
