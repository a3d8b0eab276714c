------------------------------ MODULE AgentProofs ------------------------------
(***************************************************************************)
(* The safety of the agent, for any number of calls, requests, downloads,  *)
(* callers and processes: the shutdown guard, alone and watched by the     *)
(* tray's blocker, and what the blocker knows of its helpers; then the     *)
(* downloads, the engine and both together.                                *)
(***************************************************************************)
EXTENDS TrayBlocker, AgentWork, SequenceFacts

-----------------------------------------------------------------------------
(* The shutdown guard.                                                     *)

CallType == [stage : Stages, force : BOOLEAN, verdict : BOOLEAN,
             consent : BOOLEAN, executed : BOOLEAN, allow : BOOLEAN]

(* What the invariant says of one call, for a given state of the rest. *)
CallOK(k, url, down, taken) ==
  /\ k \in CallType
  /\ k.executed /\ ~k.force /\ url => k.consent
  /\ k.allow => taken /\ k.stage = "answered"
  /\ k.stage \in {"heard", "asking"} => url /\ ~k.force /\ ~k.executed
  /\ k.stage = "heard" => k.consent = k.verdict
  /\ down = "off" => k = NoCall

(* The invariant, call by call. *)
LEMMA CallByCall ==
  PowerInv <=>
    /\ trayUrl \in BOOLEAN
    /\ inFlight \in SUBSET Requests /\ downloading \in SUBSET Downloads
    /\ userActive \in BOOLEAN /\ shuttingDown \in BOOLEAN
    /\ toggle \in BOOLEAN /\ recentInput \in BOOLEAN /\ reports \in SUBSET BOOLEAN
    /\ os \in {"on", "scheduled", "off"} /\ cancelled \in BOOLEAN
    /\ shuttingDown => Taken
    /\ DOMAIN call = Calls /\ call = [c \in Calls |-> call[c]]
    /\ \A c \in Calls : CallOK(call[c], trayUrl, os, Taken)
<1>1. call \in [Calls -> CallType] <=>
        /\ DOMAIN call = Calls /\ call = [c \in Calls |-> call[c]]
        /\ \A c \in Calls : call[c] \in CallType
  OBVIOUS
<1> QED BY <1>1 DEF PowerInv, TypeOK, NeverOnAGuess, YesMeansDown, CallsConsistent, CallOK, CallType

(* A step of one call, which may make the system take the command. *)
LEMMA OneCallMoves ==
  ASSUME PowerInv, NEW c \in Calls, NEW k, call' = [call EXCEPT ![c] = k],
         CallOK(k, trayUrl, os', Taken'), os # "off",
         os' = os \/ os' = "scheduled",
         shuttingDown' \in BOOLEAN, shuttingDown' => Taken',
         UNCHANGED <<trayUrl, work, userActive, tray, cancelled>>
  PROVE  PowerInv'
<1>1. \A d \in Calls : CallOK(call[d], trayUrl, os', Taken')
  BY CallByCall DEF CallOK, Taken
<1>2. /\ DOMAIN call' = Calls /\ call' = [d \in Calls |-> call'[d]]
      /\ \A d \in Calls : call'[d] = IF d = c THEN k ELSE call[d]
  BY CallByCall
<1>3. \A d \in Calls : CallOK(call'[d], trayUrl', os', Taken')
  BY <1>1, <1>2
<1>4. os' \in {"on", "scheduled", "off"}
  BY CallByCall
<1>5. call' \in [Calls -> CallType]
  <2>1. \A d \in Calls : call'[d] \in CallType
    BY <1>3 DEF CallOK
  <2> QED BY <2>1, <1>2
<1>6. TypeOK'
  BY <1>4, <1>5, CallByCall DEF TypeOK, CallType, work, tray
<1>7. NeverOnAGuess'
  BY <1>3 DEF NeverOnAGuess, CallOK
<1>8. YesMeansDown'
  BY <1>3 DEF YesMeansDown, CallOK
<1>9. CallsConsistent'
  BY <1>3 DEF CallsConsistent, CallOK
<1> QED BY <1>6, <1>7, <1>8, <1>9 DEF PowerInv

(* A step that leaves the calls, the flag and the system alone. *)
LEMMA CallsStay ==
  ASSUME PowerInv, UNCHANGED <<call, shuttingDown, os, cancelled, trayUrl>>,
         inFlight' \in SUBSET Requests, downloading' \in SUBSET Downloads,
         userActive' \in BOOLEAN, toggle' \in BOOLEAN, recentInput' \in BOOLEAN,
         reports' \in SUBSET BOOLEAN
  PROVE  PowerInv'
  BY DEF PowerInv, TypeOK, NeverOnAGuess, YesMeansDown, CallsConsistent, Taken

(* All programs are gone: no call is left. *)
LEMMA CallsForgotten ==
  ASSUME PowerInv, call' = [c \in Calls |-> NoCall], shuttingDown' = FALSE,
         os' \in {"on", "scheduled", "off"}, cancelled' \in BOOLEAN, UNCHANGED trayUrl,
         inFlight' = {}, downloading' = {}, userActive' = FALSE,
         toggle' \in BOOLEAN, recentInput' \in BOOLEAN, reports' \in SUBSET BOOLEAN
  PROVE  PowerInv'
  BY DEF PowerInv, TypeOK, NeverOnAGuess, YesMeansDown, CallsConsistent, NoCall, Stages

(* Every step keeps the invariant. *)
LEMMA StepKeepsPowerInv ==
  ASSUME PowerInv, [PowerNext]_powerVars
  PROVE  PowerInv'
<1> USE DEF work, tray
<1>1. CASE UNCHANGED powerVars
  BY <1>1, CallsStay DEF powerVars, PowerInv, TypeOK
<1>2. ASSUME NEW q \in Requests, BeginRequest(q) \/ EndRequest(q)
      PROVE  PowerInv'
  <2>1. /\ UNCHANGED <<call, shuttingDown, os, cancelled, trayUrl, downloading, userActive, toggle, recentInput, reports>>
        /\ inFlight' \in SUBSET Requests
    BY <1>2 DEF BeginRequest, EndRequest, PowerInv, TypeOK
  <2> QED BY <2>1, CallsStay DEF PowerInv, TypeOK
<1>3. ASSUME NEW d \in Downloads, StartDownload(d) \/ EndDownload(d)
      PROVE  PowerInv'
  <2>1. /\ UNCHANGED <<call, shuttingDown, os, cancelled, trayUrl, inFlight, userActive, toggle, recentInput, reports>>
        /\ downloading' \in SUBSET Downloads
    BY <1>3 DEF StartDownload, EndDownload, PowerInv, TypeOK
  <2> QED BY <2>1, CallsStay DEF PowerInv, TypeOK
<1>4. ASSUME NEW c \in Calls, NEW force \in BOOLEAN, Ask(c, force)
      PROVE  PowerInv'
  <2> DEFINE k == call'[c]
  <2>1. /\ call[c].stage = "none" /\ os # "off"
        /\ UNCHANGED <<trayUrl, inFlight, downloading, userActive, shuttingDown, toggle, recentInput, reports, os, cancelled>>
    BY <1>4 DEF Ask, Up
  <2>2. call' = [call EXCEPT ![c] = k]
    BY <1>4, CallByCall DEF Ask
  <2>3. CallOK(k, trayUrl, os, Taken)
    BY <1>4, <2>1, CallByCall DEF Ask, CallOK, CallType, NoCall, Stages
  <2> HIDE DEF k
  <2> QED BY <2>1, <2>2, <2>3, OneCallMoves, CallByCall DEF Taken
<1>5. ASSUME NEW c \in Calls, TrayDecides(c) \/ HearVerdict(c) \/ TrayUnreachable(c) \/ CallOver(c)
      PROVE  PowerInv'
  <2> DEFINE k == call'[c]
  <2>1. UNCHANGED <<trayUrl, inFlight, downloading, userActive, shuttingDown, toggle, recentInput, reports, os, cancelled>>
    BY <1>5 DEF TrayDecides, HearVerdict, TrayUnreachable, CallOver
  <2>2. CallOK(call[c], trayUrl, os, Taken)
    BY CallByCall
  <2>3. os # "off"
    <3>1. call[c].stage \in {"asking", "heard", "answered"}
      BY <1>5 DEF TrayDecides, HearVerdict, TrayUnreachable, CallOver
    <3> QED BY <2>2, <3>1 DEF CallOK, NoCall
  <2>4. call' = [call EXCEPT ![c] = k]
    BY <1>5, CallByCall DEF TrayDecides, HearVerdict, TrayUnreachable, CallOver, Answer, Execute
  <2>5. CallOK(k, trayUrl, os, Taken)
    <3>1. CASE TrayDecides(c)
      BY <3>1, <2>2, <2>3, CallByCall DEF TrayDecides, CallOK, CallType, Stages
    <3>2. CASE HearVerdict(c)
      BY <3>2, <2>2, <2>3, CallByCall DEF HearVerdict, Answer, Execute, CallOK, CallType, Stages
    <3>3. CASE TrayUnreachable(c)
      BY <3>3, <2>2, <2>3, CallByCall DEF TrayUnreachable, Answer, CallOK, CallType, Stages
    <3>4. CASE CallOver(c)
      BY <3>4, <2>3, CallByCall DEF CallOver, CallOK, CallType, Stages, NoCall
    <3> QED BY <1>5, <3>1, <3>2, <3>3, <3>4
  <2> HIDE DEF k
  <2> QED BY <2>1, <2>3, <2>4, <2>5, OneCallMoves, CallByCall DEF Taken
<1>6. ASSUME NEW c \in Calls, NEW ok \in BOOLEAN, NEW effect \in BOOLEAN, CommandEnds(c, ok, effect)
      PROVE  PowerInv'
  <2> DEFINE k == call'[c]
  <2>1. /\ call[c].stage = "exec" /\ (ok => effect)
        /\ os' = (IF effect THEN "scheduled" ELSE os) /\ shuttingDown' = (shuttingDown \/ ok)
        /\ call' = [call EXCEPT ![c].stage = "answered", ![c].allow = ok]
        /\ UNCHANGED <<trayUrl, inFlight, downloading, userActive, toggle, recentInput, reports, cancelled>>
    BY <1>6 DEF CommandEnds, Answer
  <2>2. CallOK(call[c], trayUrl, os, Taken)
    BY CallByCall
  <2>3. os # "off"
    BY <2>1, <2>2 DEF CallOK, NoCall
  <2>4. call' = [call EXCEPT ![c] = k]
    BY <2>1, CallByCall
  <2>5. CallOK(k, trayUrl, os', Taken')
    BY <2>1, <2>2, <2>3, CallByCall DEF Taken, CallOK, CallType, Stages
  <2>6. /\ shuttingDown' \in BOOLEAN /\ (shuttingDown' => Taken')
        /\ os' = os \/ os' = "scheduled"
    BY <2>1, CallByCall DEF Taken
  <2> HIDE DEF k
  <2> QED BY <2>1, <2>3, <2>4, <2>5, <2>6, OneCallMoves
<1>7. CASE TrayStep \/ TrayRestart
  <2>1. /\ UNCHANGED <<call, shuttingDown, os, cancelled, trayUrl, inFlight, downloading, userActive>>
        /\ toggle' \in BOOLEAN /\ recentInput' \in BOOLEAN /\ reports' \in SUBSET BOOLEAN
    BY <1>7 DEF TrayStep, SetToggle, NoticeUser, Report, UserComesOrGoes, TrayRestart, PowerInv, TypeOK
  <2> QED BY <2>1, CallsStay DEF PowerInv, TypeOK
<1>8. ASSUME NEW active \in BOOLEAN, HearReport(active) \/ LoseReport(active)
      PROVE  PowerInv'
  <2>1. /\ UNCHANGED <<call, shuttingDown, os, cancelled, trayUrl, inFlight, downloading, toggle, recentInput>>
        /\ userActive' \in BOOLEAN /\ reports' \in SUBSET BOOLEAN
    BY <1>8 DEF HearReport, LoseReport, PowerInv, TypeOK
  <2> QED BY <2>1, CallsStay DEF PowerInv, TypeOK
<1>9. CASE AgentRestart \/ PowerOff
  BY <1>9, CallsForgotten DEF AgentRestart, PowerOff, PowerInv, TypeOK
<1>10. CASE Boot
  <2>1. /\ os = "off" /\ os' = "on"
        /\ UNCHANGED <<trayUrl, inFlight, downloading, userActive, shuttingDown, call, toggle, recentInput, reports, cancelled>>
    BY <1>10 DEF Boot
  <2>2. \A c \in Calls : call[c] = NoCall
    BY <2>1 DEF PowerInv, CallsConsistent
  <2>3. \A c \in Calls : call'[c].stage = "none" /\ ~call'[c].executed /\ ~call'[c].allow
    BY <2>1, <2>2 DEF NoCall
  <2>4. TypeOK'
    BY <2>1 DEF PowerInv, TypeOK
  <2>5. NeverOnAGuess' /\ YesMeansDown' /\ CallsConsistent'
    BY <2>1, <2>2, <2>3 DEF PowerInv, NeverOnAGuess, YesMeansDown, CallsConsistent, Taken
  <2> QED BY <2>4, <2>5 DEF PowerInv
<1>11. CASE PersonCancels
  <2>1. /\ os = "scheduled" /\ os' = "on" /\ cancelled' = TRUE
        /\ UNCHANGED <<trayUrl, inFlight, downloading, userActive, shuttingDown, call, toggle, recentInput, reports>>
    BY <1>11 DEF PersonCancels
  <2>2. \A c \in Calls : call'[c] = call[c]
    BY <2>1
  <2>3. TypeOK'
    BY <2>1 DEF PowerInv, TypeOK
  <2>4. NeverOnAGuess' /\ YesMeansDown' /\ CallsConsistent'
    BY <2>1, <2>2 DEF PowerInv, NeverOnAGuess, YesMeansDown, CallsConsistent, Taken
  <2> QED BY <2>3, <2>4 DEF PowerInv
<1> QED BY <1>1, <1>2, <1>3, <1>4, <1>5, <1>6, <1>7, <1>8, <1>9, <1>10, <1>11 DEF PowerNext, PowerStep, CallFinishes

(* The invariant of the guard: no unforced command without the tray's yes  *)
(* to the same call, and no "allow" without a command the system took.     *)
THEOREM PowerInvariant == PowerSpec => []PowerInv
<1>1. ASSUME PowerInit PROVE PowerInv
  <2>1. NoCall \in CallType
    BY DEF NoCall, CallType, Stages
  <2>2. call \in [Calls -> CallType] /\ \A c \in Calls : call[c] = NoCall
    BY <1>1, <2>1 DEF PowerInit
  <2>3. TypeOK
    BY <1>1, <2>2 DEF PowerInit, TypeOK, CallType
  <2>4. \A c \in Calls : call[c].stage = "none" /\ ~call[c].executed /\ ~call[c].allow
    BY <2>2 DEF NoCall
  <2> QED BY <1>1, <2>2, <2>3, <2>4 DEF PowerInit, PowerInv, NeverOnAGuess, YesMeansDown, CallsConsistent
<1> QED BY <1>1, StepKeepsPowerInv, PTL DEF PowerSpec

-----------------------------------------------------------------------------
(* The blocker only watches the guard: every step of the composition is a  *)
(* step of AgentPower or leaves the guard alone.                           *)
LEMMA BlockerWatches == BlockerSpec => PowerSpec
<1>1. BlockerInit => PowerInit
  BY DEF BlockerInit
<1>2. ASSUME [BlockerNext]_allVars
      PROVE  [PowerNext]_powerVars
  <2>1. CASE UNCHANGED allVars
    BY <2>1 DEF allVars
  <2>2. CASE AgentStep
    BY <2>2 DEF AgentStep, PowerNext
  <2>3. CASE TrayRestarts
    BY <2>3 DEF TrayRestarts, PowerNext
  <2>4. CASE PollHears \/ PollFails
    BY <2>4 DEF PollHears, PollFails
  <2>5. ASSUME NEW h \in Helpers, HelperDies(h) \/ HearExit(h)
        PROVE  UNCHANGED powerVars
    BY <2>5 DEF HelperDies, HearExit
  <2> QED BY <1>2, <2>1, <2>2, <2>3, <2>4, <2>5 DEF BlockerNext
<1> QED BY <1>1, <1>2, PTL DEF BlockerSpec, PowerSpec

(* Enabling and disabling the block, and the end of a helper, keep what    *)
(* the tray knows.                                                         *)
LEMMA StepKeepsBlockerKnown ==
  ASSUME BlockerKnown, [BlockerNext]_allVars
  PROVE  BlockerKnown'
<1> USE DEF BlockerKnown
<1>1. CASE UNCHANGED helper
  BY <1>1 DEF helper, lost
<1>2. CASE HelpersEnd
  BY <1>2 DEF HelpersEnd
<1>3. CASE EnableShutdownBlock
  <2>1. ASSUME ~isBlocking, NEW h \in Helpers \ (running \cup exits),
               isBlocking' = TRUE, blockerProcess' = h, UNCHANGED lost,
               \/ running' = running \cup {h} /\ UNCHANGED exits
               \/ exits' = exits \cup {h} /\ UNCHANGED running
        PROVE  BlockerKnown'
    <3>1. h # None /\ None \notin running /\ blockerProcess = None
      BY <2>1, BlockerAssumption
    <3>2. running \subseteq unkilled \cup forgotten
      BY <3>1
    <3> QED BY <2>1, <3>1, <3>2 DEF lost
  <2> QED BY <1>1, <1>3, <2>1 DEF EnableShutdownBlock
<1>4. CASE DisableShutdownBlock
  <2>1. CASE UNCHANGED helper
    BY <1>1, <2>1
  <2>2. ASSUME KillHelper(blockerProcess), isBlocking' = FALSE, blockerProcess' = None, isBlocking
        PROVE  BlockerKnown'
    <3>1. CASE /\ running' = running \ {blockerProcess}
               /\ exits' = exits \cup (running \cap {blockerProcess})
               /\ UNCHANGED lost
      BY <2>2, <3>1, BlockerAssumption DEF lost
    <3>2. CASE /\ blockerProcess \in running
               /\ unkilled' = unkilled \cup {blockerProcess}
               /\ UNCHANGED <<running, exits, forgotten>>
      BY <2>2, <3>2, BlockerAssumption
    <3> QED BY <2>2, <3>1, <3>2 DEF KillHelper
  <2> QED BY <1>4, <2>1, <2>2 DEF DisableShutdownBlock
<1>5. ASSUME NEW h \in Helpers, HelperDies(h)
      PROVE  BlockerKnown'
  BY <1>5 DEF HelperDies
<1>6. ASSUME NEW h \in Helpers, HearExit(h)
      PROVE  BlockerKnown'
  BY <1>6, BlockerAssumption DEF HearExit
<1>7. BlockerNext =>
        \/ UNCHANGED helper \/ HelpersEnd \/ EnableShutdownBlock \/ DisableShutdownBlock
        \/ \E h \in Helpers : HelperDies(h) \/ HearExit(h)
  BY DEF BlockerNext, AgentStep, TrayRestarts, PollHears, PollFails
<1>8. UNCHANGED allVars => UNCHANGED helper
  BY DEF allVars
<1> QED BY <1>1, <1>2, <1>3, <1>4, <1>5, <1>6, <1>7, <1>8

(* Whatever the polls, deaths and failing kills, a running helper the tray *)
(* does not know is one it could not kill, or one whose record the exit of *)
(* another wiped (shutdown-block.js:57,80), and no exit that is still to   *)
(* be heard is of a helper that runs.                                      *)
THEOREM BlockerInvariant == BlockerSpec => []BlockerKnown
<1>1. BlockerInit => BlockerKnown
  BY DEF BlockerInit, NoHelper, BlockerKnown
<1> QED BY <1>1, StepKeepsBlockerKnown, PTL DEF BlockerSpec

(* The guard keeps its promises with the blocker at its side, which polls  *)
(* the same agent (tray/src/index.js).                                     *)
THEOREM PowerInvariantWatched == BlockerSpec => []PowerInv
BY BlockerWatches, PowerInvariant

-----------------------------------------------------------------------------
(* The engine. *)

USE DEF Nobody, Other, Children

LEMMA EngineInitInv == EngineInit => EngineInv
BY EngineAssumption DEF EngineInit, EngineInv, EngineTypeOK, WaitersHaveStart, PollsItsChild, KnowsItsChild

(* A caller joins, or begins, a start. *)
LEMMA EnsureKeeps ==
  ASSUME EngineInv, NEW c \in Callers, Ensure(c), UNCHANGED engineRest
  PROVE  EngineInv'
BY DEF EngineInv, EngineTypeOK, WaitersHaveStart, PollsItsChild, KnowsItsChild, Ensure, engineRest, processes

(* The start ends, whichever way. *)
LEMMA StartEndsKeeps ==
  ASSUME EngineInv, NEW again \in SUBSET Callers, Answered(again) \/ Failed(again)
  PROVE  EngineInv'
<1> USE DEF EngineInv, EngineTypeOK, WaitersHaveStart, PollsItsChild, KnowsItsChild, Settled, engineRest, processes
<1>1. CASE Answered(again)
  BY <1>1 DEF Answered, Adopt, Ready
<1>2. CASE MayNotStart(again)
  BY <1>2 DEF MayNotStart
<1>3. CASE ChildFailed(again)
  BY <1>3 DEF ChildFailed
<1>4. CASE StartTimesOut(again)
  BY <1>4 DEF StartTimesOut, Kill
<1> QED BY <1>1, <1>2, <1>3, <1>4 DEF Failed

LEMMA SpawnKeeps ==
  ASSUME EngineInv, Spawn
  PROVE  EngineInv'
BY EngineAssumption DEF EngineInv, EngineTypeOK, WaitersHaveStart, PollsItsChild, KnowsItsChild, Spawn

LEMMA ProcessStepKeeps ==
  ASSUME EngineInv, ProcessStep
  PROVE  EngineInv'
<1> USE DEF EngineInv, EngineTypeOK, WaitersHaveStart, PollsItsChild, KnowsItsChild, starting, processes
<1>1. CASE \E p \in Children : Exit(p)
  BY <1>1 DEF Exit
<1>2. CASE \E p \in Children : Listen(p)
  BY <1>2 DEF Listen
<1>3. CASE \E p \in 0..spawned : Die(p)
  BY <1>3 DEF Die
<1>4. CASE OtherStarts
  BY <1>4 DEF OtherStarts
<1> QED BY <1>1, <1>2, <1>3, <1>4 DEF ProcessStep

LEMMA AgentEndsKeeps ==
  ASSUME EngineInv, Close \/ Stop \/ Gone
  PROVE  EngineInv'
<1> USE DEF EngineInv, EngineTypeOK, WaitersHaveStart, PollsItsChild, KnowsItsChild, starting, processes
<1>1. CASE Close
  BY <1>1 DEF Close
<1>2. CASE Stop
  BY <1>2 DEF Stop, Kill
<1>3. CASE Gone
  BY <1>3 DEF Gone
<1> QED BY <1>1, <1>2, <1>3

LEMMA EngineStuttering ==
  ASSUME EngineInv, UNCHANGED engineVars
  PROVE  EngineInv'
BY DEF EngineInv, EngineTypeOK, WaitersHaveStart, PollsItsChild, KnowsItsChild, engineVars, starting, processes

(* The agent alone: whoever asks for the engine, and whatever happens to   *)
(* its processes, the agent knows the child it has to stop (ollama.ts).    *)
THEOREM EngineInvariant == EngineSpec => []EngineInv
<1>1. EngineInv /\ [EngineNext]_engineVars => EngineInv'
  <2> SUFFICES ASSUME EngineInv, [EngineNext]_engineVars PROVE EngineInv'
    OBVIOUS
  <2>1. CASE \E c \in Callers : Ensure(c) /\ UNCHANGED engineRest
    BY <2>1, EnsureKeeps
  <2>2. CASE \E again \in SUBSET awaiting : Answered(again) \/ Failed(again)
    BY <2>2, StartEndsKeeps DEF EngineInv, EngineTypeOK
  <2>3. CASE Spawn
    BY <2>3, SpawnKeeps
  <2>4. CASE ProcessStep
    BY <2>4, ProcessStepKeeps
  <2>5. CASE Close \/ Stop \/ Gone
    BY <2>5, AgentEndsKeeps
  <2>6. CASE UNCHANGED engineVars
    BY <2>6, EngineStuttering
  <2> QED BY <2>1, <2>2, <2>3, <2>4, <2>5, <2>6 DEF EngineNext
<1> QED BY EngineInitInv, <1>1, PTL DEF EngineSpec

-----------------------------------------------------------------------------
(* The downloads. *)

(* A sequence over one set whose elements are all in another. *)
LEMMA SeqOver ==
  ASSUME NEW S, NEW s \in Seq(S), NEW T, \A k \in 1..Len(s) : s[k] \in T
  PROVE  s \in Seq(T)
BY LenProperties, SeqDef

(* What is left after the first k. *)
LEMMA AfterFirst ==
  ASSUME NEW S, NEW s \in Seq(S), NEW k \in 1..(Len(s) + 1)
  PROVE  LET t == SubSeq(s, k + 1, Len(s))
         IN  /\ t \in Seq(S)
             /\ Len(t) = IF k <= Len(s) THEN Len(s) - k ELSE 0
             /\ \A l \in 1..Len(t) : t[l] = s[k + l]
<1>1. Len(s) \in Nat /\ k \in Nat
  OBVIOUS
<1>2. CASE k <= Len(s)
  BY <1>1, <1>2
<1>3. CASE k = Len(s) + 1
  <2>1. SubSeq(s, k + 1, Len(s)) = <<>>
    BY <1>1, <1>3
  <2> QED BY <1>1, <1>3, <2>1
<1> QED BY <1>1, <1>2, <1>3

(* The pump finds the first job of the line that has not been aborted. *)
LEMMA NextPlaceIsFirst ==
  ASSUME NEW S, line \in Seq(S), NEW jobs
  PROVE  /\ NextPlace(jobs) \in 1..(Len(line) + 1)
         /\ NextPlace(jobs) <= Len(line) => ~jobs[line[NextPlace(jobs)]].aborted
         /\ \A l \in 1..(NextPlace(jobs) - 1) : jobs[line[l]].aborted
<1> DEFINE n == Len(line)
           Live == {k \in 1..(n + 1) : k <= n => ~jobs[line[k]].aborted}
           D == {u \in 0..(n + 1) : (n + 1) - u \in Live}
<1>1. n \in Nat /\ n + 1 \in Nat
  OBVIOUS
<1>2. 0 \in D /\ D \in SUBSET (0..(n + 1)) /\ D # {}
  BY <1>1
<1>3. PICK m \in D : \A u \in D : u <= m
  <2> HIDE DEF D, n
  <2> QED BY <1>1, <1>2, GreatestExists
<1>4. (n + 1) - m \in Live
  BY <1>3
<1>5. \A l \in 1..((n + 1) - m - 1) : jobs[line[l]].aborted
  <2> SUFFICES ASSUME NEW l \in 1..((n + 1) - m - 1), ~jobs[line[l]].aborted
               PROVE  FALSE
    OBVIOUS
  <2>1. l \in Live /\ (n + 1) - l \in 0..(n + 1) /\ (n + 1) - ((n + 1) - l) = l
    BY <1>1, <1>3
  <2>2. (n + 1) - l \in D /\ m \in 0..(n + 1)
    BY <1>1, <1>3, <2>1
  <2>3. (n + 1) - l <= m
    <3> HIDE DEF D
    <3> QED BY <1>3, <2>2
  <2> HIDE DEF n, D, Live
  <2> QED BY <1>1, <2>2, <2>3
<1> QED BY <1>4, <1>5, Zenon DEF NextPlace

LEMMA PrunedAreFinished ==
  ASSUME NEW jobs, NEW i \in Pruned(jobs)
  PROVE  i \in DOMAIN jobs /\ jobs[i].status \notin {"queued", "running"}
BY DEF Pruned

USE DEF Ids, Unfinished, Finished, Statuses

LEMMA PullsInitInv == PullsInit => PullsInv
<1> SUFFICES ASSUME PullsInit PROVE PullsInv
  OBVIOUS
<1> USE PullsAssumption DEF PullsInit
<1>1. DOMAIN <<>> = {} /\ Ids = {}
  OBVIOUS
<1>2. PullsTypeOK
  <2>1. job \in [Ids -> [name : Names, status : Statuses, aborted : BOOLEAN]]
    BY <1>1
  <2>2. line \in Seq(Ids)
    BY <1>1
  <2>3. started \in 0..MaxStarts /\ Ids \subseteq 1..started /\ progress \in 0..MaxProgress
    BY <1>1
  <2>4. current \in {0} \cup Ids /\ phase \in {"none", "engine", "pull"} /\ stalled \in BOOLEAN
    OBVIOUS
  <2> QED BY <2>1, <2>2, <2>3, <2>4, Zenon DEF PullsTypeOK
<1>3. LineIsTheQueue /\ OneRuns /\ JobsConsistent /\ OldestRuns
  BY <1>1 DEF LineIsTheQueue, OneRuns, JobsConsistent, OldestRuns
<1> QED BY <1>2, <1>3 DEF PullsInv

(* The current job ends; the first of the line that is not aborted begins. *)
LEMMA FinishKeeps ==
  ASSUME PullsInv, current # 0,
         NEW status \in {"succeeded", "failed", "cancelled"}, Finish(status)
  PROVE  PullsInv'
<1> DEFINE n == Len(line)
           k == NextPlace(job)
           next == IF k <= n THEN line[k] ELSE 0
           skipped == {i \in Ids : \E l \in 1..(k - 1) : l <= n /\ line[l] = i}
<1>1. /\ line \in Seq(Ids) /\ n \in Nat /\ DOMAIN line = 1..n
      /\ \A l \in 1..n : line[l] \in Ids
      /\ Ids \subseteq 1..started /\ started \in Nat
  BY PullsAssumption DEF PullsInv, PullsTypeOK
<1>2. /\ k \in 1..(n + 1)
      /\ k <= n => ~job[line[k]].aborted
  BY <1>1, NextPlaceIsFirst
<1>3. /\ current \in Ids /\ job[current].status = "running"
      /\ \A l \in 1..n : job[line[l]].status = "queued" /\ line[l] # current /\ current < line[l]
      /\ \A i \in Ids : job[i].status = "queued" => \E l \in 1..n : line[l] = i
      /\ \A l, m \in 1..n : l < m => line[l] < line[m]
  BY <1>1 DEF PullsInv, PullsTypeOK, LineIsTheQueue, OneRuns, OldestRuns
<1>4. /\ job' = [i \in Ids |->
                   IF i = current THEN Ended(job[i], status)
                   ELSE IF i \in skipped THEN Ended(job[i], "cancelled")
                   ELSE IF i = next THEN Job(job[i].name, "running")
                   ELSE job[i]]
      /\ line' = SubSeq(line, k + 1, n)
      /\ current' = next
      /\ phase' = IF next = 0 THEN "none" ELSE "engine"
      /\ stalled' = FALSE /\ progress' = 0 /\ started' = started
  BY DEF Finish
<1>5. Ids' = Ids
  BY <1>4
<1>6. /\ next \in {0} \cup Ids
      /\ next # 0 => k \in 1..n /\ next = line[k] /\ ~job[next].aborted
      /\ next = 0 => k = n + 1
  BY <1>1, <1>2
<1>7. /\ current \notin skipped /\ next # current /\ next \notin skipped
      /\ \A i \in Ids : i \in skipped <=> \E l \in 1..n : l < k /\ line[l] = i
  BY <1>1, <1>2, <1>3
<1>8. /\ line' \in Seq(Ids)
      /\ Len(line') = (IF k <= n THEN n - k ELSE 0) /\ DOMAIN line' = 1..Len(line')
      /\ \A l \in 1..Len(line') : line'[l] = line[k + l] /\ k + l \in 1..n
  <2>1. line' \in Seq(Ids) /\ Len(line') = (IF k <= n THEN n - k ELSE 0)
        /\ \A l \in 1..Len(line') : line'[l] = line[k + l]
    BY <1>1, <1>2, <1>4, AfterFirst
  <2>2. \A l \in 1..Len(line') : k + l \in 1..n
    <3> HIDE DEF k, n
    <3> QED BY <1>1, <1>2, <2>1
  <2>3. DOMAIN line' = 1..Len(line')
    BY <2>1, LenProperties
  <2> QED BY <2>1, <2>2, <2>3
<1> HIDE DEF k, n, next, skipped
<1>9. \A i \in Ids :
        /\ job'[i] \in [name : Names, status : Statuses, aborted : BOOLEAN]
        /\ job'[i].name = job[i].name
        /\ i = current => job'[i].status = status /\ ~job'[i].aborted
        /\ i \in skipped => job'[i].status = "cancelled" /\ ~job'[i].aborted
        /\ i = next => job'[i].status = "running" /\ ~job'[i].aborted
        /\ i # current /\ i \notin skipped /\ i # next => job'[i] = job[i]
  <2> SUFFICES ASSUME NEW i \in Ids
               PROVE  /\ job'[i] \in [name : Names, status : Statuses, aborted : BOOLEAN]
                      /\ job'[i].name = job[i].name
                      /\ i = current => job'[i].status = status /\ ~job'[i].aborted
                      /\ i \in skipped => job'[i].status = "cancelled" /\ ~job'[i].aborted
                      /\ i = next => job'[i].status = "running" /\ ~job'[i].aborted
                      /\ i # current /\ i \notin skipped /\ i # next => job'[i] = job[i]
    OBVIOUS
  <2>1. job[i] \in [name : Names, status : Statuses, aborted : BOOLEAN]
    BY DEF PullsInv, PullsTypeOK
  <2>2. CASE i = current
    <3>1. job'[i] = Job(job[i].name, status)
      BY <1>4, <2>2 DEF Ended
    <3> QED BY <1>7, <2>1, <2>2, <3>1 DEF Job
  <2>3. CASE i \in skipped
    <3>1. job'[i] = Job(job[i].name, "cancelled")
      BY <1>4, <1>7, <2>3 DEF Ended
    <3> QED BY <1>7, <2>1, <2>3, <3>1 DEF Job
  <2>4. CASE i = next
    <3>1. job'[i] = Job(job[i].name, "running")
      BY <1>4, <1>7, <2>4
    <3> QED BY <1>7, <2>1, <2>4, <3>1 DEF Job
  <2>5. CASE i # current /\ i \notin skipped /\ i # next
    BY <1>4, <2>1, <2>5
  <2> QED BY <2>2, <2>3, <2>4, <2>5
<1>10. PullsTypeOK'
  <2>1. job' \in [Ids -> [name : Names, status : Statuses, aborted : BOOLEAN]]
    BY <1>4, <1>9
  <2>2. started' \in 0..MaxStarts /\ Ids' \subseteq 1..started'
    BY <1>1, <1>4, <1>5 DEF PullsInv, PullsTypeOK
  <2>3. current' \in {0} \cup Ids' /\ line' \in Seq(Ids')
    BY <1>4, <1>5, <1>6, <1>8
  <2>4. phase' \in {"none", "engine", "pull"} /\ stalled' \in BOOLEAN
    BY <1>4
  <2>5. progress' \in 0..MaxProgress
    BY <1>4, PullsAssumption
  <2> QED BY <1>5, <2>1, <2>2, <2>3, <2>4, <2>5 DEF PullsTypeOK
<1>11. LineIsTheQueue'
  <2>1. \A i \in Ids : (\E l \in 1..Len(line') : line'[l] = i) => job'[i].status = "queued"
    <3> SUFFICES ASSUME NEW l \in 1..Len(line') PROVE job'[line'[l]].status = "queued"
      OBVIOUS
    <3>1. k + l \in 1..n /\ line'[l] = line[k + l] /\ k + l > k
      BY <1>1, <1>2, <1>8
    <3>2. line[k + l] \in Ids /\ line[k + l] # current /\ job[line[k + l]].status = "queued"
      BY <1>1, <1>3, <3>1
    <3>3. line[k + l] \notin skipped
      BY <1>1, <1>2, <1>3, <1>7, <3>1, <3>2
    <3>4. line[k + l] # next
      BY <1>1, <1>2, <1>3, <1>6, <3>1
    <3> QED BY <1>9, <3>1, <3>2, <3>3, <3>4
  <2>2. \A i \in Ids : job'[i].status = "queued" => (\E l \in 1..Len(line') : line'[l] = i)
    <3> SUFFICES ASSUME NEW i \in Ids, job'[i].status = "queued"
                 PROVE  \E l \in 1..Len(line') : line'[l] = i
      OBVIOUS
    <3>1. i # current /\ i \notin skipped /\ i # next /\ job[i].status = "queued"
      BY <1>9
    <3>2. PICK l \in 1..n : line[l] = i
      BY <1>3, <3>1
    <3>3. l > k
      BY <1>1, <1>2, <1>6, <1>7, <3>1, <3>2
    <3>4. l - k \in 1..Len(line') /\ k + (l - k) = l
      BY <1>1, <1>2, <1>8, <3>3
    <3> QED BY <1>8, <3>2, <3>4
  <2>3. \A l, m \in 1..Len(line') : l < m => line'[l] < line'[m]
    BY <1>1, <1>2, <1>3, <1>8
  <2> QED BY <1>5, <1>8, <2>1, <2>2, <2>3 DEF LineIsTheQueue
<1>12. OneRuns'
  <2>1. \A i \in Ids : job'[i].status = "running" <=> i = next
    BY <1>3, <1>6, <1>9 DEF PullsInv, OneRuns
  <2>2. next = 0 => line' = <<>>
    BY <1>1, <1>6, <1>8, EmptySeq
  <2> QED BY <1>4, <1>5, <1>6, <2>1, <2>2 DEF OneRuns
<1>13. JobsConsistent'
  <2>1. \A i \in Ids : i \in Unfinished' => i \in Unfinished /\ job'[i].name = job[i].name
    <3> SUFFICES ASSUME NEW i \in Ids, job'[i].status \in {"queued", "running"}
                 PROVE  job[i].status \in {"queued", "running"} /\ job'[i].name = job[i].name
      BY <1>5
    <3>1. i # current
      BY <1>9
    <3>2. CASE i = next
      BY <1>1, <1>3, <1>6, <1>9, <3>2
    <3>3. CASE i # next
      BY <1>9, <3>1, <3>3
    <3> QED BY <3>2, <3>3
  <2>2. \A i \in Ids : job'[i].aborted => i \in Unfinished'
    <3> SUFFICES ASSUME NEW i \in Ids, job'[i].aborted
                 PROVE  job'[i].status \in {"queued", "running"}
      BY <1>5
    <3> QED BY <1>9 DEF PullsInv, JobsConsistent
  <2> QED BY <1>4, <1>5, <2>1, <2>2 DEF PullsInv, JobsConsistent
<1>14. OldestRuns'
  <2> SUFFICES ASSUME next # 0, NEW l \in 1..Len(line') PROVE next < line'[l]
    BY <1>4, <1>8 DEF OldestRuns
  <2>1. k \in 1..n /\ next = line[k] /\ k + l \in 1..n /\ k < k + l /\ line'[l] = line[k + l]
    BY <1>1, <1>6, <1>8
  <2> QED BY <1>3, <2>1
<1> QED BY <1>10, <1>11, <1>12, <1>13, <1>14 DEF PullsInv

(* A new job is younger than all, and pruning takes finished ones only. *)
LEMMA StartPullKeeps ==
  ASSUME PullsInv, NEW name \in Names, StartPull(name)
  PROVE  PullsInv'
<1> DEFINE id == started + 1
           first == IF current = 0 THEN "running" ELSE "queued"
           jobs == [i \in Ids \cup {id} |-> IF i # id THEN job[i] ELSE Job(name, first)]
           gone == Pruned(jobs)
<1>1. /\ line \in Seq(Ids) /\ DOMAIN line = 1..Len(line) /\ Len(line) \in Nat
      /\ \A l \in 1..Len(line) : line[l] \in Ids /\ job[line[l]].status = "queued"
      /\ Ids \subseteq 1..started /\ started \in Nat /\ started < MaxStarts /\ MaxStarts \in Nat
      /\ id \notin Ids /\ started' = id
      /\ job' = [i \in (Ids \cup {id}) \ gone |-> jobs[i]]
      /\ UNCHANGED <<stalled, progress>>
      /\ \A i \in Ids : job[i].status \in {"queued", "running"} => job[i].name # name
      /\ current \in {0} \cup Ids
  BY PullsAssumption DEF PullsInv, PullsTypeOK, LineIsTheQueue, StartPull
<1>2. /\ jobs[id] = Job(name, first) /\ DOMAIN jobs = Ids \cup {id}
      /\ \A i \in Ids : jobs[i] = job[i]
      /\ first \in {"running", "queued"}
  BY <1>1
<1>3. \A i \in gone : i \in Ids /\ job[i].status \notin {"queued", "running"}
  <2> SUFFICES ASSUME NEW i \in gone
               PROVE  i \in Ids /\ job[i].status \notin {"queued", "running"}
    OBVIOUS
  <2>1. i \in DOMAIN jobs /\ jobs[i].status \notin {"queued", "running"}
    BY PrunedAreFinished
  <2>2. i # id
    BY <1>2, <2>1 DEF Job
  <2> QED BY <1>2, <2>1, <2>2
<1>4. /\ Ids' = (Ids \cup {id}) \ gone /\ id \in Ids'
      /\ job'[id] = Job(name, first)
      /\ \A i \in Ids' : i # id => i \in Ids /\ job'[i] = job[i]
      /\ \A i \in Ids : job[i].status \in {"queued", "running"} => i \in Ids' /\ i # id
  <2> HIDE DEF jobs, gone
  <2> QED BY <1>1, <1>2, <1>3
<1> HIDE DEF jobs, gone, first
<1>5. /\ job'[id].name = name /\ job'[id].status = first /\ ~job'[id].aborted
      /\ job' \in [Ids' -> [name : Names, status : Statuses, aborted : BOOLEAN]]
  <2>1. \A i \in Ids : job[i] \in [name : Names, status : Statuses, aborted : BOOLEAN]
    BY DEF PullsInv, PullsTypeOK
  <2>2. Job(name, first) \in [name : Names, status : Statuses, aborted : BOOLEAN]
    BY <1>2 DEF Job
  <2>3. \A i \in Ids' : job'[i] \in [name : Names, status : Statuses, aborted : BOOLEAN]
    BY <1>4, <2>1, <2>2
  <2>4. job' = [i \in Ids' |-> job'[i]]
    BY <1>1, <1>4
  <2> QED BY <1>4, <2>3, <2>4 DEF Job
<1>6. line \in Seq(Ids')
  BY <1>1, <1>4, SeqOver
<1>7. started' \in 0..MaxStarts /\ Ids' \subseteq 1..started' /\ progress' \in 0..MaxProgress /\ stalled' \in BOOLEAN
  BY <1>1, <1>4 DEF PullsInv, PullsTypeOK
<1>8. JobsConsistent'
  <2>1. \A i, k \in Unfinished' : job'[i].name = job'[k].name => i = k
    <3> SUFFICES ASSUME NEW i \in Ids', NEW k \in Ids', job'[i].name = job'[k].name,
                        job'[i].status \in {"queued", "running"}, job'[k].status \in {"queued", "running"}
                 PROVE  i = k
      OBVIOUS
    <3>1. CASE i # id /\ k # id
      BY <1>4, <3>1 DEF PullsInv, JobsConsistent
    <3>2. CASE i = id \/ k = id
      BY <1>1, <1>4, <1>5, <3>2
    <3> QED BY <3>1, <3>2
  <2>2. \A i \in Ids' : job'[i].aborted => i \in Unfinished'
    <3> SUFFICES ASSUME NEW i \in Ids', job'[i].aborted
                 PROVE  job'[i].status \in {"queued", "running"}
      OBVIOUS
    <3> QED BY <1>4, <1>5 DEF PullsInv, JobsConsistent
  <2>3. stalled' => current # 0 /\ job[current].aborted /\ current \in Ids'
    BY <1>1, <1>4 DEF PullsInv, JobsConsistent, OneRuns
  <2>4. current # 0 => current' = current
    BY DEF StartPull
  <2>5. stalled' => job'[current'].aborted
    BY <1>1, <1>4, <2>3, <2>4
  <2> QED BY <2>1, <2>2, <2>5 DEF JobsConsistent
<1>9. CASE current = 0
  <2>1. current' = id /\ phase' = "engine" /\ line' = line /\ line = <<>> /\ ~stalled
    BY <1>9 DEF StartPull, PullsInv, OneRuns
  <2>2. first = "running" /\ Len(line) = 0
    BY <1>9, <2>1 DEF first
  <2>3. \A i \in Ids : job[i].status \notin {"queued", "running"}
    BY <1>1, <1>9, <2>1, <2>2 DEF PullsInv, LineIsTheQueue, OneRuns
  <2>4. PullsTypeOK'
    BY <1>4, <1>5, <1>6, <1>7, <2>1 DEF PullsTypeOK
  <2>5. LineIsTheQueue'
    <3>1. DOMAIN line' = {}
      BY <1>1, <2>1, <2>2
    <3>2. \A i \in Ids' : job'[i].status # "queued"
      BY <1>4, <1>5, <2>2, <2>3
    <3> QED BY <3>1, <3>2 DEF LineIsTheQueue
  <2>6. OneRuns'
    <3>1. \A i \in Ids' : job'[i].status = "running" <=> i = id
      BY <1>4, <1>5, <2>2, <2>3
    <3>2. current' # 0
      BY <1>1, <2>1
    <3> QED BY <2>1, <3>1, <3>2 DEF OneRuns
  <2>7. OldestRuns'
    BY <1>1, <2>1, <2>2 DEF OldestRuns
  <2> QED BY <1>8, <2>4, <2>5, <2>6, <2>7 DEF PullsInv
<1>10. CASE current # 0
  <2>1. current' = current /\ phase' = phase /\ line' = Append(line, id)
    BY <1>10 DEF StartPull, Joined
  <2>2. first = "queued"
    BY <1>10 DEF first
  <2>3. /\ line' \in Seq(Ids') /\ Len(line') = Len(line) + 1 /\ DOMAIN line' = 1..(Len(line) + 1)
        /\ \A l \in 1..Len(line) : line'[l] = line[l]
        /\ line'[Len(line) + 1] = id
    BY <1>1, <1>4, <1>6, <2>1
  <2>4. current \in Ids /\ job[current].status = "running" /\ current \in Ids' /\ current < id
    BY <1>1, <1>4, <1>10 DEF PullsInv, OneRuns
  <2>5. PullsTypeOK'
    BY <1>4, <1>5, <1>7, <2>1, <2>3, <2>4 DEF PullsTypeOK, PullsInv
  <2>6. LineIsTheQueue'
    <3>1. \A i \in Ids' : job'[i].status = "queued" => \E k \in DOMAIN line' : line'[k] = i
      <4> SUFFICES ASSUME NEW i \in Ids', job'[i].status = "queued", i # id
                   PROVE  \E k \in DOMAIN line' : line'[k] = i
        <5>1. Len(line) + 1 \in DOMAIN line'
          BY <1>1, <2>3
        <5> QED BY <2>3, <5>1
      <4>1. PICK k \in 1..Len(line) : line[k] = i
        BY <1>1, <1>4 DEF PullsInv, LineIsTheQueue
      <4> QED BY <1>1, <2>3, <4>1
    <3>2. \A k \in DOMAIN line' : job'[line'[k]].status = "queued"
      <4> SUFFICES ASSUME NEW k \in 1..(Len(line) + 1) PROVE job'[line'[k]].status = "queued"
        BY <2>3
      <4>1. CASE k = Len(line) + 1
        BY <1>5, <2>2, <2>3, <4>1
      <4>2. CASE k \in 1..Len(line)
        <5>1. line'[k] = line[k] /\ line[k] \in Ids /\ job[line[k]].status = "queued"
          BY <1>1, <2>3, <4>2
        <5>2. line[k] \in Ids' /\ line[k] # id
          BY <1>4, <5>1
        <5> QED BY <1>4, <5>1, <5>2
      <4> QED BY <1>1, <4>1, <4>2
    <3>3. \A k, l \in DOMAIN line' : k < l => line'[k] < line'[l]
      <4> SUFFICES ASSUME NEW k \in 1..(Len(line) + 1), NEW l \in 1..(Len(line) + 1), k < l
                   PROVE  line'[k] < line'[l]
        BY <2>3
      <4>1. k \in 1..Len(line) /\ line'[k] = line[k] /\ line[k] < id
        BY <1>1, <2>3
      <4>2. CASE l = Len(line) + 1
        BY <2>3, <4>1, <4>2
      <4>3. CASE l \in 1..Len(line)
        BY <1>1, <2>3, <4>1, <4>3 DEF PullsInv, LineIsTheQueue
      <4> QED BY <1>1, <4>2, <4>3
    <3> QED BY <3>1, <3>2, <3>3 DEF LineIsTheQueue
  <2>7. OneRuns'
    <3>1. \A i \in Ids' : job'[i].status = "running" <=> i = current
      <4> SUFFICES ASSUME NEW i \in Ids' PROVE job'[i].status = "running" <=> i = current
        OBVIOUS
      <4>1. CASE i = id
        BY <1>5, <2>2, <2>4, <1>1, <4>1
      <4>2. CASE i # id
        BY <1>4, <4>2 DEF PullsInv, OneRuns
      <4> QED BY <4>1, <4>2
    <3> QED BY <1>10, <2>1, <3>1 DEF OneRuns, PullsInv
  <2>8. OldestRuns'
    <3> SUFFICES ASSUME NEW k \in 1..(Len(line) + 1) PROVE current < line'[k]
      BY <2>1, <2>3 DEF OldestRuns
    <3>1. CASE k = Len(line) + 1
      BY <2>3, <2>4, <3>1
    <3>2. CASE k \in 1..Len(line)
      BY <1>1, <1>10, <2>3, <3>2 DEF PullsInv, OldestRuns
    <3> QED BY <1>1, <3>1, <3>2
  <2> QED BY <1>8, <2>5, <2>6, <2>7, <2>8 DEF PullsInv
<1> QED BY <1>9, <1>10

(* What a step needs to show that changes nothing of the jobs but how far  *)
(* their aborts have come.                                                 *)
LEMMA AbortingKeeps ==
  ASSUME PullsInv, UNCHANGED <<started, line, current>>,
         DOMAIN job' = Ids,
         job' \in [Ids -> [name : Names, status : Statuses, aborted : BOOLEAN]],
         \A i \in Ids : job'[i].name = job[i].name /\ job'[i].status = job[i].status,
         \A i \in Ids : job'[i].aborted => job[i].status \in {"queued", "running"},
         phase' \in {"none", "engine", "pull"}, phase' = "none" <=> current = 0,
         stalled' \in BOOLEAN, stalled' => current # 0 /\ job'[current].aborted,
         progress' \in 0..MaxProgress
  PROVE  PullsInv'
<1>1. PullsTypeOK'
  BY DEF PullsInv, PullsTypeOK
<1>2. LineIsTheQueue' /\ OldestRuns'
  BY DEF PullsInv, PullsTypeOK, LineIsTheQueue, OldestRuns
<1>3. OneRuns'
  BY DEF PullsInv, OneRuns
<1>4. JobsConsistent'
  BY DEF PullsInv, JobsConsistent
<1> QED BY <1>1, <1>2, <1>3, <1>4 DEF PullsInv

LEMMA AbortAllKeeps ==
  ASSUME PullsInv, AbortAll
  PROVE  PullsInv'
<1>1. /\ UNCHANGED <<started, line, current, phase, stalled, progress>>
      /\ job' = [i \in Ids |-> [job[i] EXCEPT !.aborted = (i \in Unfinished)]]
      /\ \A i \in Ids : job[i] \in [name : Names, status : Statuses, aborted : BOOLEAN]
  BY DEF AbortAll, PullsInv, PullsTypeOK
<1>2. \A i \in Ids :
        /\ job'[i].name = job[i].name /\ job'[i].status = job[i].status
        /\ job'[i].aborted <=> i \in Unfinished
        /\ job'[i] \in [name : Names, status : Statuses, aborted : BOOLEAN]
  <2> SUFFICES ASSUME NEW i \in Ids
               PROVE  /\ job'[i].name = job[i].name /\ job'[i].status = job[i].status
                      /\ job'[i].aborted <=> i \in Unfinished
                      /\ job'[i] \in [name : Names, status : Statuses, aborted : BOOLEAN]
    OBVIOUS
  <2> DEFINE b == i \in Unfinished
  <2>1. b \in BOOLEAN /\ job'[i] = [job[i] EXCEPT !.aborted = b]
    BY <1>1
  <2> HIDE DEF b
  <2>2. /\ job'[i].name = job[i].name /\ job'[i].status = job[i].status
        /\ job'[i].aborted = b
        /\ job'[i] \in [name : Names, status : Statuses, aborted : BOOLEAN]
    BY <1>1, <2>1
  <2> QED BY <2>2 DEF b
<1>3. /\ phase' = "none" <=> current = 0
      /\ stalled' => current # 0 /\ job'[current].aborted
      /\ phase' \in {"none", "engine", "pull"} /\ stalled' \in BOOLEAN /\ progress' \in 0..MaxProgress
  BY <1>1, <1>2 DEF PullsInv, PullsTypeOK, OneRuns, JobsConsistent
<1>4. DOMAIN job' = Ids /\ job' \in [Ids -> [name : Names, status : Statuses, aborted : BOOLEAN]]
  BY <1>1, <1>2
<1> QED BY <1>1, <1>2, <1>3, <1>4, AbortingKeeps

(* One job that waits or runs is aborted. *)
LEMMA AbortOneKeeps ==
  ASSUME PullsInv, UNCHANGED <<started, line, current, phase, progress>>,
         NEW i \in Unfinished, job' = [job EXCEPT ![i].aborted = TRUE],
         stalled' \in BOOLEAN, stalled' => stalled \/ i = current
  PROVE  PullsInv'
<1>1. \A k \in Ids : job[k] \in [name : Names, status : Statuses, aborted : BOOLEAN]
  BY DEF PullsInv, PullsTypeOK
<1>2. /\ \A k \in Ids : k # i => job'[k] = job[k]
      /\ job'[i] = [job[i] EXCEPT !.aborted = TRUE] /\ DOMAIN job' = Ids
      /\ job' = [k \in Ids |-> job'[k]]
  BY <1>1 DEF PullsInv, PullsTypeOK
<1>3. /\ job'[i].name = job[i].name /\ job'[i].status = job[i].status /\ job'[i].aborted
      /\ job'[i] \in [name : Names, status : Statuses, aborted : BOOLEAN]
  BY <1>1, <1>2
<1>4. job' \in [Ids -> [name : Names, status : Statuses, aborted : BOOLEAN]]
  BY <1>1, <1>2, <1>3
<1>5. /\ phase' = "none" <=> current = 0
      /\ phase' \in {"none", "engine", "pull"} /\ progress' \in 0..MaxProgress
      /\ stalled => current # 0 /\ job[current].aborted
      /\ current \in {0} \cup Ids /\ 0 \notin Ids
  BY DEF PullsInv, PullsTypeOK, OneRuns, JobsConsistent
<1>6. stalled' => current # 0 /\ job'[current].aborted
  BY <1>2, <1>3, <1>5
<1>7. \A k \in Ids : /\ job'[k].name = job[k].name /\ job'[k].status = job[k].status
                     /\ job'[k].aborted => job[k].status \in {"queued", "running"}
  BY <1>2, <1>3 DEF PullsInv, JobsConsistent
<1> QED BY <1>2, <1>4, <1>5, <1>6, <1>7, AbortingKeeps

LEMMA StallKeeps ==
  ASSUME PullsInv, Stall
  PROVE  PullsInv'
<1>1. current \in Unfinished
  BY DEF Stall, PullsInv, PullsTypeOK, OneRuns
<1> QED BY <1>1, AbortOneKeeps DEF Stall

(* Out of the line, aborted, or off the list. *)
LEMMA CancelKeeps ==
  ASSUME PullsInv, NEW i \in Ids, Cancel(i)
  PROVE  PullsInv'
<1>1. /\ line \in Seq(Ids) /\ DOMAIN line = 1..Len(line) /\ Len(line) \in Nat
      /\ \A l \in 1..Len(line) : line[l] \in Ids /\ job[line[l]].status = "queued"
      /\ \A l, m \in 1..Len(line) : l < m => line[l] < line[m]
      /\ Ids \subseteq 1..started /\ started \in Nat
      /\ current \in {0} \cup Ids
      /\ current # 0 => job[current].status = "running"
      /\ \A k \in Ids : job[k] \in [name : Names, status : Statuses, aborted : BOOLEAN]
  BY PullsAssumption DEF PullsInv, PullsTypeOK, LineIsTheQueue, OneRuns
<1>2. UNCHANGED <<started, current, phase, stalled, progress>>
  BY DEF Cancel
<1>3. CASE job[i].status = "queued"
  <2> DEFINE k == CHOOSE l \in DOMAIN line : line[l] = i
  <2>1. /\ line' = RemoveAt(line, k)
        /\ job' = [job EXCEPT ![i] = Ended(job[i], "cancelled")]
    BY <1>3 DEF Cancel
  <2>2. k \in 1..Len(line) /\ line[k] = i
    BY <1>1, <1>3 DEF PullsInv, LineIsTheQueue
  <2> HIDE DEF k
  <2>3. /\ line' \in Seq(Ids) /\ Len(line') = Len(line) - 1 /\ DOMAIN line' = 1..(Len(line) - 1)
        /\ \A l \in 1..(Len(line) - 1) : line'[l] = IF l < k THEN line[l] ELSE line[l + 1]
    <3>1. /\ RemoveAt(line, k) \in Seq(Ids) /\ Len(RemoveAt(line, k)) = Len(line) - 1
          /\ \A l \in 1..(Len(line) - 1) : RemoveAt(line, k)[l] = IF l < k THEN line[l] ELSE line[l + 1]
      <4>1. line \in Seq(Ids) /\ k \in 1..Len(line)
        BY <1>1, <2>2
      <4> QED BY <4>1, RemoveAtProperties, Zenon
    <3>2. DOMAIN RemoveAt(line, k) = 1..(Len(line) - 1)
      BY <3>1, LenProperties
    <3> QED BY <2>1, <3>1, <3>2, Zenon
  <2>4. /\ \A l \in Ids : l # i => job'[l] = job[l]
        /\ job'[i] = Job(job[i].name, "cancelled") /\ DOMAIN job' = Ids
        /\ job' = [l \in Ids |-> job'[l]]
    BY <1>1, <2>1 DEF Ended, PullsInv, PullsTypeOK
  <2>5. /\ job'[i].name = job[i].name /\ job'[i].status = "cancelled" /\ ~job'[i].aborted
        /\ job'[i] \in [name : Names, status : Statuses, aborted : BOOLEAN]
    BY <1>1, <2>4 DEF Job
  <2>6. \A l \in Ids : job'[l] \in [name : Names, status : Statuses, aborted : BOOLEAN]
    BY <1>1, <2>4, <2>5
  <2>7. PullsTypeOK'
    BY <1>1, <1>2, <2>3, <2>4, <2>6 DEF PullsInv, PullsTypeOK
  <2>8. \A l \in 1..(Len(line) - 1) :
          \E m \in 1..Len(line) : m # k /\ line'[l] = line[m] /\ (l < k => m = l) /\ (l >= k => m = l + 1)
    <3> SUFFICES ASSUME NEW l \in 1..(Len(line) - 1)
                 PROVE  \E m \in 1..Len(line) :
                          m # k /\ line'[l] = line[m] /\ (l < k => m = l) /\ (l >= k => m = l + 1)
      OBVIOUS
    <3>1. CASE l < k
      <4>1. l \in 1..Len(line) /\ l # k /\ line'[l] = line[l] /\ ~(l >= k)
        BY <1>1, <2>2, <2>3, <3>1
      <4> QED BY <4>1
    <3>2. CASE l >= k
      <4>1. l + 1 \in 1..Len(line) /\ l + 1 # k /\ line'[l] = line[l + 1] /\ ~(l < k)
        BY <1>1, <2>2, <2>3, <3>2
      <4> QED BY <4>1
    <3> QED BY <1>1, <2>2, <3>1, <3>2
  <2>9. \A l, m \in 1..(Len(line) - 1) : l < m => line'[l] < line'[m]
    <3> SUFFICES ASSUME NEW l \in 1..(Len(line) - 1), NEW m \in 1..(Len(line) - 1), l < m
                 PROVE  line'[l] < line'[m]
      OBVIOUS
    <3>1. PICK a \in 1..Len(line) : line'[l] = line[a] /\ (l < k => a = l) /\ (l >= k => a = l + 1)
      BY <2>8
    <3>2. PICK b \in 1..Len(line) : line'[m] = line[b] /\ (m < k => b = m) /\ (m >= k => b = m + 1)
      BY <2>8
    <3>3. a < b
      BY <1>1, <2>2, <3>1, <3>2
    <3> QED BY <1>1, <3>1, <3>2, <3>3
  <2>10. \A l \in 1..(Len(line) - 1) : job'[line'[l]].status = "queued"
    <3> SUFFICES ASSUME NEW l \in 1..(Len(line) - 1) PROVE job'[line'[l]].status = "queued"
      OBVIOUS
    <3>1. PICK m \in 1..Len(line) : m # k /\ line'[l] = line[m]
      BY <2>8
    <3>2. line[m] # i
      <4>1. m < k \/ k < m
        BY <1>1, <2>2, <3>1
      <4> QED BY <1>1, <2>2, <4>1
    <3> QED BY <1>1, <2>4, <3>1, <3>2
  <2>11. \A l \in Ids : job'[l].status = "queued" => \E m \in 1..(Len(line) - 1) : line'[m] = l
    <3> SUFFICES ASSUME NEW l \in Ids, job'[l].status = "queued"
                 PROVE  \E m \in 1..(Len(line) - 1) : line'[m] = l
      OBVIOUS
    <3>1. l # i /\ job[l].status = "queued"
      BY <2>4, <2>5
    <3>2. PICK m \in 1..Len(line) : line[m] = l
      BY <1>1, <3>1 DEF PullsInv, LineIsTheQueue
    <3>3. m # k
      BY <2>2, <3>1, <3>2
    <3>4. CASE m < k
      <4>1. m \in 1..(Len(line) - 1)
        BY <1>1, <2>2, <3>4
      <4> QED BY <2>3, <3>2, <3>4, <4>1
    <3>5. CASE m > k
      <4>1. m - 1 \in 1..(Len(line) - 1) /\ ~(m - 1 < k) /\ (m - 1) + 1 = m
        BY <1>1, <2>2, <3>5
      <4> QED BY <2>3, <3>2, <4>1
    <3> QED BY <1>1, <2>2, <3>3, <3>4, <3>5
  <2>12. LineIsTheQueue'
    BY <2>3, <2>4, <2>9, <2>10, <2>11 DEF LineIsTheQueue
  <2>13. current # 0 /\ i # current
    <3>1. line # <<>>
      BY <1>1, <2>2
    <3> QED BY <1>1, <1>3, <3>1 DEF PullsInv, OneRuns
  <2>14. OneRuns'
    BY <1>2, <2>4, <2>5, <2>13 DEF PullsInv, OneRuns
  <2>15. JobsConsistent'
    <3>1. \A l \in Unfinished' : l \in Unfinished /\ l # i /\ job'[l] = job[l]
      BY <2>4, <2>5
    <3>2. \A l, m \in Unfinished' : job'[l].name = job'[m].name => l = m
      BY <3>1 DEF PullsInv, JobsConsistent
    <3>3. \A l \in Ids' : job'[l].aborted => l \in Unfinished'
      BY <2>4, <2>5 DEF PullsInv, JobsConsistent
    <3>4. stalled' => job'[current'].aborted
      BY <1>1, <1>2, <2>4, <2>13 DEF PullsInv, JobsConsistent
    <3> QED BY <3>2, <3>3, <3>4 DEF JobsConsistent
  <2>16. OldestRuns'
    <3> SUFFICES ASSUME NEW l \in 1..(Len(line) - 1) PROVE current < line'[l]
      BY <1>2, <2>3 DEF OldestRuns
    <3>1. PICK m \in 1..Len(line) : line'[l] = line[m]
      BY <2>8
    <3> QED BY <1>1, <2>13, <3>1 DEF PullsInv, OldestRuns
  <2> QED BY <2>7, <2>12, <2>14, <2>15, <2>16 DEF PullsInv
<1>4. CASE job[i].status = "running"
  <2>1. i \in Unfinished /\ job' = [job EXCEPT ![i].aborted = TRUE] /\ UNCHANGED line
    BY <1>4 DEF Cancel
  <2>2. stalled' \in BOOLEAN /\ stalled' = stalled
    BY <1>2 DEF PullsInv, PullsTypeOK
  <2>3. UNCHANGED <<started, line, current, phase, progress>>
    BY <1>2, <2>1
  <2> HIDE DEF Unfinished
  <2> QED BY <2>1, <2>2, <2>3, AbortOneKeeps
<1>5. CASE job[i].status \notin {"queued", "running"}
  <2>1. job' = [k \in Ids \ {i} |-> job[k]] /\ line' = line
    BY <1>5 DEF Cancel
  <2>2. Ids' = Ids \ {i} /\ \A k \in Ids' : job'[k] = job[k]
    BY <2>1
  <2>3. line \in Seq(Ids') /\ current \in {0} \cup Ids'
    BY <1>1, <1>5, <2>2, SeqOver
  <2>4. PullsTypeOK'
    <3>1. job' \in [Ids' -> [name : Names, status : Statuses, aborted : BOOLEAN]]
      BY <1>1, <2>1, <2>2
    <3> QED BY <1>2, <2>1, <2>2, <2>3, <3>1 DEF PullsInv, PullsTypeOK
  <2>5. LineIsTheQueue'
    BY <1>1, <1>5, <2>1, <2>2 DEF PullsInv, LineIsTheQueue
  <2>6. OneRuns'
    BY <1>2, <2>1, <2>2 DEF PullsInv, OneRuns
  <2>7. JobsConsistent'
    BY <1>2, <2>1, <2>2, <2>3 DEF PullsInv, JobsConsistent, OneRuns
  <2>8. OldestRuns'
    BY <1>2, <2>1, <2>2 DEF PullsInv, OldestRuns
  <2> QED BY <2>4, <2>5, <2>6, <2>7, <2>8 DEF PullsInv
<1> QED BY <1>3, <1>4, <1>5

LEMMA EngineAnswersKeeps ==
  ASSUME PullsInv, EngineAnswers
  PROVE  PullsInv'
<1>1. current # 0 /\ phase = "engine" /\ AbortedAs \in {"failed", "cancelled"}
  BY DEF EngineAnswers, EngineReady, EngineFails, PullsInv, OneRuns, AbortedAs
<1>2. CASE EngineReady /\ ~job[current].aborted
  <2>1. phase' = "pull" /\ UNCHANGED <<started, job, line, current, stalled, progress>>
    BY <1>2 DEF EngineReady
  <2> QED BY <1>1, <2>1 DEF PullsInv, PullsTypeOK, LineIsTheQueue, OneRuns, JobsConsistent, OldestRuns
<1>3. CASE EngineReady /\ job[current].aborted
  BY <1>1, <1>3, FinishKeeps DEF EngineReady
<1>4. CASE EngineFails
  BY <1>1, <1>4, FinishKeeps DEF EngineFails
<1> QED BY <1>2, <1>3, <1>4 DEF EngineAnswers

LEMMA PullStepKeeps ==
  ASSUME PullsInv, PullStep
  PROVE  PullsInv'
<1>1. CASE Progress
  <2>1. progress' \in 0..MaxProgress /\ UNCHANGED <<started, job, line, current, phase, stalled>>
    BY <1>1, PullsAssumption DEF Progress, PullsInv, PullsTypeOK
  <2> QED BY <2>1 DEF PullsInv, PullsTypeOK, LineIsTheQueue, OneRuns, JobsConsistent, OldestRuns
<1>2. CASE \E status \in {"succeeded", "failed"} : PullEnds(status)
  <2>1. current # 0
    BY <1>2 DEF PullEnds, PullsInv, OneRuns
  <2> QED BY <1>2, <2>1, FinishKeeps DEF PullEnds
<1>3. CASE PullAborted
  <2>1. current # 0 /\ AbortedAs \in {"failed", "cancelled"}
    BY <1>3 DEF PullAborted, PullsInv, OneRuns, AbortedAs
  <2> QED BY <1>3, <2>1, FinishKeeps DEF PullAborted
<1>4. CASE Stall
  BY <1>4, StallKeeps
<1> QED BY <1>1, <1>2, <1>3, <1>4 DEF PullStep

LEMMA PullsStuttering ==
  ASSUME PullsInv, UNCHANGED pullsVars
  PROVE  PullsInv'
BY DEF pullsVars, PullsInv, PullsTypeOK, LineIsTheQueue, OneRuns, JobsConsistent, OldestRuns

LEMMA PullsNextKeeps ==
  ASSUME PullsInv, [PullsNext]_pullsVars
  PROVE  PullsInv'
<1>1. CASE \E name \in Names : StartPull(name)
  BY <1>1, StartPullKeeps
<1>2. CASE \E i \in Ids : Cancel(i)
  BY <1>2, CancelKeeps
<1>3. CASE AbortAll
  BY <1>3, AbortAllKeeps
<1>4. CASE EngineAnswers
  BY <1>4, EngineAnswersKeeps
<1>5. CASE PullStep
  BY <1>5, PullStepKeeps
<1>6. CASE UNCHANGED pullsVars
  BY <1>6, PullsStuttering
<1> QED BY <1>1, <1>2, <1>3, <1>4, <1>5, <1>6 DEF PullsNext

(* The downloads alone, whenever the engine answers (pulls.ts): the line   *)
(* holds the queued jobs in the order they were asked for, one job runs    *)
(* and is older than those, and no two unfinished jobs are for one model.  *)
THEOREM PullsInvariant == PullsSpec => []PullsInv
<1>1. PullsInv /\ [PullsNext]_pullsVars => PullsInv'
  BY PullsNextKeeps
<1> QED BY PullsInitInv, <1>1, PTL DEF PullsSpec

(* A running job is the oldest of the unfinished ones. *)
RunningIsOldest ==
  \A i, k \in Ids : job[i].status = "running" /\ k < i => job[k].status \notin {"queued", "running"}

LEMMA OldestIsRunning == PullsInv => RunningIsOldest
<1> SUFFICES ASSUME PullsInv, NEW i \in Ids, job[i].status = "running",
                    NEW k \in Ids, job[k].status \in {"queued", "running"}
             PROVE  ~(k < i)
  BY DEF RunningIsOldest
<1>1. i = current /\ i # 0 /\ i \in Nat /\ k \in Nat
  BY DEF PullsInv, OneRuns, PullsTypeOK
<1>2. CASE job[k].status = "running"
  BY <1>1, <1>2 DEF PullsInv, OneRuns
<1>3. CASE job[k].status = "queued"
  <2>1. PICK l \in DOMAIN line : line[l] = k
    BY <1>3 DEF PullsInv, LineIsTheQueue
  <2> QED BY <1>1, <2>1 DEF PullsInv, OldestRuns
<1> QED BY <1>2, <1>3

(* Downloads begin in the order they were asked for (pulls.ts:104-115),    *)
(* also when some of them leave the line meanwhile.                        *)
THEOREM DownloadsInOrder == PullsSpec => InOrder
<1>1. RunningIsOldest' =>
        [\A i \in DOMAIN job' :
           (job'[i].status = "running" /\ (i \in Ids => job[i].status # "running"))
             => \A k \in DOMAIN job' : k < i => job'[k].status \notin {"queued", "running"}]_pullsVars
  BY DEF RunningIsOldest
<1> QED BY PullsInvariant, OldestIsRunning, <1>1, PTL DEF InOrder

(* What the end of the current job does to the jobs.                       *)
LEMMA FinishEffect ==
  ASSUME PullsInv, current # 0, NEW status \in {"succeeded", "failed", "cancelled"}, Finish(status)
  PROVE  /\ Ids' = Ids
         /\ job'[current].status = status
         /\ \A i \in Ids : job[i].status \notin {"queued", "running"} => job'[i] = job[i]
         /\ \A i \in Ids : job[i].status = "queued" => job'[i].status # "succeeded"
<1> DEFINE k == NextPlace(job)
           next == IF k <= Len(line) THEN line[k] ELSE 0
           skipped == {i \in Ids : \E l \in 1..(k - 1) : l <= Len(line) /\ line[l] = i}
<1>1. /\ job' = [i \in Ids |->
                   IF i = current THEN Ended(job[i], status)
                   ELSE IF i \in skipped THEN Ended(job[i], "cancelled")
                   ELSE IF i = next THEN Job(job[i].name, "running")
                   ELSE job[i]]
      /\ \A i \in Ids : job[i] \in [name : Names, status : Statuses, aborted : BOOLEAN]
  BY DEF Finish, PullsInv, PullsTypeOK
<1>2. /\ current \in Ids /\ job[current].status = "running"
      /\ DOMAIN line = 1..Len(line) /\ Len(line) \in Nat
      /\ \A l \in 1..Len(line) : line[l] \in Ids /\ job[line[l]].status = "queued"
      /\ line \in Seq(Ids) /\ 0 \notin Ids
  BY DEF PullsInv, PullsTypeOK, OneRuns, LineIsTheQueue
<1>3. k \in 1..(Len(line) + 1)
  BY <1>2, NextPlaceIsFirst
<1> HIDE DEF k
<1>4. \A i \in Ids : i \in skipped \/ i = next => job[i].status = "queued"
  BY <1>2, <1>3
<1> HIDE DEF next, skipped
<1>5. \A i \in Ids : job[i].status = "queued" => job'[i].status # "succeeded"
  <2> SUFFICES ASSUME NEW i \in Ids, job[i].status = "queued" PROVE job'[i].status # "succeeded"
    OBVIOUS
  <2>1. i # current
    BY <1>2
  <2>2. \/ job'[i] = Job(job[i].name, "cancelled")
        \/ job'[i] = Job(job[i].name, "running")
        \/ job'[i] = job[i]
    BY <1>1, <2>1 DEF Ended
  <2> QED BY <2>2 DEF Job
<1>6. job'[current].status = status
  BY <1>1, <1>2 DEF Ended, Job
<1>7. Ids' = Ids /\ \A i \in Ids : job[i].status \notin {"queued", "running"} => job'[i] = job[i]
  BY <1>1, <1>2, <1>4
<1> QED BY <1>5, <1>6, <1>7

(* No unfinished job is lost, a finished one stays as it ended, and a job  *)
(* that was aborted, by its user, by the stall timer or by the end of the  *)
(* agent, never counts as succeeded (pulls.ts:84-102, 144-149, 179-182).   *)
THEOREM JobsStaySafe == PullsSpec => JobsAreSafe
<1>1. PullsInv /\ [PullsNext]_pullsVars =>
        [\A i \in Ids :
           /\ i \in Unfinished => i \in DOMAIN job'
           /\ i \in Finished /\ i \in DOMAIN job' => job'[i] = job[i]
           /\ job[i].aborted => job'[i].status # "succeeded"]_pullsVars
  <2> SUFFICES ASSUME PullsInv, PullsNext, NEW i \in Ids
               PROVE  /\ job[i].status \in {"queued", "running"} => i \in DOMAIN job'
                      /\ job[i].status \notin {"queued", "running"} /\ i \in DOMAIN job' => job'[i] = job[i]
                      /\ job[i].aborted => job'[i].status # "succeeded"
    OBVIOUS
  <2>1. /\ job[i].aborted => job[i].status \in {"queued", "running"}
        /\ \A k \in Ids : job[k] \in [name : Names, status : Statuses, aborted : BOOLEAN]
        /\ started \in Nat /\ Ids \subseteq 1..started
        /\ \A k \in Ids : job[k].status = "running" <=> k = current
        /\ current \in {0} \cup Ids /\ 0 \notin Ids
        /\ phase \in {"engine", "pull"} => current # 0
    BY PullsAssumption DEF PullsInv, PullsTypeOK, JobsConsistent, OneRuns
  <2>2. CASE \E name \in Names : StartPull(name)
    <3>1. PICK name \in Names : StartPull(name)
      BY <2>2
    <3> DEFINE id == started + 1
               jobs == [k \in Ids \cup {id} |->
                          IF k # id THEN job[k] ELSE Job(name, IF current = 0 THEN "running" ELSE "queued")]
    <3>2. job' = [k \in (Ids \cup {id}) \ Pruned(jobs) |-> jobs[k]]
      BY <3>1 DEF StartPull
    <3>3. i # id /\ jobs[i] = job[i]
      BY <2>1
    <3>4. i \in Pruned(jobs) => job[i].status \notin {"queued", "running"}
      BY <3>3, PrunedAreFinished
    <3> HIDE DEF jobs
    <3>5. i \in DOMAIN job' <=> i \notin Pruned(jobs)
      BY <3>2
    <3>6. i \in DOMAIN job' => job'[i] = job[i]
      BY <3>2, <3>3
    <3> QED BY <2>1, <3>4, <3>5, <3>6
  <2>3. CASE \E k \in Ids : Cancel(k)
    <3>1. PICK k \in Ids : Cancel(k)
      BY <2>3
    <3>2. CASE job[k].status = "queued"
      <4>1. job' = [job EXCEPT ![k] = Ended(job[k], "cancelled")]
        BY <3>1, <3>2 DEF Cancel
      <4> QED BY <2>1, <3>2, <4>1 DEF Ended, Job
    <3>3. CASE job[k].status = "running"
      <4>1. job' = [job EXCEPT ![k].aborted = TRUE]
        BY <3>1, <3>3 DEF Cancel
      <4>2. DOMAIN job' = Ids /\ (i # k => job'[i] = job[i]) /\ (i = k => job'[i].status = "running")
        BY <2>1, <3>3, <4>1
      <4> QED BY <2>1, <3>3, <4>2
    <3>4. CASE job[k].status \notin {"queued", "running"}
      <4>1. job' = [l \in Ids \ {k} |-> job[l]]
        BY <3>1, <3>4 DEF Cancel
      <4>2. i # k => i \in DOMAIN job' /\ job'[i] = job[i]
        BY <4>1
      <4>3. i = k => i \notin DOMAIN job'
        BY <4>1
      <4> QED BY <2>1, <3>4, <4>2, <4>3
    <3> QED BY <3>2, <3>3, <3>4
  <2>4. CASE AbortAll
    <3>1. /\ i \in DOMAIN job'
          /\ job'[i] = [job[i] EXCEPT !.aborted = (i \in Unfinished)]
      BY <2>4 DEF AbortAll
    <3>2. job'[i].status = job[i].status
      BY <2>1, <3>1
    <3>3. job[i].status \notin {"queued", "running"} => ~job[i].aborted /\ ~(i \in Unfinished)
      BY <2>1
    <3>4. job[i].status \notin {"queued", "running"} => job'[i] = job[i]
      BY <2>1, <3>1, <3>3
    <3> QED BY <2>1, <3>1, <3>2, <3>4
  <2>5. CASE \E status \in {"succeeded", "failed", "cancelled"} :
               /\ current # 0 /\ Finish(status)
               /\ job[current].aborted => status # "succeeded"
    <3>1. PICK status \in {"succeeded", "failed", "cancelled"} :
               /\ current # 0 /\ Finish(status)
               /\ job[current].aborted => status # "succeeded"
      BY <2>5
    <3>2. /\ Ids' = Ids
          /\ job'[current].status = status
          /\ \A l \in Ids : job[l].status \notin {"queued", "running"} => job'[l] = job[l]
          /\ \A l \in Ids : job[l].status = "queued" => job'[l].status # "succeeded"
      BY <3>1, FinishEffect
    <3> QED BY <2>1, <3>1, <3>2
  <2>6. CASE UNCHANGED job
    BY <2>1, <2>6
  <2>7. CASE EngineAnswers
    <3>1. AbortedAs \in {"failed", "cancelled"}
      BY DEF AbortedAs
    <3> QED BY <2>1, <2>5, <2>6, <2>7, <3>1 DEF EngineAnswers, EngineReady, EngineFails
  <2>8. CASE PullStep
    <3>1. AbortedAs \in {"failed", "cancelled"}
      BY DEF AbortedAs
    <3>2. CASE Progress
      BY <2>6, <3>2 DEF Progress
    <3>3. CASE \E status \in {"succeeded", "failed"} : PullEnds(status)
      BY <2>1, <2>5, <3>3 DEF PullEnds
    <3>4. CASE PullAborted
      BY <2>1, <2>5, <3>1, <3>4 DEF PullAborted
    <3>5. CASE Stall
      <4>1. current \in Ids /\ job' = [job EXCEPT ![current].aborted = TRUE]
        BY <2>1, <3>5 DEF Stall
      <4>2. DOMAIN job' = Ids /\ (i # current => job'[i] = job[i]) /\ (i = current => job'[i].status = "running")
        BY <2>1, <4>1
      <4> QED BY <2>1, <4>2
    <3> QED BY <2>8, <3>2, <3>3, <3>4, <3>5 DEF PullStep
  <2> QED BY <2>2, <2>3, <2>4, <2>7, <2>8 DEF PullsNext
<1> QED BY PullsInvariant, <1>1, PTL DEF PullsSpec, JobsAreSafe

-----------------------------------------------------------------------------
(* Both together. *)

(* When run() begins for a job, its phase is "engine", and only then.      *)
LEMMA FinishBegins ==
  ASSUME PullsInv, current # 0, NEW status \in {"succeeded", "failed", "cancelled"}, Finish(status)
  PROVE  /\ phase' = "engine" <=> Begins
         /\ phase' \in {"engine", "none"}
<1>1. PullsInv'
  BY FinishKeeps
<1>2. current \in Ids /\ Ids' = Ids /\ job'[current].status = status
  BY DEF Finish, Ended, Job, PullsInv, PullsTypeOK
<1>3. current' # current
  BY <1>1, <1>2 DEF PullsInv, OneRuns
<1>4. phase' = IF current' = 0 THEN "none" ELSE "engine"
  BY DEF Finish
<1> QED BY <1>3, <1>4 DEF Begins

LEMMA EngineAnswersBegins ==
  ASSUME PullsInv, EngineAnswers
  PROVE  phase' = "engine" <=> Begins
<1>1. current # 0 /\ phase = "engine" /\ AbortedAs \in {"failed", "cancelled"}
  BY DEF EngineAnswers, EngineReady, EngineFails, PullsInv, OneRuns, AbortedAs
<1>2. CASE EngineReady /\ ~job[current].aborted
  BY <1>2 DEF EngineReady, Begins
<1>3. CASE EngineReady /\ job[current].aborted
  BY <1>1, <1>3, FinishBegins DEF EngineReady
<1>4. CASE EngineFails
  BY <1>1, <1>4, FinishBegins DEF EngineFails
<1> QED BY <1>2, <1>3, <1>4 DEF EngineAnswers

(* Every other step of the downloads leaves the wait alone or begins one.  *)
LEMMA PullsMoveBegins ==
  ASSUME PullsInv, (\E name \in Names : StartPull(name)) \/ (\E i \in Ids : Cancel(i)) \/ PullStep
  PROVE  IF Begins THEN phase # "engine" /\ phase' = "engine"
                   ELSE phase' = "engine" <=> phase = "engine"
<1>1. CASE \E name \in Names : StartPull(name)
  BY <1>1 DEF StartPull, Begins, PullsInv, OneRuns, PullsTypeOK
<1>2. CASE \E i \in Ids : Cancel(i)
  BY <1>2 DEF Cancel, Begins
<1>3. CASE Progress \/ Stall
  BY <1>3 DEF Progress, Stall, Begins
<1>4. CASE \E status \in {"succeeded", "failed"} : PullEnds(status)
  <2>1. current # 0 /\ phase = "pull"
    BY <1>4 DEF PullEnds, PullsInv, OneRuns
  <2> QED BY <1>4, <2>1, FinishBegins DEF PullEnds
<1>5. CASE PullAborted
  <2>1. current # 0 /\ phase = "pull" /\ AbortedAs \in {"failed", "cancelled"}
    BY <1>5 DEF PullAborted, PullsInv, OneRuns, AbortedAs
  <2> QED BY <1>5, <2>1, FinishBegins DEF PullAborted
<1> QED BY <1>1, <1>2, <1>3, <1>4, <1>5 DEF PullStep

(* Together: the invariants of both parts, and run() waits for the engine  *)
(* exactly while it is one of the callers that the engine knows, across    *)
(* the moment a start ends and the next job asks for another one           *)
(* (pulls.ts:137, ollama.ts:60-65).                                        *)
THEOREM WorkInvariant == Spec => []WorkInv
<1>1. Init => WorkInv
  BY PullsInitInv, EngineInitInv DEF Init, WorkInv, RunWaits, PullsInit, EngineInit
<1>2. WorkInv /\ [Next]_vars => WorkInv'
  <2> SUFFICES ASSUME WorkInv, [Next]_vars PROVE WorkInv'
    OBVIOUS
  <2> USE PullerAssumption DEF WorkInv
  <2>1. CASE PullsMove
    <3>1. PullsInv'
      BY <2>1, StartPullKeeps, CancelKeeps, PullStepKeeps DEF PullsMove
    <3>2. EngineInv'
      BY <2>1, EnsureKeeps, EngineStuttering DEF PullsMove
    <3>3. agent' = agent /\ awaiting' = IF Begins THEN awaiting \cup {Puller} ELSE awaiting
      BY <2>1 DEF PullsMove, Ensure, engineRest, engineVars, starting
    <3>4. IF Begins THEN phase' = "engine" ELSE phase' = "engine" <=> phase = "engine"
      BY <2>1, PullsMoveBegins DEF PullsMove
    <3> QED BY <3>1, <3>2, <3>3, <3>4 DEF RunWaits
  <2>2. CASE \E c \in Callers : RequestAsks(c)
    BY <2>2, EnsureKeeps, PullsStuttering DEF RequestAsks, Ensure, RunWaits, engineRest, pullsVars
  <2>3. CASE StartEnds
    <3>1. PICK again \in SUBSET {Puller} :
            /\ Answered(again) \/ Failed(again)
            /\ Puller \in awaiting => EngineAnswers
            /\ Puller \notin awaiting => UNCHANGED pullsVars
            /\ again = IF Begins THEN {Puller} ELSE {}
      BY <2>3 DEF StartEnds, EngineAnswers
    <3>2. EngineInv'
      BY <3>1, StartEndsKeeps
    <3>3. PullsInv'
      BY <3>1, EngineAnswersKeeps, PullsStuttering
    <3>4. agent' = agent /\ awaiting' = again
      BY <3>1 DEF Answered, Failed, Adopt, Ready, MayNotStart, ChildFailed, StartTimesOut, Settled, engineRest
    <3>5. CASE Puller \in awaiting
      BY <3>1, <3>2, <3>3, <3>4, <3>5, EngineAnswersBegins DEF RunWaits
    <3>6. CASE Puller \notin awaiting
      <4>1. phase' = phase /\ ~Begins
        BY <3>1, <3>6 DEF pullsVars, Begins
      <4> QED BY <3>1, <3>2, <3>3, <3>4, <3>6, <4>1 DEF RunWaits
    <3> QED BY <3>5, <3>6
  <2>4. CASE Spawn /\ UNCHANGED pullsVars
    BY <2>4, SpawnKeeps, PullsStuttering DEF Spawn, RunWaits, pullsVars
  <2>5. CASE ProcessStep /\ UNCHANGED pullsVars
    <3>1. UNCHANGED <<agent, awaiting>>
      BY <2>5 DEF ProcessStep, Exit, Listen, Die, OtherStarts, starting
    <3> QED BY <2>5, <3>1, ProcessStepKeeps, PullsStuttering DEF RunWaits, pullsVars
  <2>6. CASE Close /\ AbortAll
    BY <2>6, AgentEndsKeeps, AbortAllKeeps DEF Close, AbortAll, RunWaits, starting
  <2>7. CASE Stop /\ UNCHANGED pullsVars
    BY <2>7, AgentEndsKeeps, PullsStuttering DEF Stop, RunWaits, starting, pullsVars
  <2>8. CASE Gone /\ UNCHANGED pullsVars
    BY <2>8, AgentEndsKeeps, PullsStuttering DEF Gone, RunWaits
  <2>9. CASE UNCHANGED vars
    BY <2>9, EngineStuttering, PullsStuttering DEF vars, RunWaits, pullsVars, engineVars, starting
  <2> QED BY <2>1, <2>2, <2>3, <2>4, <2>5, <2>6, <2>7, <2>8, <2>9 DEF Next
<1> QED BY <1>1, <1>2, PTL DEF Spec
=============================================================================
