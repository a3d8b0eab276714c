----------------------------- MODULE NodeManager -----------------------------
(***************************************************************************)
(* The hub's view of one machine that sleeps (gate/src/node.ts), and the   *)
(* requests that need it on their way through callOnce() and attempt()     *)
(* (gate/src/chat.ts).                                                     *)
(*                                                                         *)
(* Every `await` on the network or a timer separates two actions; whatever *)
(* follows in microtasks belongs to the action before.  A health check is  *)
(* two actions, the machine's answer and its arrival: an answer may be old *)
(* by the time the hub acts on it.                                         *)
(***************************************************************************)
EXTENDS Integers, FiniteSets

CONSTANTS
  Requests,        \* requests that can be under way at once
  Eager,           \* those whose priority reaches minWakePriority
  MaxConcurrency,  \* the provider's max_concurrency
  MaxPolls         \* health checks that fit into bootTimeoutMs

ASSUME NodeAssumption ==
  /\ IsFiniteSet(Requests) /\ Eager \subseteq Requests
  /\ MaxConcurrency \in Nat \ {0}
  /\ MaxPolls \in Nat \ {0}

VARIABLES
  up,         \* whether the machine answers
  status,     \* State.status
  fresh,      \* now - lastProbeAt < TRUST_MS
  inflight,   \* State.inflight
  idleLong,   \* now - lastActivityAt >= idleShutdownMinutes
  retryOver,  \* now >= shutdownRetryAt
  wake,       \* where the run behind State.waking stands; "none": null
  polls,      \* health checks that run has made
  tick,       \* where the monitor stands with this machine
  visitor,    \* a health check by model sync, or a call of the admin API to the agent
  req         \* where each request stands

view == <<status, fresh>>
waker == <<wake, polls>>
monitor == <<retryOver, tick>>
served == <<inflight, idleLong, req>>
vars == <<up, view, served, monitor, waker, visitor>>

Stages == {"idle", "probing", "alive", "dead", "waiting", "queued", "calling", "streaming"}

(* No request of this name.  `again`: attempt() is in its second pass,     *)
(* after the machine was lost.  `aborted`: the client has gone.            *)
Idle == [stage |-> "idle", again |-> FALSE, aborted |-> FALSE]

Serving == {r \in Requests : req[r].stage \in {"calling", "streaming"}}
Underway == {r \in Requests : req[r].stage # "idle"}

-----------------------------------------------------------------------------
(* What the hub notes about the machine.                                   *)

(* probe(), from the answer on. *)
ProbeResult(alive) ==
  /\ fresh' = TRUE
  /\ status' = IF alive THEN "online" ELSE IF status = "waking" THEN "waking" ELSE "asleep"

markUp == status' = "online" /\ fresh' = TRUE

markDown == status' = "asleep" /\ fresh' = FALSE

wentToSleep == status' = "unknown" /\ fresh' = FALSE

-----------------------------------------------------------------------------
(* The way of requests to a slot and from it.  The order of the line is    *)
(* PriorityLimiter's subject; here any queued request may be next.         *)

(* Where request r stands when it moves on. *)
At(r, to) == IF to = "idle" THEN Idle ELSE [req[r] EXCEPT !.stage = to]

(* Given where the requests stand and how many slots are taken, the free   *)
(* slots are granted, and begin() runs for whoever gets one.  `quiet` says *)
(* whether the idle clock would otherwise go on.                           *)
Grant(at, taken, quiet) ==
  LET line == {r \in Requests : at[r].stage = "queued"}
      free == MaxConcurrency - taken
      n == IF Cardinality(line) < free THEN Cardinality(line) ELSE free
  IN  \E next \in SUBSET line :
        /\ Cardinality(next) = n
        /\ req' = [r \in Requests |-> IF r \in next THEN [at[r] EXCEPT !.stage = "calling"] ELSE at[r]]
        /\ inflight' = taken + n
        /\ idleLong' = (idleLong /\ quiet /\ next = {})

(* ensure() is satisfied: the requests of R take a slot or join the line.  *)
(* A client that has gone is noticed now.                                  *)
Enter(R) ==
  Grant([r \in Requests |->
           IF r \in R THEN At(r, IF req[r].aborted THEN "idle" ELSE "queued") ELSE req[r]],
        inflight, TRUE)

(* The `finally` of callOnce(): end(), and the slot goes on. *)
Leave(r, next) ==
  Grant([req EXCEPT ![r] = next], IF inflight > 0 THEN inflight - 1 ELSE 0, FALSE)

Move(r, to) ==
  /\ req' = [req EXCEPT ![r] = At(r, to)]
  /\ UNCHANGED <<inflight, idleLong>>

(* ensure() for a machine that is not trusted. *)
Look == IF wake # "none" THEN "waiting" ELSE "probing"

-----------------------------------------------------------------------------
Init ==
  /\ up \in BOOLEAN
  /\ status = "unknown" /\ fresh = FALSE
  /\ inflight = 0 /\ idleLong = FALSE /\ req = [r \in Requests |-> Idle]
  /\ retryOver = TRUE /\ tick = "none"
  /\ wake = "none" /\ polls = 0
  /\ visitor = "none"

(* A request for a model of this machine has been admitted. *)
Arrive(r) ==
  /\ req[r].stage = "idle"
  /\ IF status = "online" /\ fresh THEN Enter({r}) ELSE Move(r, Look)
  /\ UNCHANGED <<up, view, monitor, waker, visitor>>

(* The machine's answer to the health check of ensure(), or its silence; a *)
(* machine that is up may still fail it.                                   *)
MachineAnswers(r, alive) ==
  /\ req[r].stage = "probing"
  /\ alive => up
  /\ Move(r, IF alive THEN "alive" ELSE "dead")
  /\ UNCHANGED <<up, view, monitor, waker, visitor>>

(* ensure() after a health check that went well. *)
HearAlive(r) ==
  /\ req[r].stage = "alive"
  /\ ProbeResult(TRUE)
  /\ Enter({r})
  /\ UNCHANGED <<up, monitor, waker, visitor>>

(* wake(): the status changes and the first packet is on its way. *)
StartWake ==
  /\ wake' = "sending" /\ polls' = 0
  /\ status' = "waking"

(* ensure() after one that did not: wake the machine, if this request may. *)
(* A client that has left by then starts the wake, and does not wait.      *)
HearDead(r) ==
  /\ req[r].stage = "dead"
  /\ fresh' = TRUE
  /\ IF r \in Eager
     THEN /\ IF wake = "none" THEN StartWake ELSE ProbeResult(FALSE) /\ UNCHANGED waker
          /\ Move(r, IF req[r].aborted THEN "idle" ELSE "waiting")
     ELSE /\ ProbeResult(FALSE)
          /\ Move(r, "idle")
          /\ UNCHANGED waker
  /\ UNCHANGED <<up, monitor, visitor>>

(* The first byte of an answer, or all of one that is not streamed or      *)
(* whose client has gone.                                                  *)
ModelAnswers(r, streamed) ==
  /\ req[r].stage = "calling" /\ up
  /\ streamed => ~req[r].aborted
  /\ markUp
  /\ IF streamed THEN Move(r, "streaming") ELSE Leave(r, Idle)
  /\ UNCHANGED <<up, monitor, waker, visitor>>

(* The call ends: the stream is complete, or the provider fails in any way *)
(* other than not being reachable.                                         *)
CallEnds(r) ==
  /\ req[r].stage \in {"calling", "streaming"}
  /\ Leave(r, Idle)
  /\ UNCHANGED <<up, view, monitor, waker, visitor>>

(* A likely mistake: every loss is taken for the first. *)
RetryForEver(r) ==
  /\ req[r].stage = "calling"
  /\ markDown
  /\ Leave(r, [At(r, Look) EXCEPT !.again = TRUE])
  /\ UNCHANGED <<up, monitor, waker, visitor>>

(* No connection: the machine is marked down and looked for once more. *)
LoseMachine(r) ==
  /\ req[r].stage = "calling" /\ ~req[r].again /\ ~req[r].aborted
  /\ markDown
  /\ Leave(r, [At(r, Look) EXCEPT !.again = TRUE])
  /\ UNCHANGED <<up, monitor, waker, visitor>>

(* No connection again: node_connection_lost. *)
LoseAgain(r) ==
  /\ req[r].stage = "calling" /\ req[r].again /\ ~req[r].aborted
  /\ Leave(r, Idle)
  /\ UNCHANGED <<up, view, monitor, waker, visitor>>

(* The client hangs up.  Neither a health check is interrupted nor the     *)
(* reading of a body after the headers, which RequestRun tells apart.      *)
Abort(r) ==
  /\ r \in Underway /\ ~req[r].aborted
  /\ \/ req[r].stage \in {"waiting", "queued"} /\ Move(r, "idle")
     \/ r \in Serving /\ Leave(r, Idle)
     \/ /\ req[r].stage \in {"probing", "alive", "dead", "calling"}
        /\ req' = [req EXCEPT ![r].aborted = TRUE]
        /\ UNCHANGED <<inflight, idleLong>>
  /\ UNCHANGED <<up, view, monitor, waker, visitor>>

-----------------------------------------------------------------------------
(* The run of wake().                                                      *)

(* POST /providers/:id/wake. *)
AdminWakes ==
  /\ wake = "none"
  /\ StartWake
  /\ UNCHANGED <<up, fresh, served, monitor, visitor>>

(* The promise of the run is settled; whoever waited for it goes on. *)
WakeSettled(success) ==
  LET waiters == {r \in Requests : req[r].stage = "waiting"}
  IN  /\ wake' = "none" /\ polls' = 0
      /\ IF success THEN Enter(waiters)
         ELSE /\ req' = [r \in Requests |-> IF r \in waiters THEN Idle ELSE req[r]]
              /\ UNCHANGED <<inflight, idleLong>>

MagicSent ==
  /\ wake = "sending"
  /\ wake' = "pausing"
  /\ UNCHANGED <<up, view, polls, served, monitor, visitor>>

(* A likely mistake: the failure is passed on, and the status forgotten. *)
WakeFailsLeavingStatus ==
  /\ wake = "sending"
  /\ WakeSettled(FALSE)
  /\ UNCHANGED <<up, view, monitor, visitor>>

(* The packet cannot be sent: wol_failed. *)
WakeFails ==
  /\ wake = "sending"
  /\ status' = IF status = "waking" THEN "asleep" ELSE status
  /\ WakeSettled(FALSE)
  /\ UNCHANGED <<up, fresh, monitor, visitor>>

(* pollIntervalMs later: probeDuringWake(). *)
WakePolls ==
  /\ wake = "pausing"
  /\ wake' = "probing" /\ polls' = polls + 1
  /\ status' = "waking"
  /\ UNCHANGED <<up, fresh, served, monitor, visitor>>

WakeAnswered(alive) ==
  /\ wake = "probing"
  /\ alive => up
  /\ wake' = IF alive THEN "alive" ELSE "dead"
  /\ UNCHANGED <<up, view, polls, served, monitor, visitor>>

WakeSucceeds ==
  /\ wake = "alive"
  /\ ProbeResult(TRUE)
  /\ WakeSettled(TRUE)
  /\ UNCHANGED <<up, monitor, visitor>>

(* A likely mistake: the deadline counts from the latest packet. *)
WakeGoesOnAnew ==
  /\ wake = "dead"
  /\ ProbeResult(FALSE)
  /\ wake' = "sending" /\ polls' = 0
  /\ UNCHANGED <<up, served, monitor, visitor>>

(* Not up yet, and there is time left: sometimes another packet is due. *)
WakeGoesOn ==
  /\ wake = "dead" /\ polls < MaxPolls
  /\ ProbeResult(FALSE)
  /\ wake' \in {"sending", "pausing"}
  /\ UNCHANGED <<up, polls, served, monitor, visitor>>

(* bootTimeoutMs is over: node_unavailable. *)
WakeTimesOut ==
  /\ wake = "dead"
  /\ status' = "asleep" /\ fresh' = TRUE
  /\ WakeSettled(FALSE)
  /\ UNCHANGED <<up, monitor, visitor>>

WakeStep ==
  \/ MagicSent
  \/ WakeFails
  \/ WakePolls
  \/ \E alive \in BOOLEAN : WakeAnswered(alive)
  \/ WakeSucceeds
  \/ WakeGoesOn
  \/ WakeTimesOut

-----------------------------------------------------------------------------
(* The monitor, tick().                                                    *)

TickStarts ==
  /\ tick = "none" /\ wake = "none"
  /\ tick' = "probing"
  /\ UNCHANGED <<up, view, served, retryOver, waker, visitor>>

TickAnswered(alive) ==
  /\ tick = "probing"
  /\ alive => up
  /\ tick' = IF alive THEN "alive" ELSE "dead"
  /\ UNCHANGED <<up, view, served, retryOver, waker, visitor>>

(* A likely mistake: the clock alone decides. *)
IdleByTheClock == retryOver /\ idleLong

(* What the monitor asks about a machine that has just answered. *)
IdleEnough == inflight = 0 /\ retryOver /\ idleLong

TickHears ==
  /\ tick \in {"alive", "dead"}
  /\ ProbeResult(tick = "alive")
  /\ tick' = IF tick = "alive" /\ IdleEnough THEN "asking" ELSE "none"
  /\ UNCHANGED <<up, served, retryOver, waker, visitor>>

(* requestShutdown() has its answer; an error counts as a no. *)
ShutdownAnswered(allow) ==
  /\ tick = "asking"
  /\ tick' = "none"
  /\ IF allow THEN wentToSleep /\ UNCHANGED retryOver
     ELSE retryOver' = FALSE /\ UNCHANGED view
  /\ UNCHANGED <<up, served, waker, visitor>>

-----------------------------------------------------------------------------
(* Others who talk to the machine: the model sync probes a machine that is *)
(* not online, the admin API calls the agent at any time.                  *)

VisitorStarts ==
  /\ visitor = "none"
  /\ \/ status # "online" /\ visitor' = "probing"
     \/ visitor' = "calling"
  /\ UNCHANGED <<up, view, served, monitor, waker>>

VisitorAnswered(alive) ==
  /\ visitor \in {"probing", "calling"}
  /\ alive => up
  /\ visitor' = CASE visitor = "probing" -> IF alive THEN "alive" ELSE "dead"
                  [] visitor = "calling" -> IF alive THEN "called" ELSE "none"
  /\ UNCHANGED <<up, view, served, monitor, waker>>

VisitorHears(allow) ==
  /\ visitor \in {"alive", "dead", "called"}
  /\ visitor' = "none"
  /\ IF visitor # "called" THEN ProbeResult(visitor = "alive")
     ELSE IF allow THEN wentToSleep ELSE markUp
  /\ UNCHANGED <<up, served, monitor, waker>>

-----------------------------------------------------------------------------
(* Time, and the machine: it may boot, sleep or lose power whenever.       *)

TrustExpires == fresh /\ fresh' = FALSE /\ UNCHANGED <<up, status, served, monitor, waker, visitor>>

IdleTimePasses ==
  /\ ~idleLong /\ idleLong' = TRUE
  /\ UNCHANGED <<up, view, inflight, req, monitor, waker, visitor>>

RetryTimePasses ==
  /\ ~retryOver /\ retryOver' = TRUE
  /\ UNCHANGED <<up, view, served, tick, waker, visitor>>

MachineSwitches == up' = ~up /\ UNCHANGED <<view, served, monitor, waker, visitor>>

CallOver(r) ==
  \/ \E streamed \in BOOLEAN : ModelAnswers(r, streamed)
  \/ CallEnds(r)
  \/ LoseMachine(r)
  \/ LoseAgain(r)

ProbeOver(r) ==
  \/ \E alive \in BOOLEAN : MachineAnswers(r, alive)
  \/ HearAlive(r)
  \/ HearDead(r)

Next ==
  \/ \E r \in Requests : Arrive(r) \/ ProbeOver(r) \/ CallOver(r) \/ Abort(r)
  \/ AdminWakes
  \/ WakeStep
  \/ TickStarts
  \/ \E alive \in BOOLEAN : TickAnswered(alive)
  \/ TickHears
  \/ \E allow \in BOOLEAN : ShutdownAnswered(allow)
  \/ VisitorStarts
  \/ \E alive \in BOOLEAN : VisitorAnswered(alive) \/ VisitorHears(alive)
  \/ TrustExpires
  \/ IdleTimePasses
  \/ RetryTimePasses
  \/ MachineSwitches

Spec == Init /\ [][Next]_vars

(* A health check has a deadline (5 s), and the timers of a wake fire.     *)
(* Nothing is assumed of a call: a client that reads slowly and an         *)
(* upstream that never stops sending have no deadline.                     *)
FairSpec ==
  /\ Spec
  /\ WF_vars(WakeStep)
  /\ \A r \in Requests : WF_vars(ProbeOver(r))

-----------------------------------------------------------------------------
TypeOK ==
  /\ up \in BOOLEAN
  /\ status \in {"unknown", "online", "asleep", "waking"} /\ fresh \in BOOLEAN
  /\ inflight \in Nat /\ idleLong \in BOOLEAN
  /\ req \in [Requests -> [stage : Stages, again : BOOLEAN, aborted : BOOLEAN]]
  /\ retryOver \in BOOLEAN /\ tick \in {"none", "probing", "alive", "dead", "asking"}
  /\ wake \in {"none", "sending", "pausing", "probing", "alive", "dead"}
  /\ polls \in 0..MaxPolls
  /\ visitor \in {"none", "probing", "calling", "alive", "dead", "called"}

(* The count the idle shutdown relies on is the number of requests being   *)
(* served, through every retry, abort and failure, and within the limit.   *)
InflightExact == inflight = Cardinality(Serving) /\ inflight <= MaxConcurrency

(* A machine said to be waking is being woken: no probe, request or agent  *)
(* call in between leaves a "waking" behind that nothing would ever end.   *)
NoStuckWaking == status = "waking" => wake # "none"

(* A request waits only for a wake that runs, never for one that is over. *)
WaitersHaveWake == \A r \in Requests : req[r].stage = "waiting" => wake # "none"

(* A free slot and a queued request do not go together, and only where an  *)
(* abort is not listened to can a request have lost its client.            *)
LineMoves ==
  \A r \in Requests :
    /\ req[r].stage = "queued" => inflight = MaxConcurrency
    /\ req[r].aborted => req[r].stage \in {"probing", "alive", "dead", "calling"}

(* The polls of a wake are counted down to its end. *)
PollsLeft == wake \in {"sending", "pausing"} => polls < MaxPolls

NodeInv ==
  /\ TypeOK
  /\ InflightExact
  /\ NoStuckWaking
  /\ WaitersHaveWake
  /\ LineMoves
  /\ PollsLeft

(* The monitor asks for a shutdown only while nothing is being served and  *)
(* nothing has been for the idle time.                                     *)
AsksOnlyIdle ==
  [][(tick # "asking" /\ tick' = "asking") => Serving = {} /\ idleLong]_vars

(* Requests do not look for the machine, wake it and lose it again for     *)
(* ever: as long as no call goes on for ever, which is for the upstream    *)
(* and the client to see to, every request ends or gets into the line,     *)
(* whatever the machine, the monitor and the others do in between.  The    *)
(* way through the line is the limiter's subject.                          *)
EveryRequestEnds ==
  (\A r \in Requests : []<>(r \notin Serving)) =>
    \A r \in Requests : req[r].stage \notin {"idle", "queued"} ~> req[r].stage \in {"idle", "queued"}

(* A wake ends, and with it the status "waking". *)
WakeEnds == status = "waking" ~> status # "waking"
=============================================================================
