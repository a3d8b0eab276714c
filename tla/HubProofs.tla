------------------------------ MODULE HubProofs ------------------------------
(***************************************************************************)
(* The safety of the hub's node manager, for any number of requests, slots *)
(* and health checks: its invariant splits into what concerns the requests *)
(* and their slots and what concerns the wake, each with its lemmas.  Then *)
(* the client keys, for any ids, priorities and restarts, and the throttle *)
(* of failed logins, for any addresses, limits and times.                  *)
(***************************************************************************)
EXTENDS NodeManager, Access, SequenceFacts, FiniteSetTheorems

-----------------------------------------------------------------------------
(* The node manager.                                                       *)

ReqType == [stage : Stages, again : BOOLEAN, aborted : BOOLEAN]
Busy == {"calling", "streaming"}

(* Where a request does not notice that its client has gone. *)
Looking == {"probing", "alive", "dead", "calling"}

(* The half of the requests. *)
ServedInv ==
  /\ req \in [Requests -> ReqType]
  /\ inflight \in Nat /\ idleLong \in BOOLEAN
  /\ InflightExact
  /\ LineMoves

(* The half of the wake. *)
WakeInv ==
  /\ up \in BOOLEAN
  /\ status \in {"unknown", "online", "asleep", "waking"} /\ fresh \in BOOLEAN
  /\ retryOver \in BOOLEAN /\ tick \in {"none", "probing", "alive", "dead", "asking"}
  /\ wake \in {"none", "sending", "pausing", "probing", "alive", "dead"}
  /\ polls \in 0..MaxPolls
  /\ visitor \in {"none", "probing", "calling", "alive", "dead", "called"}
  /\ NoStuckWaking
  /\ PollsLeft

LEMMA TwoHalves == NodeInv <=> ServedInv /\ WakeInv /\ WaitersHaveWake
  BY DEF NodeInv, TypeOK, ServedInv, WakeInv, ReqType

(* Granting the free slots keeps the books. *)
LEMMA GrantServes ==
  ASSUME NodeAssumption, NEW at \in [Requests -> ReqType], NEW taken \in Nat, NEW quiet \in BOOLEAN,
         idleLong \in BOOLEAN,
         taken = Cardinality({r \in Requests : at[r].stage \in Busy}),
         taken <= MaxConcurrency,
         \A r \in Requests : at[r].aborted => at[r].stage \in Looking,
         Grant(at, taken, quiet)
  PROVE  /\ ServedInv'
         /\ \A r \in Requests : req'[r].stage = "waiting" <=> at[r].stage = "waiting"
<1> DEFINE line == {r \in Requests : at[r].stage = "queued"}
           held == {r \in Requests : at[r].stage \in Busy}
           free == MaxConcurrency - taken
           n == IF Cardinality(line) < free THEN Cardinality(line) ELSE free
<1>1. PICK next \in SUBSET line :
        /\ Cardinality(next) = n
        /\ req' = [r \in Requests |-> IF r \in next THEN [at[r] EXCEPT !.stage = "calling"] ELSE at[r]]
        /\ inflight' = taken + n
        /\ idleLong' = (idleLong /\ quiet /\ next = {})
  BY DEF Grant
<1>2. IsFiniteSet(line) /\ IsFiniteSet(held) /\ IsFiniteSet(next) /\ Cardinality(line) \in Nat
  BY FS_Subset, FS_CardinalityType DEF NodeAssumption
<1>3. n \in Nat /\ MaxConcurrency \in Nat /\ taken + n <= MaxConcurrency
  BY <1>2 DEF NodeAssumption
<1>4. \A r \in Requests : req'[r] = IF r \in next THEN [at[r] EXCEPT !.stage = "calling"] ELSE at[r]
  BY <1>1
<1>5. req' \in [Requests -> ReqType]
  BY <1>1 DEF ReqType, Stages
<1>6. \A r \in Requests :
        /\ req'[r].stage = IF r \in next THEN "calling" ELSE at[r].stage
        /\ req'[r].aborted = at[r].aborted
  BY <1>4 DEF ReqType
<1>7. Serving' = held \cup next
  BY <1>6 DEF Serving, Busy
<1>8. held \cap next = {}
  BY DEF Busy
<1>9. Cardinality(held \cup next) = taken + n
  <2>1. Cardinality(held \cup next) = Cardinality(held) + Cardinality(next) - Cardinality(held \cap next)
    BY <1>2, FS_Union
  <2>2. Cardinality(held \cap next) = 0
    BY <1>8, FS_EmptySet
  <2> QED BY <1>1, <1>3, <2>1, <2>2
<1>10. InflightExact'
  BY <1>1, <1>3, <1>7, <1>9 DEF InflightExact
<1>11. ASSUME NEW r \in Requests, req'[r].stage = "queued"
       PROVE  inflight' = MaxConcurrency
  <2>1. r \in line /\ r \notin next
    BY <1>6, <1>11
  <2>2. Cardinality(line) # Cardinality(next)
    BY <1>2, <2>1, FS_Subset
  <2>3. n = free
    BY <1>1, <2>2
  <2> QED BY <1>1, <1>3, <2>3
<1>12. LineMoves'
  <2>1. \A r \in Requests : req'[r].aborted => req'[r].stage \in Looking
    BY <1>6 DEF Looking
  <2> QED BY <1>11, <2>1 DEF LineMoves, Looking
<1>13. inflight' \in Nat /\ idleLong' \in BOOLEAN
  BY <1>1, <1>3
<1> QED BY <1>5, <1>6, <1>10, <1>12, <1>13 DEF ServedInv

(* Requests that move without taking or leaving a slot. *)
LEMMA NoSlotMoves ==
  ASSUME ServedInv, req' \in [Requests -> ReqType], UNCHANGED <<inflight, idleLong>>,
         \A r \in Requests :
           /\ req'[r].stage \in Busy <=> req[r].stage \in Busy
           /\ req'[r].stage = "queued" => req[r].stage = "queued"
           /\ req'[r].aborted => req'[r].stage \in Looking
  PROVE  ServedInv'
<1>1. Serving' = Serving
  BY DEF Serving, Busy
<1> QED BY <1>1 DEF ServedInv, InflightExact, LineMoves, Looking

(* One request moves outside the slots. *)
LEMMA MoveServes ==
  ASSUME ServedInv, NEW r \in Requests, req[r].stage \notin Busy,
         NEW to \in Stages \ {"calling", "streaming", "queued"},
         req[r].aborted => to \in Looking \cup {"idle"}, Move(r, to)
  PROVE  /\ ServedInv'
         /\ \A q \in Requests : req'[q].stage = "waiting" => req[q].stage = "waiting" \/ to = "waiting"
<1>1. At(r, to) \in ReqType /\ At(r, to).stage = to /\ (At(r, to).aborted => to \in Looking)
  BY DEF At, Idle, ReqType, ServedInv, Stages, Looking
<1>2. req' = [req EXCEPT ![r] = At(r, to)] /\ UNCHANGED <<inflight, idleLong>>
  BY DEF Move
<1>3. req' \in [Requests -> ReqType]
  BY <1>1, <1>2 DEF ServedInv
<1>4. \A q \in Requests : req'[q] = IF q = r THEN At(r, to) ELSE req[q]
  BY <1>2 DEF ServedInv
<1>5. \A q \in Requests :
        /\ req'[q].stage \in Busy <=> req[q].stage \in Busy
        /\ req'[q].stage = "queued" => req[q].stage = "queued"
        /\ req'[q].aborted => req'[q].stage \in Looking
  BY <1>1, <1>4 DEF ServedInv, LineMoves, Busy, Looking
<1> QED BY <1>1, <1>2, <1>3, <1>4, <1>5, NoSlotMoves

(* Requests whose wait is over take slots or join the line. *)
LEMMA EnterServes ==
  ASSUME NodeAssumption, ServedInv, NEW R \in SUBSET Requests,
         \A r \in R : req[r].stage \notin Busy, Enter(R)
  PROVE  /\ ServedInv'
         /\ \A r \in Requests : req'[r].stage = "waiting" => req[r].stage = "waiting" /\ r \notin R
<1> DEFINE at == [r \in Requests |->
             IF r \in R THEN At(r, IF req[r].aborted THEN "idle" ELSE "queued") ELSE req[r]]
<1>1. \A r \in R : /\ At(r, IF req[r].aborted THEN "idle" ELSE "queued") \in ReqType
                   /\ At(r, IF req[r].aborted THEN "idle" ELSE "queued").stage \in {"idle", "queued"}
                   /\ ~At(r, IF req[r].aborted THEN "idle" ELSE "queued").aborted
  BY DEF At, Idle, ReqType, ServedInv, Stages
<1>2. at \in [Requests -> ReqType]
  BY <1>1 DEF ServedInv
<1>3. \A r \in Requests : /\ r \in R => at[r].stage \in {"idle", "queued"} /\ ~at[r].aborted
                          /\ r \notin R => at[r] = req[r]
  BY <1>1
<1>4. Grant(at, inflight, TRUE)
  BY DEF Enter
<1> HIDE DEF at
<1>5. {r \in Requests : at[r].stage \in Busy} = Serving
  BY <1>3 DEF Serving, Busy
<1>6. inflight \in Nat /\ inflight = Cardinality(Serving) /\ inflight <= MaxConcurrency /\ idleLong \in BOOLEAN
  BY DEF ServedInv, InflightExact
<1>7. \A r \in Requests : at[r].aborted => at[r].stage \in Looking
  BY <1>3 DEF ServedInv, LineMoves, Looking
<1>8. /\ ServedInv'
      /\ \A r \in Requests : req'[r].stage = "waiting" <=> at[r].stage = "waiting"
  BY <1>2, <1>4, <1>5, <1>6, <1>7, GrantServes
<1> QED BY <1>3, <1>8

(* A request gives its slot back. *)
LEMMA LeaveServes ==
  ASSUME NodeAssumption, ServedInv, NEW r \in Serving, NEW next \in ReqType,
         next.stage \notin {"calling", "streaming", "queued"}, ~next.aborted,
         Leave(r, next)
  PROVE  /\ ServedInv'
         /\ \A q \in Requests : req'[q].stage = "waiting" =>
              req[q].stage = "waiting" \/ next.stage = "waiting"
<1> DEFINE at == [req EXCEPT ![r] = next]
<1>1. r \in Requests /\ req \in [Requests -> ReqType]
  BY DEF Serving, ServedInv
<1>2. at \in [Requests -> ReqType] /\ \A q \in Requests : at[q] = IF q = r THEN next ELSE req[q]
  BY <1>1
<1>3. Grant(at, IF inflight > 0 THEN inflight - 1 ELSE 0, FALSE)
  BY DEF Leave
<1> HIDE DEF at
<1>4. {q \in Requests : at[q].stage \in Busy} = Serving \ {r}
  BY <1>1, <1>2 DEF Serving, Busy
<1>5. IsFiniteSet(Serving)
  BY FS_Subset DEF Serving, NodeAssumption
<1>6. Cardinality(Serving \ {r}) = Cardinality(Serving) - 1 /\ Cardinality(Serving \ {r}) \in Nat
  BY <1>5, FS_RemoveElement, FS_CardinalityType
<1>7. /\ (IF inflight > 0 THEN inflight - 1 ELSE 0) = Cardinality(Serving \ {r})
      /\ (IF inflight > 0 THEN inflight - 1 ELSE 0) <= MaxConcurrency
  BY <1>6 DEF ServedInv, InflightExact, NodeAssumption
<1>8. \A q \in Requests : at[q].aborted => at[q].stage \in Looking
  BY <1>2 DEF ServedInv, LineMoves, Looking
<1>9. /\ ServedInv'
      /\ \A q \in Requests : req'[q].stage = "waiting" <=> at[q].stage = "waiting"
  <2> DEFINE taken == IF inflight > 0 THEN inflight - 1 ELSE 0
  <2>1. taken \in Nat /\ taken = Cardinality({q \in Requests : at[q].stage \in Busy}) /\ taken <= MaxConcurrency
    BY <1>4, <1>6, <1>7
  <2>2. Grant(at, taken, FALSE) /\ idleLong \in BOOLEAN
    BY <1>3 DEF ServedInv
  <2> HIDE DEF taken
  <2> QED BY <1>2, <1>8, <2>1, <2>2, GrantServes
<1> QED BY <1>2, <1>9

(* Steps of the requests: the wake goes on as it did, or starts. *)
LEMMA RequestSteps ==
  ASSUME NodeAssumption, NodeInv, NEW r \in Requests,
         Arrive(r) \/ ProbeOver(r) \/ CallOver(r) \/ Abort(r)
  PROVE  NodeInv'
<1> USE DEF view, waker, monitor
<1>1. ServedInv /\ WakeInv /\ WaitersHaveWake
  BY TwoHalves
<1>2. /\ req[r] \in ReqType
      /\ req[r].aborted => req[r].stage \in Looking
  BY <1>1 DEF ServedInv, LineMoves, Looking
<1>3. Look \in {"waiting", "probing"} /\ (Look = "waiting" => wake # "none")
  BY DEF Look
<1>4. ASSUME ServedInv', WakeInv', \A q \in Requests : req'[q].stage = "waiting" => wake' # "none"
      PROVE  NodeInv'
  BY <1>4 DEF NodeInv, TypeOK, ServedInv, WakeInv, WaitersHaveWake, ReqType
<1>5. CASE Arrive(r)
  <2>1. WakeInv' /\ wake' = wake
    BY <1>1, <1>5 DEF Arrive, WakeInv, NoStuckWaking, PollsLeft
  <2>2. CASE Enter({r})
    BY <1>1, <1>4, <1>5, <2>1, <2>2, EnterServes DEF Arrive, Busy, WaitersHaveWake
  <2>3. CASE Move(r, Look)
    <3>1. Look \in Stages \ {"calling", "streaming", "queued"}
      BY <1>3 DEF Stages
    <3>2. req[r].stage = "idle" /\ ~req[r].aborted
      BY <1>2, <1>5 DEF Arrive, Looking
    <3>3. ServedInv' /\ \A q \in Requests : req'[q].stage = "waiting" => req[q].stage = "waiting" \/ Look = "waiting"
      BY <1>1, <2>3, <3>1, <3>2, MoveServes DEF Busy
    <3> QED BY <1>1, <1>3, <1>4, <2>1, <3>3 DEF WaitersHaveWake
  <2> QED BY <1>5, <2>2, <2>3 DEF Arrive
<1>6. CASE \E alive \in BOOLEAN : MachineAnswers(r, alive)
  <2>1. WakeInv' /\ wake' = wake
    BY <1>1, <1>6 DEF MachineAnswers, WakeInv, NoStuckWaking, PollsLeft
  <2>2. PICK to \in {"alive", "dead"} : Move(r, to)
    BY <1>6 DEF MachineAnswers
  <2>3. req[r].stage = "probing" /\ to \in Stages \ {"calling", "streaming", "queued"}
    BY <1>6 DEF MachineAnswers, Stages
  <2> QED BY <1>1, <1>4, <2>1, <2>2, <2>3, MoveServes DEF Busy, Looking, WaitersHaveWake
<1>7. CASE HearAlive(r)
  <2>1. WakeInv' /\ wake' = wake
    BY <1>1, <1>7 DEF HearAlive, ProbeResult, WakeInv, NoStuckWaking, PollsLeft
  <2>2. Enter({r}) /\ req[r].stage = "alive"
    BY <1>7 DEF HearAlive
  <2> QED BY <1>1, <1>4, <2>1, <2>2, EnterServes DEF Busy, WaitersHaveWake
<1>8. CASE HearDead(r)
  <2>1. req[r].stage = "dead" /\ req[r].stage \notin Busy
    BY <1>8 DEF HearDead, Busy
  <2>2. WakeInv'
    BY <1>1, <1>8 DEF HearDead, StartWake, ProbeResult, WakeInv, NoStuckWaking, PollsLeft, NodeAssumption
  <2>3. CASE Move(r, "idle")
    <3>1. wake' = wake \/ wake' # "none"
      BY <1>8 DEF HearDead, StartWake
    <3> QED BY <1>1, <1>4, <2>1, <2>2, <2>3, <3>1, MoveServes DEF Stages, WaitersHaveWake
  <2>4. CASE Move(r, "waiting") /\ ~req[r].aborted /\ r \in Eager
    <3>1. wake' # "none"
      BY <1>8, <2>4 DEF HearDead, StartWake
    <3> QED BY <1>1, <1>4, <2>1, <2>2, <2>4, <3>1, MoveServes DEF Stages
  <2> QED BY <1>8, <2>3, <2>4 DEF HearDead
<1>9. ASSUME r \in Serving, Leave(r, Idle)
      PROVE  ServedInv' /\ \A q \in Requests : req'[q].stage = "waiting" => req[q].stage = "waiting"
  <2>1. Idle \in ReqType /\ Idle.stage = "idle" /\ ~Idle.aborted
    BY DEF Idle, ReqType, Stages
  <2> QED BY <1>1, <1>9, <2>1, LeaveServes
<1>10. CASE \E streamed \in BOOLEAN : ModelAnswers(r, streamed)
  <2>1. WakeInv' /\ wake' = wake
    BY <1>1, <1>10 DEF ModelAnswers, markUp, WakeInv, NoStuckWaking, PollsLeft
  <2>2. req[r].stage = "calling" /\ r \in Serving
    BY <1>10 DEF ModelAnswers, Serving
  <2>3. CASE Leave(r, Idle)
    BY <1>1, <1>4, <1>9, <2>1, <2>2, <2>3 DEF WaitersHaveWake
  <2>4. CASE Move(r, "streaming") /\ ~req[r].aborted
    <3> DEFINE moved == [req[r] EXCEPT !.stage = "streaming"]
    <3>1. req' = [req EXCEPT ![r] = moved] /\ UNCHANGED <<inflight, idleLong>>
      BY <2>4 DEF Move, At
    <3>2. moved \in ReqType /\ moved.stage = "streaming" /\ moved.aborted = req[r].aborted
      BY <1>2 DEF ReqType, Stages
    <3> HIDE DEF moved
    <3>3. req' \in [Requests -> ReqType] /\ \A q \in Requests : req'[q] = IF q = r THEN moved ELSE req[q]
      BY <1>1, <3>1, <3>2 DEF ServedInv
    <3>4. \A q \in Requests :
            /\ req'[q].stage \in Busy <=> req[q].stage \in Busy
            /\ req'[q].stage = "queued" => req[q].stage = "queued"
            /\ req'[q].aborted => req'[q].stage \in Looking
      BY <1>1, <2>2, <2>4, <3>2, <3>3 DEF Busy, Looking, ServedInv, LineMoves
    <3>5. ServedInv'
      BY <1>1, <3>1, <3>3, <3>4, NoSlotMoves
    <3> QED BY <1>1, <1>4, <2>1, <3>2, <3>3, <3>5 DEF WaitersHaveWake
  <2> QED BY <1>10, <2>3, <2>4 DEF ModelAnswers
<1>11. CASE CallEnds(r) \/ LoseAgain(r)
  <2>1. WakeInv' /\ wake' = wake
    BY <1>1, <1>11 DEF CallEnds, LoseAgain, WakeInv, NoStuckWaking, PollsLeft
  <2>2. r \in Serving /\ Leave(r, Idle)
    BY <1>11 DEF CallEnds, LoseAgain, Serving
  <2> QED BY <1>1, <1>4, <1>9, <2>1, <2>2 DEF WaitersHaveWake
<1>12. CASE LoseMachine(r)
  <2> DEFINE next == [At(r, Look) EXCEPT !.again = TRUE]
  <2>1. WakeInv' /\ wake' = wake
    BY <1>1, <1>12 DEF LoseMachine, markDown, WakeInv, NoStuckWaking, PollsLeft
  <2>2. r \in Serving /\ Leave(r, next) /\ ~req[r].aborted
    BY <1>12 DEF LoseMachine, Serving
  <2>3. next \in ReqType /\ next.stage = Look /\ ~next.aborted
    BY <1>2, <1>3, <2>2 DEF At, ReqType, Stages
  <2> HIDE DEF next
  <2>4. ServedInv' /\ \A q \in Requests : req'[q].stage = "waiting" => req[q].stage = "waiting" \/ Look = "waiting"
    BY <1>1, <1>3, <2>2, <2>3, LeaveServes
  <2> QED BY <1>1, <1>3, <1>4, <2>1, <2>4 DEF WaitersHaveWake
<1>13. CASE Abort(r)
  <2>1. WakeInv' /\ wake' = wake
    BY <1>1, <1>13 DEF Abort, WakeInv, NoStuckWaking, PollsLeft
  <2>2. CASE req[r].stage \in {"waiting", "queued"} /\ Move(r, "idle")
    BY <1>1, <1>4, <2>1, <2>2, MoveServes DEF Stages, Busy, WaitersHaveWake
  <2>3. CASE r \in Serving /\ Leave(r, Idle)
    BY <1>1, <1>4, <1>9, <2>1, <2>3 DEF WaitersHaveWake
  <2>4. CASE /\ req[r].stage \in Looking
             /\ req' = [req EXCEPT ![r].aborted = TRUE] /\ UNCHANGED <<inflight, idleLong>>
    <3> DEFINE gone == [req[r] EXCEPT !.aborted = TRUE]
    <3>1. req' = [req EXCEPT ![r] = gone] /\ UNCHANGED <<inflight, idleLong>>
      BY <2>4
    <3>2. gone \in ReqType /\ gone.stage = req[r].stage
      BY <1>2 DEF ReqType
    <3> HIDE DEF gone
    <3>3. req' \in [Requests -> ReqType] /\ \A q \in Requests : req'[q] = IF q = r THEN gone ELSE req[q]
      BY <1>1, <3>1, <3>2 DEF ServedInv
    <3>4. \A q \in Requests :
            /\ req'[q].stage = req[q].stage
            /\ req'[q].aborted => req'[q].stage \in Looking
      BY <1>1, <2>4, <3>2, <3>3 DEF ServedInv, LineMoves, Looking
    <3>5. ServedInv'
      BY <1>1, <3>1, <3>3, <3>4, NoSlotMoves
    <3> QED BY <1>1, <1>4, <2>1, <3>2, <3>3, <3>5 DEF WaitersHaveWake
  <2> QED BY <1>13, <2>2, <2>3, <2>4 DEF Abort, Looking
<1> QED BY <1>5, <1>6, <1>7, <1>8, <1>10, <1>11, <1>12, <1>13 DEF ProbeOver, CallOver

(* Steps of the wake. *)
LEMMA WakeSteps ==
  ASSUME NodeAssumption, NodeInv, AdminWakes \/ WakeStep
  PROVE  NodeInv'
<1> USE DEF view, waker, monitor, served
<1>1. ServedInv /\ WakeInv /\ WaitersHaveWake
  BY TwoHalves
<1>2. ASSUME ServedInv', WakeInv', \A q \in Requests : req'[q].stage = "waiting" => wake' # "none"
      PROVE  NodeInv'
  BY <1>2 DEF NodeInv, TypeOK, ServedInv, WakeInv, WaitersHaveWake, ReqType
<1>3. CASE UNCHANGED served /\ wake' # "none" /\ WakeInv'
  BY <1>1, <1>2, <1>3 DEF ServedInv, InflightExact, Serving, LineMoves
<1>4. CASE AdminWakes
  BY <1>1, <1>3, <1>4 DEF AdminWakes, StartWake, WakeInv, NoStuckWaking, PollsLeft, NodeAssumption
<1>5. CASE MagicSent \/ WakePolls \/ (\E alive \in BOOLEAN : WakeAnswered(alive)) \/ WakeGoesOn
  <2>1. CASE MagicSent
    BY <1>1, <1>3, <2>1 DEF MagicSent, WakeInv, NoStuckWaking, PollsLeft
  <2>2. CASE WakePolls
    BY <1>1, <1>3, <2>2 DEF WakePolls, WakeInv, NoStuckWaking, PollsLeft, NodeAssumption
  <2>3. CASE \E alive \in BOOLEAN : WakeAnswered(alive)
    BY <1>1, <1>3, <2>3 DEF WakeAnswered, WakeInv, NoStuckWaking, PollsLeft
  <2>4. CASE WakeGoesOn
    BY <1>1, <1>3, <2>4 DEF WakeGoesOn, ProbeResult, WakeInv, NoStuckWaking, PollsLeft
  <2> QED BY <1>5, <2>1, <2>2, <2>3, <2>4
<1>6. CASE WakeFails \/ WakeTimesOut \/ WakeSucceeds
  <2> DEFINE waiters == {r \in Requests : req[r].stage = "waiting"}
  <2>1. WakeInv' /\ wake' = "none"
    <3>1. polls' = 0 /\ wake' = "none" /\ UNCHANGED <<up, visitor, retryOver, tick>>
      BY <1>6 DEF WakeFails, WakeTimesOut, WakeSucceeds, WakeSettled
    <3>2. status' \in {"unknown", "online", "asleep"} /\ fresh' \in BOOLEAN
      BY <1>1, <1>6 DEF WakeFails, WakeTimesOut, WakeSucceeds, ProbeResult, WakeInv
    <3>3. 0 \in 0..MaxPolls
      BY DEF NodeAssumption
    <3> QED BY <1>1, <3>1, <3>2, <3>3 DEF WakeInv, NoStuckWaking, PollsLeft
  <2>2. CASE req' = [r \in Requests |-> IF r \in waiters THEN Idle ELSE req[r]] /\ UNCHANGED <<inflight, idleLong>>
    <3>1. Idle \in ReqType /\ Idle.stage = "idle"
      BY DEF Idle, ReqType, Stages
    <3>2. req' \in [Requests -> ReqType]
      BY <1>1, <2>2, <3>1 DEF ServedInv
    <3>3. \A r \in Requests : /\ r \in waiters => req'[r].stage = "idle" /\ req[r].stage = "waiting"
                              /\ r \notin waiters => req'[r] = req[r] /\ req[r].stage # "waiting"
      BY <2>2, <3>1
    <3>4. ServedInv'
      BY <1>1, <2>2, <3>1, <3>2, <3>3, NoSlotMoves DEF Busy, Idle, ServedInv, LineMoves, Looking
    <3> QED BY <1>2, <2>1, <3>3, <3>4
  <2>3. CASE Enter(waiters)
    BY <1>1, <1>2, <2>1, <2>3, EnterServes DEF Busy
  <2> QED BY <1>6, <2>2, <2>3 DEF WakeFails, WakeTimesOut, WakeSucceeds, WakeSettled
<1> QED BY <1>4, <1>5, <1>6 DEF WakeStep

(* Steps of the monitor, of the others, of time and of the machine. *)
LEMMA OtherSteps ==
  ASSUME NodeAssumption, NodeInv,
         \/ TickStarts \/ TickHears
         \/ \E answer \in BOOLEAN : TickAnswered(answer) \/ ShutdownAnswered(answer)
         \/ VisitorStarts
         \/ \E answer \in BOOLEAN : VisitorAnswered(answer) \/ VisitorHears(answer)
         \/ TrustExpires \/ RetryTimePasses \/ MachineSwitches \/ IdleTimePasses
  PROVE  NodeInv'
<1> USE DEF view, waker, monitor, served
<1>1. ServedInv /\ WakeInv /\ WaitersHaveWake
  BY TwoHalves
<1>2. req' = req /\ inflight' = inflight /\ idleLong' \in BOOLEAN /\ wake' = wake /\ polls' = polls
  BY <1>1 DEF TickStarts, TickHears, TickAnswered, ShutdownAnswered, VisitorStarts, VisitorAnswered, VisitorHears,
              TrustExpires, RetryTimePasses, MachineSwitches, IdleTimePasses, ServedInv
<1>3. ServedInv' /\ WaitersHaveWake'
  BY <1>1, <1>2 DEF ServedInv, InflightExact, Serving, LineMoves, WaitersHaveWake
<1>4. WakeInv'
  <2> USE <1>1 DEF WakeInv, NoStuckWaking, PollsLeft
  <2>1. CASE TickStarts \/ (\E answer \in BOOLEAN : TickAnswered(answer)) \/ TickHears
    BY <2>1 DEF TickStarts, TickAnswered, TickHears, ProbeResult
  <2>2. CASE \E answer \in BOOLEAN : ShutdownAnswered(answer)
    BY <2>2 DEF ShutdownAnswered, wentToSleep
  <2>3. CASE VisitorStarts
    BY <2>3 DEF VisitorStarts
  <2>4. CASE \E answer \in BOOLEAN : VisitorAnswered(answer)
    <3>1. visitor' \in {"alive", "dead", "called", "none"}
      BY <2>4 DEF VisitorAnswered
    <3> QED BY <2>4, <3>1 DEF VisitorAnswered
  <2>5. CASE \E answer \in BOOLEAN : VisitorHears(answer)
    BY <2>5 DEF VisitorHears, ProbeResult, markUp, wentToSleep
  <2>6. CASE TrustExpires
    BY <2>6 DEF TrustExpires
  <2>7. CASE IdleTimePasses
    BY <2>7 DEF IdleTimePasses
  <2>8. CASE RetryTimePasses
    BY <2>8 DEF RetryTimePasses
  <2>9. CASE MachineSwitches
    <3>1. up' \in BOOLEAN
      BY <2>9, Zenon DEF MachineSwitches
    <3> QED BY <2>9, <3>1 DEF MachineSwitches
  <2> QED BY <2>1, <2>2, <2>3, <2>4, <2>5, <2>6, <2>7, <2>8, <2>9
<1> QED BY <1>3, <1>4 DEF NodeInv, TypeOK, ServedInv, WakeInv, ReqType

LEMMA StepKeepsNodeInv ==
  ASSUME NodeAssumption, NodeInv, [Next]_vars
  PROVE  NodeInv'
<1>1. CASE UNCHANGED vars
  BY <1>1 DEF vars, view, served, monitor, waker, NodeInv, TypeOK, InflightExact, Serving, NoStuckWaking,
              WaitersHaveWake, LineMoves, PollsLeft
<1> QED BY <1>1, RequestSteps, WakeSteps, OtherSteps DEF Next

LEMMA InitHasNodeInv ==
  ASSUME NodeAssumption, Init
  PROVE  NodeInv
<1>1. Idle \in ReqType /\ Idle.stage = "idle"
  BY DEF Idle, ReqType, Stages
<1>2. req \in [Requests -> ReqType] /\ \A r \in Requests : req[r].stage = "idle" /\ ~req[r].aborted
  BY <1>1 DEF Init, Idle
<1>3. Serving = {}
  BY <1>2 DEF Serving
<1>4. ServedInv
  <2>1. Cardinality(Serving) = 0
    BY <1>3, FS_EmptySet
  <2>2. inflight = 0 /\ idleLong = FALSE /\ 0 <= MaxConcurrency
    BY DEF Init, NodeAssumption
  <2>3. LineMoves
    BY <1>2 DEF LineMoves
  <2> QED BY <1>2, <2>1, <2>2, <2>3 DEF ServedInv, InflightExact
<1>5. WakeInv
  <2>1. 0 \in 0..MaxPolls
    BY DEF NodeAssumption
  <2> QED BY <2>1 DEF Init, WakeInv, NoStuckWaking, PollsLeft
<1>6. WaitersHaveWake
  BY <1>2 DEF WaitersHaveWake
<1> QED BY <1>4, <1>5, <1>6, TwoHalves

(* What the hub believes of a machine stays consistent: the count behind   *)
(* the idle shutdown is exact and within the limit, a machine said to be   *)
(* waking is being woken, nobody waits for a wake that is over, and no     *)
(* slot is free while a request is queued.                                 *)
THEOREM NodeInvariant == Spec => []NodeInv
<1> QED BY NodeAssumption, InitHasNodeInv, StepKeepsNodeInv, PTL DEF Spec

(* The monitor never asks for a shutdown while a request is being served.  *)
THEOREM AsksOnlyIdleHolds == Spec => AsksOnlyIdle
<1>1. ASSUME NodeInv, [Next]_vars, tick # "asking", tick' = "asking"
      PROVE  Serving = {} /\ idleLong
  <2>1. TickHears
    BY <1>1 DEF Next, vars, view, served, monitor, waker, Arrive, ProbeOver, CallOver, MachineAnswers, HearAlive, HearDead,
                ModelAnswers, CallEnds, LoseMachine, LoseAgain, Abort, AdminWakes, WakeStep, MagicSent, WakeFails,
                WakePolls, WakeAnswered, WakeSucceeds, WakeGoesOn, WakeTimesOut, TickStarts, TickAnswered,
                ShutdownAnswered, VisitorStarts, VisitorAnswered, VisitorHears, TrustExpires, IdleTimePasses,
                RetryTimePasses, MachineSwitches
  <2>2. inflight = 0 /\ idleLong
    BY <1>1, <2>1 DEF TickHears, IdleEnough
  <2>3. IsFiniteSet(Serving)
    BY NodeAssumption, FS_Subset DEF Serving, NodeAssumption
  <2> QED BY <1>1, <2>2, <2>3, FS_EmptySet DEF NodeInv, InflightExact
<1> QED BY <1>1, NodeInvariant, PTL DEF Spec, AsksOnlyIdle

-----------------------------------------------------------------------------
(* The keys.                                                               *)

LEMMA KeysBegin == AccessInit => KeysInv
<1> SUFFICES ASSUME AccessInit PROVE KeysInv
  OBVIOUS
<1>1. 0 \in Times
  BY AccessConstants DEF Times
<1>2. Keys = {}
  BY DEF AccessInit, Keys
<1> QED BY <1>1, <1>2 DEF AccessInit, KeysInv, KeysTypeOK, TouchedInOrder, KeysInOrder

LEMMA KeysStay ==
  ASSUME KeysInv, UNCHANGED <<key, touched, usedIds, usedAt, now>>
  PROVE  KeysInv'
BY DEF KeysInv, KeysTypeOK, TouchedInOrder, KeysInOrder, Keys

(* One row changes, keeping what touch() has written. *)
LEMMA RowChanges ==
  ASSUME KeysInv, NEW id \in Ids, NEW row \in KeyRows,
         key' = [key EXCEPT ![id] = row], UNCHANGED <<touched, usedAt, now>>,
         Ordered(row.min, row.def, row.max),
         \/ id \in Keys /\ row.lastUsed = key[id].lastUsed /\ usedIds' = usedIds
         \/ id \notin usedIds /\ usedIds' = usedIds \cup {id}
  PROVE  KeysInv'
<1>1. /\ key \in [Ids -> KeyRows \cup {None}] /\ key' \in [Ids -> KeyRows \cup {None}]
      /\ key'[id] = row /\ row # None
      /\ \A i \in Ids : i # id => key'[i] = key[i]
  BY NoneIsNoKey DEF KeysInv, KeysTypeOK
<1>2. KeysTypeOK'
  BY <1>1 DEF KeysInv, KeysTypeOK
<1>3. \A i \in Ids : i # id => (i \in Keys' <=> i \in Keys)
  BY <1>1 DEF Keys
<1>4. id \in Keys => id \in usedIds
  BY DEF KeysInv, TouchedInOrder, Keys
<1>5. TouchedInOrder'
  BY <1>1, <1>3, <1>4 DEF KeysInv, TouchedInOrder
<1>6. KeysInOrder'
  <2> SUFFICES ASSUME NEW i \in Keys'
               PROVE  /\ 1 <= key'[i].min /\ Ordered(key'[i].min, key'[i].def, key'[i].max)
                      /\ key'[i].max <= Top
                      /\ usedAt[i] # None =>
                           /\ key'[i].lastUsed # None /\ key'[i].lastUsed <= now
                           /\ usedAt[i] - key'[i].lastUsed < TouchEvery
    BY DEF KeysInOrder, Ordered
  <2>1. i \in Ids
    BY DEF Keys
  <2>2. CASE i # id
    BY <1>1, <1>3, <2>1, <2>2 DEF KeysInv, KeysInOrder
  <2>3. CASE i = id
    <3>1. 1 <= row.min /\ row.max <= Top
      BY AccessConstants DEF KeyRows, Priorities
    <3>2. usedAt[id] # None => id \in Keys /\ row.lastUsed = key[id].lastUsed
      BY DEF KeysInv, TouchedInOrder
    <3> QED BY <1>1, <2>3, <3>1, <3>2 DEF KeysInv, KeysInOrder
  <2> QED BY <2>2, <2>3
<1> QED BY <1>2, <1>5, <1>6 DEF KeysInv

(* Creating a key, and changing its priorities, gives it bounds in order. *)
LEMMA PrioritiesGiven ==
  ASSUME NEW given \in Given, NEW default \in Priorities
  PROVE  Or(given, default) \in Priorities
BY DEF Given, Or

LEMMA ClampInRange ==
  ASSUME NEW p \in Priorities, NEW min \in Priorities, NEW max \in Priorities
  PROVE  Clamp(p, min, max) \in Priorities
BY DEF Clamp

LEMMA CreateKeeps ==
  ASSUME KeysInv, NEW id \in Ids, NEW gmin \in Given, NEW gdef \in Given, NEW gmax \in Given,
         Create(id, gmin, gdef, gmax), UNCHANGED now
  PROVE  KeysInv'
<1> DEFINE min == Or(gmin, 1)
           max == Or(gmax, Top)
           def == Or(gdef, Clamp(Middle, min, max))
           row == [min |-> min, def |-> def, max |-> max, revoked |-> FALSE, lastUsed |-> None]
<1>1. 1 \in Priorities /\ Top \in Priorities /\ Middle \in Priorities
  BY AccessConstants DEF Priorities, Middle
<1>2. min \in Priorities /\ max \in Priorities
  BY <1>1, PrioritiesGiven
<1>3. /\ id \notin usedIds /\ Ordered(min, def, max)
      /\ key' = [key EXCEPT ![id] = row]
      /\ usedIds' = usedIds \cup {id} /\ UNCHANGED <<touched, usedAt>>
  BY DEF Create
<1>4. def \in Priorities
  <2> HIDE DEF min, max
  <2> QED BY <1>1, <1>2, ClampInRange, PrioritiesGiven
<1> HIDE DEF min, max, def
<1>5. row \in KeyRows /\ Ordered(row.min, row.def, row.max)
  BY <1>2, <1>3, <1>4 DEF KeyRows
<1> HIDE DEF row
<1> QED BY <1>3, <1>5, RowChanges

LEMMA UpdateKeeps ==
  ASSUME KeysInv, NEW id \in Ids, NEW gmin \in Given, NEW gdef \in Given, NEW gmax \in Given,
         Update(id, gmin, gdef, gmax), UNCHANGED now
  PROVE  KeysInv'
<1> DEFINE min == Or(gmin, key[id].min)
           max == Or(gmax, key[id].max)
           def == Or(gdef, Clamp(key[id].def, min, max))
           row == [key[id] EXCEPT !.min = min, !.def = def, !.max = max]
<1>1. id \in Keys /\ key[id] \in KeyRows /\ key \in [Ids -> KeyRows \cup {None}]
  BY DEF Update, KeysInv, KeysTypeOK, Keys
<1>2. min \in Priorities /\ max \in Priorities /\ key[id].def \in Priorities
  BY <1>1, PrioritiesGiven DEF KeyRows
<1>3. /\ Ordered(min, def, max) /\ UNCHANGED <<touched, usedIds, usedAt>>
      /\ key' = [key EXCEPT ![id].min = min, ![id].def = def, ![id].max = max]
  BY DEF Update, UpdatePriorities
<1>4. def \in Priorities
  <2> HIDE DEF min, max
  <2> QED BY <1>2, ClampInRange, PrioritiesGiven
<1> HIDE DEF min, max, def
<1>5. key' = [key EXCEPT ![id] = row]
  BY <1>1, <1>3
<1>6. row \in KeyRows /\ Ordered(row.min, row.def, row.max) /\ row.lastUsed = key[id].lastUsed
  BY <1>1, <1>2, <1>3, <1>4 DEF KeyRows
<1> HIDE DEF row
<1> QED BY <1>1, <1>3, <1>5, <1>6, RowChanges

LEMMA RevokeKeeps ==
  ASSUME KeysInv, NEW id \in Ids, Revoke(id), UNCHANGED now
  PROVE  KeysInv'
<1> DEFINE row == [key[id] EXCEPT !.revoked = TRUE]
<1>1. id \in Keys /\ key[id] \in KeyRows /\ key \in [Ids -> KeyRows \cup {None}]
  BY DEF Revoke, KeysInv, KeysTypeOK, Keys
<1>2. Ordered(key[id].min, key[id].def, key[id].max)
  BY <1>1 DEF KeysInv, KeysInOrder
<1>3. key' = [key EXCEPT ![id] = row] /\ UNCHANGED <<touched, usedIds, usedAt>>
  BY <1>1 DEF Revoke
<1>4. row \in KeyRows /\ Ordered(row.min, row.def, row.max) /\ row.lastUsed = key[id].lastUsed
  BY <1>1, <1>2 DEF KeyRows
<1> HIDE DEF row
<1> QED BY <1>1, <1>3, <1>4, RowChanges

LEMMA DeleteKeeps ==
  ASSUME KeysInv, NEW id \in Ids, Delete(id), UNCHANGED now
  PROVE  KeysInv'
<1>1. /\ key' = [key EXCEPT ![id] = None] /\ usedAt' = [usedAt EXCEPT ![id] = None]
      /\ UNCHANGED <<touched, usedIds, now>>
  BY DEF Delete
<1>2. /\ key'[id] = None /\ usedAt'[id] = None
      /\ \A i \in Ids : i # id => key'[i] = key[i] /\ usedAt'[i] = usedAt[i]
  BY <1>1 DEF KeysInv, KeysTypeOK
<1>3. \A i \in Ids : i \in Keys' <=> i \in Keys /\ i # id
  BY <1>2 DEF Keys
<1>4. KeysTypeOK'
  BY <1>1 DEF KeysInv, KeysTypeOK
<1>5. TouchedInOrder'
  BY <1>1, <1>2, <1>3 DEF KeysInv, TouchedInOrder
<1>6. KeysInOrder'
  <2>1. Keys' \subseteq Ids
    BY DEF Keys
  <2> QED BY <1>1, <1>2, <1>3, <2>1 DEF KeysInv, KeysInOrder
<1> QED BY <1>4, <1>5, <1>6 DEF KeysInv

(* The use of a key: `last used` is written, or is recent. *)
LEMMA ChatRequestKeeps ==
  ASSUME KeysInv, NEW ip, NEW id \in Ids, ChatRequest(ip, id)
  PROVE  KeysInv'
<1>1. /\ id \in Keys /\ Touch(id) /\ usedAt' = [usedAt EXCEPT ![id] = now]
      /\ UNCHANGED <<usedIds, now>>
  BY DEF ChatRequest, Passes, Active
<1>2. /\ key[id] \in KeyRows /\ key \in [Ids -> KeyRows \cup {None}] /\ now \in Times /\ now \in Nat
      /\ touched \in [Ids -> Times \cup {None}] /\ usedAt \in [Ids -> Times \cup {None}]
  BY <1>1, AccessConstants DEF KeysInv, KeysTypeOK, Keys, Times
<1>3. id \in usedIds
  BY <1>1 DEF KeysInv, TouchedInOrder, Keys
<1>4. usedAt'[id] = now /\ usedAt' \in [Ids -> Times \cup {None}]
      /\ \A i \in Ids : i # id => usedAt'[i] = usedAt[i]
  BY <1>1, <1>2
<1>5. now # None /\ \A t \in Times : t \in Nat /\ t # None
  BY AccessConstants, NoneIsNoKey, <1>2 DEF Times
<1>6. CASE touched[id] # None /\ now - touched[id] < TouchEvery
  <2>1. UNCHANGED <<touched, key>>
    BY <1>1, <1>6 DEF Touch
  <2>2. key[id].lastUsed = touched[id] /\ touched[id] \in Nat /\ touched[id] <= now
    <3>1. key[id].lastUsed = touched[id] /\ touched[id] \in Times
      BY <1>1, <1>2, <1>6 DEF KeysInv, TouchedInOrder
    <3>2. touched[id] <= now
      BY <1>1, <1>2, <1>6 DEF KeysInv, TouchedInOrder
    <3> QED BY <1>5, <3>1, <3>2
  <2>3. Keys' = Keys
    BY <2>1 DEF Keys
  <2>4. KeysTypeOK'
    BY <1>1, <1>4, <2>1 DEF KeysInv, KeysTypeOK
  <2>5. TouchedInOrder'
    BY <1>1, <1>3, <1>4, <2>1, <2>3 DEF KeysInv, TouchedInOrder
  <2>6. KeysInOrder'
    <3>1. Keys \subseteq Ids
      BY DEF Keys
    <3> QED BY <1>1, <1>4, <1>5, <1>6, <2>1, <2>2, <2>3, <3>1 DEF KeysInv, KeysInOrder
  <2> QED BY <2>4, <2>5, <2>6 DEF KeysInv
<1>7. CASE ~(touched[id] # None /\ now - touched[id] < TouchEvery)
  <2>1. touched' = [touched EXCEPT ![id] = now] /\ key' = [key EXCEPT ![id].lastUsed = now]
    BY <1>1, <1>7 DEF Touch
  <2>2. /\ key'[id].lastUsed = now /\ key'[id].min = key[id].min /\ key'[id].def = key[id].def
        /\ key'[id].max = key[id].max /\ key'[id] \in KeyRows /\ touched'[id] = now
        /\ \A i \in Ids : i # id => key'[i] = key[i] /\ touched'[i] = touched[i]
        /\ key' \in [Ids -> KeyRows \cup {None}] /\ touched' \in [Ids -> Times \cup {None}]
    BY <1>2, <2>1 DEF KeyRows
  <2>3. key'[id] # None
    BY <2>2, NoneIsNoKey
  <2>4. Keys' = Keys
    <3>1. \A i \in Ids : key'[i] # None <=> key[i] # None
      BY <1>1, <2>2, <2>3 DEF Keys
    <3> QED BY <3>1 DEF Keys
  <2>5. KeysTypeOK'
    BY <1>1, <1>4, <2>2 DEF KeysInv, KeysTypeOK
  <2>6. TouchedInOrder'
    BY <1>1, <1>2, <1>3, <1>4, <2>2, <2>4 DEF KeysInv, TouchedInOrder
  <2>7. KeysInOrder'
    <3>1. Keys \subseteq Ids /\ TouchEvery \in Nat \ {0}
      BY AccessConstants DEF Keys
    <3> QED BY <1>1, <1>2, <1>4, <1>5, <2>2, <2>4, <3>1 DEF KeysInv, KeysInOrder
  <2> QED BY <2>5, <2>6, <2>7 DEF KeysInv
<1> QED BY <1>6, <1>7

LEMMA TickKeeps ==
  ASSUME KeysInv, Tick
  PROVE  KeysInv'
<1>1. now' \in Times /\ now <= now' /\ UNCHANGED <<key, touched, usedIds, usedAt>> /\ now \in Nat /\ now' \in Nat
  BY AccessConstants DEF Tick, store, KeysInv, KeysTypeOK, Times
<1>2. Keys' = Keys /\ Keys \subseteq Ids
  BY <1>1 DEF Keys
<1>3. \A id \in Keys : key[id].lastUsed # None => key[id].lastUsed \in Nat
  BY <1>2 DEF KeysInv, KeysTypeOK, Keys, KeyRows, Times
<1>4. KeysTypeOK' /\ TouchedInOrder'
  <2>1. \A id \in Ids : touched[id] # None => touched[id] \in Nat
    BY DEF KeysInv, KeysTypeOK, Times
  <2> QED BY <1>1, <1>2, <2>1 DEF KeysInv, KeysTypeOK, TouchedInOrder
<1>5. KeysInOrder'
  BY <1>1, <1>2, <1>3 DEF KeysInv, KeysInOrder
<1> QED BY <1>4, <1>5 DEF KeysInv

LEMMA RestartKeeps ==
  ASSUME KeysInv, Restart
  PROVE  KeysInv'
<1>1. touched' = [id \in Ids |-> None] /\ UNCHANGED <<now, key, usedIds, usedAt>>
  BY DEF Restart
<1>2. Keys' = Keys /\ Keys \subseteq Ids
  BY <1>1 DEF Keys
<1> QED BY <1>1, <1>2 DEF KeysInv, KeysTypeOK, TouchedInOrder, KeysInOrder

(* A key's default stays within its bounds, and its row says when it was   *)
(* last used to within a minute, whoever changes it and however often the  *)
(* hub starts again (store/keys.ts).                                       *)
THEOREM KeysInvariant == AccessSpec => []KeysInv
<1>1. KeysInv /\ [AccessNext]_accessVars => KeysInv'
  <2> SUFFICES ASSUME KeysInv, [AccessNext]_accessVars
               PROVE  KeysInv'
    OBVIOUS
  <2>1. ASSUME NEW ip \in Addresses, BadCall(ip) \/ Refused(ip) \/ GoodCall(ip)
        PROVE  KeysInv'
    <3>1. UNCHANGED <<key, touched, usedIds, usedAt, now>>
      BY <2>1 DEF BadCall, FailureOf, Refused, RefusedBy, GoodCall, Passes, store
    <3> QED BY <3>1, KeysStay
  <2>2. ASSUME NEW ip \in Addresses, NEW id \in Ids, ChatRequest(ip, id)
        PROVE  KeysInv'
    BY <2>2, ChatRequestKeeps
  <2>3. ASSUME NEW id \in Ids, NEW gmin \in Given, NEW gdef \in Given, NEW gmax \in Given,
               Create(id, gmin, gdef, gmax) \/ Update(id, gmin, gdef, gmax), UNCHANGED now
        PROVE  KeysInv'
    BY <2>3, CreateKeeps, UpdateKeeps
  <2>4. ASSUME NEW id \in Ids, Revoke(id) \/ Delete(id), UNCHANGED now
        PROVE  KeysInv'
    BY <2>4, RevokeKeeps, DeleteKeeps
  <2>5. CASE AdminKeyCall
    BY <2>3, <2>4, <2>5 DEF AdminKeyCall, Passes
  <2>6. CASE CommandLine
    BY <2>3, <2>4, <2>6 DEF CommandLine
  <2>7. CASE Tick \/ Restart
    BY <2>7, TickKeeps, RestartKeeps
  <2>8. CASE UNCHANGED accessVars
    BY <2>8, KeysStay DEF accessVars, store
  <2> QED BY <2>1, <2>2, <2>5, <2>6, <2>7, <2>8 DEF AccessNext, CallStep
<1> QED BY <1>1, KeysBegin, PTL DEF AccessSpec

-----------------------------------------------------------------------------
(* The throttle of failed logins.                                          *)

(* The times of one address, the oldest first. *)
Rising(times) ==
    /\ times \in Seq(Times)
    /\ \A i, j \in 1 .. Len(times) : i <= j => times[i] <= times[j]
    /\ \A i \in 1 .. Len(times) : times[i] <= now

ThrottleTyped ==
    /\ now \in Times
    /\ failures \in [Addresses -> Seq(Times)] /\ guesses \in [Addresses -> Seq(Times)]
    /\ since \in [Addresses -> SUBSET Addresses]
    /\ \A a \in Addresses : Rising(failures[a]) /\ Rising(guesses[a])
    /\ IsFiniteSet(Tracked(failures)) /\ \A a \in Addresses : IsFiniteSet(since[a])

(* since[a] is who comes behind a: a strict order, ... *)
Behind(order) ==
    \A a \in Addresses : a \notin order[a] /\ \A b \in order[a] : order[b] \subseteq order[a]

(* ... total on the addresses that are tracked, in the order of their last *)
(* failures, and whoever comes behind one that still counts is tracked.    *)
OrderKnown ==
    /\ behind = since /\ Behind(since)
    /\ \A a, b \in Tracked(failures) :
          /\ a = b \/ b \in since[a] \/ a \in since[b]
          /\ b \in since[a] => Last(failures[a]) <= Last(failures[b])
    /\ \A a \in Addresses : Recent(failures[a]) # <<>> => since[a] \subseteq Tracked(failures)

SameRecent == \A a \in Addresses : Recent(failures[a]) = Recent(guesses[a])

WithinBounds ==
    /\ Cardinality(Tracked(failures)) <= MaxTracked
    /\ \A a \in Addresses : Len(failures[a]) <= MaxFailures

RefusalEnds ==
    /\ refusal \in [ip : Addresses \cup {None}, at : Times, wait : Nat]
    /\ refusal # NoRefusal =>
      /\ refusal.ip \in Addresses
      /\ \/ Len(failures[refusal.ip]) < MaxFailures
         \/ failures[refusal.ip][1] + Window <= refusal.at + refusal.wait * Second

ThrottleKnown == ThrottleTyped /\ OrderKnown /\ SameRecent /\ WithinBounds /\ RefusalEnds

-----------------------------------------------------------------------------
(* Later: the failures that remain when the oldest go.                     *)

(* Begins(s, i, limit): the failures later than limit begin at i. *)
Begins(s, i, limit) ==
    /\ i \in 1 .. Len(s) + 1
    /\ \A j \in 1 .. i - 1 : s[j] <= limit
    /\ i <= Len(s) => s[i] > limit

LEMMA TailOfSeq ==
  ASSUME NEW S, NEW s \in Seq(S), NEW k \in 1 .. Len(s) + 1
  PROVE  /\ SubSeq(s, k, Len(s)) \in Seq(S)
         /\ Len(SubSeq(s, k, Len(s))) = Len(s) - k + 1
         /\ \A i \in 1 .. Len(s) - k + 1 : SubSeq(s, k, Len(s))[i] = s[i + k - 1]
<1>1. Len(s) \in Nat
  OBVIOUS
<1> QED BY <1>1

(* They begin at exactly one place. *)
LEMMA FirstLaterIs ==
  ASSUME NEW s \in Seq(Nat), NEW limit \in Int
  PROVE  /\ Begins(s, FirstLater(s, limit), limit)
         /\ \A i : Begins(s, i, limit) => FirstLater(s, limit) = i
<1>1. Len(s) \in Nat /\ \A i \in 1 .. Len(s) : s[i] \in Nat
  OBVIOUS
<1>2. \E i : Begins(s, i, limit)
  <2> DEFINE D == {i \in 1 .. Len(s) + 1 : i <= Len(s) => s[i] > limit}
  <2>1. D \in SUBSET Nat /\ Len(s) + 1 \in D
    BY <1>1
  <2>2. PICK m \in D : \A i \in D : m <= i
    <3> HIDE DEF D
    <3> QED BY <2>1, LeastExists
  <2>3. \A j \in 1 .. m - 1 : s[j] <= limit
    BY <1>1, <2>2
  <2> QED BY <2>2, <2>3 DEF Begins
<1>3. \A i, k : Begins(s, i, limit) /\ Begins(s, k, limit) => i = k
  <2> SUFFICES ASSUME NEW i, NEW k, Begins(s, i, limit), Begins(s, k, limit), i < k PROVE FALSE
    BY <1>1 DEF Begins
  <2> QED BY <1>1 DEF Begins
<1>4. FirstLater(s, limit) = CHOOSE i : Begins(s, i, limit)
  BY Zenon DEF FirstLater, Begins
<1> QED BY <1>2, <1>3, <1>4

(* What remains, element by element. *)
LEMMA LaterIs ==
  ASSUME NEW s \in Seq(Nat), NEW limit \in Int
  PROVE  \E k \in 1 .. Len(s) + 1 :
            /\ Begins(s, k, limit)
            /\ Later(s, limit) = SubSeq(s, k, Len(s))
            /\ Later(s, limit) \in Seq(Nat)
            /\ Len(Later(s, limit)) = Len(s) - k + 1
            /\ \A i \in 1 .. Len(s) - k + 1 : Later(s, limit)[i] = s[i + k - 1]
<1> DEFINE k == FirstLater(s, limit)
<1>1. Len(s) \in Nat
  OBVIOUS
<1>2. Begins(s, k, limit)
  BY <1>1, FirstLaterIs
<1>3. k \in 1 .. Len(s) + 1
  BY <1>2 DEF Begins
<1>4. Later(s, limit) = SubSeq(s, k, Len(s))
  BY DEF Later
<1> HIDE DEF k
<1>5. SubSeq(s, k, Len(s)) \in Seq(Nat)
  BY <1>1, <1>3, SubSeqProperties
<1>6. /\ Len(SubSeq(s, k, Len(s))) = Len(s) - k + 1
      /\ \A i \in 1 .. Len(s) - k + 1 : SubSeq(s, k, Len(s))[i] = s[i + k - 1]
  BY <1>1, <1>3
<1> QED BY <1>2, <1>3, <1>4, <1>5, <1>6

(* A sequence whose tail from k is later than limit, and nothing before it. *)
LEMMA LaterFrom ==
  ASSUME NEW s \in Seq(Nat), NEW limit \in Int, NEW k, Begins(s, k, limit)
  PROVE  Later(s, limit) = SubSeq(s, k, Len(s))
BY FirstLaterIs DEF Later

LEMMA LaterOfEmpty ==
  ASSUME NEW limit \in Int
  PROVE  Later(<<>>, limit) = <<>>
<1> DEFINE s == <<>>
<1>1. s \in Seq(Nat) /\ Len(s) = 0
  OBVIOUS
<1> HIDE DEF s
<1>2. PICK k \in 1 .. Len(s) + 1 : Len(Later(s, limit)) = Len(s) - k + 1 /\ Later(s, limit) \in Seq(Nat)
  BY <1>1, LaterIs
<1>3. Later(s, limit) = <<>>
  BY <1>1, <1>2, EmptySeq
<1> QED BY <1>3 DEF s

(* One more failure in the window comes behind those that remain. *)
LEMMA LaterOfAppend ==
  ASSUME NEW s \in Seq(Nat), NEW limit \in Int, NEW t \in Nat, t > limit
  PROVE  Later(Append(s, t), limit) = Append(Later(s, limit), t)
<1>1. PICK k \in 1 .. Len(s) + 1 :
            /\ Begins(s, k, limit)
            /\ Later(s, limit) \in Seq(Nat)
            /\ Len(Later(s, limit)) = Len(s) - k + 1
            /\ \A i \in 1 .. Len(s) - k + 1 : Later(s, limit)[i] = s[i + k - 1]
  BY LaterIs
<1> DEFINE a == Append(s, t)
           r == Later(s, limit)
<1>2. /\ a \in Seq(Nat) /\ Len(a) = Len(s) + 1 /\ a[Len(s) + 1] = t /\ Len(s) \in Nat
      /\ \A i \in 1 .. Len(s) : a[i] = s[i]
  OBVIOUS
<1> HIDE DEF a, r
<1>3. Begins(a, k, limit)
  <2>1. k \in 1 .. Len(a) + 1 /\ \A j \in 1 .. k - 1 : a[j] = s[j]
    BY <1>1, <1>2
  <2>2. (\A j \in 1 .. k - 1 : s[j] <= limit) /\ (k <= Len(s) => s[k] > limit)
    BY <1>1 DEF Begins
  <2>3. \A j \in 1 .. k - 1 : a[j] <= limit
    BY <2>1, <2>2
  <2>4. k <= Len(a) => a[k] > limit
    <3>1. k <= Len(s) \/ k = Len(s) + 1
      BY <1>2
    <3>2. k <= Len(s) => a[k] = s[k]
      BY <1>2
    <3> QED BY <1>2, <2>2, <3>1, <3>2
  <2> QED BY <2>1, <2>3, <2>4 DEF Begins
<1>4. Later(a, limit) = SubSeq(a, k, Len(a))
  BY <1>2, <1>3, LaterFrom
<1>5. /\ SubSeq(a, k, Len(a)) \in Seq(Nat)
      /\ Len(SubSeq(a, k, Len(a))) = Len(s) - k + 2
      /\ \A i \in 1 .. Len(s) - k + 2 : SubSeq(a, k, Len(a))[i] = a[i + k - 1]
  <2>1. k \in 1 .. Len(a) + 1 /\ Len(a) - k + 1 = Len(s) - k + 2
    BY <1>1, <1>2
  <2> QED BY <1>2, <2>1, TailOfSeq
<1>6. /\ Append(r, t) \in Seq(Nat) /\ Len(Append(r, t)) = Len(s) - k + 2
      /\ \A i \in 1 .. Len(s) - k + 1 : Append(r, t)[i] = s[i + k - 1]
      /\ Append(r, t)[Len(s) - k + 2] = t
  <2>1. r \in Seq(Nat) /\ Len(r) = Len(s) - k + 1 /\ \A i \in 1 .. Len(s) - k + 1 : r[i] = s[i + k - 1]
    BY <1>1 DEF r
  <2> QED BY <1>1, <1>2, <2>1
<1>7. \A i \in 1 .. Len(s) - k + 2 : SubSeq(a, k, Len(a))[i] = Append(r, t)[i]
  <2> SUFFICES ASSUME NEW i \in 1 .. Len(s) - k + 2
               PROVE  SubSeq(a, k, Len(a))[i] = Append(r, t)[i]
    OBVIOUS
  <2>1. CASE i = Len(s) - k + 2
    <3>1. i + k - 1 = Len(s) + 1
      BY <1>1, <1>2, <2>1
    <3> QED BY <1>2, <1>5, <1>6, <2>1, <3>1
  <2>2. CASE i # Len(s) - k + 2
    <3>1. i \in 1 .. Len(s) - k + 1 /\ i + k - 1 \in 1 .. Len(s)
      BY <1>1, <1>2, <2>2
    <3> QED BY <1>2, <1>5, <1>6, <3>1
  <2> QED BY <2>1, <2>2
<1>8. SubSeq(a, k, Len(a)) = Append(r, t)
  BY <1>5, <1>6, <1>7, SeqEqual
<1> QED BY <1>4, <1>8 DEF a, r

(* What has been looked at before may be looked at again later. *)
LEMMA LaterOfLater ==
  ASSUME NEW s \in Seq(Nat), NEW u \in Int, NEW v \in Int, u <= v
  PROVE  Later(Later(s, u), v) = Later(s, v)
<1> DEFINE r == Later(s, u)
<1>1. PICK k \in 1 .. Len(s) + 1 :
            /\ Begins(s, k, u)
            /\ r = SubSeq(s, k, Len(s))
            /\ r \in Seq(Nat)
            /\ Len(r) = Len(s) - k + 1
            /\ \A i \in 1 .. Len(s) - k + 1 : r[i] = s[i + k - 1]
  BY LaterIs
<1> HIDE DEF r
<1>2. PICK m \in 1 .. Len(s) + 1 : Begins(s, m, v) /\ Later(s, v) = SubSeq(s, m, Len(s))
  BY LaterIs
<1>0. Len(s) \in Nat /\ \A i \in 1 .. Len(s) : s[i] \in Nat
  OBVIOUS
<1>3. k <= m
  BY <1>0, <1>1, <1>2 DEF Begins
<1> DEFINE n == m - k + 1
<1>4. Begins(r, n, v)
  <2>1. n \in 1 .. Len(r) + 1
    BY <1>0, <1>1, <1>2, <1>3
  <2>2. ASSUME NEW j \in 1 .. n - 1 PROVE r[j] <= v
    <3>1. j + k - 1 \in 1 .. m - 1 /\ j \in 1 .. Len(s) - k + 1
      BY <1>0, <1>1, <1>2, <1>3
    <3> QED BY <1>1, <1>2, <3>1 DEF Begins
  <2>3. ASSUME n <= Len(r) PROVE r[n] > v
    <3>1. n + k - 1 = m /\ n \in 1 .. Len(s) - k + 1 /\ m <= Len(s)
      BY <1>0, <1>1, <1>2, <1>3, <2>3
    <3> QED BY <1>1, <1>2, <3>1 DEF Begins
  <2> HIDE DEF n
  <2> QED BY <2>1, <2>2, <2>3 DEF Begins
<1>5. Later(r, v) = SubSeq(r, n, Len(r))
  BY <1>1, <1>4, LaterFrom
<1>6. SubSeq(r, n, Len(r)) = SubSeq(s, m, Len(s))
  <2>1. n \in 1 .. Len(r) + 1 /\ Len(r) \in Nat
    BY <1>1, <1>4 DEF Begins
  <2>2. /\ SubSeq(r, n, Len(r)) \in Seq(Nat)
        /\ Len(SubSeq(r, n, Len(r))) = Len(r) - n + 1
        /\ \A i \in 1 .. Len(r) - n + 1 : SubSeq(r, n, Len(r))[i] = r[i + n - 1]
    <3> HIDE DEF n
    <3> QED BY <1>1, <2>1, TailOfSeq
  <2>3. /\ SubSeq(s, m, Len(s)) \in Seq(Nat)
        /\ Len(SubSeq(s, m, Len(s))) = Len(s) - m + 1
        /\ \A i \in 1 .. Len(s) - m + 1 : SubSeq(s, m, Len(s))[i] = s[i + m - 1]
    BY TailOfSeq
  <2>4. Len(r) - n + 1 = Len(s) - m + 1
    BY <1>0, <1>1, <1>2
  <2>5. ASSUME NEW i \in 1 .. Len(s) - m + 1
        PROVE  SubSeq(r, n, Len(r))[i] = SubSeq(s, m, Len(s))[i]
    <3>1. i + n - 1 \in 1 .. Len(s) - k + 1 /\ (i + n - 1) + k - 1 = i + m - 1
      BY <1>0, <1>1, <1>2, <1>3
    <3>2. r[i + n - 1] = s[i + m - 1]
      BY <1>1, <3>1
    <3> QED BY <2>2, <2>3, <2>4, <3>2
  <2> HIDE DEF n
  <2> QED BY <2>2, <2>3, <2>4, <2>5, SeqEqual
<1> QED BY <1>2, <1>5, <1>6 DEF r

(* What is looked at later of the times of one address. *)
LEMMA RecentIs ==
  ASSUME now \in Times, NEW s, Rising(s), NEW limit \in Int
  PROVE  LET r == Later(s, limit) IN
         /\ Rising(r) /\ Len(r) <= Len(s)
         /\ r # <<>> <=> s # <<>> /\ Last(s) > limit
         /\ r # <<>> => Last(r) = Last(s)
         /\ Len(r) = Len(s) /\ s # <<>> => r[1] = s[1]
         /\ \A i \in 1 .. Len(r) : r[i] > limit
         /\ Len(s) \in Nat /\ Len(r) \in Nat
<1> DEFINE r == Later(s, limit)
<1>1. /\ Times \subseteq Nat /\ s \in Seq(Times) /\ s \in Seq(Nat) /\ Len(s) \in Nat
      /\ \A i \in 1 .. Len(s) : s[i] \in Times /\ s[i] \in Nat
      /\ s = <<>> <=> Len(s) = 0
  <2>1. Times \subseteq Nat
    BY DEF Times
  <2>2. s \in Seq(Times) /\ Len(s) \in Nat
    BY DEF Rising
  <2>3. s \in Seq(Nat)
    BY <2>1, <2>2, SeqMonotonic
  <2>4. \A i \in 1 .. Len(s) : s[i] \in Times /\ s[i] \in Nat
    BY <2>1, <2>2, ElementOfSeq
  <2>5. s = <<>> <=> Len(s) = 0
    BY <2>3, EmptySeq
  <2> QED BY <2>1, <2>2, <2>3, <2>4, <2>5
<1>2. PICK k \in 1 .. Len(s) + 1 :
            /\ Begins(s, k, limit)
            /\ r = SubSeq(s, k, Len(s))
            /\ r \in Seq(Nat)
            /\ Len(r) = Len(s) - k + 1
            /\ \A i \in 1 .. Len(s) - k + 1 : r[i] = s[i + k - 1]
  BY <1>1, LaterIs
<1> HIDE DEF r
<1>3. r \in Seq(Times)
  BY <1>1, <1>2, TailOfSeq
<1>4. \A i \in 1 .. Len(r) : i + k - 1 \in 1 .. Len(s) /\ r[i] = s[i + k - 1]
  BY <1>1, <1>2
<1>5. Rising(r)
  <2>1. ASSUME NEW i \in 1 .. Len(r), NEW j \in 1 .. Len(r), i <= j PROVE r[i] <= r[j]
    <3>1. i + k - 1 <= j + k - 1 /\ i + k - 1 \in 1 .. Len(s) /\ j + k - 1 \in 1 .. Len(s)
      BY <1>4, <2>1, <1>1, <1>2
    <3> QED BY <1>4, <3>1 DEF Rising
  <2>2. ASSUME NEW i \in 1 .. Len(r) PROVE r[i] <= now
    BY <1>4 DEF Rising
  <2> QED BY <1>3, <2>1, <2>2 DEF Rising
<1>6. r = <<>> <=> Len(r) = 0
  BY <1>2, EmptySeq
<1>7. \A i \in 1 .. Len(r) : r[i] > limit
  <2> SUFFICES ASSUME NEW i \in 1 .. Len(r) PROVE s[i + k - 1] > limit
    BY <1>4
  <2>1. k \in 1 .. Len(s) /\ i + k - 1 \in 1 .. Len(s) /\ k <= i + k - 1 /\ k <= Len(s)
    BY <1>1, <1>2, <1>4
  <2>2. s[k] <= s[i + k - 1]
    BY <2>1 DEF Rising
  <2>3. s[k] > limit
    BY <1>2, <2>1 DEF Begins
  <2> QED BY <1>1, <2>1, <2>2, <2>3
<1>8. r # <<>> => Last(r) = Last(s) /\ s # <<>>
  <2> SUFFICES ASSUME Len(r) # 0 PROVE Last(r) = Last(s) /\ Len(s) # 0
    BY <1>1, <1>6
  <2>1. Len(r) \in 1 .. Len(r) /\ Len(r) + k - 1 = Len(s) /\ Len(s) # 0
    BY <1>1, <1>2
  <2> QED BY <1>4, <2>1 DEF Last
<1>9. ASSUME s # <<>>, Last(s) > limit PROVE r # <<>>
  <2> SUFFICES ASSUME k = Len(s) + 1 PROVE FALSE
    BY <1>1, <1>2, <1>6
  <2>1. Len(s) \in 1 .. k - 1
    BY <1>1, <1>9
  <2>2. s[Len(s)] <= limit
    BY <1>2, <2>1 DEF Begins
  <2> QED BY <1>1, <1>9, <2>1, <2>2 DEF Last
<1>10. r # <<>> => Last(s) > limit
  <2> SUFFICES ASSUME r # <<>> PROVE Last(r) > limit
    BY <1>8
  <2>1. Len(r) \in 1 .. Len(r)
    BY <1>1, <1>2, <1>6
  <2> QED BY <1>7, <2>1 DEF Last
<1>11. Len(r) = Len(s) /\ s # <<>> => r[1] = s[1]
  BY <1>1, <1>2
<1>12. Len(r) \in Nat /\ Len(r) <= Len(s)
  BY <1>1, <1>2
<1> QED BY <1>1, <1>5, <1>7, <1>8, <1>9, <1>10, <1>11, <1>12 DEF r

(* One more failure, now. *)
LEMMA RisingAppend ==
  ASSUME now \in Times, NEW s, Rising(s)
  PROVE  /\ Rising(Append(s, now)) /\ Append(s, now) # <<>> /\ Last(Append(s, now)) = now
         /\ Len(Append(s, now)) = Len(s) + 1
<1> DEFINE a == Append(s, now)
<1>1. /\ a \in Seq(Times) /\ Len(a) = Len(s) + 1 /\ a[Len(s) + 1] = now /\ Len(s) \in Nat
      /\ \A i \in 1 .. Len(s) : a[i] = s[i] /\ s[i] <= now
      /\ now \in Nat
  BY DEF Rising, Times
<1> HIDE DEF a
<1>2. a # <<>>
  BY <1>1, EmptySeq
<1>3. ASSUME NEW i \in 1 .. Len(a), NEW j \in 1 .. Len(a), i <= j PROVE a[i] <= a[j]
  <2>1. CASE j = Len(s) + 1
    BY <1>1, <1>3, <2>1
  <2>2. CASE j # Len(s) + 1
    <3>1. i \in 1 .. Len(s) /\ j \in 1 .. Len(s)
      BY <1>1, <1>3, <2>2
    <3> QED BY <1>1, <1>3, <3>1 DEF Rising
  <2> QED BY <2>1, <2>2
<1>4. \A i \in 1 .. Len(a) : a[i] <= now
  BY <1>1
<1> QED BY <1>1, <1>2, <1>3, <1>4 DEF a, Rising, Last

(* Of a line, order[a] behind a, the last n are at most n. *)
IsLine(L, order) ==
    /\ IsFiniteSet(L)
    /\ \A a \in L : a \notin order[a] /\ \A b \in L \cap order[a] : order[b] \subseteq order[a]
    /\ \A a, b \in L : a = b \/ b \in order[a] \/ a \in order[b]

LEMMA LastOfLine ==
  ASSUME NEW L, NEW order, IsLine(L, order), NEW n \in Nat
  PROVE  Cardinality({a \in L : Cardinality(L \cap order[a]) < n}) <= n
<1> DEFINE c == [a \in L |-> Cardinality(L \cap order[a])]
           K == {a \in L : c[a] < n}
           D == {d \in 0 .. n : \E a \in K : d = c[a]}
<1> SUFFICES Cardinality(K) <= n
  <2>1. K = {a \in L : Cardinality(L \cap order[a]) < n}
    OBVIOUS
  <2> QED BY <2>1
<1>1. \A a \in L : IsFiniteSet(L \cap order[a]) /\ c[a] \in Nat /\ c[a] = Cardinality(L \cap order[a])
  BY FS_Subset, FS_CardinalityType DEF IsLine
<1>2. \A a \in K : a \in L /\ c[a] < n
  OBVIOUS
<1>3. IsFiniteSet(K)
  BY FS_Subset DEF IsLine
<1>4. ASSUME NEW a \in L, NEW b \in L \cap order[a] PROVE c[b] + 1 <= c[a]
  <2>1. /\ (L \cap order[b]) \cup {b} \in SUBSET (L \cap order[a])
        /\ b \notin L \cap order[b]
    BY <1>4 DEF IsLine
  <2>2. Cardinality((L \cap order[b]) \cup {b}) = Cardinality(L \cap order[b]) + 1
    BY <1>1, <2>1, FS_AddElement
  <2>3. Cardinality((L \cap order[b]) \cup {b}) <= Cardinality(L \cap order[a])
    BY <1>1, <2>1, FS_Subset
  <2> HIDE DEF c
  <2> QED BY <1>1, <2>2, <2>3
<1>5. CASE K = {}
  <2>1. Cardinality(K) = 0
    BY <1>5, FS_EmptySet
  <2> HIDE DEF K
  <2> QED BY <2>1
<1>6. CASE K # {}
  <2> HIDE DEF c, K
  <2>1. \A a \in K : c[a] \in D
    <3> TAKE a \in K
    <3>1. a \in L /\ c[a] < n
      BY <1>2
    <3>2. c[a] \in Nat
      BY <1>1, <3>1
    <3>3. c[a] \in 0 .. n
      BY <3>1, <3>2
    <3> QED BY <3>3
  <2>2. D \in SUBSET (0 .. n) /\ D # {}
    BY <1>6, <2>1
  <2>3. PICK d \in D : \A i \in D : i <= d
    <3> HIDE DEF D
    <3> QED BY <2>2, GreatestExists
  <2>4. PICK m \in K : d = c[m]
    BY <2>3
  <2>5. ASSUME NEW x \in K, x # m PROVE x \in order[m]
    <3> SUFFICES ASSUME m \in order[x] PROVE FALSE
      BY <1>2, <2>5 DEF IsLine
    <3>1. c[m] + 1 <= c[x]
      BY <1>2, <1>4
    <3>2. c[x] <= c[m]
      <4> HIDE DEF D
      <4> QED BY <2>1, <2>3, <2>4
    <3>3. m \in L /\ x \in L
      BY <1>2
    <3>4. c[m] \in Nat /\ c[x] \in Nat
      BY <1>1, <3>3
    <3> QED BY <3>1, <3>2, <3>4
  <2>6. K \ {m} \in SUBSET (L \cap order[m])
    BY <1>2, <2>5
  <2>7. Cardinality(K \ {m}) <= c[m]
    <3>1. m \in L
      BY <1>2
    <3>2. IsFiniteSet(L \cap order[m]) /\ c[m] = Cardinality(L \cap order[m])
      BY <1>1, <3>1
    <3>3. Cardinality(K \ {m}) <= Cardinality(L \cap order[m])
      BY <2>6, <3>2, FS_Subset
    <3> QED BY <3>2, <3>3
  <2>8. Cardinality(K \ {m}) = Cardinality(K) - 1 /\ Cardinality(K) \in Nat
    BY <1>3, FS_RemoveElement, FS_CardinalityType
  <2>9. m \in L /\ c[m] < n
    BY <1>2
  <2>10. c[m] \in Nat
    BY <1>1, <2>9
  <2> QED BY <2>7, <2>8, <2>9, <2>10
<1> QED BY <1>5, <1>6

-----------------------------------------------------------------------------
(* What is known of the throttle is kept by every step.                    *)

LEMMA LimitsAre ==
  ASSUME now \in Times
  PROVE  now \in Nat /\ now - Window \in Int /\ now > now - Window /\ now - Window <= now - Window
         /\ Times \subseteq Nat
BY AccessConstants DEF Times

LEMMA ThrottleBegins == AccessInit => ThrottleKnown
<1> SUFFICES ASSUME AccessInit PROVE ThrottleKnown
  OBVIOUS
<1>1. now = 0 /\ now \in Times
  BY AccessConstants DEF AccessInit, Times
<1>2. failures = [a \in Addresses |-> <<>>] /\ guesses = [a \in Addresses |-> <<>>]
      /\ behind = [a \in Addresses |-> {}] /\ since = [a \in Addresses |-> {}] /\ refusal = NoRefusal
  BY DEF AccessInit
<1>3. <<>> \in Seq(Times) /\ Len(<<>>) = 0
  OBVIOUS
<1>4. Tracked(failures) = {}
  BY <1>2 DEF Tracked
<1>5. Rising(<<>>)
  BY <1>3 DEF Rising
<1>6. Recent(<<>>) = <<>>
  BY <1>1, LimitsAre, LaterOfEmpty DEF Recent
<1>7. IsFiniteSet({}) /\ Cardinality({}) = 0
  BY FS_EmptySet
<1>8. ThrottleTyped
  BY <1>1, <1>2, <1>3, <1>4, <1>5, <1>7 DEF ThrottleTyped
<1>9. OrderKnown
  BY <1>2, <1>4, <1>6 DEF OrderKnown, Behind
<1>10. SameRecent
  BY <1>2 DEF SameRecent
<1>11. WithinBounds
  <2>1. \A a \in Addresses : Len(failures[a]) = 0
    BY <1>2, <1>3
  <2>2. Cardinality(Tracked(failures)) = 0
    BY <1>4, <1>7
  <2>3. 0 <= MaxFailures /\ 0 <= MaxTracked
    BY AccessConstants
  <2> QED BY <2>1, <2>2, <2>3 DEF WithinBounds
<1>12. RefusalEnds
  BY <1>1, <1>2 DEF RefusalEnds, NoRefusal
<1> QED BY <1>8, <1>9, <1>10, <1>11, <1>12 DEF ThrottleKnown

(* The addresses of which something may be forgotten, and nothing else. *)
Forgets ==
    /\ failures' \in [Addresses -> Seq(Times)]
    /\ \A a \in Addresses : failures'[a] = failures[a] \/ failures'[a] = Recent(failures[a])
    /\ UNCHANGED <<now, behind, since, guesses>>

LEMMA ForgetsOne ==
  ASSUME ThrottleTyped, Forgets, NEW a \in Addresses
  PROVE  /\ Rising(failures'[a]) /\ Recent(failures'[a]) = Recent(failures[a])
         /\ failures'[a] # <<>> => failures[a] # <<>> /\ Last(failures'[a]) = Last(failures[a])
         /\ Recent(failures[a]) # <<>> => failures'[a] # <<>>
         /\ Len(failures'[a]) <= Len(failures[a])
         /\ Len(failures'[a]) = Len(failures[a]) /\ failures[a] # <<>>
               => failures'[a][1] = failures[a][1]
         /\ Len(failures'[a]) \in Nat /\ Len(failures[a]) \in Nat
<1> DEFINE s == failures[a]
           l == now - Window
<1>1. now \in Times /\ Rising(s) /\ l \in Int /\ l <= l
  BY LimitsAre DEF ThrottleTyped
<1>2. s \in Seq(Nat)
  BY <1>1, LimitsAre, SeqMonotonic DEF Rising
<1> HIDE DEF s, l
<1>3. Recent(s) = Later(s, l) /\ Recent(Recent(s)) = Later(Later(s, l), l)
  BY DEF Recent, l
<1>4. Later(Later(s, l), l) = Later(s, l)
  BY <1>1, <1>2, LaterOfLater
<1>5. /\ Rising(Recent(s)) /\ Len(Recent(s)) <= Len(s)
      /\ Recent(s) # <<>> <=> s # <<>> /\ Last(s) > l
      /\ Recent(s) # <<>> => Last(Recent(s)) = Last(s)
      /\ Len(Recent(s)) = Len(s) /\ s # <<>> => Recent(s)[1] = s[1]
      /\ Len(s) \in Nat /\ Len(Recent(s)) \in Nat
  BY <1>1, <1>3, RecentIs
<1>6. failures'[a] = s \/ failures'[a] = Recent(s)
  BY DEF Forgets, s
<1>7. CASE failures'[a] = s
  BY <1>1, <1>5, <1>7 DEF s
<1>8. CASE failures'[a] = Recent(s)
  BY <1>3, <1>4, <1>5, <1>8 DEF s
<1> QED BY <1>6, <1>7, <1>8

LEMMA LastType ==
  ASSUME now \in Times, NEW s, Rising(s), s # <<>>
  PROVE  Last(s) \in Times /\ Last(s) \in Nat /\ Last(s) <= now
<1>1. Len(s) \in 1 .. Len(s)
  BY EmptySeq DEF Rising
<1>2. s[Len(s)] \in Times
  BY <1>1, ElementOfSeq DEF Rising
<1>3. s[Len(s)] <= now
  BY <1>1 DEF Rising
<1> QED BY <1>2, <1>3, LimitsAre DEF Last

(* A failure at least as late as one that counts counts. *)
LEMMA StillCounts ==
  ASSUME ThrottleTyped, NEW a \in Addresses, NEW b \in Addresses, Recent(failures[a]) # <<>>,
         failures[b] # <<>>, Last(failures[a]) <= Last(failures[b])
  PROVE  Recent(failures[b]) # <<>>
<1>1. now \in Times /\ now \in Nat /\ now - Window \in Int /\ Rising(failures[a]) /\ Rising(failures[b])
  BY LimitsAre DEF ThrottleTyped
<1>2. failures[a] # <<>> /\ Last(failures[a]) > now - Window
  BY <1>1, RecentIs DEF Recent
<1>3. Last(failures[a]) \in Nat /\ Last(failures[b]) \in Nat
  BY <1>1, <1>2, LastType
<1>4. Last(failures[b]) > now - Window
  BY <1>1, <1>2, <1>3
<1> QED BY <1>1, <1>4, RecentIs DEF Recent

LEMMA ForgettingKeeps ==
  ASSUME ThrottleKnown, Forgets
  PROVE  ThrottleTyped' /\ OrderKnown' /\ SameRecent' /\ WithinBounds'
<1>1. ThrottleTyped /\ OrderKnown /\ SameRecent /\ WithinBounds
  BY DEF ThrottleKnown
<1>2. UNCHANGED <<now, behind, since, guesses>>
  BY DEF Forgets
<1>3. Tracked(failures)' \subseteq Tracked(failures) /\ Tracked(failures) \subseteq Addresses
  BY <1>1, ForgetsOne DEF Tracked
<1>4. /\ IsFiniteSet(Tracked(failures)') /\ Cardinality(Tracked(failures)') <= MaxTracked
  <2>1. IsFiniteSet(Tracked(failures)) /\ Cardinality(Tracked(failures)) <= MaxTracked
    BY <1>1 DEF ThrottleTyped, WithinBounds
  <2>2. IsFiniteSet(Tracked(failures)') /\ Cardinality(Tracked(failures)') <= Cardinality(Tracked(failures))
    BY <1>3, <2>1, FS_Subset
  <2> QED BY <2>1, <2>2, <1>3, AccessConstants, FS_CardinalityType
<1>5. ThrottleTyped'
  <2>1. \A a \in Addresses : Rising(failures[a])' /\ Rising(guesses[a])'
    BY <1>1, <1>2, ForgetsOne DEF Rising, ThrottleTyped
  <2> QED BY <1>1, <1>2, <1>4, <2>1 DEF ThrottleTyped, Forgets
<1>6. \A a \in Addresses : Recent(failures[a])' = Recent(failures[a]) /\ Recent(guesses[a])' = Recent(guesses[a])
  BY <1>1, <1>2, ForgetsOne DEF Recent
<1>7. OrderKnown'
  <2>1. (behind = since /\ Behind(since))'
    BY <1>1, <1>2 DEF OrderKnown, Behind
  <2>2. ASSUME NEW a \in Tracked(failures)', NEW b \in Tracked(failures)'
        PROVE  /\ a = b \/ b \in since'[a] \/ a \in since'[b]
               /\ b \in since'[a] => Last(failures[a])' <= Last(failures[b])'
    <3>1. a \in Tracked(failures) /\ b \in Tracked(failures) /\ a \in Addresses /\ b \in Addresses
          /\ failures'[a] # <<>> /\ failures'[b] # <<>>
      BY <1>3 DEF Tracked
    <3>2. Last(failures'[a]) = Last(failures[a]) /\ Last(failures'[b]) = Last(failures[b])
      BY <1>1, <3>1, ForgetsOne
    <3>3. /\ a = b \/ b \in since[a] \/ a \in since[b]
          /\ b \in since[a] => Last(failures[a]) <= Last(failures[b])
      BY <1>1, <3>1 DEF OrderKnown
    <3> QED BY <1>2, <3>2, <3>3 DEF Last
  <2>3. ASSUME NEW a \in Addresses, Recent(failures[a])' # <<>>, NEW b \in since'[a]
        PROVE  b \in Tracked(failures)'
    <3>1. Recent(failures[a]) # <<>> /\ b \in since[a]
      BY <1>2, <1>6, <2>3
    <3>2. b \in Tracked(failures) /\ b \in Addresses /\ failures[b] # <<>>
      BY <1>1, <3>1 DEF OrderKnown, Tracked
    <3>3. Recent(failures[b]) # <<>>
      <4>1. failures[a] # <<>>
        <5>1. now \in Times /\ now - Window \in Int /\ Rising(failures[a])
          BY <1>1, LimitsAre DEF ThrottleTyped
        <5> QED BY <3>1, <5>1, RecentIs DEF Recent
      <4>2. a \in Tracked(failures)
        BY <4>1 DEF Tracked
      <4>3. Last(failures[a]) <= Last(failures[b])
        BY <1>1, <3>1, <3>2, <4>2 DEF OrderKnown
      <4> QED BY <1>1, <3>1, <3>2, <4>3, StillCounts
    <3> QED BY <1>1, <3>2, <3>3, ForgetsOne DEF Tracked
  <2> QED BY <2>1, <2>2, <2>3 DEF OrderKnown
<1>8. SameRecent'
  BY <1>1, <1>6 DEF SameRecent
<1>9. WithinBounds'
  <2>1. ASSUME NEW a \in Addresses PROVE Len(failures'[a]) <= MaxFailures
    <3>1. Len(failures'[a]) <= Len(failures[a]) /\ Len(failures[a]) <= MaxFailures
          /\ Len(failures'[a]) \in Nat /\ Len(failures[a]) \in Nat
      BY <1>1, ForgetsOne DEF WithinBounds
    <3> QED BY <3>1, AccessConstants
  <2> QED BY <1>4, <2>1 DEF WithinBounds
<1> QED BY <1>5, <1>7, <1>8, <1>9

(* Looking at an address: what check() does whatever comes of it. *)
LEMMA CheckedForgets ==
  ASSUME ThrottleTyped, NEW ip \in Addresses, Checked(ip), UNCHANGED <<now, behind, since, guesses>>
  PROVE  Forgets
<1>1. failures \in [Addresses -> Seq(Times)] /\ now \in Times /\ now - Window \in Int /\ Rising(failures[ip])
  BY LimitsAre DEF ThrottleTyped
<1>2. Rising(Recent(failures[ip]))
  BY <1>1, RecentIs DEF Recent
<1>3. Recent(failures[ip]) \in Seq(Times)
  BY <1>2 DEF Rising
<1>4. failures' = [failures EXCEPT ![ip] = Recent(failures[ip])]
  BY DEF Checked
<1> QED BY <1>1, <1>3, <1>4 DEF Forgets

(* The latest refusal ends no later when failures are forgotten. *)
LEMMA ForgettingEnds ==
  ASSUME ThrottleKnown, Forgets, UNCHANGED refusal
  PROVE  RefusalEnds'
<1>1. RefusalEnds /\ ThrottleTyped /\ WithinBounds
  BY DEF ThrottleKnown
<1> SUFFICES ASSUME refusal # NoRefusal
             PROVE  \/ Len(failures'[refusal.ip]) < MaxFailures
                    \/ failures'[refusal.ip][1] + Window <= refusal.at + refusal.wait * Second
  BY <1>1 DEF RefusalEnds, NoRefusal
<1> DEFINE a == refusal.ip
<1>2. /\ a \in Addresses
      /\ \/ Len(failures[a]) < MaxFailures
         \/ failures[a][1] + Window <= refusal.at + refusal.wait * Second
  BY <1>1 DEF RefusalEnds
<1>3. Len(failures[a]) <= MaxFailures
  BY <1>1, <1>2 DEF WithinBounds
<1> HIDE DEF a
<1>4. /\ Len(failures'[a]) <= Len(failures[a])
      /\ Len(failures'[a]) = Len(failures[a]) /\ failures[a] # <<>>
               => failures'[a][1] = failures[a][1]
      /\ Len(failures'[a]) \in Nat /\ Len(failures[a]) \in Nat /\ MaxFailures \in Nat \ {0}
  BY <1>1, <1>2, ForgetsOne, AccessConstants
<1>5. failures[a] = <<>> => Len(failures[a]) = 0
  OBVIOUS
<1>6. Len(failures'[a]) < MaxFailures \/ failures'[a][1] + Window <= refusal.at + refusal.wait * Second
  BY <1>2, <1>3, <1>4, <1>5
<1> QED BY <1>6 DEF a

LEMMA PassingKeeps ==
  ASSUME ThrottleKnown, NEW ip \in Addresses, Passes(ip)
  PROVE  ThrottleKnown'
<1>1. Forgets /\ UNCHANGED refusal
  BY CheckedForgets DEF Passes, ThrottleKnown
<1> QED BY <1>1, ForgettingKeeps, ForgettingEnds DEF ThrottleKnown

(* Retry-After is long enough for the oldest failure to leave the window. *)
LEMMA WaitIs ==
  ASSUME NEW left \in Int
  PROVE  LET n == (left + Second - 1) \div Second IN n \in Int /\ left <= n * Second
BY AccessConstants

LEMMA WaitEnds ==
  ASSUME now \in Times, NEW times, times[1] \in Nat
  PROVE  Wait(times) \in Nat /\ times[1] + Window <= now + Wait(times) * Second
<1> DEFINE left == times[1] + Window - now
           n == (left + Second - 1) \div Second
<1>1. now \in Nat /\ left \in Int /\ Second \in Nat \ {0} /\ Window \in Nat
  BY LimitsAre, AccessConstants
<1>2. n \in Int /\ left <= n * Second
  <2> HIDE DEF left
  <2> QED BY <1>1, WaitIs
<1>3. Wait(times) = IF n < 1 THEN 1 ELSE n
  BY DEF Wait
<1>4. times[1] + Window = now + left
  BY <1>1
<1> HIDE DEF left, n
<1>5. CASE n < 1
  <2>1. n * Second <= 0
    BY <1>1, <1>2, <1>5
  <2>2. n * Second \in Int
    BY <1>1, <1>2
  <2>3. left <= Second /\ 1 * Second = Second
    BY <1>1, <1>2, <2>1, <2>2
  <2> QED BY <1>1, <1>3, <1>4, <1>5, <2>3
<1>6. CASE ~ (n < 1)
  <2>1. n \in Nat /\ n * Second \in Int
    BY <1>1, <1>2, <1>6
  <2> QED BY <1>1, <1>2, <1>3, <1>4, <1>6, <2>1
<1> QED BY <1>5, <1>6

LEMMA RefusingKeeps ==
  ASSUME ThrottleKnown, NEW ip \in Addresses, RefusedBy(ip)
  PROVE  ThrottleKnown'
<1> DEFINE times == Recent(failures[ip])
<1>1. ThrottleTyped /\ WithinBounds
  BY DEF ThrottleKnown
<1>2. Forgets
  BY CheckedForgets DEF RefusedBy, ThrottleKnown
<1>3. ThrottleTyped' /\ OrderKnown' /\ SameRecent' /\ WithinBounds'
  BY <1>2, ForgettingKeeps
<1>4. now \in Times /\ now' = now /\ failures'[ip] = times
      /\ refusal' = [ip |-> ip, at |-> now, wait |-> Wait(times)]
  BY <1>1 DEF RefusedBy, Checked, ThrottleTyped
<1>5. times[1] \in Nat
  <2>1. Rising(times) /\ Len(times) \in Nat
    <3>1. now - Window \in Int /\ Rising(failures[ip])
      BY <1>1, LimitsAre DEF ThrottleTyped
    <3> QED BY <1>4, <3>1, RecentIs DEF Recent
  <2>2. Len(times) >= MaxFailures
    BY DEF RefusedBy
  <2> HIDE DEF times
  <2>3. 1 \in 1 .. Len(times)
    BY <2>1, <2>2, AccessConstants
  <2>4. times[1] \in Times
    BY <2>1, <2>3, ElementOfSeq DEF Rising
  <2> QED BY <1>4, <2>4, LimitsAre
<1> HIDE DEF times
<1>6. Wait(times) \in Nat /\ times[1] + Window <= now + Wait(times) * Second
  BY <1>4, <1>5, WaitEnds
<1>7. RefusalEnds'
  <2>1. refusal'.ip = ip /\ refusal'.at = now /\ refusal'.wait = Wait(times)
        /\ refusal' \in [ip : Addresses \cup {None}, at : Times, wait : Nat]
    BY <1>4, <1>6
  <2> QED BY <1>4, <1>6, <2>1 DEF RefusalEnds
<1> QED BY <1>3, <1>7 DEF ThrottleKnown

(* A failure: the order afterwards. *)
LEMMA MovedIs ==
  ASSUME ThrottleKnown, NEW ip \in Addresses, FailureOf(ip)
  PROVE  /\ behind' = since' /\ since' \in [Addresses -> SUBSET Addresses]
         /\ \A a \in Addresses : since'[a] = IF a = ip THEN {} ELSE since[a] \cup {ip}
         /\ Behind(since') /\ \A a \in Addresses : IsFiniteSet(since'[a])
<1>1. since \in [Addresses -> SUBSET Addresses] /\ behind = since /\ Behind(since)
      /\ \A a \in Addresses : IsFiniteSet(since[a])
  BY DEF ThrottleKnown, ThrottleTyped, OrderKnown
<1>2. behind' = MovedBack(behind, ip) /\ since' = MovedBack(since, ip)
  BY DEF FailureOf, Fail
<1>3. /\ since' \in [Addresses -> SUBSET Addresses]
      /\ \A a \in Addresses : since'[a] = IF a = ip THEN {} ELSE since[a] \cup {ip}
  BY <1>1, <1>2 DEF MovedBack
<1>4. \A a \in Addresses : IsFiniteSet(since'[a])
  <2> SUFFICES ASSUME NEW a \in Addresses PROVE IsFiniteSet(since'[a])
    OBVIOUS
  <2>1. IsFiniteSet({}) /\ IsFiniteSet(since[a] \cup {ip})
    BY <1>1, FS_AddElement, FS_EmptySet
  <2> QED BY <1>3, <2>1
<1>5. Behind(since')
  <2> SUFFICES ASSUME NEW a \in Addresses
               PROVE  a \notin since'[a] /\ \A b \in since'[a] : since'[b] \subseteq since'[a]
    BY DEF Behind
  <2>1. a \notin since'[a]
    BY <1>1, <1>3 DEF Behind
  <2>2. ASSUME NEW b \in since'[a] PROVE since'[b] \subseteq since'[a]
    <3>1. a # ip /\ b \in Addresses
      BY <1>3
    <3>2. CASE b = ip
      BY <1>3, <3>2
    <3>3. CASE b # ip
      <4>1. b \in since[a]
        BY <1>3, <3>1, <3>3
      <4>2. since[b] \subseteq since[a]
        BY <1>1, <4>1 DEF Behind
      <4> QED BY <1>3, <3>1, <3>3, <4>2
    <3> QED BY <3>2, <3>3
  <2> QED BY <2>1, <2>2
<1> QED BY <1>1, <1>2, <1>3, <1>4, <1>5

(* Who comes behind one that counts counts too. *)
LEMMA BehindCounts ==
  ASSUME ThrottleKnown, NEW a \in Addresses, Recent(failures[a]) # <<>>, NEW b \in since[a]
  PROVE  b \in Tracked(failures) /\ Recent(failures[b]) # <<>>
<1>1. ThrottleTyped /\ OrderKnown
  BY DEF ThrottleKnown
<1>2. b \in Tracked(failures) /\ b \in Addresses /\ failures[b] # <<>>
  BY <1>1 DEF OrderKnown, Tracked
<1>3. a \in Tracked(failures)
  <2>1. now \in Times /\ now - Window \in Int /\ Rising(failures[a])
    BY <1>1, LimitsAre DEF ThrottleTyped
  <2>2. failures[a] # <<>>
    BY <2>1, RecentIs DEF Recent
  <2> QED BY <2>2 DEF Tracked
<1>4. Last(failures[a]) <= Last(failures[b])
  BY <1>1, <1>2, <1>3 DEF OrderKnown
<1> QED BY <1>1, <1>2, <1>4, StillCounts

LEMMA FailedAre ==
  ASSUME ThrottleKnown, NEW ip \in Addresses, FailureOf(ip)
  PROVE  /\ failures' \in [Addresses -> Seq(Times)]
         /\ failures'[ip] = Append(Recent(failures[ip]), now)
         /\ \A a \in Addresses : a # ip =>
               /\ failures'[a] \in {failures[a], Recent(failures[a]), <<>>}
               /\ Recent(failures[a]) # <<>> =>
                     (failures'[a] = <<>> <=> Cardinality(since'[a]) >= MaxTracked)
         /\ IsFiniteSet(Tracked(failures)') /\ Cardinality(Tracked(failures)') <= MaxTracked
<1> DEFINE f == failures
           w == now - Window
           mine == Append(Recent(f[ip]), now)
           new == [f EXCEPT ![ip] = mine]
           live == [a \in Addresses |-> Recent(new[a])]
<1>1. ThrottleTyped /\ OrderKnown /\ WithinBounds
  BY DEF ThrottleKnown
<1>2. now \in Times /\ now \in Nat /\ w \in Int /\ now > w /\ w <= w
      /\ f \in [Addresses -> Seq(Times)] /\ IsFiniteSet(Tracked(f))
      /\ \A a \in Addresses : Rising(f[a])
  BY <1>1, LimitsAre DEF ThrottleTyped
<1>3. \A a \in Addresses : /\ Rising(Recent(f[a])) /\ Recent(Recent(f[a])) = Recent(f[a])
                           /\ Recent(f[a]) \in Seq(Times) /\ Recent(f[a]) \in Seq(Nat)
                           /\ Recent(f[a]) # <<>> => f[a] # <<>>
  <2> SUFFICES ASSUME NEW a \in Addresses
               PROVE  /\ Rising(Recent(f[a])) /\ Recent(Recent(f[a])) = Recent(f[a])
                      /\ Recent(f[a]) \in Seq(Times) /\ Recent(f[a]) \in Seq(Nat)
                      /\ Recent(f[a]) # <<>> => f[a] # <<>>
    OBVIOUS
  <2>1. Rising(f[a]) /\ f[a] \in Seq(Nat)
    BY <1>2, LimitsAre, SeqMonotonic
  <2> HIDE DEF f, w
  <2>2. Rising(Later(f[a], w)) /\ (Later(f[a], w) # <<>> => f[a] # <<>>)
    BY <1>2, <2>1, RecentIs
  <2>3. Later(Later(f[a], w), w) = Later(f[a], w)
    BY <1>2, <2>1, LaterOfLater
  <2>4. Later(f[a], w) \in Seq(Times) /\ Later(f[a], w) \in Seq(Nat)
    BY <1>2, <2>2, LimitsAre, SeqMonotonic DEF Rising
  <2> QED BY <2>2, <2>3, <2>4 DEF Recent, w
<1>4. Rising(mine) /\ mine # <<>> /\ mine \in Seq(Times) /\ Last(mine) = now
  <2>1. Rising(mine) /\ mine # <<>> /\ Last(mine) = now
    BY <1>2, <1>3, RisingAppend
  <2> QED BY <2>1 DEF Rising
<1>5. Recent(mine) = mine
  <2>1. Later(Append(Recent(f[ip]), now), w) = Append(Later(Recent(f[ip]), w), now)
    BY <1>2, <1>3, LaterOfAppend
  <2>2. Later(Recent(f[ip]), w) = Recent(f[ip])
    BY <1>3 DEF Recent
  <2> QED BY <2>1, <2>2 DEF Recent
<1>6. /\ behind' = since' /\ since' \in [Addresses -> SUBSET Addresses]
      /\ \A a \in Addresses : since'[a] = IF a = ip THEN {} ELSE since[a] \cup {ip}
      /\ Behind(since') /\ \A a \in Addresses : IsFiniteSet(since'[a])
  BY MovedIs
<1>7. failures' = IF Cardinality(Tracked(new)) > MaxTracked THEN Evict(new, behind') ELSE new
  BY DEF FailureOf, Fail
<1> HIDE DEF w, mine
<1>8. /\ new \in [Addresses -> Seq(Times)] /\ new[ip] = mine
      /\ \A a \in Addresses : a # ip => new[a] = f[a]
  BY <1>2, <1>4
<1> HIDE DEF new
<1>9. live[ip] = mine /\ \A a \in Addresses : a # ip => live[a] = Recent(f[a])
  BY <1>5, <1>8
<1> DEFINE kept == [a \in Addresses |->
              IF Cardinality(Tracked(live) \cap since'[a]) < MaxTracked THEN live[a] ELSE <<>>]
<1>10. Evict(new, behind') = kept
  BY <1>6 DEF Evict
<1> HIDE DEF live
<1>11. Tracked(new) = Tracked(f) \cup {ip} /\ Tracked(live) \subseteq Tracked(new)
       /\ Tracked(new) \subseteq Addresses /\ ip \in Tracked(live)
  BY <1>3, <1>4, <1>8, <1>9 DEF Tracked
<1>12. IsFiniteSet(Tracked(new)) /\ IsFiniteSet(Tracked(live))
  BY <1>2, <1>11, FS_AddElement, FS_Subset
<1>13. ASSUME NEW a \in Addresses, a # ip, Recent(f[a]) # <<>>
       PROVE  since'[a] \subseteq Tracked(live) /\ a \in Tracked(live) /\ a \notin since'[a]
  <2>1. a \in Tracked(live) /\ a \notin since'[a]
    BY <1>6, <1>9, <1>13 DEF Tracked, Behind
  <2>2. ASSUME NEW b \in since[a] PROVE b \in Tracked(live)
    <3>1. b \in Tracked(f) /\ Recent(f[b]) # <<>> /\ b \in Addresses
      BY <1>13, BehindCounts DEF Tracked
    <3> QED BY <1>4, <1>9, <3>1 DEF Tracked
  <2> QED BY <1>6, <1>11, <1>13, <2>1, <2>2
<1>14. CASE Cardinality(Tracked(new)) > MaxTracked
  <2>1. failures' = kept
    BY <1>7, <1>10, <1>14
  <2>2. Tracked(live) \cap since'[ip] = {}
    BY <1>6
  <2>3. Cardinality({}) < MaxTracked
    BY FS_EmptySet, AccessConstants
  <2>4. failures'[ip] = mine
    BY <1>9, <2>1, <2>2, <2>3
  <2>5. ASSUME NEW a \in Addresses, a # ip
        PROVE  /\ failures'[a] \in {f[a], Recent(f[a]), <<>>}
               /\ Recent(f[a]) # <<>> =>
                     (failures'[a] = <<>> <=> Cardinality(since'[a]) >= MaxTracked)
    <3>1. failures'[a] = IF Cardinality(Tracked(live) \cap since'[a]) < MaxTracked
                         THEN Recent(f[a]) ELSE <<>>
      BY <1>9, <2>1, <2>5
    <3>2. ASSUME Recent(f[a]) # <<>>
          PROVE  failures'[a] = <<>> <=> Cardinality(since'[a]) >= MaxTracked
      <4>1. Tracked(live) \cap since'[a] = since'[a]
        BY <1>13, <2>5, <3>2
      <4>2. Cardinality(since'[a]) \in Nat
        BY <1>6, FS_CardinalityType
      <4>3. failures'[a] = IF Cardinality(since'[a]) < MaxTracked THEN Recent(f[a]) ELSE <<>>
        BY <3>1, <4>1
      <4>4. Cardinality(since'[a]) < MaxTracked <=> ~ (Cardinality(since'[a]) >= MaxTracked)
        BY <4>2, AccessConstants
      <4> QED BY <3>2, <4>3, <4>4
    <3> QED BY <3>1, <3>2
  <2>6. failures' \in [Addresses -> Seq(Times)]
    <3>1. \A a \in Addresses : live[a] \in Seq(Times) /\ <<>> \in Seq(Times)
      BY <1>3, <1>4, <1>9, EmptySeq
    <3> QED BY <2>1, <3>1
  <2>7. Tracked(failures)' = {a \in Tracked(live) : Cardinality(Tracked(live) \cap since'[a]) < MaxTracked}
    BY <2>1 DEF Tracked
  <2>8. IsLine(Tracked(live), since')
    <3>1. ASSUME NEW a \in Tracked(live)
          PROVE  a \notin since'[a] /\ \A b \in Tracked(live) \cap since'[a] : since'[b] \subseteq since'[a]
      BY <1>6, <1>11 DEF Behind
    <3>2. ASSUME NEW a \in Tracked(live), NEW b \in Tracked(live)
          PROVE  a = b \/ b \in since'[a] \/ a \in since'[b]
      <4>1. a \in Addresses /\ b \in Addresses /\ (a = ip \/ a \in Tracked(f)) /\ (b = ip \/ b \in Tracked(f))
        BY <1>11
      <4>2. a # ip /\ b # ip => a = b \/ b \in since[a] \/ a \in since[b]
        BY <1>1, <4>1 DEF OrderKnown
      <4> QED BY <1>6, <4>1, <4>2
    <3> QED BY <1>12, <3>1, <3>2 DEF IsLine
  <2>9. Cardinality(Tracked(failures)') <= MaxTracked
    BY <2>7, <2>8, LastOfLine, AccessConstants
  <2>10. IsFiniteSet(Tracked(failures)')
    BY <1>12, <2>7, FS_Subset
  <2> QED BY <2>4, <2>5, <2>6, <2>9, <2>10 DEF mine
<1>15. CASE ~ (Cardinality(Tracked(new)) > MaxTracked)
  <2>1. failures' = new
    BY <1>7, <1>15
  <2>2. Cardinality(Tracked(new)) <= MaxTracked /\ Cardinality(Tracked(new)) \in Nat
    BY <1>12, <1>15, AccessConstants, FS_CardinalityType
  <2>3. Tracked(failures)' = Tracked(new)
    BY <2>1 DEF Tracked
  <2>4. ASSUME NEW a \in Addresses, a # ip, Recent(f[a]) # <<>>
        PROVE  failures'[a] # <<>> /\ ~ (Cardinality(since'[a]) >= MaxTracked)
    <3>1. since'[a] \cup {a} \in SUBSET Tracked(new) /\ a \notin since'[a]
      BY <1>11, <1>13, <2>4
    <3>2. Cardinality(since'[a] \cup {a}) = Cardinality(since'[a]) + 1 /\ Cardinality(since'[a]) \in Nat
      BY <1>6, <3>1, FS_AddElement, FS_CardinalityType
    <3>3. Cardinality(since'[a] \cup {a}) <= Cardinality(Tracked(new))
      BY <1>12, <3>1, FS_Subset
    <3>4. failures'[a] # <<>>
      BY <1>3, <1>8, <2>1, <2>4
    <3> QED BY <2>2, <3>2, <3>3, <3>4, AccessConstants
  <2> QED BY <1>8, <1>12, <2>1, <2>2, <2>3, <2>4 DEF mine
<1> QED BY <1>14, <1>15

LEMMA FailingKeeps ==
  ASSUME ThrottleKnown, NEW ip \in Addresses, FailureOf(ip)
  PROVE  ThrottleKnown'
<1> DEFINE f == failures
           w == now - Window
           mine == Append(Recent(f[ip]), now)
<1>1. ThrottleTyped /\ OrderKnown /\ SameRecent /\ WithinBounds /\ RefusalEnds
  BY DEF ThrottleKnown
<1>2. now \in Times /\ now \in Nat /\ w \in Int /\ now > w /\ w <= w /\ now' = now
      /\ f \in [Addresses -> Seq(Times)] /\ guesses \in [Addresses -> Seq(Times)]
      /\ \A a \in Addresses : Rising(f[a]) /\ Rising(guesses[a])
  BY <1>1, LimitsAre DEF ThrottleTyped, FailureOf
<1>3. /\ failures' \in [Addresses -> Seq(Times)]
      /\ failures'[ip] = mine
      /\ \A a \in Addresses : a # ip =>
            /\ failures'[a] \in {f[a], Recent(f[a]), <<>>}
            /\ Recent(f[a]) # <<>> =>
                  (failures'[a] = <<>> <=> Cardinality(since'[a]) >= MaxTracked)
      /\ IsFiniteSet(Tracked(failures)') /\ Cardinality(Tracked(failures)') <= MaxTracked
  BY FailedAre
<1>4. /\ behind' = since' /\ since' \in [Addresses -> SUBSET Addresses]
      /\ \A a \in Addresses : since'[a] = IF a = ip THEN {} ELSE since[a] \cup {ip}
      /\ Behind(since') /\ \A a \in Addresses : IsFiniteSet(since'[a])
  BY MovedIs
<1>5. \A a \in Addresses :
         guesses'[a] = IF a = ip THEN Append(guesses[a], now)
                       ELSE IF Cardinality(since'[a]) >= MaxTracked THEN <<>> ELSE guesses[a]
  BY DEF FailureOf
<1>6. guesses' \in [Addresses -> Seq(Times)]
  <2>1. \A a \in Addresses : Append(guesses[a], now) \in Seq(Times) /\ <<>> \in Seq(Times)
    BY <1>2
  <2> QED BY <1>2, <2>1 DEF FailureOf
<1>7. Recent(<<>>) = <<>> /\ Rising(<<>>)
  <2>1. Recent(<<>>) = <<>>
    BY <1>2, LaterOfEmpty DEF Recent
  <2>2. <<>> \in Seq(Times) /\ Len(<<>>) = 0
    OBVIOUS
  <2> QED BY <2>1, <2>2 DEF Rising
<1> HIDE DEF f, w
<1>8. ASSUME NEW s, Rising(s)
      PROVE  /\ Rising(Recent(s)) /\ Recent(Recent(s)) = Recent(s)
             /\ Recent(s) # <<>> => s # <<>> /\ Last(Recent(s)) = Last(s)
             /\ Len(Recent(s)) <= Len(s) /\ Len(s) \in Nat /\ Len(Recent(s)) \in Nat
             /\ Len(Recent(s)) = Len(s) /\ s # <<>> => Recent(s)[1] = s[1]
             /\ Recent(Append(s, now)) = Append(Recent(s), now)
  <2>1. s \in Seq(Nat)
    BY <1>8, <1>2, LimitsAre, SeqMonotonic DEF Rising
  <2>2. Recent(s) = Later(s, w) /\ Recent(Recent(s)) = Later(Later(s, w), w)
        /\ Recent(Append(s, now)) = Later(Append(s, now), w)
    BY DEF Recent, w
  <2>3. Later(Later(s, w), w) = Later(s, w) /\ Later(Append(s, now), w) = Append(Later(s, w), now)
    BY <1>2, <2>1, LaterOfLater, LaterOfAppend
  <2> QED BY <1>2, <1>8, <2>2, <2>3, RecentIs
<1>9. Rising(mine) /\ mine # <<>> /\ Last(mine) = now /\ Recent(mine) = mine
      /\ Len(mine) = Len(Recent(f[ip])) + 1
  <2>1. Rising(Recent(f[ip])) /\ Recent(Recent(f[ip])) = Recent(f[ip])
    BY <1>2, <1>8
  <2>2. Recent(mine) = mine
    BY <1>8, <2>1
  <2> QED BY <1>2, <2>1, <2>2, RisingAppend
<1> HIDE DEF mine
<1>10. ASSUME NEW a \in Addresses, a # ip
       PROVE  /\ Rising(failures'[a])
              /\ failures'[a] # <<>> => f[a] # <<>> /\ Last(failures'[a]) = Last(f[a])
                                       /\ Recent(failures'[a]) = Recent(f[a])
              /\ Recent(f[a]) = <<>> => Recent(failures'[a]) = <<>>
              /\ Len(failures'[a]) <= Len(f[a]) /\ Len(f[a]) \in Nat /\ Len(failures'[a]) \in Nat
              /\ Len(failures'[a]) = Len(f[a]) /\ f[a] # <<>> => failures'[a][1] = f[a][1]
  <2>1. Rising(f[a]) /\ failures'[a] \in {f[a], Recent(f[a]), <<>>}
    BY <1>2, <1>3, <1>10
  <2>2. /\ Rising(Recent(f[a])) /\ Recent(Recent(f[a])) = Recent(f[a])
        /\ Recent(f[a]) # <<>> => f[a] # <<>> /\ Last(Recent(f[a])) = Last(f[a])
        /\ Len(Recent(f[a])) <= Len(f[a]) /\ Len(f[a]) \in Nat /\ Len(Recent(f[a])) \in Nat
        /\ Len(Recent(f[a])) = Len(f[a]) /\ f[a] # <<>> => Recent(f[a])[1] = f[a][1]
    BY <1>8, <2>1
  <2>3. CASE failures'[a] = f[a]
    BY <2>1, <2>2, <2>3
  <2>4. CASE failures'[a] = Recent(f[a])
    BY <2>1, <2>2, <2>4
  <2>5. CASE failures'[a] = <<>>
    <3>1. Len(<<>>) = 0
      OBVIOUS
    <3>2. f[a] # <<>> => Len(f[a]) # 0
      BY <2>1, EmptySeq DEF Rising
    <3> QED BY <1>7, <2>2, <2>5, <3>1, <3>2
  <2> QED BY <2>1, <2>3, <2>4, <2>5
<1>11. ThrottleTyped'
  <2>1. ASSUME NEW a \in Addresses PROVE Rising(failures'[a]) /\ Rising(guesses'[a])
    <3>1. Rising(failures'[a])
      BY <1>3, <1>9, <1>10
    <3>2. Rising(Append(guesses[a], now)) /\ Rising(guesses[a])
      BY <1>2, RisingAppend
    <3> QED BY <1>5, <1>7, <3>1, <3>2
  <2>2. \A a \in Addresses : Rising(failures[a])' /\ Rising(guesses[a])'
    BY <1>2, <2>1 DEF Rising
  <2> QED BY <1>2, <1>3, <1>4, <1>6, <2>2 DEF ThrottleTyped
<1>12. SameRecent'
  <2> SUFFICES ASSUME NEW a \in Addresses PROVE Recent(failures'[a]) = Recent(guesses'[a])
    BY <1>2 DEF SameRecent, Recent
  <2>1. Recent(f[a]) = Recent(guesses[a])
    BY <1>1 DEF SameRecent, f
  <2>2. CASE a = ip
    <3>1. Recent(guesses'[a]) = Append(Recent(guesses[a]), now)
      BY <1>2, <1>5, <1>8, <2>2
    <3> QED BY <1>3, <1>9, <2>1, <2>2, <3>1 DEF mine
  <2>3. CASE a # ip /\ Recent(f[a]) = <<>>
    BY <1>5, <1>7, <1>10, <2>1, <2>3
  <2>4. CASE a # ip /\ Recent(f[a]) # <<>>
    <3>1. failures'[a] = <<>> <=> Cardinality(since'[a]) >= MaxTracked
      BY <1>3, <2>4
    <3>2. failures'[a] # <<>> => Recent(failures'[a]) = Recent(f[a])
      BY <1>10, <2>4
    <3>3. guesses'[a] = IF Cardinality(since'[a]) >= MaxTracked THEN <<>> ELSE guesses[a]
      BY <1>5, <2>4
    <3> QED BY <1>7, <2>1, <3>1, <3>2, <3>3
  <2> QED BY <2>2, <2>3, <2>4
<1>13. WithinBounds'
  <2>1. ASSUME NEW a \in Addresses PROVE Len(failures'[a]) <= MaxFailures
    <3>1. CASE a = ip
      <4>1. Len(Recent(f[ip])) < MaxFailures
        BY DEF FailureOf, f
      <4>2. Len(Recent(f[ip])) \in Nat
        BY <1>2, <1>8
      <4> QED BY <1>3, <1>9, <3>1, <4>1, <4>2, AccessConstants
    <3>2. CASE a # ip
      <4>1. Len(f[a]) <= MaxFailures
        BY <1>1 DEF WithinBounds, f
      <4>2. Len(failures'[a]) <= Len(f[a]) /\ Len(f[a]) \in Nat /\ Len(failures'[a]) \in Nat
        BY <1>10, <3>2
      <4> QED BY <4>1, <4>2, AccessConstants
    <3> QED BY <3>1, <3>2
  <2> QED BY <1>3, <2>1 DEF WithinBounds
<1>14. OrderKnown'
  <2>1. ASSUME NEW a \in Tracked(failures)' PROVE a \in Addresses /\ failures'[a] # <<>> /\ (a = ip \/ a \in Tracked(f))
    BY <1>10 DEF Tracked
  <2>2. ASSUME NEW a \in Tracked(failures)', NEW b \in Tracked(failures)'
        PROVE  /\ a = b \/ b \in since'[a] \/ a \in since'[b]
               /\ b \in since'[a] => Last(failures'[a]) <= Last(failures'[b])
    <3>1. /\ a \in Addresses /\ failures'[a] # <<>> /\ (a = ip \/ a \in Tracked(f))
          /\ b \in Addresses /\ failures'[b] # <<>> /\ (b = ip \/ b \in Tracked(f))
      BY <2>1
    <3>2. CASE a = ip
      BY <1>4, <3>1, <3>2
    <3>3. CASE a # ip /\ b = ip
      <4>1. Rising(failures'[a]) /\ Last(failures'[b]) = now
        BY <1>3, <1>9, <1>10, <3>1, <3>3
      <4>2. Last(failures'[a]) <= now
        BY <1>2, <3>1, <4>1, LastType
      <4> QED BY <1>4, <3>1, <3>3, <4>1, <4>2
    <3>4. CASE a # ip /\ b # ip
      <4>1. /\ a = b \/ b \in since[a] \/ a \in since[b]
            /\ b \in since[a] => Last(f[a]) <= Last(f[b])
        BY <1>1, <3>1, <3>4 DEF OrderKnown, f
      <4>2. Last(failures'[a]) = Last(f[a]) /\ Last(failures'[b]) = Last(f[b])
        BY <1>10, <3>1, <3>4
      <4>3. (b \in since'[a] <=> b \in since[a]) /\ (a \in since'[b] <=> a \in since[b])
        BY <1>4, <3>1, <3>4
      <4> QED BY <4>1, <4>2, <4>3
    <3> QED BY <3>2, <3>3, <3>4
  <2>3. ASSUME NEW a \in Addresses, Recent(failures'[a]) # <<>>, NEW b \in since'[a]
        PROVE  failures'[b] # <<>> /\ b \in Addresses
    <3>1. a # ip /\ b \in Addresses
      BY <1>4
    <3>2. Recent(f[a]) # <<>> /\ failures'[a] # <<>>
      BY <1>7, <1>10, <2>3, <3>1
    <3>3. CASE b = ip
      BY <1>3, <1>9, <3>1, <3>3
    <3>4. CASE b # ip
      <4>1. b \in since[a]
        BY <1>4, <3>1, <3>4
      <4>2. Recent(f[b]) # <<>>
        BY <3>2, <4>1, BehindCounts DEF f
      <4>3. since'[b] \in SUBSET since'[a]
        BY <1>4 DEF Behind
      <4>4. Cardinality(since'[b]) <= Cardinality(since'[a]) /\ Cardinality(since'[a]) \in Nat
            /\ Cardinality(since'[b]) \in Nat
        BY <1>4, <3>1, <4>3, FS_Subset, FS_CardinalityType
      <4>5. ~ (Cardinality(since'[a]) >= MaxTracked)
        BY <1>3, <3>1, <3>2
      <4>6. ~ (Cardinality(since'[b]) >= MaxTracked)
        BY <4>4, <4>5, AccessConstants
      <4> QED BY <1>3, <3>1, <3>4, <4>2, <4>6
    <3> QED BY <3>3, <3>4
  <2>4. \A a, b \in Tracked(failures)' :
           /\ a = b \/ b \in since'[a] \/ a \in since'[b]
           /\ b \in since'[a] => Last(failures[a])' <= Last(failures[b])'
    BY <2>2 DEF Last
  <2>5. \A a \in Addresses : Recent(failures[a])' # <<>> => since'[a] \subseteq Tracked(failures)'
    BY <1>2, <2>3 DEF Tracked, Recent
  <2>6. Behind(since)'
    BY <1>4 DEF Behind
  <2> QED BY <1>4, <2>4, <2>5, <2>6 DEF OrderKnown
<1>15. RefusalEnds'
  <2>1. refusal' = IF refusal.ip = ip THEN NoRefusal ELSE refusal
    BY DEF FailureOf
  <2>2. CASE refusal' = NoRefusal
    <3>1. refusal' \in [ip : Addresses \cup {None}, at : Times, wait : Nat]
      BY <2>2, AccessConstants DEF NoRefusal, Times
    <3> QED BY <2>2, <3>1 DEF RefusalEnds, NoRefusal
  <2>3. CASE refusal' = refusal /\ refusal # NoRefusal /\ refusal.ip # ip
    <3> DEFINE a == refusal.ip
    <3>1. /\ a \in Addresses
          /\ \/ Len(f[a]) < MaxFailures
             \/ f[a][1] + Window <= refusal.at + refusal.wait * Second
      BY <1>1, <2>3 DEF RefusalEnds, f
    <3>2. Len(f[a]) <= MaxFailures
      BY <1>1, <3>1 DEF WithinBounds, f
    <3> HIDE DEF a
    <3>3. /\ Len(failures'[a]) <= Len(f[a])
          /\ Len(failures'[a]) = Len(f[a]) /\ f[a] # <<>> => failures'[a][1] = f[a][1]
          /\ Len(failures'[a]) \in Nat /\ Len(f[a]) \in Nat /\ MaxFailures \in Nat \ {0}
      <4>1. a # ip
        BY <2>3 DEF a
      <4> QED BY <1>10, <3>1, <4>1, AccessConstants
    <3>4. f[a] = <<>> => Len(f[a]) = 0
      OBVIOUS
    <3>5. Len(failures'[a]) < MaxFailures \/ failures'[a][1] + Window <= refusal.at + refusal.wait * Second
      BY <3>1, <3>2, <3>3, <3>4
    <3> QED BY <1>1, <2>3, <3>1, <3>5 DEF RefusalEnds, NoRefusal, a
  <2> QED BY <2>1, <2>2, <2>3
<1> QED BY <1>11, <1>12, <1>13, <1>14, <1>15 DEF ThrottleKnown

LEMMA TickingKeeps ==
  ASSUME ThrottleKnown, Tick
  PROVE  ThrottleKnown'
<1>1. ThrottleTyped /\ OrderKnown /\ SameRecent /\ WithinBounds /\ RefusalEnds
  BY DEF ThrottleKnown
<1>2. UNCHANGED throttle /\ now' = now + 1 /\ now < MaxTime /\ now \in Times
  BY <1>1 DEF Tick, ThrottleTyped
<1>3. UNCHANGED <<failures, behind, guesses, since, refusal>>
  BY <1>2 DEF throttle
<1>4. now' \in Times /\ now \in Nat /\ now' \in Nat /\ now <= now'
      /\ now - Window \in Int /\ now' - Window \in Int /\ now - Window <= now' - Window
  BY <1>2, AccessConstants DEF Times
<1>5. ASSUME NEW s, Rising(s)
      PROVE  Rising(s)' /\ Recent(s)' = Later(Recent(s), now' - Window)
  <2>1. s \in Seq(Times) /\ s \in Seq(Nat) /\ Times' = Times
    BY <1>5, <1>2, LimitsAre, SeqMonotonic DEF Rising, Times
  <2>2. Later(Later(s, now - Window), now' - Window) = Later(s, now' - Window)
    BY <1>4, <2>1, LaterOfLater
  <2>3. \A i \in 1 .. Len(s) : s[i] <= now /\ s[i] \in Times
    BY <1>5, <2>1, ElementOfSeq DEF Rising
  <2>4. ASSUME NEW i \in 1 .. Len(s) PROVE s[i] <= now'
    <3>1. s[i] <= now /\ s[i] \in Times
      BY <2>3
    <3>2. s[i] \in Nat
      BY <3>1, AccessConstants DEF Times
    <3> QED BY <1>4, <3>1, <3>2
  <2> QED BY <1>5, <2>1, <2>2, <2>4 DEF Rising, Recent
<1>6. \A a \in Addresses : Rising(failures[a]) /\ Rising(guesses[a])
  BY <1>1 DEF ThrottleTyped
<1>7. Tracked(failures)' = Tracked(failures)
  BY <1>3 DEF Tracked
<1>8. \A a \in Addresses : /\ Rising(failures[a])' /\ Rising(guesses[a])'
                           /\ Recent(failures[a])' = Later(Recent(failures[a]), now' - Window)
                           /\ Recent(guesses[a])' = Later(Recent(guesses[a]), now' - Window)
  BY <1>3, <1>5, <1>6
<1>9. ThrottleTyped'
  BY <1>1, <1>3, <1>4, <1>7, <1>8 DEF ThrottleTyped
<1>10. SameRecent'
  BY <1>1, <1>8 DEF SameRecent
<1>11. OrderKnown'
  <2>1. ASSUME NEW a \in Addresses, Recent(failures[a])' # <<>> PROVE since[a] \subseteq Tracked(failures)
    <3>1. Recent(failures[a]) # <<>>
      BY <1>4, <1>8, <2>1, LaterOfEmpty
    <3> QED BY <1>1, <3>1 DEF OrderKnown
  <2>2. /\ behind = since /\ Behind(since)
        /\ \A a, b \in Tracked(failures) :
              /\ a = b \/ b \in since[a] \/ a \in since[b]
              /\ b \in since[a] => Last(failures[a]) <= Last(failures[b])
    BY <1>1 DEF OrderKnown
  <2> QED BY <1>3, <1>7, <2>1, <2>2 DEF OrderKnown, Behind, Last
<1>12. WithinBounds' /\ RefusalEnds'
  BY <1>1, <1>3, <1>7 DEF WithinBounds, RefusalEnds, NoRefusal
<1> QED BY <1>9, <1>10, <1>11, <1>12 DEF ThrottleKnown

LEMMA ThrottleStays ==
  ASSUME ThrottleKnown, UNCHANGED <<throttle, now>>
  PROVE  ThrottleKnown'
<1>1. UNCHANGED <<failures, behind, guesses, since, refusal, now>>
  BY DEF throttle
<1> QED BY <1>1 DEF ThrottleKnown, ThrottleTyped, OrderKnown, SameRecent, WithinBounds, RefusalEnds,
          Rising, Behind, Tracked, Recent, NoRefusal, Last

LEMMA RestartForgets ==
  ASSUME ThrottleKnown, Restart
  PROVE  ThrottleKnown'
<1>1. now \in Times /\ now' = now
  BY DEF ThrottleKnown, ThrottleTyped, Restart
<1>2. failures' = [a \in Addresses |-> <<>>] /\ guesses' = [a \in Addresses |-> <<>>]
      /\ behind' = [a \in Addresses |-> {}] /\ since' = [a \in Addresses |-> {}] /\ refusal' = NoRefusal
  BY DEF Restart
<1>3. <<>> \in Seq(Times) /\ Len(<<>>) = 0
  OBVIOUS
<1>4. Tracked(failures)' = {}
  BY <1>2 DEF Tracked
<1>5. Rising(<<>>)'
  BY <1>3 DEF Rising
<1>6. Recent(<<>>)' = <<>>
  BY <1>1, LimitsAre, LaterOfEmpty DEF Recent
<1>7. IsFiniteSet({}) /\ Cardinality({}) = 0
  BY FS_EmptySet
<1>8. ThrottleTyped'
  BY <1>1, <1>2, <1>3, <1>4, <1>5, <1>7 DEF ThrottleTyped
<1>9. OrderKnown'
  BY <1>2, <1>4, <1>6 DEF OrderKnown, Behind
<1>10. SameRecent'
  BY <1>2 DEF SameRecent
<1>11. WithinBounds'
  <2>1. \A a \in Addresses : Len(failures'[a]) = 0
    BY <1>2, <1>3
  <2>2. Cardinality(Tracked(failures)') = 0
    BY <1>4, <1>7
  <2>3. 0 <= MaxFailures /\ 0 <= MaxTracked
    BY AccessConstants
  <2> QED BY <2>1, <2>2, <2>3 DEF WithinBounds
<1>12. RefusalEnds'
  BY <1>1, <1>2, AccessConstants DEF RefusalEnds, NoRefusal, Times
<1> QED BY <1>8, <1>9, <1>10, <1>11, <1>12 DEF ThrottleKnown

(* What is known says that guessing is refused, and nothing else. *)
LEMMA KnownThrottles == ThrottleKnown => ThrottleInv
<1> SUFFICES ASSUME ThrottleKnown PROVE ThrottleInv
  OBVIOUS
<1>1. ThrottleTyped /\ OrderKnown /\ SameRecent /\ WithinBounds /\ RefusalEnds
  BY DEF ThrottleKnown
<1>2. now \in Times /\ now \in Nat /\ now - Window \in Int
      /\ \A a \in Addresses : Rising(failures[a]) /\ Rising(guesses[a])
  BY <1>1, LimitsAre DEF ThrottleTyped
<1>3. AccessTypeOK
  BY <1>1 DEF AccessTypeOK, ThrottleTyped, OrderKnown, RefusalEnds
<1>4. ASSUME NEW a \in Addresses
      PROVE  /\ Cardinality(InWindow(guesses[a])) <= Len(Recent(failures[a]))
             /\ Cardinality(InWindow(guesses[a])) \in Nat /\ Len(Recent(failures[a])) \in Nat
             /\ \E k \in 1 .. Len(guesses[a]) + 1 :
                   Recent(failures[a]) = SubSeq(guesses[a], k, Len(guesses[a]))
             /\ \A i \in 1 .. Len(Recent(failures[a])) : Recent(failures[a])[i] > now - Window
             /\ DOMAIN Recent(failures[a]) = 1 .. Len(Recent(failures[a]))
  <2> DEFINE g == guesses[a]
             r == Recent(g)
  <2>1. Recent(failures[a]) = r /\ r = Later(g, now - Window) /\ Rising(g) /\ g \in Seq(Nat)
        /\ g \in Seq(Times)
    BY <1>1, <1>2, LimitsAre, SeqMonotonic DEF SameRecent, Recent, Rising
  <2> HIDE DEF g, r
  <2>2. PICK k \in 1 .. Len(g) + 1 :
            /\ Begins(g, k, now - Window)
            /\ r = SubSeq(g, k, Len(g))
            /\ r \in Seq(Nat)
            /\ Len(r) = Len(g) - k + 1
    <3> DEFINE old == now - Window
    <3>1. g \in Seq(Nat) /\ old \in Int /\ r = Later(g, old)
      BY <1>2, <2>1
    <3> HIDE DEF old
    <3>2. \E k \in 1 .. Len(g) + 1 :
            /\ Begins(g, k, old)
            /\ r = SubSeq(g, k, Len(g))
            /\ r \in Seq(Nat)
            /\ Len(r) = Len(g) - k + 1
      BY <3>1, LaterIs
    <3> QED BY <3>2 DEF old
  <2>3. \A i \in 1 .. Len(r) : r[i] > now - Window
    BY <1>2, <2>1, RecentIs
  <2>4. Len(g) \in Nat /\ DOMAIN g = 1 .. Len(g) /\ DOMAIN r = 1 .. Len(r) /\ \A i \in 1 .. Len(g) : g[i] \in Nat
    BY <2>1, <2>2
  <2>5. InWindow(g) \subseteq k .. Len(g)
    <3>0. InWindow(g) = {i \in 1 .. Len(g) : g[i] > now - Window}
      BY <2>4 DEF InWindow
    <3> SUFFICES ASSUME NEW i \in 1 .. Len(g), g[i] > now - Window, i < k PROVE FALSE
      BY <2>2, <2>4, <3>0
    <3>1. i \in 1 .. k - 1 /\ g[i] \in Nat
      BY <2>2, <2>4
    <3>2. g[i] <= now - Window
      BY <2>2, <3>1 DEF Begins
    <3> QED BY <1>2, <3>1, <3>2
  <2>6. IsFiniteSet(k .. Len(g)) /\ Cardinality(k .. Len(g)) = Len(r)
    <3>1. k \in Int /\ Len(g) \in Int /\ k <= Len(g) + 1
      BY <2>2, <2>4
    <3>2. /\ IsFiniteSet(k .. Len(g))
          /\ Cardinality(k .. Len(g)) = (IF k > Len(g) THEN 0 ELSE Len(g) - k + 1)
      BY <3>1, FS_Interval
    <3> QED BY <2>2, <3>1, <3>2
  <2>7. Cardinality(InWindow(g)) <= Len(r) /\ Cardinality(InWindow(g)) \in Nat
    BY <2>5, <2>6, FS_Subset, FS_CardinalityType
  <2>8. Len(r) \in Nat
    BY <2>2
  <2> QED BY <2>1, <2>2, <2>3, <2>4, <2>7, <2>8 DEF g
<1>5. GuessersBlocked
  BY <1>4, AccessConstants DEF GuessersBlocked
<1>6. ThrottleIsFair
  <2>1. ASSUME NEW a \in Tracked(failures), NEW b \in Tracked(failures) \ {a}
        PROVE  /\ b \in behind[a] <=> a \notin behind[b]
               /\ b \in behind[a] => Last(failures[a]) <= Last(failures[b])
    <3>1. a \in Addresses /\ b \in Addresses
      BY DEF Tracked
    <3>2. ~ (b \in since[a] /\ a \in since[b])
      BY <1>1, <3>1 DEF OrderKnown, Behind
    <3> QED BY <1>1, <3>2 DEF OrderKnown
  <2>2. \A a \in Tracked(failures) : Len(failures[a]) <= MaxFailures
    BY <1>1 DEF WithinBounds, Tracked
  <2>3. \A a \in Addresses :
          /\ \A i \in DOMAIN Recent(failures[a]) : Recent(failures[a])[i] > now - Window
          /\ \E k \in 1 .. Len(guesses[a]) + 1 :
                Recent(failures[a]) = SubSeq(guesses[a], k, Len(guesses[a]))
    BY <1>4
  <2> QED BY <1>1, <2>1, <2>2, <2>3 DEF ThrottleIsFair, WithinBounds
<1>7. WaitIsEnough
  <2> SUFFICES ASSUME refusal # NoRefusal
               PROVE  Len(Later(failures[refusal.ip], (refusal.at + refusal.wait * Second) - Window)) < MaxFailures
    BY DEF WaitIsEnough
  <2> DEFINE f == failures[refusal.ip]
             l == (refusal.at + refusal.wait * Second) - Window
  <2>1. refusal.ip \in Addresses /\ refusal.at \in Nat /\ refusal.wait \in Nat
        /\ (Len(f) < MaxFailures \/ f[1] + Window <= refusal.at + refusal.wait * Second)
    BY <1>1, <1>2, LimitsAre DEF RefusalEnds
  <2>2. Rising(f) /\ Len(f) <= MaxFailures
    BY <1>1, <1>2, <2>1 DEF WithinBounds
  <2>3. l \in Int /\ Window \in Nat /\ refusal.wait * Second \in Nat
    BY <2>1, AccessConstants
  <2>4. f[1] \in Nat => (Len(f) < MaxFailures \/ f[1] <= l)
    BY <2>1, <2>3
  <2> HIDE DEF f, l
  <2>5. /\ Len(Later(f, l)) <= Len(f) /\ Len(f) \in Nat /\ Len(Later(f, l)) \in Nat
        /\ Len(Later(f, l)) = Len(f) /\ f # <<>> => Later(f, l)[1] = f[1]
        /\ \A i \in 1 .. Len(Later(f, l)) : Later(f, l)[i] > l
    BY <1>2, <2>2, <2>3, RecentIs
  <2>6. Len(Later(f, l)) < MaxFailures
    <3> SUFFICES ASSUME Len(Later(f, l)) = MaxFailures PROVE FALSE
      BY <2>2, <2>5, AccessConstants
    <3>1. Len(f) = MaxFailures /\ MaxFailures \in Nat \ {0}
      BY <2>2, <2>5, AccessConstants
    <3>2. 1 \in 1 .. Len(f) /\ 1 \in 1 .. Len(Later(f, l))
      BY <3>1
    <3>3. f # <<>>
      <4>1. Len(<<>>) = 0
        OBVIOUS
      <4> QED BY <3>1, <4>1
    <3>4. f[1] \in Times /\ f[1] \in Nat
      BY <1>2, <2>2, <3>2, ElementOfSeq, LimitsAre DEF Rising
    <3>5. f[1] > l
      BY <2>5, <3>1, <3>2, <3>3
    <3>6. f[1] <= l
      BY <2>4, <3>1, <3>4
    <3> QED BY <2>3, <3>4, <3>5, <3>6
  <2> QED BY <2>6 DEF f, l
<1> QED BY <1>3, <1>5, <1>6, <1>7 DEF ThrottleInv

(* An address that keeps guessing is refused until its oldest guess leaves *)
(* the window, a flood of addresses only makes the throttle forget those   *)
(* that failed longest ago, and nobody is refused for what is too old or   *)
(* not its own (auth.ts).                                                  *)
THEOREM ThrottleInvariant == AccessSpec => []ThrottleInv
<1>1. ThrottleKnown /\ [AccessNext]_accessVars => ThrottleKnown'
  <2> SUFFICES ASSUME ThrottleKnown, [AccessNext]_accessVars
               PROVE  ThrottleKnown'
    OBVIOUS
  <2>1. ASSUME NEW ip \in Addresses, BadCall(ip)
        PROVE  ThrottleKnown'
    BY <2>1, FailingKeeps DEF BadCall
  <2>2. ASSUME NEW ip \in Addresses, Refused(ip)
        PROVE  ThrottleKnown'
    BY <2>2, RefusingKeeps DEF Refused
  <2>3. ASSUME NEW ip \in Addresses, Passes(ip)
        PROVE  ThrottleKnown'
    BY <2>3, PassingKeeps
  <2>4. CASE CallStep
    BY <2>1, <2>2, <2>3, <2>4 DEF CallStep, GoodCall, ChatRequest
  <2>5. CASE AdminKeyCall
    BY <2>3, <2>5 DEF AdminKeyCall
  <2>6. CASE CommandLine
    BY <2>6, ThrottleStays DEF CommandLine
  <2>7. CASE Tick \/ Restart
    BY <2>7, TickingKeeps, RestartForgets
  <2>8. CASE UNCHANGED accessVars
    BY <2>8, ThrottleStays DEF accessVars
  <2> QED BY <2>4, <2>5, <2>6, <2>7, <2>8 DEF AccessNext
<1> QED BY <1>1, ThrottleBegins, KnownThrottles, PTL DEF AccessSpec
=============================================================================
