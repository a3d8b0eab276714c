--------------------------- MODULE RequestRunProofs ---------------------------
(***************************************************************************)
(* The requests of RequestRun keep their books and the promise of          *)
(* ClientExchange, for any number of requests and slots.  Both follow from *)
(* one fact about every step: what a request becomes is sound in itself    *)
(* and is something its client may see next.                               *)
(***************************************************************************)
EXTENDS RequestRun, FiniteSetTheorems, TLAPS

Called == {"sending", "reading", "opening", "streaming", "writing", "closing"}

(* What the invariant says of one request. *)
Sound(q) ==
  /\ q \in Record
  /\ q.content => q.stage \notin {"ensuring", "queued", "sending", "reading"}
  /\ q.stage \notin {"failing", "over"} => q.ending = "none"
  /\ q.stage \in {"ensuring", "queued", "sending"} => q.source = "none" /\ ~q.finished
  /\ q.fallback => ~q.content /\ q.ending = "error" /\ q.admitted
  /\ q.ending = "ok" => q.finished /\ q.usage
  /\ q.stage = "over" => q.recorded = q.admitted /\ (q.content => q.usage)
  /\ q.headers => q.streamed
  /\ q.stage \in Awaits => q.admitted
  /\ q.stage \in Awaits /\ q.aborted =>
       \/ q.stage \in {"ensuring", "reading"}
       \/ q.stage \in {"opening", "streaming"} /\ q.source = "answer"
  /\ q.stage \in {"opening", "streaming", "writing", "closing"} => q.streamed
  /\ q.stage = "failing" => q.ending = "error" /\ (q.content => q.usage)
  /\ q.stage = "over" => q.ending # "none"
  /\ q.stage = "closing" => q.finished /\ q.usage

(* What the client of q may see next. *)
May(q, e) ==
  \/ Seen(e) = Seen(q)
  \/ Seen(q) = "none" /\ Seen(e) \in {"waiting", "error", "elsewhere"}
  \/ Seen(q) = "waiting" /\ Seen(e) \in {"part", "complete", "error", "elsewhere", "gone"}
  \/ Seen(q) = "part" /\ Seen(e) \in {"complete", "error", "gone"}
  \/ Seen(q) \in {"complete", "error", "elsewhere", "gone"} /\ Seen(e) = "none"

(* A request whose end is not decided. *)
Open(q) ==
  /\ q \in Record
  /\ q.admitted /\ q.ending = "none" /\ ~q.fallback
  /\ q.headers => q.streamed

LEMMA InvIsSound ==
  RequestInv <=> /\ req \in [Requests -> Record] /\ active \in Nat
                 /\ SlotsExact
                 /\ \A r \in Requests : Sound(req[r])
  BY DEF RequestInv, TypeOK, OneAnswer, FlagOnlyBefore, CompleteIsComplete, Accounted, Streams,
         Sound, Relaying

LEMMA NextIsSound ==
  ASSUME req' \in [Requests -> Record], active' \in Nat, SlotsExact',
         \A r \in Requests : Sound(req'[r])
  PROVE  RequestInv'
  BY DEF RequestInv, TypeOK, OneAnswer, FlagOnlyBefore, CompleteIsComplete, Accounted, Streams,
         Sound, Relaying

-----------------------------------------------------------------------------
(* The ends of a request.                                                  *)

LEMMA GoneSound ==
  ASSUME NEW q, Open(q)
  PROVE  Sound(Gone(q)) /\ Gone(q).stage = "over" /\ Gone(q).ending = "gone"
  BY DEF Open, Gone, Over, Charge, Sound, Record, Awaits

LEMMA OverOk ==
  ASSUME NEW q, Open(q), q.finished, q.usage
  PROVE  Sound(Over(q, "ok")) /\ Over(q, "ok").stage = "over" /\ Over(q, "ok").ending = "ok"
  BY DEF Open, Over, Sound, Record, Awaits

LEMMA FailedSound ==
  ASSUME NEW q, Open(q), NEW fallback, NEW e \in Failed(q, fallback)
  PROVE  /\ Sound(e) /\ e.stage \in {"over", "failing"} /\ e.ending \in {"error", "gone"}
         /\ q.content => ~e.fallback
<1>1. CASE q.aborted
  <2>1. e = Gone(q)
    BY <1>1 DEF Failed
  <2> QED BY <2>1, GoneSound DEF Gone, Over, Charge, Open, Record
<1>2. CASE ~q.aborted
  <2> DEFINE d == [Charge(q) EXCEPT !.ending = "error", !.fallback = fallback /\ ~q.content]
  <2>1. d \in Record /\ d.ending = "error" /\ d.admitted /\ (d.fallback => ~d.content) /\ ~d.aborted
        /\ (d.content => d.usage) /\ (d.headers => d.streamed) /\ (q.content => ~d.fallback)
        /\ (q.headers => d.headers)
    BY <1>2 DEF Open, Charge, Record
  <2>2. e = Over(d, "error") \/ (q.headers /\ e = [d EXCEPT !.stage = "failing"])
    BY <1>2 DEF Failed
  <2> HIDE DEF d
  <2>3. CASE e = Over(d, "error")
    BY <2>1, <2>3 DEF Over, Sound, Record, Awaits
  <2>4. CASE q.headers /\ e = [d EXCEPT !.stage = "failing"]
    BY <2>1, <2>4 DEF Sound, Record, Awaits
  <2> QED BY <2>2, <2>3, <2>4
<1> QED BY <1>1, <1>2

LEMMA CompletedSound ==
  ASSUME NEW q, Open(q), q.finished, q.streamed, NEW e \in Completed(q)
  PROVE  /\ Sound(e)
         /\ \/ e.stage = "over" /\ e.ending \in {"ok", "gone"}
            \/ e.stage = "closing" /\ e.ending = "none" /\ e.content = q.content
<1> DEFINE c == [q EXCEPT !.usage = TRUE]
<1>1. Open(c) /\ c.finished /\ c.usage /\ c.streamed /\ c.aborted = q.aborted /\ c.content = q.content
  BY DEF Open, Record
<1>2. IF q.aborted THEN e = Gone(c) ELSE e = Over(c, "ok") \/ e = [c EXCEPT !.stage = "closing"]
  BY DEF Completed
<1> HIDE DEF c
<1>3. ASSUME ~q.aborted, e = [c EXCEPT !.stage = "closing"] PROVE Sound(e) /\ e.stage = "closing" /\ e.ending = "none" /\ e.content = q.content
  BY <1>1, <1>3 DEF Open, Sound, Record, Awaits
<1> QED BY <1>1, <1>2, <1>3, GoneSound, OverOk

LEMMA AcquiredSound ==
  ASSUME RequestAssumption, SlotsExact, active \in Nat,
         NEW q, Open(q), ~q.content, q.source = "none", ~q.finished, NEW e \in Acquired(q)
  PROVE  /\ Sound(e)
         /\ \/ e.stage = "sending" /\ e.ending = "none" /\ ~e.content /\ active < MaxConcurrency /\ Line = {}
            \/ e.stage = "queued" /\ e.ending = "none" /\ ~e.content /\ active = MaxConcurrency
            \/ e.stage \in {"over", "failing"} /\ e.ending \in {"error", "gone"}
<1>1. CASE q.aborted
  BY <1>1, GoneSound DEF Acquired
<1>2. CASE ~q.aborted /\ active < MaxConcurrency /\ Line = {}
  <2>1. e = [q EXCEPT !.stage = "sending"]
    BY <1>2 DEF Acquired
  <2> QED BY <1>2, <2>1 DEF Open, Sound, Record, Awaits
<1>3. CASE ~q.aborted /\ ~(active < MaxConcurrency /\ Line = {}) /\ Cardinality(Line) >= MaxQueue
  <2>1. e \in Failed(q, TRUE)
    BY <1>3 DEF Acquired
  <2> QED BY <2>1, FailedSound
<1>4. CASE ~q.aborted /\ ~(active < MaxConcurrency /\ Line = {}) /\ ~(Cardinality(Line) >= MaxQueue)
  <2>1. e = [q EXCEPT !.stage = "queued"]
    BY <1>4 DEF Acquired
  <2>2. active = MaxConcurrency
    BY <1>4 DEF SlotsExact, RequestAssumption
  <2> QED BY <1>4, <2>1, <2>2 DEF Open, Sound, Record, Awaits
<1> QED BY <1>1, <1>2, <1>3, <1>4

-----------------------------------------------------------------------------
(* Steps.                                                                  *)

seenNow == [r \in Requests |-> Seen(req[r])]

Keeps == RequestInv' /\ [Promise!Next]_seenNow

LEMMA ClientSees ==
  ASSUME NEW r \in Requests, NEW e, May(req[r], e),
         \A s \in Requests : Seen(req'[s]) = IF s = r THEN Seen(e) ELSE Seen(req[s])
  PROVE  [Promise!Next]_seenNow
<1> DEFINE now == [s \in Requests |-> Seen(req[s])]
           then == [s \in Requests |-> Seen(req'[s])]
<1>1. then = [now EXCEPT ![r] = Seen(e)] /\ now[r] = Seen(req[r])
  OBVIOUS
<1>2. CASE Seen(e) = Seen(req[r])
  BY <1>1, <1>2 DEF seenNow
<1>3. CASE Seen(e) # Seen(req[r])
  <2>1. \/ Promise!Ask(r) \/ Promise!Part(r) \/ Promise!EndEarly(r) \/ Promise!EndLate(r) \/ Promise!Forget(r)
    BY <1>1, <1>3 DEF May, Promise!Ask, Promise!Part, Promise!EndEarly, Promise!EndLate, Promise!Forget,
       Promise!Sees, Promise!Ended
  <2> QED BY <2>1 DEF Promise!Next
<1> QED BY <1>2, <1>3

LEMMA ServingFinite ==
  ASSUME RequestAssumption
  PROVE  IsFiniteSet(Serving) /\ Cardinality(Serving) \in Nat
  BY FS_Subset, FS_CardinalityType DEF RequestAssumption, Serving

LEMMA MoveKeeps ==
  ASSUME RequestAssumption, RequestInv, NEW r \in Requests, req[r].stage \notin Called, NEW Q, Move(r, Q),
         \A e \in Q : /\ Sound(e) /\ May(req[r], e)
                      /\ e.stage \notin Called \ {"sending"}
                      /\ e.stage = "sending" => active < MaxConcurrency /\ Line = {}
                      /\ e.stage = "queued" => active = MaxConcurrency
  PROVE  Keeps
<1>1. PICK e \in Q : /\ req' = [req EXCEPT ![r] = e]
                      /\ active' = IF e.stage = "sending" THEN active + 1 ELSE active
  BY DEF Move
<1>2. /\ Sound(e) /\ May(req[r], e) /\ e \in Record
      /\ e.stage \notin Called \ {"sending"}
      /\ e.stage = "sending" => active < MaxConcurrency /\ Line = {}
      /\ e.stage = "queued" => active = MaxConcurrency
  BY DEF Sound
<1>3. /\ req \in [Requests -> Record] /\ active \in Nat /\ SlotsExact
      /\ \A s \in Requests : Sound(req[s])
  BY InvIsSound
<1>4. \A s \in Requests : req'[s] = IF s = r THEN e ELSE req[s]
  BY <1>1, <1>3
<1>5. req' \in [Requests -> Record] /\ active' \in Nat /\ \A s \in Requests : Sound(req'[s])
  BY <1>1, <1>2, <1>3, <1>4
<1>6. SlotsExact'
  <2>1. CASE e.stage = "sending"
    <3>1. Serving' = Serving \cup {r} /\ r \notin Serving /\ Line' = {}
      BY <1>2, <1>4, <2>1 DEF Serving, Line, Called
    <3>2. Cardinality(Serving') = Cardinality(Serving) + 1
      BY <3>1, ServingFinite, FS_AddElement
    <3> QED BY <1>1, <1>2, <1>3, <2>1, <3>1, <3>2 DEF SlotsExact, RequestAssumption
  <2>2. CASE e.stage # "sending"
    <3>1. Serving' = Serving
      BY <1>2, <1>4, <2>2 DEF Serving, Called
    <3>2. Line' # {} => Line # {} \/ e.stage = "queued"
      BY <1>4 DEF Line
    <3> QED BY <1>1, <1>2, <1>3, <2>2, <3>1, <3>2 DEF SlotsExact
  <2> QED BY <2>1, <2>2
<1>7. RequestInv'
  BY <1>5, <1>6, NextIsSound
<1>8. [Promise!Next]_seenNow
  BY <1>2, <1>4, ClientSees
<1> QED BY <1>7, <1>8 DEF Keeps

LEMMA HoldKeeps ==
  ASSUME RequestAssumption, RequestInv, NEW r \in Requests, NEW Q, Hold(r, Q),
         \A e \in Q : /\ Sound(e) /\ May(req[r], e)
                      /\ e.stage \in Called <=> req[r].stage \in Called
                      /\ e.stage = "queued" => req[r].stage = "queued"
  PROVE  Keeps
<1>1. PICK e \in Q : req' = [req EXCEPT ![r] = e] /\ active' = active
  BY DEF Hold
<1>2. /\ Sound(e) /\ May(req[r], e) /\ e \in Record
      /\ e.stage \in Called <=> req[r].stage \in Called
      /\ e.stage = "queued" => req[r].stage = "queued"
  BY DEF Sound
<1>3. /\ req \in [Requests -> Record] /\ active \in Nat /\ SlotsExact
      /\ \A s \in Requests : Sound(req[s])
  BY InvIsSound
<1>4. \A s \in Requests : req'[s] = IF s = r THEN e ELSE req[s]
  BY <1>1, <1>3
<1>5. req' \in [Requests -> Record] /\ active' \in Nat /\ \A s \in Requests : Sound(req'[s])
  BY <1>1, <1>2, <1>3, <1>4
<1>6. SlotsExact'
  <2>1. Serving' = Serving
    BY <1>2, <1>4 DEF Serving, Called
  <2>2. Line' # {} => Line # {}
    BY <1>2, <1>4 DEF Line
  <2> QED BY <1>1, <1>3, <2>1, <2>2 DEF SlotsExact
<1>7. RequestInv'
  BY <1>5, <1>6, NextIsSound
<1>8. [Promise!Next]_seenNow
  BY <1>2, <1>4, ClientSees
<1> QED BY <1>7, <1>8 DEF Keeps

LEMMA LeaveKeeps ==
  ASSUME RequestAssumption, RequestInv, NEW r \in Requests, req[r].stage \in Called, NEW Q, Leave(r, Q),
         \A e \in Q : Sound(e) /\ May(req[r], e) /\ e.stage \notin Called /\ e.stage # "queued"
  PROVE  Keeps
<1>1. PICK e \in Q :
        \/ /\ Line = {} /\ req' = [req EXCEPT ![r] = e] /\ active' = active - 1
        \/ \E next \in Line : req' = [req EXCEPT ![r] = e, ![next].stage = "sending"] /\ active' = active
  BY DEF Leave
<1>2. Sound(e) /\ May(req[r], e) /\ e.stage \notin Called /\ e.stage # "queued" /\ e \in Record
  BY DEF Sound
<1>3. /\ req \in [Requests -> Record] /\ active \in Nat /\ SlotsExact
      /\ \A s \in Requests : Sound(req[s])
  BY InvIsSound
<1>4. r \in Serving /\ r \notin Line
  BY DEF Serving, Line, Called
<1>5. Cardinality(Serving \ {r}) = Cardinality(Serving) - 1 /\ IsFiniteSet(Serving \ {r})
  BY <1>4, ServingFinite, FS_RemoveElement
<1>6. CASE Line = {} /\ req' = [req EXCEPT ![r] = e] /\ active' = active - 1
  <2>1. \A s \in Requests : req'[s] = IF s = r THEN e ELSE req[s]
    BY <1>3, <1>6
  <2>2. Serving' = Serving \ {r} /\ Line' = {}
    BY <1>2, <1>6, <2>1 DEF Serving, Line, Called
  <2>3. SlotsExact' /\ active' \in Nat
    BY <1>3, <1>5, <1>6, <2>2, ServingFinite, FS_CardinalityType DEF SlotsExact, RequestAssumption
  <2>4. req' \in [Requests -> Record] /\ \A s \in Requests : Sound(req'[s])
    BY <1>2, <1>3, <1>6, <2>1
  <2>5. RequestInv'
    BY <2>3, <2>4, NextIsSound
  <2> QED BY <1>2, <2>1, <2>5, ClientSees DEF Keeps
<1>7. ASSUME NEW next \in Line, req' = [req EXCEPT ![r] = e, ![next].stage = "sending"], active' = active
      PROVE  Keeps
  <2> DEFINE n == [req[next] EXCEPT !.stage = "sending"]
  <2>0. next \in Requests /\ next # r /\ req[next].stage = "queued" /\ Sound(req[next])
    BY <1>3, <1>4 DEF Line
  <2>1. \A s \in Requests : req'[s] = IF s = r THEN e ELSE IF s = next THEN n ELSE req[s]
    BY <1>3, <1>7, <2>0
  <2>2. Sound(n) /\ n \in Record /\ n.stage = "sending" /\ Seen(n) = Seen(req[next])
    BY <2>0 DEF Sound, Record, Awaits, Seen
  <2> HIDE DEF n
  <2>3. Serving' = (Serving \ {r}) \cup {next} /\ next \notin Serving
    BY <1>2, <2>0, <2>1, <2>2 DEF Serving, Called
  <2>4. Cardinality(Serving') = Cardinality(Serving)
    <3>1. Cardinality((Serving \ {r}) \cup {next}) = Cardinality(Serving \ {r}) + 1
      BY <1>5, <2>3, FS_AddElement
    <3> QED BY <1>5, <2>3, <3>1, ServingFinite
  <2>5. SlotsExact' /\ active' \in Nat
    BY <1>3, <1>7, <2>4 DEF SlotsExact
  <2>6. req' \in [Requests -> Record] /\ \A s \in Requests : Sound(req'[s])
    BY <1>2, <1>3, <1>7, <2>0, <2>1, <2>2
  <2>7. RequestInv'
    BY <2>5, <2>6, NextIsSound
  <2>8. \A s \in Requests : Seen(req'[s]) = IF s = r THEN Seen(e) ELSE Seen(req[s])
    BY <2>1, <2>2
  <2> QED BY <1>2, <2>7, <2>8, ClientSees DEF Keeps
<1> QED BY <1>1, <1>6, <1>7

-----------------------------------------------------------------------------
(* The actions.                                                            *)

Undecided == Awaits \ {"failing"}

LEMMA UndecidedOpen ==
  ASSUME NEW q, Sound(q), q.stage \in Undecided
  PROVE  Open(q) /\ Seen(q) = IF q.content THEN "part" ELSE "waiting"
  BY DEF Undecided, Awaits, Sound, Open, Seen

LEMMA EndMay ==
  ASSUME NEW q, Sound(q), q.stage \in Undecided,
         NEW e, e.stage \in {"over", "failing"}, e.ending \in {"ok", "error", "gone"},
         q.content => ~e.fallback
  PROVE  May(q, e)
<1>1. Seen(e) \in {"complete", "error", "elsewhere", "gone"} /\ (q.content => Seen(e) # "elsewhere")
  BY DEF Seen
<1> QED BY <1>1, UndecidedOpen DEF May

(* A request that holds a slot fails. *)
LEMMA CallFails ==
  ASSUME RequestAssumption, RequestInv, NEW r \in Requests, req[r].stage \in Called,
         NEW fallback, Leave(r, Failed(req[r], fallback))
  PROVE  Keeps
<1>1. Sound(req[r]) /\ req[r].stage \in Undecided
  BY InvIsSound DEF Called, Undecided, Awaits
<1>2. Open(req[r])
  BY <1>1, UndecidedOpen
<1>3. \A e \in Failed(req[r], fallback) :
        Sound(e) /\ May(req[r], e) /\ e.stage \notin Called /\ e.stage # "queued"
  BY <1>1, <1>2, FailedSound, EndMay DEF Called
<1> QED BY <1>3, LeaveKeeps

(* One that holds none. *)
LEMMA WaitFails ==
  ASSUME RequestAssumption, RequestInv, NEW r \in Requests, req[r].stage \in {"ensuring", "queued"},
         NEW fallback, Move(r, Failed(req[r], fallback))
  PROVE  Keeps
<1>1. Sound(req[r]) /\ req[r].stage \in Undecided /\ req[r].stage \notin Called
  BY InvIsSound DEF Called, Undecided, Awaits
<1>2. Open(req[r])
  BY <1>1, UndecidedOpen
<1>3. \A e \in Failed(req[r], fallback) :
        Sound(e) /\ May(req[r], e) /\ e.stage \notin Called /\ e.stage # "queued"
  BY <1>1, <1>2, FailedSound, EndMay DEF Called
<1> QED BY <1>1, <1>3, MoveKeeps DEF Called

LEMMA IdleRecord ==
  ASSUME RequestAssumption
  PROVE  /\ Idle \in Record /\ Idle.stage = "idle" /\ Idle.ending = "none" /\ Idle.source = "none"
         /\ ~Idle.content /\ ~Idle.finished /\ ~Idle.headers /\ ~Idle.fallback /\ ~Idle.admitted
         /\ ~Idle.aborted /\ ~Idle.usage
<1>1. 0 \in 0..MaxChunks
  BY DEF RequestAssumption
<1> QED BY <1>1 DEF Idle, Record

LEMMA RefuseKeeps ==
  ASSUME RequestAssumption, RequestInv, NEW r \in Requests, Refuse(r)
  PROVE  Keeps
<1> DEFINE e == Over([Charge(Idle) EXCEPT !.ending = "error", !.fallback = FALSE /\ ~Idle.content], "error")
<1>1. req[r].stage = "idle" /\ Move(r, {e})
  BY IdleRecord DEF Refuse, Failed
<1>2. Sound(e) /\ e.stage = "over" /\ e.ending = "error"
  BY IdleRecord DEF Over, Charge, Sound, Record, Awaits
<1> HIDE DEF e
<1>3. Seen(req[r]) = "none" /\ Seen(e) \in {"error", "elsewhere"}
  BY <1>1, <1>2, InvIsSound DEF Seen, Sound
<1> QED BY <1>1, <1>2, <1>3, MoveKeeps DEF Called, May

LEMMA ArriveKeeps ==
  ASSUME RequestAssumption, RequestInv, NEW r \in Requests, NEW streamed \in BOOLEAN, Arrive(r, streamed)
  PROVE  Keeps
<1> DEFINE q == [Idle EXCEPT !.streamed = streamed, !.admitted = TRUE]
           look == [q EXCEPT !.stage = "ensuring"]
           Q == Acquired(q) \cup (IF HasNode THEN {look} ELSE {})
<1>1. req[r].stage = "idle" /\ Move(r, Q)
  BY DEF Arrive
<1>2. Open(q) /\ ~q.content /\ q.source = "none" /\ ~q.finished
  BY IdleRecord DEF Open, Record
<1>3. Sound(look) /\ look.stage = "ensuring" /\ look.ending = "none" /\ ~look.content
  BY IdleRecord DEF Sound, Record, Awaits
<1>4. SlotsExact /\ active \in Nat /\ Seen(req[r]) = "none"
  BY <1>1, InvIsSound DEF Seen, Sound
<1>5. ~q.aborted
  BY IdleRecord DEF Record
<1> HIDE DEF q, look
<1>6. ASSUME NEW e \in Q
      PROVE  /\ Sound(e) /\ May(req[r], e)
             /\ e.stage \notin Called \ {"sending"}
             /\ e.stage = "sending" => active < MaxConcurrency /\ Line = {}
             /\ e.stage = "queued" => active = MaxConcurrency
  <2>1. CASE e \in Acquired(q)
    <3>1. /\ Sound(e)
          /\ \/ e.stage = "sending" /\ e.ending = "none" /\ ~e.content /\ active < MaxConcurrency /\ Line = {}
             \/ e.stage = "queued" /\ e.ending = "none" /\ ~e.content /\ active = MaxConcurrency
             \/ e.stage \in {"over", "failing"} /\ e.ending \in {"error", "gone"}
      BY <1>2, <1>4, <2>1, AcquiredSound
    <3>2. e.ending # "gone"
      BY <1>2, <1>5, <2>1 DEF Acquired, Failed, Over, Charge, Open, Record
    <3>3. Seen(e) \in {"waiting", "error", "elsewhere"}
      BY <3>1, <3>2 DEF Seen
    <3> QED BY <1>4, <3>1, <3>3 DEF May, Called
  <2>2. CASE e = look
    BY <1>3, <1>4, <2>2 DEF May, Seen, Called
  <2> QED BY <2>1, <2>2
<1> QED BY <1>1, <1>6, MoveKeeps DEF Called

LEMMA NewRequestKeeps ==
  ASSUME RequestAssumption, RequestInv, NEW r \in Requests, NewRequest(r)
  PROVE  Keeps
<1>1. Sound(req[r]) /\ req[r].stage = "over" /\ Move(r, {Idle})
  BY InvIsSound DEF NewRequest
<1>2. Sound(Idle) /\ Idle.stage = "idle" /\ Seen(Idle) = "none"
  BY IdleRecord DEF Sound, Record, Awaits, Seen
<1>3. Seen(req[r]) \in {"complete", "error", "elsewhere", "gone"}
  BY <1>1 DEF Seen, Sound, Record
<1> QED BY <1>1, <1>2, <1>3, MoveKeeps DEF Called, May

LEMMA EnsureSettlesKeeps ==
  ASSUME RequestAssumption, RequestInv, NEW r \in Requests, EnsureSettles(r)
  PROVE  Keeps
<1>1. Sound(req[r]) /\ req[r].stage = "ensuring" /\ req[r].stage \in Undecided
  BY InvIsSound DEF EnsureSettles, Undecided, Awaits
<1>2. Open(req[r]) /\ ~req[r].content /\ req[r].source = "none" /\ ~req[r].finished
      /\ Seen(req[r]) = "waiting"
  BY <1>1, UndecidedOpen DEF Sound
<1>3. SlotsExact /\ active \in Nat
  BY InvIsSound
<1>4. ASSUME NEW e \in Acquired(req[r])
      PROVE  /\ Sound(e) /\ May(req[r], e)
             /\ e.stage \notin Called \ {"sending"}
             /\ e.stage = "sending" => active < MaxConcurrency /\ Line = {}
             /\ e.stage = "queued" => active = MaxConcurrency
  <2>1. /\ Sound(e)
        /\ \/ e.stage = "sending" /\ e.ending = "none" /\ ~e.content /\ active < MaxConcurrency /\ Line = {}
           \/ e.stage = "queued" /\ e.ending = "none" /\ ~e.content /\ active = MaxConcurrency
           \/ e.stage \in {"over", "failing"} /\ e.ending \in {"error", "gone"}
    BY <1>2, <1>3, AcquiredSound
  <2>2. May(req[r], e)
    BY <1>2, <2>1 DEF May, Seen
  <2> QED BY <2>1, <2>2 DEF Called
<1>5. ASSUME NEW fallback, NEW e \in Failed(req[r], fallback)
      PROVE  Sound(e) /\ May(req[r], e) /\ e.stage \in {"over", "failing"}
  BY <1>1, <1>2, FailedSound, EndMay
<1> DEFINE Q == Acquired(req[r]) \cup Failed(req[r], TRUE)
<1>6. \A e \in Failed(req[r], TRUE) : Sound(e) /\ May(req[r], e) /\ e.stage \in {"over", "failing"}
  BY <1>5
<1>7. Move(r, Q) /\ \A e \in Q : e \in Acquired(req[r]) \/ e \in Failed(req[r], TRUE)
  BY DEF EnsureSettles
<1> HIDE DEF Q
<1> QED BY <1>1, <1>4, <1>6, <1>7, MoveKeeps DEF Called

LEMMA RetryKeeps ==
  ASSUME RequestAssumption, RequestInv, NEW r \in Requests, Retry(r)
  PROVE  Keeps
<1> DEFINE e == [req[r] EXCEPT !.stage = "ensuring", !.again = TRUE]
<1>1. Sound(req[r]) /\ req[r].stage = "sending" /\ Leave(r, {e}) /\ ~req[r].content
  BY InvIsSound DEF Retry
<1>2. Sound(e) /\ e.stage = "ensuring" /\ Seen(e) = Seen(req[r])
  BY <1>1 DEF Sound, Record, Awaits, Seen
<1> HIDE DEF e
<1> QED BY <1>1, <1>2, LeaveKeeps DEF Called, May

LEMMA HeadersKeep ==
  ASSUME RequestAssumption, RequestInv, NEW r \in Requests,
         NEW source \in {"sse", "answer", "error"}, HeadersArrive(r, source)
  PROVE  Keeps
<1> DEFINE e == [req[r] EXCEPT !.source = source,
                               !.stage = IF source = "sse" THEN "opening" ELSE "reading"]
<1>1. Sound(req[r]) /\ req[r].stage = "sending" /\ Hold(r, {e}) /\ (source = "sse" => req[r].streamed)
  BY InvIsSound DEF HeadersArrive
<1>2. Sound(e) /\ e.stage \in {"opening", "reading"} /\ Seen(e) = Seen(req[r])
  BY <1>1 DEF Sound, Record, Awaits, Seen
<1> HIDE DEF e
<1> QED BY <1>1, <1>2, HoldKeeps DEF Called, May

LEMMA BodyKeeps ==
  ASSUME RequestAssumption, RequestInv, NEW r \in Requests, BodyOver(r)
  PROVE  Keeps
<1>1. ASSUME NEW fallback \in BOOLEAN, ErrorRead(r, fallback) PROVE Keeps
  BY <1>1, CallFails DEF ErrorRead, Called
<1>2. CASE AnswerUnreadable(r)
  BY <1>2, CallFails DEF AnswerUnreadable, Called
<1>3. CASE AnswerRead(r) /\ req[r].streamed
  <2> DEFINE e == [req[r] EXCEPT !.stage = "opening"]
  <2>1. Sound(req[r]) /\ req[r].stage = "reading" /\ req[r].source = "answer" /\ Hold(r, {e})
    BY <1>3, InvIsSound DEF AnswerRead
  <2>2. Sound(e) /\ e.stage = "opening" /\ Seen(e) = Seen(req[r])
    BY <1>3, <2>1 DEF Sound, Record, Awaits, Seen
  <2> HIDE DEF e
  <2> QED BY <2>1, <2>2, HoldKeeps DEF Called, May
<1>4. CASE AnswerRead(r) /\ ~req[r].streamed
  <2> DEFINE q == [req[r] EXCEPT !.finished = TRUE, !.usage = TRUE]
  <2>1. Sound(req[r]) /\ req[r].stage = "reading" /\ Leave(r, {Over(q, "ok")}) /\ ~req[r].content
    BY <1>4, InvIsSound DEF AnswerRead, Sound
  <2>2. Open(req[r]) /\ req[r].stage \in Undecided
    BY <2>1, UndecidedOpen DEF Undecided, Awaits
  <2>3. Open(q) /\ q.finished /\ q.usage
    BY <2>2 DEF Open, Record
  <2> HIDE DEF q
  <2>4. Sound(Over(q, "ok")) /\ Over(q, "ok").stage = "over" /\ Over(q, "ok").ending = "ok"
    BY <2>3, OverOk
  <2>5. May(req[r], Over(q, "ok"))
    BY <2>1, <2>2, <2>4, EndMay
  <2> QED BY <2>1, <2>4, <2>5, LeaveKeeps DEF Called
<1> QED BY <1>1, <1>2, <1>3, <1>4 DEF BodyOver, AnswerRead

(* relayStream() goes on, or ends with the call. *)
LEMMA GoOnKeeps ==
  ASSUME RequestAssumption, RequestInv, NEW r \in Requests, req[r].stage \in Called, NEW Q, GoOn(r, Q),
         \A e \in Q : Sound(e) /\ May(req[r], e) /\ e.stage \in Called \cup {"over", "failing"}
  PROVE  Keeps
<1> DEFINE Done == {e \in Q : e.stage \in {"over", "failing"}}
           Rest == {e \in Q : e.stage \notin {"over", "failing"}}
<1>1. /\ \A e \in Done : Sound(e) /\ May(req[r], e) /\ e.stage \notin Called /\ e.stage # "queued"
      /\ \A e \in Rest : Sound(e) /\ May(req[r], e) /\ e.stage \in Called /\ e.stage # "queued"
  BY DEF Called
<1>2. Leave(r, Done) \/ Hold(r, Rest)
  BY DEF GoOn
<1> HIDE DEF Done, Rest
<1>3. CASE Leave(r, Done)
  BY <1>1, <1>3, LeaveKeeps
<1>4. CASE Hold(r, Rest)
  BY <1>1, <1>4, HoldKeeps
<1> QED BY <1>2, <1>3, <1>4

LEMMA RelayingOpen ==
  ASSUME RequestInv, NEW r \in Requests, Relaying(r)
  PROVE  /\ req[r].stage \in Called /\ req[r].stage \in Undecided /\ Sound(req[r]) /\ Open(req[r])
         /\ req[r].streamed
         /\ Seen(req[r]) = IF req[r].content THEN "part" ELSE "waiting"
<1>1. req[r].stage \in Called /\ req[r].stage \in Undecided /\ Sound(req[r])
  BY InvIsSound DEF Relaying, Called, Undecided, Awaits
<1> QED BY <1>1, UndecidedOpen DEF Sound, Relaying

LEMMA ChunkKeeps ==
  ASSUME RequestAssumption, RequestInv, NEW r \in Requests,
         NEW shown \in BOOLEAN, NEW finish \in BOOLEAN, Chunk(r, shown, finish)
  PROVE  Keeps
<1> DEFINE q == [req[r] EXCEPT !.chunks = @ + 1, !.headers = TRUE,
                               !.content = @ \/ shown, !.finished = @ \/ finish]
           on == [q EXCEPT !.stage = "streaming"]
           full == [q EXCEPT !.stage = "writing"]
           Q == IF shown /\ q.aborted THEN {Gone(q)}
                ELSE {on} \cup (IF shown THEN {full} ELSE {})
<1>1. Relaying(r) /\ req[r].chunks < MaxChunks /\ GoOn(r, Q)
  BY DEF Chunk, Hears
<1>2. /\ req[r].stage \in Called /\ req[r].stage \in Undecided /\ Sound(req[r]) /\ Open(req[r])
      /\ req[r].streamed
      /\ Seen(req[r]) = IF req[r].content THEN "part" ELSE "waiting"
  BY <1>1, RelayingOpen
<1>3. req[r].chunks + 1 \in 0..MaxChunks
  BY <1>1, <1>2 DEF Open, Record, RequestAssumption
<1>4. /\ Open(q) /\ q.streamed /\ q.stage = req[r].stage /\ q.aborted = req[r].aborted
      /\ q.content = (req[r].content \/ shown) /\ q.source = req[r].source
  BY <1>2, <1>3 DEF Open, Record
<1>5. q.aborted => q.source = "answer"
  BY <1>1, <1>2, <1>4 DEF Sound, Relaying, Awaits
<1> HIDE DEF q
<1>6. Sound(on) /\ on.stage = "streaming" /\ on.ending = "none" /\ on.content = q.content
  BY <1>4, <1>5 DEF Open, Sound, Record, Awaits
<1>7. ~q.aborted => Sound(full) /\ full.stage = "writing" /\ full.ending = "none" /\ full.content = q.content
  BY <1>4 DEF Open, Sound, Record, Awaits
<1>8. \A e \in Q : \/ e = Gone(q)
                   \/ e = on
                   \/ e = full /\ ~q.aborted
  BY <1>4 DEF Open, Record
<1>9. May(req[r], on) /\ (~q.aborted => May(req[r], full))
  BY <1>2, <1>4, <1>6, <1>7 DEF May, Seen, Open, Record
<1>10. /\ Sound(Gone(q)) /\ Gone(q).stage = "over" /\ Gone(q).ending = "gone"
  BY <1>4, GoneSound
<1>11. May(req[r], Gone(q))
  BY <1>2, <1>10 DEF May, Seen
<1> HIDE DEF on, full, Q
<1>12. \A e \in Q : Sound(e) /\ May(req[r], e) /\ e.stage \in Called \cup {"over", "failing"}
  BY <1>6, <1>7, <1>8, <1>9, <1>10, <1>11 DEF Called
<1> QED BY <1>1, <1>2, <1>12, GoOnKeeps

(* What a request may be when its stream ends well. *)
LEMMA CompletedMay ==
  ASSUME RequestInv, NEW r \in Requests, Relaying(r),
         NEW q, Open(q), q.finished, q.streamed, q.content = req[r].content, NEW e \in Completed(q)
  PROVE  Sound(e) /\ May(req[r], e) /\ e.stage \in Called \cup {"over", "failing"}
<1>1. Seen(req[r]) = IF req[r].content THEN "part" ELSE "waiting"
  BY RelayingOpen
<1>2. /\ Sound(e)
      /\ \/ e.stage = "over" /\ e.ending \in {"ok", "gone"}
         \/ e.stage = "closing" /\ e.ending = "none" /\ e.content = q.content
  BY CompletedSound
<1>3. Seen(e) \in {"complete", "gone"} \/ Seen(e) = Seen(req[r])
  BY <1>1, <1>2 DEF Seen
<1> QED BY <1>1, <1>2, <1>3 DEF May, Called

LEMMA FailedMay ==
  ASSUME RequestInv, NEW r \in Requests, Relaying(r), NEW fallback, NEW e \in Failed(req[r], fallback)
  PROVE  Sound(e) /\ May(req[r], e) /\ e.stage \in Called \cup {"over", "failing"}
  BY RelayingOpen, FailedSound, EndMay

LEMMA StreamDoneKeeps ==
  ASSUME RequestAssumption, RequestInv, NEW r \in Requests, StreamDone(r)
  PROVE  Keeps
<1> DEFINE q == [req[r] EXCEPT !.finished = TRUE]
           Q == IF req[r].stage = "opening" THEN Failed(req[r], TRUE) ELSE Completed(q)
<1>1. Relaying(r) /\ GoOn(r, Q) /\ req[r].stage \in Called /\ Open(req[r]) /\ req[r].streamed
  BY RelayingOpen DEF StreamDone, Hears
<1>2. Open(q) /\ q.finished /\ q.streamed /\ q.content = req[r].content
  BY <1>1 DEF Open, Record
<1> HIDE DEF q
<1>3. \A e \in Failed(req[r], TRUE) :
        Sound(e) /\ May(req[r], e) /\ e.stage \in Called \cup {"over", "failing"}
  BY <1>1, FailedMay
<1>4. \A e \in Completed(q) :
        Sound(e) /\ May(req[r], e) /\ e.stage \in Called \cup {"over", "failing"}
  BY <1>1, <1>2, CompletedMay
<1>5. \A e \in Q : Sound(e) /\ May(req[r], e) /\ e.stage \in Called \cup {"over", "failing"}
  BY <1>3, <1>4
<1> HIDE DEF Q
<1> QED BY <1>1, <1>5, GoOnKeeps

LEMMA StreamEofKeeps ==
  ASSUME RequestAssumption, RequestInv, NEW r \in Requests, StreamEof(r)
  PROVE  Keeps
<1> DEFINE Q == IF req[r].finished THEN Completed(req[r]) ELSE Failed(req[r], TRUE)
<1>1. Relaying(r) /\ GoOn(r, Q) /\ req[r].stage \in Called /\ Open(req[r]) /\ req[r].streamed
  BY RelayingOpen DEF StreamEof, Hears
<1>2. \A e \in Failed(req[r], TRUE) :
        Sound(e) /\ May(req[r], e) /\ e.stage \in Called \cup {"over", "failing"}
  BY <1>1, FailedMay
<1>3. req[r].finished =>
        \A e \in Completed(req[r]) :
          Sound(e) /\ May(req[r], e) /\ e.stage \in Called \cup {"over", "failing"}
  BY <1>1, CompletedMay
<1>4. \A e \in Q : Sound(e) /\ May(req[r], e) /\ e.stage \in Called \cup {"over", "failing"}
  BY <1>2, <1>3
<1> HIDE DEF Q
<1> QED BY <1>1, <1>4, GoOnKeeps

LEMMA FallSilentKeeps ==
  ASSUME RequestAssumption, RequestInv, NEW r \in Requests, FallSilent(r)
  PROVE  Keeps
<1> DEFINE e == [req[r] EXCEPT !.silent = TRUE]
<1>1. Sound(req[r]) /\ Hold(r, {e})
  BY InvIsSound DEF FallSilent
<1>2. /\ e \in Record /\ e.stage = req[r].stage /\ e.content = req[r].content
      /\ e.ending = req[r].ending /\ e.source = req[r].source /\ e.finished = req[r].finished
      /\ e.fallback = req[r].fallback /\ e.usage = req[r].usage /\ e.recorded = req[r].recorded
      /\ e.admitted = req[r].admitted /\ e.headers = req[r].headers
      /\ e.streamed = req[r].streamed /\ e.aborted = req[r].aborted
  BY <1>1 DEF Sound, Record
<1> HIDE DEF e
<1>3. Sound(e) /\ Seen(e) = Seen(req[r])
  BY <1>1, <1>2 DEF Sound, Seen
<1> QED BY <1>1, <1>2, <1>3, HoldKeeps DEF May

LEMMA DrainedKeeps ==
  ASSUME RequestAssumption, RequestInv, NEW r \in Requests, Drained(r)
  PROVE  Keeps
<1>1. Sound(req[r])
  BY InvIsSound
<1>2. CASE req[r].stage = "writing" /\ Hold(r, {[req[r] EXCEPT !.stage = "streaming"]})
  <2> DEFINE e == [req[r] EXCEPT !.stage = "streaming"]
  <2>1. Sound(e) /\ e.stage = "streaming" /\ Seen(e) = Seen(req[r])
    BY <1>1, <1>2 DEF Sound, Record, Awaits, Seen
  <2>2. Hold(r, {e})
    BY <1>2
  <2> HIDE DEF e
  <2> QED BY <1>2, <2>1, <2>2, HoldKeeps DEF Called, May
<1>3. CASE req[r].stage = "closing" /\ Leave(r, {Over(req[r], "ok")})
  <2>1. req[r].stage \in Undecided /\ req[r].finished /\ req[r].usage
    BY <1>1, <1>3 DEF Undecided, Awaits, Sound
  <2>2. Open(req[r])
    BY <1>1, <2>1, UndecidedOpen
  <2>3. Sound(Over(req[r], "ok")) /\ Over(req[r], "ok").stage = "over" /\ Over(req[r], "ok").ending = "ok"
    BY <2>1, <2>2, OverOk
  <2>4. ~Over(req[r], "ok").fallback
    BY <2>3 DEF Sound
  <2>5. May(req[r], Over(req[r], "ok"))
    BY <1>1, <2>1, <2>3, <2>4, EndMay
  <2> QED BY <1>3, <2>3, <2>5, LeaveKeeps DEF Called
<1>4. CASE req[r].stage = "failing" /\ Move(r, {Over(req[r], "error")})
  <2> DEFINE e == Over(req[r], "error")
  <2>1. /\ e.stage = "over" /\ e.ending = "error" /\ e.fallback = req[r].fallback
        /\ req[r].ending = "error" /\ e \in Record /\ Sound(e)
    BY <1>1, <1>4 DEF Sound, Over, Record, Awaits
  <2>2. Seen(e) = Seen(req[r]) /\ Move(r, {e})
    BY <1>4, <2>1 DEF Seen
  <2> HIDE DEF e
  <2> QED BY <1>4, <2>1, <2>2, MoveKeeps DEF Called, May
<1> QED BY <1>2, <1>3, <1>4 DEF Drained

LEMMA AbortKeeps ==
  ASSUME RequestAssumption, RequestInv, NEW r \in Requests, Abort(r)
  PROVE  Keeps
<1>1. Sound(req[r]) /\ req[r].stage \in Awaits /\ ~req[r].aborted
  BY InvIsSound DEF Abort
<1>2. CASE /\ req[r].stage \in {"ensuring", "reading"} \/ (Relaying(r) /\ req[r].source = "answer")
           /\ Hold(r, {[req[r] EXCEPT !.aborted = TRUE]})
  <2> DEFINE e == [req[r] EXCEPT !.aborted = TRUE]
  <2>1. Sound(e) /\ e.stage = req[r].stage /\ Seen(e) = Seen(req[r])
    BY <1>1, <1>2 DEF Sound, Record, Awaits, Seen, Relaying
  <2>2. Hold(r, {e})
    BY <1>2
  <2> HIDE DEF e
  <2> QED BY <2>1, <2>2, HoldKeeps DEF May
<1>3. CASE req[r].stage \in {"ensuring", "queued"} /\ Move(r, {Gone(req[r])})
  <2>1. req[r].stage \in Undecided /\ req[r].stage \notin Called
    BY <1>3 DEF Undecided, Awaits, Called
  <2>2. Open(req[r]) /\ Sound(Gone(req[r])) /\ Gone(req[r]).stage = "over" /\ Gone(req[r]).ending = "gone"
    BY <1>1, <2>1, UndecidedOpen, GoneSound
  <2>3. May(req[r], Gone(req[r]))
    BY <1>1, <2>1, <2>2, EndMay DEF Sound
  <2> QED BY <1>3, <2>1, <2>2, <2>3, MoveKeeps DEF Called
<1>4. CASE /\ req[r].stage \in {"sending", "writing", "closing"} \/ (Relaying(r) /\ req[r].source = "sse")
           /\ Leave(r, {Gone([req[r] EXCEPT !.usage = @ \/ req[r].finished])})
  <2> DEFINE q == [req[r] EXCEPT !.usage = @ \/ req[r].finished]
  <2>1. req[r].stage \in Undecided /\ req[r].stage \in Called
    BY <1>4 DEF Undecided, Awaits, Called, Relaying
  <2>2. Open(q) /\ Leave(r, {Gone(q)})
    BY <1>1, <1>4, <2>1, UndecidedOpen DEF Open, Record
  <2> HIDE DEF q
  <2>3. Sound(Gone(q)) /\ Gone(q).stage = "over" /\ Gone(q).ending = "gone"
    BY <2>2, GoneSound
  <2>4. May(req[r], Gone(q))
    BY <1>1, <2>1, <2>3, EndMay DEF Sound
  <2> QED BY <2>1, <2>2, <2>3, <2>4, LeaveKeeps DEF Called
<1>5. CASE req[r].stage = "failing" /\ Move(r, {Over([req[r] EXCEPT !.aborted = TRUE], "error")})
  <2> DEFINE e == Over([req[r] EXCEPT !.aborted = TRUE], "error")
  <2>1. /\ e.stage = "over" /\ e.ending = "error" /\ e.fallback = req[r].fallback
        /\ req[r].ending = "error" /\ e \in Record /\ Sound(e)
    BY <1>1, <1>5 DEF Sound, Over, Record, Awaits
  <2>2. Seen(e) = Seen(req[r]) /\ Move(r, {e})
    BY <1>5, <2>1 DEF Seen
  <2> HIDE DEF e
  <2> QED BY <1>5, <2>1, <2>2, MoveKeeps DEF Called, May
<1> QED BY <1>2, <1>3, <1>4, <1>5 DEF Abort

LEMMA KeepAliveKeeps ==
  ASSUME RequestAssumption, RequestInv, NEW r \in Requests, KeepAlive(r)
  PROVE  Keeps
<1> DEFINE e == [req[r] EXCEPT !.headers = TRUE]
<1>1. Sound(req[r]) /\ req[r].streamed /\ req[r] \in Record
  BY InvIsSound DEF KeepAlive, Sound
<1>2. Sound(e) /\ e.stage = req[r].stage /\ Seen(e) = Seen(req[r])
  <2>1. /\ e \in Record /\ e.headers
        /\ e.stage = req[r].stage /\ e.source = req[r].source /\ e.streamed = req[r].streamed
        /\ e.ending = req[r].ending /\ e.fallback = req[r].fallback /\ e.content = req[r].content
        /\ e.finished = req[r].finished /\ e.usage = req[r].usage /\ e.aborted = req[r].aborted
        /\ e.admitted = req[r].admitted /\ e.recorded = req[r].recorded
    BY <1>1 DEF Record
  <2> HIDE DEF e
  <2>2. Seen(e) = Seen(req[r])
    BY <2>1 DEF Seen
  <2>3. Sound(e)
    BY <1>1, <2>1 DEF Sound
  <2> QED BY <2>1, <2>2, <2>3
<1>3. req' = [req EXCEPT ![r] = e] /\ active' = active
  BY <1>1, InvIsSound DEF KeepAlive
<1> HIDE DEF e
<1>4. Hold(r, {e})
  BY <1>3 DEF Hold
<1> QED BY <1>2, <1>4, HoldKeeps DEF May

-----------------------------------------------------------------------------
LEMMA StepKeeps ==
  ASSUME RequestAssumption, RequestInv, [Next]_vars
  PROVE  Keeps
<1>1. CASE UNCHANGED vars
  <2>1. req' = req /\ active' = active
    BY <1>1 DEF vars
  <2>2. RequestInv'
    BY <2>1, InvIsSound, NextIsSound DEF SlotsExact, Serving, Line
  <2> QED BY <2>1, <2>2 DEF Keeps, seenNow
<1>2. ASSUME NEW r \in Requests, Refuse(r) PROVE Keeps
  BY <1>2, RefuseKeeps
<1>3. ASSUME NEW r \in Requests, NEW streamed \in BOOLEAN, Arrive(r, streamed) PROVE Keeps
  BY <1>3, ArriveKeeps
<1>4. ASSUME NEW r \in Requests, NewRequest(r) PROVE Keeps
  BY <1>4, NewRequestKeeps
<1>5. ASSUME NEW r \in Requests, EnsureSettles(r) PROVE Keeps
  BY <1>5, EnsureSettlesKeeps
<1>6. ASSUME NEW r \in Requests, QueueTimeout(r) PROVE Keeps
  BY <1>6, WaitFails DEF QueueTimeout
<1>7. ASSUME NEW r \in Requests, CallImpossible(r) PROVE Keeps
  BY <1>7, CallFails DEF CallImpossible, Called
<1>8. ASSUME NEW r \in Requests, Retry(r) PROVE Keeps
  BY <1>8, RetryKeeps
<1>9. ASSUME NEW r \in Requests, Unreachable(r) PROVE Keeps
  BY <1>9, CallFails DEF Unreachable, Called
<1>10. ASSUME NEW r \in Requests, SendTimesOut(r) PROVE Keeps
  BY <1>10, CallFails DEF SendTimesOut, Called
<1>11. ASSUME NEW r \in Requests, NEW source \in {"sse", "answer", "error"}, HeadersArrive(r, source)
       PROVE  Keeps
  BY <1>11, HeadersKeep
<1>12. ASSUME NEW r \in Requests, BodyOver(r) PROVE Keeps
  BY <1>12, BodyKeeps
<1>13. ASSUME NEW r \in Requests, NEW shown \in BOOLEAN, NEW finish \in BOOLEAN, Chunk(r, shown, finish)
       PROVE  Keeps
  BY <1>13, ChunkKeeps
<1>14. ASSUME NEW r \in Requests, StreamDone(r) PROVE Keeps
  BY <1>14, StreamDoneKeeps
<1>15. ASSUME NEW r \in Requests, StreamEof(r) PROVE Keeps
  BY <1>15, StreamEofKeeps
<1>16. ASSUME NEW r \in Requests, StreamBreaks(r) PROVE Keeps
  BY <1>16, CallFails DEF StreamBreaks, Hears, Relaying, Called
<1>17. ASSUME NEW r \in Requests, StreamSilent(r) PROVE Keeps
  BY <1>17, CallFails DEF StreamSilent, Relaying, Called
<1>18. ASSUME NEW r \in Requests, Drained(r) PROVE Keeps
  BY <1>18, DrainedKeeps
<1>19. ASSUME NEW r \in Requests, Abort(r) PROVE Keeps
  BY <1>19, AbortKeeps
<1>20. ASSUME NEW r \in Requests, KeepAlive(r) PROVE Keeps
  BY <1>20, KeepAliveKeeps
<1>21. ASSUME NEW r \in Requests, FallSilent(r) PROVE Keeps
  BY <1>21, FallSilentKeeps
<1> QED BY <1>1, <1>2, <1>3, <1>4, <1>5, <1>6, <1>7, <1>8, <1>9, <1>10, <1>11, <1>12, <1>13,
           <1>14, <1>15, <1>16, <1>17, <1>18, <1>19, <1>20, <1>21 DEF Next

LEMMA InitKeeps ==
  ASSUME RequestAssumption, Init
  PROVE  RequestInv /\ Promise!Init
<1>1. /\ req \in [Requests -> Record] /\ active = 0
      /\ \A r \in Requests : req[r] = Idle
  BY IdleRecord DEF Init
<1>2. Sound(Idle) /\ Seen(Idle) = "none" /\ Idle.stage = "idle"
  BY IdleRecord DEF Sound, Record, Awaits, Seen
<1>3. Serving = {} /\ Line = {}
  BY <1>1, <1>2 DEF Serving, Line
<1>4. SlotsExact
  BY <1>1, <1>3, FS_EmptySet DEF SlotsExact, RequestAssumption
<1>5. RequestInv
  BY <1>1, <1>2, <1>4, InvIsSound
<1>6. Promise!Init
  BY <1>1, <1>2 DEF Promise!Init
<1> QED BY <1>5, <1>6

(* Through retries, failures, aborts, keepalives and slow clients every    *)
(* slot that is taken is held by a request being served, an answer that    *)
(* has begun is never asked for again or flagged for fallback, a complete  *)
(* one was completed by the upstream, and what was admitted is counted.    *)
THEOREM RequestsKeepBooks == Spec => []RequestInv
<1>1. RequestAssumption
  BY RequestAssumption
<1>2. Init => RequestInv
  BY <1>1, InitKeeps
<1>3. RequestInv /\ [Next]_vars => RequestInv'
  BY <1>1, StepKeeps DEF Keeps
<1> QED BY <1>2, <1>3, PTL DEF Spec

(* The relay of chat.ts implements what docs/01-gate.md promises a client: *)
(* a whole answer or an error, and "ask another model" only while nothing  *)
(* of an answer has been seen.                                             *)
THEOREM PromiseKept == Spec => KeepsPromise
<1>1. RequestAssumption
  BY RequestAssumption
<1>2. Init => Promise!Init
  BY <1>1, InitKeeps
<1>3. RequestInv /\ [Next]_vars => [Promise!Next]_seenNow
  BY <1>1, StepKeeps DEF Keeps
<1>4. seenNow = [r \in Requests |-> Seen(req[r])]
  BY DEF seenNow
<1> QED BY <1>2, <1>3, <1>4, RequestsKeepBooks, PTL DEF Spec, KeepsPromise, Promise!Spec, seenNow

=============================================================================
