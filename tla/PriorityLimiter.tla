--------------------------- MODULE PriorityLimiter ---------------------------
(***************************************************************************)
(* The concurrency limiter of one provider (gate/src/queue.ts): at most    *)
(* MaxConcurrency requests hold a slot, the others stand in a line         *)
(* ordered by priority, first come first served within a priority.         *)
(*                                                                         *)
(* JavaScript runs one callback at a time, so every method of the class is *)
(* one action.  A request is an execution of chat.ts's RequestRun: it      *)
(* acquires a slot, and once more after its release when the machine was   *)
(* lost under the call.                                                    *)
(***************************************************************************)
EXTENDS Naturals, Sequences, SequencesExt

CONSTANTS
  Requests,       \* the requests that compete for the provider
  Priorities,     \* X-MindGate-Priority values in use (1..5 in the code)
  MaxConcurrency, \* the provider's max_concurrency
  MaxQueue,       \* MINDGATE_QUEUE_MAX
  HasTimeout      \* MINDGATE_QUEUE_TIMEOUT_MS > 0

ASSUME LimiterAssumption ==
  /\ Priorities \subseteq Nat
  /\ MaxConcurrency \in Nat \ {0}
  /\ MaxQueue \in Nat
  /\ HasTimeout \in BOOLEAN

VARIABLES
  active,    \* number of slots taken
  waiting,   \* the line: requests, next to be served first
  priority,  \* priority of each request's latest acquire
  aborted,   \* whether the request's AbortSignal has fired
  state      \* where each request stands with the limiter

vars == <<active, waiting, priority, aborted, state>>

(* "released" remembers a lease whose release closure has been called; the *)
(* last three are the errors acquire() rejects with.                       *)
States == {"idle", "waiting", "held", "released",
           "queue_full", "queue_timeout", "client_abort"}

Holders == {r \in Requests : state[r] = "held"}

-----------------------------------------------------------------------------
(* The line.                                                               *)

(* A likely mistake: > for >=, which puts a newcomer before its equals. *)
AheadOfEquals(p) ==
  CHOOSE i \in 0..Len(waiting) :
    /\ i = 0 \/ priority[waiting[i]] > p
    /\ \A j \in (i + 1)..Len(waiting) : priority[waiting[j]] <= p

(* Number of waiters that stay in front of a newcomer of priority p: all   *)
(* up to the last one whose priority is at least p.                        *)
Ahead(p) ==
  CHOOSE i \in 0..Len(waiting) :
    /\ i = 0 \/ priority[waiting[i]] >= p
    /\ \A j \in (i + 1)..Len(waiting) : priority[waiting[j]] < p

IndexOf(r) == CHOOSE i \in 1..Len(waiting) : waiting[i] = r

Without(r) == RemoveAt(waiting, IndexOf(r))

-----------------------------------------------------------------------------
Init ==
  /\ active = 0
  /\ waiting = <<>>
  /\ priority \in [Requests -> Priorities]
  /\ aborted = [r \in Requests |-> FALSE]
  /\ state = [r \in Requests |-> "idle"]

(* acquire() with a free slot and nobody waiting. *)
TakeSlot(r) ==
  /\ ~aborted[r]
  /\ active < MaxConcurrency
  /\ waiting = <<>>
  /\ active' = active + 1
  /\ state' = [state EXCEPT ![r] = "held"]
  /\ UNCHANGED waiting

(* acquire() when the line is at its limit. *)
RefuseFull(r) ==
  /\ ~aborted[r]
  /\ active >= MaxConcurrency \/ waiting # <<>>
  /\ Len(waiting) >= MaxQueue
  /\ state' = [state EXCEPT ![r] = "queue_full"]
  /\ UNCHANGED <<active, waiting>>

(* acquire() that joins the line. *)
JoinLine(r, p) ==
  /\ ~aborted[r]
  /\ active >= MaxConcurrency \/ waiting # <<>>
  /\ Len(waiting) < MaxQueue
  /\ waiting' = InsertAt(waiting, Ahead(p) + 1, r)
  /\ state' = [state EXCEPT ![r] = "waiting"]
  /\ UNCHANGED active

(* acquire() of a request whose client has already gone. *)
RefuseAborted(r) ==
  /\ aborted[r]
  /\ state' = [state EXCEPT ![r] = "client_abort"]
  /\ UNCHANGED <<active, waiting>>

Acquire(r, p) ==
  /\ state[r] \in {"idle", "released"}
  /\ priority' = [priority EXCEPT ![r] = p]
  /\ UNCHANGED aborted
  /\ \/ TakeSlot(r)
     \/ RefuseFull(r)
     \/ JoinLine(r, p)
     \/ RefuseAborted(r)

(* The waiters pump() grants a slot when `free` slots are free. *)
Served(free) ==
  SubSeq(waiting, 1, IF free < Len(waiting) THEN free ELSE Len(waiting))

(* Frees one slot and pumps the line. *)
FreeSlot(r) ==
  LET next == Served(MaxConcurrency - (active - 1))
  IN  /\ active' = (active - 1) + Len(next)
      /\ waiting' = SubSeq(waiting, Len(next) + 1, Len(waiting))
      /\ state' = [q \in Requests |->
                     IF \E i \in 1..Len(next) : next[i] = q THEN "held"
                     ELSE IF q = r THEN "released" ELSE state[q]]
      /\ UNCHANGED <<priority, aborted>>

(* A likely mistake: the closure does not remember that it was called. *)
ReleaseEveryCall(r) == state[r] \in {"held", "released"} /\ FreeSlot(r)

(* The release closure: only its first call counts. *)
Release(r) ==
  /\ state[r] \in {"held", "released"}
  /\ IF state[r] = "held" THEN FreeSlot(r) ELSE UNCHANGED vars

(* The waiter's timer fires. *)
TimeOut(r) ==
  /\ HasTimeout
  /\ state[r] = "waiting"
  /\ waiting' = Without(r)
  /\ state' = [state EXCEPT ![r] = "queue_timeout"]
  /\ UNCHANGED <<active, priority, aborted>>

(* The client hangs up.  A waiter leaves the line at once; a holder keeps  *)
(* its slot until its own `finally` releases it.                           *)
Abort(r) ==
  /\ ~aborted[r]
  /\ aborted' = [aborted EXCEPT ![r] = TRUE]
  /\ IF state[r] = "waiting"
     THEN /\ waiting' = Without(r)
          /\ state' = [state EXCEPT ![r] = "client_abort"]
     ELSE UNCHANGED <<waiting, state>>
  /\ UNCHANGED <<active, priority>>

(* A finished request's name is used for a new one, with a new signal. *)
NewRequest(r) ==
  /\ state[r] \notin {"idle", "waiting", "held"}
  /\ state' = [state EXCEPT ![r] = "idle"]
  /\ aborted' = [aborted EXCEPT ![r] = FALSE]
  /\ UNCHANGED <<active, waiting, priority>>

Next ==
  \E r \in Requests :
    \/ \E p \in Priorities : Acquire(r, p)
    \/ Release(r)
    \/ TimeOut(r)
    \/ Abort(r)
    \/ NewRequest(r)

Spec == Init /\ [][Next]_vars

(* A holder ends: chat.ts releases in a `finally`, and the waits inside the *)
(* call it covers have a deadline (first byte, idle), follow the client's  *)
(* own disconnection, or, where a body is read whole, rely on the upstream *)
(* to end it.  Nothing is assumed of clients that wait.                    *)
Fairness == \A r \in Requests : WF_vars(Release(r))

-----------------------------------------------------------------------------
TypeOK ==
  /\ active \in Nat
  /\ waiting \in Seq(Requests)
  /\ priority \in [Requests -> Priorities]
  /\ aborted \in [Requests -> BOOLEAN]
  /\ state \in [Requests -> States]

(* The requests that hold a slot never outnumber max_concurrency, whatever *)
(* was released twice, timed out or hung up in between.                    *)
WithinLimit == Cardinality(Holders) <= MaxConcurrency

(* `running`, which the admin API reports, is the number of slots held: no *)
(* slot leaks and none is freed twice.                                     *)
SlotsCounted == IsFiniteSet(Holders) /\ active = Cardinality(Holders)

(* Nobody waits while a slot is free: every way out of the line and every  *)
(* release leaves it pumped.                                               *)
NoIdleSlot == waiting # <<>> => active = MaxConcurrency

(* Each waiting request stands in the line exactly once and nobody else    *)
(* does, so a request that gave up is never granted a slot.                *)
LineIsTheWaiting ==
  /\ \A r \in Requests : state[r] = "waiting" <=> \E i \in 1..Len(waiting) : waiting[i] = r
  /\ \A i, j \in 1..Len(waiting) : waiting[i] = waiting[j] => i = j

(* The line is ordered by priority and never longer than MaxQueue. *)
LineSorted ==
  /\ Len(waiting) <= MaxQueue
  /\ \A i, j \in 1..Len(waiting) : i < j => priority[waiting[i]] >= priority[waiting[j]]

(* No waiter's client is gone: an abort always takes its request out. *)
NoGhosts == \A r \in Requests : state[r] = "waiting" => ~aborted[r]

(* The inductive invariant: what each method leaves true for the next one. *)
IInv ==
  /\ TypeOK
  /\ SlotsCounted
  /\ active <= MaxConcurrency
  /\ NoIdleSlot
  /\ LineIsTheWaiting
  /\ LineSorted
  /\ NoGhosts

(* A waiter of the highest priority does not starve, however many others   *)
(* keep arriving.                                                          *)
TopPriorityServed ==
  \A r \in Requests :
    (state[r] = "waiting" /\ \A p \in Priorities : priority[r] >= p)
      ~> state[r] # "waiting"
=============================================================================
