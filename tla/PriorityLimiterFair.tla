------------------------- MODULE PriorityLimiterFair -------------------------
(***************************************************************************)
(* PriorityLimiter with a history variable, the order of arrival of the    *)
(* waiting requests, which the code does not keep: it relies on where each *)
(* newcomer is put.  With it the limiter is shown to implement FairSlots.  *)
(***************************************************************************)
EXTENDS PriorityLimiter

VARIABLE arrivals   \* the waiting requests, oldest first

hvars == <<vars, arrivals>>

HInit == Init /\ arrivals = <<>>

(* Who joins the line in a step, and which arrivals leave it: at most one  *)
(* request in all, since a release serves one waiter at the most.          *)
Came == {q \in Requests : state[q] # "waiting" /\ state'[q] = "waiting"}
Gone == {i \in DOMAIN arrivals : state'[arrivals[i]] # "waiting"}

ArrivalsFollow ==
  arrivals' = IF Came # {} THEN Append(arrivals, CHOOSE q \in Came : TRUE)
              ELSE IF Gone # {} THEN RemoveAt(arrivals, CHOOSE i \in Gone : TRUE)
              ELSE arrivals

HNext == Next /\ ArrivalsFollow

HSpec == HInit /\ [][HNext]_hvars /\ Fairness

(* The arrivals with their priorities. *)
Paired(a, prio) == [i \in DOMAIN a |-> <<a[i], prio[a[i]]>>]

(* The limiter serves the best waiter first: its holders and its line,     *)
(* read in order of arrival, behave like the holders and the line of       *)
(* FairSlots.                                                              *)
Fair == INSTANCE FairSlots WITH
  holders <- Holders,
  arrivals <- Paired(arrivals, priority)

ServesBestFirst == Fair!Spec

(* The arrivals are the waiting requests, each once, and the line serves   *)
(* those of one priority in that order.                                    *)
ArrivalsInv ==
  /\ arrivals \in Seq(Requests)
  /\ Len(arrivals) = Len(waiting)
  /\ \A i, j \in 1..Len(arrivals) : arrivals[i] = arrivals[j] => i = j
  /\ \A r \in Requests : state[r] = "waiting" <=> \E i \in 1..Len(arrivals) : arrivals[i] = r
  /\ \A i, j, k, l \in 1..Len(waiting) :
       /\ i < j /\ priority[waiting[i]] = priority[waiting[j]]
       /\ arrivals[k] = waiting[i] /\ arrivals[l] = waiting[j]
       => k < l

(* The invariant behind the refinement. *)
FairInv == IInv /\ ArrivalsInv
=============================================================================
