------------------------------ MODULE FairSlots ------------------------------
(***************************************************************************)
(* What the limiter of gate/src/queue.ts promises, free of how the line is *)
(* kept: "a limit on how many requests a provider handles at once, with a  *)
(* waiting line ordered by priority (5 first), first come first served     *)
(* within a priority" (queue.ts:15-19).  The line is remembered in order   *)
(* of arrival; the choice of whom to serve is made when a slot frees up.   *)
(***************************************************************************)
EXTENDS Naturals, Sequences, SequencesExt

CONSTANTS Requests, Priorities, MaxConcurrency, MaxQueue

VARIABLES
  holders,   \* the requests that hold a slot
  arrivals   \* <<request, priority>> of the waiting ones, oldest first

vars == <<holders, arrivals>>

InLine(r) == \E i \in DOMAIN arrivals : arrivals[i][1] = r

(* The waiter at position i is to be served next: nobody waits with a      *)
(* higher priority, and nobody with the same one arrived earlier.          *)
IsNext(i) ==
  \A j \in DOMAIN arrivals \ {i} :
    \/ arrivals[j][2] < arrivals[i][2]
    \/ arrivals[j][2] = arrivals[i][2] /\ j > i

Init == holders = {} /\ arrivals = <<>>

Take(r) ==
  /\ r \notin holders /\ arrivals = <<>>
  /\ Cardinality(holders) < MaxConcurrency
  /\ holders' = holders \cup {r}
  /\ UNCHANGED arrivals

Join(r, p) ==
  /\ r \notin holders /\ ~InLine(r)
  /\ Cardinality(holders) = MaxConcurrency /\ Len(arrivals) < MaxQueue
  /\ arrivals' = Append(arrivals, <<r, p>>)
  /\ UNCHANGED holders

(* A waiter gives up: its client hung up or its time was over. *)
Leave(i) ==
  /\ arrivals' = RemoveAt(arrivals, i)
  /\ UNCHANGED holders

(* A holder is done and its slot goes straight to the next in line. *)
Finish(r) ==
  /\ r \in holders
  /\ IF arrivals = <<>>
     THEN holders' = holders \ {r} /\ UNCHANGED arrivals
     ELSE \E i \in DOMAIN arrivals :
            /\ IsNext(i)
            /\ holders' = (holders \ {r}) \cup {arrivals[i][1]}
            /\ arrivals' = RemoveAt(arrivals, i)

Next ==
  \/ \E r \in Requests : Take(r) \/ Finish(r) \/ \E p \in Priorities : Join(r, p)
  \/ \E i \in DOMAIN arrivals : Leave(i)

Spec == Init /\ [][Next]_vars
=============================================================================
