------------------------ MODULE PriorityLimiterProofs ------------------------
(***************************************************************************)
(* The limiter keeps its books, never exceeds its limit and never leaves a *)
(* slot idle while somebody waits (IInv of PriorityLimiter); with the      *)
(* order of arrival it implements FairSlots.  For any set of requests,     *)
(* priorities, limit and line length.                                      *)
(***************************************************************************)
EXTENDS PriorityLimiterFair, SequenceFacts, FiniteSetTheorems

(* Where a newcomer goes: Ahead(p) is well defined on a sorted line. *)
LEMMA AheadExists ==
  ASSUME TypeOK, NEW p \in Priorities
  PROVE  /\ Ahead(p) \in 0..Len(waiting)
         /\ Ahead(p) = 0 \/ priority[waiting[Ahead(p)]] >= p
         /\ \A j \in (Ahead(p) + 1)..Len(waiting) : priority[waiting[j]] < p
<1> DEFINE Good(i) == /\ i = 0 \/ priority[waiting[i]] >= p
                      /\ \A j \in (i + 1)..Len(waiting) : priority[waiting[j]] < p
           D == {i \in 1..Len(waiting) : priority[waiting[i]] >= p}
<1>1. Len(waiting) \in Nat
  BY DEF TypeOK
<1>2. \A i \in 1..Len(waiting) : priority[waiting[i]] \in Nat /\ p \in Nat
  <2> SUFFICES ASSUME NEW i \in 1..Len(waiting)
               PROVE  priority[waiting[i]] \in Nat /\ p \in Nat
    OBVIOUS
  <2>1. waiting[i] \in Requests
    BY ElementOfSeq DEF TypeOK
  <2> QED BY <2>1, LimiterAssumption DEF TypeOK
<1>3. \E i \in 0..Len(waiting) : Good(i)
  <2>1. CASE D = {}
    <3>1. Good(0)
      BY <1>1, <1>2, <2>1
    <3> QED BY <1>1, <3>1
  <2>2. CASE D # {}
    <3>1. D \in SUBSET (0..Len(waiting))
      BY <1>1
    <3>2. PICK m \in D : \A i \in D : i <= m
      BY <2>2, <3>1, <1>1, GreatestExists
    <3>3. Good(m)
      BY <1>1, <1>2, <3>2
    <3> QED BY <1>1, <3>3
  <2> QED BY <2>1, <2>2
<1>4. Ahead(p) = CHOOSE i \in 0..Len(waiting) : Good(i)
  BY DEF Ahead
<1> HIDE DEF Good
<1>5. Ahead(p) \in 0..Len(waiting) /\ Good(Ahead(p))
  BY <1>3, <1>4
<1> QED BY <1>5 DEF Good

LEMMA IndexOfProperties ==
  ASSUME TypeOK, LineIsTheWaiting, NEW r \in Requests, state[r] = "waiting"
  PROVE  IndexOf(r) \in 1..Len(waiting) /\ waiting[IndexOf(r)] = r
<1>1. \E i \in 1..Len(waiting) : waiting[i] = r
  BY DEF LineIsTheWaiting
<1> QED BY <1>1 DEF IndexOf

(* The line after a waiter left it. *)
LEMMA LeavingTheLine ==
  ASSUME IInv, NEW r \in Requests, state[r] = "waiting",
         waiting' = Without(r), state' \in [Requests -> States],
         state'[r] \notin {"waiting", "held"}, UNCHANGED priority,
         \A q \in Requests \ {r} : state'[q] = state[q]
  PROVE  /\ waiting' \in Seq(Requests)
         /\ LineIsTheWaiting'
         /\ LineSorted'
         /\ waiting # <<>>
         /\ Holders' = Holders
<1> DEFINE k == IndexOf(r)
<1>1. k \in 1..Len(waiting) /\ waiting[k] = r
  BY IndexOfProperties DEF IInv
<1>2. /\ waiting' \in Seq(Requests)
      /\ Len(waiting') = Len(waiting) - 1
      /\ \A i \in 1..(Len(waiting) - 1) :
           waiting'[i] = IF i < k THEN waiting[i] ELSE waiting[i + 1]
  BY <1>1, RemoveAtProperties DEF Without, IInv, TypeOK
<1>3. waiting \in Seq(Requests) /\ Len(waiting) \in Nat
  BY DEF IInv, TypeOK
<1> HIDE DEF k
<1> DEFINE was(i) == IF i < k THEN i ELSE i + 1
<1>4. \A i \in 1..Len(waiting') : /\ was(i) \in 1..Len(waiting) /\ was(i) # k
                                  /\ waiting'[i] = waiting[was(i)]
  BY <1>1, <1>2, <1>3
<1>5. \A i, j \in 1..Len(waiting') : (i < j => was(i) < was(j)) /\ (was(i) = was(j) => i = j)
  BY <1>1, <1>2, <1>3
<1>6. \A j \in 1..Len(waiting) : j # k => \E i \in 1..Len(waiting') : waiting'[i] = waiting[j]
  <2> SUFFICES ASSUME NEW j \in 1..Len(waiting), j # k
               PROVE  \E i \in 1..Len(waiting') : was(i) = j
    BY <1>4
  <2>1. CASE j < k
    BY <2>1, <1>1, <1>2, <1>3
  <2>2. CASE j > k
    <3>1. j - 1 \in 1..Len(waiting') /\ was(j - 1) = j
      BY <2>2, <1>1, <1>2, <1>3
    <3> QED BY <3>1
  <2> QED BY <2>1, <2>2, <1>1
<1> HIDE DEF was
<1>7. LineIsTheWaiting'
  <2>1. ASSUME NEW q \in Requests
        PROVE  state'[q] = "waiting" <=> \E i \in 1..Len(waiting') : waiting'[i] = q
    <3>1. CASE q = r
      BY <3>1, <1>1, <1>4 DEF IInv, LineIsTheWaiting
    <3>2. CASE q # r
      <4>1. state'[q] = state[q]
        BY <3>2
      <4>2. state[q] = "waiting" <=> \E j \in 1..Len(waiting) : waiting[j] = q
        BY DEF IInv, LineIsTheWaiting
      <4>3. (\E j \in 1..Len(waiting) : waiting[j] = q) => \E i \in 1..Len(waiting') : waiting'[i] = q
        BY <3>2, <1>1, <1>6
      <4>4. (\E i \in 1..Len(waiting') : waiting'[i] = q) => \E j \in 1..Len(waiting) : waiting[j] = q
        BY <1>4
      <4> QED BY <4>1, <4>2, <4>3, <4>4
    <3> QED BY <3>1, <3>2
  <2>2. ASSUME NEW i \in 1..Len(waiting'), NEW j \in 1..Len(waiting'), waiting'[i] = waiting'[j]
        PROVE  i = j
    BY <2>2, <1>4, <1>5 DEF IInv, LineIsTheWaiting
  <2> QED BY <2>1, <2>2 DEF LineIsTheWaiting
<1>9. LineSorted'
  <2>1. Len(waiting') <= MaxQueue
    BY <1>2, <1>3, LimiterAssumption DEF IInv, LineSorted
  <2>2. ASSUME NEW i \in 1..Len(waiting'), NEW j \in 1..Len(waiting'), i < j
        PROVE  priority[waiting'[i]] >= priority[waiting'[j]]
    BY <2>2, <1>4, <1>5 DEF IInv, LineSorted
  <2> QED BY <2>1, <2>2 DEF LineSorted
<1>8. Holders' = Holders
  BY DEF Holders, IInv, TypeOK
<1> QED BY <1>1, <1>2, <1>3, <1>7, <1>8, <1>9

(* A waiter gives up, because its time is over or its client is gone. *)
LEMMA GivingUp ==
  ASSUME IInv, NEW r \in Requests, state[r] = "waiting",
         NEW s \in States \ {"waiting", "held"},
         waiting' = Without(r), state' = [state EXCEPT ![r] = s],
         active' = active, priority' = priority,
         aborted' = aborted \/ aborted' = [aborted EXCEPT ![r] = TRUE]
  PROVE  IInv'
<1>1. TypeOK
  BY DEF IInv
<1>2. /\ state' \in [Requests -> States] /\ state'[r] = s
      /\ \A q \in Requests \ {r} : state'[q] = state[q]
  BY <1>1 DEF TypeOK
<1>3. /\ waiting' \in Seq(Requests) /\ LineIsTheWaiting' /\ LineSorted'
      /\ waiting # <<>> /\ Holders' = Holders
  BY <1>2, LeavingTheLine
<1>4. TypeOK'
  BY <1>1, <1>2, <1>3 DEF TypeOK
<1>5. SlotsCounted' /\ active' <= MaxConcurrency /\ NoIdleSlot'
  BY <1>3 DEF IInv, SlotsCounted, NoIdleSlot
<1>6. NoGhosts'
  BY <1>1, <1>2 DEF IInv, NoGhosts, TypeOK
<1> QED BY <1>3, <1>4, <1>5, <1>6 DEF IInv

(* A refused request changes nothing but its own outcome. *)
LEMMA OffTheLine ==
  ASSUME IInv, NEW r \in Requests, NEW p \in Priorities,
         state[r] \notin {"waiting", "held"}, NEW s \in States \ {"waiting", "held"},
         state' = [state EXCEPT ![r] = s], priority' = [priority EXCEPT ![r] = p],
         active' = active, waiting' = waiting, aborted' = aborted
  PROVE  IInv'
<1>1. TypeOK
  BY DEF IInv
<1>2. TypeOK'
  BY <1>1 DEF TypeOK
<1>3. Holders' = Holders
  BY <1>1 DEF TypeOK, Holders
<1>4. SlotsCounted' /\ active' <= MaxConcurrency /\ NoIdleSlot'
  BY <1>3 DEF IInv, SlotsCounted, NoIdleSlot
<1>5. LineIsTheWaiting' /\ NoGhosts'
  BY <1>1 DEF IInv, TypeOK, LineIsTheWaiting, NoGhosts
<1>6. \A i \in 1..Len(waiting) : priority'[waiting[i]] = priority[waiting[i]]
  BY <1>1 DEF IInv, TypeOK, LineIsTheWaiting
<1>7. LineSorted'
  BY <1>6 DEF IInv, LineSorted
<1> QED BY <1>2, <1>4, <1>5, <1>7 DEF IInv

(* The line after a newcomer of priority p joined it. *)
LEMMA JoiningTheLine ==
  ASSUME IInv, NEW r \in Requests, NEW p \in Priorities,
         state[r] \notin {"waiting", "held"}, ~aborted[r],
         priority' = [priority EXCEPT ![r] = p],
         JoinLine(r, p), UNCHANGED aborted
  PROVE  IInv'
<1> DEFINE k == Ahead(p)
           was(i) == IF i <= k THEN i ELSE i - 1
           others == (1..Len(waiting')) \ {k + 1}
<1>1. waiting \in Seq(Requests) /\ Len(waiting) \in Nat /\ TypeOK
  BY DEF IInv, TypeOK
<1>2. /\ k \in 0..Len(waiting)
      /\ k = 0 \/ priority[waiting[k]] >= p
      /\ \A j \in (k + 1)..Len(waiting) : priority[waiting[j]] < p
  BY <1>1, AheadExists
<1>3. waiting' = InsertAt(waiting, k + 1, r) /\ state' = [state EXCEPT ![r] = "waiting"] /\ active' = active
  BY DEF JoinLine
<1> HIDE DEF k
<1>4. /\ waiting' \in Seq(Requests)
      /\ Len(waiting') = Len(waiting) + 1
      /\ \A i \in 1..k : waiting'[i] = waiting[i]
      /\ waiting'[k + 1] = r
      /\ \A i \in (k + 2)..(Len(waiting) + 1) : waiting'[i] = waiting[i - 1]
  <2> DEFINE n == k + 1
             w == InsertAt(waiting, n, r)
  <2>1. n \in 1..(Len(waiting) + 1) /\ n - 1 = k /\ n + 1 = k + 2
    BY <1>1, <1>2
  <2> HIDE DEF n
  <2>2. /\ w \in Seq(Requests) /\ Len(w) = Len(waiting) + 1
        /\ \A i \in 1..(n - 1) : w[i] = waiting[i]
        /\ w[n] = r
        /\ \A i \in (n + 1)..(Len(waiting) + 1) : w[i] = waiting[i - 1]
    BY <1>1, <2>1, InsertAtProperties
  <2>3. waiting' = w
    BY <1>3 DEF n
  <2> HIDE DEF w
  <2> QED BY <2>1, <2>2, <2>3 DEF n
<1>5. k + 1 \in 1..Len(waiting') /\ waiting'[k + 1] = r
  BY <1>1, <1>2, <1>4
<1>6. \A i \in others : was(i) \in 1..Len(waiting) /\ waiting'[i] = waiting[was(i)] /\ waiting'[i] # r
  <2>1. ASSUME NEW i \in others
        PROVE  was(i) \in 1..Len(waiting) /\ waiting'[i] = waiting[was(i)]
    BY <1>1, <1>2, <1>4
  <2>2. \A j \in 1..Len(waiting) : waiting[j] # r
    BY DEF IInv, LineIsTheWaiting
  <2> HIDE DEF was, others
  <2> QED BY <2>1, <2>2
<1>7. \A i, j \in others : (i < j => was(i) < was(j)) /\ (was(i) = was(j) => i = j)
  BY <1>1, <1>2, <1>4
<1>8. \A j \in 1..Len(waiting) : \E i \in others : was(i) = j
  <2> SUFFICES ASSUME NEW j \in 1..Len(waiting)
               PROVE  \E i \in others : was(i) = j
    OBVIOUS
  <2>1. CASE j <= k
    BY <2>1, <1>1, <1>2, <1>4
  <2>2. CASE j > k
    <3>1. j + 1 \in others /\ was(j + 1) = j
      BY <2>2, <1>1, <1>2, <1>4
    <3> QED BY <3>1
  <2> QED BY <2>1, <2>2, <1>2
<1>9. \A i \in others : (i < k + 1 => was(i) <= k) /\ (i > k + 1 => was(i) > k) /\ i \in Nat
  BY <1>1, <1>2, <1>4
<1>10. 1..Len(waiting') = others \cup {k + 1}
  BY <1>5
<1> HIDE DEF was, others
<1>11. TypeOK'
  BY <1>1, <1>3, <1>4 DEF TypeOK, States
<1>12. LineIsTheWaiting'
  <2>1. ASSUME NEW q \in Requests
        PROVE  state'[q] = "waiting" <=> \E i \in 1..Len(waiting') : waiting'[i] = q
    <3>1. CASE q = r
      BY <3>1, <1>1, <1>3, <1>5 DEF TypeOK
    <3>2. CASE q # r
      <4>1. state'[q] = state[q]
        BY <3>2, <1>1, <1>3 DEF TypeOK
      <4>2. state[q] = "waiting" <=> \E j \in 1..Len(waiting) : waiting[j] = q
        BY DEF IInv, LineIsTheWaiting
      <4>3. (\E j \in 1..Len(waiting) : waiting[j] = q) => \E i \in 1..Len(waiting') : waiting'[i] = q
        BY <1>6, <1>8, <1>10
      <4>4. (\E i \in 1..Len(waiting') : waiting'[i] = q) => \E j \in 1..Len(waiting) : waiting[j] = q
        BY <3>2, <1>5, <1>6, <1>10
      <4> QED BY <4>1, <4>2, <4>3, <4>4
    <3> QED BY <3>1, <3>2
  <2>2. ASSUME NEW i \in 1..Len(waiting'), NEW j \in 1..Len(waiting'), waiting'[i] = waiting'[j]
        PROVE  i = j
    <3>1. CASE i \in others /\ j \in others
      BY <2>2, <3>1, <1>6, <1>7 DEF IInv, LineIsTheWaiting
    <3>2. CASE i = k + 1 \/ j = k + 1
      BY <2>2, <3>2, <1>5, <1>6, <1>10
    <3> QED BY <3>1, <3>2, <1>10
  <2> QED BY <2>1, <2>2 DEF LineIsTheWaiting
<1>13. \A i \in others : priority'[waiting'[i]] = priority[waiting[was(i)]] /\ priority[waiting[was(i)]] \in Nat
  <2>1. ASSUME NEW i \in others
        PROVE  waiting'[i] \in Requests /\ waiting'[i] # r
    BY <1>4, <1>6, <1>10, ElementOfSeq
  <2> QED BY <2>1, <1>1, <1>6, LimiterAssumption DEF TypeOK
<1>14. LineSorted'
  <2>1. Len(waiting') <= MaxQueue
    BY <1>1, <1>4, LimiterAssumption DEF JoinLine
  <2>2. ASSUME NEW i \in 1..Len(waiting'), NEW j \in 1..Len(waiting'), i < j
        PROVE  priority'[waiting'[i]] >= priority'[waiting'[j]]
    <3>1. priority'[waiting'[k + 1]] = p /\ p \in Nat
      BY <1>1, <1>5, LimiterAssumption DEF TypeOK
    <3>2. CASE i \in others /\ j \in others
      BY <2>2, <3>2, <1>6, <1>7, <1>13 DEF IInv, LineSorted
    <3>3. CASE i = k + 1 /\ j \in others
      <4>1. was(j) > k /\ was(j) \in 1..Len(waiting)
        BY <2>2, <3>3, <1>6, <1>9
      <4>2. priority[waiting[was(j)]] < p
        BY <4>1, <1>1, <1>2
      <4> QED BY <3>1, <3>3, <4>2, <1>13
    <3>4. CASE j = k + 1 /\ i \in others
      <4>1. was(i) <= k /\ was(i) \in 1..Len(waiting)
        BY <2>2, <3>4, <1>6, <1>9
      <4>2. k \in 1..Len(waiting) /\ priority[waiting[k]] >= p
        BY <4>1, <1>1, <1>2
      <4>3. priority[waiting[was(i)]] >= priority[waiting[k]]
        <5>1. CASE was(i) = k
          BY <5>1, <1>13, <3>4
        <5>2. CASE was(i) < k
          BY <5>2, <4>1, <4>2 DEF IInv, LineSorted
        <5> QED BY <5>1, <5>2, <4>1, <4>2
      <4>4. priority[waiting[k]] \in Nat
        BY <4>2, <1>1, ElementOfSeq, LimiterAssumption DEF TypeOK
      <4> QED BY <3>1, <3>4, <4>2, <4>3, <4>4, <1>13
    <3> QED BY <2>2, <3>2, <3>3, <3>4, <1>10
  <2> QED BY <2>1, <2>2 DEF LineSorted
<1>15. Holders' = Holders
  BY <1>1, <1>3 DEF Holders, TypeOK
<1>16. SlotsCounted' /\ active' <= MaxConcurrency
  BY <1>3, <1>15 DEF IInv, SlotsCounted
<1>17. NoIdleSlot'
  BY <1>1, <1>3, LimiterAssumption DEF IInv, NoIdleSlot, JoinLine, TypeOK
<1>18. NoGhosts'
  BY <1>1, <1>3 DEF IInv, NoGhosts, TypeOK
<1> QED BY <1>11, <1>12, <1>14, <1>16, <1>17, <1>18 DEF IInv

(* A slot is freed and the line is pumped: at most one waiter, the first,  *)
(* takes it, since nobody waits unless every slot was taken.               *)
LEMMA FreeingASlot ==
  ASSUME IInv, NEW r \in Requests, state[r] = "held", FreeSlot(r)
  PROVE  IInv'
<1> DEFINE next == Served(MaxConcurrency - (active - 1))
<1>1. /\ waiting \in Seq(Requests) /\ Len(waiting) \in Nat /\ TypeOK
      /\ active \in Nat /\ MaxConcurrency \in Nat \ {0} /\ MaxQueue \in Nat
      /\ active <= MaxConcurrency
  BY LimiterAssumption DEF IInv, TypeOK
<1>2. IsFiniteSet(Holders) /\ active = Cardinality(Holders) /\ r \in Holders
  BY DEF IInv, SlotsCounted, Holders
<1>3. active >= 1
  BY <1>1, <1>2, FS_EmptySet
<1>4. IsFiniteSet(Holders \ {r}) /\ Cardinality(Holders \ {r}) = active - 1
  BY <1>2, FS_RemoveElement
<1>5. UNCHANGED <<priority, aborted>>
  BY DEF FreeSlot
<1>6. CASE waiting = <<>>
  <2>1. next = <<>> /\ Len(next) = 0
    BY <1>6, <1>1, <1>3 DEF Served
  <2>2. active' = active - 1 /\ waiting' = <<>>
    BY <1>6, <1>1, <2>1 DEF FreeSlot
  <2>3. state' = [q \in Requests |-> IF q = r THEN "released" ELSE state[q]]
    BY <2>1 DEF FreeSlot
  <2>4. Holders' = Holders \ {r}
    BY <2>3 DEF Holders
  <2>5. TypeOK'
    BY <1>1, <1>3, <1>5, <2>2, <2>3 DEF TypeOK, States
  <2>6. SlotsCounted' /\ active' <= MaxConcurrency /\ NoIdleSlot'
    BY <1>1, <1>4, <2>2, <2>4 DEF SlotsCounted, NoIdleSlot
  <2>7. LineIsTheWaiting' /\ LineSorted' /\ NoGhosts'
    BY <1>1, <1>5, <1>6, <2>2, <2>3 DEF IInv, LineIsTheWaiting, LineSorted, NoGhosts
  <2> QED BY <2>5, <2>6, <2>7 DEF IInv
<1>7. CASE waiting # <<>>
  <2> DEFINE h == waiting[1]
  <2>1. active = MaxConcurrency /\ Len(waiting) >= 1
    BY <1>7, <1>1 DEF IInv, NoIdleSlot
  <2>2. next = SubSeq(waiting, 1, 1)
    <3>1. MaxConcurrency - (active - 1) = 1
      BY <1>1, <2>1
    <3> QED BY <3>1, <1>1, <2>1 DEF Served
  <2>3. Len(next) = 1 /\ next[1] = h
    BY <1>1, <2>1, <2>2
  <2> HIDE DEF next
  <2>4. active' = active /\ waiting' = SubSeq(waiting, 2, Len(waiting))
    <3>1. /\ active' = (active - 1) + Len(next)
          /\ waiting' = SubSeq(waiting, Len(next) + 1, Len(waiting))
      BY Zenon DEF FreeSlot, next
    <3> QED BY <3>1, <1>1, <2>3
  <2>5. state' = [q \in Requests |-> IF h = q THEN "held" ELSE IF q = r THEN "released" ELSE state[q]]
    BY <2>3 DEF FreeSlot, next
  <2>6. h \in Requests /\ state[h] = "waiting" /\ h # r /\ h \notin Holders
    BY <1>1, <2>1 DEF IInv, LineIsTheWaiting, Holders
  <2>7. Holders' = (Holders \ {r}) \cup {h}
    BY <2>5, <2>6 DEF Holders
  <2>8. IsFiniteSet(Holders') /\ Cardinality(Holders') = active
    <3>1. h \notin Holders \ {r}
      BY <2>6
    <3>2. /\ IsFiniteSet((Holders \ {r}) \cup {h})
          /\ Cardinality((Holders \ {r}) \cup {h}) = Cardinality(Holders \ {r}) + 1
      BY <1>4, <3>1, FS_AddElement, Zenon
    <3>3. (active - 1) + 1 = active
      BY <1>1
    <3> QED BY <1>4, <2>7, <3>2, <3>3, Zenon
  <2>9. /\ waiting' \in Seq(Requests) /\ Len(waiting') = Len(waiting) - 1
        /\ \A i \in 1..(Len(waiting) - 1) : waiting'[i] = waiting[i + 1]
    <3> DEFINE w == SubSeq(waiting, 2, Len(waiting))
    <3>1. /\ w \in Seq(Requests) /\ Len(w) = Len(waiting) - 1
          /\ \A i \in 1..(Len(waiting) - 1) : w[i] = waiting[i + 1]
      BY <1>1, <2>1, DropFirstProperties
    <3>2. waiting' = w
      BY <2>4
    <3> HIDE DEF w
    <3> QED BY <3>1, <3>2
  <2>10. TypeOK'
    BY <1>1, <1>5, <2>4, <2>5, <2>9 DEF TypeOK, States
  <2>11. SlotsCounted' /\ active' <= MaxConcurrency /\ NoIdleSlot'
    BY <1>1, <2>1, <2>4, <2>8 DEF SlotsCounted, NoIdleSlot
  <2>12. LineIsTheWaiting'
    <3>1. ASSUME NEW q \in Requests
          PROVE  state'[q] = "waiting" <=> \E i \in 1..Len(waiting') : waiting'[i] = q
      <4>1. state'[q] = "waiting" <=> state[q] = "waiting" /\ q # h
        BY <2>5, <2>6
      <4>2. state[q] = "waiting" <=> \E j \in 1..Len(waiting) : waiting[j] = q
        BY DEF IInv, LineIsTheWaiting
      <4>3. ASSUME NEW j \in 1..Len(waiting), waiting[j] = q, q # h
            PROVE  \E i \in 1..Len(waiting') : waiting'[i] = q
        <5>1. j - 1 \in 1..Len(waiting') /\ (j - 1) + 1 = j
          BY <4>3, <1>1, <2>9
        <5> QED BY <4>3, <5>1, <2>9
      <4>4. ASSUME NEW i \in 1..Len(waiting'), waiting'[i] = q
            PROVE  q # h /\ \E j \in 1..Len(waiting) : waiting[j] = q
        <5>1. i + 1 \in 1..Len(waiting) /\ i + 1 # 1 /\ waiting[i + 1] = q /\ 1 \in 1..Len(waiting)
          BY <4>4, <1>1, <2>1, <2>9
        <5> QED BY <5>1 DEF IInv, LineIsTheWaiting
      <4> QED BY <4>1, <4>2, <4>3, <4>4
    <3>2. ASSUME NEW i \in 1..Len(waiting'), NEW j \in 1..Len(waiting'), waiting'[i] = waiting'[j]
          PROVE  i = j
      <4>1. /\ i + 1 \in 1..Len(waiting) /\ j + 1 \in 1..Len(waiting)
            /\ waiting[i + 1] = waiting[j + 1]
        BY <3>2, <1>1, <2>9
      <4>2. i + 1 = j + 1
        BY <4>1, Zenon DEF IInv, LineIsTheWaiting
      <4>3. i \in Int /\ j \in Int
        BY <3>2
      <4> QED BY <4>2, <4>3
    <3> QED BY <3>1, <3>2 DEF LineIsTheWaiting
  <2>13. LineSorted'
    BY <1>1, <1>5, <2>9 DEF IInv, LineSorted
  <2>14. NoGhosts'
    BY <1>5, <2>5 DEF IInv, NoGhosts
  <2> QED BY <2>10, <2>11, <2>12, <2>13, <2>14 DEF IInv
<1> QED BY <1>6, <1>7

(* Every step of the limiter preserves the invariant. *)
LEMMA StepKeepsIInv ==
  ASSUME IInv, [Next]_vars
  PROVE  IInv'
<1>1. CASE UNCHANGED vars
  BY <1>1 DEF vars, IInv, TypeOK, SlotsCounted, Holders, NoIdleSlot, LineIsTheWaiting, LineSorted, NoGhosts
<1>2. ASSUME NEW r \in Requests, NEW p \in Priorities, Acquire(r, p)
      PROVE  IInv'
  <2>1. CASE TakeSlot(r)
    <3>1. /\ active' = active + 1 /\ waiting = <<>> /\ waiting' = <<>>
          /\ state' = [state EXCEPT ![r] = "held"] /\ aborted' = aborted
          /\ priority' = [priority EXCEPT ![r] = p] /\ active < MaxConcurrency
          /\ r \notin Holders
      BY <1>2, <2>1 DEF Acquire, TakeSlot, Holders
    <3>2. /\ active \in Nat /\ MaxConcurrency \in Nat /\ MaxQueue \in Nat /\ TypeOK
          /\ IsFiniteSet(Holders) /\ active = Cardinality(Holders)
      BY LimiterAssumption DEF IInv, TypeOK, SlotsCounted
    <3>3. Holders' = Holders \cup {r}
      BY <3>1, <3>2 DEF Holders, TypeOK
    <3>4. SlotsCounted'
      BY <3>1, <3>2, <3>3, FS_AddElement DEF SlotsCounted
    <3>5. TypeOK' /\ active' <= MaxConcurrency /\ NoIdleSlot'
      BY <3>1, <3>2 DEF TypeOK, States, NoIdleSlot
    <3>6. LineIsTheWaiting' /\ LineSorted' /\ NoGhosts'
      BY <3>1, <3>2 DEF IInv, TypeOK, LineIsTheWaiting, LineSorted, NoGhosts
    <3> QED BY <3>4, <3>5, <3>6 DEF IInv
  <2>2. CASE JoinLine(r, p)
    BY <1>2, <2>2, JoiningTheLine DEF Acquire, JoinLine
  <2>3. CASE RefuseFull(r) \/ RefuseAborted(r)
    <3>1. PICK s \in States \ {"waiting", "held"} : state' = [state EXCEPT ![r] = s]
      BY <2>3 DEF RefuseFull, RefuseAborted, States
    <3>2. /\ active' = active /\ waiting' = waiting /\ aborted' = aborted
          /\ priority' = [priority EXCEPT ![r] = p] /\ state[r] \notin {"waiting", "held"}
      BY <1>2, <2>3 DEF Acquire, RefuseFull, RefuseAborted
    <3> QED BY <1>2, <3>1, <3>2, OffTheLine
  <2> QED BY <1>2, <2>1, <2>2, <2>3 DEF Acquire
<1>3. ASSUME NEW r \in Requests, Release(r)
      PROVE  IInv'
  <2>1. CASE state[r] = "held"
    BY <1>3, <2>1, FreeingASlot DEF Release
  <2>2. CASE state[r] # "held"
    BY <1>1, <1>3, <2>2 DEF Release
  <2> QED BY <2>1, <2>2
<1>4. ASSUME NEW r \in Requests, TimeOut(r)
      PROVE  IInv'
  <2>1. /\ state[r] = "waiting" /\ waiting' = Without(r) /\ active' = active
        /\ aborted' = aborted /\ priority' = priority
        /\ state' = [state EXCEPT ![r] = "queue_timeout"]
    BY <1>4 DEF TimeOut
  <2> QED BY <2>1, GivingUp DEF States
<1>5. ASSUME NEW r \in Requests, Abort(r)
      PROVE  IInv'
  <2>1. active' = active /\ priority' = priority /\ aborted' = [aborted EXCEPT ![r] = TRUE]
    BY <1>5 DEF Abort
  <2>2. CASE state[r] = "waiting"
    <3>1. waiting' = Without(r) /\ state' = [state EXCEPT ![r] = "client_abort"]
      BY <1>5, <2>2 DEF Abort
    <3> QED BY <2>1, <2>2, <3>1, GivingUp DEF States
  <2>3. CASE state[r] # "waiting"
    <3>1. waiting' = waiting /\ state' = state
      BY <1>5, <2>3 DEF Abort
    <3> QED BY <2>1, <2>3, <3>1 DEF IInv, TypeOK, SlotsCounted, Holders, NoIdleSlot,
                                    LineIsTheWaiting, LineSorted, NoGhosts
  <2> QED BY <2>2, <2>3
<1>6. ASSUME NEW r \in Requests, NewRequest(r)
      PROVE  IInv'
  <2>1. /\ state[r] \notin {"waiting", "held"} /\ state' = [state EXCEPT ![r] = "idle"]
        /\ aborted' = [aborted EXCEPT ![r] = FALSE] /\ active' = active
        /\ waiting' = waiting /\ priority' = priority
    BY <1>6 DEF NewRequest
  <2>2. TypeOK'
    BY <2>1 DEF IInv, TypeOK, States
  <2>3. Holders' = Holders
    BY <2>1 DEF IInv, TypeOK, Holders
  <2>4. SlotsCounted' /\ active' <= MaxConcurrency /\ NoIdleSlot' /\ LineSorted'
    BY <2>1, <2>3 DEF IInv, SlotsCounted, NoIdleSlot, LineSorted
  <2>5. LineIsTheWaiting' /\ NoGhosts'
    BY <2>1 DEF IInv, TypeOK, LineIsTheWaiting, NoGhosts
  <2> QED BY <2>2, <2>4, <2>5 DEF IInv
<1> QED BY <1>1, <1>2, <1>3, <1>4, <1>5, <1>6 DEF Next

(* The limiter starts in a state that satisfies the invariant. *)
LEMMA InitHasIInv == Init => IInv
<1> SUFFICES ASSUME Init PROVE IInv
  OBVIOUS
<1>1. Holders = {} /\ IsFiniteSet(Holders) /\ Cardinality(Holders) = 0
  BY FS_EmptySet DEF Init, Holders
<1>2. TypeOK /\ Len(waiting) = 0
  BY DEF Init, TypeOK, States
<1>3. SlotsCounted /\ active <= MaxConcurrency /\ NoIdleSlot
  BY <1>1, LimiterAssumption DEF Init, SlotsCounted, NoIdleSlot
<1>4. LineIsTheWaiting /\ LineSorted /\ NoGhosts
  BY <1>2, LimiterAssumption DEF Init, LineIsTheWaiting, LineSorted, NoGhosts
<1> QED BY <1>2, <1>3, <1>4 DEF IInv

(* The bookkeeping of the limiter (queue.ts:20-121) is right in every      *)
(* reachable state: the counter counts the holders, the line holds exactly *)
(* the waiting requests, each once, sorted and within its limit.           *)
THEOREM LimiterInvariant == Spec => []IInv
<1> QED BY InitHasIInv, StepKeepsIInv, PTL DEF Spec

(* Every variable keeps its type. *)
THEOREM TypeCorrect == Spec => []TypeOK
<1>1. IInv => TypeOK
  BY DEF IInv
<1> QED BY <1>1, LimiterInvariant, PTL

(* A provider never has more than max_concurrency requests in a slot, for  *)
(* any number of requests and any limit.                                   *)
THEOREM NeverOverLimit == Spec => []WithinLimit
<1>1. IInv => WithinLimit
  BY DEF IInv, SlotsCounted, WithinLimit
<1> QED BY <1>1, LimiterInvariant, PTL

(* Nobody ever waits while a slot is free. *)
THEOREM NeverIdleSlot == Spec => []NoIdleSlot
<1>1. IInv => NoIdleSlot
  BY DEF IInv
<1> QED BY <1>1, LimiterInvariant, PTL

-----------------------------------------------------------------------------
(* The order of arrival, and the implementation of FairSlots.              *)

(* Requests of one priority stand in the line w as they stand in a. *)
SameOrder(w, a, prio) ==
  \A q, r : StandsBefore(w, q, r) /\ prio[q] = prio[r] => StandsBefore(a, q, r)

LEMMA OrderByPlaces ==
  ASSUME NEW w, NEW a, NEW prio, Len(w) \in Nat, Len(a) = Len(w), NoRepeats(a),
         \A q : Stands(w, q) => Stands(a, q)
  PROVE  SameOrder(w, a, prio) <=>
           \A i, j, k, l \in 1..Len(w) :
             /\ i < j /\ prio[w[i]] = prio[w[j]]
             /\ a[k] = w[i] /\ a[l] = w[j]
             => k < l
<1>1. ASSUME SameOrder(w, a, prio),
             NEW i \in 1..Len(w), NEW j \in 1..Len(w), NEW k \in 1..Len(w), NEW l \in 1..Len(w),
             i < j, prio[w[i]] = prio[w[j]], a[k] = w[i], a[l] = w[j]
      PROVE  k < l
  <2>1. StandsBefore(a, w[i], w[j])
    BY <1>1 DEF SameOrder, StandsBefore
  <2>2. PICK x \in 1..Len(a), y \in 1..Len(a) : x < y /\ a[x] = w[i] /\ a[y] = w[j]
    BY <2>1 DEF StandsBefore
  <2> QED BY <1>1, <2>2 DEF NoRepeats
<1>2. ASSUME \A i, j, k, l \in 1..Len(w) :
               /\ i < j /\ prio[w[i]] = prio[w[j]]
               /\ a[k] = w[i] /\ a[l] = w[j]
               => k < l,
             NEW q, NEW r, StandsBefore(w, q, r), prio[q] = prio[r]
      PROVE  StandsBefore(a, q, r)
  <2>1. PICK i \in 1..Len(w), j \in 1..Len(w) : i < j /\ w[i] = q /\ w[j] = r
    BY <1>2 DEF StandsBefore
  <2>2. Stands(a, q) /\ Stands(a, r)
    BY <2>1 DEF Stands
  <2>3. PICK k \in 1..Len(a), l \in 1..Len(a) : a[k] = q /\ a[l] = r
    BY <2>2 DEF Stands
  <2> QED BY <1>2, <2>1, <2>3 DEF StandsBefore
<1> QED BY <1>1, <1>2 DEF SameOrder

(* What the invariant says in these words, of the state before a step ...  *)
LEMMA ArrivalsNow ==
  ASSUME FairInv
  PROVE  /\ waiting \in Seq(Requests) /\ Len(waiting) \in Nat
         /\ NoRepeats(waiting) /\ \A r \in Requests : state[r] = "waiting" <=> Stands(waiting, r)
         /\ arrivals \in Seq(Requests) /\ Len(arrivals) = Len(waiting)
         /\ NoRepeats(arrivals) /\ \A r \in Requests : state[r] = "waiting" <=> Stands(arrivals, r)
         /\ \A r : Stands(waiting, r) \/ Stands(arrivals, r) => r \in Requests
         /\ SameOrder(waiting, arrivals, priority)
<1>1. /\ waiting \in Seq(Requests) /\ Len(waiting) \in Nat
      /\ arrivals \in Seq(Requests) /\ Len(arrivals) = Len(waiting)
  BY DEF FairInv, IInv, TypeOK, ArrivalsInv
<1>2. /\ NoRepeats(waiting) /\ \A r \in Requests : state[r] = "waiting" <=> Stands(waiting, r)
  BY DEF FairInv, IInv, LineIsTheWaiting, NoRepeats, Stands
<1>3. /\ NoRepeats(arrivals) /\ \A r \in Requests : state[r] = "waiting" <=> Stands(arrivals, r)
  BY DEF FairInv, ArrivalsInv, NoRepeats, Stands
<1>4. \A r : Stands(waiting, r) \/ Stands(arrivals, r) => r \in Requests
  BY <1>1, ElementOfSeq DEF Stands
<1>5. \A r : Stands(waiting, r) => Stands(arrivals, r)
  BY <1>2, <1>3, <1>4
<1>6. SameOrder(waiting, arrivals, priority)
  BY <1>1, <1>3, <1>5, OrderByPlaces DEF FairInv, ArrivalsInv
<1> QED BY <1>1, <1>2, <1>3, <1>4, <1>6

(* ... and of the state after it.                                          *)
LEMMA ArrivalsThen ==
  ASSUME IInv', arrivals' \in Seq(Requests), Len(arrivals') = Len(waiting'), NoRepeats(arrivals'),
         \A r \in Requests : state'[r] = "waiting" <=> Stands(arrivals', r),
         SameOrder(waiting', arrivals', priority')
  PROVE  ArrivalsInv'
<1> DEFINE w == waiting'
           a == arrivals'
           prio == priority'
<1>1. w \in Seq(Requests) /\ Len(w) \in Nat
  BY DEF IInv, TypeOK
<1>2. \A r \in Requests : state'[r] = "waiting" <=> Stands(w, r)
  BY DEF IInv, LineIsTheWaiting, Stands
<1>3. \A r : Stands(w, r) => Stands(a, r)
  BY <1>1, <1>2, ElementOfSeq DEF Stands
<1>4. /\ Len(a) = Len(w) /\ NoRepeats(a) /\ SameOrder(w, a, prio)
  OBVIOUS
<1> HIDE DEF w, a, prio
<1>5. \A i, j, k, l \in 1..Len(w) :
        /\ i < j /\ prio[w[i]] = prio[w[j]]
        /\ a[k] = w[i] /\ a[l] = w[j]
        => k < l
  BY <1>1, <1>3, <1>4, OrderByPlaces
<1> QED BY <1>5 DEF ArrivalsInv, NoRepeats, Stands, w, a, prio

LEMMA PairedProperties ==
  ASSUME NEW a \in Seq(Requests), NEW prio \in [Requests -> Priorities]
  PROVE  /\ Paired(a, prio) \in Seq(Requests \X Priorities)
         /\ Len(Paired(a, prio)) = Len(a) /\ DOMAIN Paired(a, prio) = 1..Len(a)
         /\ \A i \in 1..Len(a) : Paired(a, prio)[i] = <<a[i], prio[a[i]]>>
         /\ Paired(a, prio) = <<>> <=> a = <<>>
<1>1. DOMAIN a = 1..Len(a) /\ Len(a) \in Nat /\ \A i \in 1..Len(a) : a[i] \in Requests
  BY ElementOfSeq
<1>2. Paired(a, prio) = [i \in 1..Len(a) |-> <<a[i], prio[a[i]]>>]
  BY <1>1 DEF Paired
<1>3. Paired(a, prio) \in [1..Len(a) -> Requests \X Priorities]
  BY <1>1, <1>2
<1>4. Paired(a, prio) \in Seq(Requests \X Priorities) /\ Len(Paired(a, prio)) = Len(a)
  BY <1>1, <1>3
<1>5. Paired(a, prio) = <<>> <=> a = <<>>
  BY <1>1, <1>4, EmptySeq
<1> QED BY <1>1, <1>2, <1>4, <1>5

(* Nobody joins or leaves, and no waiter's priority changes. *)
LEMMA LineStays ==
  ASSUME FairInv, IInv', ArrivalsFollow, waiting' = waiting,
         \A r \in Requests : state'[r] = "waiting" <=> state[r] = "waiting",
         \A r \in Requests : state[r] = "waiting" => priority'[r] = priority[r]
  PROVE  ArrivalsInv' /\ Paired(arrivals, priority)' = Paired(arrivals, priority)
<1>1. Came = {}
  BY DEF Came
<1>2. \A i \in 1..Len(arrivals) : arrivals[i] \in Requests /\ state[arrivals[i]] = "waiting"
  BY ArrivalsNow, ElementOfSeq DEF Stands
<1>3. DOMAIN arrivals = 1..Len(arrivals)
  BY ArrivalsNow
<1>4. Gone = {}
  BY <1>2, <1>3 DEF Gone
<1>5. arrivals' = arrivals
  BY <1>1, <1>4 DEF ArrivalsFollow
<1>6. \A q : Stands(waiting, q) => priority'[q] = priority[q]
  BY ArrivalsNow
<1>7. SameOrder(waiting, arrivals, priority')
  <2>1. \A q, r : StandsBefore(waiting, q, r) => Stands(waiting, q) /\ Stands(waiting, r)
    BY DEF StandsBefore, Stands
  <2> QED BY <1>6, <2>1, ArrivalsNow DEF SameOrder
<1>8. ArrivalsInv'
  BY <1>5, <1>7, ArrivalsNow, ArrivalsThen
<1>9. Paired(arrivals, priority)' = Paired(arrivals, priority)
  BY <1>2, <1>3, <1>5 DEF Paired
<1> QED BY <1>8, <1>9

(* A newcomer takes place n of the line. *)
LEMMA LineGrows ==
  ASSUME FairInv, IInv', ArrivalsFollow,
         NEW r \in Requests, NEW p \in Priorities, NEW n \in 1..(Len(waiting) + 1),
         state[r] # "waiting",
         \A q \in Requests : state'[q] = "waiting" <=> state[q] = "waiting" \/ q = r,
         priority' = [priority EXCEPT ![r] = p],
         Len(waiting') = Len(waiting) + 1, waiting'[n] = r,
         \A i \in 1..(n - 1) : waiting'[i] = waiting[i],
         \A i \in (n + 1)..(Len(waiting) + 1) : waiting'[i] = waiting[i - 1],
         \A i \in n..Len(waiting) : priority[waiting[i]] # p
  PROVE  ArrivalsInv' /\ Paired(arrivals, priority)' = Append(Paired(arrivals, priority), <<r, p>>)
<1> DEFINE w == waiting'
           a == arrivals'
           prio == priority'
<1>1. /\ priority \in [Requests -> Priorities] /\ prio \in [Requests -> Priorities]
      /\ prio[r] = p /\ \A q \in Requests \ {r} : prio[q] = priority[q]
      /\ w \in Seq(Requests)
  BY DEF FairInv, IInv, TypeOK
<1>2. Came = {r}
  BY DEF Came
<1>3. a = Append(arrivals, r)
  BY <1>2 DEF ArrivalsFollow
<1>4. ~Stands(waiting, r) /\ ~Stands(arrivals, r)
  BY ArrivalsNow
<1>5. /\ Len(w) = Len(waiting) + 1 /\ w[n] = r
      /\ \A i \in 1..(n - 1) : w[i] = waiting[i]
      /\ \A i \in (n + 1)..(Len(waiting) + 1) : w[i] = waiting[i - 1]
  OBVIOUS
<1>6. \A q \in Requests : state'[q] = "waiting" <=> state[q] = "waiting" \/ q = r
  OBVIOUS
<1> HIDE DEF w, a, prio
<1>7. /\ a \in Seq(Requests) /\ Len(a) = Len(arrivals) + 1 /\ a[Len(arrivals) + 1] = r
      /\ \A i \in 1..Len(arrivals) : a[i] = arrivals[i]
  BY <1>3, ArrivalsNow, AppendProperties
<1>8. /\ NoRepeats(a)
      /\ \A q : Stands(a, q) <=> Stands(arrivals, q) \/ q = r
      /\ \A q, s : q # r /\ s # r => (StandsBefore(a, q, s) <=> StandsBefore(arrivals, q, s))
      /\ \A q : StandsBefore(a, q, r) <=> \E i \in 1..Len(arrivals) : arrivals[i] = q
  <2> DEFINE m == Len(arrivals) + 1
  <2>1. /\ m \in 1..(Len(arrivals) + 1) /\ m - 1 = Len(arrivals) /\ a[m] = r
        /\ \A i \in 1..(m - 1) : a[i] = arrivals[i]
        /\ \A i \in (m + 1)..(Len(arrivals) + 1) : a[i] = arrivals[i - 1]
        /\ a \in Seq(Requests) /\ Len(a) = Len(arrivals) + 1
    BY <1>7, ArrivalsNow
  <2>3. arrivals \in Seq(Requests) /\ NoRepeats(arrivals) /\ ~Stands(arrivals, r) /\ r \in Requests
    BY <1>4, ArrivalsNow
  <2> HIDE DEF m
  <2>2. /\ NoRepeats(a)
        /\ \A q : Stands(a, q) <=> Stands(arrivals, q) \/ q = r
        /\ \A q, s : q # r /\ s # r => (StandsBefore(a, q, s) <=> StandsBefore(arrivals, q, s))
        /\ \A q : StandsBefore(a, q, r) <=> \E i \in 1..(m - 1) : arrivals[i] = q
    BY <2>1, <2>3, LineWithOneMore
  <2> QED BY <2>1, <2>2
<1>9. /\ \A q, s : q # r /\ s # r => (StandsBefore(w, q, s) <=> StandsBefore(waiting, q, s))
      /\ \A q : StandsBefore(w, q, r) <=> \E i \in 1..(n - 1) : waiting[i] = q
      /\ \A q : StandsBefore(w, r, q) <=> \E i \in n..Len(waiting) : waiting[i] = q
  <2>1. waiting \in Seq(Requests) /\ NoRepeats(waiting) /\ ~Stands(waiting, r) /\ r \in Requests
    BY <1>4, ArrivalsNow
  <2>2. w \in Seq(Requests)
    BY <1>1
  <2> QED BY <1>5, <2>1, <2>2, LineWithOneMore
<1>10. SameOrder(w, a, prio)
  <2> SUFFICES ASSUME NEW q, NEW s, StandsBefore(w, q, s), prio[q] = prio[s]
               PROVE  StandsBefore(a, q, s)
    BY DEF SameOrder
  <2>1. CASE q # r /\ s # r
    <3>1. StandsBefore(waiting, q, s)
      BY <1>9, <2>1
    <3>2. q \in Requests /\ s \in Requests
      BY <3>1, ArrivalsNow DEF StandsBefore, Stands
    <3>3. priority[q] = priority[s]
      BY <1>1, <2>1, <3>2
    <3> QED BY <1>8, <2>1, <3>1, <3>3, ArrivalsNow DEF SameOrder
  <2>2. CASE s = r
    <3>1. \E i \in 1..(n - 1) : waiting[i] = q
      BY <1>9, <2>2
    <3>2. Stands(waiting, q)
      BY <3>1, ArrivalsNow DEF Stands
    <3>3. Stands(arrivals, q)
      BY <3>2, ArrivalsNow
    <3> QED BY <1>8, <2>2, <3>3 DEF Stands
  <2>3. CASE q = r /\ s # r
    <3>1. PICK i \in n..Len(waiting) : waiting[i] = s
      BY <1>9, <2>3
    <3>2. s \in Requests
      BY <3>1, ArrivalsNow DEF Stands
    <3>3. prio[s] = priority[s] /\ priority[s] # p
      BY <1>1, <2>3, <3>1, <3>2
    <3> QED BY <1>1, <2>3, <3>3
  <2> QED BY <2>1, <2>2, <2>3
<1>11. \A q \in Requests : state'[q] = "waiting" <=> Stands(a, q)
  BY <1>6, <1>8, ArrivalsNow
<1>12. ArrivalsInv'
  <2>1. Len(a) = Len(w)
    BY <1>5, <1>7, ArrivalsNow
  <2> QED BY <1>7, <1>8, <1>10, <1>11, <2>1, ArrivalsThen DEF w, a, prio
<1>13. Paired(a, prio) = Append(Paired(arrivals, priority), <<r, p>>)
  <2> DEFINE x == Paired(a, prio)
             y == Paired(arrivals, priority)
             z == Append(y, <<r, p>>)
  <2>1. /\ x \in Seq(Requests \X Priorities) /\ Len(x) = Len(a)
        /\ \A i \in 1..Len(a) : x[i] = <<a[i], prio[a[i]]>>
    BY <1>1, <1>7, PairedProperties
  <2>2. /\ y \in Seq(Requests \X Priorities) /\ Len(y) = Len(arrivals)
        /\ \A i \in 1..Len(arrivals) : y[i] = <<arrivals[i], priority[arrivals[i]]>>
    BY <1>1, ArrivalsNow, PairedProperties
  <2> HIDE DEF x, y
  <2>3. /\ z \in Seq(Requests \X Priorities) /\ Len(z) = Len(y) + 1 /\ z[Len(y) + 1] = <<r, p>>
        /\ \A i \in 1..Len(y) : z[i] = y[i]
    BY <2>2, AppendProperties
  <2> HIDE DEF z
  <2>4. ASSUME NEW i \in 1..Len(x)
        PROVE  x[i] = z[i]
    <3>1. CASE i \in 1..Len(arrivals)
      <4>1. arrivals[i] \in Requests /\ arrivals[i] # r
        BY <1>4, <3>1, ArrivalsNow, ElementOfSeq DEF Stands
      <4>2. prio[arrivals[i]] = priority[arrivals[i]] /\ a[i] = arrivals[i]
        BY <1>1, <1>7, <3>1, <4>1
      <4>3. i \in 1..Len(a) /\ i \in 1..Len(y)
        BY <2>1, <2>2, <3>1
      <4>4. x[i] = <<a[i], prio[a[i]]>> /\ z[i] = <<arrivals[i], priority[arrivals[i]]>>
        BY <2>1, <2>2, <2>3, <3>1, <4>3
      <4> QED BY <4>2, <4>4
    <3>2. CASE i \notin 1..Len(arrivals)
      <4>1. i = Len(arrivals) + 1 /\ Len(arrivals) \in Nat
        BY <1>7, <2>1, <3>2, ArrivalsNow
      <4>2. x[i] = <<a[i], prio[a[i]]>> /\ a[i] = r /\ z[i] = <<r, p>>
        BY <1>7, <2>1, <2>2, <2>3, <4>1
      <4> QED BY <1>1, <4>2
    <3> QED BY <3>1, <3>2
  <2>5. Len(x) = Len(z)
    BY <1>7, <2>1, <2>2, <2>3
  <2>6. x = z
    BY <2>1, <2>3, <2>4, <2>5, SeqEqual
  <2> QED BY <2>6 DEF x, z, y
<1> QED BY <1>12, <1>13 DEF a, prio

(* The waiter in place k leaves the line. *)
LEMMA LineShrinks ==
  ASSUME FairInv, IInv', ArrivalsFollow,
         NEW k \in 1..Len(waiting),
         \A q \in Requests : state'[q] = "waiting" <=> state[q] = "waiting" /\ q # waiting[k],
         priority' = priority,
         Len(waiting') = Len(waiting) - 1,
         \A i \in 1..(Len(waiting) - 1) : waiting'[i] = IF i < k THEN waiting[i] ELSE waiting[i + 1]
  PROVE  /\ ArrivalsInv'
         /\ \E m \in 1..Len(arrivals) :
              /\ arrivals[m] = waiting[k]
              /\ Paired(arrivals, priority)' = RemoveAt(Paired(arrivals, priority), m)
<1> DEFINE w == waiting'
           a == arrivals'
           prio == priority'
           r == waiting[k]
<1>1. /\ w \in Seq(Requests) /\ prio = priority /\ priority \in [Requests -> Priorities]
      /\ \A i \in 1..(Len(waiting) - 1) : w[i] = IF i < k THEN waiting[i] ELSE waiting[i + 1]
      /\ Len(w) = Len(waiting) - 1
  BY DEF FairInv, IInv, TypeOK
<1>2. r \in Requests /\ state[r] = "waiting"
  BY ArrivalsNow, ElementOfSeq DEF Stands
<1>3. Came = {}
  BY DEF Came
<1>4. DOMAIN arrivals = 1..Len(arrivals)
  BY ArrivalsNow
<1>5. PICK m \in 1..Len(arrivals) : arrivals[m] = r
  BY <1>2, ArrivalsNow DEF Stands
<1>6. Gone = {m}
  <2>1. ASSUME NEW i \in 1..Len(arrivals)
        PROVE  state'[arrivals[i]] # "waiting" <=> i = m
    <3>1. arrivals[i] \in Requests /\ state[arrivals[i]] = "waiting"
      BY ArrivalsNow, ElementOfSeq DEF Stands
    <3>2. state'[arrivals[i]] = "waiting" <=> arrivals[i] # r
      BY <3>1
    <3>3. arrivals[i] = arrivals[m] <=> i = m
      BY ArrivalsNow DEF NoRepeats
    <3> QED BY <1>5, <3>2, <3>3
  <2> QED BY <1>4, <2>1 DEF Gone
<1>7. a = RemoveAt(arrivals, m)
  BY <1>3, <1>6 DEF ArrivalsFollow
<1>8. \A q \in Requests : state'[q] = "waiting" <=> state[q] = "waiting" /\ q # r
  OBVIOUS
<1>9. NoRepeats(waiting) /\ waiting \in Seq(Requests) /\ NoRepeats(arrivals) /\ arrivals \in Seq(Requests)
  BY ArrivalsNow
<1> HIDE DEF w, a, prio, r
<1>10. /\ a \in Seq(Requests) /\ Len(a) = Len(arrivals) - 1
       /\ \A i \in 1..(Len(arrivals) - 1) : a[i] = IF i < m THEN arrivals[i] ELSE arrivals[i + 1]
  BY <1>7, <1>9, RemoveAtProperties
<1>11. /\ NoRepeats(a)
       /\ \A q : Stands(a, q) <=> Stands(arrivals, q) /\ q # r
       /\ \A q, s : StandsBefore(a, q, s) <=> StandsBefore(arrivals, q, s) /\ q # r /\ s # r
  <2>1. \A q : Stands(a, q) <=> Stands(arrivals, q) /\ q # arrivals[m]
    BY <1>9, <1>10, LineWithoutOne
  <2>2. \A q, s : StandsBefore(a, q, s) <=> StandsBefore(arrivals, q, s) /\ q # arrivals[m] /\ s # arrivals[m]
    BY <1>9, <1>10, LineWithoutOne
  <2>3. NoRepeats(a)
    BY <1>9, <1>10, LineWithoutOne
  <2> QED BY <1>5, <2>1, <2>2, <2>3
<1>12. \A q, s : StandsBefore(w, q, s) <=> StandsBefore(waiting, q, s) /\ q # r /\ s # r
  BY <1>1, <1>9, LineWithoutOne DEF r
<1>13. SameOrder(w, a, prio)
  BY <1>1, <1>11, <1>12, ArrivalsNow DEF SameOrder
<1>14. ArrivalsInv'
  <2>1. Len(a) = Len(w)
    BY <1>1, <1>10, ArrivalsNow
  <2>2. \A q \in Requests : state'[q] = "waiting" <=> Stands(a, q)
    BY <1>8, <1>11, ArrivalsNow
  <2> QED BY <1>10, <1>11, <1>13, <2>1, <2>2, ArrivalsThen DEF w, a, prio
<1>15. Paired(a, prio) = RemoveAt(Paired(arrivals, priority), m)
  <2> DEFINE x == Paired(a, prio)
             y == Paired(arrivals, priority)
             z == RemoveAt(y, m)
  <2>1. /\ x \in Seq(Requests \X Priorities) /\ Len(x) = Len(a)
        /\ \A i \in 1..Len(a) : x[i] = <<a[i], priority[a[i]]>>
    BY <1>1, <1>10, PairedProperties
  <2>2. /\ y \in Seq(Requests \X Priorities) /\ Len(y) = Len(arrivals)
        /\ \A i \in 1..Len(arrivals) : y[i] = <<arrivals[i], priority[arrivals[i]]>>
    BY <1>1, <1>9, PairedProperties
  <2> HIDE DEF x, y
  <2>3. /\ z \in Seq(Requests \X Priorities) /\ Len(z) = Len(y) - 1
        /\ \A i \in 1..(Len(y) - 1) : z[i] = IF i < m THEN y[i] ELSE y[i + 1]
    <3>1. m \in 1..Len(y)
      BY <2>2
    <3> QED BY <2>2, <3>1, RemoveAtProperties
  <2> HIDE DEF z
  <2>4. ASSUME NEW i \in 1..Len(x)
        PROVE  x[i] = z[i]
    <3>1. /\ i \in 1..(Len(arrivals) - 1) /\ i \in 1..Len(arrivals) /\ i + 1 \in 1..Len(arrivals)
      BY <1>10, <2>1, ArrivalsNow
    <3>2. CASE i < m
      <4>1. x[i] = <<arrivals[i], priority[arrivals[i]]>>
        BY <1>10, <2>1, <3>1, <3>2
      <4>2. z[i] = y[i]
        BY <2>2, <2>3, <3>1, <3>2
      <4>3. y[i] = <<arrivals[i], priority[arrivals[i]]>>
        BY <2>2, <3>1
      <4> QED BY <4>1, <4>2, <4>3
    <3>3. CASE ~(i < m)
      <4>1. x[i] = <<arrivals[i + 1], priority[arrivals[i + 1]]>>
        BY <1>10, <2>1, <3>1, <3>3
      <4>2. z[i] = y[i + 1]
        BY <2>2, <2>3, <3>1, <3>3
      <4>3. y[i + 1] = <<arrivals[i + 1], priority[arrivals[i + 1]]>>
        BY <2>2, <3>1
      <4> QED BY <4>1, <4>2, <4>3
    <3> QED BY <3>2, <3>3
  <2>5. Len(x) = Len(z)
    BY <1>10, <2>1, <2>2, <2>3
  <2>6. x = z
    BY <2>1, <2>3, <2>4, <2>5, SeqEqual
  <2> QED BY <2>6 DEF x, z, y
<1> QED BY <1>5, <1>14, <1>15 DEF a, prio, r

(* What FairSlots sees of the holders and of its line. *)
LEMMA HoldersCounted ==
  ASSUME FairInv
  PROVE  /\ Fair!Cardinality(Holders) = active /\ active \in Nat /\ MaxConcurrency \in Nat \ {0}
         /\ active <= MaxConcurrency
         /\ Len(waiting) \in Nat /\ MaxQueue \in Nat
         /\ waiting # <<>> => active = MaxConcurrency
         /\ waiting = <<>> <=> Paired(arrivals, priority) = <<>>
         /\ Len(Paired(arrivals, priority)) = Len(waiting)
         /\ \A r \in Requests : Fair!InLine(r) <=> state[r] = "waiting"
<1>1. priority \in [Requests -> Priorities]
  BY DEF FairInv, IInv, TypeOK
<1>2. /\ Len(Paired(arrivals, priority)) = Len(waiting)
      /\ DOMAIN Paired(arrivals, priority) = 1..Len(arrivals)
      /\ \A i \in 1..Len(arrivals) : Paired(arrivals, priority)[i] = <<arrivals[i], priority[arrivals[i]]>>
      /\ Paired(arrivals, priority) = <<>> <=> arrivals = <<>>
  BY <1>1, ArrivalsNow, PairedProperties
<1>3. waiting = <<>> <=> arrivals = <<>>
  BY ArrivalsNow, EmptySeq
<1>4. \A r \in Requests : Fair!InLine(r) <=> state[r] = "waiting"
  <2>1. \A i \in DOMAIN Paired(arrivals, priority) :
          i \in 1..Len(arrivals) /\ Paired(arrivals, priority)[i][1] = arrivals[i]
    BY <1>2
  <2>2. \A r \in Requests : Fair!InLine(r) <=> \E i \in 1..Len(arrivals) : arrivals[i] = r
    BY <1>2, <2>1 DEF Fair!InLine
  <2> QED BY <2>2, ArrivalsNow DEF Stands
<1>5. Fair!Cardinality(Holders) = Cardinality(Holders)
  BY DEF Fair!Cardinality, Cardinality
<1> QED BY <1>2, <1>3, <1>4, <1>5, LimiterAssumption DEF FairInv, IInv, TypeOK, SlotsCounted, NoIdleSlot

(* A slot that becomes free goes to the next in line, as FairSlots has it. *)
LEMMA FreedSlotGoesToNext ==
  ASSUME FairInv, IInv', ArrivalsFollow, NEW r \in Requests, state[r] = "held", FreeSlot(r)
  PROVE  ArrivalsInv' /\ Fair!Finish(r)
<1> DEFINE next == Served(MaxConcurrency - (active - 1))
           line == Paired(arrivals, priority)
<1>1. /\ waiting \in Seq(Requests) /\ Len(waiting) \in Nat
      /\ active \in Nat /\ MaxConcurrency \in Nat \ {0} /\ active <= MaxConcurrency
      /\ priority' = priority /\ priority \in [Requests -> Priorities]
      /\ r \in Holders
  BY HoldersCounted DEF FairInv, IInv, TypeOK, FreeSlot, Holders
<1>2. CASE waiting = <<>>
  <2>1. next = <<>> /\ Len(next) = 0
    BY <1>2, <1>1 DEF Served
  <2>2. waiting' = waiting
    BY <1>2, <2>1 DEF FreeSlot
  <2>3. state' = [q \in Requests |-> IF q = r THEN "released" ELSE state[q]]
    BY <2>1 DEF FreeSlot
  <2>4. Holders' = Holders \ {r}
    BY <2>3 DEF Holders
  <2>5. ArrivalsInv' /\ line' = line
    BY <1>1, <2>2, <2>3, LineStays
  <2> QED BY <1>1, <1>2, <2>4, <2>5, HoldersCounted DEF Fair!Finish
<1>3. CASE waiting # <<>>
  <2> DEFINE h == waiting[1]
  <2>1. active = MaxConcurrency /\ Len(waiting) >= 1
    BY <1>3, <1>1, HoldersCounted, EmptySeq
  <2>2. next = SubSeq(waiting, 1, 1)
    <3>1. MaxConcurrency - (active - 1) = 1
      BY <1>1, <2>1
    <3> QED BY <3>1, <1>1, <2>1 DEF Served
  <2>3. Len(next) = 1 /\ next[1] = h
    BY <1>1, <2>1, <2>2
  <2>4. state' = [q \in Requests |-> IF h = q THEN "held" ELSE IF q = r THEN "released" ELSE state[q]]
    BY <2>3 DEF FreeSlot
  <2> HIDE DEF next
  <2>5. waiting' = SubSeq(waiting, 2, Len(waiting))
    <3>1. waiting' = SubSeq(waiting, Len(next) + 1, Len(waiting))
      BY Zenon DEF FreeSlot, next
    <3> QED BY <3>1, <1>1, <2>3
  <2>6. /\ Len(waiting') = Len(waiting) - 1
        /\ \A i \in 1..(Len(waiting) - 1) : waiting'[i] = waiting[i + 1]
    <3> DEFINE w == SubSeq(waiting, 2, Len(waiting))
    <3>1. /\ Len(w) = Len(waiting) - 1
          /\ \A i \in 1..(Len(waiting) - 1) : w[i] = waiting[i + 1]
      BY <1>1, <2>1, DropFirstProperties
    <3>2. waiting' = w
      BY <2>5
    <3> HIDE DEF w
    <3> QED BY <3>1, <3>2
  <2>7. h \in Requests /\ state[h] = "waiting" /\ h # r /\ 1 \in 1..Len(waiting)
    <3>1. Stands(waiting, h)
      BY <1>1, <2>1 DEF Stands
    <3> QED BY <1>1, <2>1, <3>1, ArrivalsNow
  <2>8. \A q \in Requests : state'[q] = "waiting" <=> state[q] = "waiting" /\ q # h
    BY <2>4
  <2>9. ArrivalsInv' /\ \E m \in 1..Len(arrivals) : arrivals[m] = h /\ line' = RemoveAt(line, m)
    <3>1. \A i \in 1..(Len(waiting) - 1) : waiting'[i] = IF i < 1 THEN waiting[i] ELSE waiting[i + 1]
      BY <2>6
    <3> QED BY <1>1, <2>6, <2>7, <2>8, <3>1, LineShrinks
  <2>10. PICK m \in 1..Len(arrivals) : arrivals[m] = h /\ line' = RemoveAt(line, m)
    BY <2>9
  <2>11. Holders' = (Holders \ {r}) \cup {h}
    BY <2>4, <2>7 DEF Holders
  <2>12. /\ DOMAIN line = 1..Len(arrivals)
         /\ \A i \in 1..Len(arrivals) : line[i][1] = arrivals[i] /\ line[i][2] = priority[arrivals[i]]
    BY <1>1, ArrivalsNow, PairedProperties
  <2>13. Fair!IsNext(m)
    <3> SUFFICES ASSUME NEW j \in 1..Len(arrivals), j # m
                 PROVE  \/ priority[arrivals[j]] < priority[h]
                        \/ priority[arrivals[j]] = priority[h] /\ j > m
      BY <2>10, <2>12 DEF Fair!IsNext
    <3>1. arrivals[j] \in Requests /\ arrivals[j] # h /\ Stands(waiting, arrivals[j])
      <4>1. arrivals[j] \in Requests /\ Stands(arrivals, arrivals[j])
        BY ArrivalsNow, ElementOfSeq DEF Stands
      <4>2. arrivals[j] # arrivals[m]
        BY ArrivalsNow DEF NoRepeats
      <4> QED BY <2>10, <4>1, <4>2, ArrivalsNow
    <3>2. PICK k \in 1..Len(waiting) : waiting[k] = arrivals[j]
      BY <3>1 DEF Stands
    <3>3. k > 1
      BY <3>1, <3>2, <1>1
    <3>4. priority[h] >= priority[arrivals[j]]
      BY <2>7, <3>2, <3>3 DEF FairInv, IInv, LineSorted
    <3>5. priority[h] \in Nat /\ priority[arrivals[j]] \in Nat
      BY <1>1, <2>7, <3>1, LimiterAssumption
    <3>6. CASE priority[h] = priority[arrivals[j]]
      <4>1. StandsBefore(waiting, h, arrivals[j])
        BY <2>7, <3>2, <3>3 DEF StandsBefore
      <4>2. StandsBefore(arrivals, h, arrivals[j])
        BY <3>6, <4>1, ArrivalsNow DEF SameOrder
      <4>3. m < j
        BY <2>10, <4>2, ArrivalsNow DEF StandsBefore, NoRepeats
      <4> QED BY <3>6, <4>3
    <3> QED BY <3>4, <3>5, <3>6
  <2>14. line # <<>>
    BY <1>3, HoldersCounted
  <2>15. line' = Fair!RemoveAt(line, m)
    BY <2>10 DEF RemoveAt, Fair!RemoveAt
  <2>16. m \in DOMAIN line /\ line[m][1] = h
    BY <2>10, <2>12
  <2> QED BY <1>1, <2>9, <2>11, <2>13, <2>14, <2>15, <2>16 DEF Fair!Finish
<1> QED BY <1>2, <1>3

(* A waiter that gives up leaves the line of FairSlots, too. *)
LEMMA GivingUpLeaves ==
  ASSUME FairInv, IInv', ArrivalsFollow, NEW r \in Requests, state[r] = "waiting",
         NEW s \in States \ {"waiting", "held"},
         waiting' = Without(r), state' = [state EXCEPT ![r] = s], priority' = priority
  PROVE  ArrivalsInv' /\ \E m \in DOMAIN Paired(arrivals, priority) : Fair!Leave(m)
<1> DEFINE k == IndexOf(r)
           line == Paired(arrivals, priority)
<1>1. k \in 1..Len(waiting) /\ waiting[k] = r
  BY IndexOfProperties DEF FairInv, IInv
<1>2. /\ Len(waiting') = Len(waiting) - 1
      /\ \A i \in 1..(Len(waiting) - 1) : waiting'[i] = IF i < k THEN waiting[i] ELSE waiting[i + 1]
  BY <1>1, RemoveAtProperties DEF Without, FairInv, IInv, TypeOK
<1> HIDE DEF k
<1>3. /\ state \in [Requests -> States] /\ state'[r] = s
      /\ \A q \in Requests \ {r} : state'[q] = state[q]
  BY DEF FairInv, IInv, TypeOK
<1>4. \A q \in Requests : state'[q] = "waiting" <=> state[q] = "waiting" /\ q # waiting[k]
  BY <1>1, <1>3
<1>5. ArrivalsInv' /\ \E m \in 1..Len(arrivals) : line' = RemoveAt(line, m)
  BY <1>1, <1>2, <1>4, LineShrinks
<1>6. Holders' = Holders
  BY <1>3 DEF Holders
<1>7. DOMAIN line = 1..Len(arrivals)
  BY ArrivalsNow, PairedProperties DEF FairInv, IInv, TypeOK
<1>8. \A m : RemoveAt(line, m) = Fair!RemoveAt(line, m)
  BY DEF RemoveAt, Fair!RemoveAt
<1> QED BY <1>5, <1>6, <1>7, <1>8 DEF Fair!Leave

(* What joining the line at a place does to it. *)
LEMMA InsertedInLine ==
  ASSUME waiting \in Seq(Requests), NEW n \in 1..(Len(waiting) + 1), NEW r \in Requests
  PROVE  /\ Len(InsertAt(waiting, n, r)) = Len(waiting) + 1 /\ InsertAt(waiting, n, r)[n] = r
         /\ \A i \in 1..(n - 1) : InsertAt(waiting, n, r)[i] = waiting[i]
         /\ \A i \in (n + 1)..(Len(waiting) + 1) : InsertAt(waiting, n, r)[i] = waiting[i - 1]
BY InsertAtProperties

(* Every step of the limiter is a step of FairSlots, or none that it sees. *)
LEMMA StepIsFair ==
  ASSUME FairInv, [HNext]_hvars
  PROVE  FairInv' /\ [Fair!Next]_(Fair!vars)
<1> DEFINE line == Paired(arrivals, priority)
<1>0. IInv'
  BY StepKeepsIInv DEF FairInv, HNext, hvars
<1>1. CASE UNCHANGED hvars
  <2>1. ArrivalsInv' /\ Holders' = Holders /\ line' = line
    BY <1>1 DEF hvars, vars, FairInv, ArrivalsInv, Holders, Paired
  <2> QED BY <1>0, <2>1 DEF FairInv, Fair!vars
<1>2. ASSUME ArrivalsFollow, NEW r \in Requests, NEW p \in Priorities, Acquire(r, p)
      PROVE  FairInv' /\ [Fair!Next]_(Fair!vars)
  <2>1. /\ state[r] \notin {"waiting", "held"} /\ r \notin Holders
        /\ priority' = [priority EXCEPT ![r] = p]
        /\ state \in [Requests -> States] /\ priority \in [Requests -> Priorities]
    BY <1>2 DEF Acquire, Holders, FairInv, IInv, TypeOK
  <2>2. \A q \in Requests : state[q] = "waiting" => priority'[q] = priority[q]
    BY <2>1
  <2>3. CASE TakeSlot(r)
    <3>1. waiting = <<>> /\ waiting' = waiting /\ state' = [state EXCEPT ![r] = "held"] /\ active < MaxConcurrency
      BY <2>3 DEF TakeSlot
    <3>2. ArrivalsInv' /\ line' = line
      BY <1>0, <1>2, <2>1, <2>2, <3>1, LineStays
    <3>3. Holders' = Holders \cup {r}
      BY <2>1, <3>1 DEF Holders
    <3>4. Fair!Take(r)
      BY <2>1, <3>1, <3>2, <3>3, HoldersCounted DEF Fair!Take
    <3> QED BY <1>0, <3>2, <3>4 DEF FairInv, Fair!Next
  <2>4. CASE RefuseFull(r) \/ RefuseAborted(r)
    <3>1. PICK s \in States \ {"waiting", "held"} : state' = [state EXCEPT ![r] = s]
      BY <2>4 DEF RefuseFull, RefuseAborted, States
    <3>2. waiting' = waiting
      BY <2>4 DEF RefuseFull, RefuseAborted
    <3>3. ArrivalsInv' /\ line' = line
      BY <1>0, <1>2, <2>1, <2>2, <3>1, <3>2, LineStays
    <3>4. Holders' = Holders
      BY <2>1, <3>1 DEF Holders
    <3> QED BY <1>0, <3>3, <3>4 DEF FairInv, Fair!vars
  <2>5. CASE JoinLine(r, p)
    <3> DEFINE n == Ahead(p) + 1
    <3>1. /\ active >= MaxConcurrency \/ waiting # <<>>
          /\ Len(waiting) < MaxQueue
          /\ waiting' = InsertAt(waiting, Ahead(p) + 1, r)
          /\ state' = [state EXCEPT ![r] = "waiting"]
      BY <2>5 DEF JoinLine
    <3>2. /\ Ahead(p) \in 0..Len(waiting)
          /\ \A j \in (Ahead(p) + 1)..Len(waiting) : priority[waiting[j]] < p
      BY AheadExists DEF FairInv, IInv
    <3>3. waiting \in Seq(Requests) /\ Len(waiting) \in Nat
      BY ArrivalsNow
    <3>4. n \in 1..(Len(waiting) + 1)
      BY <3>2, <3>3
    <3>5. \A j \in n..Len(waiting) : priority[waiting[j]] # p
      <4>1. \A j \in n..Len(waiting) : priority[waiting[j]] < p
        BY <3>2
      <4>2. p \in Nat
        BY LimiterAssumption
      <4> QED BY <4>1, <4>2
    <3> HIDE DEF n
    <3>6. waiting' = InsertAt(waiting, n, r)
      BY <3>1 DEF n
    <3>7. /\ Len(waiting') = Len(waiting) + 1 /\ waiting'[n] = r
          /\ \A i \in 1..(n - 1) : waiting'[i] = waiting[i]
          /\ \A i \in (n + 1)..(Len(waiting) + 1) : waiting'[i] = waiting[i - 1]
      <4>1. r \in Requests
        OBVIOUS
      <4>2. /\ Len(InsertAt(waiting, n, r)) = Len(waiting) + 1 /\ InsertAt(waiting, n, r)[n] = r
            /\ \A i \in 1..(n - 1) : InsertAt(waiting, n, r)[i] = waiting[i]
            /\ \A i \in (n + 1)..(Len(waiting) + 1) : InsertAt(waiting, n, r)[i] = waiting[i - 1]
        BY <3>3, <3>4, <4>1, InsertedInLine
      <4> QED BY <3>6, <4>2, Zenon
    <3>8. \A q \in Requests : state'[q] = "waiting" <=> state[q] = "waiting" \/ q = r
      BY <2>1, <3>1
    <3>9. ArrivalsInv' /\ line' = Append(line, <<r, p>>)
      BY <1>0, <1>2, <2>1, <3>4, <3>5, <3>7, <3>8, LineGrows
    <3>10. Holders' = Holders
      BY <2>1, <3>1 DEF Holders
    <3>11. Fair!Join(r, p)
      <4>1. active = MaxConcurrency
        BY <3>1, HoldersCounted
      <4>2. Fair!Cardinality(Holders) = MaxConcurrency /\ Len(line) < MaxQueue /\ ~Fair!InLine(r)
        BY <2>1, <3>1, <4>1, HoldersCounted
      <4> QED BY <2>1, <3>9, <3>10, <4>2 DEF Fair!Join
    <3> QED BY <1>0, <3>9, <3>11 DEF FairInv, Fair!Next
  <2> QED BY <1>2, <2>3, <2>4, <2>5 DEF Acquire
<1>3. ASSUME ArrivalsFollow, NEW r \in Requests, Release(r)
      PROVE  FairInv' /\ [Fair!Next]_(Fair!vars)
  <2>1. CASE state[r] = "held"
    <3>1. ArrivalsInv' /\ Fair!Finish(r)
      BY <1>0, <1>3, <2>1, FreedSlotGoesToNext DEF Release
    <3> QED BY <1>0, <3>1 DEF FairInv, Fair!Next
  <2>2. CASE state[r] # "held"
    <3>1. UNCHANGED <<waiting, state, priority>>
      BY <1>3, <2>2 DEF Release, vars
    <3>2. ArrivalsInv' /\ line' = line /\ Holders' = Holders
      BY <1>0, <1>3, <3>1, LineStays DEF Holders
    <3> QED BY <1>0, <3>2 DEF FairInv, Fair!vars
  <2> QED BY <2>1, <2>2
<1>4. ASSUME ArrivalsFollow, NEW r \in Requests, NEW s \in States \ {"waiting", "held"},
             state[r] = "waiting", waiting' = Without(r), state' = [state EXCEPT ![r] = s],
             priority' = priority
      PROVE  FairInv' /\ [Fair!Next]_(Fair!vars)
  <2>1. ArrivalsInv' /\ \E m \in DOMAIN line : Fair!Leave(m)
    BY <1>0, <1>4, GivingUpLeaves
  <2> QED BY <1>0, <2>1 DEF FairInv, Fair!Next
<1>5. ASSUME ArrivalsFollow, NEW r \in Requests, Abort(r), state[r] # "waiting"
      PROVE  FairInv' /\ [Fair!Next]_(Fair!vars)
  <2>1. UNCHANGED <<waiting, state, priority>>
    BY <1>5 DEF Abort
  <2>2. ArrivalsInv' /\ line' = line /\ Holders' = Holders
    BY <1>0, <1>5, <2>1, LineStays DEF Holders
  <2> QED BY <1>0, <2>2 DEF FairInv, Fair!vars
<1>6. ASSUME ArrivalsFollow, NEW r \in Requests, NewRequest(r)
      PROVE  FairInv' /\ [Fair!Next]_(Fair!vars)
  <2>1. /\ state[r] \notin {"waiting", "held"} /\ state' = [state EXCEPT ![r] = "idle"]
        /\ waiting' = waiting /\ priority' = priority /\ state \in [Requests -> States]
    BY <1>6 DEF NewRequest, FairInv, IInv, TypeOK
  <2>2. \A q \in Requests : (state'[q] = "waiting" <=> state[q] = "waiting")
                            /\ (state'[q] = "held" <=> state[q] = "held")
    BY <2>1
  <2>3. ArrivalsInv' /\ line' = line
    BY <1>0, <1>6, <2>1, <2>2, LineStays
  <2>4. Holders' = Holders
    BY <2>2 DEF Holders
  <2> QED BY <1>0, <2>3, <2>4 DEF FairInv, Fair!vars
<1>7. ASSUME ArrivalsFollow, NEW r \in Requests, TimeOut(r) \/ Abort(r)
      PROVE  FairInv' /\ [Fair!Next]_(Fair!vars)
  <2>1. CASE TimeOut(r)
    BY <1>4, <1>7, <2>1 DEF TimeOut, States
  <2>2. CASE Abort(r) /\ state[r] = "waiting"
    BY <1>4, <1>7, <2>2 DEF Abort, States
  <2> QED BY <1>5, <1>7, <2>1, <2>2
<1> QED BY <1>1, <1>2, <1>3, <1>6, <1>7 DEF HNext, Next

LEMMA InitIsFair == HInit => FairInv /\ Fair!Init
<1> SUFFICES ASSUME HInit
             PROVE  FairInv /\ Fair!Init
  OBVIOUS
<1>1. IInv /\ waiting = <<>> /\ arrivals = <<>> /\ \A r \in Requests : state[r] = "idle"
  BY InitHasIInv DEF HInit, Init
<1>2. ArrivalsInv
  BY <1>1 DEF ArrivalsInv
<1>3. Holders = {}
  BY <1>1 DEF Holders
<1>4. Paired(arrivals, priority) = <<>>
  BY <1>1, <1>2, HoldersCounted DEF FairInv
<1> QED BY <1>1, <1>2, <1>3, <1>4 DEF FairInv, Fair!Init

(* The line's order is the order of arrival within each priority, whoever  *)
(* overtook, gave up or came back in between (queue.ts:93-96).             *)
THEOREM FairInvariant == HSpec => []FairInv
<1>1. HInit => FairInv
  BY InitIsFair
<1>2. FairInv /\ [HNext]_hvars => FairInv'
  BY StepIsFair
<1> QED BY <1>1, <1>2, PTL DEF HSpec

(* A slot that becomes free goes to the waiter of the highest priority     *)
(* that has waited longest, and nobody passes the line (queue.ts:15-19).   *)
THEOREM ServesBestFirstHolds == HSpec => ServesBestFirst
<1>1. HInit => Fair!Init
  BY InitIsFair
<1>2. FairInv /\ [HNext]_hvars => [Fair!Next]_(Fair!vars)
  BY StepIsFair
<1> QED BY <1>1, <1>2, FairInvariant, PTL DEF HSpec, ServesBestFirst, Fair!Spec
=============================================================================
