---------------------------- MODULE ClientProofs ----------------------------
(***************************************************************************)
(* What a client of the hub can rely on: the limits of its key, and what   *)
(* becomes of its chat between two upstreams.                              *)
(*                                                                         *)
(* Limits: LimitsInv is inductive for any limits, any calendar and any     *)
(* number of requests; the daily allowance, the sliding window, the bound  *)
(* on what a token budget is passed by, and a Retry-After that is long     *)
(* enough follow.                                                          *)
(*                                                                         *)
(* Conversation: ConversationKnown is inductive for chats and answers of   *)
(* any length; that every request is accepted, that the client's messages  *)
(* carry the upstream's own blocks back, and that a stream says what the   *)
(* whole answer says follow.                                               *)
(***************************************************************************)
EXTENDS Limits, Conversation, SequenceFacts, FiniteSetTheorems

(* A sum of naturals is a count: of as many units for each x as f[x] says. *)
Units(f, T) == UNION {{x} \X (1..f[x]) : x \in T}

LEMMA UnitsFinite ==
  ASSUME NEW T, IsFiniteSet(T), NEW f, \A x \in T : f[x] \in Nat
  PROVE  IsFiniteSet(Units(f, T)) /\ Cardinality(Units(f, T)) \in Nat
<1> DEFINE P == {{x} \X (1..f[x]) : x \in T}
           g == [x \in T |-> {x} \X (1..f[x])]
<1>1. g \in Surjection(T, P)
  BY DEF Surjection
<1>2. IsFiniteSet(P)
  <2> HIDE DEF g, P
  <2> QED BY <1>1, FS_Surjection
<1>3. ASSUME NEW p \in P
      PROVE  IsFiniteSet(p)
  <2>1. PICK x \in T : p = {x} \X (1..f[x])
    OBVIOUS
  <2>2. IsFiniteSet({x})
    BY FS_Singleton
  <2>3. f[x] \in Int
    OBVIOUS
  <2>4. IsFiniteSet(1..f[x])
    BY <2>3, FS_Interval
  <2> HIDE DEF P
  <2> QED BY <2>1, <2>2, <2>4, FS_Product
<1>4. IsFiniteSet(UNION P)
  <2> HIDE DEF P
  <2> QED BY <1>2, <1>3, FS_UNION
<1> QED BY <1>4, FS_CardinalityType DEF Units

LEMMA UnitsSplit ==
  ASSUME NEW T, IsFiniteSet(T), NEW f, \A x \in T : f[x] \in Nat, NEW x \in T
  PROVE  Cardinality(Units(f, T)) = f[x] + Cardinality(Units(f, T \ {x}))
<1> DEFINE A == {x} \X (1..f[x])
           B == Units(f, T \ {x})
<1>1. Units(f, T) = A \cup B /\ A \cap B = {}
  BY DEF Units
<1>2. IsFiniteSet(A) /\ Cardinality(A) = f[x]
  <2>1. IsFiniteSet({x}) /\ Cardinality({x}) = 1
    BY FS_Singleton
  <2>2. IsFiniteSet(1..f[x]) /\ Cardinality(1..f[x]) = f[x]
    BY FS_Interval
  <2> QED BY <2>1, <2>2, FS_Product
<1>3. IsFiniteSet(B) /\ Cardinality(B) \in Nat
  <2>1. IsFiniteSet(T \ {x})
    BY FS_RemoveElement
  <2> QED BY <2>1, UnitsFinite
<1> HIDE DEF A, B
<1>4. Cardinality(A \cup B) = Cardinality(A) + Cardinality(B) - Cardinality(A \cap B)
  BY <1>2, <1>3, FS_Union
<1>5. Cardinality(A \cap B) = 0
  BY <1>1, FS_EmptySet
<1> QED BY <1>1, <1>2, <1>3, <1>4, <1>5 DEF B

LEMMA UnitsOfNone ==
  ASSUME NEW f
  PROVE  Cardinality(Units(f, {})) = 0
<1>1. Units(f, {}) = {}
  BY DEF Units
<1> QED BY <1>1, FS_EmptySet

(* The sum of the model is that count.                                     *)
LEMMA TotalIsCount ==
  ASSUME NEW S, IsFiniteSet(S), NEW f, \A x \in S : f[x] \in Nat
  PROVE  Total(f, S) = Cardinality(Units(f, S))
<1> DEFINE count == [T \in SUBSET S |-> Cardinality(Units(f, T))]
           some(T) == CHOOSE x \in T : TRUE
           Adds(g) == g = [T \in SUBSET S |->
                              IF T = {} THEN 0 ELSE f[some(T)] + g[T \ {some(T)}]]
           sum == CHOOSE g : Adds(g)
<1>1. Total(f, S) = sum[S]
  BY DEF Total, MapThenSumSet, MapThenFoldSet
<1>2. ASSUME NEW T \in SUBSET S
      PROVE  /\ IsFiniteSet(T) /\ Cardinality(T) \in Nat
             /\ \A x \in T : /\ T \ {x} \in SUBSET S
                             /\ count[T] = f[x] + count[T \ {x}]
                             /\ Cardinality(T \ {x}) = Cardinality(T) - 1
             /\ T # {} => some(T) \in T
  <2>1. IsFiniteSet(T) /\ Cardinality(T) \in Nat
    BY FS_Subset, FS_CardinalityType
  <2>2. T # {} => some(T) \in T
    OBVIOUS
  <2>3. ASSUME NEW x \in T
        PROVE  /\ T \ {x} \in SUBSET S
               /\ Cardinality(Units(f, T)) = f[x] + Cardinality(Units(f, T \ {x}))
               /\ Cardinality(T \ {x}) = Cardinality(T) - 1
    <3>1. \A y \in T : f[y] \in Nat
      OBVIOUS
    <3>2. Cardinality(Units(f, T)) = f[x] + Cardinality(Units(f, T \ {x}))
      BY <2>1, <3>1, UnitsSplit
    <3>3. Cardinality(T \ {x}) = Cardinality(T) - 1
      BY <2>1, FS_RemoveElement
    <3> QED BY <3>2, <3>3
  <2> QED BY <2>1, <2>2, <2>3
<1>3. count[{}] = 0
  BY UnitsOfNone
<1>4. \A T \in SUBSET S : T # {} => some(T) \in T
  BY <1>2
<1> HIDE DEF some
<1>5. Adds(count)
  <2>1. \A T \in SUBSET S :
           count[T] = IF T = {} THEN 0 ELSE f[some(T)] + count[T \ {some(T)}]
    <3> HIDE DEF count
    <3> QED BY <1>2, <1>3, <1>4
  <2> QED BY <2>1
<1>6. Adds(sum)
  <2> HIDE DEF Adds
  <2> QED BY <1>5
<1> HIDE DEF count, sum
<1>7. \A T \in SUBSET S :
         sum[T] = IF T = {} THEN 0 ELSE f[some(T)] + sum[T \ {some(T)}]
  BY <1>6
<1> DEFINE Wrong == {Cardinality(T) : T \in {U \in SUBSET S : sum[U] # count[U]}}
<1>8. Wrong = {}
  <2> SUFFICES ASSUME Wrong # {}
               PROVE  FALSE
    OBVIOUS
  <2>1. Wrong \in SUBSET Nat
    BY <1>2
  <2>2. PICK n \in Wrong : \A k \in Wrong : n <= k
    <3> HIDE DEF Wrong
    <3> QED BY <2>1, LeastExists
  <2>3. PICK T \in SUBSET S : sum[T] # count[T] /\ Cardinality(T) = n
    OBVIOUS
  <2>4. T # {}
    BY <1>3, <1>7, <2>3
  <2>5. some(T) \in T
    BY <1>4, <2>4
  <2>6. /\ T \ {some(T)} \in SUBSET S
        /\ count[T] = f[some(T)] + count[T \ {some(T)}]
        /\ Cardinality(T \ {some(T)}) = n - 1 /\ n \in Nat
    BY <1>2, <2>3, <2>5
  <2>7. sum[T \ {some(T)}] = count[T \ {some(T)}]
    <3>1. n - 1 \notin Wrong
      BY <2>1, <2>2, <2>6
    <3> QED BY <2>6, <3>1
  <2> QED BY <1>7, <2>3, <2>4, <2>6, <2>7
<1>9. sum[S] = count[S]
  BY <1>8
<1> QED BY <1>1, <1>9 DEF count

LEMMA TotalIsNat ==
  ASSUME NEW S, IsFiniteSet(S), NEW f, \A x \in S : f[x] \in Nat
  PROVE  Total(f, S) \in Nat
BY TotalIsCount, UnitsFinite

(* One summand grows by n. *)
LEMMA TotalRaised ==
  ASSUME NEW S, IsFiniteSet(S), NEW f, NEW g, NEW x \in S, NEW n \in Nat,
         \A y \in S : f[y] \in Nat, \A y \in S : g[y] \in Nat,
         g[x] = f[x] + n, \A y \in S \ {x} : g[y] = f[y]
  PROVE  Total(g, S) = Total(f, S) + n
<1>1. Total(g, S) = g[x] + Cardinality(Units(g, S \ {x}))
  BY TotalIsCount, UnitsSplit
<1>2. Total(f, S) = f[x] + Cardinality(Units(f, S \ {x}))
  BY TotalIsCount, UnitsSplit
<1>3. Units(g, S \ {x}) = Units(f, S \ {x})
  BY DEF Units
<1>4. Cardinality(Units(f, S \ {x})) \in Nat /\ f[x] \in Nat
  BY FS_RemoveElement, UnitsFinite
<1> QED BY <1>1, <1>2, <1>3, <1>4

(* Zeros do not count. *)
LEMMA TotalOfZeros ==
  ASSUME NEW T, IsFiniteSet(T), NEW S \in SUBSET T, NEW f, \A x \in T : f[x] \in Nat,
         \A x \in T \ S : f[x] = 0
  PROVE  Total(f, T) = Total(f, S)
<1>1. IsFiniteSet(S)
  BY FS_Subset
<1>2. Units(f, T) = Units(f, S)
  <2>1. \A x \in T \ S : {x} \X (1..f[x]) = {}
    OBVIOUS
  <2> QED BY <2>1 DEF Units
<1> QED BY <1>1, <1>2, TotalIsCount

(* The most tokens a request can use. *)
LEMMA MostTokens ==
  Max(TokenUse) \in Nat /\ \A t \in TokenUse : t <= Max(TokenUse)
<1> DEFINE above(x) == {y \in TokenUse : y > x}
           D == {Cardinality(above(x)) : x \in TokenUse}
<1>1. TokenUse \subseteq Nat /\ IsFiniteSet(TokenUse) /\ TokenUse # {}
  BY LimitsAssumption
<1>2. \A x \in TokenUse : IsFiniteSet(above(x)) /\ Cardinality(above(x)) \in Nat
  <2>1. ASSUME NEW x \in TokenUse
        PROVE  IsFiniteSet(above(x)) /\ Cardinality(above(x)) \in Nat
    <3>1. above(x) \in SUBSET TokenUse
      OBVIOUS
    <3> HIDE DEF above
    <3> QED BY <1>1, <3>1, FS_Subset, FS_CardinalityType
  <2> QED BY <2>1
<1>3. PICK k \in D : \A i \in D : k <= i
  <2>1. D \in SUBSET Nat /\ D # {}
    BY <1>1, <1>2
  <2> HIDE DEF D
  <2> QED BY <2>1, LeastExists
<1>4. PICK m \in TokenUse : k = Cardinality(above(m))
  OBVIOUS
<1>5. ASSUME NEW y \in TokenUse, y > m
      PROVE  FALSE
  <2>1. above(y) \in SUBSET above(m) /\ y \in above(m) /\ y \notin above(y)
    <3>1. m \in Nat /\ y \in Nat /\ \A z \in TokenUse : z \in Nat
      BY <1>1
    <3>2. \A z \in TokenUse : z > y => z > m
      BY <1>5, <3>1
    <3>3. ~(y > y)
      BY <3>1
    <3> QED BY <1>5, <3>2, <3>3
  <2>2. Cardinality(above(m)) <= Cardinality(above(y))
    BY <1>3, <1>4
  <2> HIDE DEF above
  <2>3. Cardinality(above(y)) <= Cardinality(above(m))
    BY <1>2, <2>1, FS_Subset
  <2>4. Cardinality(above(y)) = Cardinality(above(m))
    BY <1>2, <2>2, <2>3
  <2> QED BY <1>2, <2>1, <2>4, FS_Subset
<1>6. \A y \in TokenUse : m >= y
  BY <1>1, <1>5
<1>7. Max(TokenUse) \in TokenUse /\ \A y \in TokenUse : Max(TokenUse) >= y
  BY <1>6 DEF Max
<1> QED BY <1>1, <1>7

LEMMA Products ==
  ASSUME NEW m \in Nat, NEW k \in Nat, NEW n \in Nat
  PROVE  /\ m * k \in Nat /\ m * 0 = 0
         /\ k <= n => m * k <= m * n
         /\ m * (k + 1) = m * k + m
OBVIOUS

LEMMA QuotientGrows ==
  ASSUME NEW a \in Nat, NEW b \in Nat, a <= b, NEW n \in Nat \ {0}
  PROVE  a \div n \in Nat /\ b \div n \in Nat /\ a \div n <= b \div n
OBVIOUS

(* Rounding up is enough. *)
LEMMA RoundedUp ==
  ASSUME NEW a \in Nat, NEW n \in Nat \ {0}
  PROVE  /\ (a + n - 1) \div n \in Nat
         /\ a <= ((a + n - 1) \div n) * n
<1> DEFINE q == (a + n - 1) \div n
<1>1. q \in Nat /\ a + n - 1 < n * (q + 1)
  OBVIOUS
<1>2. n * (q + 1) = q * n + n /\ q * n \in Nat
  <2> HIDE DEF q
  <2> QED BY <1>1
<1> HIDE DEF q
<1>3. a <= q * n
  BY <1>1, <1>2
<1> QED BY <1>1, <1>3 DEF q

(* A later moment is not on an earlier day. *)
LEMMA DaysPass ==
  ASSUME NEW a \in Nat, NEW b \in Nat, a <= b
  PROVE  DayOf(a) \in Nat /\ DayOf(b) \in Nat /\ DayOf(a) <= DayOf(b)
BY LimitsAssumption, QuotientGrows DEF DayOf

(* The clock's day is one of the calendar's. *)
LEMMA TodayIsADay ==
  ASSUME TypeOK
  PROVE  Today \in Days /\ Today \in Nat
<1>1. now \in Nat /\ MaxTime \in Nat /\ now <= MaxTime
  BY LimitsAssumption DEF TypeOK
<1>2. DayOf(now) \in Nat /\ DayOf(MaxTime) \in Nat /\ DayOf(now) <= DayOf(MaxTime)
  BY <1>1, DaysPass
<1> QED BY <1>2 DEF Today, Days

(* How many stamps have left the window is well defined. *)
LEMMA ExpiredExists ==
  ASSUME stamps \in Seq(Nat), NEW t \in Nat
  PROVE  /\ Expired(t) \in 0..Len(stamps)
         /\ \A i \in 1..Expired(t) : stamps[i] <= t - Window
         /\ Expired(t) < Len(stamps) => stamps[Expired(t) + 1] > t - Window
<1> DEFINE Gone(k) == \A i \in 1..k : stamps[i] <= t - Window
           Good(k) == Gone(k) /\ (k < Len(stamps) => stamps[k + 1] > t - Window)
           D == {k \in 0..Len(stamps) : Gone(k)}
<1>1. Len(stamps) \in Nat /\ Window \in Nat /\ \A i \in 1..Len(stamps) : stamps[i] \in Nat
  BY LimitsAssumption
<1>2. 0 \in D
  BY <1>1
<1>3. PICK m \in D : \A k \in D : k <= m
  <2>1. D \in SUBSET (0..Len(stamps)) /\ D # {}
    BY <1>2
  <2> HIDE DEF D
  <2> QED BY <1>1, <2>1, GreatestExists
<1>4. Good(m)
  <2>1. ASSUME m < Len(stamps), stamps[m + 1] <= t - Window
        PROVE  FALSE
    <3>1. m + 1 \in D
      BY <1>1, <2>1
    <3> QED BY <3>1, <1>3, <1>1
  <2>2. m < Len(stamps) => stamps[m + 1] \in Nat
    BY <1>1
  <2> QED BY <1>1, <2>1, <2>2
<1>5. Expired(t) = CHOOSE k \in 0..Len(stamps) : Good(k)
  BY DEF Expired
<1>6. m \in 0..Len(stamps)
  OBVIOUS
<1> HIDE DEF Good, D
<1>7. Expired(t) \in 0..Len(stamps) /\ Good(Expired(t))
  BY <1>4, <1>5, <1>6
<1> QED BY <1>7 DEF Good

(* The window after pruning: still the tail of the admissions, and what    *)
(* precedes it is at least a window old.                                   *)
LEMMA RecentIsTail ==
  ASSUME LimitsInv
  PROVE  LET lost == Len(admissions) - Len(Recent)
         IN  /\ Recent \in Seq(Nat) /\ Len(Recent) \in Nat /\ lost \in Nat
             /\ \A i \in 1..Len(Recent) : Recent[i] = admissions[lost + i]
             /\ \A i \in 1..lost : admissions[i] <= now - Window
             /\ Len(Recent) > 0 => Recent[1] > now - Window
<1> DEFINE e == Expired(now)
           w == SubSeq(stamps, e + 1, Len(stamps))
           was == Len(admissions) - Len(stamps)
<1>1. /\ stamps \in Seq(Nat) /\ now \in Nat /\ Len(stamps) \in Nat /\ Len(admissions) \in Nat
      /\ was \in Nat
      /\ \A i \in 1..Len(stamps) : stamps[i] = admissions[was + i]
      /\ \A i \in 1..was : admissions[i] <= now - Window
  BY DEF LimitsInv, TypeOK, WindowIsTail
<1>2. /\ e \in 0..Len(stamps) /\ \A i \in 1..e : stamps[i] <= now - Window
      /\ e < Len(stamps) => stamps[e + 1] > now - Window
  BY <1>1, ExpiredExists
<1> HIDE DEF e
<1>3. /\ w \in Seq(Nat) /\ Len(w) = Len(stamps) - e
      /\ \A i \in 1..(Len(stamps) - e) : w[i] = stamps[i + e]
  BY <1>1, <1>2
<1>4. Recent = w
  BY DEF Recent, RecentAt, e
<1> HIDE DEF w
<1>5. ASSUME NEW i \in 1..Len(w)
      PROVE  w[i] = admissions[(was + e) + i]
  <2>1. i + e \in 1..Len(stamps) /\ was + (i + e) = (was + e) + i
    BY <1>1, <1>2, <1>3
  <2> QED BY <2>1, <1>1, <1>3
<1>6. ASSUME NEW i \in 1..(was + e)
      PROVE  admissions[i] <= now - Window
  <2>1. CASE i <= was
    BY <2>1, <1>1, <1>2
  <2>2. CASE i > was
    <3>1. i - was \in 1..e /\ i - was \in 1..Len(stamps) /\ was + (i - was) = i
      BY <2>2, <1>1, <1>2
    <3> QED BY <3>1, <1>1, <1>2
  <2> QED BY <2>1, <2>2, <1>1, <1>2
<1>7. Len(admissions) - Len(w) = was + e /\ Len(w) \in Nat /\ was + e \in Nat
  BY <1>1, <1>2, <1>3
<1>8. Len(w) > 0 => w[1] > now - Window
  BY <1>1, <1>2, <1>3
<1> HIDE DEF was
<1> QED BY <1>3, <1>4, <1>5, <1>6, <1>7, <1>8

(* Pruning alone keeps the window's part of the invariant. *)
LEMMA PruningKeepsWindow ==
  ASSUME LimitsInv, stamps' = Recent, admissions' = admissions, now' = now
  PROVE  stamps' \in Seq(Nat) /\ WindowIsTail' /\ SlidingWindow'
<1>1. LET lost == Len(admissions) - Len(Recent)
      IN  /\ Recent \in Seq(Nat) /\ lost \in Nat
          /\ \A i \in 1..Len(Recent) : Recent[i] = admissions[lost + i]
          /\ \A i \in 1..lost : admissions[i] <= now - Window
  BY RecentIsTail
<1> HIDE DEF Recent
<1>2. WindowIsTail'
  BY <1>1 DEF LimitsInv, WindowIsTail
<1>3. SlidingWindow'
  BY DEF LimitsInv, SlidingWindow
<1> QED BY <1>1, <1>2, <1>3

(* An admission: the request that came rpm places earlier has left the     *)
(* window, since fewer than rpm are still in it.                           *)
LEMMA AdmissionKeepsWindow ==
  ASSUME LimitsInv, stamps' = Append(Recent, now), admissions' = Append(admissions, now),
         now' = now, ~Reached(Len(Recent), Rpm)
  PROVE  stamps' \in Seq(Nat) /\ admissions' \in Seq(Nat) /\ WindowIsTail' /\ SlidingWindow'
<1> DEFINE lost == Len(admissions) - Len(Recent)
           L == Len(admissions)
<1>1. /\ Recent \in Seq(Nat) /\ Len(Recent) \in Nat /\ lost \in Nat
      /\ \A i \in 1..Len(Recent) : Recent[i] = admissions[lost + i]
      /\ \A i \in 1..lost : admissions[i] <= now - Window
  BY RecentIsTail
<1>2. /\ now \in Nat /\ admissions \in Seq(Nat) /\ L \in Nat /\ Window \in Nat
      /\ \A i \in 1..L : admissions[i] <= now /\ admissions[i] \in Nat
      /\ \A i, j \in 1..L : i <= j => admissions[i] <= admissions[j]
  BY LimitsAssumption DEF LimitsInv, TypeOK, WindowIsTail
<1> HIDE DEF Recent
<1>3. /\ admissions' \in Seq(Nat) /\ Len(admissions') = L + 1
      /\ \A i \in 1..L : admissions'[i] = admissions[i]
      /\ admissions'[L + 1] = now
  BY <1>2, AppendProperties
<1>4. /\ stamps' \in Seq(Nat) /\ Len(stamps') = Len(Recent) + 1
      /\ \A i \in 1..Len(Recent) : stamps'[i] = Recent[i]
      /\ stamps'[Len(Recent) + 1] = now
  BY <1>1, <1>2, AppendProperties
<1>5. Len(admissions') - Len(stamps') = lost
  BY <1>1, <1>2, <1>3, <1>4
<1>6. WindowIsTail'
  <2>1. ASSUME NEW i \in 1..Len(stamps')
        PROVE  stamps'[i] = admissions'[lost + i]
    <3>1. CASE i <= Len(Recent)
      <4>1. i \in 1..Len(Recent) /\ lost + i \in 1..L
        BY <3>1, <1>1, <1>2, <1>4
      <4> QED BY <4>1, <1>1, <1>3, <1>4
    <3>2. CASE i = Len(Recent) + 1
      <4>1. lost + i = L + 1
        BY <3>2, <1>1, <1>2
      <4> QED BY <3>2, <4>1, <1>3, <1>4
    <3>3. i <= Len(Recent) \/ i = Len(Recent) + 1
      BY <1>1, <1>4
    <3> QED BY <3>1, <3>2, <3>3
  <2>2. ASSUME NEW i \in 1..lost
        PROVE  admissions'[i] <= now' - Window
    <3>1. i \in 1..L
      BY <1>1, <1>2
    <3> QED BY <3>1, <1>1, <1>3
  <2>3. ASSUME NEW i \in 1..Len(admissions')
        PROVE  admissions'[i] <= now'
    BY <1>2, <1>3
  <2>4. ASSUME NEW i \in 1..Len(admissions'), NEW j \in 1..Len(admissions'), i <= j
        PROVE  admissions'[i] <= admissions'[j]
    BY <2>4, <1>2, <1>3
  <2> HIDE DEF lost
  <2> QED BY <1>1, <1>5, <2>1, <2>2, <2>3, <2>4 DEF WindowIsTail
<1>7. SlidingWindow'
  <2> SUFFICES ASSUME Rpm # NoLimit, NEW i \in 1..(L + 1), i + Rpm <= L + 1
               PROVE  admissions'[i + Rpm] >= admissions'[i] + Window
    BY <1>3 DEF SlidingWindow
  <2>1. Rpm \in Nat /\ Rpm >= 1
    BY LimitsAssumption
  <2>2. CASE i + Rpm <= L
    <3>1. i \in 1..L /\ i + Rpm \in 1..L
      BY <2>1, <2>2, <1>2
    <3>2. admissions[i + Rpm] >= admissions[i] + Window
      BY <3>1, <2>2 DEF LimitsInv, SlidingWindow
    <3> QED BY <3>1, <3>2, <1>3
  <2>3. CASE i + Rpm = L + 1
    <3>1. Len(Recent) < Rpm
      BY <2>1, <1>1 DEF Reached
    <3>2. i \in 1..lost /\ i \in 1..L
      BY <3>1, <2>1, <2>3, <1>1, <1>2
    <3>3. admissions[i] <= now - Window /\ admissions[i] \in Nat
      BY <3>2, <1>1, <1>2
    <3> QED BY <3>2, <3>3, <2>3, <1>2, <1>3
  <2>4. i + Rpm <= L \/ i + Rpm = L + 1
    <3> HIDE DEF L
    <3> QED BY <2>1, <1>2
  <2> QED BY <2>2, <2>3, <2>4
<1> QED BY <1>3, <1>4, <1>6, <1>7

(* The days of the month and what they hold. *)
LEMMA MonthTyped ==
  ASSUME TypeOK
  PROVE  /\ IsFiniteSet(MonthToDate) /\ MonthToDate \in SUBSET Days
         /\ Today \in MonthToDate /\ Days \in SUBSET Nat
         /\ \A d \in Days : tokensOn[d] \in Nat
         /\ TokensThisMonth \in Nat
<1>1. Today \in Days /\ Today \in Nat /\ DaysPerMonth \in Nat \ {0}
  BY TodayIsADay, LimitsAssumption
<1>2. MonthToDate \in SUBSET Days /\ Today \in MonthToDate
  BY <1>1 DEF MonthToDate
<1>3. DayOf(MaxTime) \in Nat
  BY LimitsAssumption, DaysPass
<1>4. IsFiniteSet(Days) /\ Days \in SUBSET Nat
  BY <1>3, FS_Interval DEF Days
<1>5. IsFiniteSet(MonthToDate)
  BY <1>2, <1>4, FS_Subset
<1>6. \A d \in Days : tokensOn[d] \in Nat
  BY DEF TypeOK
<1>7. \A d \in MonthToDate : tokensOn[d] \in Nat
  BY <1>2, <1>6
<1>8. TokensThisMonth \in Nat
  BY <1>5, <1>7, TotalIsNat DEF TokensThisMonth
<1> QED BY <1>1, <1>2, <1>4, <1>5, <1>6, <1>8

(* A key starts with nothing used. *)
LEMMA InitHasInv == Init => LimitsInv
<1> SUFFICES ASSUME Init PROVE LimitsInv
  OBVIOUS
<1>1. TypeOK /\ IsFiniteSet(inFlight) /\ Cardinality(inFlight) = 0
  BY FS_EmptySet, LimitsAssumption DEF Init, TypeOK, NoRefusal
<1>2. PendingExact /\ FutureEmpty
  BY <1>1 DEF Init, PendingExact, FutureEmpty
<1>3. DailyAllowance
  <2>1. Today \in Days
    BY <1>1, TodayIsADay
  <2> QED BY <1>1, <2>1, LimitsAssumption DEF Init, DailyAllowance
<1>4. Len(stamps) = 0 /\ Len(admissions) = 0
  BY DEF Init
<1>5. WindowIsTail
  BY <1>4 DEF WindowIsTail
<1>6. SlidingWindow
  BY <1>4 DEF SlidingWindow
<1>7. RefusalKnown
  BY DEF Init, RefusalKnown, NoRefusal
<1>8. OvershootFits
  <2> DEFINE m == Max(TokenUse)
             most == m * Cardinality(Requests)
  <2>1. m * Cardinality(inFlight) = 0 /\ most \in Nat
    BY <1>1, MostTokens, Products, LimitsAssumption, FS_CardinalityType
  <2>2. Today \in Days /\ \A d \in Days : tokensOn[d] = 0
    BY <1>1, TodayIsADay DEF Init
  <2>3. TokensThisMonth = 0
    <3>1. IsFiniteSet(MonthToDate) /\ MonthToDate \in SUBSET Days
      BY <1>1, MonthTyped
    <3>2. Total(tokensOn, MonthToDate) = Total(tokensOn, {})
      BY <2>2, <3>1, TotalOfZeros
    <3>3. Total(tokensOn, {}) = 0
      BY FS_EmptySet, TotalIsCount, UnitsOfNone
    <3> QED BY <3>2, <3>3 DEF TokensThisMonth
  <2>4. /\ TokensPerDay # NoLimit => 0 + 0 < TokensPerDay + most
        /\ TokensPerMonth # NoLimit => 0 + 0 < TokensPerMonth + most
    <3> HIDE DEF most
    <3> QED BY <2>1, LimitsAssumption
  <2> HIDE DEF most, m
  <2> QED BY <2>1, <2>2, <2>3, <2>4 DEF OvershootFits, most, m
<1> QED BY <1>1, <1>2, <1>3, <1>5, <1>6, <1>7, <1>8 DEF LimitsInv

(* Adding and removing one request of the set in flight. *)
LEMMA InFlightCounts ==
  ASSUME LimitsInv, NEW r \in Requests
  PROVE  /\ IsFiniteSet(inFlight \cup {r}) /\ IsFiniteSet(inFlight \ {r})
         /\ r \notin inFlight => Cardinality(inFlight \cup {r}) = Cardinality(inFlight) + 1
         /\ r \in inFlight => /\ Cardinality(inFlight \ {r}) = Cardinality(inFlight) - 1
                              /\ Cardinality(inFlight) >= 1
         /\ Cardinality(inFlight) \in Nat
<1>1. IsFiniteSet(inFlight) /\ Cardinality(inFlight) \in Nat
  BY FS_CardinalityType DEF LimitsInv
<1>2. IsFiniteSet(inFlight \cup {r}) /\ (r \notin inFlight => Cardinality(inFlight \cup {r}) = Cardinality(inFlight) + 1)
  BY <1>1, FS_AddElement
<1>3. IsFiniteSet(inFlight \ {r}) /\ (r \in inFlight => Cardinality(inFlight \ {r}) = Cardinality(inFlight) - 1)
  BY <1>1, FS_RemoveElement
<1>4. r \in inFlight => Cardinality(inFlight) >= 1
  BY <1>1, FS_EmptySet
<1> QED BY <1>1, <1>2, <1>3, <1>4

(* What says who is let in and what is recorded ... *)
AllowanceInv ==
  /\ TypeOK /\ IsFiniteSet(inFlight) /\ PendingExact /\ FutureEmpty
  /\ DailyAllowance /\ WindowIsTail /\ SlidingWindow

LEMMA AllowanceStep ==
  ASSUME LimitsInv, [Next]_vars
  PROVE  AllowanceInv'
<1>1. /\ TypeOK /\ IsFiniteSet(inFlight) /\ pending = Cardinality(inFlight)
      /\ Today \in Days /\ Today \in Nat /\ requestsOn \in [Days -> Nat] /\ pending \in Nat
  BY TodayIsADay DEF LimitsInv, TypeOK, PendingExact
<1>2. CASE UNCHANGED vars
  BY <1>2 DEF vars, memory, store, LimitsInv, AllowanceInv, TypeOK, PendingExact, FutureEmpty, Today, DailyAllowance,
              WindowIsTail, SlidingWindow
<1>3. ASSUME NEW r \in Requests, Arrive(r)
      PROVE  AllowanceInv'
  <2>1. /\ r \notin inFlight /\ now' = now /\ requestsOn' = requestsOn /\ tokensOn' = tokensOn
        /\ restarts' = restarts /\ Today' = Today
    BY <1>3 DEF Arrive, store, Today
  <2>2. CASE RefuseExhausted
    BY <2>1, <2>2, <1>2 DEF RefuseExhausted, memory, vars, store
  <2>3. CASE RefuseTooFast
    <3>1. /\ stamps' = Recent /\ pending' = pending /\ inFlight' = inFlight /\ admissions' = admissions
          /\ refusal' = [at |-> now, wait |-> RetryAfter(Recent[1])] /\ Reached(Len(Recent), Rpm)
      BY <2>3 DEF RefuseTooFast
    <3>2. stamps' \in Seq(Nat) /\ WindowIsTail' /\ SlidingWindow'
      BY <2>1, <3>1, PruningKeepsWindow
    <3>3. refusal' \in [at : Nat, wait : Nat]
      <4>1. Recent \in Seq(Nat) /\ Len(Recent) \in Nat
        BY RecentIsTail
      <4>2. Len(Recent) >= 1
        BY <3>1, <4>1, LimitsAssumption DEF Reached
      <4>3. Recent[1] \in Nat
        BY <4>1, <4>2
      <4> HIDE DEF Recent
      <4>4. RetryAfter(Recent[1]) \in Nat
        BY <4>3, <1>1, LimitsAssumption DEF RetryAfter, TypeOK
      <4> QED BY <3>1, <4>4, <1>1 DEF TypeOK
    <3>4. TypeOK'
      BY <1>1, <2>1, <3>1, <3>2, <3>3 DEF TypeOK
    <3>5. PendingExact' /\ FutureEmpty' /\ DailyAllowance' /\ IsFiniteSet(inFlight')
      BY <1>1, <2>1, <3>1 DEF LimitsInv, PendingExact, FutureEmpty, DailyAllowance
    <3> QED BY <3>2, <3>4, <3>5 DEF AllowanceInv
  <2>4. CASE Admit(r)
    <3>1. /\ stamps' = Append(Recent, now) /\ pending' = pending + 1 /\ inFlight' = inFlight \cup {r}
          /\ admissions' = Append(admissions, now) /\ refusal' = refusal
          /\ ~Reached(Len(Recent), Rpm) /\ ~Reached(UsedToday, Rpd)
      BY <2>4 DEF Admit, BudgetExhausted
    <3>2. stamps' \in Seq(Nat) /\ admissions' \in Seq(Nat) /\ WindowIsTail' /\ SlidingWindow'
      BY <2>1, <3>1, AdmissionKeepsWindow
    <3>3. IsFiniteSet(inFlight') /\ Cardinality(inFlight') = pending + 1
      BY <1>1, <2>1, <3>1, InFlightCounts
    <3>4. TypeOK'
      BY <1>1, <2>1, <3>1, <3>2 DEF TypeOK
    <3>5. PendingExact' /\ FutureEmpty'
      BY <2>1, <3>1, <3>3 DEF LimitsInv, PendingExact, FutureEmpty
    <3>6. DailyAllowance'
      <4>1. Rpd # NoLimit => requestsOn[Today] + pending < Rpd
        BY <1>1, <3>1, LimitsAssumption DEF Reached, UsedToday
      <4> QED BY <1>1, <2>1, <3>3, <4>1, LimitsAssumption DEF LimitsInv, DailyAllowance
    <3> QED BY <3>2, <3>3, <3>4, <3>5, <3>6 DEF AllowanceInv
  <2> QED BY <1>3, <2>2, <2>3, <2>4 DEF Arrive
<1>4. ASSUME NEW r \in Requests, NEW tokens \in TokenUse, NEW recorded \in BOOLEAN,
             Finish(r, tokens, recorded)
      PROVE  AllowanceInv'
  <2>1. /\ r \in inFlight /\ now' = now /\ restarts' = restarts /\ admissions' = admissions
        /\ refusal' = refusal /\ stamps' = stamps /\ inFlight' = inFlight \ {r} /\ Today' = Today
    BY <1>4 DEF Finish, Release, Today
  <2>2. /\ IsFiniteSet(inFlight') /\ Cardinality(inFlight') = pending - 1 /\ pending >= 1
    BY <1>1, <2>1, InFlightCounts
  <2>3. pending' = pending - 1
    BY <1>1, <2>2, <1>4 DEF Finish, Release
  <2>4. \/ requestsOn' = requestsOn /\ tokensOn' = tokensOn
        \/ /\ requestsOn' = [requestsOn EXCEPT ![Today] = @ + 1]
           /\ tokensOn' = [tokensOn EXCEPT ![Today] = @ + tokens]
    BY <1>4 DEF Finish, store
  <2>5. tokens \in Nat
    BY LimitsAssumption
  <2>6. TypeOK'
    <3>1. requestsOn' \in [Days -> Nat] /\ tokensOn' \in [Days -> Nat]
      <4>1. tokensOn \in [Days -> Nat]
        BY <1>1 DEF TypeOK
      <4>2. CASE requestsOn' = requestsOn /\ tokensOn' = tokensOn
        BY <1>1, <4>1, <4>2
      <4>3. CASE /\ requestsOn' = [requestsOn EXCEPT ![Today] = @ + 1]
                 /\ tokensOn' = [tokensOn EXCEPT ![Today] = @ + tokens]
        <5>1. requestsOn[Today] + 1 \in Nat /\ tokensOn[Today] + tokens \in Nat
          BY <1>1, <4>1, <2>5
        <5> QED BY <1>1, <4>1, <4>3, <5>1
      <4> QED BY <2>4, <4>2, <4>3
    <3>2. inFlight' \in SUBSET Requests /\ pending' \in Nat
      BY <1>1, <2>1, <2>2, <2>3 DEF TypeOK
    <3> QED BY <1>1, <2>1, <3>1, <3>2 DEF TypeOK
  <2>7. PendingExact'
    BY <2>2, <2>3 DEF PendingExact
  <2>8. FutureEmpty'
    <3>1. \A d \in Days : d # Today => /\ requestsOn'[d] = requestsOn[d]
                                       /\ tokensOn'[d] = tokensOn[d]
      BY <1>1, <2>4 DEF TypeOK
    <3> QED BY <1>1, <2>1, <3>1 DEF LimitsInv, FutureEmpty
  <2>9. DailyAllowance'
    <3>1. Rpd # NoLimit => /\ \A d \in Days : requestsOn[d] \in Nat /\ requestsOn[d] <= Rpd
                           /\ requestsOn[Today] + pending <= Rpd /\ Rpd \in Nat
      BY <1>1, LimitsAssumption DEF LimitsInv, DailyAllowance
    <3>2. requestsOn'[Today] <= requestsOn[Today] + 1 /\ requestsOn'[Today] \in Nat
          /\ \A d \in Days : d # Today => requestsOn'[d] = requestsOn[d]
      BY <1>1, <2>4
    <3> QED BY <1>1, <2>1, <2>2, <3>1, <3>2 DEF DailyAllowance
  <2>10. WindowIsTail' /\ SlidingWindow'
    BY <2>1 DEF LimitsInv, WindowIsTail, SlidingWindow
  <2> QED BY <2>2, <2>6, <2>7, <2>8, <2>9, <2>10 DEF AllowanceInv
<1>5. CASE Snapshot
  <2>1. /\ stamps' = Recent /\ now' = now /\ pending' = pending /\ inFlight' = inFlight
        /\ requestsOn' = requestsOn /\ tokensOn' = tokensOn /\ restarts' = restarts
        /\ admissions' = admissions /\ refusal' = refusal /\ Today' = Today
    BY <1>5 DEF Snapshot, store, Today
  <2>2. stamps' \in Seq(Nat) /\ WindowIsTail' /\ SlidingWindow'
    BY <2>1, PruningKeepsWindow
  <2>3. TypeOK'
    BY <1>1, <2>1, <2>2 DEF TypeOK
  <2>4. PendingExact' /\ FutureEmpty' /\ DailyAllowance' /\ IsFiniteSet(inFlight')
    BY <2>1 DEF LimitsInv, PendingExact, FutureEmpty, DailyAllowance
  <2> QED BY <2>2, <2>3, <2>4 DEF AllowanceInv
<1>6. CASE Tick
  <2>1. /\ now' = now + 1 /\ now < MaxTime /\ stamps' = stamps /\ pending' = pending
        /\ inFlight' = inFlight /\ requestsOn' = requestsOn /\ tokensOn' = tokensOn
        /\ restarts' = restarts /\ admissions' = admissions /\ refusal' = refusal
    BY <1>6 DEF Tick, memory, store
  <2>2. TypeOK'
    BY <1>1, <2>1, LimitsAssumption DEF TypeOK
  <2>3. Today' \in Days /\ Today' \in Nat /\ (Today' = Today \/ Today' > Today)
    <3>1. Today' \in Days /\ Today' \in Nat
      <4>1. now + 1 \in Nat /\ MaxTime \in Nat /\ now + 1 <= MaxTime
        BY <1>1, <2>1, LimitsAssumption DEF TypeOK
      <4> QED BY <2>1, <4>1, DaysPass DEF Today, Days
    <3>2. DayOf(now) <= DayOf(now + 1)
      BY <1>1, DaysPass DEF TypeOK
    <3> QED BY <1>1, <2>1, <3>1, <3>2 DEF Today
  <2>4. PendingExact' /\ IsFiniteSet(inFlight')
    BY <1>1, <2>1 DEF PendingExact
  <2>5. FutureEmpty'
    BY <1>1, <2>1, <2>3 DEF LimitsInv, FutureEmpty, Days
  <2>6. DailyAllowance'
    <3>1. CASE Today' = Today
      BY <2>1, <3>1 DEF LimitsInv, DailyAllowance
    <3>2. CASE Today' > Today
      <4>1. requestsOn[Today'] = 0
        BY <2>3, <3>2 DEF LimitsInv, FutureEmpty
      <4> QED BY <1>1, <2>1, <4>1, LimitsAssumption DEF LimitsInv, DailyAllowance
    <3> QED BY <2>3, <3>1, <3>2
  <2>7. WindowIsTail'
    <3> DEFINE lost == Len(admissions) - Len(stamps)
    <3>1. /\ \A i \in 1..Len(admissions) : admissions[i] \in Nat
          /\ Len(admissions) \in Nat /\ Len(stamps) \in Nat /\ now \in Nat /\ Window \in Nat
      BY <1>1, LimitsAssumption DEF TypeOK
    <3>2. /\ lost \in Nat
          /\ \A i \in 1..Len(stamps) : stamps[i] = admissions[lost + i]
          /\ \A i \in 1..lost : admissions[i] <= now - Window
          /\ \A i, j \in 1..Len(admissions) : i <= j => admissions[i] <= admissions[j]
          /\ \A i \in 1..Len(admissions) : admissions[i] <= now
      BY DEF LimitsInv, WindowIsTail
    <3>3. ASSUME NEW i \in 1..lost PROVE admissions[i] <= (now + 1) - Window
      <4>1. i \in 1..Len(admissions)
        BY <3>1, <3>2
      <4>2. admissions[i] \in Nat /\ admissions[i] <= now - Window
        BY <4>1, <3>1, <3>2
      <4> QED BY <4>2, <3>1
    <3>4. ASSUME NEW i \in 1..Len(admissions) PROVE admissions[i] <= now + 1
      BY <3>1, <3>2
    <3> QED BY <2>1, <3>2, <3>3, <3>4 DEF WindowIsTail
  <2>8. SlidingWindow'
    BY <2>1 DEF LimitsInv, SlidingWindow
  <2> QED BY <2>2, <2>4, <2>5, <2>6, <2>7, <2>8 DEF AllowanceInv
<1>7. CASE Restart
  <2>1. /\ stamps' = <<>> /\ pending' = 0 /\ inFlight' = {} /\ admissions' = <<>>
        /\ refusal' = NoRefusal /\ now' = now /\ requestsOn' = requestsOn /\ tokensOn' = tokensOn
        /\ restarts' = restarts + 1 /\ restarts < MaxRestarts /\ Today' = Today
    BY <1>7 DEF Restart, store, Today
  <2>2. TypeOK'
    BY <1>1, <2>1, LimitsAssumption DEF TypeOK, NoRefusal
  <2>3. IsFiniteSet(inFlight') /\ Cardinality(inFlight') = 0
    BY <2>1, FS_EmptySet
  <2>4. PendingExact' /\ FutureEmpty'
    BY <2>1, <2>3 DEF LimitsInv, PendingExact, FutureEmpty
  <2>5. DailyAllowance'
    BY <1>1, <2>1, <2>3, LimitsAssumption DEF LimitsInv, DailyAllowance
  <2>6. Len(stamps') = 0 /\ Len(admissions') = 0
    BY <2>1
  <2>7. WindowIsTail' /\ SlidingWindow'
    BY <2>6 DEF WindowIsTail, SlidingWindow
  <2> QED BY <2>2, <2>3, <2>4, <2>5, <2>7 DEF AllowanceInv
<1> QED BY <1>2, <1>3, <1>4, <1>5, <1>6, <1>7 DEF Next

(* ... what is known after a refusal ...                                   *)
LEMMA RefusalStep ==
  ASSUME LimitsInv, [Next]_vars
  PROVE  RefusalKnown'
<1>1. /\ now \in Nat /\ Window \in Nat /\ Second \in Nat \ {0}
      /\ admissions \in Seq(Nat) /\ Len(admissions) \in Nat
      /\ refusal \in [at : Nat, wait : Nat] /\ RefusalKnown
      /\ Rpm # NoLimit => Rpm \in Nat \ {0}
  BY LimitsAssumption DEF LimitsInv, TypeOK
<1>2. CASE UNCHANGED <<now, admissions, refusal>>
  BY <1>1, <1>2 DEF RefusalKnown
<1>3. CASE RefuseTooFast /\ now' = now
  <2> DEFINE L == Len(admissions)
             n == Len(Recent)
  <2>1. /\ admissions' = admissions /\ now' = now /\ Reached(n, Rpm)
        /\ refusal' = [at |-> now, wait |-> RetryAfter(Recent[1])]
    BY <1>3 DEF RefuseTooFast
  <2>2. /\ Recent \in Seq(Nat) /\ n \in Nat /\ L - n \in Nat
        /\ \A i \in 1..n : Recent[i] = admissions[(L - n) + i]
        /\ n > 0 => Recent[1] > now - Window
    BY RecentIsTail
  <2>3. Rpm # NoLimit /\ Rpm \in Nat \ {0} /\ n >= Rpm
    BY <1>1, <2>1 DEF Reached
  <2> HIDE DEF n, L
  <2>4. Recent[1] = admissions[(L - n) + 1] /\ Recent[1] > now - Window
    BY <2>2, <2>3
  <2>5. n = Rpm
    <3> SUFFICES ASSUME n >= Rpm + 1
                 PROVE  FALSE
      BY <2>2, <2>3
    <3>1. /\ (L - n) + 1 \in 1..L /\ (L - n) + 1 + Rpm \in 1..L /\ L \in Nat
          /\ L = Len(admissions)
      BY <1>1, <2>2, <2>3 DEF L
    <3>2. admissions[(L - n) + 1 + Rpm] >= admissions[(L - n) + 1] + Window
      BY <2>3, <3>1 DEF LimitsInv, SlidingWindow
    <3>3. admissions[(L - n) + 1 + Rpm] <= now
      BY <3>1 DEF LimitsInv, WindowIsTail
    <3>4. admissions[(L - n) + 1 + Rpm] \in Nat /\ admissions[(L - n) + 1] \in Nat
      BY <1>1, <3>1
    <3> QED BY <1>1, <2>4, <3>2, <3>3, <3>4
  <2> DEFINE oldest == Recent[1]
  <2>6. L >= Rpm /\ L = Len(admissions) /\ oldest = admissions[L - Rpm + 1] /\ oldest \in Nat
    <3>1. L - Rpm + 1 \in 1..L /\ L = Len(admissions) /\ L \in Nat
      BY <1>1, <2>2, <2>3, <2>5 DEF L
    <3> QED BY <1>1, <2>3, <2>4, <2>5, <3>1
  <2> HIDE DEF oldest
  <2>7. oldest > now - Window
    BY <2>4 DEF oldest
  <2>8. RetryAfter(oldest) \in Nat /\ oldest + Window <= now + RetryAfter(oldest) * Second
    <3> DEFINE left == oldest + Window - now
               seconds == (left + Second - 1) \div Second
    <3>1. left \in Nat
      BY <1>1, <2>6, <2>7
    <3>2. seconds \in Nat /\ left <= seconds * Second
      <4> HIDE DEF left
      <4> QED BY <1>1, <3>1, RoundedUp
    <3>3. RetryAfter(oldest) = IF seconds > 1 THEN seconds ELSE 1
      BY DEF RetryAfter
    <3>4. CASE seconds > 1
      <4>1. RetryAfter(oldest) = seconds
        BY <3>3, <3>4
      <4>2. seconds * Second \in Nat
        <5> HIDE DEF seconds
        <5> QED BY <1>1, <3>2
      <4> HIDE DEF seconds
      <4> QED BY <1>1, <2>6, <3>2, <4>1, <4>2
    <3>5. CASE ~(seconds > 1)
      <4>1. RetryAfter(oldest) = 1
        BY <3>3, <3>5
      <4>2. seconds * Second <= Second
        <5>1. seconds = 0 \/ seconds = 1
          BY <3>2, <3>5
        <5> HIDE DEF seconds
        <5> QED BY <1>1, <5>1
      <4>3. left <= Second
        <5>1. seconds * Second \in Nat
          <6> HIDE DEF seconds
          <6> QED BY <1>1, <3>2
        <5> HIDE DEF seconds, left
        <5> QED BY <1>1, <3>1, <3>2, <4>2, <5>1
      <4>4. 1 * Second = Second
        BY <1>1
      <4> QED BY <1>1, <2>6, <4>1, <4>3, <4>4
    <3> QED BY <3>4, <3>5
  <2>9. refusal'.at = now /\ refusal'.wait = RetryAfter(oldest)
    BY <2>1 DEF oldest
  <2>10. RefusalKnown' <=>
            /\ refusal'.at <= now
            /\ refusal' # NoRefusal /\ (\A i \in 1..L : admissions[i] <= refusal'.at) =>
                 /\ Rpm # NoLimit
                 /\ L >= Rpm
                 /\ oldest + Window <= refusal'.at + refusal'.wait * Second
                 /\ refusal'.at = now => oldest > now - Window
    BY <2>1, <2>6 DEF RefusalKnown
  <2> QED BY <1>1, <2>3, <2>6, <2>7, <2>8, <2>9, <2>10
<1>4. ASSUME NEW r \in Requests, Admit(r), now' = now
      PROVE  RefusalKnown'
  <2> DEFINE L == Len(admissions)
  <2>1. /\ refusal' = refusal /\ admissions' = Append(admissions, now)
        /\ ~Reached(Len(Recent), Rpm)
    BY <1>4 DEF Admit
  <2>2. /\ Len(admissions') = L + 1 /\ admissions'[L + 1] = now
        /\ \A i \in 1..L : admissions'[i] = admissions[i]
    BY <1>1, <2>1, AppendProperties
  <2>3. ASSUME refusal # NoRefusal, \A i \in 1..(L + 1) : admissions'[i] <= refusal.at
        PROVE  FALSE
    <3>1. refusal.at = now
      <4>1. L + 1 \in 1..(L + 1) /\ refusal.at \in Nat
        BY <1>1
      <4>2. refusal.at <= now
        BY <1>1 DEF RefusalKnown
      <4> QED BY <1>1, <2>2, <2>3, <4>1, <4>2
    <3>2. \A i \in 1..L : admissions[i] <= refusal.at
      BY <1>1, <2>2, <2>3
    <3>3. Rpm # NoLimit /\ L >= Rpm /\ admissions[L - Rpm + 1] > now - Window
      BY <1>1, <2>3, <3>1, <3>2 DEF RefusalKnown
    <3> DEFINE lost == L - Len(Recent)
    <3>4. /\ lost \in Nat /\ Len(Recent) \in Nat
          /\ \A i \in 1..lost : admissions[i] <= now - Window
      BY RecentIsTail
    <3>5. ~(L - Rpm + 1 \in 1..lost)
      <4>1. L - Rpm + 1 \in 1..L
        BY <1>1, <3>3
      <4>2. admissions[L - Rpm + 1] \in Nat
        BY <1>1, <4>1
      <4>3. L - Rpm + 1 \in 1..lost => admissions[L - Rpm + 1] <= now - Window
        BY <3>4
      <4> QED BY <1>1, <3>3, <4>2, <4>3
    <3>6. Len(Recent) >= Rpm
      BY <1>1, <3>3, <3>4, <3>5
    <3> QED BY <2>1, <3>3, <3>6 DEF Reached
  <2> QED BY <1>1, <1>4, <2>1, <2>2, <2>3 DEF RefusalKnown
<1>5. CASE Tick
  <2>1. now' = now + 1 /\ admissions' = admissions /\ refusal' = refusal
    BY <1>5 DEF Tick
  <2> QED BY <1>1, <2>1 DEF RefusalKnown
<1>6. CASE Restart
  BY <1>1, <1>6 DEF Restart, RefusalKnown, NoRefusal
<1>7. \/ UNCHANGED <<now, admissions, refusal>> \/ Tick \/ Restart
      \/ RefuseTooFast /\ now' = now
      \/ \E r \in Requests : Admit(r) /\ now' = now
  BY DEF Next, vars, Arrive, RefuseExhausted, Finish, Snapshot
<1> QED BY <1>2, <1>3, <1>4, <1>5, <1>6, <1>7

(* ... and what the tokens in hand may still become. *)
(* The numbers of OvershootFits. *)
LEMMA InFlightTokens ==
  ASSUME LimitsInv
  PROVE  LET m == Max(TokenUse)
             n == Cardinality(Requests)
             k == Cardinality(inFlight)
         IN  /\ m * n \in Nat /\ m * k \in Nat /\ m * k <= m * n
             /\ k \in Nat /\ m \in Nat
<1>1. /\ Cardinality(Requests) \in Nat /\ Cardinality(inFlight) \in Nat
      /\ Cardinality(inFlight) <= Cardinality(Requests)
  BY LimitsAssumption, FS_Subset, FS_CardinalityType DEF LimitsInv, TypeOK
<1> QED BY <1>1, MostTokens, Products

LEMMA OvershootStep ==
  ASSUME LimitsInv, AllowanceInv', [Next]_vars
  PROVE  OvershootFits'
<1> DEFINE m == Max(TokenUse)
           most == m * Cardinality(Requests)
           running == m * Cardinality(inFlight)
<1>1. /\ m \in Nat /\ \A t \in TokenUse : t \in Nat /\ t <= m
      /\ most \in Nat /\ running \in Nat /\ running <= most
      /\ Cardinality(inFlight) \in Nat
  BY MostTokens, InFlightTokens, LimitsAssumption
<1>2. /\ TokensPerDay # NoLimit => TokensPerDay \in Nat \ {0}
      /\ TokensPerMonth # NoLimit => TokensPerMonth \in Nat \ {0}
  BY LimitsAssumption
<1>3. /\ TypeOK /\ OvershootFits /\ FutureEmpty /\ IsFiniteSet(inFlight)
      /\ IsFiniteSet(MonthToDate) /\ MonthToDate \in SUBSET Days /\ Today \in MonthToDate
      /\ Days \in SUBSET Nat /\ Today \in Days
      /\ \A d \in Days : tokensOn[d] \in Nat
      /\ TokensThisMonth \in Nat
  BY MonthTyped, TodayIsADay DEF LimitsInv
<1>4. ASSUME UNCHANGED <<now, tokensOn>>
      PROVE  /\ Today' = Today /\ MonthToDate' = MonthToDate
             /\ TokensThisMonth' = TokensThisMonth
  BY <1>4 DEF Today, MonthToDate, TokensThisMonth
<1>5. CASE UNCHANGED <<now, tokensOn, inFlight>>
  BY <1>3, <1>4, <1>5 DEF OvershootFits
<1>6. ASSUME NEW r \in Requests, r \notin inFlight, Admit(r), UNCHANGED <<now, tokensOn>>
      PROVE  OvershootFits'
  <2>1. /\ TokensPerDay # NoLimit => tokensOn[Today] < TokensPerDay
        /\ TokensPerMonth # NoLimit => TokensThisMonth < TokensPerMonth
    <3>1. ~Reached(tokensOn[Today], TokensPerDay) /\ ~Reached(TokensThisMonth, TokensPerMonth)
      BY <1>6 DEF Admit, BudgetExhausted, TokensToday
    <3>2. tokensOn[Today] \in Nat /\ TokensThisMonth \in Nat
      BY <1>3
    <3> QED BY <1>2, <3>1, <3>2 DEF Reached
  <2>2. m * Cardinality(inFlight') \in Nat /\ m * Cardinality(inFlight') <= most
    <3>1. inFlight' \in SUBSET Requests
      BY DEF AllowanceInv, TypeOK
    <3>2. /\ Cardinality(Requests) \in Nat /\ Cardinality(inFlight') \in Nat
          /\ Cardinality(inFlight') <= Cardinality(Requests)
      BY <3>1, LimitsAssumption, FS_Subset, FS_CardinalityType
    <3> QED BY <1>1, <3>2, Products
  <2> HIDE DEF most, m
  <2>3. TokensPerDay # NoLimit => \A d \in Days : tokensOn[d] < TokensPerDay + most
    BY <1>3 DEF OvershootFits, most, m
  <2> QED BY <1>1, <1>2, <1>3, <1>4, <1>6, <2>1, <2>2, <2>3 DEF OvershootFits, most, m
<1>7. ASSUME NEW r \in Requests, NEW tokens \in TokenUse, NEW recorded \in BOOLEAN,
             Finish(r, tokens, recorded)
      PROVE  OvershootFits'
  <2>1. /\ r \in inFlight /\ now' = now /\ inFlight' = inFlight \ {r} /\ Today' = Today
        /\ MonthToDate' = MonthToDate
    BY <1>7 DEF Finish, Release, Today, MonthToDate
  <2>2. m * Cardinality(inFlight') = running - m /\ running - m \in Nat
    <3>1. Cardinality(inFlight') = Cardinality(inFlight) - 1 /\ Cardinality(inFlight) >= 1
      BY <2>1, InFlightCounts
    <3>2. Cardinality(inFlight') \in Nat /\ Cardinality(inFlight) = Cardinality(inFlight') + 1
      BY <1>1, <3>1
    <3>3. m * Cardinality(inFlight') \in Nat /\ running = m * Cardinality(inFlight') + m
      BY <1>1, <3>2, Products
    <3> HIDE DEF running, m
    <3> QED BY <1>1, <3>3
  <2>3. PICK n \in {0, tokens} : /\ tokensOn'[Today] = tokensOn[Today] + n
                                 /\ \A d \in Days : d # Today => tokensOn'[d] = tokensOn[d]
    <3>1. CASE tokensOn' = tokensOn
      BY <1>3, <3>1
    <3>2. CASE tokensOn' = [tokensOn EXCEPT ![Today] = @ + tokens]
      BY <1>3, <3>2 DEF TypeOK
    <3> QED BY <1>7, <3>1, <3>2 DEF Finish, store
  <2>4. n \in Nat /\ n <= m
    BY <1>1, <2>3
  <2>5. TokensThisMonth' = TokensThisMonth + n
    <3>1. TokensThisMonth' = Total(tokensOn', MonthToDate)
      BY <2>1 DEF TokensThisMonth
    <3>2. /\ \A d \in MonthToDate : tokensOn[d] \in Nat
          /\ \A d \in MonthToDate : tokensOn'[d] \in Nat
          /\ \A d \in MonthToDate \ {Today} : tokensOn'[d] = tokensOn[d]
      BY <1>3, <2>3, <2>4
    <3>3. Total(tokensOn', MonthToDate) = Total(tokensOn, MonthToDate) + n
      <4> DEFINE f == tokensOn
                 g == tokensOn'
                 S == MonthToDate
      <4>1. /\ IsFiniteSet(S) /\ Today \in S /\ n \in Nat /\ g[Today] = f[Today] + n
            /\ \A y \in S : f[y] \in Nat
            /\ \A y \in S : g[y] \in Nat
            /\ \A y \in S \ {Today} : g[y] = f[y]
        BY <1>3, <2>3, <2>4, <3>2
      <4> HIDE DEF f, g, S
      <4>2. Total(g, S) = Total(f, S) + n
        BY <4>1, TotalRaised
      <4> QED BY <4>2 DEF f, g, S
    <3> QED BY <3>1, <3>3 DEF TokensThisMonth
  <2>6. /\ TokensPerDay # NoLimit =>
              /\ \A d \in Days : tokensOn[d] < TokensPerDay + most
              /\ tokensOn[Today] + running < TokensPerDay + most
        /\ TokensPerMonth # NoLimit => TokensThisMonth + running < TokensPerMonth + most
    BY <1>3 DEF OvershootFits
  <2> HIDE DEF running
  <2>7. ASSUME TokensPerDay # NoLimit
        PROVE  /\ \A d \in Days : tokensOn'[d] < TokensPerDay + most
               /\ tokensOn'[Today] + (running - m) < TokensPerDay + most
    <3> HIDE DEF most, m
    <3>1. tokensOn[Today] + n + (running - m) < TokensPerDay + most
      BY <1>1, <1>2, <1>3, <2>4, <2>6, <2>7
    <3>2. tokensOn[Today] + n < TokensPerDay + most
      BY <1>1, <1>2, <1>3, <2>2, <2>4, <2>7, <3>1
    <3> QED BY <2>3, <2>6, <2>7, <3>1, <3>2
  <2>8. ASSUME TokensPerMonth # NoLimit
        PROVE  TokensThisMonth' + (running - m) < TokensPerMonth + most
    <3> HIDE DEF most, m
    <3> QED BY <1>1, <1>2, <1>3, <2>4, <2>5, <2>6, <2>8
  <2> QED BY <2>1, <2>2, <2>7, <2>8 DEF OvershootFits
<1>8. CASE Tick
  <2>1. now' = now + 1 /\ tokensOn' = tokensOn /\ inFlight' = inFlight
    BY <1>8 DEF Tick, memory, store
  <2>2. Today \in Nat /\ Today' \in Nat /\ Today <= Today' /\ Today' \in Days
    <3>1. now \in Nat /\ now + 1 \in Nat /\ now <= now + 1
      BY <1>3 DEF TypeOK
    <3>2. /\ DayOf(now) \in Nat /\ DayOf(now + 1) \in Nat /\ DayOf(now) <= DayOf(now + 1)
      BY <3>1, DaysPass
    <3>3. now + 1 <= MaxTime /\ MaxTime \in Nat
      BY <1>3, <1>8, LimitsAssumption DEF Tick, TypeOK
    <3>4. DayOf(now + 1) <= DayOf(MaxTime) /\ DayOf(MaxTime) \in Nat
      BY <3>1, <3>3, DaysPass
    <3> QED BY <2>1, <3>2, <3>4 DEF Today, Days
  <2>3. \A d \in Days : d > Today => tokensOn[d] = 0
    BY <1>3 DEF FutureEmpty
  <2>4. tokensOn[Today'] = tokensOn[Today] \/ tokensOn[Today'] = 0
    BY <2>2, <2>3
  <2>5. /\ MonthToDate' = {d \in Days : /\ d <= Today'
                                        /\ d \div DaysPerMonth = Today' \div DaysPerMonth}
        /\ TokensThisMonth' = Total(tokensOn, MonthToDate')
    BY <2>1 DEF MonthToDate, TokensThisMonth
  <2>6. IsFiniteSet(MonthToDate') /\ \A d \in MonthToDate' : d \in Days /\ tokensOn[d] \in Nat
    <3>1. MonthToDate' \in SUBSET Days
      BY <2>5
    <3>2. IsFiniteSet(Days)
      <4>1. DayOf(MaxTime) \in Nat
        BY LimitsAssumption, DaysPass
      <4> QED BY <4>1, FS_Interval DEF Days
    <3> QED BY <1>3, <3>1, <3>2, FS_Subset
  <2>7. TokensThisMonth' = TokensThisMonth \/ TokensThisMonth' = 0
    <3>1. CASE Today' \div DaysPerMonth = Today \div DaysPerMonth
      <4>1. MonthToDate \in SUBSET MonthToDate'
        <5>1. ASSUME NEW d \in MonthToDate
              PROVE  d \in MonthToDate'
          <6>1. /\ d \in Days /\ d \in Nat /\ d <= Today
                /\ d \div DaysPerMonth = Today \div DaysPerMonth
            BY <1>3 DEF MonthToDate
          <6>2. d <= Today'
            BY <2>2, <6>1
          <6> QED BY <2>5, <3>1, <6>1, <6>2
        <5> QED BY <5>1
      <4>2. \A d \in MonthToDate' \ MonthToDate : tokensOn[d] = 0
        BY <1>3, <2>2, <2>3, <2>5, <3>1 DEF MonthToDate
      <4>3. Total(tokensOn, MonthToDate') = Total(tokensOn, MonthToDate)
        BY <2>6, <4>1, <4>2, TotalOfZeros
      <4> QED BY <2>5, <4>3 DEF TokensThisMonth
    <3>2. CASE Today' \div DaysPerMonth # Today \div DaysPerMonth
      <4>1. \A d \in MonthToDate' : tokensOn[d] = 0
        <5> SUFFICES ASSUME NEW d \in MonthToDate', d <= Today
                     PROVE  FALSE
          <6>1. \A d \in MonthToDate' : d \in Nat /\ d \in Days
            BY <1>3, <2>6
          <6> QED BY <2>2, <2>3, <6>1
        <5>1. d \in Nat /\ d \div DaysPerMonth = Today' \div DaysPerMonth
          BY <1>3, <2>5
        <5>2. /\ d \div DaysPerMonth \in Nat /\ Today \div DaysPerMonth \in Nat
              /\ Today' \div DaysPerMonth \in Nat
              /\ d \div DaysPerMonth <= Today \div DaysPerMonth
              /\ Today \div DaysPerMonth <= Today' \div DaysPerMonth
          BY <2>2, <5>1, QuotientGrows, LimitsAssumption
        <5> QED BY <3>2, <5>1, <5>2
      <4>2. Total(tokensOn, MonthToDate') = Total(tokensOn, {})
        BY <2>6, <4>1, TotalOfZeros
      <4>3. Total(tokensOn, {}) = 0
        BY FS_EmptySet, TotalIsCount, UnitsOfNone
      <4> QED BY <2>5, <4>2, <4>3
    <3> QED BY <3>1, <3>2
  <2>8. /\ TokensPerDay # NoLimit =>
              /\ \A d \in Days : tokensOn[d] < TokensPerDay + most
              /\ tokensOn[Today] + running < TokensPerDay + most
        /\ TokensPerMonth # NoLimit => TokensThisMonth + running < TokensPerMonth + most
    BY <1>3 DEF OvershootFits
  <2> HIDE DEF running, most
  <2>9. TokensPerDay # NoLimit => tokensOn[Today'] + running < TokensPerDay + most
    BY <1>1, <1>2, <2>4, <2>8
  <2>10. TokensPerMonth # NoLimit => TokensThisMonth' + running < TokensPerMonth + most
    BY <1>1, <1>2, <2>7, <2>8
  <2> QED BY <2>1, <2>8, <2>9, <2>10 DEF OvershootFits, running, most
<1>9. CASE Restart
  <2>1. inFlight' = {} /\ now' = now /\ tokensOn' = tokensOn
    BY <1>9 DEF Restart, store
  <2>2. m * Cardinality(inFlight') = 0
    BY <1>1, <2>1, FS_EmptySet, Products
  <2>3. /\ TokensPerDay # NoLimit =>
              /\ \A d \in Days : tokensOn[d] < TokensPerDay + most
              /\ tokensOn[Today] + running < TokensPerDay + most
        /\ TokensPerMonth # NoLimit => TokensThisMonth + running < TokensPerMonth + most
    BY <1>3 DEF OvershootFits
  <2> HIDE DEF running, most, m
  <2>4. /\ TokensPerDay # NoLimit => tokensOn[Today] + 0 < TokensPerDay + most
        /\ TokensPerMonth # NoLimit => TokensThisMonth + 0 < TokensPerMonth + most
    BY <1>1, <1>2, <1>3, <2>3
  <2> QED BY <1>4, <2>1, <2>2, <2>3, <2>4 DEF OvershootFits, most, m
<1>10. \/ UNCHANGED <<now, tokensOn, inFlight>> \/ Tick \/ Restart
       \/ \E r \in Requests : r \notin inFlight /\ Admit(r) /\ UNCHANGED <<now, tokensOn>>
       \/ \E r \in Requests, tokens \in TokenUse, recorded \in BOOLEAN :
             Finish(r, tokens, recorded)
  BY DEF Next, vars, memory, store, Arrive, RefuseExhausted, RefuseTooFast, Snapshot
<1> QED BY <1>5, <1>6, <1>7, <1>8, <1>9, <1>10

LEMMA StepKeepsInv == LimitsInv /\ [Next]_vars => LimitsInv'
<1>1. AllowanceInv' /\ RefusalKnown' /\ OvershootFits' => LimitsInv'
  BY DEF AllowanceInv, LimitsInv
<1> QED BY <1>1, AllowanceStep, RefusalStep, OvershootStep

(* The whole bookkeeping of the limits is right in every reachable state.  *)
THEOREM LimitsInvariant == Spec => []LimitsInv
<1> QED BY InitHasInv, StepKeepsInv, PTL DEF Spec

(* A key never gets more than rpd requests recorded on any day, whatever   *)
(* runs over midnight and whenever the hub restarts (limits.ts:50-53).     *)
THEOREM DailyAllowanceHolds == Spec => []DailyAllowance
<1>1. LimitsInv => DailyAllowance
  BY DEF LimitsInv
<1> QED BY <1>1, LimitsInvariant, PTL

(* No window of 60 seconds sees more than rpm admissions of a key between  *)
(* two restarts (limits.ts:63-74, 86-92).                                  *)
THEOREM SlidingWindowHolds == Spec => []SlidingWindow
<1>1. LimitsInv => SlidingWindow
  BY DEF LimitsInv
<1> QED BY <1>1, LimitsInvariant, PTL

(* A key's tokens pass its budget by no more than what all its requests    *)
(* together can use, on any day and in any month (limits.ts:54-61).        *)
THEOREM TokenOvershootHolds == Spec => []TokenOvershoot
<1>1. ASSUME LimitsInv
      PROVE  TokenOvershoot
  <2> DEFINE m == Max(TokenUse)
             most == m * Cardinality(Requests)
             running == m * Cardinality(inFlight)
  <2>1. most \in Nat /\ running \in Nat
    BY <1>1, InFlightTokens
  <2>2. TokensThisMonth \in Nat
    BY <1>1, MonthTyped DEF LimitsInv
  <2>3. /\ TokensPerDay # NoLimit => \A d \in Days : tokensOn[d] < TokensPerDay + most
        /\ TokensPerMonth # NoLimit => TokensThisMonth + running < TokensPerMonth + most
    BY <1>1 DEF LimitsInv, OvershootFits
  <2> HIDE DEF most, running
  <2>4. TokensPerMonth # NoLimit => TokensThisMonth < TokensPerMonth + most
    BY <2>1, <2>2, <2>3, LimitsAssumption
  <2> QED BY <2>3, <2>4 DEF TokenOvershoot, most, m
<1> QED BY <1>1, LimitsInvariant, PTL

(* Retry-After tells a client long enough: when that time is over and no   *)
(* other request of the key came in, the window has room (limits.ts:63-72).*)
THEOREM RetryAfterIsEnoughHolds == Spec => []RetryAfterIsEnough
<1>1. ASSUME LimitsInv
      PROVE  RetryAfterIsEnough
  <2> DEFINE then == refusal.at + refusal.wait * Second
             e == Expired(then)
             L == Len(admissions)
             n == Len(stamps)
  <2> SUFFICES ASSUME refusal # NoRefusal, \A i \in 1..L : admissions[i] <= refusal.at
               PROVE  ~Reached(Len(RecentAt(then)), Rpm)
    <3>1. DOMAIN admissions = 1..L
      BY <1>1 DEF LimitsInv, TypeOK
    <3> QED BY <3>1 DEF RetryAfterIsEnough
  <2>1. /\ stamps \in Seq(Nat) /\ n \in Nat /\ L \in Nat /\ Window \in Nat
        /\ admissions \in Seq(Nat)
        /\ refusal.at \in Nat /\ refusal.wait \in Nat /\ Second \in Nat
    BY <1>1, LimitsAssumption DEF LimitsInv, TypeOK
  <2>2. then \in Nat
    BY <2>1
  <2>3. /\ Rpm # NoLimit /\ Rpm \in Nat \ {0} /\ L >= Rpm
        /\ admissions[L - Rpm + 1] + Window <= then
    BY <1>1, LimitsAssumption DEF LimitsInv, RefusalKnown
  <2> HIDE DEF then
  <2>4. /\ e \in Nat /\ e <= n
        /\ e < n => stamps[e + 1] > then - Window
    <3>1. /\ Expired(then) \in 0..Len(stamps)
          /\ Expired(then) < Len(stamps) => stamps[Expired(then) + 1] > then - Window
      BY <2>1, <2>2, ExpiredExists
    <3> QED BY <2>1, <3>1
  <2>5. Len(RecentAt(then)) = n - e
    <3> HIDE DEF e, n
    <3>1. Len(SubSeq(stamps, e + 1, n)) = n - e
      <4>1. n = Len(stamps)
        BY DEF n
      <4> QED BY <2>1, <2>4, <4>1
    <3>2. RecentAt(then) = SubSeq(stamps, e + 1, n)
      BY DEF RecentAt, e, n
    <3> QED BY <3>1, <3>2
  <2> HIDE DEF e
  <2>6. /\ L - n \in Nat
        /\ \A i \in 1..n : stamps[i] = admissions[(L - n) + i]
        /\ \A i, j \in 1..L : i <= j => admissions[i] <= admissions[j]
    BY <1>1 DEF LimitsInv, WindowIsTail
  <2> HIDE DEF n, L
  <2>7. n - e < Rpm
    <3> SUFFICES ASSUME n - e >= Rpm
                 PROVE  FALSE
      BY <2>1, <2>3, <2>4
    <3>1. e < n /\ e + 1 \in 1..n /\ (L - n) + (e + 1) \in 1..L /\ L - Rpm + 1 \in 1..L
          /\ (L - n) + (e + 1) <= L - Rpm + 1
      BY <2>1, <2>3, <2>4, <2>6
    <3>2. /\ stamps[e + 1] = admissions[(L - n) + (e + 1)]
          /\ admissions[(L - n) + (e + 1)] <= admissions[L - Rpm + 1]
      BY <2>6, <3>1
    <3>3. admissions[L - Rpm + 1] \in Nat /\ stamps[e + 1] \in Nat
      BY <2>1, <3>1 DEF L, n
    <3> QED BY <2>1, <2>2, <2>3, <2>4, <3>1, <3>2, <3>3
  <2> QED BY <2>1, <2>3, <2>4, <2>5, <2>7 DEF Reached
<1> QED BY <1>1, LimitsInvariant, PTL

-----------------------------------------------------------------------------
(* The chat: what is known of it in every state.                           *)
(* What the variables hold. *)
AnyId == Nat \cup Ids
AnyFn == Functions \cup {NoFunction}
BlockSet == [type : Types, id : AnyId, body : Seq(Nat), signed : BOOLEAN, fn : AnyFn]
CallSet == [id : AnyId, fn : AnyFn, args : Seq(Nat), signed : BOOLEAN]
MessageSet == [role : {"user", "assistant", "tool"}, text : Seq(Nat), details : Seq(BlockSet),
               calls : Seq(CallSet), of : AnyId, name : AnyFn]
TurnSet == [role : {"user", "assistant"}, content : Seq(BlockSet)]

(* A message as the client writes it. *)
Written(m) ==
    /\ m \in MessageSet
    /\ m.role # "assistant" => m.calls = <<>>
    /\ m.role # "tool" => m.of = 0
    /\ m.name = NoFunction
    /\ \A i \in DOMAIN m.details : IsThinking(m.details[i])
    /\ \A k \in DOMAIN m.calls : m.calls[k].id # 0

(* The tool results of the chat belong to calls of the turn before them. *)
ResultsBelong(messages) ==
    \A i \in DOMAIN messages : messages[i].role = "tool" =>
       \E j \in 1 .. i - 1 :
          /\ \E k \in DOMAIN messages[j].calls : messages[j].calls[k].id = messages[i].of
          /\ \A h \in j + 1 .. i - 1 : messages[h].role # "assistant"

(* Turns as Anthropic insists on them: the ids a turn uses and answers. *)
UsesOf(t) == {t.content[i].id : i \in {j \in DOMAIN t.content : IsToolUse(t.content[j])}}
ResultsOf(t) == {t.content[i].id : i \in {j \in DOMAIN t.content : IsResult(t.content[j])}}

GoodTurn(t) ==
    /\ t.content # <<>>
    /\ \A j, k \in DOMAIN t.content :
          j < k /\ IsResult(t.content[k]) => IsResult(t.content[j])
    /\ t.role = "user" => UsesOf(t) = {}
    /\ t.role = "assistant" => ResultsOf(t) = {}

(* Every use has its result in the next turn, but for the open ones. *)
AnsweredUses(turns, open) ==
    \A i \in DOMAIN turns : \A id \in UsesOf(turns[i]) :
       \/ i < Len(turns) /\ id \in ResultsOf(turns[i + 1])
       \/ /\ id \in open
          /\ i = Len(turns) \/ (i = Len(turns) - 1 /\ turns[Len(turns)].role = "user")

GoodTurns(turns, open) ==
    /\ turns \in Seq(TurnSet)
    /\ \A i \in DOMAIN turns : GoodTurn(turns[i])
    /\ \A i \in 1 .. Len(turns) - 1 : ~ (turns[i].role = "user" /\ turns[i + 1].role = "user")
    /\ AnsweredUses(turns, open)

(* What the assistant said is a turn. *)
Echoed(messages, turns) ==
    \A j \in DOMAIN messages :
       messages[j].role = "assistant" /\ AssistantBlocks(messages[j]) # <<>> =>
          \E i \in DOMAIN turns :
             turns[i].role = "assistant" /\ turns[i].content = AssistantBlocks(messages[j])

(* The calls of the last answer that no result has answered yet. *)
SpokenIn(messages) == {i \in DOMAIN messages : messages[i].role = "assistant"}
IdsOf(m) == {m.calls[k].id : k \in DOMAIN m.calls}
OpenCalls(messages) ==
    IF SpokenIn(messages) = {} THEN {}
    ELSE IdsOf(messages[Max(SpokenIn(messages))])
         \ {messages[i].of : i \in Max(SpokenIn(messages)) + 1 .. Len(messages)}

(* A chat that the hub can be given. *)
ChatGood(messages) ==
    /\ messages \in Seq(MessageSet)
    /\ \A i \in DOMAIN messages : Written(messages[i])
    /\ ResultsBelong(messages)
    /\ GoodTurns(Turns(messages), OpenCalls(messages))
    /\ Echoed(messages, Turns(messages))

ChatKnown == ChatGood(chat)

(* A block as an upstream sends it. *)
Sent(b) ==
    /\ b \in BlockSet
    /\ b.type # "tool_result" /\ b.id \in Nat \ {0}
    /\ \A k \in DOMAIN b.body : b.body[k] = b.id
    /\ b.signed => b.type = "thinking"
    /\ b.type # "tool_use" => b.fn = NoFunction

(* The turn that says what the upstream said. *)
Expected(blocks) ==
    LET text == Texts(blocks, "text")
    IN (IF keeps THEN Details(blocks) ELSE <<>>)
       \o (IF text = <<>> THEN <<>> ELSE <<Block("text", 0, text)>>)
       \o ToolUses(blocks)

AnswerSet == [message : Nat, blocks : Seq(BlockSet)]
AnswersTyped == answers \in Seq(AnswerSet)

(* The client's message says what the answer said. *)
Kept(answer, messages) ==
    answer.message # 0 =>
       /\ answer.message \in DOMAIN messages
       /\ messages[answer.message].role = "assistant"
       /\ AssistantBlocks(messages[answer.message]) = Expected(answer.blocks)

(* Every answer taken is in the chat, and the numbers of blocks are bounded. *)
AnswersKnown ==
    /\ AnswersTyped
    /\ \A i \in DOMAIN answers : Kept(answers[i], chat)
    /\ Used + Len(upstream.blocks) <= MaxBlocks

(* While anything is asked or answered there is a request and no call of the *)
(* chat is open; until the answer begins it is the translation of the chat.  *)
Running == upstream.at # "none" => request # <<>>

RequestKnown ==
    /\ asked \in 0 .. MaxRequests /\ keeps \in BOOLEAN
    /\ Running
    /\ request # <<>> => OpenCalls(chat) = {}
    /\ upstream.at = "asked" =>
          \/ \E schema \in Schemas : request = AdaptRequestForGemini(schema)
          \/ \E budget \in Budgets \cup {0}, limit \in Limits \cup {0}, extras \in Extras :
                request = ToAnthropicRequest(budget, limit, extras)

(* How far a stream is: its blocks, what the translator remembers of them, *)
(* and what the client has of them.                                        *)
Places ==
    {"none", "asked", "whole", "between", "open", "stopping", "stopped", "unexplained"}
Streamed == {"between", "open", "stopping", "stopped", "unexplained"}

NowOpen(at, blocks, type) == at = "open" /\ blocks[Len(blocks)].type = type

(* Thinking becomes a detail only when its block is complete. *)
Closed(at, blocks) == IF NowOpen(at, blocks, "thinking") THEN Front(blocks) ELSE blocks

(* The client has of every tool use what has come of it, under its index. *)
CallsKnown(calls, uses) ==
    /\ DOMAIN calls = 0 .. Len(uses) - 1
    /\ \A i \in DOMAIN uses :
          calls[i - 1] = Call(uses[i].id, uses[i].fn, uses[i].body, FALSE)

GotKnown(at, blocks, g) ==
    /\ g.text = Texts(blocks, "text")
    /\ g.reasoning = Texts(blocks, "thinking")
    /\ g.details = Details(Closed(at, blocks))
    /\ CallsKnown(g.calls, ToolUses(blocks))
    /\ g.finish <=> at \in {"stopped", "unexplained"}

TranslatorKnown(at, blocks, t) ==
    LET uses == ToolUses(blocks)
        last == Len(blocks)
    IN  /\ t.started
        /\ t.finish <=> at \in {"stopping", "stopped"}
        /\ DOMAIN t.toolIndex \subseteq DOMAIN blocks
        /\ IsFiniteSet(DOMAIN t.toolIndex)
        /\ Cardinality(DOMAIN t.toolIndex) = Len(uses)
        /\ DOMAIN t.thinking \subseteq {i \in DOMAIN blocks : blocks[i].type = "thinking"}
        /\ at = "open" => blocks # <<>>
        /\ NowOpen(at, blocks, "tool_use") =>
              last \in DOMAIN t.toolIndex /\ t.toolIndex[last] = Len(uses) - 1
        /\ NowOpen(at, blocks, "thinking") =>
              /\ last \in DOMAIN t.thinking
              /\ t.thinking[last] = [text |-> blocks[last].body, signed |-> blocks[last].signed]

Shaped(t, g) ==
    /\ g = [text |-> g.text, reasoning |-> g.reasoning, details |-> g.details,
            calls |-> g.calls, finish |-> g.finish]
    /\ t = [started |-> t.started, finish |-> t.finish,
            toolIndex |-> t.toolIndex, thinking |-> t.thinking]
    /\ g.finish \in BOOLEAN /\ t.finish \in BOOLEAN /\ t.started \in BOOLEAN

Stream(at, blocks, t, g) ==
    /\ at \in Places
    /\ blocks \in Seq(BlockSet)
    /\ \A i \in DOMAIN blocks : Sent(blocks[i])
    /\ Len(ToolUses(blocks)) <= Len(blocks)
    /\ at \in {"none", "asked"} => blocks = <<>>
    /\ at \notin Streamed => t = NewTranslator /\ g = Nothing
    /\ at \in Streamed => Shaped(t, g) /\ GotKnown(at, blocks, g) /\ TranslatorKnown(at, blocks, t)

StreamKnown ==
    /\ upstream = [at |-> upstream.at, blocks |-> upstream.blocks]
    /\ Stream(upstream.at, upstream.blocks, translator, got)

(* The inductive invariant. *)
ConversationKnown == ChatKnown /\ AnswersKnown /\ RequestKnown /\ StreamKnown

-----------------------------------------------------------------------------
(* Filters of blocks.                                                      *)

LEMMA IfIs ==
  ASSUME NEW S, NEW b \in S, NEW kept \in BOOLEAN
  PROVE  /\ If(kept, b) \in Seq(S)
         /\ kept => If(kept, b) = <<b>>
         /\ ~kept => If(kept, b) = <<>>
         /\ \A k \in DOMAIN If(kept, b) : kept /\ If(kept, b)[k] = b
         /\ kept => \E k \in DOMAIN If(kept, b) : If(kept, b)[k] = b
<1>1. <<b>> \in Seq(S) /\ DOMAIN <<b>> = {1} /\ <<b>>[1] = b /\ <<>> \in Seq(S) /\ DOMAIN <<>> = {}
  OBVIOUS
<1>2. CASE kept
  BY <1>1, <1>2 DEF If
<1>3. CASE ~kept
  BY <1>1, <1>3 DEF If
<1> QED BY <1>2, <1>3

(* Each kind of block, and what it gives. *)
UseIf == [b \in BlockSet |-> If(IsToolUse(b), b)]
ResultIf == [b \in BlockSet |-> If(IsResult(b), b)]
OtherIf == [b \in BlockSet |-> If(~IsResult(b), b)]
DetailIf == [b \in BlockSet |-> If(IsDetail(b), b)]
TextIf(type) == [b \in BlockSet |-> IF b.type = type THEN b.body ELSE <<>>]

(* Each kind as a function of a block, so that a filter is a collection. *)
LEMMA KindsAreFunctions ==
  /\ Gives(UseIf, BlockSet, BlockSet) /\ Gives(ResultIf, BlockSet, BlockSet)
  /\ Gives(OtherIf, BlockSet, BlockSet) /\ Gives(DetailIf, BlockSet, BlockSet)
  /\ \A type : Gives(TextIf(type), BlockSet, Nat)
<1>1. \A b \in BlockSet : /\ If(IsToolUse(b), b) \in Seq(BlockSet)
                          /\ If(IsResult(b), b) \in Seq(BlockSet)
                          /\ If(~IsResult(b), b) \in Seq(BlockSet)
                          /\ If(IsDetail(b), b) \in Seq(BlockSet)
  BY IfIs DEF IsToolUse, IsResult, IsDetail, BlockSet
<1>2. \A b \in BlockSet : b.body \in Seq(Nat)
  BY DEF BlockSet
<1>3. <<>> \in Seq(Nat)
  OBVIOUS
<1> QED BY <1>1, <1>2, <1>3 DEF UseIf, ResultIf, OtherIf, DetailIf, TextIf, Gives

(* The filters of the model are collections. *)
LEMMA ToolUsesAre ==
  ASSUME NEW blocks \in Seq(BlockSet)
  PROVE  ToolUses(blocks) = Collected(UseIf, blocks)
<1>1. \A i \in DOMAIN blocks : blocks[i] \in BlockSet
  OBVIOUS
<1> QED BY <1>1 DEF ToolUses, UseIf, Collected, Parts

LEMMA ResultsAre ==
  ASSUME NEW blocks \in Seq(BlockSet)
  PROVE  Results(blocks) = Collected(ResultIf, blocks)
<1>1. \A i \in DOMAIN blocks : blocks[i] \in BlockSet
  OBVIOUS
<1> QED BY <1>1 DEF Results, ResultIf, Collected, Parts

LEMMA OthersAre ==
  ASSUME NEW blocks \in Seq(BlockSet)
  PROVE  Others(blocks) = Collected(OtherIf, blocks)
<1>1. \A i \in DOMAIN blocks : blocks[i] \in BlockSet
  OBVIOUS
<1> QED BY <1>1 DEF Others, OtherIf, Collected, Parts

LEMMA DetailsAre ==
  ASSUME NEW blocks \in Seq(BlockSet)
  PROVE  Details(blocks) = Collected(DetailIf, blocks)
<1>1. \A i \in DOMAIN blocks : blocks[i] \in BlockSet
  OBVIOUS
<1> QED BY <1>1 DEF Details, DetailIf, Collected, Parts

LEMMA TextsAre ==
  ASSUME NEW blocks \in Seq(BlockSet), NEW type
  PROVE  Texts(blocks, type) = Collected(TextIf(type), blocks)
<1>1. \A i \in DOMAIN blocks : blocks[i] \in BlockSet
  OBVIOUS
<1> QED BY <1>1 DEF Texts, TextIf, Collected, Parts

LEMMA KindsOfNone ==
  /\ ToolUses(<<>>) = <<>> /\ Results(<<>>) = <<>> /\ Others(<<>>) = <<>> /\ Details(<<>>) = <<>>
  /\ \A type : Texts(<<>>, type) = <<>>
<1>1. <<>> \in Seq(BlockSet)
  OBVIOUS
<1> QED BY <1>1, ToolUsesAre, ResultsAre, OthersAre, DetailsAre, TextsAre, CollectedNone

(* One block more. *)
LEMMA KindsAppend ==
  ASSUME NEW blocks \in Seq(BlockSet), NEW b \in BlockSet
  PROVE  /\ ToolUses(Append(blocks, b)) = ToolUses(blocks) \o If(IsToolUse(b), b)
         /\ Details(Append(blocks, b)) = Details(blocks) \o If(IsDetail(b), b)
         /\ \A type : Texts(Append(blocks, b), type) =
                         Texts(blocks, type) \o (IF b.type = type THEN b.body ELSE <<>>)
         /\ ToolUses(blocks) \in Seq(BlockSet) /\ Details(blocks) \in Seq(BlockSet)
         /\ \A type : Texts(blocks, type) \in Seq(Nat)
<1>1. Append(blocks, b) \in Seq(BlockSet)
  OBVIOUS
<1>2. UseIf[b] = If(IsToolUse(b), b) /\ DetailIf[b] = If(IsDetail(b), b)
      /\ \A type : TextIf(type)[b] = IF b.type = type THEN b.body ELSE <<>>
  BY DEF UseIf, DetailIf, TextIf
<1>3. /\ Collected(UseIf, Append(blocks, b)) = Collected(UseIf, blocks) \o UseIf[b]
      /\ Collected(UseIf, blocks) \in Seq(BlockSet)
  <2>1. Grows(UseIf, blocks, b) /\ Collected(UseIf, blocks) \in Seq(BlockSet)
    BY KindsAreFunctions, CollectedAppend
  <2> QED BY <2>1 DEF Grows
<1>4. /\ Collected(DetailIf, Append(blocks, b)) = Collected(DetailIf, blocks) \o DetailIf[b]
      /\ Collected(DetailIf, blocks) \in Seq(BlockSet)
  <2>1. Grows(DetailIf, blocks, b) /\ Collected(DetailIf, blocks) \in Seq(BlockSet)
    BY KindsAreFunctions, CollectedAppend
  <2> QED BY <2>1 DEF Grows
<1>5. ASSUME NEW type
      PROVE  /\ Collected(TextIf(type), Append(blocks, b)) = Collected(TextIf(type), blocks) \o TextIf(type)[b]
             /\ Collected(TextIf(type), blocks) \in Seq(Nat)
  <2>1. Grows(TextIf(type), blocks, b) /\ Collected(TextIf(type), blocks) \in Seq(Nat)
    BY KindsAreFunctions, CollectedAppend
  <2> QED BY <2>1 DEF Grows
<1>6. ToolUses(blocks) = Collected(UseIf, blocks) /\ ToolUses(Append(blocks, b)) = Collected(UseIf, Append(blocks, b))
  BY <1>1, ToolUsesAre
<1>7. Details(blocks) = Collected(DetailIf, blocks) /\ Details(Append(blocks, b)) = Collected(DetailIf, Append(blocks, b))
  BY <1>1, DetailsAre
<1>8. ASSUME NEW type
      PROVE  /\ Texts(blocks, type) = Collected(TextIf(type), blocks)
             /\ Texts(Append(blocks, b), type) = Collected(TextIf(type), Append(blocks, b))
  BY <1>1, TextsAre
<1> QED BY <1>2, <1>3, <1>4, <1>5, <1>6, <1>7, <1>8

(* A turn's blocks, results first. *)
LEMMA Partition ==
  ASSUME NEW blocks \in Seq(BlockSet)
  PROVE  /\ Results(blocks) \in Seq(BlockSet) /\ Others(blocks) \in Seq(BlockSet)
         /\ \A i \in DOMAIN Results(blocks) :
               IsResult(Results(blocks)[i]) /\ \E j \in DOMAIN blocks : Results(blocks)[i] = blocks[j]
         /\ \A i \in DOMAIN Others(blocks) :
               ~IsResult(Others(blocks)[i]) /\ \E j \in DOMAIN blocks : Others(blocks)[i] = blocks[j]
         /\ \A j \in DOMAIN blocks : IsResult(blocks[j]) =>
               \E i \in DOMAIN Results(blocks) : Results(blocks)[i] = blocks[j]
         /\ \A j \in DOMAIN blocks : ~IsResult(blocks[j]) =>
               \E i \in DOMAIN Others(blocks) : Others(blocks)[i] = blocks[j]
<1>1. \A j \in DOMAIN blocks : blocks[j] \in BlockSet
  OBVIOUS
<1>2. \A b \in BlockSet :
        /\ \A k \in DOMAIN ResultIf[b] : IsResult(b) /\ ResultIf[b][k] = b
        /\ IsResult(b) => \E k \in DOMAIN ResultIf[b] : ResultIf[b][k] = b
        /\ \A k \in DOMAIN OtherIf[b] : ~IsResult(b) /\ OtherIf[b][k] = b
        /\ ~IsResult(b) => \E k \in DOMAIN OtherIf[b] : OtherIf[b][k] = b
  <2>1. \A b : DOMAIN <<b>> = {1} /\ <<b>>[1] = b /\ DOMAIN <<>> = {}
    OBVIOUS
  <2>2. ASSUME NEW b \in BlockSet
        PROVE  ResultIf[b] = If(IsResult(b), b) /\ OtherIf[b] = If(~IsResult(b), b)
    BY DEF ResultIf, OtherIf
  <2> QED BY <2>1, <2>2 DEF If
<1>3. Results(blocks) = Collected(ResultIf, blocks) /\ Others(blocks) = Collected(OtherIf, blocks)
  BY ResultsAre, OthersAre
<1>4. Collected(ResultIf, blocks) \in Seq(BlockSet) /\ Collected(OtherIf, blocks) \in Seq(BlockSet)
  BY KindsAreFunctions, CollectedParts, FlattenType DEF Collected
<1>5. /\ \A i \in DOMAIN Collected(ResultIf, blocks) : \E j \in DOMAIN blocks : \E k \in DOMAIN ResultIf[blocks[j]] :
            Collected(ResultIf, blocks)[i] = ResultIf[blocks[j]][k]
      /\ \A j \in DOMAIN blocks : \A k \in DOMAIN ResultIf[blocks[j]] : \E i \in DOMAIN Collected(ResultIf, blocks) :
            Collected(ResultIf, blocks)[i] = ResultIf[blocks[j]][k]
  BY KindsAreFunctions, CollectedHas
<1>6. /\ \A i \in DOMAIN Collected(OtherIf, blocks) : \E j \in DOMAIN blocks : \E k \in DOMAIN OtherIf[blocks[j]] :
            Collected(OtherIf, blocks)[i] = OtherIf[blocks[j]][k]
      /\ \A j \in DOMAIN blocks : \A k \in DOMAIN OtherIf[blocks[j]] : \E i \in DOMAIN Collected(OtherIf, blocks) :
            Collected(OtherIf, blocks)[i] = OtherIf[blocks[j]][k]
  BY KindsAreFunctions, CollectedHas
<1> DEFINE r == Collected(ResultIf, blocks)
           o == Collected(OtherIf, blocks)
<1> HIDE DEF r, o
<1>7. /\ \A i \in DOMAIN r : IsResult(r[i]) /\ \E j \in DOMAIN blocks : r[i] = blocks[j]
      /\ \A j \in DOMAIN blocks : IsResult(blocks[j]) => \E i \in DOMAIN r : r[i] = blocks[j]
  <2>1. ASSUME NEW i \in DOMAIN r PROVE IsResult(r[i]) /\ \E j \in DOMAIN blocks : r[i] = blocks[j]
    <3>1. PICK j \in DOMAIN blocks : \E k \in DOMAIN ResultIf[blocks[j]] : r[i] = ResultIf[blocks[j]][k]
      BY <1>5, <2>1 DEF r
    <3> QED BY <1>1, <1>2, <3>1
  <2>2. ASSUME NEW j \in DOMAIN blocks, IsResult(blocks[j]) PROVE \E i \in DOMAIN r : r[i] = blocks[j]
    <3>1. PICK k \in DOMAIN ResultIf[blocks[j]] : ResultIf[blocks[j]][k] = blocks[j]
      BY <1>1, <1>2, <2>2
    <3> QED BY <1>5, <3>1 DEF r
  <2> QED BY <2>1, <2>2
<1>8. /\ \A i \in DOMAIN o : ~IsResult(o[i]) /\ \E j \in DOMAIN blocks : o[i] = blocks[j]
      /\ \A j \in DOMAIN blocks : ~IsResult(blocks[j]) => \E i \in DOMAIN o : o[i] = blocks[j]
  <2>1. ASSUME NEW i \in DOMAIN o PROVE ~IsResult(o[i]) /\ \E j \in DOMAIN blocks : o[i] = blocks[j]
    <3>1. PICK j \in DOMAIN blocks : \E k \in DOMAIN OtherIf[blocks[j]] : o[i] = OtherIf[blocks[j]][k]
      BY <1>6, <2>1 DEF o
    <3> QED BY <1>1, <1>2, <3>1
  <2>2. ASSUME NEW j \in DOMAIN blocks, ~IsResult(blocks[j]) PROVE \E i \in DOMAIN o : o[i] = blocks[j]
    <3>1. PICK k \in DOMAIN OtherIf[blocks[j]] : OtherIf[blocks[j]][k] = blocks[j]
      BY <1>1, <1>2, <2>2
    <3> QED BY <1>6, <3>1 DEF o
  <2> QED BY <2>1, <2>2
<1>9. Results(blocks) = r /\ Others(blocks) = o /\ r \in Seq(BlockSet) /\ o \in Seq(BlockSet)
  BY <1>3, <1>4 DEF r, o
<1> QED BY <1>7, <1>8, <1>9

-----------------------------------------------------------------------------
(* The chat as turns.                                                      *)

(* The turns of the first messages, up to the n-th. *)
TurnsUpTo(messages, n, g) ==
  g = [i \in 0 .. n |-> IF i = 0 THEN <<>> ELSE Turned(g[i - 1], messages[i])]

(* The recursive function exists: no least number is without it. *)
LEMMA TurnsUpToExists ==
  ASSUME NEW messages, NEW n \in Nat
  PROVE  \E g : TurnsUpTo(messages, n, g)
<1> DEFINE D == {m \in Nat : ~ \E g : TurnsUpTo(messages, m, g)}
<1>1. ASSUME D # {} PROVE FALSE
  <2>1. PICK m \in D : \A i \in D : m <= i
    <3>1. D \in SUBSET Nat
      OBVIOUS
    <3> HIDE DEF D
    <3> QED BY <1>1, <3>1, LeastExists
  <2>2. m \in Nat /\ ~ \E g : TurnsUpTo(messages, m, g)
    BY <2>1
  <2>3. CASE m = 0
    <3> DEFINE g == [i \in 0 .. m |-> <<>>]
    <3>1. 0 .. m = {0}
      BY <2>3
    <3>2. g = [i \in 0 .. m |-> IF i = 0 THEN <<>> ELSE Turned(g[i - 1], messages[i])]
      BY <3>1
    <3> QED BY <2>2, <3>2 DEF TurnsUpTo
  <2>4. CASE m # 0
    <3>1. m - 1 \in Nat /\ m - 1 \notin D
      BY <2>1, <2>2, <2>4
    <3>2. PICK g : TurnsUpTo(messages, m - 1, g)
      BY <3>1
    <3> DEFINE x == Turned(g[m - 1], messages[m])
               h == [i \in 0 .. m |-> IF i = m THEN x ELSE g[i]]
    <3>3. ASSUME NEW i \in 0 .. m
          PROVE  h[i] = IF i = 0 THEN <<>> ELSE Turned(h[i - 1], messages[i])
      <4>1. CASE i = m
        <5>1. h[i] = x
          BY <4>1
        <5>2. i - 1 \in 0 .. m /\ i - 1 # m /\ i # 0
          BY <2>2, <2>4, <4>1
        <5>3. h[i - 1] = g[i - 1]
          BY <5>2
        <5> QED BY <4>1, <5>1, <5>2, <5>3
      <4>2. CASE i # m
        <5>1. i \in 0 .. m - 1
          BY <2>2, <4>2
        <5>2. g[i] = IF i = 0 THEN <<>> ELSE Turned(g[i - 1], messages[i])
          BY <3>2, <5>1 DEF TurnsUpTo
        <5>3. i # 0 => i - 1 \in 0 .. m /\ i - 1 # m
          BY <2>2, <5>1
        <5>4. h[i] = g[i] /\ (i # 0 => h[i - 1] = g[i - 1])
          BY <4>2, <5>3
        <5> QED BY <5>2, <5>4
      <4> QED BY <4>1, <4>2
    <3>4. h = [i \in 0 .. m |-> IF i = 0 THEN <<>> ELSE Turned(h[i - 1], messages[i])]
      <4>1. h = [i \in 0 .. m |-> h[i]]
        OBVIOUS
      <4> HIDE DEF h
      <4> QED BY <3>3, <4>1
    <3> QED BY <2>2, <3>4 DEF TurnsUpTo
  <2> QED BY <2>3, <2>4
<1> QED BY <1>1

(* Chats that begin alike have the same turns so far. *)
LEMMA TurnsUpToAgree ==
  ASSUME NEW a, NEW b, NEW n \in Nat, NEW m \in Nat, n <= m, SameUpTo(a, b, n),
         NEW g, NEW h, TurnsUpTo(a, n, g), TurnsUpTo(b, m, h)
  PROVE  g[n] = h[n]
<1> DEFINE D == {i \in 0 .. n : g[i] # h[i]}
<1>1. ASSUME D # {} PROVE FALSE
  <2>1. PICK k \in D : \A i \in D : k <= i
    <3>1. D \in SUBSET Nat
      OBVIOUS
    <3> HIDE DEF D
    <3> QED BY <1>1, <3>1, LeastExists
  <2>2. k \in 0 .. n /\ k \in 0 .. m /\ g[k] # h[k] /\ (k # 0 => a[k] = b[k])
    BY <2>1 DEF SameUpTo
  <2>3. g[k] = IF k = 0 THEN <<>> ELSE Turned(g[k - 1], a[k])
    BY <2>2 DEF TurnsUpTo
  <2>4. h[k] = IF k = 0 THEN <<>> ELSE Turned(h[k - 1], b[k])
    BY <2>2 DEF TurnsUpTo
  <2>5. k # 0 => g[k - 1] = h[k - 1]
    <3>1. k # 0 => k - 1 \in 0 .. n /\ k - 1 \notin D
      BY <2>1, <2>2
    <3> QED BY <3>1
  <2> QED BY <2>2, <2>3, <2>4, <2>5
<1>2. n \in 0 .. n
  OBVIOUS
<1> QED BY <1>1, <1>2

(* Turns is its recursive function at the last message. *)
LEMMA TurnsAre ==
  ASSUME NEW messages, Len(messages) \in Nat
  PROVE  \E g : TurnsUpTo(messages, Len(messages), g) /\ Turns(messages) = g[Len(messages)]
<1> DEFINE g == CHOOSE g : g = [i \in 0 .. Len(messages) |->
                                  IF i = 0 THEN <<>> ELSE Turned(g[i - 1], messages[i])]
<1>1. \E f : f = [i \in 0 .. Len(messages) |-> IF i = 0 THEN <<>> ELSE Turned(f[i - 1], messages[i])]
  BY TurnsUpToExists DEF TurnsUpTo
<1>2. g = [i \in 0 .. Len(messages) |-> IF i = 0 THEN <<>> ELSE Turned(g[i - 1], messages[i])]
  <2> HIDE DEF g
  <2> QED BY <1>1 DEF g
<1>3. Turns(messages) = g[Len(messages)]
  BY DEF Turns
<1> QED BY <1>2, <1>3 DEF TurnsUpTo

LEMMA TurnsOfNone == Turns(<<>>) = <<>>
<1>1. Len(<<>>) = 0
  OBVIOUS
<1>2. PICK g : TurnsUpTo(<<>>, 0, g) /\ Turns(<<>>) = g[0]
  BY <1>1, TurnsAre
<1>3. 0 \in 0 .. 0
  OBVIOUS
<1>4. g[0] = IF 0 = 0 THEN <<>> ELSE Turned(g[0 - 1], <<>>[0])
  BY <1>2, <1>3 DEF TurnsUpTo
<1> QED BY <1>2, <1>4

(* One message more turns the turns so far. *)
LEMMA TurnsAppend ==
  ASSUME NEW S, NEW messages \in Seq(S), NEW m \in S
  PROVE  Turns(Append(messages, m)) = Turned(Turns(messages), m)
<1> DEFINE n == Len(messages)
           more == Append(messages, m)
           k == n + 1
<1>1. /\ n \in Nat /\ Len(more) = k /\ more[k] = m /\ k \in Nat /\ n <= k /\ k \in 0 .. k
      /\ k # 0 /\ k - 1 = n
  OBVIOUS
<1>2. SameUpTo(messages, more, n)
  BY DEF SameUpTo
<1> HIDE DEF n, more, k
<1>3. PICK h : TurnsUpTo(more, k, h) /\ Turns(more) = h[k]
  BY <1>1, TurnsAre
<1>4. PICK g : TurnsUpTo(messages, n, g) /\ Turns(messages) = g[n]
  BY <1>1, TurnsAre DEF n
<1>5. g[n] = h[n]
  BY <1>1, <1>2, <1>3, <1>4, TurnsUpToAgree
<1>6. h[k] = IF k = 0 THEN <<>> ELSE Turned(h[k - 1], more[k])
  BY <1>1, <1>3 DEF TurnsUpTo
<1> QED BY <1>1, <1>3, <1>4, <1>5, <1>6 DEF more

LEMMA UsesAre ==
  ASSUME NEW t, NEW id
  PROVE  /\ id \in UsesOf(t) <=> \E j \in DOMAIN t.content : IsToolUse(t.content[j]) /\ t.content[j].id = id
         /\ id \in ResultsOf(t) <=> \E j \in DOMAIN t.content : IsResult(t.content[j]) /\ t.content[j].id = id
  BY DEF UsesOf, ResultsOf

LEMMA BlockKinds ==
  ASSUME NEW b
  PROVE  /\ ~ (IsResult(b) /\ IsToolUse(b))
         /\ IsThinking(b) => ~IsResult(b) /\ ~IsToolUse(b)
         /\ b.type = "text" => ~IsResult(b) /\ ~IsToolUse(b)
  BY DEF IsResult, IsToolUse, IsThinking

(* What the assistant said stays where it is. *)
Persist(old, new) ==
    \A i \in DOMAIN old : old[i].role = "assistant" => i \in DOMAIN new /\ new[i] = old[i]

Gone(b) == IF IsResult(b) THEN {b.id} ELSE {}

(* A user's turn with the blocks of one before and one more. *)
LEMMA MergedTurn ==
  ASSUME NEW c \in Seq(BlockSet), NEW b \in BlockSet, ~IsToolUse(b),
         \A j \in DOMAIN c : ~IsToolUse(c[j])
  PROVE  LET merged == c \o <<b>>
             t == [role |-> "user", content |-> Results(merged) \o Others(merged)]
         IN  /\ t \in TurnSet /\ GoodTurn(t) /\ UsesOf(t) = {}
             /\ \A j \in DOMAIN c : IsResult(c[j]) => c[j].id \in ResultsOf(t)
             /\ Gone(b) \subseteq ResultsOf(t)
<1> DEFINE merged == c \o <<b>>
           r == Results(merged)
           o == Others(merged)
           x == r \o o
           t == [role |-> "user", content |-> x]
<1>1. /\ merged \in Seq(BlockSet) /\ Len(c) \in Nat /\ DOMAIN merged = 1 .. Len(c) + 1
      /\ DOMAIN c = 1 .. Len(c)
      /\ merged[Len(c) + 1] = b /\ \A j \in 1 .. Len(c) : merged[j] = c[j]
  OBVIOUS
<1> HIDE DEF merged
<1>2. \A j \in DOMAIN merged : ~IsToolUse(merged[j])
  <2>1. \A j \in DOMAIN merged : j \in DOMAIN c \/ j = Len(c) + 1
    BY <1>1
  <2> QED BY <1>1, <2>1
<1>3. /\ r \in Seq(BlockSet) /\ o \in Seq(BlockSet)
      /\ \A i \in DOMAIN r : IsResult(r[i]) /\ \E j \in DOMAIN merged : r[i] = merged[j]
      /\ \A i \in DOMAIN o : ~IsResult(o[i]) /\ \E j \in DOMAIN merged : o[i] = merged[j]
      /\ \A j \in DOMAIN merged : IsResult(merged[j]) => \E i \in DOMAIN r : r[i] = merged[j]
      /\ \A j \in DOMAIN merged : ~IsResult(merged[j]) => \E i \in DOMAIN o : o[i] = merged[j]
  BY <1>1, Partition
<1> HIDE DEF r, o
<1>4. /\ x \in Seq(BlockSet) /\ Len(r) \in Nat /\ Len(o) \in Nat /\ DOMAIN r = 1 .. Len(r)
      /\ DOMAIN o = 1 .. Len(o) /\ DOMAIN x = 1 .. Len(r) + Len(o) /\ Len(x) = Len(r) + Len(o)
      /\ \A i \in 1 .. Len(r) : x[i] = r[i]
      /\ \A i \in 1 .. Len(r) + Len(o) : i > Len(r) => x[i] = o[i - Len(r)]
  BY <1>3
<1> HIDE DEF x
<1>5. ASSUME NEW i \in DOMAIN x
      PROVE  /\ IsResult(x[i]) <=> i <= Len(r)
             /\ \E j \in DOMAIN merged : x[i] = merged[j]
  <2>1. CASE i <= Len(r)
    BY <1>3, <1>4, <2>1
  <2>2. CASE i > Len(r)
    <3>1. i - Len(r) \in DOMAIN o /\ x[i] = o[i - Len(r)]
      BY <1>4, <2>2
    <3> QED BY <1>3, <1>4, <2>2, <3>1
  <2> QED BY <1>4, <2>1, <2>2
<1>6. t.role = "user" /\ t.content = x /\ t \in TurnSet
  BY <1>4 DEF TurnSet
<1>7. ASSUME NEW j \in DOMAIN merged
      PROVE  \E i \in DOMAIN x : x[i] = merged[j]
  <2>1. CASE IsResult(merged[j])
    <3>1. PICK i \in DOMAIN r : r[i] = merged[j]
      BY <1>3, <2>1
    <3> QED BY <1>4, <3>1
  <2>2. CASE ~IsResult(merged[j])
    <3>1. PICK i \in DOMAIN o : o[i] = merged[j]
      BY <1>3, <2>2
    <3>2. Len(r) + i \in DOMAIN x /\ x[Len(r) + i] = o[Len(r) + i - Len(r)] /\ Len(r) + i - Len(r) = i
      BY <1>4
    <3> QED BY <3>1, <3>2
  <2> QED BY <2>1, <2>2
<1> HIDE DEF t
<1>8. UsesOf(t) = {}
  BY <1>2, <1>5, <1>6, UsesAre
<1>9. \A j \in DOMAIN merged : IsResult(merged[j]) => merged[j].id \in ResultsOf(t)
  BY <1>6, <1>7, UsesAre
<1>10. GoodTurn(t)
  <2>1. x # <<>>
    <3>1. PICK i \in DOMAIN x : TRUE
      <4>1. Len(c) + 1 \in DOMAIN merged
        BY <1>1
      <4> QED BY <1>7, <4>1
    <3> QED BY <3>1
  <2>2. \A j, k \in DOMAIN x : j < k /\ IsResult(x[k]) => IsResult(x[j])
    BY <1>4, <1>5
  <2> QED BY <1>6, <1>8, <2>1, <2>2 DEF GoodTurn
<1>11. Gone(b) \subseteq ResultsOf(t)
  <2>1. Len(c) + 1 \in DOMAIN merged
    BY <1>1
  <2> QED BY <1>1, <1>9, <2>1 DEF Gone
<1>12. \A j \in DOMAIN c : IsResult(c[j]) => c[j].id \in ResultsOf(t)
  BY <1>1, <1>9
<1> QED BY <1>6, <1>8, <1>10, <1>11, <1>12 DEF t, x, r, o, merged

(* A user's block joins turns in order: pushUser keeps them so. *)
LEMMA PushKeeps ==
  ASSUME NEW T, NEW open, GoodTurns(T, open), NEW b \in BlockSet, ~IsToolUse(b)
  PROVE  /\ GoodTurns(PushUser(T, <<b>>), open \ Gone(b))
         /\ Persist(T, PushUser(T, <<b>>))
<1> DEFINE n == Len(T)
           U == PushUser(T, <<b>>)
<1>1. T \in Seq(TurnSet) /\ n \in Nat /\ DOMAIN T = 1 .. n
      /\ \A i \in 1 .. n : T[i] \in TurnSet /\ GoodTurn(T[i])
  BY DEF GoodTurns
<1>2. \A i \in 1 .. n : T[i].role \in {"user", "assistant"} /\ T[i].content \in Seq(BlockSet)
  BY <1>1 DEF TurnSet
<1>3. <<b>> # <<>> /\ <<b>> \in Seq(BlockSet) /\ DOMAIN <<b>> = {1} /\ <<b>>[1] = b
  OBVIOUS
<1>4. /\ \A i \in 1 .. n - 1 : ~ (T[i].role = "user" /\ T[i + 1].role = "user")
      /\ AnsweredUses(T, open)
  BY DEF GoodTurns
<1>5. ASSUME NEW t \in TurnSet, t.role = "user", GoodTurn(t), Gone(b) \subseteq ResultsOf(t),
             NEW k \in 1 .. n + 1, k >= n, NEW V \in Seq(TurnSet), Len(V) = k, V[k] = t,
             \A i \in 1 .. k - 1 : V[i] = T[i],
             k = n => T[n].role = "user" /\ ResultsOf(T[n]) \subseteq ResultsOf(t),
             k > n => (n = 0 \/ T[n].role # "user")
      PROVE  GoodTurns(V, open \ Gone(b)) /\ Persist(T, V)
  <2>0. n \in Nat /\ k \in Nat /\ (k = n \/ k = n + 1) /\ Len(V) = k /\ k # 0
    <3>1. n \in Nat /\ k \in 1 .. n + 1 /\ k >= n
      BY <1>1, <1>5
    <3> QED BY <3>1, <1>5
  <2>1. DOMAIN V = 1 .. k /\ \A i \in 1 .. k - 1 : i \in 1 .. n /\ i \in 1 .. k
    <3>1. \A i \in 1 .. k - 1 : i \in 1 .. n /\ i \in 1 .. k
      BY <2>0
    <3> QED BY <1>5, <2>0, <3>1
  <2>2. \A i \in 1 .. k : GoodTurn(V[i])
    <3> SUFFICES ASSUME NEW i \in 1 .. k PROVE GoodTurn(V[i])
      OBVIOUS
    <3>1. i # k => i \in 1 .. k - 1
      BY <2>0
    <3> QED BY <1>1, <1>5, <2>1, <3>1
  <2>3. \A i \in 1 .. k - 1 : ~ (V[i].role = "user" /\ V[i + 1].role = "user")
    <3> SUFFICES ASSUME NEW i \in 1 .. k - 1, V[i].role = "user", V[i + 1].role = "user" PROVE FALSE
      OBVIOUS
    <3>1. V[i] = T[i] /\ i \in 1 .. n /\ i \in Nat /\ i # 0
      BY <1>5, <2>1
    <3>2. CASE i + 1 # k
      <4>1. i + 1 \in 1 .. k - 1 /\ i \in 1 .. n - 1
        BY <2>0, <3>1, <3>2
      <4>2. V[i + 1] = T[i + 1]
        BY <1>5, <4>1
      <4> QED BY <1>4, <3>1, <4>1, <4>2
    <3>3. CASE i + 1 = k /\ k = n
      <4>1. i \in 1 .. n - 1
        BY <2>0, <3>1, <3>3
      <4>2. T[i + 1].role = "user"
        BY <1>5, <3>3
      <4> QED BY <1>4, <3>1, <4>1, <4>2
    <3>4. CASE i + 1 = k /\ k > n
      <4>1. i = n /\ n # 0
        BY <2>0, <3>1, <3>4
      <4> QED BY <1>5, <3>1, <3>4, <4>1
    <3> QED BY <2>0, <3>2, <3>3, <3>4
  <2>4. AnsweredUses(V, open \ Gone(b))
    <3> SUFFICES ASSUME NEW i \in 1 .. k, NEW id \in UsesOf(V[i])
                 PROVE  \/ i < Len(V) /\ id \in ResultsOf(V[i + 1])
                        \/ /\ id \in open \ Gone(b)
                           /\ i = Len(V) \/ (i = Len(V) - 1 /\ V[Len(V)].role = "user")
      BY <2>1 DEF AnsweredUses
    <3>1. i # k
      BY <1>5 DEF GoodTurn
    <3>2. i \in 1 .. k - 1 /\ i \in 1 .. n /\ V[i] = T[i] /\ i \in Nat
      <4>1. i \in 1 .. k - 1 /\ i \in Nat
        BY <2>0, <3>1
      <4> QED BY <1>5, <2>1, <4>1
    <3>3. \/ i < n /\ id \in ResultsOf(T[i + 1])
          \/ /\ id \in open
             /\ i = n \/ (i = n - 1 /\ T[n].role = "user")
      BY <1>1, <1>4, <3>2 DEF AnsweredUses
    <3>4. CASE i + 1 = k
      <4>0. i < Len(V) /\ i = Len(V) - 1
        BY <2>0, <3>2, <3>4
      <4>1. i < Len(V) /\ i = Len(V) - 1 /\ V[Len(V)].role = "user" /\ V[i + 1] = t
        BY <1>5, <3>4, <4>0
      <4>2. CASE id \in Gone(b)
        BY <1>5, <4>1, <4>2
      <4>3. CASE id \in open /\ id \notin Gone(b)
        BY <4>1, <4>3
      <4>4. CASE i < n /\ id \in ResultsOf(T[i + 1])
        <5>1. k = n /\ i + 1 = n
          BY <2>0, <3>2, <3>4, <4>4
        <5> QED BY <1>5, <4>1, <4>4, <5>1
      <4> QED BY <3>3, <4>2, <4>3, <4>4
    <3>5. CASE i + 1 # k
      <4>1. i + 1 \in 1 .. k - 1 /\ i < Len(V) /\ i # n
        BY <2>0, <3>2, <3>5
      <4>2. V[i + 1] = T[i + 1]
        BY <1>5, <4>1
      <4>3. ~ (i = n - 1 /\ T[n].role = "user")
        <5>1. i = n - 1 => k > n /\ n # 0
          BY <2>0, <3>2, <3>5
        <5> QED BY <1>5, <5>1
      <4> QED BY <3>3, <4>1, <4>2, <4>3
    <3> QED BY <3>4, <3>5
  <2>5. Persist(T, V)
    <3> SUFFICES ASSUME NEW i \in 1 .. n, T[i].role = "assistant" PROVE i \in DOMAIN V /\ V[i] = T[i]
      BY <1>1 DEF Persist
    <3>1. k = n => i # n
      BY <1>5
    <3>2. i \in 1 .. k - 1 /\ i \in 1 .. k
      BY <2>0, <3>1
    <3> QED BY <1>5, <2>1, <3>2
  <2> QED BY <1>5, <2>1, <2>2, <2>3, <2>4, <2>5 DEF GoodTurns
<1>6. CASE T # <<>> /\ T[n].role = "user"
  <2>1. n \in 1 .. n /\ n >= n /\ n \in 1 .. n + 1
    BY <1>1, <1>6, EmptySeq
  <2> DEFINE c == T[n].content
             merged == c \o <<b>>
             x == Results(merged) \o Others(merged)
             t == [role |-> "user", content |-> x]
  <2>2. c \in Seq(BlockSet) /\ \A j \in DOMAIN c : ~IsToolUse(c[j])
    <3>1. UsesOf(T[n]) = {} /\ c \in Seq(BlockSet)
      BY <1>1, <1>2, <1>6, <2>1 DEF GoodTurn
    <3>2. ASSUME NEW j \in DOMAIN c, IsToolUse(c[j]) PROVE FALSE
      <4>1. c[j].id \in UsesOf(T[n])
        BY <3>2 DEF UsesOf
      <4> QED BY <3>1, <4>1
    <3> QED BY <3>1, <3>2
  <2>3. /\ t \in TurnSet /\ GoodTurn(t) /\ UsesOf(t) = {}
        /\ \A j \in DOMAIN c : IsResult(c[j]) => c[j].id \in ResultsOf(t)
        /\ Gone(b) \subseteq ResultsOf(t)
    <3> HIDE DEF c
    <3> QED BY <2>2, MergedTurn
  <2>4. ResultsOf(T[n]) \subseteq ResultsOf(t)
    <3> HIDE DEF t
    <3> QED BY <2>3, UsesAre
  <2>5. U = [T EXCEPT ![n].content = x]
    BY <1>3, <1>6 DEF PushUser, Last
  <2>6. t.role = "user" /\ t = [T[n] EXCEPT !.content = x]
    <3>1. T[n] \in TurnSet
      BY <1>1, <2>1
    <3> HIDE DEF x
    <3> QED BY <1>6, <3>1 DEF TurnSet
  <2> HIDE DEF x, t
  <2>7. U \in Seq(TurnSet) /\ Len(U) = n /\ U[n] = t /\ \A i \in 1 .. n - 1 : U[i] = T[i]
    <3>1. U = [i \in 1 .. n |-> IF i = n THEN t ELSE T[i]]
      BY <1>1, <2>1, <2>5, <2>6
    <3> HIDE DEF U, n
    <3>2. U \in [1 .. n -> TurnSet]
      BY <1>1, <2>3, <3>1
    <3> QED BY <1>1, <2>1, <3>1, <3>2
  <2> HIDE DEF U, n
  <2>8. ~ n > n
    BY <1>1
  <2> QED BY <1>5, <1>6, <2>1, <2>3, <2>4, <2>6, <2>7, <2>8 DEF U
<1>7. CASE ~ (T # <<>> /\ T[n].role = "user")
  <2> DEFINE t == [role |-> "user", content |-> <<b>>]
             k == n + 1
  <2>1. t \in TurnSet /\ t.role = "user" /\ t.content = <<b>>
    BY <1>3 DEF TurnSet
  <2>2. U = Append(T, t)
    BY <1>3, <1>7 DEF PushUser, Last
  <2> HIDE DEF t
  <2>3. U \in Seq(TurnSet) /\ Len(U) = k /\ U[k] = t /\ \A i \in 1 .. k - 1 : U[i] = T[i]
    BY <1>1, <2>1, <2>2
  <2>4. UsesOf(t) = {} /\ Gone(b) \subseteq ResultsOf(t)
    BY <1>3, <2>1, UsesAre DEF Gone
  <2>5. GoodTurn(t)
    <3>1. \A j, k2 \in DOMAIN t.content : ~ j < k2
      BY <1>3, <2>1
    <3> QED BY <1>3, <2>1, <2>4, <3>1 DEF GoodTurn
  <2>6. k \in 1 .. n + 1 /\ k >= n /\ k # n
    <3>1. n \in Nat
      BY <1>1
    <3> HIDE DEF n
    <3> QED BY <3>1
  <2>7. n = 0 \/ T[n].role # "user"
    <3>1. T = <<>> => n = 0
      OBVIOUS
    <3> QED BY <1>7, <3>1
  <2> HIDE DEF U, n, k
  <2> QED BY <1>5, <2>1, <2>3, <2>4, <2>5, <2>6, <2>7 DEF U
<1> QED BY <1>6, <1>7

(* A turn of the assistant behind turns whose uses are answered. *)
LEMMA AnswerKeeps ==
  ASSUME NEW T, GoodTurns(T, {}), NEW c \in Seq(BlockSet), c # <<>>,
         \A j \in DOMAIN c : ~IsResult(c[j])
  PROVE  LET t == [role |-> "assistant", content |-> c]
         IN  GoodTurns(Append(T, t), UsesOf(t)) /\ Persist(T, Append(T, t))
             /\ Len(Append(T, t)) \in DOMAIN Append(T, t) /\ Append(T, t)[Len(Append(T, t))] = t
<1> DEFINE n == Len(T)
           t == [role |-> "assistant", content |-> c]
           V == Append(T, t)
           k == n + 1
<1>1. T \in Seq(TurnSet) /\ n \in Nat /\ DOMAIN T = 1 .. n /\ \A i \in 1 .. n : GoodTurn(T[i])
  BY DEF GoodTurns
<1>2. t \in TurnSet /\ t.role = "assistant" /\ t.content = c
  BY DEF TurnSet
<1> HIDE DEF t
<1>3. /\ V \in Seq(TurnSet) /\ Len(V) = k /\ DOMAIN V = 1 .. k /\ V[k] = t
      /\ \A i \in 1 .. n : V[i] = T[i]
  BY <1>1, <1>2
<1>4. n \in Nat /\ k = n + 1 /\ k \in Nat /\ k \in 1 .. k
  BY <1>1
<1>5. /\ \A i \in 1 .. n - 1 : ~ (T[i].role = "user" /\ T[i + 1].role = "user")
      /\ AnsweredUses(T, {})
  BY DEF GoodTurns
<1> HIDE DEF V, k, n
<1>6. GoodTurn(t)
  <2>1. ResultsOf(t) = {}
    BY <1>2, UsesAre
  <2> QED BY <1>2, <2>1 DEF GoodTurn
<1>7. \A i \in 1 .. k : GoodTurn(V[i])
  <2> SUFFICES ASSUME NEW i \in 1 .. k PROVE GoodTurn(V[i])
    OBVIOUS
  <2>1. i # k => i \in 1 .. n
    BY <1>4
  <2> QED BY <1>1, <1>3, <1>6, <2>1
<1>8. \A i \in 1 .. k - 1 : ~ (V[i].role = "user" /\ V[i + 1].role = "user")
  <2> SUFFICES ASSUME NEW i \in 1 .. k - 1, V[i].role = "user", V[i + 1].role = "user" PROVE FALSE
    OBVIOUS
  <2>1. i \in 1 .. n /\ (i + 1 # k => i \in 1 .. n - 1 /\ i + 1 \in 1 .. n)
    BY <1>4
  <2>2. i + 1 # k
    BY <1>2, <1>3
  <2> QED BY <1>3, <1>5, <2>1, <2>2
<1>9. AnsweredUses(V, UsesOf(t))
  <2> SUFFICES ASSUME NEW i \in 1 .. k, NEW id \in UsesOf(V[i]), i # k
               PROVE  i < k /\ id \in ResultsOf(V[i + 1])
    BY <1>3 DEF AnsweredUses
  <2>1. i \in 1 .. n /\ i < k
    BY <1>4
  <2>2. V[i] = T[i]
    BY <1>3, <2>1
  <2>3. i < n /\ id \in ResultsOf(T[i + 1])
    BY <1>1, <1>5, <2>1, <2>2 DEF AnsweredUses, n
  <2>4. i + 1 \in 1 .. n
    BY <1>4, <2>1, <2>3
  <2> QED BY <1>3, <2>1, <2>3, <2>4
<1>10. Persist(T, V)
  <2>1. \A i \in 1 .. n : i \in 1 .. k
    BY <1>4
  <2> QED BY <1>1, <1>3, <2>1 DEF Persist
<1>11. GoodTurns(V, UsesOf(t))
  BY <1>3, <1>7, <1>8, <1>9 DEF GoodTurns
<1> QED BY <1>3, <1>4, <1>10, <1>11 DEF V, t

(* What is open may be more than is needed. *)
LEMMA MoreOpen ==
  ASSUME NEW T, NEW small, NEW large, small \subseteq large, GoodTurns(T, small)
  PROVE  GoodTurns(T, large)
  BY DEF GoodTurns, AnsweredUses

(* The blocks of an assistant's message. *)
CallBlock(call) ==
    [type |-> "tool_use", id |-> call.id, body |-> ParseArguments(call.args), signed |-> FALSE,
     fn |-> call.fn]

LEMMA BlockWithFn ==
  ASSUME NEW type, NEW id, NEW body, NEW f
  PROVE  [Block(type, id, body) EXCEPT !.fn = f]
           = [type |-> type, id |-> id, body |-> body, signed |-> FALSE, fn |-> f]
<1> DEFINE no == FALSE
<1>1. Block(type, id, body) = [type |-> type, id |-> id, body |-> body, signed |-> no, fn |-> NoFunction]
  BY DEF Block
<1> HIDE DEF no
<1>2. [Block(type, id, body) EXCEPT !.fn = f]
        = [type |-> type, id |-> id, body |-> body, signed |-> no, fn |-> f]
  BY <1>1
<1> QED BY <1>2 DEF no

LEMMA CallBlockIs ==
  ASSUME NEW call \in CallSet
  PROVE  /\ [Block("tool_use", call.id, ParseArguments(call.args)) EXCEPT !.fn = call.fn] = CallBlock(call)
         /\ CallBlock(call) \in BlockSet /\ IsToolUse(CallBlock(call)) /\ ~IsResult(CallBlock(call))
         /\ CallBlock(call).id = call.id
<1>1. call.id \in AnyId /\ call.args \in Seq(Nat) /\ call.fn \in AnyFn
  BY DEF CallSet
<1>2. ParseArguments(call.args) \in Seq(Nat)
  BY <1>1 DEF ParseArguments
<1> DEFINE body == ParseArguments(call.args)
<1> HIDE DEF body
<1>3. [Block("tool_use", call.id, body) EXCEPT !.fn = call.fn]
        = [type |-> "tool_use", id |-> call.id, body |-> body, signed |-> FALSE, fn |-> call.fn]
  BY BlockWithFn
<1>4. "tool_use" \in Types
  BY DEF Types
<1> QED BY <1>1, <1>2, <1>3, <1>4 DEF CallBlock, BlockSet, IsToolUse, IsResult, body

TextBlocks(text) == IF text = <<>> THEN <<>> ELSE <<Block("text", 0, text)>>

LEMMA TextBlocksAre ==
  ASSUME NEW text \in Seq(Nat)
  PROVE  /\ TextBlocks(text) \in Seq(BlockSet)
         /\ \A i \in DOMAIN TextBlocks(text) : ~IsResult(TextBlocks(text)[i]) /\ ~IsToolUse(TextBlocks(text)[i])
         /\ text # <<>> => TextBlocks(text) = <<Block("text", 0, text)>>
<1> DEFINE b == Block("text", 0, text)
<1>1. 0 \in AnyId /\ NoFunction \in AnyFn /\ "text" \in Types /\ FALSE \in BOOLEAN
  BY DEF AnyId, AnyFn, Types
<1>2. b \in BlockSet /\ b.type = "text"
  BY <1>1 DEF Block, BlockSet
<1>3. ~IsResult(b) /\ ~IsToolUse(b)
  BY <1>2, BlockKinds
<1> HIDE DEF b
<1>4. <<b>> \in Seq(BlockSet) /\ DOMAIN <<b>> = {1} /\ <<b>>[1] = b /\ <<>> \in Seq(BlockSet) /\ DOMAIN <<>> = {}
  BY <1>2
<1>5. TextBlocks(text) = IF text = <<>> THEN <<>> ELSE <<b>>
  BY DEF TextBlocks, b
<1> QED BY <1>3, <1>4, <1>5 DEF b

CallBlocks(calls) == [i \in DOMAIN calls |-> CallBlock(calls[i])]

LEMMA CallBlocksAre ==
  ASSUME NEW calls \in Seq(CallSet)
  PROVE  /\ CallBlocks(calls) \in Seq(BlockSet) /\ DOMAIN CallBlocks(calls) = DOMAIN calls
         /\ \A i \in DOMAIN calls : CallBlocks(calls)[i] = CallBlock(calls[i]) /\ calls[i] \in CallSet
<1>1. Len(calls) \in Nat /\ DOMAIN calls = 1 .. Len(calls) /\ \A i \in 1 .. Len(calls) : calls[i] \in CallSet
  OBVIOUS
<1>2. CallBlocks(calls) \in [1 .. Len(calls) -> BlockSet]
  BY <1>1, CallBlockIs DEF CallBlocks
<1>3. CallBlocks(calls) \in Seq(BlockSet)
  BY <1>1, <1>2
<1> QED BY <1>1, <1>2, <1>3 DEF CallBlocks

(* Where the blocks of two sequences put together come from. *)
LEMMA Together ==
  ASSUME NEW S, NEW a \in Seq(S), NEW b \in Seq(S)
  PROVE  /\ a \o b \in Seq(S)
         /\ \A i \in DOMAIN (a \o b) : \/ \E j \in DOMAIN a : (a \o b)[i] = a[j]
                                       \/ \E j \in DOMAIN b : (a \o b)[i] = b[j]
<1>1. a \o b \in Seq(S)
  OBVIOUS
<1>2. ASSUME NEW i \in DOMAIN (a \o b)
      PROVE  \/ \E j \in DOMAIN a : (a \o b)[i] = a[j]
             \/ \E j \in DOMAIN b : (a \o b)[i] = b[j]
  <2>1. CASE i \in 1 .. Len(a)
    <3>1. i \in DOMAIN a /\ (a \o b)[i] = a[i]
      BY <2>1
    <3> QED BY <3>1
  <2>2. CASE i \notin 1 .. Len(a)
    <3>1. i - Len(a) \in DOMAIN b /\ (a \o b)[i] = b[i - Len(a)]
      BY <1>2, <2>2
    <3> QED BY <3>1
  <2> QED BY <2>1, <2>2
<1> QED BY <1>1, <1>2

(* The assistant's blocks: details, text, calls; no results among them. *)
LEMMA AssistantBlocksAre ==
  ASSUME NEW m, Written(m)
  PROVE  /\ AssistantBlocks(m) = m.details \o TextBlocks(m.text) \o CallBlocks(m.calls)
         /\ AssistantBlocks(m) \in Seq(BlockSet)
         /\ \A i \in DOMAIN AssistantBlocks(m) : ~IsResult(AssistantBlocks(m)[i])
         /\ \A i \in DOMAIN AssistantBlocks(m) : IsToolUse(AssistantBlocks(m)[i]) =>
               \E k \in DOMAIN m.calls : AssistantBlocks(m)[i].id = m.calls[k].id
<1> DEFINE d == m.details
           t == TextBlocks(m.text)
           c == CallBlocks(m.calls)
<1>1. m.text \in Seq(Nat) /\ d \in Seq(BlockSet) /\ m.calls \in Seq(CallSet)
      /\ \A i \in DOMAIN d : IsThinking(d[i])
  BY DEF Written, MessageSet
<1>2. /\ c \in Seq(BlockSet) /\ DOMAIN c = DOMAIN m.calls
      /\ \A i \in DOMAIN c : c[i] = CallBlock(m.calls[i]) /\ m.calls[i] \in CallSet
  BY <1>1, CallBlocksAre
<1>3. AssistantBlocks(m) = d \o t \o c
  <2>1. [i \in DOMAIN m.calls |->
          [Block("tool_use", m.calls[i].id, ParseArguments(m.calls[i].args)) EXCEPT !.fn = m.calls[i].fn]] = c
    BY <1>2, CallBlockIs DEF CallBlocks
  <2> HIDE DEF c
  <2> QED BY <2>1 DEF AssistantBlocks, ThinkingBlocks, TextBlocks
<1>4. t \in Seq(BlockSet) /\ \A i \in DOMAIN t : ~IsResult(t[i]) /\ ~IsToolUse(t[i])
  BY <1>1, TextBlocksAre
<1>5. \A i \in DOMAIN c : ~IsResult(c[i]) /\ \E k \in DOMAIN m.calls : c[i].id = m.calls[k].id
  BY <1>2, CallBlockIs
<1>6. \A i \in DOMAIN d : ~IsResult(d[i]) /\ ~IsToolUse(d[i])
  BY <1>1, BlockKinds
<1> HIDE DEF d, t, c
<1>7. /\ d \o t \in Seq(BlockSet)
      /\ \A i \in DOMAIN (d \o t) : \/ \E j \in DOMAIN d : (d \o t)[i] = d[j]
                                    \/ \E j \in DOMAIN t : (d \o t)[i] = t[j]
  BY <1>1, <1>4, Together
<1> DEFINE x == d \o t
<1>8. x \in Seq(BlockSet) /\ \A i \in DOMAIN x : ~IsResult(x[i]) /\ ~IsToolUse(x[i])
  BY <1>4, <1>6, <1>7
<1> HIDE DEF x
<1>9. /\ x \o c \in Seq(BlockSet)
      /\ \A i \in DOMAIN (x \o c) : \/ \E j \in DOMAIN x : (x \o c)[i] = x[j]
                                    \/ \E j \in DOMAIN c : (x \o c)[i] = c[j]
  BY <1>2, <1>8, Together
<1>10. \A i \in DOMAIN (x \o c) : /\ ~IsResult((x \o c)[i])
                                  /\ IsToolUse((x \o c)[i]) =>
                                        \E k \in DOMAIN m.calls : (x \o c)[i].id = m.calls[k].id
  <2> SUFFICES ASSUME NEW i \in DOMAIN (x \o c)
               PROVE  /\ ~IsResult((x \o c)[i])
                      /\ IsToolUse((x \o c)[i]) => \E k \in DOMAIN m.calls : (x \o c)[i].id = m.calls[k].id
    OBVIOUS
  <2>1. CASE \E j \in DOMAIN x : (x \o c)[i] = x[j]
    BY <1>8, <2>1
  <2>2. CASE \E j \in DOMAIN c : (x \o c)[i] = c[j]
    BY <1>5, <2>2
  <2> QED BY <1>9, <2>1, <2>2
<1>11. AssistantBlocks(m) = x \o c
  BY <1>3 DEF x
<1> QED BY <1>3, <1>9, <1>10, <1>11 DEF d, t, c

-----------------------------------------------------------------------------
(* The stream.                                                             *)
(* The last of a sequence. *)
LEMMA SplitLast ==
  ASSUME NEW S, NEW s \in Seq(S), s # <<>>
  PROVE  /\ Front(s) \in Seq(S) /\ s[Len(s)] \in S /\ Len(s) \in DOMAIN s
         /\ s = Append(Front(s), s[Len(s)])
         /\ Len(s) = Len(Front(s)) + 1
         /\ \A i \in DOMAIN Front(s) : i \in DOMAIN s /\ Front(s)[i] = s[i]
<1> DEFINE n == Len(s)
           f == SubSeq(s, 1, n - 1)
           u == Append(f, s[n])
<1>1. n \in Nat /\ n >= 1 /\ n \in DOMAIN s /\ DOMAIN s = 1 .. n /\ s[n] \in S
  BY EmptySeq
<1>2. f \in Seq(S) /\ Len(f) = n - 1 /\ DOMAIN f = 1 .. n - 1 /\ \A i \in 1 .. n - 1 : f[i] = s[i]
  BY <1>1
<1>3. s = u
  <2> HIDE DEF f
  <2>1. u \in Seq(S) /\ Len(u) = n /\ u[n] = s[n] /\ \A i \in 1 .. n - 1 : u[i] = s[i]
    <3> DEFINE e == s[n]
    <3>1. e \in S
      BY <1>1
    <3> HIDE DEF e
    <3>2. /\ Append(f, e) \in Seq(S) /\ Len(Append(f, e)) = Len(f) + 1
          /\ Append(f, e)[Len(f) + 1] = e /\ \A i \in 1 .. Len(f) : Append(f, e)[i] = f[i]
      BY <1>2, <3>1
    <3> HIDE DEF n
    <3>3. Len(f) + 1 = n
      BY <1>1, <1>2
    <3> QED BY <1>2, <3>2, <3>3 DEF e, n
  <2> HIDE DEF u, n
  <2>2. \A i \in 1 .. n : s[i] = u[i]
    <3>1. \A i \in 1 .. n : i = n \/ i \in 1 .. n - 1
      BY <1>1
    <3> QED BY <1>2, <2>1, <3>1
  <2> QED BY <1>1, <2>1, <2>2 DEF n
<1>4. Front(s) = f
  BY DEF Front
<1> HIDE DEF f
<1>5. n = Len(f) + 1 /\ \A i \in DOMAIN f : i \in DOMAIN s /\ f[i] = s[i]
  <2> HIDE DEF n
  <2> QED BY <1>1, <1>2
<1> QED BY <1>1, <1>2, <1>3, <1>4, <1>5

(* What Append does at the end and leaves in front. *)
LEMMA LastOfAppend ==
  ASSUME NEW S, NEW s \in Seq(S), NEW b \in S
  PROVE  /\ Append(s, b) \in Seq(S) /\ Append(s, b) # <<>>
         /\ Len(Append(s, b)) = Len(s) + 1 /\ Append(s, b)[Len(s) + 1] = b
         /\ DOMAIN Append(s, b) = DOMAIN s \cup {Len(s) + 1}
         /\ \A i \in DOMAIN s : Append(s, b)[i] = s[i]
         /\ Front(Append(s, b)) = s
<1> DEFINE t == Append(s, b)
<1>1. t \in Seq(S) /\ t # <<>> /\ Len(t) = Len(s) + 1 /\ t[Len(s) + 1] = b
      /\ \A i \in DOMAIN s : t[i] = s[i]
  OBVIOUS
<1>2. DOMAIN t = DOMAIN s \cup {Len(s) + 1}
  OBVIOUS
<1>3. Front(t) = s
  <2>1. Front(t) \in Seq(S) /\ Len(Front(t)) = Len(s) /\ \A i \in DOMAIN Front(t) : Front(t)[i] = t[i]
    <3> HIDE DEF t
    <3>1. /\ Front(t) \in Seq(S) /\ Len(t) = Len(Front(t)) + 1
          /\ \A i \in DOMAIN Front(t) : Front(t)[i] = t[i]
      BY <1>1, SplitLast
    <3>2. Len(Front(t)) \in Nat /\ Len(s) \in Nat
      BY <3>1
    <3>3. Len(Front(t)) = Len(s)
      BY <1>1, <3>1, <3>2
    <3> QED BY <3>1, <3>3
  <2> DEFINE f == Front(t)
  <2> HIDE DEF t, f
  <2>2. f \in Seq(S) /\ Len(f) = Len(s) /\ \A i \in 1 .. Len(s) : f[i] = s[i]
    BY <1>1, <2>1 DEF f
  <2> QED BY <2>2 DEF f
<1> QED BY <1>1, <1>2, <1>3

LEMMA LastReplaced ==
  ASSUME NEW S, NEW s \in Seq(S), NEW b \in S, NEW c \in S
  PROVE  [Append(s, b) EXCEPT ![Len(Append(s, b))] = c] = Append(s, c)
<1> DEFINE t == Append(s, b)
           u == Append(s, c)
           n == Len(s)
           r == [t EXCEPT ![Len(t)] = c]
<1>1. /\ n \in Nat /\ Len(t) = n + 1 /\ DOMAIN t = 1 .. n + 1 /\ \A i \in 1 .. n : t[i] = s[i]
      /\ u \in Seq(S) /\ Len(u) = n + 1 /\ u[n + 1] = c /\ \A i \in 1 .. n : u[i] = s[i]
  OBVIOUS
<1>2. r = [i \in 1 .. n + 1 |-> IF i = n + 1 THEN c ELSE t[i]]
  BY <1>1
<1> HIDE DEF t, u, n, r
<1>3. \A i \in 1 .. n + 1 : r[i] = u[i]
  BY <1>1, <1>2
<1>4. r = [i \in 1 .. n + 1 |-> r[i]] /\ u = [i \in 1 .. n + 1 |-> u[i]]
  BY <1>1, <1>2
<1> QED BY <1>3, <1>4 DEF r, t, u

LEMMA AppendedLater ==
  ASSUME NEW S, NEW x \in Seq(S), NEW y \in Seq(S), NEW e \in S
  PROVE  x \o Append(y, e) = Append(x \o y, e)
OBVIOUS

(* What one more block of an upstream gives. *)
LEMMA SentAppend ==
  ASSUME NEW blocks \in Seq(BlockSet), NEW b, Sent(b)
  PROVE  LET more == Append(blocks, b)
         IN  /\ more \in Seq(BlockSet)
             /\ \A type : /\ Texts(blocks, type) \in Seq(Nat)
                          /\ b.type = type => Texts(more, type) = Texts(blocks, type) \o b.body
                          /\ b.type # type => Texts(more, type) = Texts(blocks, type)
             /\ ToolUses(blocks) \in Seq(BlockSet) /\ Details(blocks) \in Seq(BlockSet)
             /\ b.type = "tool_use" => ToolUses(more) = Append(ToolUses(blocks), b)
             /\ b.type # "tool_use" => ToolUses(more) = ToolUses(blocks)
             /\ IsDetail(b) => Details(more) = Append(Details(blocks), b)
             /\ ~IsDetail(b) => Details(more) = Details(blocks)
<1> DEFINE more == Append(blocks, b)
<1>1. b \in BlockSet /\ more \in Seq(BlockSet)
  BY DEF Sent
<1>2. /\ ToolUses(more) = ToolUses(blocks) \o If(IsToolUse(b), b)
      /\ Details(more) = Details(blocks) \o If(IsDetail(b), b)
      /\ \A type : Texts(more, type) = Texts(blocks, type) \o (IF b.type = type THEN b.body ELSE <<>>)
      /\ ToolUses(blocks) \in Seq(BlockSet) /\ Details(blocks) \in Seq(BlockSet)
      /\ \A type : Texts(blocks, type) \in Seq(Nat)
  BY <1>1, KindsAppend
<1> HIDE DEF more
<1>3. \A s \in Seq(BlockSet) : s \o <<>> = s /\ s \o <<b>> = Append(s, b)
  BY <1>1
<1>4. \A s \in Seq(Nat) : s \o <<>> = s
  OBVIOUS
<1>5. b.type = "tool_use" => ToolUses(more) = Append(ToolUses(blocks), b)
  BY <1>2, <1>3 DEF If, IsToolUse
<1>6. b.type # "tool_use" => ToolUses(more) = ToolUses(blocks)
  BY <1>2, <1>3 DEF If, IsToolUse
<1>7. IsDetail(b) => Details(more) = Append(Details(blocks), b)
  BY <1>2, <1>3 DEF If
<1>8. ~IsDetail(b) => Details(more) = Details(blocks)
  BY <1>2, <1>3 DEF If
<1>9. ASSUME NEW type
      PROVE  /\ b.type = type => Texts(more, type) = Texts(blocks, type) \o b.body
             /\ b.type # type => Texts(more, type) = Texts(blocks, type)
  BY <1>2, <1>4
<1> QED BY <1>1, <1>2, <1>5, <1>6, <1>7, <1>8, <1>9 DEF more

(* The client's calls. *)
LEMMA CallsMore ==
  ASSUME NEW uses \in Seq(BlockSet), NEW calls, CallsKnown(calls, uses), NEW b \in BlockSet
  PROVE  CallsKnown(Put(calls, Len(uses), Call(b.id, b.fn, b.body, FALSE)), Append(uses, b))
<1> DEFINE n == Len(uses)
           v == Call(b.id, b.fn, b.body, FALSE)
           new == Put(calls, n, v)
           more == Append(uses, b)
<1>1. /\ more \in Seq(BlockSet) /\ Len(more) = n + 1 /\ more[n + 1] = b
      /\ DOMAIN more = 1 .. n + 1 /\ DOMAIN uses = 1 .. n /\ n \in Nat
      /\ \A i \in 1 .. n : more[i] = uses[i]
  OBVIOUS
<1>2. DOMAIN calls = 0 .. n - 1
      /\ \A i \in 1 .. n : calls[i - 1] = Call(uses[i].id, uses[i].fn, uses[i].body, FALSE)
  BY <1>1 DEF CallsKnown
<1> HIDE DEF more, n, v
<1>3. DOMAIN new = 0 .. n
  <2>1. DOMAIN new = 0 .. n - 1 \cup {n}
    BY <1>2 DEF Put
  <2> QED BY <1>1, <2>1
<1>4. new[n] = v /\ \A i \in 0 .. n - 1 : new[i] = calls[i]
  BY <1>1, <1>2 DEF Put
<1> HIDE DEF new
<1>5. \A i \in 1 .. n + 1 : new[i - 1] = Call(more[i].id, more[i].fn, more[i].body, FALSE)
  <2> SUFFICES ASSUME NEW i \in 1 .. n + 1
               PROVE  new[i - 1] = Call(more[i].id, more[i].fn, more[i].body, FALSE)
    OBVIOUS
  <2>1. CASE i = n + 1
    <3>1. i - 1 = n
      BY <1>1, <2>1
    <3> QED BY <1>1, <1>4, <2>1, <3>1 DEF v
  <2>2. CASE i # n + 1
    <3>1. i \in 1 .. n /\ i - 1 \in 0 .. n - 1
      BY <1>1, <2>2
    <3> QED BY <1>1, <1>2, <1>4, <3>1
  <2> QED BY <2>1, <2>2
<1>6. 0 .. Len(more) - 1 = 0 .. n
  BY <1>1
<1> QED BY <1>1, <1>3, <1>5, <1>6 DEF CallsKnown, new, more, n, v

LEMMA CallWithArgs ==
  ASSUME NEW id, NEW fn, NEW a, NEW c, NEW s
  PROVE  [Call(id, fn, a, s) EXCEPT !.args = c] = Call(id, fn, c, s)
<1>1. Call(id, fn, a, s) = [id |-> id, fn |-> fn, args |-> a, signed |-> s]
      /\ Call(id, fn, c, s) = [id |-> id, fn |-> fn, args |-> c, signed |-> s]
  BY DEF Call
<1> QED BY <1>1

(* A delta of arguments grows the call of the last use. *)
LEMMA CallsGrow ==
  ASSUME NEW uses \in Seq(BlockSet), NEW calls, NEW b \in BlockSet, NEW c \in BlockSet, NEW p,
         CallsKnown(calls, Append(uses, b)),
         c.id = b.id, c.fn = b.fn, c.body = Append(b.body, p)
  PROVE  CallsKnown([calls EXCEPT ![Len(uses)].args = Append(@, p)], Append(uses, c))
<1> DEFINE n == Len(uses)
           old == Append(uses, b)
           more == Append(uses, c)
           new == [calls EXCEPT ![n].args = Append(@, p)]
<1>1. /\ old \in Seq(BlockSet) /\ Len(old) = n + 1 /\ old[n + 1] = b /\ DOMAIN old = 1 .. n + 1
      /\ more \in Seq(BlockSet) /\ Len(more) = n + 1 /\ more[n + 1] = c /\ DOMAIN more = 1 .. n + 1
      /\ n \in Nat
      /\ \A i \in 1 .. n : more[i] = old[i]
  OBVIOUS
<1>2. /\ DOMAIN calls = 0 .. Len(old) - 1
      /\ \A i \in 1 .. n + 1 : calls[i - 1] = Call(old[i].id, old[i].fn, old[i].body, FALSE)
  BY <1>1 DEF CallsKnown
<1> HIDE DEF old, more, n
<1>3. DOMAIN calls = 0 .. n /\ n \in 0 .. n /\ n + 1 \in 1 .. n + 1 /\ (n + 1) - 1 = n
  BY <1>1, <1>2
<1>4. calls[n] = Call(b.id, b.fn, b.body, FALSE)
  BY <1>1, <1>2, <1>3
<1>5. new = [calls EXCEPT ![n] = [calls[n] EXCEPT !.args = Append(calls[n].args, p)]]
  OBVIOUS
<1>6. calls[n].args = b.body
  BY <1>4 DEF Call
<1>7. [calls[n] EXCEPT !.args = Append(calls[n].args, p)] = Call(c.id, c.fn, c.body, FALSE)
  <2> DEFINE e == Append(b.body, p)
             no == FALSE
             v == Call(b.id, b.fn, b.body, no)
             w == Call(b.id, b.fn, e, no)
  <2>1. [v EXCEPT !.args = e] = w
    <3> HIDE DEF e, no
    <3> QED BY CallWithArgs
  <2>2. calls[n] = v /\ Append(calls[n].args, p) = e /\ w = Call(c.id, c.fn, c.body, FALSE)
    BY <1>4, <1>6
  <2> HIDE DEF v, w, e
  <2> QED BY <2>1, <2>2
<1> DEFINE v == Call(c.id, c.fn, c.body, FALSE)
<1> HIDE DEF v
<1>8. new = [calls EXCEPT ![n] = v]
  BY <1>5, <1>7 DEF v
<1>9. DOMAIN new = 0 .. n /\ new[n] = v /\ \A i \in 0 .. n : i # n => new[i] = calls[i]
  BY <1>3, <1>8
<1> HIDE DEF new
<1>10. \A i \in 1 .. n + 1 : new[i - 1] = Call(more[i].id, more[i].fn, more[i].body, FALSE)
  <2> SUFFICES ASSUME NEW i \in 1 .. n + 1
               PROVE  new[i - 1] = Call(more[i].id, more[i].fn, more[i].body, FALSE)
    OBVIOUS
  <2>1. CASE i = n + 1
    BY <1>1, <1>3, <1>9, <2>1 DEF v
  <2>2. CASE i # n + 1
    <3>1. i \in 1 .. n /\ i - 1 \in 0 .. n /\ i - 1 # n
      BY <1>1, <2>2
    <3> QED BY <1>1, <1>2, <1>9, <3>1
  <2> QED BY <2>1, <2>2
<1>11. 0 .. Len(more) - 1 = 0 .. n
  BY <1>1
<1> QED BY <1>1, <1>9, <1>10, <1>11 DEF CallsKnown, new, more, n

(* A block begins. *)
StartOf(blocks, b, t, g, t2, g2) ==
    LET last == Len(blocks) + 1
        ti == Cardinality(DOMAIN t.toolIndex)
    IN  /\ b.body = IF b.type = "redacted_thinking" THEN <<b.id>> ELSE <<>>
        /\ b.signed = FALSE
        /\ t2.started = t.started /\ t2.finish = t.finish
        /\ t2.toolIndex = IF b.type = "tool_use" THEN Put(t.toolIndex, last, ti) ELSE t.toolIndex
        /\ t2.thinking = IF b.type = "thinking"
                         THEN Put(t.thinking, last, [text |-> <<>>, signed |-> FALSE])
                         ELSE t.thinking
        /\ g2.text = g.text /\ g2.reasoning = g.reasoning /\ g2.finish = g.finish
        /\ g2.details = IF b.type = "redacted_thinking" THEN Append(g.details, b) ELSE g.details
        /\ g2.calls = IF b.type = "tool_use"
                      THEN Put(g.calls, ti, Call(b.id, b.fn, <<>>, FALSE)) ELSE g.calls

(* The client when a block begins. *)
LEMMA GotStarts ==
  ASSUME NEW blocks \in Seq(BlockSet), NEW b, Sent(b), NEW t, NEW g, NEW t2, NEW g2,
         GotKnown("between", blocks, g), TranslatorKnown("between", blocks, t),
         StartOf(blocks, b, t, g, t2, g2)
  PROVE  GotKnown("open", Append(blocks, b), g2)
<1> DEFINE more == Append(blocks, b)
<1>1. b \in BlockSet /\ b.type \in Types /\ b.type # "tool_result" /\ b.body \in Seq(Nat)
  BY DEF Sent, BlockSet
<1>2. /\ more \in Seq(BlockSet) /\ more # <<>>
      /\ Len(more) = Len(blocks) + 1 /\ more[Len(blocks) + 1] = b
      /\ Front(more) = blocks
  BY <1>1, LastOfAppend
<1>3. \A s \in Seq(Nat) : s \o <<>> = s
  OBVIOUS
<1>4. /\ Texts(blocks, "text") \in Seq(Nat) /\ Texts(blocks, "thinking") \in Seq(Nat)
      /\ b.type = "text" => Texts(more, "text") = Texts(blocks, "text") \o b.body
      /\ b.type # "text" => Texts(more, "text") = Texts(blocks, "text")
      /\ b.type = "thinking" => Texts(more, "thinking") = Texts(blocks, "thinking") \o b.body
      /\ b.type # "thinking" => Texts(more, "thinking") = Texts(blocks, "thinking")
      /\ ToolUses(blocks) \in Seq(BlockSet)
      /\ b.type = "tool_use" => ToolUses(more) = Append(ToolUses(blocks), b)
      /\ b.type # "tool_use" => ToolUses(more) = ToolUses(blocks)
      /\ IsDetail(b) => Details(more) = Append(Details(blocks), b)
      /\ ~IsDetail(b) => Details(more) = Details(blocks)
  <2>1. \A type : /\ Texts(blocks, type) \in Seq(Nat)
                  /\ b.type = type => Texts(more, type) = Texts(blocks, type) \o b.body
                  /\ b.type # type => Texts(more, type) = Texts(blocks, type)
    BY SentAppend
  <2>2. /\ ToolUses(blocks) \in Seq(BlockSet)
        /\ b.type = "tool_use" => ToolUses(more) = Append(ToolUses(blocks), b)
        /\ b.type # "tool_use" => ToolUses(more) = ToolUses(blocks)
        /\ IsDetail(b) => Details(more) = Append(Details(blocks), b)
        /\ ~IsDetail(b) => Details(more) = Details(blocks)
    BY SentAppend
  <2> HIDE DEF more
  <2> QED BY <2>1, <2>2
<1> HIDE DEF more
<1>5. /\ g2.text = g.text /\ g2.reasoning = g.reasoning /\ g2.finish = g.finish /\ b.signed = FALSE
      /\ b.type # "redacted_thinking" => b.body = <<>>
      /\ b.type = "redacted_thinking" => g2.details = Append(g.details, b)
      /\ b.type # "redacted_thinking" => g2.details = g.details
      /\ b.type = "tool_use" => g2.calls = Put(g.calls, Cardinality(DOMAIN t.toolIndex), Call(b.id, b.fn, <<>>, FALSE))
      /\ b.type # "tool_use" => g2.calls = g.calls
  BY DEF StartOf
<1>6. /\ g.text = Texts(blocks, "text") /\ g.reasoning = Texts(blocks, "thinking")
      /\ g.details = Details(blocks) /\ CallsKnown(g.calls, ToolUses(blocks)) /\ ~g.finish
  BY DEF GotKnown, Closed, NowOpen
<1>7. g2.text = Texts(more, "text")
  BY <1>3, <1>4, <1>5, <1>6
<1>8. g2.reasoning = Texts(more, "thinking")
  BY <1>3, <1>4, <1>5, <1>6
<1>9. g2.details = Details(Closed("open", more))
  <2>1. NowOpen("open", more, "thinking") <=> b.type = "thinking"
    BY <1>2 DEF NowOpen
  <2>2. Closed("open", more) = IF b.type = "thinking" THEN blocks ELSE more
    BY <1>2, <2>1 DEF Closed
  <2>3. IsDetail(b) <=> b.type = "redacted_thinking"
    BY <1>5 DEF IsDetail
  <2> QED BY <1>4, <1>5, <1>6, <2>2, <2>3
<1>10. CallsKnown(g2.calls, ToolUses(more))
  <2>1. CASE b.type = "tool_use"
    <3>1. Cardinality(DOMAIN t.toolIndex) = Len(ToolUses(blocks))
      BY DEF TranslatorKnown
    <3>2. g2.calls = Put(g.calls, Len(ToolUses(blocks)), Call(b.id, b.fn, b.body, FALSE))
      BY <1>5, <2>1, <3>1
    <3>3. CallsKnown(Put(g.calls, Len(ToolUses(blocks)), Call(b.id, b.fn, b.body, FALSE)), Append(ToolUses(blocks), b))
      BY <1>1, <1>4, <1>6, CallsMore
    <3> QED BY <1>4, <2>1, <3>2, <3>3
  <2> QED BY <1>4, <1>5, <1>6, <2>1
<1> QED BY <1>5, <1>6, <1>7, <1>8, <1>9, <1>10 DEF GotKnown, more

(* The translator when a block begins. *)
LEMMA TranslatorStarts ==
  ASSUME NEW blocks \in Seq(BlockSet), NEW b, Sent(b), NEW t, NEW g, NEW t2, NEW g2,
         TranslatorKnown("between", blocks, t), StartOf(blocks, b, t, g, t2, g2)
  PROVE  TranslatorKnown("open", Append(blocks, b), t2)
<1> DEFINE more == Append(blocks, b)
           n == Len(blocks)
           uses == ToolUses(blocks)
           k == n + 1
<1>1. b \in BlockSet /\ n \in Nat /\ DOMAIN blocks = 1 .. n
  BY DEF Sent
<1>2. /\ more # <<>> /\ Len(more) = k /\ more[k] = b
      /\ DOMAIN more = DOMAIN blocks \cup {k} /\ \A i \in DOMAIN blocks : more[i] = blocks[i]
  BY <1>1, LastOfAppend
<1>3. /\ uses \in Seq(BlockSet)
      /\ b.type = "tool_use" => ToolUses(more) = Append(uses, b)
      /\ b.type # "tool_use" => ToolUses(more) = uses
  BY SentAppend
<1>4. Len(uses) \in Nat /\ Len(Append(uses, b)) = Len(uses) + 1
  BY <1>1, <1>3
<1> DEFINE start == [text |-> <<>>, signed |-> FALSE]
<1>5. /\ t2.started = t.started /\ t2.finish = t.finish
      /\ b.type = "tool_use" => t2.toolIndex = Put(t.toolIndex, k, Cardinality(DOMAIN t.toolIndex))
      /\ b.type # "tool_use" => t2.toolIndex = t.toolIndex
      /\ b.type = "thinking" => t2.thinking = Put(t.thinking, k, start)
      /\ b.type # "thinking" => t2.thinking = t.thinking
      /\ b.type = "thinking" => start = [text |-> b.body, signed |-> b.signed]
  BY DEF StartOf
<1>6. /\ t.started /\ ~t.finish
      /\ DOMAIN t.toolIndex \subseteq DOMAIN blocks /\ IsFiniteSet(DOMAIN t.toolIndex)
      /\ Cardinality(DOMAIN t.toolIndex) = Len(uses)
      /\ DOMAIN t.thinking \subseteq {i \in DOMAIN blocks : blocks[i].type = "thinking"}
  BY DEF TranslatorKnown
<1>7. k \notin DOMAIN blocks
  BY <1>1
<1> HIDE DEF more, n, uses, start, k
<1>8. /\ b.type = "tool_use" =>
            /\ DOMAIN t2.toolIndex = DOMAIN t.toolIndex \cup {k}
            /\ t2.toolIndex[k] = Cardinality(DOMAIN t.toolIndex)
      /\ b.type = "thinking" =>
            DOMAIN t2.thinking = DOMAIN t.thinking \cup {k} /\ t2.thinking[k] = start
  <2>1. CASE b.type = "tool_use"
    BY <1>5, <2>1 DEF Put
  <2>2. CASE b.type = "thinking"
    BY <1>5, <2>2 DEF Put
  <2> QED BY <2>1, <2>2
<1>9. /\ DOMAIN t2.toolIndex \subseteq DOMAIN more /\ IsFiniteSet(DOMAIN t2.toolIndex)
      /\ Cardinality(DOMAIN t2.toolIndex) = Len(ToolUses(more))
  <2>1. CASE b.type = "tool_use"
    <3>1. DOMAIN t2.toolIndex = DOMAIN t.toolIndex \cup {k} /\ k \notin DOMAIN t.toolIndex
      BY <1>5, <1>6, <1>7, <1>8, <2>1
    <3>2. /\ IsFiniteSet(DOMAIN t2.toolIndex)
          /\ Cardinality(DOMAIN t2.toolIndex) = Cardinality(DOMAIN t.toolIndex) + 1
      BY <1>6, <3>1, FS_AddElement
    <3> QED BY <1>2, <1>3, <1>4, <1>6, <2>1, <3>1, <3>2
  <2>2. CASE b.type # "tool_use"
    BY <1>2, <1>3, <1>5, <1>6, <2>2
  <2> QED BY <2>1, <2>2
<1>10. DOMAIN t2.thinking \subseteq {i \in DOMAIN more : more[i].type = "thinking"}
  <2>1. ASSUME NEW i \in DOMAIN t2.thinking PROVE i \in DOMAIN more /\ more[i].type = "thinking"
    <3>1. CASE i \in DOMAIN t.thinking
      BY <1>2, <1>6, <3>1
    <3>2. CASE i \notin DOMAIN t.thinking
      BY <1>2, <1>5, <1>8, <2>1, <3>2
    <3> QED BY <3>1, <3>2
  <2> QED BY <2>1
<1>11. NowOpen("open", more, "tool_use") =>
          k \in DOMAIN t2.toolIndex /\ t2.toolIndex[k] = Len(ToolUses(more)) - 1
  <2> SUFFICES ASSUME b.type = "tool_use"
               PROVE  k \in DOMAIN t2.toolIndex /\ t2.toolIndex[k] = Len(ToolUses(more)) - 1
    BY <1>2 DEF NowOpen
  <2>1. t2.toolIndex[k] = Len(uses) /\ k \in DOMAIN t2.toolIndex
    BY <1>5, <1>6, <1>8
  <2>2. Len(ToolUses(more)) = Len(uses) + 1
    BY <1>3, <1>4
  <2> QED BY <1>4, <2>1, <2>2
<1>12. NowOpen("open", more, "thinking") =>
          /\ k \in DOMAIN t2.thinking
          /\ t2.thinking[k] = [text |-> more[k].body, signed |-> more[k].signed]
  <2> SUFFICES ASSUME b.type = "thinking"
               PROVE  /\ k \in DOMAIN t2.thinking
                      /\ t2.thinking[k] = [text |-> b.body, signed |-> b.signed]
    BY <1>2 DEF NowOpen
  <2> QED BY <1>5, <1>8
<1>13. t2.started /\ ~t2.finish
  BY <1>5, <1>6
<1> QED BY <1>2, <1>9, <1>10, <1>11, <1>12, <1>13 DEF TranslatorKnown, more

(* The open block changes. *)
LEMMA SentMore ==
  ASSUME NEW s \in Seq(BlockSet), NEW b, Sent(b),
         \A i \in DOMAIN s : Sent(s[i]), Len(ToolUses(s)) <= Len(s)
  PROVE  /\ Append(s, b) \in Seq(BlockSet)
         /\ \A i \in DOMAIN Append(s, b) : Sent(Append(s, b)[i])
         /\ Len(ToolUses(Append(s, b))) <= Len(Append(s, b))
<1>1. b \in BlockSet
  BY DEF Sent
<1>2. /\ Append(s, b) \in Seq(BlockSet) /\ Len(Append(s, b)) = Len(s) + 1
      /\ \A i \in DOMAIN Append(s, b) : Sent(Append(s, b)[i])
  BY <1>1, LastOfAppend
<1>3. /\ ToolUses(s) \in Seq(BlockSet)
      /\ ToolUses(Append(s, b)) = Append(ToolUses(s), b) \/ ToolUses(Append(s, b)) = ToolUses(s)
  BY SentAppend
<1>4. Len(Append(ToolUses(s), b)) = Len(ToolUses(s)) + 1 /\ Len(ToolUses(s)) \in Nat /\ Len(s) \in Nat
  BY <1>1, <1>3
<1>5. Len(ToolUses(Append(s, b))) <= Len(s) + 1
  BY <1>3, <1>4
<1> QED BY <1>2, <1>5

(* content_block_start keeps the stream in order. *)
LEMMA StreamStarts ==
  ASSUME NEW blocks, NEW t, NEW g, Stream("between", blocks, t, g), NEW b, Sent(b),
         NEW t2, NEW g2, StartOf(blocks, b, t, g, t2, g2), Shaped(t2, g2)
  PROVE  Stream("open", Append(blocks, b), t2, g2)
<1>1. /\ blocks \in Seq(BlockSet) /\ GotKnown("between", blocks, g)
      /\ TranslatorKnown("between", blocks, t)
      /\ \A i \in DOMAIN blocks : Sent(blocks[i])
      /\ Len(ToolUses(blocks)) <= Len(blocks)
  BY DEF Stream, Streamed
<1>2. GotKnown("open", Append(blocks, b), g2) /\ TranslatorKnown("open", Append(blocks, b), t2)
  BY <1>1, GotStarts, TranslatorStarts
<1> QED BY <1>1, <1>2, SentMore DEF Stream, Streamed, Places

(* What a delta adds: to the block, and to what the client has. *)
DeltaOf(last, b, t, g, t2, g2) ==
    /\ t2.started = t.started /\ t2.finish = t.finish /\ t2.toolIndex = t.toolIndex
    /\ g2.details = g.details /\ g2.finish = g.finish
    /\ \/ /\ b.type = "text"
          /\ g2.text = Append(g.text, b.id) /\ g2.reasoning = g.reasoning /\ g2.calls = g.calls
          /\ t2.thinking = t.thinking
       \/ /\ b.type = "thinking" /\ ~b.signed
          /\ g2.text = g.text /\ g2.reasoning = Append(g.reasoning, b.id) /\ g2.calls = g.calls
          /\ t2.thinking = [t.thinking EXCEPT ![last].text = Append(@, b.id)]
       \/ /\ b.type = "tool_use"
          /\ g2.text = g.text /\ g2.reasoning = g.reasoning
          /\ g2.calls = [g.calls EXCEPT ![t.toolIndex[last]].args = Append(@, b.id)]
          /\ t2.thinking = t.thinking

(* The client when a delta comes. *)
LEMMA GotGrows ==
  ASSUME NEW s \in Seq(BlockSet), NEW b, Sent(b), NEW c, Sent(c),
         c.type = b.type, c.id = b.id, c.fn = b.fn, c.signed = b.signed, c.body = Append(b.body, b.id),
         NEW t, NEW g, NEW t2, NEW g2,
         GotKnown("open", Append(s, b), g), TranslatorKnown("open", Append(s, b), t),
         DeltaOf(Len(Append(s, b)), b, t, g, t2, g2)
  PROVE  GotKnown("open", Append(s, c), g2)
<1> DEFINE old == Append(s, b)
           new == Append(s, c)
           piece == b.id
<1>1. /\ b \in BlockSet /\ c \in BlockSet /\ b.body \in Seq(Nat) /\ piece \in Nat
      /\ c.body = Append(b.body, piece)
  BY DEF Sent, BlockSet
<1>2. /\ old[Len(old)] = b /\ Front(old) = s /\ Len(old) = Len(s) + 1
      /\ new[Len(new)] = c /\ Front(new) = s
  BY <1>1, LastOfAppend
<1>3. ASSUME NEW type
      PROVE  /\ Texts(s, type) \in Seq(Nat)
             /\ b.type = type => Texts(old, type) = Texts(s, type) \o b.body
             /\ b.type # type => Texts(old, type) = Texts(s, type)
             /\ b.type = type => Texts(new, type) = Texts(s, type) \o c.body
             /\ b.type # type => Texts(new, type) = Texts(s, type)
  <2>1. \A ty : /\ Texts(s, ty) \in Seq(Nat)
                /\ b.type = ty => Texts(old, ty) = Texts(s, ty) \o b.body
                /\ b.type # ty => Texts(old, ty) = Texts(s, ty)
    BY SentAppend
  <2>2. \A ty : /\ c.type = ty => Texts(new, ty) = Texts(s, ty) \o c.body
                /\ c.type # ty => Texts(new, ty) = Texts(s, ty)
    BY SentAppend
  <2> HIDE DEF old, new
  <2> QED BY <2>1, <2>2
<1>4. ASSUME NEW type
      PROVE  /\ b.type = type => Texts(new, type) = Append(Texts(old, type), piece)
             /\ b.type # type => Texts(new, type) = Texts(old, type)
  <2>1. Texts(s, type) \o Append(b.body, piece) = Append(Texts(s, type) \o b.body, piece)
    <3> DEFINE x == Texts(s, type)
               y == b.body
    <3>1. x \in Seq(Nat) /\ y \in Seq(Nat) /\ piece \in Nat
      BY <1>1, <1>3
    <3> HIDE DEF x, y, piece
    <3>2. x \o Append(y, piece) = Append(x \o y, piece)
      BY <3>1, AppendedLater
    <3> QED BY <3>2 DEF x, y
  <2> HIDE DEF old, new, piece
  <2> QED BY <1>1, <1>3, <2>1
<1>5. /\ ToolUses(s) \in Seq(BlockSet)
      /\ b.type = "tool_use" => ToolUses(old) = Append(ToolUses(s), b)
      /\ b.type # "tool_use" => ToolUses(old) = ToolUses(s)
      /\ ~IsDetail(b) => Details(old) = Details(s)
  BY SentAppend
<1>6. /\ b.type = "tool_use" => ToolUses(new) = Append(ToolUses(s), c)
      /\ b.type # "tool_use" => ToolUses(new) = ToolUses(s)
      /\ ~IsDetail(c) => Details(new) = Details(s)
  BY SentAppend
<1> HIDE DEF old, new, piece
<1>7. Details(Closed("open", new)) = Details(Closed("open", old))
  <2>1. CASE b.type = "thinking"
    BY <1>2, <2>1 DEF Closed, NowOpen
  <2>2. CASE b.type # "thinking"
    <3>1. b.type # "redacted_thinking"
      BY <2>2 DEF DeltaOf
    <3>2. Closed("open", new) = new /\ Closed("open", old) = old /\ ~IsDetail(b) /\ ~IsDetail(c)
      BY <1>2, <2>2, <3>1 DEF Closed, NowOpen, IsDetail
    <3> QED BY <1>5, <1>6, <3>2
  <2> QED BY <2>1, <2>2
<1>8. /\ g.text = Texts(old, "text") /\ g.reasoning = Texts(old, "thinking")
      /\ g.details = Details(Closed("open", old)) /\ CallsKnown(g.calls, ToolUses(old)) /\ ~g.finish
  BY DEF GotKnown, old
<1>9. g2.text = Texts(new, "text")
  <2>1. /\ b.type = "text" => g2.text = Append(g.text, piece)
        /\ b.type # "text" => g2.text = g.text
    BY DEF DeltaOf, piece
  <2> QED BY <1>4, <1>8, <2>1
<1>10. g2.reasoning = Texts(new, "thinking")
  <2>1. /\ b.type = "thinking" => g2.reasoning = Append(g.reasoning, piece)
        /\ b.type # "thinking" => g2.reasoning = g.reasoning
    BY DEF DeltaOf, piece
  <2> QED BY <1>4, <1>8, <2>1
<1>11. CallsKnown(g2.calls, ToolUses(new))
  <2>1. CASE b.type = "tool_use"
    <3>1. t.toolIndex[Len(old)] = Len(ToolUses(old)) - 1
      BY <1>2, <2>1 DEF TranslatorKnown, NowOpen, old
    <3>2. Len(ToolUses(old)) = Len(ToolUses(s)) + 1 /\ Len(ToolUses(s)) \in Nat
      BY <1>1, <1>5, <2>1
    <3>3. t.toolIndex[Len(old)] = Len(ToolUses(s))
      BY <3>1, <3>2
    <3>4. g2.calls = [g.calls EXCEPT ![Len(ToolUses(s))].args = Append(@, piece)]
      BY <2>1, <3>3 DEF DeltaOf, old, piece
    <3>5. CallsKnown([g.calls EXCEPT ![Len(ToolUses(s))].args = Append(@, piece)], Append(ToolUses(s), c))
      BY <1>1, <1>5, <1>8, <2>1, CallsGrow DEF piece
    <3> QED BY <1>6, <2>1, <3>4, <3>5
  <2>2. CASE b.type # "tool_use"
    BY <1>5, <1>6, <1>8, <2>2 DEF DeltaOf
  <2> QED BY <2>1, <2>2
<1> QED BY <1>7, <1>8, <1>9, <1>10, <1>11 DEF GotKnown, DeltaOf, new

LEMMA SameUses ==
  ASSUME NEW s \in Seq(BlockSet), NEW b, Sent(b), NEW c, Sent(c), c.type = b.type
  PROVE  Len(ToolUses(Append(s, c))) = Len(ToolUses(Append(s, b)))
<1> DEFINE old == Append(s, b)
           new == Append(s, c)
<1>1. /\ ToolUses(s) \in Seq(BlockSet)
      /\ b.type = "tool_use" => ToolUses(old) = Append(ToolUses(s), b)
      /\ b.type # "tool_use" => ToolUses(old) = ToolUses(s)
  BY SentAppend
<1>2. /\ b.type = "tool_use" => ToolUses(new) = Append(ToolUses(s), c)
      /\ b.type # "tool_use" => ToolUses(new) = ToolUses(s)
  BY SentAppend
<1>3. Len(Append(ToolUses(s), b)) = Len(Append(ToolUses(s), c))
  BY <1>1 DEF Sent
<1> HIDE DEF old, new
<1> QED BY <1>1, <1>2, <1>3 DEF old, new

(* The translator when a delta comes. *)
LEMMA TranslatorGrows ==
  ASSUME NEW s \in Seq(BlockSet), NEW b, Sent(b), NEW c, Sent(c),
         c.type = b.type, c.signed = b.signed, c.body = Append(b.body, b.id),
         NEW t, NEW g, NEW t2, NEW g2,
         TranslatorKnown("open", Append(s, b), t),
         DeltaOf(Len(Append(s, b)), b, t, g, t2, g2)
  PROVE  TranslatorKnown("open", Append(s, c), t2)
<1> DEFINE old == Append(s, b)
           new == Append(s, c)
           last == Len(old)
           piece == b.id
<1>1. b \in BlockSet /\ c \in BlockSet
  BY DEF Sent
<1>2. /\ old[last] = b /\ Len(new) = last /\ new[last] = c /\ new # <<>>
      /\ DOMAIN new = DOMAIN old /\ \A i \in DOMAIN old : i # last => new[i] = old[i]
  <2>1. Len(old) = Len(s) + 1 /\ DOMAIN old = DOMAIN s \cup {Len(s) + 1} /\ old[Len(s) + 1] = b
        /\ \A i \in DOMAIN s : old[i] = s[i]
    BY <1>1, LastOfAppend
  <2>2. Len(new) = Len(s) + 1 /\ DOMAIN new = DOMAIN s \cup {Len(s) + 1} /\ new[Len(s) + 1] = c
        /\ new # <<>> /\ \A i \in DOMAIN s : new[i] = s[i]
    BY <1>1, LastOfAppend
  <2> HIDE DEF old, new
  <2> QED BY <2>1, <2>2
<1>3. Len(ToolUses(new)) = Len(ToolUses(old))
  BY SameUses
<1> HIDE DEF old, new, last, piece
<1>4. /\ t.started /\ ~t.finish
      /\ DOMAIN t.toolIndex \subseteq DOMAIN old /\ IsFiniteSet(DOMAIN t.toolIndex)
      /\ Cardinality(DOMAIN t.toolIndex) = Len(ToolUses(old))
      /\ DOMAIN t.thinking \subseteq {i \in DOMAIN old : old[i].type = "thinking"}
      /\ b.type = "tool_use" =>
            last \in DOMAIN t.toolIndex /\ t.toolIndex[last] = Len(ToolUses(old)) - 1
      /\ b.type = "thinking" =>
            last \in DOMAIN t.thinking /\ t.thinking[last] = [text |-> b.body, signed |-> b.signed]
  BY <1>2 DEF TranslatorKnown, NowOpen, old, last
<1>5. /\ t2.started = t.started /\ t2.finish = t.finish /\ t2.toolIndex = t.toolIndex
      /\ b.type = "thinking" => t2.thinking = [t.thinking EXCEPT ![last].text = Append(@, piece)]
      /\ b.type # "thinking" => t2.thinking = t.thinking
      /\ c.body = Append(b.body, piece)
  BY DEF DeltaOf, old, last, piece
<1>6. DOMAIN t2.thinking = DOMAIN t.thinking
  BY <1>5
<1>7. DOMAIN t2.thinking \subseteq {i \in DOMAIN new : new[i].type = "thinking"}
  BY <1>2, <1>4, <1>6
<1>8. b.type = "thinking" =>
         last \in DOMAIN t2.thinking /\ t2.thinking[last] = [text |-> c.body, signed |-> c.signed]
  <2> SUFFICES ASSUME b.type = "thinking"
               PROVE  last \in DOMAIN t2.thinking /\ t2.thinking[last] = [text |-> c.body, signed |-> c.signed]
    OBVIOUS
  <2> DEFINE e == Append(b.body, piece)
             r == t.thinking[last]
             no == b.signed
             x == b.body
  <2>1. r = [text |-> x, signed |-> no] /\ last \in DOMAIN t.thinking
    BY <1>4
  <2>2. t2.thinking[last] = [r EXCEPT !.text = Append(r.text, piece)]
    BY <1>5, <2>1
  <2>3. r.text = x /\ c.body = Append(x, piece) /\ c.signed = no
    BY <1>5, <2>1
  <2>4. [r EXCEPT !.text = Append(r.text, piece)] = [text |-> e, signed |-> no]
    <3>1. Append(r.text, piece) = e
      BY <2>3
    <3> HIDE DEF r, no, x, e
    <3>2. [r EXCEPT !.text = e] = [text |-> e, signed |-> no]
      BY <2>1
    <3> QED BY <3>1, <3>2
  <2> HIDE DEF r, no, x
  <2> QED BY <1>6, <2>1, <2>2, <2>3, <2>4
<1>9. t2.started /\ ~t2.finish
  BY <1>4, <1>5
<1>10. NowOpen("open", new, "tool_use") =>
          Len(new) \in DOMAIN t2.toolIndex /\ t2.toolIndex[Len(new)] = Len(ToolUses(new)) - 1
  BY <1>2, <1>3, <1>4, <1>5 DEF NowOpen
<1>11. NowOpen("open", new, "thinking") =>
          /\ Len(new) \in DOMAIN t2.thinking
          /\ t2.thinking[Len(new)] = [text |-> new[Len(new)].body, signed |-> new[Len(new)].signed]
  BY <1>2, <1>8 DEF NowOpen
<1>12. /\ DOMAIN t2.toolIndex \subseteq DOMAIN new /\ IsFiniteSet(DOMAIN t2.toolIndex)
       /\ Cardinality(DOMAIN t2.toolIndex) = Len(ToolUses(new))
  BY <1>2, <1>3, <1>4, <1>5
<1> QED BY <1>2, <1>7, <1>9, <1>10, <1>11, <1>12 DEF TranslatorKnown, new

(* content_block_delta keeps the stream in order. *)
LEMMA StreamGrows ==
  ASSUME NEW s \in Seq(BlockSet), NEW b, NEW c, NEW t, NEW g, Stream("open", Append(s, b), t, g),
         b \in BlockSet,
         c = [type |-> b.type, id |-> b.id, body |-> Append(b.body, b.id),
              signed |-> b.signed, fn |-> b.fn],
         NEW t2, NEW g2, DeltaOf(Len(Append(s, b)), b, t, g, t2, g2), Shaped(t2, g2)
  PROVE  Stream("open", Append(s, c), t2, g2)
<1>1. /\ GotKnown("open", Append(s, b), g) /\ TranslatorKnown("open", Append(s, b), t)
      /\ \A i \in DOMAIN Append(s, b) : Sent(Append(s, b)[i])
      /\ Len(ToolUses(Append(s, b))) <= Len(Append(s, b))
  BY DEF Stream, Streamed
<1>2. Sent(b) /\ \A i \in DOMAIN s : Sent(s[i])
  <2>1. /\ Len(s) + 1 \in DOMAIN Append(s, b) /\ Append(s, b)[Len(s) + 1] = b
        /\ \A i \in DOMAIN s : i \in DOMAIN Append(s, b) /\ Append(s, b)[i] = s[i]
    BY LastOfAppend
  <2> QED BY <1>1, <2>1
<1>3. Sent(c) /\ c.type = b.type /\ c.id = b.id /\ c.fn = b.fn /\ c.signed = b.signed
      /\ c.body = Append(b.body, b.id)
  <2>1. b.type \in Types /\ b.id \in AnyId /\ b.id \in Nat /\ b.body \in Seq(Nat)
        /\ b.signed \in BOOLEAN /\ b.fn \in AnyFn /\ \A k \in DOMAIN b.body : b.body[k] = b.id
    BY <1>2 DEF Sent, BlockSet
  <2> DEFINE x == b.body
             p == b.id
             e == Append(x, p)
  <2>2. e \in Seq(Nat) /\ \A k \in DOMAIN e : e[k] = p
    <3> HIDE DEF x, p
    <3>1. x \in Seq(Nat) /\ p \in Nat /\ \A k \in DOMAIN x : x[k] = p
      BY <2>1 DEF x, p
    <3> QED BY <3>1
  <2>3. c.type = b.type /\ c.id = p /\ c.fn = b.fn /\ c.signed = b.signed /\ c.body = e
    OBVIOUS
  <2> HIDE DEF e
  <2>4. c \in BlockSet
    BY <2>1, <2>2 DEF BlockSet, e
  <2> QED BY <1>2, <2>2, <2>3, <2>4 DEF Sent, e
<1>4. GotKnown("open", Append(s, c), g2)
  BY <1>1, <1>2, <1>3, GotGrows
<1>5. TranslatorKnown("open", Append(s, c), t2)
  BY <1>1, <1>2, <1>3, TranslatorGrows
<1>6. /\ Append(s, c) \in Seq(BlockSet)
      /\ \A i \in DOMAIN Append(s, c) : Sent(Append(s, c)[i])
      /\ Len(Append(s, c)) = Len(Append(s, b))
  <2>1. c \in BlockSet
    BY <1>3 DEF Sent
  <2>2. /\ Append(s, c) \in Seq(BlockSet) /\ Append(s, c)[Len(s) + 1] = c
        /\ DOMAIN Append(s, c) = DOMAIN s \cup {Len(s) + 1}
        /\ Len(Append(s, c)) = Len(s) + 1 /\ \A i \in DOMAIN s : Append(s, c)[i] = s[i]
    BY <2>1, LastOfAppend
  <2>3. Len(Append(s, b)) = Len(s) + 1
    BY LastOfAppend
  <2> QED BY <1>2, <1>3, <2>2, <2>3
<1>7. Len(ToolUses(Append(s, c))) <= Len(Append(s, c))
  BY <1>1, <1>2, <1>3, <1>6, SameUses
<1> QED BY <1>4, <1>5, <1>6, <1>7 DEF Stream, Streamed, Places

(* The signature of the open block comes. *)
LEMMA StreamSigns ==
  ASSUME NEW s \in Seq(BlockSet), NEW b \in BlockSet, NEW c, NEW t, NEW g, NEW t2,
         Stream("open", Append(s, b), t, g), b.type = "thinking",
         c = [type |-> b.type, id |-> b.id, body |-> b.body, signed |-> TRUE, fn |-> b.fn],
         t2.started = t.started, t2.finish = t.finish, t2.toolIndex = t.toolIndex,
         t2.thinking = [t.thinking EXCEPT ![Len(Append(s, b))].signed = TRUE], Shaped(t2, g)
  PROVE  Stream("open", Append(s, c), t2, g)
<1> DEFINE old == Append(s, b)
           new == Append(s, c)
           last == Len(old)
<1>1. /\ GotKnown("open", old, g) /\ TranslatorKnown("open", old, t)
      /\ \A i \in DOMAIN old : Sent(old[i])
      /\ Len(ToolUses(old)) <= Len(old)
  BY DEF Stream, Streamed
<1>2. /\ Len(old) = Len(s) + 1 /\ DOMAIN old = DOMAIN s \cup {Len(s) + 1} /\ old[Len(s) + 1] = b
      /\ \A i \in DOMAIN s : old[i] = s[i]
      /\ Front(old) = s
  BY LastOfAppend
<1>3. Sent(b) /\ \A i \in DOMAIN s : Sent(s[i])
  <2> HIDE DEF old
  <2> QED BY <1>1, <1>2
<1>4. Sent(c) /\ c \in BlockSet /\ c.type = b.type /\ c.id = b.id /\ c.body = b.body /\ c.signed
  <2>1. b.type \in Types /\ b.id \in AnyId /\ b.body \in Seq(Nat) /\ b.fn \in AnyFn
    BY DEF BlockSet
  <2> DEFINE yes == TRUE
  <2>2. yes \in BOOLEAN
    OBVIOUS
  <2>3. /\ c.type = b.type /\ c.id = b.id /\ c.body = b.body /\ c.signed = yes /\ c.fn = b.fn
        /\ c = [type |-> b.type, id |-> b.id, body |-> b.body, signed |-> yes, fn |-> b.fn]
    OBVIOUS
  <2> HIDE DEF yes
  <2>4. c \in BlockSet
    BY <2>1, <2>2, <2>3 DEF BlockSet
  <2> QED BY <1>3, <2>3, <2>4 DEF Sent, yes
<1>5. /\ Len(new) = Len(s) + 1 /\ DOMAIN new = DOMAIN s \cup {Len(s) + 1} /\ new[Len(s) + 1] = c
      /\ new \in Seq(BlockSet) /\ new # <<>> /\ \A i \in DOMAIN s : new[i] = s[i]
      /\ Front(new) = s
  BY <1>4, LastOfAppend
<1>6. Len(ToolUses(new)) = Len(ToolUses(old))
  BY <1>3, <1>4, SameUses
<1>7. /\ Texts(new, "text") = Texts(old, "text") /\ Texts(new, "thinking") = Texts(old, "thinking")
      /\ ToolUses(new) = ToolUses(old)
  <2>1. /\ \A ty : /\ Texts(s, ty) \in Seq(Nat)
                   /\ b.type = ty => Texts(old, ty) = Texts(s, ty) \o b.body
                   /\ b.type # ty => Texts(old, ty) = Texts(s, ty)
    BY <1>3, SentAppend
  <2>2. \A ty : /\ c.type = ty => Texts(new, ty) = Texts(s, ty) \o c.body
                /\ c.type # ty => Texts(new, ty) = Texts(s, ty)
    BY <1>4, SentAppend
  <2>3. b.type # "tool_use" => ToolUses(old) = ToolUses(s)
    BY <1>3, SentAppend
  <2>4. c.type # "tool_use" => ToolUses(new) = ToolUses(s)
    BY <1>4, SentAppend
  <2> HIDE DEF old, new
  <2> QED BY <1>4, <2>1, <2>2, <2>3, <2>4
<1> HIDE DEF old, new, last
<1>8. Closed("open", new) = s /\ Closed("open", old) = s
  BY <1>2, <1>4, <1>5 DEF Closed, NowOpen
<1>9. GotKnown("open", new, g)
  BY <1>1, <1>7, <1>8 DEF GotKnown
<1>10. \A i \in DOMAIN new : Sent(new[i]) /\ (i # last => new[i] = old[i]) /\ i \in DOMAIN old
  BY <1>2, <1>3, <1>4, <1>5 DEF last
<1>11. /\ t.started /\ ~t.finish
       /\ DOMAIN t.toolIndex \subseteq DOMAIN old /\ IsFiniteSet(DOMAIN t.toolIndex)
       /\ Cardinality(DOMAIN t.toolIndex) = Len(ToolUses(old))
       /\ DOMAIN t.thinking \subseteq {i \in DOMAIN old : old[i].type = "thinking"}
       /\ last \in DOMAIN t.thinking /\ t.thinking[last] = [text |-> b.body, signed |-> b.signed]
  BY <1>1, <1>2 DEF TranslatorKnown, NowOpen, last
<1>12. /\ DOMAIN t2.thinking = DOMAIN t.thinking
       /\ t2.thinking[last] = [text |-> c.body, signed |-> c.signed]
  <2> DEFINE x == b.body
             no == b.signed
             yes == c.signed
             r == t.thinking[last]
  <2>1. r = [text |-> x, signed |-> no] /\ c.body = x
    BY <1>4, <1>11
  <2>2. t2.thinking = [t.thinking EXCEPT ![last].signed = yes]
    BY DEF old, last
  <2>3. t2.thinking[last] = [r EXCEPT !.signed = yes] /\ DOMAIN t2.thinking = DOMAIN t.thinking
    BY <1>11, <2>2
  <2> HIDE DEF x, no, yes, r
  <2>4. [r EXCEPT !.signed = yes] = [text |-> x, signed |-> yes]
    BY <2>1
  <2> QED BY <2>1, <2>3, <2>4 DEF yes
<1>13. TranslatorKnown("open", new, t2)
  <2>1. t2.started /\ ~t2.finish
    BY <1>11
  <2>2. /\ DOMAIN t2.toolIndex \subseteq DOMAIN new /\ IsFiniteSet(DOMAIN t2.toolIndex)
        /\ Cardinality(DOMAIN t2.toolIndex) = Len(ToolUses(new))
    BY <1>2, <1>5, <1>6, <1>11
  <2>3. DOMAIN t2.thinking \subseteq {i \in DOMAIN new : new[i].type = "thinking"}
    BY <1>2, <1>4, <1>5, <1>11, <1>12
  <2>4. /\ Len(new) = last /\ new[last] = c
        /\ ~NowOpen("open", new, "tool_use")
    BY <1>2, <1>4, <1>5 DEF NowOpen, last
  <2> QED BY <1>5, <1>11, <1>12, <2>1, <2>2, <2>3, <2>4 DEF TranslatorKnown
<1>14. Len(ToolUses(new)) <= Len(new)
  BY <1>1, <1>2, <1>5, <1>6
<1> QED BY <1>5, <1>9, <1>10, <1>13, <1>14 DEF Stream, Streamed, Places, new

(* The open block is complete. *)
LEMMA StreamStops ==
  ASSUME NEW s \in Seq(BlockSet), NEW b \in BlockSet, NEW t, NEW g, NEW t2, NEW g2,
         Stream("open", Append(s, b), t, g), Shaped(t2, g2),
         LET last == Len(Append(s, b))
             detail == [type |-> "thinking", id |-> b.id, body |-> t.thinking[last].text,
                        signed |-> TRUE, fn |-> NoFunction]
             done == last \in DOMAIN t.thinking /\ t.thinking[last].signed
         IN  /\ t2.started = t.started /\ t2.finish = t.finish /\ t2.toolIndex = t.toolIndex
             /\ g2.text = g.text /\ g2.reasoning = g.reasoning
             /\ g2.calls = g.calls /\ g2.finish = g.finish
             /\ done => /\ g2.details = Append(g.details, detail)
                        /\ t2.thinking = [i \in DOMAIN t.thinking \ {last} |-> t.thinking[i]]
             /\ ~done => g2.details = g.details /\ t2.thinking = t.thinking
  PROVE  Stream("between", Append(s, b), t2, g2)
<1> DEFINE old == Append(s, b)
           last == Len(old)
           detail == [type |-> "thinking", id |-> b.id, body |-> t.thinking[last].text,
                      signed |-> TRUE, fn |-> NoFunction]
           done == last \in DOMAIN t.thinking /\ t.thinking[last].signed
<1>1. /\ GotKnown("open", old, g) /\ TranslatorKnown("open", old, t)
      /\ \A i \in DOMAIN old : Sent(old[i])
      /\ Len(ToolUses(old)) <= Len(old) /\ old \in Seq(BlockSet)
  BY DEF Stream, Streamed
<1>2. /\ last = Len(s) + 1 /\ last \in DOMAIN old /\ old[last] = b /\ Front(old) = s
  BY LastOfAppend
<1>3. Sent(b)
  <2> HIDE DEF old, last
  <2> QED BY <1>1, <1>2
<1>4. /\ IsDetail(b) => Details(old) = Append(Details(s), b)
      /\ ~IsDetail(b) => Details(old) = Details(s)
  BY <1>3, SentAppend
<1>5. /\ t2.started = t.started /\ t2.finish = t.finish /\ t2.toolIndex = t.toolIndex
      /\ g2.text = g.text /\ g2.reasoning = g.reasoning
      /\ g2.calls = g.calls /\ g2.finish = g.finish
      /\ done => /\ g2.details = Append(g.details, detail)
                 /\ t2.thinking = [i \in DOMAIN t.thinking \ {last} |-> t.thinking[i]]
      /\ ~done => g2.details = g.details /\ t2.thinking = t.thinking
  OBVIOUS
<1> HIDE DEF old, last, done
<1>6. /\ t.started /\ ~t.finish
      /\ DOMAIN t.toolIndex \subseteq DOMAIN old /\ IsFiniteSet(DOMAIN t.toolIndex)
      /\ Cardinality(DOMAIN t.toolIndex) = Len(ToolUses(old))
      /\ DOMAIN t.thinking \subseteq {i \in DOMAIN old : old[i].type = "thinking"}
      /\ b.type = "thinking" =>
            last \in DOMAIN t.thinking /\ t.thinking[last] = [text |-> b.body, signed |-> b.signed]
  BY <1>1, <1>2 DEF TranslatorKnown, NowOpen, last
<1>7. DOMAIN t2.thinking \subseteq {i \in DOMAIN old : old[i].type = "thinking"}
  BY <1>5, <1>6
<1>8. TranslatorKnown("between", old, t2)
  <2>1. t2.started /\ ~t2.finish
    BY <1>5, <1>6
  <2> QED BY <1>5, <1>6, <1>7, <2>1 DEF TranslatorKnown, NowOpen
<1>9. /\ g.text = Texts(old, "text") /\ g.reasoning = Texts(old, "thinking")
      /\ g.details = Details(Closed("open", old)) /\ CallsKnown(g.calls, ToolUses(old)) /\ ~g.finish
  BY <1>1 DEF GotKnown
<1>10. g2.details = Details(old)
  <2>1. CASE b.type = "thinking" /\ b.signed
    <3>1. done
      BY <1>6, <2>1 DEF done
    <3>2. detail = b
      <4>1. b = [type |-> b.type, id |-> b.id, body |-> b.body, signed |-> b.signed, fn |-> b.fn]
        BY DEF BlockSet
      <4>2. t.thinking[last].text = b.body /\ b.fn = NoFunction
        BY <1>3, <1>6, <2>1 DEF Sent
      <4> QED BY <2>1, <4>1, <4>2
    <3>3. Closed("open", old) = s
      BY <1>2, <2>1 DEF Closed, NowOpen, last
    <3>4. IsDetail(b)
      BY <2>1 DEF IsDetail
    <3> HIDE DEF detail
    <3> QED BY <1>4, <1>5, <1>9, <3>1, <3>2, <3>3, <3>4
  <2>2. CASE b.type = "thinking" /\ ~b.signed
    <3>1. ~done
      BY <1>6, <2>2 DEF done
    <3>2. Closed("open", old) = s
      BY <1>2, <2>2 DEF Closed, NowOpen, last
    <3>3. ~IsDetail(b)
      BY <2>2 DEF IsDetail
    <3> QED BY <1>4, <1>5, <1>9, <3>1, <3>2, <3>3
  <2>3. CASE b.type # "thinking"
    <3>1. ~done
      BY <1>2, <1>6, <2>3 DEF done
    <3>2. Closed("open", old) = old
      BY <1>2, <2>3 DEF Closed, NowOpen, last
    <3> QED BY <1>5, <1>9, <3>1, <3>2
  <2> QED BY <2>1, <2>2, <2>3
<1>11. GotKnown("between", old, g2)
  BY <1>5, <1>9, <1>10 DEF GotKnown, Closed, NowOpen
<1> QED BY <1>1, <1>8, <1>11 DEF Stream, Streamed, Places, old

(* The stream moves on without a block. *)
LEMMA StreamMoves ==
  ASSUME NEW at, NEW to, NEW blocks, NEW t, NEW g, NEW t2, NEW g2,
         Stream(at, blocks, t, g), Shaped(t2, g2),
         \/ at = "asked" /\ to = "between"
         \/ at = "between" /\ to = "stopping"
         \/ at = "stopping" /\ to = "stopped"
         \/ at = "between" /\ to = "unexplained",
         t2.started = (t.started \/ at = "asked"),
         t2.finish = (t.finish \/ to = "stopping"),
         t2.toolIndex = t.toolIndex, t2.thinking = t.thinking,
         g2.text = g.text, g2.reasoning = g.reasoning, g2.details = g.details,
         g2.calls = g.calls, g2.finish = (g.finish \/ to \in {"stopped", "unexplained"})
  PROVE  Stream(to, blocks, t2, g2)
<1>1. /\ blocks \in Seq(BlockSet) /\ \A i \in DOMAIN blocks : Sent(blocks[i])
      /\ Len(ToolUses(blocks)) <= Len(blocks)
  BY DEF Stream
<1>2. CASE at = "asked" /\ to = "between"
  <2>1. blocks = <<>> /\ t = NewTranslator /\ g = Nothing
    BY <1>2 DEF Stream, Streamed
  <2>2. /\ ToolUses(blocks) = <<>> /\ Details(blocks) = <<>>
        /\ Texts(blocks, "text") = <<>> /\ Texts(blocks, "thinking") = <<>>
    BY <2>1, KindsOfNone
  <2>3. /\ g2.text = <<>> /\ g2.reasoning = <<>> /\ g2.details = <<>> /\ g2.calls = <<>>
        /\ t2.toolIndex = <<>> /\ t2.thinking = <<>>
    BY <2>1 DEF NewTranslator, Nothing
  <2>4. t2.started /\ ~t2.finish /\ ~g2.finish
    BY <1>2, <2>1 DEF NewTranslator, Nothing, Shaped
  <2>5. DOMAIN <<>> = {} /\ 0 .. Len(<<>>) - 1 = {} /\ Len(<<>>) = 0
    OBVIOUS
  <2>6. CallsKnown(g2.calls, ToolUses(blocks))
    BY <2>2, <2>3, <2>5 DEF CallsKnown
  <2>7. GotKnown("between", blocks, g2)
    BY <2>2, <2>3, <2>4, <2>6 DEF GotKnown, Closed, NowOpen
  <2>8. TranslatorKnown("between", blocks, t2)
    BY <2>1, <2>2, <2>3, <2>4, <2>5, FS_EmptySet DEF TranslatorKnown, NowOpen
  <2> QED BY <1>1, <1>2, <2>7, <2>8 DEF Stream, Streamed, Places
<1>3. CASE at = "between" /\ to = "stopping"
  <2>1. GotKnown("between", blocks, g) /\ TranslatorKnown("between", blocks, t) /\ Shaped(t, g)
    BY <1>3 DEF Stream, Streamed
  <2>2. t2.started /\ t2.finish /\ ~g2.finish
    BY <1>3, <2>1 DEF Shaped, GotKnown, TranslatorKnown
  <2>3. GotKnown("stopping", blocks, g2)
    BY <2>1, <2>2 DEF GotKnown, Closed, NowOpen
  <2>4. TranslatorKnown("stopping", blocks, t2)
    BY <2>1, <2>2 DEF TranslatorKnown, NowOpen
  <2> QED BY <1>1, <1>3, <2>3, <2>4 DEF Stream, Streamed, Places
<1>4. CASE at = "stopping" /\ to = "stopped"
  <2>1. GotKnown("stopping", blocks, g) /\ TranslatorKnown("stopping", blocks, t) /\ Shaped(t, g)
    BY <1>4 DEF Stream, Streamed
  <2>2. t2.started /\ t2.finish /\ g2.finish
    BY <1>4, <2>1 DEF Shaped, GotKnown, TranslatorKnown
  <2>3. GotKnown("stopped", blocks, g2)
    BY <2>1, <2>2 DEF GotKnown, Closed, NowOpen
  <2>4. TranslatorKnown("stopped", blocks, t2)
    BY <2>1, <2>2 DEF TranslatorKnown, NowOpen
  <2> QED BY <1>1, <1>4, <2>3, <2>4 DEF Stream, Streamed, Places
<1>5. CASE at = "between" /\ to = "unexplained"
  <2>1. GotKnown("between", blocks, g) /\ TranslatorKnown("between", blocks, t) /\ Shaped(t, g)
    BY <1>5 DEF Stream, Streamed
  <2>2. t2.started /\ ~t2.finish /\ g2.finish
    BY <1>5, <2>1 DEF Shaped, GotKnown, TranslatorKnown
  <2>3. GotKnown("unexplained", blocks, g2)
    BY <2>1, <2>2 DEF GotKnown, Closed, NowOpen
  <2>4. TranslatorKnown("unexplained", blocks, t2)
    BY <2>1, <2>2 DEF TranslatorKnown, NowOpen
  <2> QED BY <1>1, <1>5, <2>3, <2>4 DEF Stream, Streamed, Places
<1> QED BY <1>2, <1>3, <1>4, <1>5

(* Before the answer nothing is known and nothing shown. *)
LEMMA StreamQuiet ==
  ASSUME NEW at \in {"none", "asked"}
  PROVE  Stream(at, <<>>, NewTranslator, Nothing)
<1>1. <<>> \in Seq(BlockSet) /\ DOMAIN <<>> = {} /\ Len(<<>>) = 0
  OBVIOUS
<1> QED BY <1>1, KindsOfNone DEF Stream, Streamed, Places

(* A block of a whole answer, and a block that begins. *)
LEMMA WholeSent ==
  ASSUME NEW type \in Types \ {"tool_result"}, NEW id \in Nat \ {0}, NEW n \in Nat,
         NEW signed \in BOOLEAN, signed => type = "thinking", NEW fn \in Functions
  PROVE  Sent([type |-> type, id |-> id,
               body |-> [i \in 1 .. (IF type = "redacted_thinking" THEN 1 ELSE n) |-> id],
               signed |-> signed, fn |-> IF type = "tool_use" THEN fn ELSE NoFunction])
<1> DEFINE k == IF type = "redacted_thinking" THEN 1 ELSE n
           body == [i \in 1 .. k |-> id]
           f == IF type = "tool_use" THEN fn ELSE NoFunction
           b == [type |-> type, id |-> id, body |-> body, signed |-> signed, fn |-> f]
<1>1. k \in Nat
  OBVIOUS
<1>2. body \in Seq(Nat) /\ \A i \in DOMAIN body : body[i] = id
  <2> HIDE DEF k
  <2> QED BY <1>1
<1>3. f \in AnyFn /\ (type # "tool_use" => f = NoFunction)
  BY DEF AnyFn
<1>4. type \in Types /\ id \in AnyId
  BY DEF AnyId
<1> HIDE DEF body, f
<1>5. /\ b \in BlockSet /\ b.type = type /\ b.id = id /\ b.body = body /\ b.signed = signed /\ b.fn = f
  BY <1>2, <1>3, <1>4 DEF BlockSet
<1> HIDE DEF b
<1>6. Sent(b)
  BY <1>2, <1>3, <1>5 DEF Sent
<1> QED BY <1>6 DEF b, body, f

(* The block a stream begins. *)
LEMMA FreshSent ==
  ASSUME NEW type \in Types \ {"tool_result"}, NEW id \in Nat \ {0}, NEW fn \in Functions
  PROVE  LET redacted == type = "redacted_thinking"
             block == [Block(type, id, IF redacted THEN <<id>> ELSE <<>>)
                          EXCEPT !.fn = IF type = "tool_use" THEN fn ELSE NoFunction]
         IN  /\ Sent(block) /\ block.type = type /\ block.id = id /\ block.signed = FALSE
             /\ block.body = IF redacted THEN <<id>> ELSE <<>>
<1> DEFINE body == IF type = "redacted_thinking" THEN <<id>> ELSE <<>>
           f == IF type = "tool_use" THEN fn ELSE NoFunction
           no == FALSE
           b == [type |-> type, id |-> id, body |-> body, signed |-> no, fn |-> f]
<1>1. [Block(type, id, body) EXCEPT !.fn = f] = b
  <2> HIDE DEF body, f
  <2> QED BY BlockWithFn
<1>2. body \in Seq(Nat) /\ \A i \in DOMAIN body : body[i] = id
  <2>1. <<id>> \in Seq(Nat) /\ DOMAIN <<id>> = {1} /\ <<id>>[1] = id
        /\ <<>> \in Seq(Nat) /\ DOMAIN <<>> = {}
    OBVIOUS
  <2> QED BY <2>1
<1>3. f \in AnyFn /\ (type # "tool_use" => f = NoFunction)
  BY DEF AnyFn
<1>4. type \in Types /\ id \in AnyId /\ no \in BOOLEAN
  BY DEF AnyId
<1> HIDE DEF body, f, no
<1>5. /\ b \in BlockSet /\ b.type = type /\ b.id = id /\ b.body = body /\ b.signed = no /\ b.fn = f
  BY <1>2, <1>3, <1>4 DEF BlockSet
<1> HIDE DEF b
<1>6. Sent(b)
  BY <1>2, <1>3, <1>5 DEF Sent, no
<1> QED BY <1>1, <1>5, <1>6 DEF body, f, no

(* Records with one field changed. *)
LEMMA TranslatorFields ==
  ASSUME NEW t, NEW g, Shaped(t, g), NEW x
  PROVE  /\ [t EXCEPT !.toolIndex = x] = [started |-> t.started, finish |-> t.finish,
                toolIndex |-> x, thinking |-> t.thinking]
         /\ [t EXCEPT !.thinking = x] = [started |-> t.started, finish |-> t.finish,
                toolIndex |-> t.toolIndex, thinking |-> x]
<1> DEFINE a == t.started
           f == t.finish
           i == t.toolIndex
           h == t.thinking
<1>1. t = [started |-> a, finish |-> f, toolIndex |-> i, thinking |-> h]
  BY DEF Shaped
<1> HIDE DEF a, f, i, h
<1>2. /\ [t EXCEPT !.toolIndex = x] = [started |-> a, finish |-> f, toolIndex |-> x, thinking |-> h]
      /\ [t EXCEPT !.thinking = x] = [started |-> a, finish |-> f, toolIndex |-> i, thinking |-> x]
  BY <1>1
<1> QED BY <1>2 DEF a, f, i, h

LEMMA GotFields ==
  ASSUME NEW t, NEW g, Shaped(t, g), NEW x
  PROVE  /\ [g EXCEPT !.text = x] = [text |-> x, reasoning |-> g.reasoning,
                details |-> g.details, calls |-> g.calls, finish |-> g.finish]
         /\ [g EXCEPT !.reasoning = x] = [text |-> g.text, reasoning |-> x,
                details |-> g.details, calls |-> g.calls, finish |-> g.finish]
         /\ [g EXCEPT !.details = x] = [text |-> g.text, reasoning |-> g.reasoning,
                details |-> x, calls |-> g.calls, finish |-> g.finish]
         /\ [g EXCEPT !.calls = x] = [text |-> g.text, reasoning |-> g.reasoning,
                details |-> g.details, calls |-> x, finish |-> g.finish]
<1> DEFINE gt == g.text
           gr == g.reasoning
           gd == g.details
           gc == g.calls
           gf == g.finish
<1>1. g = [text |-> gt, reasoning |-> gr, details |-> gd, calls |-> gc, finish |-> gf]
  BY DEF Shaped
<1> HIDE DEF gt, gr, gd, gc, gf
<1>2. /\ [g EXCEPT !.text = x] = [text |-> x, reasoning |-> gr, details |-> gd, calls |-> gc, finish |-> gf]
      /\ [g EXCEPT !.reasoning = x] = [text |-> gt, reasoning |-> x, details |-> gd, calls |-> gc, finish |-> gf]
      /\ [g EXCEPT !.details = x] = [text |-> gt, reasoning |-> gr, details |-> x, calls |-> gc, finish |-> gf]
      /\ [g EXCEPT !.calls = x] = [text |-> gt, reasoning |-> gr, details |-> gd, calls |-> x, finish |-> gf]
  BY <1>1
<1> QED BY <1>2 DEF gt, gr, gd, gc, gf

LEMMA FlagsChange ==
  ASSUME NEW t, NEW g, Shaped(t, g), NEW yes \in BOOLEAN
  PROVE  /\ [t EXCEPT !.started = yes] = [started |-> yes, finish |-> t.finish,
                toolIndex |-> t.toolIndex, thinking |-> t.thinking]
         /\ [t EXCEPT !.finish = yes] = [started |-> t.started, finish |-> yes,
                toolIndex |-> t.toolIndex, thinking |-> t.thinking]
         /\ [g EXCEPT !.finish = yes] = [text |-> g.text, reasoning |-> g.reasoning,
                details |-> g.details, calls |-> g.calls, finish |-> yes]
<1> DEFINE a == t.started
           f == t.finish
           i == t.toolIndex
           h == t.thinking
           gt == g.text
           gr == g.reasoning
           gd == g.details
           gc == g.calls
           gf == g.finish
<1>1. /\ t = [started |-> a, finish |-> f, toolIndex |-> i, thinking |-> h]
      /\ g = [text |-> gt, reasoning |-> gr, details |-> gd, calls |-> gc, finish |-> gf]
  BY DEF Shaped
<1> HIDE DEF a, f, i, h, gt, gr, gd, gc, gf
<1>2. /\ [t EXCEPT !.started = yes] = [started |-> yes, finish |-> f, toolIndex |-> i, thinking |-> h]
      /\ [t EXCEPT !.finish = yes] = [started |-> a, finish |-> yes, toolIndex |-> i, thinking |-> h]
      /\ [g EXCEPT !.finish = yes] = [text |-> gt, reasoning |-> gr, details |-> gd, calls |-> gc, finish |-> yes]
  BY <1>1
<1> QED BY <1>2 DEF a, f, i, h, gt, gr, gd, gc, gf

LEMMA ShapedIs ==
  ASSUME NEW s \in BOOLEAN, NEW f \in BOOLEAN, NEW i, NEW h, NEW a, NEW b, NEW c, NEW d, NEW e \in BOOLEAN
  PROVE  Shaped([started |-> s, finish |-> f, toolIndex |-> i, thinking |-> h],
                [text |-> a, reasoning |-> b, details |-> c, calls |-> d, finish |-> e])
  BY DEF Shaped

LEMMA StartShaped == Shaped(NewTranslator, Nothing)
<1> DEFINE no == FALSE
           none == <<>>
<1>1. no \in BOOLEAN
  OBVIOUS
<1>2. /\ NewTranslator = [started |-> no, finish |-> no, toolIndex |-> none, thinking |-> none]
      /\ Nothing = [text |-> none, reasoning |-> none, details |-> none, calls |-> none, finish |-> no]
  BY DEF NewTranslator, Nothing
<1> HIDE DEF no, none
<1> QED BY <1>1, <1>2, ShapedIs

(* The end of every answer, good or bad. *)
LEMMA StreamReset ==
  ASSUME upstream' = Quiet, translator' = NewTranslator, got' = Nothing
  PROVE  StreamKnown'
<1>1. upstream'.at = "none" /\ upstream'.blocks = <<>>
      /\ upstream' = [at |-> upstream'.at, blocks |-> upstream'.blocks]
  BY DEF Quiet
<1>2. Stream("none", <<>>, NewTranslator, Nothing)
  BY StreamQuiet
<1> QED BY <1>1, <1>2 DEF StreamKnown

LEMMA StreamAsked ==
  ASSUME upstream' = [Quiet EXCEPT !.at = "asked"], translator' = translator, got' = got,
         StreamKnown, upstream.at = "none"
  PROVE  StreamKnown'
<1>1. upstream'.at = "asked" /\ upstream'.blocks = <<>>
      /\ upstream' = [at |-> upstream'.at, blocks |-> upstream'.blocks]
  BY DEF Quiet
<1>2. translator = NewTranslator /\ got = Nothing
  BY DEF StreamKnown, Stream, Streamed
<1>3. Stream("asked", <<>>, NewTranslator, Nothing)
  BY StreamQuiet
<1> QED BY <1>1, <1>2, <1>3 DEF StreamKnown

LEMMA StreamGrowsWhole ==
  ASSUME StreamKnown, Used \in Nat, GrowWhole
  PROVE  StreamKnown'
<1>1. /\ upstream.at \in {"asked", "whole"}
      /\ translator' = translator /\ got' = got
  BY DEF GrowWhole
<1>2. /\ upstream.blocks \in Seq(BlockSet) /\ \A i \in DOMAIN upstream.blocks : Sent(upstream.blocks[i])
      /\ Len(ToolUses(upstream.blocks)) <= Len(upstream.blocks)
      /\ translator = NewTranslator /\ got = Nothing
  BY <1>1 DEF StreamKnown, Stream, Streamed
<1>3. NewId \in Nat \ {0}
  <2> DEFINE n == Len(upstream.blocks)
  <2>1. n \in Nat
    BY <1>2
  <2> HIDE DEF n
  <2> QED BY <2>1 DEF NewId, n
<1>4. PICK b : Sent(b) /\ upstream' = [at |-> "whole", blocks |-> Append(upstream.blocks, b)]
  <2>1. PICK type \in Types \ {"tool_result"}, n \in 0 .. MaxPieces,
             signed \in BOOLEAN, fn \in Functions :
          /\ signed => type = "thinking"
          /\ upstream' = [at |-> "whole", blocks |-> Append(upstream.blocks,
               [type |-> type, id |-> NewId,
                body |-> [i \in 1 .. (IF type = "redacted_thinking" THEN 1 ELSE n) |-> NewId],
                signed |-> signed, fn |-> IF type = "tool_use" THEN fn ELSE NoFunction])]
    BY DEF GrowWhole
  <2>2. n \in Nat
    OBVIOUS
  <2> DEFINE id == NewId
  <2>3. id \in Nat \ {0}
    BY <1>3
  <2> HIDE DEF id
  <2>4. Sent([type |-> type, id |-> id,
               body |-> [i \in 1 .. (IF type = "redacted_thinking" THEN 1 ELSE n) |-> id],
               signed |-> signed, fn |-> IF type = "tool_use" THEN fn ELSE NoFunction])
    BY <2>1, <2>2, <2>3, WholeSent
  <2> QED BY <2>1, <2>4 DEF id
<1>5. /\ Append(upstream.blocks, b) \in Seq(BlockSet)
      /\ \A i \in DOMAIN Append(upstream.blocks, b) : Sent(Append(upstream.blocks, b)[i])
      /\ Len(ToolUses(Append(upstream.blocks, b))) <= Len(Append(upstream.blocks, b))
  BY <1>2, <1>4, SentMore
<1>6. upstream'.at = "whole" /\ upstream'.blocks = Append(upstream.blocks, b)
      /\ upstream' = [at |-> upstream'.at, blocks |-> upstream'.blocks]
  BY <1>4
<1>7. Stream("whole", Append(upstream.blocks, b), NewTranslator, Nothing)
  BY <1>5 DEF Stream, Streamed, Places
<1> QED BY <1>1, <1>2, <1>6, <1>7 DEF StreamKnown

(* An event that moves the stream on without a block. *)
LEMMA StreamEventMoves ==
  ASSUME StreamKnown, MessageStart \/ MessageDelta \/ MessageStop
  PROVE  StreamKnown'
<1> DEFINE at == upstream.at
           blocks == upstream.blocks
<1>1. upstream = [at |-> at, blocks |-> blocks] /\ Stream(at, blocks, translator, got)
  BY DEF StreamKnown
<1> HIDE DEF at, blocks
<1>2. at = upstream.at /\ blocks = upstream.blocks
  BY DEF at, blocks
<1> DEFINE yes == TRUE
<1>3. CASE MessageStart
  <2>1. /\ at = "asked" /\ upstream' = [upstream EXCEPT !.at = "between"]
        /\ translator' = [translator EXCEPT !.started = yes] /\ got' = got
    BY <1>2, <1>3 DEF MessageStart, Streaming
  <2>2. /\ translator = NewTranslator /\ got = Nothing
        /\ Shaped(translator, got)
    BY <1>1, <2>1, StartShaped DEF Stream, Streamed
  <2>3. translator' = [started |-> yes, finish |-> translator.finish,
                       toolIndex |-> translator.toolIndex, thinking |-> translator.thinking]
    BY <2>1, <2>2, FlagsChange
  <2>4. upstream' = [at |-> "between", blocks |-> blocks]
    BY <1>1, <2>1
  <2>5. /\ translator'.started = yes /\ translator'.finish = translator.finish
        /\ translator'.toolIndex = translator.toolIndex /\ translator'.thinking = translator.thinking
    BY <2>3
  <2>6. Shaped(translator', got')
    BY <2>1, <2>2, <2>3 DEF Shaped
  <2>7. Stream("between", blocks, translator', got')
    BY <1>1, <2>1, <2>2, <2>5, <2>6, StreamMoves DEF Shaped
  <2> QED BY <2>4, <2>7 DEF StreamKnown
<1>4. CASE MessageDelta
  <2>1. /\ at = "between" /\ upstream' = [upstream EXCEPT !.at = "stopping"]
        /\ translator' = [translator EXCEPT !.finish = yes] /\ got' = got
    BY <1>2, <1>4 DEF MessageDelta, Streaming
  <2>2. Shaped(translator, got)
    BY <1>1, <2>1 DEF Stream, Streamed
  <2>3. translator' = [started |-> translator.started, finish |-> yes,
                       toolIndex |-> translator.toolIndex, thinking |-> translator.thinking]
    BY <2>1, <2>2, FlagsChange
  <2>4. upstream' = [at |-> "stopping", blocks |-> blocks]
    BY <1>1, <2>1
  <2>5. /\ translator'.finish = yes /\ translator'.started = translator.started
        /\ translator'.toolIndex = translator.toolIndex /\ translator'.thinking = translator.thinking
    BY <2>3
  <2>6. Shaped(translator', got')
    BY <2>1, <2>2, <2>3 DEF Shaped
  <2>7. Stream("stopping", blocks, translator', got')
    BY <1>1, <2>1, <2>2, <2>5, <2>6, StreamMoves DEF Shaped
  <2> QED BY <2>4, <2>7 DEF StreamKnown
<1>5. CASE MessageStop
  <2> DEFINE to == IF at = "stopping" THEN "stopped" ELSE "unexplained"
  <2>1. /\ at \in {"between", "stopping"} /\ upstream' = [upstream EXCEPT !.at = to]
        /\ got' = [got EXCEPT !.finish = yes] /\ translator' = translator
    BY <1>2, <1>5 DEF MessageStop, Streaming
  <2>2. Shaped(translator, got)
    BY <1>1, <2>1 DEF Stream, Streamed
  <2>3. got' = [text |-> got.text, reasoning |-> got.reasoning, details |-> got.details,
                calls |-> got.calls, finish |-> yes]
    BY <2>1, <2>2, FlagsChange
  <2>4. upstream' = [at |-> to, blocks |-> blocks]
    BY <1>1, <2>1
  <2>5. /\ got'.text = got.text /\ got'.reasoning = got.reasoning /\ got'.details = got.details
        /\ got'.calls = got.calls /\ got'.finish = yes
    BY <2>3
  <2>6. Shaped(translator', got')
    BY <2>1, <2>2, <2>3 DEF Shaped
  <2>7. Stream(to, blocks, translator', got')
    <3>1. CASE at = "stopping"
      <4>1. Stream("stopped", blocks, translator', got')
        BY <1>1, <2>1, <2>2, <2>5, <2>6, <3>1, StreamMoves DEF Shaped
      <4> QED BY <3>1, <4>1
    <3>2. CASE at = "between"
      <4>1. Stream("unexplained", blocks, translator', got')
        BY <1>1, <2>1, <2>2, <2>5, <2>6, <3>2, StreamMoves DEF Shaped
      <4> QED BY <3>2, <4>1
    <3> QED BY <2>1, <3>1, <3>2
  <2> QED BY <2>4, <2>7 DEF StreamKnown
<1> QED BY <1>3, <1>4, <1>5

LEMMA StreamBlockStarts ==
  ASSUME StreamKnown, Used \in Nat, ContentBlockStart
  PROVE  StreamKnown'
<1> DEFINE blocks == upstream.blocks
           last == Len(blocks) + 1
           id == NewId
<1>1. /\ Stream("between", blocks, translator, got) /\ Shaped(translator, got)
      /\ blocks \in Seq(BlockSet)
  BY DEF StreamKnown, ContentBlockStart, Streaming, Stream, Streamed
<1>2. id \in Nat \ {0}
  <2> DEFINE n == Len(upstream.blocks)
  <2>1. n \in Nat
    BY <1>1
  <2> HIDE DEF n
  <2> QED BY <2>1 DEF NewId, n
<1> HIDE DEF id
<1>3. PICK type \in Types \ {"tool_result"}, fn \in Functions :
          LET redacted == type = "redacted_thinking"
              block == [Block(type, id, IF redacted THEN <<id>> ELSE <<>>)
                          EXCEPT !.fn = IF type = "tool_use" THEN fn ELSE NoFunction]
          IN /\ upstream' = [at |-> "open", blocks |-> Append(upstream.blocks, block)]
             /\ \/ type = "tool_use" /\ StartTool(block)
                \/ /\ type = "thinking"
                   /\ translator' = [translator EXCEPT !.thinking =
                          Put(@, Index + 1, [text |-> <<>>, signed |-> FALSE])]
                   /\ UNCHANGED got
                \/ /\ redacted
                   /\ got' = [got EXCEPT !.details = Append(@, block)]
                   /\ UNCHANGED translator
                \/ type = "text" /\ UNCHANGED <<translator, got>>
  BY DEF ContentBlockStart, id
<1> DEFINE b == [Block(type, id, IF type = "redacted_thinking" THEN <<id>> ELSE <<>>)
                   EXCEPT !.fn = IF type = "tool_use" THEN fn ELSE NoFunction]
<1>4. /\ Sent(b) /\ b.type = type /\ b.id = id /\ b.signed = FALSE
      /\ b.body = IF type = "redacted_thinking" THEN <<id>> ELSE <<>>
  BY <1>2, FreshSent
<1>5. /\ upstream' = [at |-> "open", blocks |-> Append(blocks, b)]
      /\ \/ type = "tool_use" /\ StartTool(b)
         \/ /\ type = "thinking"
            /\ translator' = [translator EXCEPT !.thinking =
                   Put(translator.thinking, last, [text |-> <<>>, signed |-> FALSE])]
            /\ got' = got
         \/ /\ type = "redacted_thinking"
            /\ got' = [got EXCEPT !.details = Append(got.details, b)]
            /\ translator' = translator
         \/ type = "text" /\ translator' = translator /\ got' = got
  BY <1>3 DEF Index
<1> HIDE DEF b, last
<1> DEFINE ti == Cardinality(DOMAIN translator.toolIndex)
           ix == Put(translator.toolIndex, last, ti)
           cs == Put(got.calls, ti, Call(b.id, b.fn, <<>>, FALSE))
           th == Put(translator.thinking, last, [text |-> <<>>, signed |-> FALSE])
           ds == Append(got.details, b)
<1>6. StartOf(blocks, b, translator, got, translator', got') /\ Shaped(translator', got')
  <2>1. CASE type = "tool_use"
    <3>1. translator' = [translator EXCEPT !.toolIndex = ix] /\ got' = [got EXCEPT !.calls = cs]
      BY <1>5, <2>1 DEF StartTool, Index, last
    <3> HIDE DEF ix, cs
    <3>2. /\ translator' = [started |-> translator.started, finish |-> translator.finish,
                            toolIndex |-> ix, thinking |-> translator.thinking]
          /\ got' = [text |-> got.text, reasoning |-> got.reasoning,
                     details |-> got.details, calls |-> cs, finish |-> got.finish]
      <4>1. translator' = [started |-> translator.started, finish |-> translator.finish,
                           toolIndex |-> ix, thinking |-> translator.thinking]
        <5>1. Shaped(translator, got) /\ translator' = [translator EXCEPT !.toolIndex = ix]
          BY <1>1, <3>1
        <5> QED BY <5>1, TranslatorFields
      <4>2. got' = [text |-> got.text, reasoning |-> got.reasoning,
                    details |-> got.details, calls |-> cs, finish |-> got.finish]
        <5>1. Shaped(translator, got) /\ got' = [got EXCEPT !.calls = cs]
          BY <1>1, <3>1
        <5> QED BY <5>1, GotFields
      <4> QED BY <4>1, <4>2
    <3>3. Shaped(translator', got')
      BY <1>1, <3>2 DEF Shaped
    <3>4. /\ translator'.started = translator.started /\ translator'.finish = translator.finish
          /\ translator'.toolIndex = ix /\ translator'.thinking = translator.thinking
          /\ got'.text = got.text /\ got'.reasoning = got.reasoning
          /\ got'.details = got.details /\ got'.calls = cs /\ got'.finish = got.finish
      BY <3>2
    <3> QED BY <1>4, <2>1, <3>3, <3>4 DEF StartOf, ix, cs, last
  <2>2. CASE type = "thinking"
    <3>1. translator' = [translator EXCEPT !.thinking = th] /\ got' = got
      BY <1>5, <2>2
    <3> HIDE DEF th
    <3>2. translator' = [started |-> translator.started, finish |-> translator.finish,
                         toolIndex |-> translator.toolIndex, thinking |-> th]
      <4>1. Shaped(translator, got) /\ translator' = [translator EXCEPT !.thinking = th]
        BY <1>1, <3>1
      <4> QED BY <4>1, TranslatorFields
    <3>3. Shaped(translator', got')
      BY <1>1, <3>1, <3>2 DEF Shaped
    <3>4. /\ translator'.started = translator.started /\ translator'.finish = translator.finish
          /\ translator'.toolIndex = translator.toolIndex /\ translator'.thinking = th
      BY <3>2
    <3> QED BY <1>4, <2>2, <3>1, <3>3, <3>4 DEF StartOf, th, last
  <2>3. CASE type = "redacted_thinking"
    <3>1. got' = [got EXCEPT !.details = ds] /\ translator' = translator
      BY <1>5, <2>3
    <3> HIDE DEF ds
    <3>2. got' = [text |-> got.text, reasoning |-> got.reasoning,
                  details |-> ds, calls |-> got.calls, finish |-> got.finish]
      <4>1. Shaped(translator, got) /\ got' = [got EXCEPT !.details = ds]
        BY <1>1, <3>1
      <4> QED BY <4>1, GotFields
    <3>3. Shaped(translator', got')
      BY <1>1, <3>1, <3>2 DEF Shaped
    <3>4. /\ got'.text = got.text /\ got'.reasoning = got.reasoning
          /\ got'.details = ds /\ got'.calls = got.calls /\ got'.finish = got.finish
      BY <3>2
    <3> QED BY <1>4, <2>3, <3>1, <3>3, <3>4 DEF StartOf, ds
  <2>4. CASE type = "text"
    BY <1>1, <1>4, <1>5, <2>4 DEF StartOf
  <2> QED BY <1>5, <2>1, <2>2, <2>3, <2>4
<1>7. Stream("open", Append(blocks, b), translator', got')
  BY <1>1, <1>4, <1>6, StreamStarts
<1> QED BY <1>5, <1>7 DEF StreamKnown

(* The open block and those before it. *)
LEMMA OpenBlock ==
  ASSUME StreamKnown, upstream.at = "open"
  PROVE  \E s \in Seq(BlockSet), b \in BlockSet :
            /\ upstream = [at |-> "open", blocks |-> Append(s, b)]
            /\ upstream.blocks = Append(s, b)
            /\ Index = Len(Append(s, b)) /\ Open = b
            /\ Stream("open", Append(s, b), translator, got) /\ Shaped(translator, got)
            /\ Sent(b)
<1> DEFINE blocks == upstream.blocks
<1>1. /\ Stream("open", blocks, translator, got) /\ Shaped(translator, got)
      /\ blocks \in Seq(BlockSet) /\ blocks # <<>>
      /\ upstream = [at |-> "open", blocks |-> blocks]
      /\ \A i \in DOMAIN blocks : Sent(blocks[i])
  BY DEF StreamKnown, Stream, Streamed, TranslatorKnown
<1>2. /\ Front(blocks) \in Seq(BlockSet) /\ blocks[Len(blocks)] \in BlockSet
      /\ blocks = Append(Front(blocks), blocks[Len(blocks)]) /\ Len(blocks) \in DOMAIN blocks
  BY <1>1, SplitLast
<1>3. Index = Len(blocks) /\ Open = blocks[Len(blocks)]
  BY DEF Index, Open
<1> DEFINE s == Front(blocks)
           b == blocks[Len(blocks)]
<1>4. blocks = Append(s, b) /\ s \in Seq(BlockSet) /\ b \in BlockSet /\ Sent(b) /\ Open = b
  BY <1>1, <1>2, <1>3
<1> HIDE DEF s, b
<1>5. /\ upstream = [at |-> "open", blocks |-> Append(s, b)]
      /\ upstream.blocks = Append(s, b)
      /\ Index = Len(Append(s, b)) /\ Open = b
      /\ Stream("open", Append(s, b), translator, got) /\ Shaped(translator, got)
      /\ Sent(b)
  BY <1>1, <1>3, <1>4
<1> QED BY <1>4, <1>5

LEMMA StreamBlockGrows ==
  ASSUME StreamKnown, ContentBlockDelta
  PROVE  StreamKnown'
<1>1. upstream.at = "open"
  BY DEF ContentBlockDelta, Streaming
<1>2. PICK s \in Seq(BlockSet), b \in BlockSet :
            /\ upstream = [at |-> "open", blocks |-> Append(s, b)]
            /\ upstream.blocks = Append(s, b)
            /\ Index = Len(Append(s, b)) /\ Open = b
            /\ Stream("open", Append(s, b), translator, got) /\ Shaped(translator, got)
            /\ Sent(b)
  BY <1>1, OpenBlock
<1> DEFINE blocks == Append(s, b)
           last == Len(blocks)
           piece == b.id
           body == Append(b.body, piece)
           c == [type |-> b.type, id |-> b.id, body |-> body, signed |-> b.signed, fn |-> b.fn]
<1>3. /\ upstream' = [upstream EXCEPT !.blocks[Index].body = Append(@, piece)]
      /\ \/ /\ b.type = "text"
            /\ got' = [got EXCEPT !.text = Append(@, piece)]
            /\ translator' = translator
         \/ /\ b.type = "thinking" /\ ~b.signed
            /\ got' = [got EXCEPT !.reasoning = Append(@, piece)]
            /\ translator' = [translator EXCEPT !.thinking[Index].text = Append(@, piece)]
         \/ /\ b.type = "tool_use"
            /\ got' = [got EXCEPT !.calls[translator.toolIndex[Index]].args = Append(@, piece)]
            /\ translator' = translator
  BY <1>2 DEF ContentBlockDelta
<1>4. upstream' = [at |-> "open", blocks |-> Append(s, c)]
  <2>1. blocks[last] = b /\ last \in DOMAIN blocks
    BY LastOfAppend
  <2>2. [b EXCEPT !.body = Append(b.body, piece)] = c
    <3> DEFINE ty == b.type
               id == b.id
               sg == b.signed
               fn == b.fn
               bo == b.body
    <3>1. b = [type |-> ty, id |-> id, body |-> bo, signed |-> sg, fn |-> fn]
      BY DEF BlockSet
    <3> HIDE DEF ty, id, sg, fn, bo, body
    <3>2. [b EXCEPT !.body = body] = [type |-> ty, id |-> id, body |-> body, signed |-> sg, fn |-> fn]
      BY <3>1
    <3> QED BY <3>2 DEF ty, id, sg, fn, body
  <2>3. c \in BlockSet
    <3>1. b.body \in Seq(Nat) /\ b.id \in Nat
      BY <1>2 DEF Sent, BlockSet
    <3>2. body \in Seq(Nat)
      BY <3>1
    <3> HIDE DEF body
    <3> QED BY <3>2 DEF BlockSet
  <2> HIDE DEF c
  <2>4. [blocks EXCEPT ![last] = c] = Append(s, c)
    BY <2>3, LastReplaced
  <2> HIDE DEF blocks, last, piece
  <2>5. upstream' = [at |-> "open", blocks |-> [blocks EXCEPT ![last].body = Append(@, piece)]]
    BY <1>2, <1>3 DEF blocks, last
  <2>6. [blocks EXCEPT ![last].body = Append(@, piece)] = [blocks EXCEPT ![last] = c]
    BY <2>1, <2>2
  <2> QED BY <2>4, <2>5, <2>6
<1> HIDE DEF c, body
<1> DEFINE x == Append(got.text, piece)
           y == Append(got.reasoning, piece)
           th == [translator.thinking EXCEPT ![last].text = Append(@, piece)]
           cs == [got.calls EXCEPT ![translator.toolIndex[last]].args = Append(@, piece)]
<1>5. DeltaOf(last, b, translator, got, translator', got') /\ Shaped(translator', got')
  <2>1. CASE b.type = "text"
    <3>1. got' = [got EXCEPT !.text = x] /\ translator' = translator
      BY <1>3, <2>1
    <3> HIDE DEF x
    <3>2. got' = [text |-> x, reasoning |-> got.reasoning,
                  details |-> got.details, calls |-> got.calls, finish |-> got.finish]
      <4>1. Shaped(translator, got) /\ got' = [got EXCEPT !.text = x]
        BY <1>2, <3>1
      <4> QED BY <4>1, GotFields
    <3>3. Shaped(translator', got')
      BY <1>2, <3>1, <3>2 DEF Shaped
    <3>4. /\ got'.text = x /\ got'.reasoning = got.reasoning
          /\ got'.details = got.details /\ got'.calls = got.calls /\ got'.finish = got.finish
      BY <3>2
    <3> QED BY <2>1, <3>1, <3>3, <3>4 DEF DeltaOf, x
  <2>2. CASE b.type = "thinking"
    <3>1. /\ got' = [got EXCEPT !.reasoning = y] /\ translator' = [translator EXCEPT !.thinking = th]
          /\ ~b.signed
      BY <1>2, <1>3, <2>2
    <3> HIDE DEF y, th
    <3>2. got' = [text |-> got.text, reasoning |-> y,
                  details |-> got.details, calls |-> got.calls, finish |-> got.finish]
      <4>1. Shaped(translator, got) /\ got' = [got EXCEPT !.reasoning = y]
        BY <1>2, <3>1
      <4> QED BY <4>1, GotFields
    <3>3. translator' = [started |-> translator.started, finish |-> translator.finish,
                         toolIndex |-> translator.toolIndex, thinking |-> th]
      <4>1. Shaped(translator, got) /\ translator' = [translator EXCEPT !.thinking = th]
        BY <1>2, <3>1
      <4> QED BY <4>1, TranslatorFields
    <3>4. Shaped(translator', got')
      BY <1>2, <3>2, <3>3 DEF Shaped
    <3>5. /\ got'.text = got.text /\ got'.reasoning = y
          /\ got'.details = got.details /\ got'.calls = got.calls /\ got'.finish = got.finish
      BY <3>2
    <3>6. /\ translator'.started = translator.started /\ translator'.finish = translator.finish
          /\ translator'.toolIndex = translator.toolIndex /\ translator'.thinking = th
      BY <3>3
    <3> QED BY <2>2, <3>1, <3>4, <3>5, <3>6 DEF DeltaOf, y, th
  <2>3. CASE b.type = "tool_use"
    <3>1. got' = [got EXCEPT !.calls = cs] /\ translator' = translator
      BY <1>2, <1>3, <2>3
    <3> HIDE DEF cs
    <3>2. got' = [text |-> got.text, reasoning |-> got.reasoning,
                  details |-> got.details, calls |-> cs, finish |-> got.finish]
      <4>1. Shaped(translator, got) /\ got' = [got EXCEPT !.calls = cs]
        BY <1>2, <3>1
      <4> QED BY <4>1, GotFields
    <3>3. Shaped(translator', got')
      BY <1>2, <3>1, <3>2 DEF Shaped
    <3>4. /\ got'.text = got.text /\ got'.reasoning = got.reasoning
          /\ got'.details = got.details /\ got'.calls = cs /\ got'.finish = got.finish
      BY <3>2
    <3> QED BY <2>3, <3>1, <3>3, <3>4 DEF DeltaOf, cs
  <2> QED BY <1>3, <2>1, <2>2, <2>3
<1>6. Stream("open", Append(s, c), translator', got')
  BY <1>2, <1>5, StreamGrows DEF c, body
<1> QED BY <1>4, <1>6 DEF StreamKnown

LEMMA StreamBlockSigns ==
  ASSUME StreamKnown, SignatureDelta
  PROVE  StreamKnown'
<1>1. upstream.at = "open"
  BY DEF SignatureDelta, Streaming
<1>2. PICK s \in Seq(BlockSet), b \in BlockSet :
            /\ upstream = [at |-> "open", blocks |-> Append(s, b)]
            /\ upstream.blocks = Append(s, b)
            /\ Index = Len(Append(s, b)) /\ Open = b
            /\ Stream("open", Append(s, b), translator, got) /\ Shaped(translator, got)
            /\ Sent(b)
  BY <1>1, OpenBlock
<1> DEFINE blocks == Append(s, b)
           last == Len(blocks)
           yes == TRUE
           c == [type |-> b.type, id |-> b.id, body |-> b.body, signed |-> yes, fn |-> b.fn]
           th == [translator.thinking EXCEPT ![last].signed = yes]
<1>3. /\ upstream' = [upstream EXCEPT !.blocks[Index].signed = yes]
      /\ translator' = [translator EXCEPT !.thinking = th] /\ got' = got
      /\ b.type = "thinking"
  BY <1>2 DEF SignatureDelta
<1>4. upstream' = [at |-> "open", blocks |-> Append(s, c)]
  <2>1. blocks[last] = b /\ last \in DOMAIN blocks
    BY LastOfAppend
  <2>2. [b EXCEPT !.signed = yes] = c
    <3> DEFINE ty == b.type
               id == b.id
               sg == b.signed
               fn == b.fn
               bo == b.body
    <3>1. b = [type |-> ty, id |-> id, body |-> bo, signed |-> sg, fn |-> fn]
      BY DEF BlockSet
    <3> HIDE DEF ty, id, sg, fn, bo, yes
    <3>2. [b EXCEPT !.signed = yes] = [type |-> ty, id |-> id, body |-> bo, signed |-> yes, fn |-> fn]
      BY <3>1
    <3> QED BY <3>2 DEF ty, id, bo, fn
  <2>3. c \in BlockSet
    <3>1. yes \in BOOLEAN
      OBVIOUS
    <3> HIDE DEF yes
    <3> QED BY <3>1 DEF BlockSet
  <2> HIDE DEF c, yes
  <2>4. [blocks EXCEPT ![last] = c] = Append(s, c)
    BY <2>3, LastReplaced
  <2> HIDE DEF blocks, last
  <2>5. upstream' = [at |-> "open", blocks |-> [blocks EXCEPT ![last].signed = yes]]
    BY <1>2, <1>3 DEF blocks, last
  <2>6. [blocks EXCEPT ![last].signed = yes] = [blocks EXCEPT ![last] = c]
    BY <2>1, <2>2
  <2> QED BY <2>4, <2>5, <2>6
<1>5. /\ translator' = [started |-> translator.started, finish |-> translator.finish,
                        toolIndex |-> translator.toolIndex, thinking |-> th]
  <2>1. Shaped(translator, got) /\ translator' = [translator EXCEPT !.thinking = th]
    BY <1>2, <1>3
  <2> HIDE DEF th
  <2> QED BY <2>1, TranslatorFields
<1>6. /\ translator'.started = translator.started /\ translator'.finish = translator.finish
      /\ translator'.toolIndex = translator.toolIndex /\ translator'.thinking = th
  <2> HIDE DEF th
  <2> QED BY <1>5
<1>7. Shaped(translator', got')
  <2> HIDE DEF th
  <2> QED BY <1>2, <1>3, <1>5 DEF Shaped
<1> HIDE DEF c
<1>8. Stream("open", Append(s, c), translator', got')
  BY <1>2, <1>3, <1>6, <1>7, StreamSigns DEF c
<1> QED BY <1>4, <1>8 DEF StreamKnown

LEMMA StreamBlockStops ==
  ASSUME StreamKnown, ContentBlockStop
  PROVE  StreamKnown'
<1>1. upstream.at = "open"
  BY DEF ContentBlockStop, Streaming
<1>2. PICK s \in Seq(BlockSet), b \in BlockSet :
            /\ upstream = [at |-> "open", blocks |-> Append(s, b)]
            /\ upstream.blocks = Append(s, b)
            /\ Index = Len(Append(s, b)) /\ Open = b
            /\ Stream("open", Append(s, b), translator, got) /\ Shaped(translator, got)
            /\ Sent(b)
  BY <1>1, OpenBlock
<1> DEFINE last == Len(Append(s, b))
           yes == TRUE
           text == translator.thinking[last].text
           detail == [type |-> "thinking", id |-> b.id, body |-> text, signed |-> yes, fn |-> NoFunction]
           done == last \in DOMAIN translator.thinking /\ translator.thinking[last].signed
           ds == Append(got.details, detail)
           th == [i \in DOMAIN translator.thinking \ {last} |-> translator.thinking[i]]
<1>3. upstream' = [at |-> "between", blocks |-> Append(s, b)]
  BY <1>2 DEF ContentBlockStop
<1>4. [Block("thinking", b.id, text) EXCEPT !.signed = yes] = detail
  <2> HIDE DEF text, yes
  <2> QED BY DEF Block
<1>5. /\ done => /\ got' = [got EXCEPT !.details = ds]
                 /\ translator' = [translator EXCEPT !.thinking = th]
      /\ ~done => got' = got /\ translator' = translator
  <2>1. IF done
        THEN /\ got' = [got EXCEPT !.details = Append(@, [Block("thinking", b.id, text) EXCEPT !.signed = yes])]
             /\ translator' = [translator EXCEPT !.thinking = [i \in DOMAIN @ \ {last} |-> @[i]]]
        ELSE got' = got /\ translator' = translator
    BY <1>2 DEF ContentBlockStop
  <2> QED BY <1>4, <2>1
<1> HIDE DEF done, ds, th
<1>6. /\ Shaped(translator', got')
      /\ translator'.started = translator.started /\ translator'.finish = translator.finish
      /\ translator'.toolIndex = translator.toolIndex
      /\ got'.text = got.text /\ got'.reasoning = got.reasoning
      /\ got'.calls = got.calls /\ got'.finish = got.finish
      /\ done => got'.details = ds /\ translator'.thinking = th
      /\ ~done => got'.details = got.details /\ translator'.thinking = translator.thinking
  <2>1. CASE ~done
    BY <1>2, <1>5, <2>1
  <2>2. CASE done
    <3>1. got' = [text |-> got.text, reasoning |-> got.reasoning,
                  details |-> ds, calls |-> got.calls, finish |-> got.finish]
      <4>1. Shaped(translator, got) /\ got' = [got EXCEPT !.details = ds]
        BY <1>2, <1>5, <2>2
      <4> QED BY <4>1, GotFields
    <3>2. translator' = [started |-> translator.started, finish |-> translator.finish,
                         toolIndex |-> translator.toolIndex, thinking |-> th]
      <4>1. Shaped(translator, got) /\ translator' = [translator EXCEPT !.thinking = th]
        BY <1>2, <1>5, <2>2
      <4> QED BY <4>1, TranslatorFields
    <3>3. Shaped(translator', got')
      BY <1>2, <3>1, <3>2 DEF Shaped
    <3>4. /\ translator'.started = translator.started /\ translator'.finish = translator.finish
          /\ translator'.toolIndex = translator.toolIndex /\ translator'.thinking = th
      BY <3>2
    <3>5. /\ got'.text = got.text /\ got'.reasoning = got.reasoning
          /\ got'.details = ds /\ got'.calls = got.calls /\ got'.finish = got.finish
      BY <3>1
    <3> QED BY <2>2, <3>3, <3>4, <3>5
  <2> QED BY <2>1, <2>2
<1>7. Stream("between", Append(s, b), translator', got')
  BY <1>2, <1>6, StreamStops DEF done, ds, th
<1> QED BY <1>3, <1>7 DEF StreamKnown

(* How many blocks were answered is a number. *)
LEMMA UsedIs ==
  ASSUME AnswersTyped
  PROVE  Used \in Nat
<1> DEFINE f == [a \in AnswerSet |-> a.blocks]
<1>1. Gives(f, AnswerSet, BlockSet)
  BY DEF Gives, AnswerSet
<1>2. \A i \in DOMAIN answers : answers[i] \in AnswerSet
  BY DEF AnswersTyped
<1>3. Parts(f, answers) = [i \in DOMAIN answers |-> answers[i].blocks]
  BY <1>2 DEF Parts
<1> HIDE DEF f
<1>4. Collected(f, answers) \in Seq(BlockSet)
  BY <1>1, CollectedParts, FlattenType DEF Collected, AnswersTyped
<1>5. Used = Len(Collected(f, answers))
  BY <1>3 DEF Used, Collected
<1> QED BY <1>4, <1>5

(* Every step keeps translator and client in order with the upstream. *)
LEMMA StreamStep ==
  ASSUME StreamKnown, AnswersTyped, Running, [ChatNext]_chatVars
  PROVE  StreamKnown'
<1>1. Used \in Nat
  BY UsedIs
<1>2. CASE UNCHANGED <<upstream, translator, got>>
  BY <1>2 DEF StreamKnown
<1>3. CASE Ask
  <2>1. upstream.at = "none"
    BY <1>3 DEF Ask, Idle, Running
  <2> QED BY <1>3, <2>1, StreamAsked DEF Ask
<1>4. CASE GrowWhole
  BY <1>1, <1>4, StreamGrowsWhole
<1>5. ASSUME upstream' = Quiet, translator' = NewTranslator, got' = Nothing
      PROVE  StreamKnown'
  BY <1>5, StreamReset
<1>6. CASE AnswerWhole
  BY <1>5, <1>6 DEF AnswerWhole, Take
<1>7. CASE GeminiAnswers
  BY <1>5, <1>7 DEF GeminiAnswers, Take
<1>8. CASE MessageStart \/ MessageDelta \/ MessageStop
  BY <1>8, StreamEventMoves
<1>9. CASE ContentBlockStart
  BY <1>1, <1>9, StreamBlockStarts
<1>10. CASE ContentBlockDelta
  BY <1>10, StreamBlockGrows
<1>11. CASE SignatureDelta
  BY <1>11, StreamBlockSigns
<1>12. CASE ContentBlockStop
  BY <1>12, StreamBlockStops
<1>13. CASE StreamEnds
  BY <1>5, <1>13 DEF StreamEnds, Take, Forget
<1>14. CASE AnswerFails
  BY <1>5, <1>14 DEF AnswerFails, Forget
<1>15. CASE Say \/ ToolResult
  BY <1>2, <1>15 DEF Say, ToolResult
<1>16. CASE UNCHANGED chatVars
  BY <1>2, <1>16 DEF chatVars
<1> QED BY <1>3, <1>4, <1>6, <1>7, <1>8, <1>9, <1>10, <1>11, <1>12, <1>13, <1>14, <1>15, <1>16
        DEF ChatNext, StreamEvent

(* At a stop reason nothing is open, so the client has all of the blocks. *)
LEMMA StreamImplies ==
  ASSUME StreamKnown
  PROVE  StreamIsWhole
<1> DEFINE at == upstream.at
           blocks == upstream.blocks
           uses == ToolUses(blocks)
           whole == FromAnthropicMessage(blocks)
<1>1. Stream(at, blocks, translator, got)
  BY DEF StreamKnown
<1>2. CASE at \notin Streamed
  <2>1. ~translator.finish /\ ~got.finish
    BY <1>1, <1>2 DEF Stream, NewTranslator, Nothing
  <2> QED BY <2>1 DEF StreamIsWhole, Complete
<1>3. CASE at \in Streamed
  <2>1. GotKnown(at, blocks, got) /\ TranslatorKnown(at, blocks, translator) /\ blocks \in Seq(BlockSet)
    BY <1>1, <1>3 DEF Stream
  <2>2. got.finish => Complete \/ at = "unexplained"
    BY <2>1 DEF GotKnown, TranslatorKnown, Complete
  <2>3. ASSUME Complete
        PROVE  /\ at \in {"stopping", "stopped"}
               /\ got.text = whole.text /\ got.reasoning = whole.reasoning
               /\ got.details = whole.details /\ SameCalls(got.calls, blocks)
    <3>1. at \in {"stopping", "stopped"}
      BY <2>1, <2>3 DEF TranslatorKnown, Complete
    <3>2. /\ got.text = Texts(blocks, "text") /\ got.reasoning = Texts(blocks, "thinking")
          /\ got.details = Details(blocks) /\ CallsKnown(got.calls, uses)
      BY <2>1, <3>1 DEF GotKnown, Closed, NowOpen
    <3>3. whole.text = Texts(blocks, "text") /\ whole.reasoning = Texts(blocks, "thinking")
          /\ whole.details = Details(blocks)
          /\ whole.calls = [i \in DOMAIN uses |->
                Call(uses[i].id, uses[i].fn, IF uses[i].body = <<>> THEN << 0 >> ELSE uses[i].body, FALSE)]
      BY DEF FromAnthropicMessage
    <3>4. uses \in Seq(BlockSet)
      BY <2>1, KindsAreFunctions, ToolUsesAre, CollectedParts, FlattenType DEF Collected
    <3> DEFINE calls == whole.calls
    <3> HIDE DEF uses, whole
    <3>5. Len(calls) = Len(uses) /\ DOMAIN calls = DOMAIN uses
      BY <3>3, <3>4
    <3>6. ASSUME NEW i \in DOMAIN uses
          PROVE  /\ got.calls[i - 1].id = calls[i].id /\ got.calls[i - 1].fn = calls[i].fn
                 /\ ParseArguments(got.calls[i - 1].args) = ParseArguments(calls[i].args)
      <4> DEFINE u == uses[i]
                 full == IF u.body = <<>> THEN << 0 >> ELSE u.body
      <4>1. got.calls[i - 1] = Call(u.id, u.fn, u.body, FALSE)
        BY <3>2 DEF CallsKnown
      <4>2. calls[i] = Call(u.id, u.fn, full, FALSE)
        BY <3>3
      <4> HIDE DEF u, full, calls
      <4>3. /\ got.calls[i - 1].id = u.id /\ got.calls[i - 1].fn = u.fn /\ got.calls[i - 1].args = u.body
            /\ calls[i].id = u.id /\ calls[i].fn = u.fn /\ calls[i].args = full
        BY <4>1, <4>2 DEF Call
      <4>4. ParseArguments(u.body) = ParseArguments(full)
        <5>1. << 0 >> # <<>>
          OBVIOUS
        <5> QED BY <5>1 DEF ParseArguments, full
      <4> QED BY <4>3, <4>4
    <3>7. DOMAIN got.calls = 0 .. Len(calls) - 1
      BY <3>2, <3>5 DEF CallsKnown
    <3>8. SameCalls(got.calls, blocks)
      BY <3>5, <3>6, <3>7 DEF SameCalls, whole
    <3> QED BY <3>1, <3>2, <3>3, <3>8
  <2> QED BY <2>2, <2>3 DEF StreamIsWhole
<1> QED BY <1>2, <1>3

-----------------------------------------------------------------------------
(* The client's messages.                                                  *)
LEMMA MaxIs ==
  ASSUME NEW n \in Nat, NEW D \in SUBSET (0 .. n), D # {}
  PROVE  Max(D) \in D /\ \A i \in D : i <= Max(D)
<1>1. PICK m \in D : \A i \in D : i <= m
  BY GreatestExists
<1>2. \A i \in D : m >= i
  BY <1>1
<1>3. Max(D) \in D /\ \A i \in D : Max(D) >= i
  BY <1>2 DEF Max
<1> QED BY <1>3

(* The client's open calls are those of the chat. *)
LEMMA UnansweredIs == Unanswered = OpenCalls(chat)
  BY DEF Unanswered, OpenCalls, SpokenIn, IdsOf

(* The last message of the assistant. *)
LEMMA LastSpoken ==
  ASSUME NEW messages \in Seq(MessageSet), SpokenIn(messages) # {}
  PROVE  LET last == Max(SpokenIn(messages))
         IN  /\ last \in 1 .. Len(messages) /\ messages[last].role = "assistant"
             /\ \A i \in DOMAIN messages : messages[i].role = "assistant" => i <= last
<1> DEFINE n == Len(messages)
           D == SpokenIn(messages)
<1>1. n \in Nat /\ D \subseteq 1 .. n
  BY DEF SpokenIn
<1>2. D \in SUBSET (0 .. n)
  <2>1. \A i \in 1 .. n : i \in 0 .. n
    BY <1>1
  <2> QED BY <1>1, <2>1
<1>3. Max(D) \in D /\ \A i \in D : i <= Max(D)
  <2> HIDE DEF D, n
  <2>1. D # {}
    BY DEF D
  <2> QED BY <1>1, <1>2, <2>1, MaxIs
<1> QED BY <1>1, <1>3 DEF SpokenIn

(* A result answers its call, nothing else changes what is open. *)
LEMMA OpenAfterOther ==
  ASSUME NEW messages \in Seq(MessageSet), NEW m \in MessageSet, m.role # "assistant"
  PROVE  OpenCalls(Append(messages, m)) = OpenCalls(messages) \ {m.of}
<1> DEFINE more == Append(messages, m)
           n == Len(messages)
           D == SpokenIn(messages)
           last == Max(D)
<1>1. /\ more \in Seq(MessageSet) /\ Len(more) = n + 1 /\ more[n + 1] = m /\ n \in Nat
      /\ DOMAIN messages = 1 .. n /\ DOMAIN more = 1 .. n + 1
      /\ \A i \in 1 .. n : more[i] = messages[i]
  OBVIOUS
<1> HIDE DEF more, n
<1>2. SpokenIn(more) = D
  <2>1. \A i \in 1 .. n + 1 : i = n + 1 \/ i \in 1 .. n
    BY <1>1
  <2>2. \A i \in 1 .. n : i \in 1 .. n + 1
    BY <1>1
  <2> QED BY <1>1, <2>1, <2>2 DEF SpokenIn
<1>3. CASE D = {}
  BY <1>2, <1>3 DEF OpenCalls, more
<1>4. CASE D # {}
  <2>1. last \in 1 .. n
    BY <1>4, LastSpoken DEF n
  <2> HIDE DEF D, last
  <2>2. more[last] = messages[last]
    BY <1>1, <2>1
  <2> DEFINE before == {messages[i].of : i \in last + 1 .. n}
             after == {more[i].of : i \in last + 1 .. n + 1}
  <2>3. after = before \cup {m.of}
    <3>1. \A i \in last + 1 .. n + 1 : i = n + 1 \/ (i \in last + 1 .. n /\ i \in 1 .. n)
      BY <1>1, <2>1
    <3>2. \A i \in last + 1 .. n : i \in last + 1 .. n + 1 /\ i \in 1 .. n
      BY <1>1, <2>1
    <3>3. n + 1 \in last + 1 .. n + 1
      BY <1>1, <2>1
    <3>4. \A x \in after : x \in before \cup {m.of}
      BY <1>1, <3>1
    <3>5. \A x \in before : x \in after
      BY <1>1, <3>2
    <3>6. m.of \in after
      BY <1>1, <3>3
    <3> QED BY <3>4, <3>5, <3>6
  <2>4. OpenCalls(messages) = IdsOf(messages[last]) \ before
    BY <1>4 DEF OpenCalls, D, last, n
  <2>5. OpenCalls(more) = IdsOf(more[last]) \ after
    BY <1>1, <1>2, <1>4 DEF OpenCalls, D, last
  <2> QED BY <2>2, <2>3, <2>4, <2>5 DEF more
<1> QED BY <1>3, <1>4

(* An answer's calls are all open. *)
LEMMA OpenAfterAnswer ==
  ASSUME NEW messages \in Seq(MessageSet), NEW m \in MessageSet, m.role = "assistant"
  PROVE  OpenCalls(Append(messages, m)) = IdsOf(m)
<1> DEFINE more == Append(messages, m)
           n == Len(messages)
           last == Max(SpokenIn(more))
<1>1. /\ more \in Seq(MessageSet) /\ Len(more) = n + 1 /\ more[n + 1] = m /\ n \in Nat
      /\ DOMAIN more = 1 .. n + 1
  OBVIOUS
<1> HIDE DEF more, n
<1>2. n + 1 \in SpokenIn(more) /\ n + 1 \in DOMAIN more
  BY <1>1 DEF SpokenIn
<1>3. last \in 1 .. n + 1 /\ n + 1 <= last
  BY <1>1, <1>2, LastSpoken
<1>4. last = n + 1 /\ last + 1 .. n + 1 = {}
  BY <1>1, <1>3
<1>5. {more[i].of : i \in last + 1 .. Len(more)} = {}
  BY <1>1, <1>4
<1>6. OpenCalls(more) = IdsOf(more[last])
  BY <1>2, <1>5 DEF OpenCalls
<1> QED BY <1>1, <1>4, <1>6 DEF more

(* An open call is one of the last answer. *)
LEMMA OpenHas ==
  ASSUME NEW messages \in Seq(MessageSet), NEW id \in OpenCalls(messages)
  PROVE  \E j \in 1 .. Len(messages) :
            /\ messages[j].role = "assistant"
            /\ \E k \in DOMAIN messages[j].calls : messages[j].calls[k].id = id
            /\ \A h \in j + 1 .. Len(messages) : messages[h].role # "assistant"
<1> DEFINE last == Max(SpokenIn(messages))
           n == Len(messages)
<1>1. SpokenIn(messages) # {} /\ id \in IdsOf(messages[last])
  BY DEF OpenCalls
<1>2. /\ last \in 1 .. n /\ messages[last].role = "assistant"
      /\ \A i \in DOMAIN messages : messages[i].role = "assistant" => i <= last
  BY <1>1, LastSpoken
<1>3. \E k \in DOMAIN messages[last].calls : messages[last].calls[k].id = id
  BY <1>1 DEF IdsOf
<1>4. DOMAIN messages = 1 .. n /\ n \in Nat
  OBVIOUS
<1> HIDE DEF last, n
<1>5. \A h \in last + 1 .. n : messages[h].role # "assistant"
  <2>1. \A h \in last + 1 .. n : h \in 1 .. n /\ ~ h <= last
    BY <1>2, <1>4
  <2> QED BY <1>2, <1>4, <2>1
<1>6. \E j \in 1 .. n :
            /\ messages[j].role = "assistant"
            /\ \E k \in DOMAIN messages[j].calls : messages[j].calls[k].id = id
            /\ \A h \in j + 1 .. n : messages[h].role # "assistant"
  BY <1>2, <1>3, <1>5
<1> QED BY <1>6 DEF n

(* No open call has the id that stands for none. *)
LEMMA OpenIsNamed ==
  ASSUME NEW messages \in Seq(MessageSet), \A i \in DOMAIN messages : Written(messages[i])
  PROVE  0 \notin OpenCalls(messages)
<1> SUFFICES ASSUME 0 \in OpenCalls(messages) PROVE FALSE
  OBVIOUS
<1>1. PICK j \in 1 .. Len(messages) :
            \E k \in DOMAIN messages[j].calls : messages[j].calls[k].id = 0
  BY OpenHas
<1>2. j \in DOMAIN messages
  OBVIOUS
<1> QED BY <1>1, <1>2 DEF Written

(* What one more message leaves as it was. *)
LEMMA MessageMore ==
  ASSUME NEW messages, ChatGood(messages), NEW m, Written(m),
         m.role = "tool" => m.of \in OpenCalls(messages),
         Persist(Turns(messages), Turns(Append(messages, m))),
         m.role = "assistant" /\ AssistantBlocks(m) # <<>> =>
            \E i \in DOMAIN Turns(Append(messages, m)) :
               /\ Turns(Append(messages, m))[i].role = "assistant"
               /\ Turns(Append(messages, m))[i].content = AssistantBlocks(m)
  PROVE  LET more == Append(messages, m)
         IN  /\ more \in Seq(MessageSet)
             /\ \A i \in DOMAIN more : Written(more[i])
             /\ ResultsBelong(more)
             /\ Echoed(more, Turns(more))
<1> DEFINE more == Append(messages, m)
           n == Len(messages)
           T == Turns(messages)
           U == Turns(more)
<1>1. /\ messages \in Seq(MessageSet) /\ m \in MessageSet
      /\ \A i \in DOMAIN messages : Written(messages[i])
  BY DEF ChatGood, Written
<1>2. /\ more \in Seq(MessageSet) /\ Len(more) = n + 1 /\ more[n + 1] = m /\ n \in Nat
      /\ DOMAIN messages = 1 .. n /\ DOMAIN more = 1 .. n + 1
      /\ \A i \in 1 .. n : more[i] = messages[i]
  BY <1>1
<1>3. /\ Persist(T, U)
      /\ m.role = "assistant" /\ AssistantBlocks(m) # <<>> =>
            \E i \in DOMAIN U : U[i].role = "assistant" /\ U[i].content = AssistantBlocks(m)
  OBVIOUS
<1> HIDE DEF more, n, T, U
<1>4. \A i \in 1 .. n + 1 : i = n + 1 \/ i \in 1 .. n
  BY <1>2
<1>5. \A i \in DOMAIN more : Written(more[i])
  BY <1>1, <1>2, <1>4
<1>6. ResultsBelong(more)
  <2> SUFFICES ASSUME NEW i \in 1 .. n + 1, more[i].role = "tool"
               PROVE  \E j \in 1 .. i - 1 :
                         /\ \E k \in DOMAIN more[j].calls : more[j].calls[k].id = more[i].of
                         /\ \A h \in j + 1 .. i - 1 : more[h].role # "assistant"
    BY <1>2 DEF ResultsBelong
  <2>1. PICK j \in 1 .. i - 1 :
           /\ \E k \in DOMAIN messages[j].calls : messages[j].calls[k].id = more[i].of
           /\ \A h \in j + 1 .. i - 1 : messages[h].role # "assistant"
    <3>1. CASE i = n + 1
      <4>1. m.of \in OpenCalls(messages) /\ more[i] = m /\ i - 1 = n
        BY <1>2, <3>1
      <4>2. \E j \in 1 .. Len(messages) :
            /\ messages[j].role = "assistant"
            /\ \E k \in DOMAIN messages[j].calls : messages[j].calls[k].id = m.of
            /\ \A h \in j + 1 .. Len(messages) : messages[h].role # "assistant"
        BY <1>1, <4>1, OpenHas
      <4> QED BY <4>1, <4>2 DEF n
    <3>2. CASE i \in 1 .. n
      BY <1>2, <3>2 DEF ChatGood, ResultsBelong
    <3> QED BY <1>4, <3>1, <3>2
  <2>2. j \in 1 .. n /\ \A h \in j + 1 .. i - 1 : h \in 1 .. n
    BY <1>2
  <2>3. \A h \in j + 1 .. i - 1 : more[h].role # "assistant"
    BY <1>2, <2>1, <2>2
  <2> QED BY <1>2, <2>1, <2>2, <2>3
<1>7. Echoed(more, U)
  <2> SUFFICES ASSUME NEW j \in 1 .. n + 1, more[j].role = "assistant", AssistantBlocks(more[j]) # <<>>
               PROVE  \E i \in DOMAIN U : U[i].role = "assistant" /\ U[i].content = AssistantBlocks(more[j])
    BY <1>2 DEF Echoed
  <2>1. CASE j = n + 1
    BY <1>2, <1>3, <2>1
  <2>2. CASE j \in 1 .. n
    <3>1. PICK i \in DOMAIN T : T[i].role = "assistant" /\ T[i].content = AssistantBlocks(more[j])
      <4>1. Echoed(messages, T) /\ more[j] = messages[j] /\ j \in DOMAIN messages
        BY <1>2, <2>2 DEF ChatGood, T
      <4> QED BY <4>1 DEF Echoed
    <3>2. i \in DOMAIN U /\ U[i] = T[i]
      BY <1>3, <3>1 DEF Persist
    <3> QED BY <3>1, <3>2
  <2> QED BY <1>4, <2>1, <2>2
<1> QED BY <1>2, <1>5, <1>6, <1>7 DEF more, U

LEMMA MessageIs ==
  ASSUME NEW role, NEW text, NEW of
  PROVE  /\ [Message(role) EXCEPT !.text = text] =
               [role |-> role, text |-> text, details |-> <<>>, calls |-> <<>>,
                of |-> 0, name |-> NoFunction]
         /\ [Message(role) EXCEPT !.of = of] =
               [role |-> role, text |-> <<>>, details |-> <<>>, calls |-> <<>>,
                of |-> of, name |-> NoFunction]
  BY DEF Message

LEMMA MessageWritten ==
  ASSUME NEW role \in {"user", "tool"}, NEW text \in Seq(Nat), NEW of \in AnyId, role = "user" => of = 0
  PROVE  Written([role |-> role, text |-> text, details |-> <<>>, calls |-> <<>>,
                  of |-> of, name |-> NoFunction])
<1>1. <<>> \in Seq(BlockSet) /\ <<>> \in Seq(CallSet) /\ DOMAIN <<>> = {} /\ NoFunction \in AnyFn
  BY DEF AnyFn
<1>2. role \in {"user", "assistant", "tool"}
  OBVIOUS
<1> QED BY <1>1, <1>2 DEF Written, MessageSet

(* The user says something. *)
LEMMA SayKeeps ==
  ASSUME NEW messages, ChatGood(messages)
  PROVE  ChatGood(Append(messages, [Message("user") EXCEPT !.text = << 0 >>]))
<1> DEFINE text == << 0 >>
           m == [role |-> "user", text |-> text, details |-> <<>>, calls |-> <<>>,
                 of |-> 0, name |-> NoFunction]
           more == Append(messages, m)
           b == Block("text", 0, text)
           T == Turns(messages)
<1>1. [Message("user") EXCEPT !.text = << 0 >>] = m
  BY MessageIs
<1>2. text \in Seq(Nat) /\ text # <<>> /\ 0 \in AnyId
  BY DEF AnyId
<1> HIDE DEF text
<1>3. Written(m) /\ m.role = "user" /\ m.text = text /\ m.of = 0
  BY <1>2, MessageWritten
<1>4. b \in BlockSet /\ ~IsToolUse(b) /\ ~IsResult(b)
  <2>1. "text" \in Types /\ FALSE \in BOOLEAN /\ NoFunction \in AnyFn
    BY DEF Types, AnyFn
  <2>2. b \in BlockSet /\ b.type = "text"
    BY <1>2, <2>1 DEF Block, BlockSet
  <2> QED BY <2>2, BlockKinds
<1> HIDE DEF m
<1>5. messages \in Seq(MessageSet) /\ m \in MessageSet
  BY <1>3 DEF ChatGood, Written
<1>6. Turns(more) = PushUser(T, <<b>>)
  <2>1. Turns(more) = Turned(T, m)
    BY <1>5, TurnsAppend
  <2>2. UserBlocks(m) = <<b>>
    BY <1>2, <1>3 DEF UserBlocks
  <2> HIDE DEF b, T
  <2> QED BY <1>3, <2>1, <2>2 DEF Turned
<1> HIDE DEF b, T
<1>7. GoodTurns(T, OpenCalls(messages))
  BY DEF ChatGood, T
<1>8. GoodTurns(Turns(more), OpenCalls(messages) \ Gone(b)) /\ Persist(T, Turns(more))
  BY <1>4, <1>6, <1>7, PushKeeps
<1>9. OpenCalls(more) = OpenCalls(messages) \ Gone(b)
  <2>1. OpenCalls(more) = OpenCalls(messages) \ {0}
    BY <1>3, <1>5, OpenAfterOther
  <2>2. 0 \notin OpenCalls(messages)
    BY <1>5, OpenIsNamed DEF ChatGood
  <2>3. Gone(b) = {}
    BY <1>4 DEF Gone
  <2> QED BY <2>1, <2>2, <2>3
<1>10. /\ more \in Seq(MessageSet) /\ \A i \in DOMAIN more : Written(more[i])
       /\ ResultsBelong(more) /\ Echoed(more, Turns(more))
  BY <1>3, <1>8, MessageMore DEF T
<1>11. ChatGood(more)
  BY <1>8, <1>9, <1>10 DEF ChatGood
<1> QED BY <1>1, <1>11

(* A tool has answered an open call. *)
LEMMA ResultKeeps ==
  ASSUME NEW messages, ChatGood(messages), NEW id \in OpenCalls(messages)
  PROVE  ChatGood(Append(messages, [Message("tool") EXCEPT !.of = id]))
<1> DEFINE none == <<>>
           m == [role |-> "tool", text |-> none, details |-> <<>>, calls |-> <<>>,
                 of |-> id, name |-> NoFunction]
           more == Append(messages, m)
           b == Block("tool_result", id, none)
           T == Turns(messages)
<1>1. [Message("tool") EXCEPT !.of = id] = m
  BY MessageIs
<1>2. none \in Seq(Nat) /\ id \in AnyId
  <2>1. messages \in Seq(MessageSet)
    BY DEF ChatGood
  <2>2. PICK j \in 1 .. Len(messages) : \E k \in DOMAIN messages[j].calls : messages[j].calls[k].id = id
    BY <2>1, OpenHas
  <2>3. messages[j] \in MessageSet
    BY <2>1, <2>2
  <2>4. PICK k \in DOMAIN messages[j].calls : messages[j].calls[k].id = id
    BY <2>2
  <2> DEFINE calls == messages[j].calls
  <2>5. calls \in Seq(CallSet)
    BY <2>3 DEF MessageSet
  <2>6. calls[k] \in CallSet
    <3> HIDE DEF calls
    <3>1. k \in DOMAIN calls
      BY DEF calls
    <3> QED BY <2>5, <3>1
  <2> QED BY <2>4, <2>6 DEF CallSet
<1> HIDE DEF none
<1>3. Written(m) /\ m.role = "tool" /\ m.text = none /\ m.of = id
  BY <1>2, MessageWritten
<1>4. b \in BlockSet /\ ~IsToolUse(b) /\ IsResult(b) /\ b.id = id
  <2>1. "tool_result" \in Types /\ FALSE \in BOOLEAN /\ NoFunction \in AnyFn
    BY DEF Types, AnyFn
  <2> QED BY <1>2, <2>1 DEF Block, BlockSet, IsToolUse, IsResult
<1> HIDE DEF m
<1>5. messages \in Seq(MessageSet) /\ m \in MessageSet
  BY <1>3 DEF ChatGood, Written
<1>6. Turns(more) = PushUser(T, <<b>>)
  <2>1. Turns(more) = Turned(T, m)
    BY <1>5, TurnsAppend
  <2> HIDE DEF T
  <2> QED BY <1>3, <2>1 DEF Turned
<1> HIDE DEF b, T
<1>7. GoodTurns(T, OpenCalls(messages))
  BY DEF ChatGood, T
<1>8. GoodTurns(Turns(more), OpenCalls(messages) \ Gone(b)) /\ Persist(T, Turns(more))
  BY <1>4, <1>6, <1>7, PushKeeps
<1>9. OpenCalls(more) = OpenCalls(messages) \ Gone(b)
  <2>1. OpenCalls(more) = OpenCalls(messages) \ {id}
    BY <1>3, <1>5, OpenAfterOther
  <2> QED BY <1>4, <2>1 DEF Gone
<1>10. /\ more \in Seq(MessageSet) /\ \A i \in DOMAIN more : Written(more[i])
       /\ ResultsBelong(more) /\ Echoed(more, Turns(more))
  BY <1>3, <1>8, MessageMore DEF T
<1>11. ChatGood(more)
  BY <1>8, <1>9, <1>10 DEF ChatGood
<1> QED BY <1>1, <1>11

(* The answer joins a chat whose calls are all answered. *)
LEMMA TakeKeeps ==
  ASSUME NEW messages, ChatGood(messages), OpenCalls(messages) = {},
         NEW m, Written(m), m.role = "assistant"
  PROVE  ChatGood(Append(messages, m))
<1> DEFINE more == Append(messages, m)
           T == Turns(messages)
           c == AssistantBlocks(m)
           t == [role |-> "assistant", content |-> c]
<1>1. messages \in Seq(MessageSet) /\ m \in MessageSet
  BY DEF ChatGood, Written
<1>2. Turns(more) = Turned(T, m)
  BY <1>1, TurnsAppend
<1>3. /\ c = m.details \o TextBlocks(m.text) \o CallBlocks(m.calls) /\ c \in Seq(BlockSet)
      /\ \A i \in DOMAIN c : ~IsResult(c[i])
      /\ \A i \in DOMAIN c : IsToolUse(c[i]) => \E k \in DOMAIN m.calls : c[i].id = m.calls[k].id
  BY AssistantBlocksAre
<1>4. OpenCalls(more) = IdsOf(m)
  BY <1>1, OpenAfterAnswer
<1>5. GoodTurns(T, {})
  BY DEF ChatGood
<1>6. Turns(more) = IF c = <<>> THEN T ELSE Append(T, t)
  <2> HIDE DEF c, T
  <2> QED BY <1>2 DEF Turned, c
<1> HIDE DEF T, c
<1>7. CASE c = <<>>
  <2>1. Turns(more) = T
    BY <1>6, <1>7
  <2>2. m.calls = <<>>
    <3> DEFINE d == m.details
               x == TextBlocks(m.text)
               y == CallBlocks(m.calls)
    <3>1. /\ d \in Seq(BlockSet) /\ x \in Seq(BlockSet) /\ y \in Seq(BlockSet)
          /\ DOMAIN y = DOMAIN m.calls /\ m.calls \in Seq(CallSet)
      <4>1. m.text \in Seq(Nat) /\ d \in Seq(BlockSet) /\ m.calls \in Seq(CallSet)
        BY <1>1 DEF MessageSet
      <4> QED BY <4>1, TextBlocksAre, CallBlocksAre
    <3> HIDE DEF d, x, y
    <3>2. d \o x \o y = <<>>
      BY <1>3, <1>7 DEF d, x, y
    <3>3. Len(d) + Len(x) + Len(y) = 0
      <4>1. (d \o x) \in Seq(BlockSet) /\ Len(d \o x) = Len(d) + Len(x)
        BY <3>1
      <4>2. Len(d \o x \o y) = Len(d \o x) + Len(y)
        BY <3>1, <4>1
      <4>3. Len(d \o x \o y) = 0
        BY <3>2
      <4> QED BY <4>1, <4>2, <4>3
    <3>4. Len(y) = 0
      BY <3>1, <3>3
    <3>5. DOMAIN m.calls = {}
      BY <3>1, <3>4
    <3> DEFINE z == m.calls
    <3>6. z \in Seq(CallSet) /\ DOMAIN z = {}
      BY <3>1, <3>5
    <3> HIDE DEF z
    <3>7. z = <<>>
      BY <3>6
    <3> QED BY <3>7 DEF z
  <2>3. OpenCalls(more) = {}
    BY <1>4, <2>2 DEF IdsOf
  <2>4. Persist(T, Turns(more))
    BY <2>1 DEF Persist
  <2>5. /\ more \in Seq(MessageSet) /\ \A i \in DOMAIN more : Written(more[i])
        /\ ResultsBelong(more) /\ Echoed(more, Turns(more))
    BY <1>7, <2>4, MessageMore DEF T, c
  <2> QED BY <1>5, <2>1, <2>3, <2>5 DEF ChatGood
<1>8. CASE c # <<>>
  <2>1. Turns(more) = Append(T, t)
    BY <1>6, <1>8
  <2>2. /\ GoodTurns(Append(T, t), UsesOf(t)) /\ Persist(T, Append(T, t))
        /\ Len(Append(T, t)) \in DOMAIN Append(T, t) /\ Append(T, t)[Len(Append(T, t))] = t
    BY <1>3, <1>5, <1>8, AnswerKeeps
  <2>3. UsesOf(t) \subseteq IdsOf(m)
    <3> SUFFICES ASSUME NEW id \in UsesOf(t) PROVE id \in IdsOf(m)
      OBVIOUS
    <3>1. \E j \in DOMAIN t.content : IsToolUse(t.content[j]) /\ t.content[j].id = id
      BY UsesAre
    <3>2. PICK j \in DOMAIN c : IsToolUse(c[j]) /\ c[j].id = id
      BY <3>1
    <3> QED BY <1>3, <3>2 DEF IdsOf
  <2>4. t.role = "assistant" /\ t.content = c
    OBVIOUS
  <2> HIDE DEF t
  <2>5. GoodTurns(Turns(more), OpenCalls(more))
    BY <1>4, <2>1, <2>2, <2>3, MoreOpen
  <2>6. Persist(T, Turns(more))
    BY <2>1, <2>2
  <2>7. \E i \in DOMAIN Turns(more) :
           Turns(more)[i].role = "assistant" /\ Turns(more)[i].content = c
    BY <2>1, <2>2, <2>4
  <2>8. /\ more \in Seq(MessageSet) /\ \A i \in DOMAIN more : Written(more[i])
        /\ ResultsBelong(more) /\ Echoed(more, Turns(more))
    BY <2>6, <2>7, MessageMore DEF T, c
  <2> QED BY <2>5, <2>8 DEF ChatGood
<1> QED BY <1>7, <1>8

-----------------------------------------------------------------------------
(* The answer becomes a message.                                           *)
(* The blocks a kind gives are blocks of that kind. *)
LEMMA UsesAreSent ==
  ASSUME NEW blocks \in Seq(BlockSet), \A j \in DOMAIN blocks : Sent(blocks[j])
  PROVE  /\ ToolUses(blocks) \in Seq(BlockSet)
         /\ \A i \in DOMAIN ToolUses(blocks) :
               Sent(ToolUses(blocks)[i]) /\ IsToolUse(ToolUses(blocks)[i])
<1>1. ToolUses(blocks) = Collected(UseIf, blocks)
  BY ToolUsesAre
<1>2. Collected(UseIf, blocks) \in Seq(BlockSet)
  BY KindsAreFunctions, CollectedParts, FlattenType DEF Collected
<1>3. \A i \in DOMAIN Collected(UseIf, blocks) : \E j \in DOMAIN blocks : \E k \in DOMAIN UseIf[blocks[j]] :
            Collected(UseIf, blocks)[i] = UseIf[blocks[j]][k]
  BY KindsAreFunctions, CollectedHas
<1>4. \A b \in BlockSet : \A k \in DOMAIN UseIf[b] : IsToolUse(b) /\ UseIf[b][k] = b
  <2>1. \A b : DOMAIN <<b>> = {1} /\ <<b>>[1] = b /\ DOMAIN <<>> = {}
    OBVIOUS
  <2>2. ASSUME NEW b \in BlockSet PROVE UseIf[b] = If(IsToolUse(b), b)
    BY DEF UseIf
  <2> QED BY <2>1, <2>2 DEF If
<1> DEFINE u == Collected(UseIf, blocks)
<1> HIDE DEF u
<1>5. ASSUME NEW i \in DOMAIN u PROVE Sent(u[i]) /\ IsToolUse(u[i])
  <2>1. PICK j \in DOMAIN blocks : \E k \in DOMAIN UseIf[blocks[j]] : u[i] = UseIf[blocks[j]][k]
    BY <1>3 DEF u
  <2>2. blocks[j] \in BlockSet
    OBVIOUS
  <2>3. u[i] = blocks[j] /\ IsToolUse(blocks[j])
    BY <1>4, <2>1, <2>2
  <2> QED BY <2>3
<1> QED BY <1>1, <1>2, <1>5 DEF u

(* Details are thinking, readable or redacted. *)
LEMMA DetailsAreThinking ==
  ASSUME NEW blocks \in Seq(BlockSet)
  PROVE  /\ Details(blocks) \in Seq(BlockSet)
         /\ \A i \in DOMAIN Details(blocks) : IsThinking(Details(blocks)[i])
<1>1. Details(blocks) = Collected(DetailIf, blocks)
  BY DetailsAre
<1>2. Collected(DetailIf, blocks) \in Seq(BlockSet)
  BY KindsAreFunctions, CollectedParts, FlattenType DEF Collected
<1>3. \A i \in DOMAIN Collected(DetailIf, blocks) : \E j \in DOMAIN blocks : \E k \in DOMAIN DetailIf[blocks[j]] :
            Collected(DetailIf, blocks)[i] = DetailIf[blocks[j]][k]
  BY KindsAreFunctions, CollectedHas
<1>4. \A b \in BlockSet : \A k \in DOMAIN DetailIf[b] : IsThinking(b) /\ DetailIf[b][k] = b
  <2>1. \A b : DOMAIN <<b>> = {1} /\ <<b>>[1] = b /\ DOMAIN <<>> = {}
    OBVIOUS
  <2>2. ASSUME NEW b \in BlockSet PROVE DetailIf[b] = If(IsDetail(b), b)
    BY DEF DetailIf
  <2>3. \A b : IsDetail(b) => IsThinking(b)
    BY DEF IsDetail, IsThinking
  <2> QED BY <2>1, <2>2, <2>3 DEF If
<1> DEFINE u == Collected(DetailIf, blocks)
<1> HIDE DEF u
<1>5. ASSUME NEW i \in DOMAIN u PROVE IsThinking(u[i])
  <2>1. PICK j \in DOMAIN blocks : \E k \in DOMAIN DetailIf[blocks[j]] : u[i] = DetailIf[blocks[j]][k]
    BY <1>3 DEF u
  <2>2. blocks[j] \in BlockSet
    OBVIOUS
  <2>3. u[i] = blocks[j] /\ IsThinking(blocks[j])
    BY <1>4, <2>1, <2>2
  <2> QED BY <2>3
<1> QED BY <1>1, <1>2, <1>5 DEF u

(* The calls a client makes of tool uses, whole or streamed. *)
CallsOf(calls, uses) ==
    /\ calls = [i \in DOMAIN uses |-> calls[i]]
    /\ \A i \in DOMAIN uses :
          \/ calls[i] = Call(uses[i].id, uses[i].fn, uses[i].body, FALSE)
          \/ uses[i].body = <<>> /\ calls[i] = Call(uses[i].id, uses[i].fn, << 0 >>, FALSE)

(* A call made of a tool use becomes that tool use again. *)
LEMMA CallOfUse ==
  ASSUME NEW u, Sent(u), IsToolUse(u), NEW call,
         \/ call = Call(u.id, u.fn, u.body, FALSE)
         \/ u.body = <<>> /\ call = Call(u.id, u.fn, << 0 >>, FALSE)
  PROVE  call \in CallSet /\ call.id # 0 /\ CallBlock(call) = u
<1>1. /\ u \in BlockSet /\ u.id \in AnyId /\ u.id # 0 /\ u.body \in Seq(Nat) /\ u.fn \in AnyFn
      /\ u.type = "tool_use" /\ u.signed = FALSE /\ \A k \in DOMAIN u.body : u.body[k] = u.id
  BY DEF Sent, BlockSet, IsToolUse
<1> DEFINE args == call.args
           no == FALSE
<1>2. << 0 >> \in Seq(Nat) /\ << 0 >> # <<>> /\ 1 \in DOMAIN << 0 >> /\ << 0 >>[1] = 0
  OBVIOUS
<1>3. /\ call = [id |-> u.id, fn |-> u.fn, args |-> args, signed |-> no]
      /\ args = u.body \/ (u.body = <<>> /\ args = << 0 >>)
  BY DEF Call
<1>4. no \in BOOLEAN
  OBVIOUS
<1>5. args \in Seq(Nat) /\ ParseArguments(args) = u.body
  <2> HIDE DEF args
  <2>1. u.body # << 0 >>
    BY <1>1, <1>2
  <2> QED BY <1>1, <1>2, <1>3, <2>1 DEF ParseArguments
<1> HIDE DEF no, args
<1>6. call \in CallSet /\ call.id = u.id /\ call.fn = u.fn /\ call.args = args
  BY <1>1, <1>3, <1>4, <1>5 DEF CallSet
<1>7. u = [type |-> u.type, id |-> u.id, body |-> u.body, signed |-> u.signed, fn |-> u.fn]
  BY <1>1 DEF BlockSet
<1>8. CallBlock(call) = u
  <2>1. CallBlock(call) = [type |-> "tool_use", id |-> u.id, body |-> u.body, signed |-> no, fn |-> u.fn]
    BY <1>5, <1>6 DEF CallBlock, no
  <2>2. u.signed = no /\ u.type = "tool_use"
    BY <1>1 DEF no
  <2> QED BY <1>7, <2>1, <2>2
<1> QED BY <1>1, <1>6, <1>8

Reply(text, details, calls) ==
    [role |-> "assistant", text |-> text, details |-> details, calls |-> calls,
     of |-> 0, name |-> NoFunction]

(* The client's message of an answer is one a client writes. *)
LEMMA ReplyWritten ==
  ASSUME NEW text \in Seq(Nat), NEW details \in Seq(BlockSet), NEW calls \in Seq(CallSet),
         \A i \in DOMAIN details : IsThinking(details[i]),
         \A k \in DOMAIN calls : calls[k].id # 0
  PROVE  Written(Reply(text, details, calls)) /\ Reply(text, details, calls).role = "assistant"
<1>1. 0 \in AnyId /\ NoFunction \in AnyFn
  BY DEF AnyId, AnyFn
<1> QED BY <1>1 DEF Written, MessageSet, Reply

(* What a client that was given the blocks says in the next request. *)
LEMMA ReplyEchoes ==
  ASSUME NEW blocks \in Seq(BlockSet), \A j \in DOMAIN blocks : Sent(blocks[j]),
         NEW calls, CallsOf(calls, ToolUses(blocks)), keeps \in BOOLEAN
  PROVE  LET m == Reply(Texts(blocks, "text"), IF keeps THEN Details(blocks) ELSE <<>>, calls)
         IN  /\ Written(m) /\ m.role = "assistant"
             /\ AssistantBlocks(m) = Expected(blocks)
<1> DEFINE uses == ToolUses(blocks)
           text == Texts(blocks, "text")
           details == IF keeps THEN Details(blocks) ELSE <<>>
           m == Reply(text, details, calls)
<1>1. uses \in Seq(BlockSet) /\ \A i \in DOMAIN uses : Sent(uses[i]) /\ IsToolUse(uses[i])
  BY UsesAreSent
<1>2. text \in Seq(Nat)
  BY KindsAreFunctions, TextsAre, CollectedParts, FlattenType DEF Collected
<1>3. details \in Seq(BlockSet) /\ \A i \in DOMAIN details : IsThinking(details[i])
  <2>1. <<>> \in Seq(BlockSet) /\ DOMAIN <<>> = {}
    OBVIOUS
  <2> QED BY <2>1, DetailsAreThinking
<1>4. CallsOf(calls, uses)
  OBVIOUS
<1> HIDE DEF uses, text, details
<1>5. \A i \in DOMAIN uses : calls[i] \in CallSet /\ calls[i].id # 0 /\ CallBlock(calls[i]) = uses[i]
  <2> SUFFICES ASSUME NEW i \in DOMAIN uses
               PROVE  calls[i] \in CallSet /\ calls[i].id # 0 /\ CallBlock(calls[i]) = uses[i]
    OBVIOUS
  <2>1. \/ calls[i] = Call(uses[i].id, uses[i].fn, uses[i].body, FALSE)
        \/ uses[i].body = <<>> /\ calls[i] = Call(uses[i].id, uses[i].fn, << 0 >>, FALSE)
    BY <1>4 DEF CallsOf
  <2> QED BY <1>1, <2>1, CallOfUse
<1>6. calls \in Seq(CallSet) /\ DOMAIN calls = DOMAIN uses
  <2>1. DOMAIN uses = 1 .. Len(uses) /\ Len(uses) \in Nat
    BY <1>1
  <2>2. calls = [i \in DOMAIN uses |-> calls[i]]
    BY <1>4 DEF CallsOf
  <2>3. calls \in [1 .. Len(uses) -> CallSet]
    BY <1>5, <2>1, <2>2
  <2> QED BY <2>1, <2>3
<1>7. Written(m) /\ m.role = "assistant"
  BY <1>2, <1>3, <1>5, <1>6, ReplyWritten
<1>8. CallBlocks(calls) = uses
  <2>1. /\ CallBlocks(calls) \in Seq(BlockSet) /\ DOMAIN CallBlocks(calls) = DOMAIN calls
        /\ \A i \in DOMAIN calls : CallBlocks(calls)[i] = CallBlock(calls[i])
    BY <1>6, CallBlocksAre
  <2> DEFINE c == CallBlocks(calls)
  <2> HIDE DEF c
  <2>2. c \in Seq(BlockSet) /\ DOMAIN c = DOMAIN uses /\ \A i \in DOMAIN uses : c[i] = uses[i]
    BY <1>5, <1>6, <2>1 DEF c
  <2>3. c = uses
    BY <1>1, <2>2
  <2> QED BY <2>3 DEF c
<1>9. AssistantBlocks(m) = details \o TextBlocks(text) \o uses
  <2>1. AssistantBlocks(m) = m.details \o TextBlocks(m.text) \o CallBlocks(m.calls)
    BY <1>7, AssistantBlocksAre
  <2>2. m.details = details /\ m.text = text /\ m.calls = calls
    BY DEF Reply
  <2> QED BY <1>8, <2>1, <2>2
<1>10. Expected(blocks) = details \o TextBlocks(text) \o uses
  BY DEF Expected, details, text, uses, TextBlocks
<1> QED BY <1>7, <1>9, <1>10 DEF text, details

(* Taking an answer. *)
TakenCalls(calls) == [i \in DOMAIN calls |-> [calls[i] EXCEPT !.signed = @ /\ keeps]]

LEMMA CallWithSigned ==
  ASSUME NEW id, NEW fn, NEW a, NEW s, NEW t
  PROVE  [Call(id, fn, a, s) EXCEPT !.signed = t] = Call(id, fn, a, t)
<1>1. Call(id, fn, a, s) = [id |-> id, fn |-> fn, args |-> a, signed |-> s]
      /\ Call(id, fn, a, t) = [id |-> id, fn |-> fn, args |-> a, signed |-> t]
  BY DEF Call
<1> QED BY <1>1

LEMMA UnsignedKept ==
  ASSUME NEW id, NEW fn, NEW a, NEW call, call = Call(id, fn, a, FALSE)
  PROVE  [call EXCEPT !.signed = @ /\ keeps] = call
<1> DEFINE no == FALSE
           v == call.signed /\ keeps
<1>1. call.signed = no
  BY DEF Call
<1>2. v = no
  BY <1>1
<1>3. call = Call(id, fn, a, no)
  OBVIOUS
<1> HIDE DEF no, v
<1>4. [call EXCEPT !.signed = v] = call
  <2>1. [Call(id, fn, a, no) EXCEPT !.signed = no] = Call(id, fn, a, no)
    BY CallWithSigned
  <2> QED BY <1>2, <1>3, <2>1
<1> QED BY <1>4 DEF v

(* Keeping or dropping signatures does not change unsigned calls. *)
LEMMA TakenCallsOf ==
  ASSUME NEW raw, NEW uses, CallsOf(raw, uses)
  PROVE  CallsOf(TakenCalls(raw), uses)
<1>1. DOMAIN raw = DOMAIN uses
  BY DEF CallsOf
<1>2. ASSUME NEW i \in DOMAIN uses PROVE TakenCalls(raw)[i] = raw[i]
  <2>1. TakenCalls(raw)[i] = [raw[i] EXCEPT !.signed = @ /\ keeps]
    BY <1>1 DEF TakenCalls
  <2>2. PICK a : raw[i] = Call(uses[i].id, uses[i].fn, a, FALSE)
    BY DEF CallsOf
  <2>3. [raw[i] EXCEPT !.signed = @ /\ keeps] = raw[i]
    <3> DEFINE id == uses[i].id
               fn == uses[i].fn
               call == raw[i]
    <3>1. call = Call(id, fn, a, FALSE)
      BY <2>2
    <3> HIDE DEF id, fn, call
    <3>2. [call EXCEPT !.signed = @ /\ keeps] = call
      BY <3>1, UnsignedKept
    <3> QED BY <3>2 DEF call
  <2> QED BY <2>1, <2>3
<1>3. TakenCalls(raw) = [i \in DOMAIN uses |-> TakenCalls(raw)[i]]
  BY <1>1 DEF TakenCalls
<1> QED BY <1>2, <1>3 DEF CallsOf

(* What Take leaves. *)
LEMMA TakeIs ==
  ASSUME NEW answer, Take(answer)
  PROVE  /\ chat' = Append(chat, Reply(answer.text, IF keeps THEN answer.details ELSE <<>>,
                                      TakenCalls(answer.calls)))
         /\ request' = <<>> /\ upstream' = Quiet
         /\ translator' = NewTranslator /\ got' = Nothing
<1> DEFINE x == answer.text
           y == IF keeps THEN answer.details ELSE <<>>
           z == TakenCalls(answer.calls)
           m == [Message("assistant") EXCEPT !.text = x, !.details = y, !.calls = z]
<1>1. /\ chat' = Append(chat, m)
      /\ request' = <<>> /\ upstream' = Quiet
      /\ translator' = NewTranslator /\ got' = Nothing
  BY DEF Take, TakenCalls
<1>2. m = Reply(x, y, z)
  <2> DEFINE e == <<>>
             zero == 0
             role == "assistant"
             none == NoFunction
             m0 == [role |-> role, text |-> e, details |-> e, calls |-> e, of |-> zero, name |-> none]
  <2>1. Message("assistant") = m0
    BY DEF Message
  <2>2. Reply(x, y, z) = [role |-> role, text |-> x, details |-> y, calls |-> z, of |-> zero, name |-> none]
    BY DEF Reply
  <2> HIDE DEF x, y, z, e, zero, role, none
  <2> DEFINE m1 == [role |-> role, text |-> x, details |-> e, calls |-> e, of |-> zero, name |-> none]
             m2 == [role |-> role, text |-> x, details |-> y, calls |-> e, of |-> zero, name |-> none]
             m3 == [role |-> role, text |-> x, details |-> y, calls |-> z, of |-> zero, name |-> none]
  <2>3. [m0 EXCEPT !.text = x, !.details = y, !.calls = z] = m3
    <3>1. [m0 EXCEPT !.text = x, !.details = y, !.calls = z]
            = [[[m0 EXCEPT !.text = x] EXCEPT !.details = y] EXCEPT !.calls = z]
      OBVIOUS
    <3>2. [m0 EXCEPT !.text = x] = m1
      OBVIOUS
    <3>3. [m1 EXCEPT !.details = y] = m2
      OBVIOUS
    <3>4. [m2 EXCEPT !.calls = z] = m3
      OBVIOUS
    <3> HIDE DEF m0, m1, m2, m3
    <3> QED BY <3>1, <3>2, <3>3, <3>4
  <2> QED BY <2>1, <2>2, <2>3
<1> QED BY <1>1, <1>2

(* The calls of an answer in one piece are those of its tool uses. *)
LEMMA WholeCallsOf ==
  ASSUME NEW blocks \in Seq(BlockSet)
  PROVE  /\ FromAnthropicMessage(blocks).text = Texts(blocks, "text")
         /\ FromAnthropicMessage(blocks).details = Details(blocks)
         /\ CallsOf(FromAnthropicMessage(blocks).calls, ToolUses(blocks))
<1> DEFINE uses == ToolUses(blocks)
           m == FromAnthropicMessage(blocks)
           cs == [i \in DOMAIN uses |->
                   Call(uses[i].id, uses[i].fn, IF uses[i].body = <<>> THEN << 0 >> ELSE uses[i].body, FALSE)]
<1>1. m.text = Texts(blocks, "text") /\ m.details = Details(blocks) /\ m.calls = cs
  BY DEF FromAnthropicMessage
<1>2. CallsOf(cs, uses)
  <2> HIDE DEF uses
  <2>1. cs = [i \in DOMAIN uses |-> cs[i]]
    OBVIOUS
  <2>2. ASSUME NEW i \in DOMAIN uses
        PROVE  \/ cs[i] = Call(uses[i].id, uses[i].fn, uses[i].body, FALSE)
               \/ uses[i].body = <<>> /\ cs[i] = Call(uses[i].id, uses[i].fn, << 0 >>, FALSE)
    <3>1. CASE uses[i].body = <<>>
      BY <3>1
    <3>2. CASE uses[i].body # <<>>
      BY <3>2
    <3> QED BY <3>1, <3>2
  <2> HIDE DEF cs
  <2> QED BY <2>1, <2>2 DEF CallsOf
<1> QED BY <1>1, <1>2

(* So are the calls of a stream, put in the order of their indexes. *)
LEMMA StreamedCallsOf ==
  ASSUME NEW uses \in Seq(BlockSet), CallsKnown(got.calls, uses)
  PROVE  CallsOf(Calls, uses)
<1> DEFINE n == Len(uses)
<1>1. n \in Nat /\ DOMAIN uses = 1 .. n /\ DOMAIN got.calls = 0 .. n - 1
  BY DEF CallsKnown
<1> HIDE DEF n
<1>2. Cardinality(DOMAIN got.calls) = n
  <2>1. 0 \in Int /\ n - 1 \in Int
    BY <1>1
  <2>2. Cardinality(0 .. n - 1) = IF 0 > n - 1 THEN 0 ELSE n - 1 - 0 + 1
    <3> DEFINE k == n - 1
    <3> HIDE DEF k
    <3>1. Cardinality(0 .. k) = IF 0 > k THEN 0 ELSE k - 0 + 1
      BY <2>1, FS_Interval DEF k
    <3> QED BY <3>1 DEF k
  <2>3. (IF 0 > n - 1 THEN 0 ELSE n - 1 - 0 + 1) = n
    BY <1>1
  <2> QED BY <1>1, <2>2, <2>3
<1>3. Calls = [i \in DOMAIN uses |-> got.calls[i - 1]]
  BY <1>1, <1>2 DEF Calls
<1>4. \A i \in DOMAIN uses : Calls[i] = Call(uses[i].id, uses[i].fn, uses[i].body, FALSE)
  BY <1>3 DEF CallsKnown
<1> HIDE DEF Calls
<1>5. Calls = [i \in DOMAIN uses |-> Calls[i]]
  BY <1>3
<1> QED BY <1>4, <1>5 DEF CallsOf

-----------------------------------------------------------------------------
(* Every step keeps what is known.                                         *)
(* One answer more. *)
LEMMA UsedMore ==
  ASSUME AnswersTyped, NEW a \in AnswerSet, answers' = Append(answers, a)
  PROVE  AnswersTyped' /\ Used' = Used + Len(a.blocks)
<1> DEFINE f == [x \in AnswerSet |-> x.blocks]
           s == answers
           t == Append(answers, a)
<1>1. Gives(f, AnswerSet, BlockSet)
  BY DEF Gives, AnswerSet
<1>2. s \in Seq(AnswerSet) /\ t \in Seq(AnswerSet)
  BY DEF AnswersTyped
<1>3. \A i \in DOMAIN s : s[i] \in AnswerSet
  BY <1>2
<1>4. \A i \in DOMAIN t : t[i] \in AnswerSet
  <2> HIDE DEF t
  <2> QED BY <1>2
<1> HIDE DEF t
<1>5. Parts(f, s) = [i \in DOMAIN s |-> s[i].blocks]
  BY <1>3 DEF Parts
<1>6. Parts(f, t) = [i \in DOMAIN t |-> t[i].blocks]
  BY <1>4 DEF Parts
<1>7. f[a] = a.blocks /\ a.blocks \in Seq(BlockSet)
  BY DEF AnswerSet
<1> HIDE DEF f
<1>8. Collected(f, s) \in Seq(BlockSet) /\ Grows(f, s, a)
  BY <1>1, <1>2, CollectedAppend
<1>9. Used = Len(Collected(f, s))
  BY <1>5 DEF Used, Collected
<1>10. Used' = Len(Collected(f, t))
  BY <1>6 DEF Used, Collected, t
<1>11. Collected(f, t) = Collected(f, s) \o a.blocks
  BY <1>7, <1>8 DEF Grows, t
<1>12. Used' = Used + Len(a.blocks)
  <2> DEFINE c == Collected(f, s)
  <2> HIDE DEF c
  <2>1. c \in Seq(BlockSet)
    BY <1>8 DEF c
  <2>2. Len(c \o a.blocks) = Len(c) + Len(a.blocks)
    BY <1>7, <2>1
  <2> QED BY <1>9, <1>10, <1>11, <2>2 DEF c
<1>13. AnswersTyped'
  BY <1>2 DEF AnswersTyped, t
<1> QED BY <1>12, <1>13

(* A new answer that is in the chat joins the known ones. *)
LEMMA AnswersGrow ==
  ASSUME AnswersKnown, chat \in Seq(MessageSet), NEW m \in MessageSet, chat' = Append(chat, m),
         keeps' = keeps, NEW a \in AnswerSet, answers' = Append(answers, a),
         Kept(a, Append(chat, m)), Used + Len(a.blocks) <= MaxBlocks, upstream' = Quiet
  PROVE  AnswersKnown'
<1>1. AnswersTyped' /\ Used' = Used + Len(a.blocks)
  BY UsedMore DEF AnswersKnown
<1>2. Len(upstream'.blocks) = 0 /\ Used \in Nat /\ Len(a.blocks) \in Nat
  <2>1. upstream'.blocks = <<>>
    BY DEF Quiet
  <2>2. a.blocks \in Seq(BlockSet)
    BY DEF AnswerSet
  <2> QED BY <2>1, <2>2, UsedIs DEF AnswersKnown
<1>3. Used' + Len(upstream'.blocks) <= MaxBlocks
  <2> DEFINE u == Used
             k == Len(a.blocks)
             v == Used'
             w == Len(upstream'.blocks)
  <2>1. v = u + k /\ w = 0 /\ u \in Nat /\ k \in Nat /\ u + k <= MaxBlocks
    BY <1>1, <1>2
  <2> HIDE DEF u, k, v, w
  <2>2. v + w = u + k
    BY <2>1
  <2>3. v + w <= MaxBlocks
    BY <2>1, <2>2
  <2> QED BY <2>3 DEF v, w
<1>4. ASSUME NEW i \in DOMAIN answers' PROVE Kept(answers'[i], chat')
  <2>0. answers \in Seq(AnswerSet)
    BY DEF AnswersKnown, AnswersTyped
  <2>1. CASE i \in DOMAIN answers
    <3>1. answers'[i] = answers[i]
      BY <2>0, <2>1
    <3>2. Kept(answers[i], chat)
      BY <2>1 DEF AnswersKnown
    <3> DEFINE b == answers[i]
    <3> HIDE DEF b
    <3>3. Kept(b, chat)
      BY <3>2 DEF b
    <3>4. ASSUME NEW k \in DOMAIN chat PROVE k \in DOMAIN chat' /\ chat'[k] = chat[k]
      OBVIOUS
    <3>5. Kept(b, chat')
      BY <3>3, <3>4 DEF Kept
    <3> QED BY <3>1, <3>5 DEF b
  <2>2. CASE i \notin DOMAIN answers
    <3>1. answers'[i] = a
      BY <2>0, <2>2
    <3> QED BY <3>1
  <2> QED BY <2>1, <2>2
<1>5. ASSUME NEW i \in DOMAIN answers' PROVE Kept(answers[i], chat)'
  BY <1>4 DEF Kept, Expected
<1> QED BY <1>1, <1>3, <1>5 DEF AnswersKnown

(* Taking an Anthropic answer, whichever way it came. *)
LEMMA AnswerTaken ==
  ASSUME ChatKnown, AnswersKnown, keeps \in BOOLEAN, keeps' = keeps, OpenCalls(chat) = {},
         NEW blocks \in Seq(BlockSet), \A j \in DOMAIN blocks : Sent(blocks[j]),
         Used + Len(blocks) <= MaxBlocks,
         NEW answer, Take(answer),
         answer.text = Texts(blocks, "text"), answer.details = Details(blocks),
         CallsOf(answer.calls, ToolUses(blocks)),
         answers' = Append(answers, [message |-> Len(chat) + 1, blocks |-> blocks])
  PROVE  ChatKnown' /\ AnswersKnown'
<1> DEFINE calls == TakenCalls(answer.calls)
           m == Reply(Texts(blocks, "text"), IF keeps THEN Details(blocks) ELSE <<>>, calls)
           a == [message |-> Len(chat) + 1, blocks |-> blocks]
           more == Append(chat, m)
<1>1. CallsOf(calls, ToolUses(blocks))
  BY TakenCallsOf
<1>2. Written(m) /\ m.role = "assistant" /\ AssistantBlocks(m) = Expected(blocks)
  <2> HIDE DEF calls
  <2> QED BY <1>1, ReplyEchoes
<1>3. chat' = more /\ upstream' = Quiet
  <2>1. /\ chat' = Append(chat, Reply(answer.text, IF keeps THEN answer.details ELSE <<>>,
                                      TakenCalls(answer.calls)))
        /\ upstream' = Quiet
    BY TakeIs
  <2> QED BY <2>1
<1> HIDE DEF m
<1>4. ChatGood(chat) /\ chat \in Seq(MessageSet) /\ m \in MessageSet
  BY <1>2 DEF ChatKnown, ChatGood, Written
<1>5. ChatKnown'
  <2>1. ChatGood(more)
    BY <1>2, <1>4, TakeKeeps
  <2> QED BY <1>3, <2>1 DEF ChatKnown
<1>6. a \in AnswerSet /\ a.blocks = blocks /\ a.message = Len(chat) + 1
  <2>1. Len(chat) + 1 \in Nat
    BY <1>4
  <2> QED BY <2>1 DEF AnswerSet
<1>7. Kept(a, more)
  <2>1. Len(chat) + 1 \in DOMAIN more /\ more[Len(chat) + 1] = m
    BY <1>4
  <2> HIDE DEF a, more
  <2> QED BY <1>2, <1>6, <2>1 DEF Kept
<1>8. AnswersKnown'
  <2>1. answers' = Append(answers, a) /\ Used + Len(a.blocks) <= MaxBlocks
    BY <1>6
  <2> HIDE DEF a
  <2> QED BY <1>3, <1>4, <1>6, <1>7, <2>1, AnswersGrow
<1> QED BY <1>5, <1>8

(* AnswerWhole takes the message in one piece. *)
LEMMA WholeTaken ==
  ASSUME ConversationKnown, AnswerWhole
  PROVE  ChatKnown' /\ AnswersKnown'
<1> DEFINE blocks == upstream.blocks
           answer == FromAnthropicMessage(blocks)
<1>1. /\ upstream.at = "whole" /\ Take(answer) /\ keeps' = keeps
      /\ answers' = Append(answers, [message |-> Len(chat) + 1, blocks |-> blocks])
  BY DEF AnswerWhole
<1>2. blocks \in Seq(BlockSet) /\ \A j \in DOMAIN blocks : Sent(blocks[j])
  BY DEF ConversationKnown, StreamKnown, Stream
<1>3. ChatKnown /\ AnswersKnown /\ keeps \in BOOLEAN /\ OpenCalls(chat) = {}
  BY <1>1 DEF ConversationKnown, RequestKnown, Running
<1>4. Used + Len(blocks) <= MaxBlocks
  BY DEF ConversationKnown, AnswersKnown
<1>5. /\ answer.text = Texts(blocks, "text") /\ answer.details = Details(blocks)
      /\ CallsOf(answer.calls, ToolUses(blocks))
  BY <1>2, WholeCallsOf
<1> HIDE DEF answer, blocks
<1> QED BY <1>1, <1>2, <1>3, <1>4, <1>5, AnswerTaken

(* StreamEnds takes the complete stream. *)
LEMMA StreamTaken ==
  ASSUME ConversationKnown, StreamEnds, Complete
  PROVE  ChatKnown' /\ AnswersKnown'
<1> DEFINE blocks == upstream.blocks
           calls == Calls
           answer == [got EXCEPT !.calls = calls]
<1>1. /\ Take(answer) /\ keeps' = keeps /\ upstream.at # "none"
      /\ answers' = Append(answers, [message |-> Len(chat) + 1, blocks |-> blocks])
  BY DEF StreamEnds, Streaming
<1>2. blocks \in Seq(BlockSet) /\ \A j \in DOMAIN blocks : Sent(blocks[j])
  BY DEF ConversationKnown, StreamKnown, Stream
<1>3. ChatKnown /\ AnswersKnown /\ keeps \in BOOLEAN /\ OpenCalls(chat) = {}
  BY <1>1 DEF ConversationKnown, RequestKnown, Running
<1>4. Used + Len(blocks) <= MaxBlocks
  BY DEF ConversationKnown, AnswersKnown
<1>5. /\ Shaped(translator, got) /\ got.text = Texts(blocks, "text") /\ got.details = Details(blocks)
      /\ CallsKnown(got.calls, ToolUses(blocks))
  <2>1. Stream(upstream.at, blocks, translator, got)
    BY DEF ConversationKnown, StreamKnown
  <2>2. upstream.at \in Streamed
    BY <2>1 DEF Stream, Complete, NewTranslator
  <2>3. /\ Shaped(translator, got) /\ GotKnown(upstream.at, blocks, got)
        /\ TranslatorKnown(upstream.at, blocks, translator)
    BY <2>1, <2>2 DEF Stream
  <2>4. upstream.at \in {"stopping", "stopped"}
    BY <2>3 DEF TranslatorKnown, Complete
  <2>5. Closed(upstream.at, blocks) = blocks
    BY <2>4 DEF Closed, NowOpen
  <2> QED BY <2>3, <2>5 DEF GotKnown
<1>6. CallsOf(calls, ToolUses(blocks))
  <2>1. ToolUses(blocks) \in Seq(BlockSet)
    BY <1>2, UsesAreSent
  <2> QED BY <1>5, <2>1, StreamedCallsOf
<1> HIDE DEF calls
<1>7. answer.text = got.text /\ answer.details = got.details /\ answer.calls = calls
  <2>1. answer = [text |-> got.text, reasoning |-> got.reasoning,
                details |-> got.details, calls |-> calls, finish |-> got.finish]
    <3>1. Shaped(translator, got)
      BY <1>5
    <3> QED BY <3>1, GotFields
  <2> HIDE DEF answer
  <2> QED BY <2>1
<1> HIDE DEF answer, blocks
<1> QED BY <1>1, <1>2, <1>3, <1>4, <1>5, <1>6, <1>7, AnswerTaken

(* Gemini's calls as the client keeps them. *)
LEMMA CallTaken ==
  ASSUME NEW id, NEW fn, NEW args, NEW yes \in BOOLEAN, keeps \in BOOLEAN
  PROVE  \E s \in BOOLEAN : [Call(id, fn, args, yes) EXCEPT !.signed = @ /\ keeps] = Call(id, fn, args, s)
<1> DEFINE call == Call(id, fn, args, yes)
           s == call.signed /\ keeps
<1>1. s \in BOOLEAN
  BY DEF Call
<1> HIDE DEF s
<1>2. [call EXCEPT !.signed = s] = Call(id, fn, args, s)
  BY CallWithSigned
<1>3. [call EXCEPT !.signed = @ /\ keeps] = Call(id, fn, args, s)
  BY <1>2 DEF s
<1> QED BY <1>1, <1>3

LEMMA NothingWith ==
  ASSUME NEW x, NEW y
  PROVE  /\ [Nothing EXCEPT !.text = x, !.calls = y].text = x
         /\ [Nothing EXCEPT !.text = x, !.calls = y].calls = y
         /\ [Nothing EXCEPT !.text = x, !.calls = y].details = <<>>
<1> DEFINE e == <<>>
           no == FALSE
           n0 == [text |-> e, reasoning |-> e, details |-> e, calls |-> e, finish |-> no]
           n1 == [text |-> x, reasoning |-> e, details |-> e, calls |-> e, finish |-> no]
           n2 == [text |-> x, reasoning |-> e, details |-> e, calls |-> y, finish |-> no]
<1>1. Nothing = n0
  BY DEF Nothing
<1>2. n2.text = x /\ n2.calls = y /\ n2.details = <<>>
  OBVIOUS
<1> HIDE DEF e, no
<1>3. [n0 EXCEPT !.text = x, !.calls = y] = [[n0 EXCEPT !.text = x] EXCEPT !.calls = y]
  OBVIOUS
<1>4. [n0 EXCEPT !.text = x] = n1
  OBVIOUS
<1>5. [n1 EXCEPT !.calls = y] = n2
  OBVIOUS
<1> HIDE DEF n0, n1, n2
<1>6. [Nothing EXCEPT !.text = x, !.calls = y] = n2
  BY <1>1, <1>3, <1>4, <1>5
<1> QED BY <1>2, <1>6

(* GeminiAnswers takes Gemini's calls, with or without a signature. *)
LEMMA GeminiTaken ==
  ASSUME ConversationKnown, GeminiAnswers
  PROVE  ChatKnown' /\ AnswersKnown'
<1>1. PICK ids \in SeqOf(Ids, 2), fn \in Functions, signed \in BOOLEAN :
          /\ IsInjective(ids)
          /\ Len(ids) <= MaxBlocks - Used
          /\ answers' = Append(answers,
                [message |-> 0, blocks |-> [i \in DOMAIN ids |-> Block("text", 0, <<>>)]])
          /\ Take([Nothing EXCEPT !.text = IF ids = <<>> THEN << 0 >> ELSE <<>>,
                     !.calls = [i \in DOMAIN ids |->
                                  Call(ids[i], fn, << 0 >>, signed /\ i = 1)]])
  BY DEF GeminiAnswers
<1>2. request # <<>> /\ keeps' = keeps
  BY DEF GeminiAnswers
<1>3. ids \in Seq(Ids)
  <2>1. PICK n \in 0 .. 2 : ids \in [1 .. n -> Ids]
    BY <1>1, Zenon DEF SeqOf
  <2> QED BY <2>1
<1>4. ChatGood(chat) /\ AnswersKnown /\ keeps \in BOOLEAN /\ OpenCalls(chat) = {}
  BY <1>2 DEF ConversationKnown, RequestKnown, ChatKnown
<1>5. chat \in Seq(MessageSet)
  BY <1>4 DEF ChatGood
<1> DEFINE text == IF ids = <<>> THEN << 0 >> ELSE <<>>
           args == << 0 >>
           raw == [i \in DOMAIN ids |-> Call(ids[i], fn, args, signed /\ i = 1)]
           answer == [Nothing EXCEPT !.text = text, !.calls = raw]
           calls == TakenCalls(raw)
           details == <<>>
           m == Reply(text, details, calls)
           blocks == [i \in DOMAIN ids |-> Block("text", 0, <<>>)]
           a == [message |-> 0, blocks |-> blocks]
<1>6. Take(answer) /\ answers' = Append(answers, a) /\ Len(ids) <= MaxBlocks - Used
  BY <1>1
<1>7. text \in Seq(Nat) /\ details \in Seq(BlockSet) /\ DOMAIN details = {} /\ args \in Seq(Nat)
  OBVIOUS
<1>8. blocks \in Seq(BlockSet) /\ Len(blocks) = Len(ids)
  <2> DEFINE b == Block("text", 0, <<>>)
             n == Len(ids)
  <2>1. b \in BlockSet
    <3>1. "text" \in Types /\ FALSE \in BOOLEAN /\ NoFunction \in AnyFn /\ 0 \in AnyId /\ <<>> \in Seq(Nat)
      BY DEF Types, AnyFn, AnyId
    <3> QED BY <3>1 DEF Block, BlockSet
  <2>2. n \in Nat /\ DOMAIN ids = 1 .. n
    BY <1>3
  <2>3. blocks = [i \in 1 .. n |-> b]
    BY <2>2
  <2> HIDE DEF b, n, blocks
  <2>4. blocks \in [1 .. n -> BlockSet]
    BY <2>1, <2>3
  <2>5. blocks \in Seq(BlockSet) /\ Len(blocks) = n
    BY <2>2, <2>3, <2>4
  <2> QED BY <2>5 DEF n
<1> HIDE DEF blocks, text, args, raw
<1>9. ASSUME NEW i \in DOMAIN ids
      PROVE  calls[i] \in CallSet /\ calls[i].id # 0
  <2>1. ids[i] \in Ids /\ ids[i] # 0 /\ ids[i] \in AnyId /\ fn \in AnyFn
    BY <1>3, ConversationConstants DEF AnyId, AnyFn
  <2> DEFINE yes == signed /\ i = 1
  <2>2. yes \in BOOLEAN
    OBVIOUS
  <2>3. calls[i] = [raw[i] EXCEPT !.signed = @ /\ keeps] /\ raw[i] = Call(ids[i], fn, args, yes)
    BY DEF TakenCalls, raw
  <2> HIDE DEF yes
  <2>4. PICK s \in BOOLEAN :
           [Call(ids[i], fn, args, yes) EXCEPT !.signed = @ /\ keeps] = Call(ids[i], fn, args, s)
    BY <1>4, <2>2, CallTaken
  <2>5. calls[i] = Call(ids[i], fn, args, s)
    BY <2>3, <2>4
  <2> QED BY <1>7, <2>1, <2>5 DEF Call, CallSet
<1>10. calls \in Seq(CallSet) /\ DOMAIN calls = DOMAIN ids
  <2>1. DOMAIN ids = 1 .. Len(ids) /\ Len(ids) \in Nat
    BY <1>3
  <2>2. calls = [i \in DOMAIN ids |-> calls[i]]
    BY DEF TakenCalls, raw
  <2> HIDE DEF calls
  <2>3. calls \in [1 .. Len(ids) -> CallSet]
    BY <1>9, <2>1, <2>2
  <2> QED BY <2>1, <2>3
<1>11. chat' = Append(chat, m) /\ upstream' = Quiet
  <2>1. answer.text = text /\ answer.calls = raw /\ answer.details = <<>>
    BY NothingWith
  <2> HIDE DEF answer
  <2>2. /\ chat' = Append(chat, Reply(answer.text, IF keeps THEN answer.details ELSE <<>>,
                                      TakenCalls(answer.calls)))
        /\ upstream' = Quiet
    BY <1>6, TakeIs
  <2> QED BY <2>1, <2>2
<1> HIDE DEF calls, details, answer
<1>12. Written(m) /\ m.role = "assistant"
  <2>1. \A i \in DOMAIN details : IsThinking(details[i])
    BY <1>7
  <2>2. \A k \in DOMAIN calls : calls[k].id # 0
    BY <1>9, <1>10
  <2>3. Written(Reply(text, details, calls)) /\ Reply(text, details, calls).role = "assistant"
    BY <1>7, <1>10, <2>1, <2>2, ReplyWritten
  <2> QED BY <2>3
<1> HIDE DEF m
<1>13. m \in MessageSet
  BY <1>12 DEF Written
<1>14. ChatKnown'
  <2>1. ChatGood(Append(chat, m))
    BY <1>4, <1>12, TakeKeeps
  <2> QED BY <1>11, <2>1 DEF ChatKnown
<1>15. a \in AnswerSet /\ a.message = 0 /\ a.blocks = blocks
  BY <1>8 DEF AnswerSet
<1>16. Used + Len(blocks) <= MaxBlocks
  <2>1. Used \in Nat /\ MaxBlocks \in Nat /\ Len(ids) \in Nat
    BY <1>3, <1>4, UsedIs, ConversationConstants DEF AnswersKnown
  <2> DEFINE u == Used
             n == Len(ids)
  <2>2. u \in Nat /\ n \in Nat /\ n <= MaxBlocks - u
    BY <1>6, <2>1
  <2> HIDE DEF u, n
  <2>3. u + n <= MaxBlocks
    BY <2>1, <2>2
  <2> QED BY <1>8, <2>3 DEF u, n
<1> HIDE DEF a
<1>17. Kept(a, Append(chat, m))
  BY <1>15 DEF Kept
<1>18. AnswersKnown'
  <2>1. Used + Len(a.blocks) <= MaxBlocks
    BY <1>15, <1>16
  <2> QED BY <1>2, <1>4, <1>5, <1>6, <1>11, <1>13, <1>15, <1>17, <2>1, AnswersGrow
<1> QED BY <1>14, <1>18

(* The answers so far stay what the chat says they were. *)
LEMMA AnswersStay ==
  ASSUME AnswersKnown, answers' = answers, keeps' = keeps,
         \A k \in DOMAIN chat : k \in DOMAIN chat' /\ chat'[k] = chat[k],
         Used + Len(upstream'.blocks) <= MaxBlocks
  PROVE  AnswersKnown'
<1>1. Used' = Used
  BY DEF Used
<1>2. ASSUME NEW i \in DOMAIN answers PROVE Kept(answers[i], chat')
  <2>1. Kept(answers[i], chat)
    BY DEF AnswersKnown
  <2> DEFINE b == answers[i]
  <2> HIDE DEF b
  <2>2. Kept(b, chat)
    BY <2>1 DEF b
  <2>3. Kept(b, chat')
    BY <2>2 DEF Kept
  <2> QED BY <2>3 DEF b
<1>3. ASSUME NEW i \in DOMAIN answers' PROVE Kept(answers[i], chat)'
  BY <1>2 DEF Kept, Expected
<1>4. AnswersTyped'
  BY DEF AnswersKnown, AnswersTyped
<1> QED BY <1>1, <1>3, <1>4 DEF AnswersKnown

(* The numbers of the blocks stay within the bound. *)
LEMMA BoundKept ==
  ASSUME StreamKnown, AnswersTyped, Used + Len(upstream.blocks) <= MaxBlocks,
         Used <= MaxBlocks,
         GrowWhole \/ StreamEvent, answers' = answers
  PROVE  Used + Len(upstream'.blocks) <= MaxBlocks
<1> DEFINE blocks == upstream.blocks
<1>1. /\ blocks \in Seq(BlockSet) /\ upstream = [at |-> upstream.at, blocks |-> blocks]
      /\ Used \in Nat
  BY UsedIs DEF StreamKnown, Stream
<1>2. ASSUME upstream'.blocks = <<>> PROVE Used + Len(upstream'.blocks) <= MaxBlocks
  BY <1>1, <1>2
<1>3. ASSUME NEW b, NewId <= MaxBlocks, upstream'.blocks = Append(blocks, b)
      PROVE  Used + Len(upstream'.blocks) <= MaxBlocks
  <2> DEFINE u == Used
             n == Len(blocks)
             k == Len(upstream'.blocks)
  <2>1. k = n + 1
    BY <1>1, <1>3
  <2>2. u + n + 1 <= MaxBlocks
    BY <1>3 DEF NewId
  <2>3. u \in Nat /\ n \in Nat
    BY <1>1
  <2> HIDE DEF u, n, k
  <2>4. u + k <= MaxBlocks
    BY <2>1, <2>2, <2>3
  <2> QED BY <2>4 DEF u, k
<1>4. ASSUME DOMAIN upstream'.blocks = DOMAIN blocks
      PROVE  Used + Len(upstream'.blocks) <= MaxBlocks
  <2>1. DOMAIN blocks = 1 .. Len(blocks) /\ Len(blocks) \in Nat
    BY <1>1
  <2>2. Len(upstream'.blocks) = Len(blocks)
    BY <1>4, <2>1
  <2> QED BY <2>2
<1>5. CASE GrowWhole
  <2>1. PICK b : NewId <= MaxBlocks /\ upstream' = [at |-> "whole", blocks |-> Append(blocks, b)]
    BY <1>5 DEF GrowWhole
  <2> QED BY <1>3, <2>1
<1>6. CASE MessageStart \/ MessageDelta \/ MessageStop \/ ContentBlockStop
  <2>1. \E at : upstream' = [upstream EXCEPT !.at = at]
    BY <1>6 DEF MessageStart, MessageDelta, MessageStop, ContentBlockStop
  <2>2. upstream'.blocks = blocks
    BY <1>1, <2>1
  <2> QED BY <1>4, <2>2
<1>7. CASE ContentBlockStart
  <2>1. PICK b : NewId <= MaxBlocks /\ upstream' = [at |-> "open", blocks |-> Append(blocks, b)]
    BY <1>7 DEF ContentBlockStart
  <2> QED BY <1>3, <2>1
<1>8. CASE ContentBlockDelta
  <2>1. upstream' = [upstream EXCEPT !.blocks[Index].body = Append(@, Open.id)]
    BY <1>8 DEF ContentBlockDelta
  <2>2. DOMAIN upstream'.blocks = DOMAIN blocks
    BY <1>1, <2>1
  <2> QED BY <1>4, <2>2
<1>9. CASE SignatureDelta
  <2> DEFINE yes == TRUE
  <2>1. upstream' = [upstream EXCEPT !.blocks[Index].signed = yes]
    BY <1>9 DEF SignatureDelta
  <2> HIDE DEF yes
  <2>2. DOMAIN upstream'.blocks = DOMAIN blocks
    BY <1>1, <2>1
  <2> QED BY <1>4, <2>2
<1>10. CASE StreamEnds
  <2>1. upstream' = Quiet
    BY <1>10 DEF StreamEnds, Take, Forget
  <2> QED BY <1>2, <2>1 DEF Quiet
<1> QED BY <1>5, <1>6, <1>7, <1>8, <1>9, <1>10 DEF StreamEvent

(* The chat begins in order. *)
LEMMA ConversationStarts ==
  ASSUME ChatInit
  PROVE  ConversationKnown
<1>1. chat = <<>> /\ answers = <<>> /\ request = <<>> /\ asked = 0 /\ keeps \in BOOLEAN
      /\ upstream = Quiet /\ translator = NewTranslator /\ got = Nothing
  BY DEF ChatInit
<1>2. StreamKnown
  <2>1. upstream.at = "none" /\ upstream.blocks = <<>>
        /\ upstream = [at |-> upstream.at, blocks |-> upstream.blocks]
    BY <1>1 DEF Quiet
  <2>2. Stream("none", <<>>, NewTranslator, Nothing)
    BY StreamQuiet
  <2> QED BY <1>1, <2>1, <2>2 DEF StreamKnown
<1>3. RequestKnown
  <2>1. upstream.at = "none" /\ 0 \in 0 .. MaxRequests
    BY <1>1, ConversationConstants DEF Quiet
  <2> QED BY <1>1, <2>1 DEF RequestKnown, Running
<1>4. AnswersKnown
  <2>1. AnswersTyped
    BY <1>1 DEF AnswersTyped
  <2>2. DOMAIN answers = {}
    BY <1>1
  <2>3. Used = 0
    <3>1. [i \in DOMAIN answers |-> answers[i].blocks] = <<>>
      BY <2>2
    <3> QED BY <3>1, FlattenEmpty DEF Used
  <2>4. Len(upstream.blocks) = 0
    BY <1>1 DEF Quiet
  <2> QED BY <2>1, <2>2, <2>3, <2>4, ConversationConstants DEF AnswersKnown
<1>5. ChatKnown
  <2>1. <<>> \in Seq(MessageSet) /\ <<>> \in Seq(TurnSet) /\ DOMAIN <<>> = {} /\ Len(<<>>) = 0
    OBVIOUS
  <2>2. GoodTurns(<<>>, OpenCalls(<<>>))
    BY <2>1 DEF GoodTurns, AnsweredUses
  <2>3. ChatGood(<<>>)
    BY <2>1, <2>2, TurnsOfNone DEF ChatGood, ResultsBelong, Echoed
  <2> QED BY <1>1, <2>3 DEF ChatKnown
<1> QED BY <1>2, <1>3, <1>4, <1>5 DEF ConversationKnown

(* The request under way. *)
LEMMA NotNone ==
  ASSUME NEW to
  PROVE  [to |-> to] # <<>>
<1>1. "to" \in DOMAIN [to |-> to] /\ DOMAIN <<>> = {}
  OBVIOUS
<1> QED BY <1>1

LEMMA RequestsAreSome ==
  /\ \A budget, limit, extras : ToAnthropicRequest(budget, limit, extras) # <<>>
  /\ \A schema : AdaptRequestForGemini(schema) # <<>>
<1>1. ASSUME NEW budget, NEW limit, NEW extras PROVE ToAnthropicRequest(budget, limit, extras) # <<>>
  <2>1. "to" \in DOMAIN ToAnthropicRequest(budget, limit, extras) /\ DOMAIN <<>> = {}
    BY DEF ToAnthropicRequest
  <2> QED BY <2>1
<1>2. ASSUME NEW schema PROVE AdaptRequestForGemini(schema) # <<>>
  <2>1. "to" \in DOMAIN AdaptRequestForGemini(schema) /\ DOMAIN <<>> = {}
    BY DEF AdaptRequestForGemini
  <2> QED BY <2>1
<1> QED BY <1>1, <1>2

(* Ask translates a chat without open calls. *)
LEMMA RequestAsked ==
  ASSUME ConversationKnown, Ask
  PROVE  RequestKnown'
<1>1. /\ asked < MaxRequests /\ asked' = asked + 1 /\ asked \in 0 .. MaxRequests
      /\ keeps' = keeps /\ keeps \in BOOLEAN /\ chat' = chat /\ OpenCalls(chat) = {}
  BY UnansweredIs DEF Ask, ConversationKnown, RequestKnown
<1>2. asked' \in 0 .. MaxRequests
  BY <1>1, ConversationConstants
<1>3. \/ \E schema \in Schemas : request' = AdaptRequestForGemini(schema)
      \/ \E budget \in Budgets \cup {0}, limit \in Limits \cup {0}, extras \in Extras :
            request' = ToAnthropicRequest(budget, limit, extras)
  BY DEF Ask
<1>4. request' # <<>>
  BY <1>3, RequestsAreSome
<1>5. ASSUME NEW schema
      PROVE  AdaptRequestForGemini(schema)' = AdaptRequestForGemini(schema)
  BY <1>1 DEF AdaptRequestForGemini, Adapted
<1>6. ASSUME NEW budget, NEW limit, NEW extras
      PROVE  ToAnthropicRequest(budget, limit, extras)' = ToAnthropicRequest(budget, limit, extras)
  BY <1>1 DEF ToAnthropicRequest
<1>7. \/ \E schema \in Schemas : request' = AdaptRequestForGemini(schema)'
      \/ \E budget \in Budgets \cup {0}, limit \in Limits \cup {0}, extras \in Extras :
            request' = ToAnthropicRequest(budget, limit, extras)'
  BY <1>3, <1>5, <1>6
<1> QED BY <1>1, <1>2, <1>4, <1>7 DEF RequestKnown, Running

(* Every step keeps the request in order. *)
LEMMA RequestStep ==
  ASSUME ConversationKnown, [ChatNext]_chatVars
  PROVE  RequestKnown'
<1>1. /\ asked \in 0 .. MaxRequests /\ keeps \in BOOLEAN
      /\ upstream.at # "none" => request # <<>>
      /\ request # <<>> => OpenCalls(chat) = {}
      /\ upstream = [at |-> upstream.at, blocks |-> upstream.blocks]
  BY DEF ConversationKnown, RequestKnown, Running, StreamKnown
<1>2. ASSUME asked' = asked, keeps' = keeps, upstream'.at # "asked",
             upstream'.at # "none" => request' # <<>>,
             request' # <<>> => OpenCalls(chat') = {}
      PROVE  RequestKnown'
  BY <1>1, <1>2 DEF RequestKnown, Running
<1>3. CASE UNCHANGED chatVars
  <2>1. chat' = chat /\ request' = request /\ asked' = asked /\ keeps' = keeps /\ upstream' = upstream
    BY <1>3 DEF chatVars
  <2>2. ASSUME NEW schema
        PROVE  AdaptRequestForGemini(schema)' = AdaptRequestForGemini(schema)
    BY <2>1 DEF AdaptRequestForGemini, Adapted
  <2>3. ASSUME NEW budget, NEW limit, NEW extras
        PROVE  ToAnthropicRequest(budget, limit, extras)' = ToAnthropicRequest(budget, limit, extras)
    BY <2>1 DEF ToAnthropicRequest
  <2>4. upstream.at = "asked" =>
          \/ \E schema \in Schemas : request = AdaptRequestForGemini(schema)
          \/ \E budget \in Budgets \cup {0}, limit \in Limits \cup {0}, extras \in Extras :
                request = ToAnthropicRequest(budget, limit, extras)
    BY DEF ConversationKnown, RequestKnown
  <2>5. upstream'.at = "asked" =>
          \/ \E schema \in Schemas : request' = AdaptRequestForGemini(schema)'
          \/ \E budget \in Budgets \cup {0}, limit \in Limits \cup {0}, extras \in Extras :
                request' = ToAnthropicRequest(budget, limit, extras)'
    BY <2>1, <2>2, <2>3, <2>4
  <2> QED BY <1>1, <2>1, <2>5 DEF RequestKnown, Running
<1>4. CASE Say \/ ToolResult
  <2>1. request = <<>> /\ request' = <<>> /\ upstream' = upstream /\ asked' = asked /\ keeps' = keeps
    BY <1>4 DEF Say, ToolResult, Idle
  <2> QED BY <1>1, <1>2, <2>1
<1>5. CASE Ask
  BY <1>5, RequestAsked
<1>6. ASSUME request' = <<>>, upstream' = Quiet, asked' = asked, keeps' = keeps
      PROVE  RequestKnown'
  BY <1>2, <1>6 DEF Quiet
<1>7. CASE AnswerWhole \/ GeminiAnswers \/ StreamEnds \/ AnswerFails
  BY <1>6, <1>7 DEF AnswerWhole, GeminiAnswers, StreamEnds, AnswerFails, Take, Forget
<1>8. ASSUME request # <<>>, request' \in {request, Spent}, upstream'.at \notin {"asked"},
             asked' = asked, keeps' = keeps, chat' = chat
      PROVE  RequestKnown'
  <2>1. request' # <<>>
    BY <1>8, NotNone DEF Spent
  <2> QED BY <1>1, <1>2, <1>8, <2>1
<1>9. CASE GrowWhole
  <2>1. request # <<>> /\ request' = Spent /\ asked' = asked /\ keeps' = keeps /\ chat' = chat
    BY <1>9 DEF GrowWhole
  <2>2. upstream'.at = "whole"
    BY <1>9 DEF GrowWhole
  <2> QED BY <1>8, <2>1, <2>2
<1>10. CASE MessageStart \/ MessageDelta \/ MessageStop \/ ContentBlockStop
  <2>1. request # <<>> /\ request' \in {request, Spent} /\ asked' = asked /\ keeps' = keeps /\ chat' = chat
    BY <1>10 DEF MessageStart, MessageDelta, MessageStop, ContentBlockStop, Streaming
  <2>2. \E at \in {"between", "stopping", "stopped", "unexplained"} : upstream' = [upstream EXCEPT !.at = at]
    BY <1>10 DEF MessageStart, MessageDelta, MessageStop, ContentBlockStop
  <2>3. upstream'.at # "asked"
    BY <1>1, <2>2
  <2> QED BY <1>8, <2>1, <2>3
<1>11. CASE ContentBlockStart
  <2>1. request # <<>> /\ request' = request /\ asked' = asked /\ keeps' = keeps /\ chat' = chat
    BY <1>11 DEF ContentBlockStart, Streaming
  <2>2. upstream'.at = "open"
    BY <1>11 DEF ContentBlockStart
  <2> QED BY <1>8, <2>1, <2>2
<1>12. CASE ContentBlockDelta \/ SignatureDelta
  <2>1. /\ request # <<>> /\ request' = request /\ asked' = asked /\ keeps' = keeps /\ chat' = chat
        /\ upstream.at = "open"
    BY <1>12 DEF ContentBlockDelta, SignatureDelta, Streaming
  <2>2. \E blocks : upstream' = [upstream EXCEPT !.blocks = blocks]
    <3>1. CASE ContentBlockDelta
      BY <3>1, Zenon DEF ContentBlockDelta
    <3>2. CASE SignatureDelta
      BY <3>2, Zenon DEF SignatureDelta
    <3> QED BY <1>12, <3>1, <3>2
  <2>3. upstream'.at = "open"
    BY <1>1, <2>1, <2>2
  <2> QED BY <1>8, <2>1, <2>3
<1> QED BY <1>3, <1>4, <1>5, <1>7, <1>9, <1>10, <1>11, <1>12 DEF ChatNext, StreamEvent

(* Every step keeps the chat and its answers in order. *)
LEMMA ChatStep ==
  ASSUME ConversationKnown, [ChatNext]_chatVars
  PROVE  ChatKnown' /\ AnswersKnown'
<1>1. /\ ChatGood(chat) /\ chat \in Seq(MessageSet) /\ AnswersKnown /\ AnswersTyped /\ StreamKnown
      /\ Used \in Nat /\ Used + Len(upstream.blocks) <= MaxBlocks
      /\ upstream.blocks \in Seq(BlockSet)
  BY UsedIs DEF ConversationKnown, ChatKnown, ChatGood, AnswersKnown, StreamKnown, Stream
<1>2. Used <= MaxBlocks
  <2> DEFINE u == Used
             n == Len(upstream.blocks)
  <2>1. u \in Nat /\ n \in Nat /\ u + n <= MaxBlocks
    BY <1>1
  <2> HIDE DEF u, n
  <2>2. u <= MaxBlocks
    BY <2>1, ConversationConstants
  <2> QED BY <2>2 DEF u
<1>3. ASSUME chat' = chat, answers' = answers, keeps' = keeps,
             Used + Len(upstream'.blocks) <= MaxBlocks
      PROVE  ChatKnown' /\ AnswersKnown'
  <2>1. ChatKnown'
    BY <1>1, <1>3 DEF ChatKnown
  <2> QED BY <1>1, <1>3, <2>1, AnswersStay
<1>4. ASSUME NEW m, chat' = Append(chat, m), ChatGood(Append(chat, m)),
             answers' = answers, keeps' = keeps, upstream' = upstream
      PROVE  ChatKnown' /\ AnswersKnown'
  <2>1. ChatKnown'
    BY <1>4 DEF ChatKnown
  <2>2. \A k \in DOMAIN chat : k \in DOMAIN chat' /\ chat'[k] = chat[k]
    BY <1>1, <1>4
  <2> QED BY <1>1, <1>4, <2>1, <2>2, AnswersStay
<1>5. CASE Say
  <2>1. /\ chat' = Append(chat, [Message("user") EXCEPT !.text = << 0 >>])
        /\ answers' = answers /\ keeps' = keeps /\ upstream' = upstream
    BY <1>5 DEF Say
  <2>2. ChatGood(Append(chat, [Message("user") EXCEPT !.text = << 0 >>]))
    BY <1>1, SayKeeps
  <2> QED BY <1>4, <2>1, <2>2
<1>6. CASE ToolResult
  <2>1. PICK id \in Unanswered : chat' = Append(chat, [Message("tool") EXCEPT !.of = id])
    BY <1>6 DEF ToolResult
  <2>2. answers' = answers /\ keeps' = keeps /\ upstream' = upstream
    BY <1>6 DEF ToolResult
  <2>3. id \in OpenCalls(chat)
    BY UnansweredIs
  <2>4. ChatGood(Append(chat, [Message("tool") EXCEPT !.of = id]))
    BY <1>1, <2>3, ResultKeeps
  <2> QED BY <1>4, <2>1, <2>2, <2>4
<1>7. ASSUME chat' = chat, answers' = answers, keeps' = keeps, upstream'.blocks = <<>>
      PROVE  ChatKnown' /\ AnswersKnown'
  <2>1. Used + Len(upstream'.blocks) <= MaxBlocks
    BY <1>1, <1>2, <1>7
  <2> QED BY <1>3, <1>7, <2>1
<1>8. CASE Ask
  BY <1>7, <1>8 DEF Ask, Quiet
<1>9. CASE AnswerFails
  BY <1>7, <1>9 DEF AnswerFails, Forget, Quiet
<1>10. CASE StreamEnds /\ ~Complete
  BY <1>7, <1>10 DEF StreamEnds, Forget, Quiet
<1>11. CASE StreamEnds /\ Complete
  BY <1>11, StreamTaken
<1>12. CASE AnswerWhole
  BY <1>12, WholeTaken
<1>13. CASE GeminiAnswers
  BY <1>13, GeminiTaken
<1>14. CASE GrowWhole \/ (StreamEvent /\ ~StreamEnds)
  <2>1. chat' = chat /\ answers' = answers /\ keeps' = keeps
    BY <1>14 DEF GrowWhole, StreamEvent, MessageStart, ContentBlockStart, ContentBlockDelta,
                 SignatureDelta, ContentBlockStop, MessageDelta, MessageStop
  <2>2. Used + Len(upstream'.blocks) <= MaxBlocks
    BY <1>1, <1>2, <1>14, <2>1, BoundKept
  <2> QED BY <1>3, <2>1, <2>2
<1>15. CASE UNCHANGED chatVars
  <2>1. chat' = chat /\ answers' = answers /\ keeps' = keeps /\ upstream' = upstream
    BY <1>15 DEF chatVars
  <2> QED BY <1>1, <1>3, <2>1
<1> QED BY <1>5, <1>6, <1>8, <1>9, <1>10, <1>11, <1>12, <1>13, <1>14, <1>15 DEF ChatNext, StreamEvent

(* Whatever the client says, whichever upstream answers and wherever an     *)
(* answer is cut: the chat is one either translation can carry on with     *)
(* (toAnthropicRequest, adaptRequestForGemini), every answer it contains is *)
(* the one the upstream gave, and the stream's translator and its client   *)
(* know of every block what has come of it (AnthropicStreamTranslator).    *)
THEOREM ConversationInvariant == ChatSpec => []ConversationKnown
<1>1. ChatInit => ConversationKnown
  BY ConversationStarts
<1>2. ConversationKnown /\ [ChatNext]_chatVars => ConversationKnown'
  <2> SUFFICES ASSUME ConversationKnown, [ChatNext]_chatVars PROVE ConversationKnown'
    OBVIOUS
  <2>1. ChatKnown' /\ AnswersKnown'
    BY ChatStep
  <2>2. RequestKnown'
    BY RequestStep
  <2>3. StreamKnown'
    BY StreamStep DEF ConversationKnown, AnswersKnown, RequestKnown
  <2> QED BY <2>1, <2>2, <2>3 DEF ConversationKnown
<1> QED BY <1>1, <1>2, PTL DEF ChatSpec

(* A stream that ends with its stop reason gives the client the text, the  *)
(* thinking, the details and the calls of the same message in one piece,   *)
(* and none that was cut passes for complete: AnthropicStreamTranslator    *)
(* against fromAnthropicMessage.                                           *)
THEOREM StreamIsWholeHolds == ChatSpec => []StreamIsWhole
<1>1. ConversationKnown => StreamIsWhole
  BY StreamImplies DEF ConversationKnown
<1> QED BY <1>1, ConversationInvariant, PTL

(* A request for Anthropic while it is asked. *)
LEMMA AskedAnthropic ==
  ASSUME ConversationKnown, upstream.at = "asked", request.to = "anthropic"
  PROVE  \E budget \in Budgets \cup {0}, limit \in Limits \cup {0}, extras \in Extras :
            request = ToAnthropicRequest(budget, limit, extras)
<1>1. \A schema : AdaptRequestForGemini(schema).to = "gemini"
  BY DEF AdaptRequestForGemini
<1> QED BY <1>1 DEF ConversationKnown, RequestKnown

(* The turn of an answer is in the request. *)
LEMMA EchoImplied ==
  ASSUME ConversationKnown
  PROVE  EchoIsExact
<1> SUFFICES ASSUME upstream.at = "asked", request.to = "anthropic",
                    NEW a \in Range(answers), a.message # 0, Expected(a.blocks) # <<>>
             PROVE  \E i \in DOMAIN request.messages : request.messages[i].content = Expected(a.blocks)
  BY DEF EchoIsExact, Expected
<1>1. request.messages = Turns(chat)
  BY AskedAnthropic DEF ToAnthropicRequest
<1>2. PICK k \in DOMAIN answers : a = answers[k]
  BY DEF Range
<1>3. Kept(a, chat)
  BY <1>2 DEF ConversationKnown, AnswersKnown
<1>4. Echoed(chat, Turns(chat))
  BY DEF ConversationKnown, ChatKnown, ChatGood
<1> QED BY <1>1, <1>3, <1>4 DEF Kept, Echoed

(* Every answer an Anthropic upstream gave comes back to it as the very     *)
(* blocks it sent, without the thinking if the client keeps no details:    *)
(* toAnthropicRequest undoes fromAnthropicMessage and the stream.          *)
THEOREM EchoIsExactHolds == ChatSpec => []EchoIsExact
<1>1. ConversationKnown => EchoIsExact
  BY EchoImplied
<1> QED BY <1>1, ConversationInvariant, PTL

-----------------------------------------------------------------------------
(* What the upstreams accept.                                              *)
LEMMA TypesKnown ==
  ASSUME ConversationKnown
  PROVE  ConversationTypeOK
<1>1. keeps \in BOOLEAN /\ asked \in 0 .. MaxRequests /\ upstream.at \in Places
  BY DEF ConversationKnown, RequestKnown, StreamKnown, Stream
<1>2. \A i \in DOMAIN chat : chat[i].role \in {"user", "assistant", "tool"}
  <2>1. chat \in Seq(MessageSet)
    BY DEF ConversationKnown, ChatKnown, ChatGood
  <2>2. \A i \in DOMAIN chat : chat[i] \in MessageSet
    BY <2>1
  <2> QED BY <2>2 DEF MessageSet
<1>3. DOMAIN got.calls \subseteq 0 .. MaxBlocks
  <2>1. Stream(upstream.at, upstream.blocks, translator, got)
    BY DEF ConversationKnown, StreamKnown
  <2>2. CASE upstream.at \notin Streamed
    <3>1. DOMAIN got.calls = {}
      BY <2>1, <2>2 DEF Stream, Nothing
    <3> QED BY <3>1
  <2>3. CASE upstream.at \in Streamed
    <3> DEFINE k == Len(ToolUses(upstream.blocks))
               n == Len(upstream.blocks)
               u == Used
    <3>1. /\ DOMAIN got.calls = 0 .. k - 1 /\ k <= n
          /\ upstream.blocks \in Seq(BlockSet)
      BY <2>1, <2>3 DEF Stream, GotKnown, CallsKnown
    <3>2. u + n <= MaxBlocks /\ u \in Nat
      BY UsedIs DEF ConversationKnown, AnswersKnown
    <3>3. k \in Nat /\ n \in Nat
      <4>1. ToolUses(upstream.blocks) \in Seq(BlockSet)
        BY <3>1, KindsAreFunctions, ToolUsesAre, CollectedParts, FlattenType DEF Collected
      <4> QED BY <3>1, <4>1
    <3> HIDE DEF k, n, u
    <3>4. k - 1 <= MaxBlocks
      BY <3>1, <3>2, <3>3, ConversationConstants
    <3> QED BY <3>1, <3>3, <3>4, ConversationConstants
  <2> QED BY <2>2, <2>3
<1> QED BY <1>1, <1>2, <1>3 DEF ConversationTypeOK, Places

(* The budget that is sent fits. *)
LEMMA BudgetFits ==
  ASSUME NEW budget \in Nat, NEW tokens \in Nat \ {0}, NEW turns,
         ThinkingBudget(budget, tokens, turns) # 0
  PROVE  /\ ThinkingBudget(budget, tokens, turns) \in MinBudget .. tokens - 1
         /\ ~LoopWithoutThinking(turns)
<1> DEFINE atLeast == IF budget < MinBudget THEN MinBudget ELSE budget
           below == IF atLeast >= tokens THEN tokens - 1 ELSE atLeast
<1>1. MinBudget \in Nat
  BY ConversationConstants
<1>2. ThinkingBudget(budget, tokens, turns) =
        IF budget = 0 \/ LoopWithoutThinking(turns) \/ below < MinBudget THEN 0 ELSE below
  BY DEF ThinkingBudget
<1>3. ~LoopWithoutThinking(turns) /\ ~ (below < MinBudget) /\ ThinkingBudget(budget, tokens, turns) = below
  BY <1>2
<1>4. below \in Int /\ below <= tokens - 1
  BY <1>1
<1> HIDE DEF below
<1> QED BY <1>1, <1>3, <1>4

(* max_tokens is always sent. *)
LEMMA TokensAre ==
  ASSUME NEW limit \in Limits \cup {0}
  PROVE  MaxTokens(limit) \in Nat \ {0}
  BY ConversationConstants DEF MaxTokens

(* Turns whose uses are all answered, one by one. *)
LEMMA TurnUses ==
  ASSUME NEW t
  PROVE  /\ {b.id : b \in {x \in Range(t.content) : IsToolUse(x)}} = UsesOf(t)
         /\ {b.id : b \in {x \in Range(t.content) : IsResult(x)}} = ResultsOf(t)
         /\ {x \in Range(t.content) : IsToolUse(x)} # {} => UsesOf(t) # {}
<1>1. ASSUME NEW id
      PROVE  /\ id \in {b.id : b \in {x \in Range(t.content) : IsToolUse(x)}} <=> id \in UsesOf(t)
             /\ id \in {b.id : b \in {x \in Range(t.content) : IsResult(x)}} <=> id \in ResultsOf(t)
  BY DEF Range, UsesOf, ResultsOf
<1>2. {b.id : b \in {x \in Range(t.content) : IsToolUse(x)}} = UsesOf(t)
  BY <1>1
<1>3. {b.id : b \in {x \in Range(t.content) : IsResult(x)}} = ResultsOf(t)
  BY <1>1
<1>4. {x \in Range(t.content) : IsToolUse(x)} # {} => UsesOf(t) # {}
  BY <1>2
<1> QED BY <1>2, <1>3, <1>4

(* A turn that uses tools stands in front of the results, or the loop is *)
(* without thinking. *)
LEMMA LoopThinks ==
  ASSUME NEW T, GoodTurns(T, {}), ~LoopWithoutThinking(T),
         Len(T) > 1, UsesOf(T[Len(T) - 1]) # {}
  PROVE  IsThinking(T[Len(T) - 1].content[1])
<1> DEFINE n == Len(T)
           p == n - 1
           spoken == {i \in DOMAIN T : T[i].role = "assistant"}
<1>1. /\ T \in Seq(TurnSet) /\ n \in Nat /\ DOMAIN T = 1 .. n
      /\ \A i \in 1 .. n : GoodTurn(T[i]) /\ T[i] \in TurnSet
      /\ AnsweredUses(T, {})
  BY DEF GoodTurns
<1>2. p \in 1 .. n /\ p < n /\ n \in 1 .. n /\ p + 1 = n /\ n \in Nat /\ n # 0
  BY <1>1
<1> HIDE DEF n, p
<1>3. UsesOf(T[p]) # {} /\ T # <<>> /\ Last(T) = T[n]
  BY <1>1, <1>2 DEF n, p, Last
<1>4. T[p].role = "assistant"
  BY <1>1, <1>2, <1>3 DEF GoodTurn, TurnSet
<1>5. PICK id \in UsesOf(T[p]) : id \in ResultsOf(T[n])
  BY <1>1, <1>2, <1>3 DEF AnsweredUses, n
<1>6. T[n].role = "user"
  BY <1>1, <1>2, <1>5 DEF GoodTurn, TurnSet
<1>7. Max(spoken) = p /\ spoken # {}
  <2>1. spoken \subseteq 0 .. n /\ p \in spoken
    BY <1>1, <1>2, <1>4
  <2>2. n \notin spoken
    BY <1>6
  <2> HIDE DEF spoken
  <2>3. Max(spoken) \in spoken /\ \A i \in spoken : i <= Max(spoken)
    BY <1>2, <2>1, MaxIs
  <2> DEFINE x == Max(spoken)
  <2>4. x \in 0 .. n /\ x # n /\ p <= x
    BY <2>1, <2>2, <2>3
  <2> HIDE DEF x
  <2>5. x = p
    BY <1>2, <2>4
  <2> QED BY <2>1, <2>5 DEF x
<1>8. \E i \in DOMAIN T[p].content : IsToolUse(T[p].content[i])
  BY <1>5, UsesAre
<1>9. \E i \in DOMAIN T[n].content : IsResult(T[n].content[i])
  BY <1>5, UsesAre
<1>10. T[Max(spoken)].content = T[p].content
  BY <1>7
<1> QED BY <1>3, <1>6, <1>7, <1>8, <1>9, <1>10 DEF LoopWithoutThinking, p, n

(* Turns in order, with all uses answered, are accepted. *)
LEMMA AnthropicAccepted ==
  ASSUME NEW T, GoodTurns(T, {}), NEW budget \in Nat, NEW tokens \in Nat \ {0}, NEW r,
         r.messages = T, r.maxTokens = tokens, r.thinking = ThinkingBudget(budget, tokens, T),
         r.sampling <=> r.thinking = 0, r.extras = {}
  PROVE  AnthropicAccepts(r)
<1> DEFINE turn(i) == r.messages[i].content
           uses(i) == {b \in Range(turn(i)) : IsToolUse(b)}
           results(i) == {b.id : b \in {x \in Range(turn(i)) : IsResult(x)}}
           last == Len(r.messages)
<1>1. /\ T \in Seq(TurnSet) /\ DOMAIN T = 1 .. last /\ last \in Nat
      /\ \A i \in DOMAIN T : GoodTurn(T[i])
      /\ \A i \in 1 .. last - 1 : ~ (T[i].role = "user" /\ T[i + 1].role = "user")
      /\ AnsweredUses(T, {})
  BY DEF GoodTurns
<1>2. \A i \in DOMAIN r.messages : turn(i) # <<>>
  BY <1>1 DEF GoodTurn
<1>3. \A i \in 1 .. last - 1 : ~(r.messages[i].role = "user" /\ r.messages[i + 1].role = "user")
  BY <1>1
<1>4. \A i \in DOMAIN r.messages : \A j, k \in DOMAIN turn(i) :
             j < k /\ IsResult(turn(i)[k]) => IsResult(turn(i)[j])
  BY <1>1 DEF GoodTurn
<1>5. \A i \in DOMAIN r.messages : uses(i) # {} =>
             i < last /\ {b.id : b \in uses(i)} \subseteq results(i + 1)
  <2> SUFFICES ASSUME NEW i \in DOMAIN T, uses(i) # {}
               PROVE  i < last /\ {b.id : b \in uses(i)} \subseteq results(i + 1)
    OBVIOUS
  <2>1. {b.id : b \in uses(i)} = UsesOf(T[i]) /\ UsesOf(T[i]) # {}
    BY TurnUses
  <2>2. results(i + 1) = ResultsOf(T[i + 1])
    BY TurnUses
  <2>3. i < last /\ \A id \in UsesOf(T[i]) : id \in ResultsOf(T[i + 1])
    BY <1>1, <2>1 DEF AnsweredUses
  <2> QED BY <2>1, <2>2, <2>3
<1>6. ASSUME r.thinking # 0
      PROVE  /\ r.thinking \in MinBudget .. r.maxTokens - 1
             /\ ~r.sampling /\ r.extras = {}
             /\ last > 1 /\ uses(last - 1) # {} => IsThinking(turn(last - 1)[1])
  <2>1. r.thinking \in MinBudget .. tokens - 1 /\ ~LoopWithoutThinking(T)
    BY <1>6, BudgetFits
  <2>2. ASSUME last > 1, uses(last - 1) # {} PROVE IsThinking(turn(last - 1)[1])
    <3>1. UsesOf(T[Len(T) - 1]) # {}
      BY <2>2, TurnUses
    <3> QED BY <2>1, <2>2, <3>1, LoopThinks
  <2> QED BY <1>6, <2>1, <2>2
<1> QED BY <1>2, <1>3, <1>4, <1>5, <1>6 DEF AnthropicAccepts

(* The function behind a result is the one of its call. *)
LEMMA NameIsCalled ==
  ASSUME ChatGood(chat), NEW i \in DOMAIN chat, chat[i].role = "tool"
  PROVE  \E j \in 1 .. i - 1 :
            /\ \E k \in DOMAIN chat[j].calls :
                  /\ chat[j].calls[k].id = chat[i].of
                  /\ chat[j].calls[k].fn = NameOf(SubSeq(chat, 1, i - 1), chat[i].of)
            /\ \A h \in j + 1 .. i - 1 : chat[h].role # "assistant"
<1> DEFINE before == SubSeq(chat, 1, i - 1)
           id == chat[i].of
           uses(j) == {k \in DOMAIN before[j].calls : before[j].calls[k].id = id}
           users == {j \in DOMAIN before : uses(j) # {}}
<1>1. /\ chat \in Seq(MessageSet) /\ ResultsBelong(chat) /\ \A j \in DOMAIN chat : Written(chat[j])
  BY DEF ChatGood
<1>2. PICK j0 \in 1 .. i - 1 :
          /\ \E k \in DOMAIN chat[j0].calls : chat[j0].calls[k].id = id
          /\ \A h \in j0 + 1 .. i - 1 : chat[h].role # "assistant"
  BY <1>1 DEF ResultsBelong
<1>3. /\ i \in Nat /\ i - 1 \in Nat /\ DOMAIN before = 1 .. i - 1
      /\ \A j \in 1 .. i - 1 : before[j] = chat[j] /\ j \in DOMAIN chat
  BY <1>1
<1> HIDE DEF before
<1>4. j0 \in users /\ users \subseteq 0 .. i - 1
  BY <1>2, <1>3
<1> DEFINE last == Max(users)
<1>5. last \in users /\ \A j \in users : j <= last
  <2> HIDE DEF users
  <2> QED BY <1>3, <1>4, MaxIs
<1>6. last \in 1 .. i - 1 /\ j0 <= last /\ uses(last) # {}
  BY <1>3, <1>4, <1>5
<1> HIDE DEF last
<1>7. uses(last) \subseteq 0 .. Len(chat[last].calls) /\ Len(chat[last].calls) \in Nat
      /\ before[last] = chat[last]
  <2>1. chat[last] \in MessageSet /\ before[last] = chat[last]
    BY <1>1, <1>3, <1>6
  <2> DEFINE c == chat[last].calls
  <2>2. c \in Seq(CallSet)
    BY <2>1 DEF MessageSet
  <2> HIDE DEF c
  <2>3. Len(c) \in Nat /\ DOMAIN c = 1 .. Len(c)
    BY <2>2
  <2>4. uses(last) \subseteq DOMAIN c
    BY <2>1 DEF c
  <2> QED BY <2>1, <2>3, <2>4 DEF c
<1> DEFINE its == uses(last)
           k == Max(its)
<1>8. k \in its
  <2> HIDE DEF its
  <2> QED BY <1>6, <1>7, MaxIs DEF its
<1>9. k \in DOMAIN chat[last].calls /\ chat[last].calls[k].id = id
  <2> HIDE DEF k
  <2> QED BY <1>7, <1>8
<1>10. NameOf(before, id) = chat[last].calls[k].fn
  <2>1. users # {}
    BY <1>4
  <2> QED BY <1>7, <2>1 DEF NameOf, last
<1>11. \A h \in last + 1 .. i - 1 : chat[h].role # "assistant"
  <2> SUFFICES ASSUME NEW h \in last + 1 .. i - 1 PROVE chat[h].role # "assistant"
    OBVIOUS
  <2>1. h \in j0 + 1 .. i - 1
    BY <1>3, <1>6, <1>2
  <2> QED BY <1>2, <2>1
<1> HIDE DEF k, its
<1> QED BY <1>6, <1>9, <1>10, <1>11 DEF before

(* Calls that go to Gemini bear a signature. *)
LEMMA SignedCalls ==
  ASSUME NEW m \in MessageSet, m.calls # <<>>
  PROVE  /\ \E k \in DOMAIN WithSignature(m).calls : WithSignature(m).calls[k].signed
         /\ WithSignature(m).role = m.role
<1>1. CASE \E i \in DOMAIN m.calls : HasSignature(m.calls[i])
  BY <1>1 DEF WithSignature, HasSignature
<1>2. CASE ~ \E i \in DOMAIN m.calls : HasSignature(m.calls[i])
  <2> DEFINE yes == TRUE
             c == m.calls
             new == [c EXCEPT ![1].signed = yes]
  <2>1. WithSignature(m) = [m EXCEPT !.calls[1].signed = yes]
    BY <1>2 DEF WithSignature
  <2>2. c \in Seq(CallSet) /\ c # <<>>
    BY DEF MessageSet
  <2>3. 1 \in DOMAIN c /\ c[1] \in CallSet
    <3> HIDE DEF c
    <3> QED BY <2>2
  <2>4. yes
    OBVIOUS
  <2> HIDE DEF yes
  <2>5. 1 \in DOMAIN new /\ new[1].signed = yes
    <3> HIDE DEF c
    <3>1. new[1] = [c[1] EXCEPT !.signed = yes] /\ 1 \in DOMAIN new
      BY <2>3
    <3>2. [c[1] EXCEPT !.signed = yes].signed = yes
      BY <2>3 DEF CallSet
    <3> QED BY <3>1, <3>2
  <2>6. [m EXCEPT !.calls[1].signed = yes].calls = new /\ [m EXCEPT !.calls[1].signed = yes].role = m.role
    BY DEF MessageSet
  <2> HIDE DEF new
  <2> QED BY <2>1, <2>4, <2>5, <2>6
<1> QED BY <1>1, <1>2

(* What is stripped is gone, at every depth, and an object keeps a property. *)
LEMMA ParametersCleaned ==
  ASSUME NEW schema
  PROVE  ParametersClean(SanitizeSchema(schema))
<1> DEFINE cleaned == {path \in schema : Range(path) \cap Unknown = {}}
           properties == {path \in cleaned : Len(path) = 2 /\ path[1] = "properties"}
<1>1. \A path \in cleaned : Range(path) \cap Unknown = {}
  OBVIOUS
<1>2. \A path \in properties : path \in cleaned /\ Len(path) = 2 /\ path[1] = "properties"
  OBVIOUS
<1>3. SanitizeSchema(schema) = IF <<"type", "object">> \in cleaned /\ properties = {} THEN {} ELSE cleaned
  BY DEF SanitizeSchema
<1> HIDE DEF cleaned, properties
<1>4. CASE <<"type", "object">> \in cleaned /\ properties = {}
  BY <1>3, <1>4 DEF ParametersClean
<1>5. CASE ~(<<"type", "object">> \in cleaned /\ properties = {})
  BY <1>1, <1>2, <1>3, <1>5 DEF ParametersClean
<1> QED BY <1>4, <1>5

(* A chat in order is accepted by Gemini. *)
LEMMA GeminiAccepted ==
  ASSUME ChatGood(chat), NEW schema
  PROVE  GeminiAccepts(AdaptRequestForGemini(schema))
<1> DEFINE r == AdaptRequestForGemini(schema)
<1>1. DOMAIN r.messages = DOMAIN chat /\ \A i \in DOMAIN chat : r.messages[i] = Adapted(i)
  BY DEF AdaptRequestForGemini
<1>2. ASSUME NEW i \in DOMAIN chat
      PROVE  /\ Adapted(i).calls # <<>> => \E k \in DOMAIN Adapted(i).calls : Adapted(i).calls[k].signed
             /\ Adapted(i).role = "tool" =>
                  \E j \in 1 .. i - 1 :
                     /\ \E k \in DOMAIN chat[j].calls :
                           /\ chat[j].calls[k].id = Adapted(i).of
                           /\ chat[j].calls[k].fn = Adapted(i).name
                     /\ \A h \in j + 1 .. i - 1 : chat[h].role # "assistant"
  <2>1. Written(chat[i]) /\ chat[i] \in MessageSet /\ chat[i].name = NoFunction
    BY DEF ChatGood, Written
  <2>2. CASE chat[i].role = "tool"
    <3> DEFINE name == NameOf(SubSeq(chat, 1, i - 1), chat[i].of)
    <3>1. Adapted(i) = [chat[i] EXCEPT !.name = name]
      BY <2>1, <2>2 DEF Adapted
    <3>2. chat[i].calls = <<>>
      BY <2>1, <2>2 DEF Written
    <3>3. \E j \in 1 .. i - 1 :
            /\ \E k \in DOMAIN chat[j].calls :
                  chat[j].calls[k].id = chat[i].of /\ chat[j].calls[k].fn = name
            /\ \A h \in j + 1 .. i - 1 : chat[h].role # "assistant"
      BY <2>2, NameIsCalled
    <3> HIDE DEF name
    <3>4. Adapted(i).calls = <<>> /\ Adapted(i).of = chat[i].of /\ Adapted(i).name = name
      BY <2>1, <3>1, <3>2 DEF MessageSet
    <3> QED BY <3>3, <3>4
  <2>3. CASE chat[i].role # "tool"
    <3>1. Adapted(i) = WithSignature(chat[i])
      BY <2>3 DEF Adapted
    <3>2. CASE chat[i].calls = <<>>
      <4>1. Adapted(i) = chat[i]
        BY <3>1, <3>2 DEF WithSignature
      <4> QED BY <2>3, <3>2, <4>1
    <3>3. CASE chat[i].calls # <<>>
      BY <2>1, <2>3, <3>1, <3>3, SignedCalls
    <3> QED BY <3>2, <3>3
  <2> QED BY <2>2, <2>3
<1>3. r.parameters = SanitizeSchema(schema)
  BY DEF AdaptRequestForGemini
<1> HIDE DEF r
<1> QED BY <1>1, <1>2, <1>3, ParametersCleaned DEF GeminiAccepts, r

(* Both upstreams accept what is asked, but for what the client has beside. *)
LEMMA AcceptedImplied ==
  ASSUME ConversationKnown
  PROVE  RequestsAccepted
<1>1. ConversationTypeOK
  BY TypesKnown
<1>2. ASSUME upstream.at = "asked"
      PROVE  IF request.to = "anthropic" THEN AnthropicAccepts([request EXCEPT !.extras = {}])
             ELSE GeminiAccepts(request)
  <2>1. ChatGood(chat) /\ OpenCalls(chat) = {}
    BY <1>2 DEF ConversationKnown, ChatKnown, RequestKnown, Running
  <2>2. CASE request.to = "anthropic"
    <3>1. PICK budget \in Budgets \cup {0}, limit \in Limits \cup {0}, extras \in Extras :
             request = ToAnthropicRequest(budget, limit, extras)
      BY <1>2, <2>2, AskedAnthropic
    <3> DEFINE T == Turns(chat)
               tokens == MaxTokens(limit)
               thinking == ThinkingBudget(budget, tokens, T)
               bare == [request EXCEPT !.extras = {}]
    <3>2. GoodTurns(T, {})
      BY <2>1 DEF ChatGood
    <3>3. budget \in Nat /\ tokens \in Nat \ {0}
      BY ConversationConstants, TokensAre
    <3>4. /\ bare.messages = T /\ bare.maxTokens = tokens /\ bare.thinking = thinking
          /\ bare.sampling <=> bare.thinking = 0
          /\ bare.extras = {}
      BY <3>1 DEF ToAnthropicRequest
    <3> HIDE DEF T, tokens, bare
    <3>5. AnthropicAccepts(bare)
      BY <3>2, <3>3, <3>4, AnthropicAccepted
    <3> QED BY <2>2, <3>5 DEF bare
  <2>3. CASE request.to # "anthropic"
    <3>1. \A budget, limit, extras : ToAnthropicRequest(budget, limit, extras).to = "anthropic"
      BY DEF ToAnthropicRequest
    <3>2. PICK schema \in Schemas : request = AdaptRequestForGemini(schema)
      BY <1>2, <2>3, <3>1 DEF ConversationKnown, RequestKnown
    <3> QED BY <2>1, <2>3, <3>2, GeminiAccepted
  <2> QED BY <2>2, <2>3
<1> QED BY <1>1, <1>2 DEF RequestsAccepted

(* Every request the hub makes of the chat keeps the rules of the two       *)
(* upstreams, whatever the chat has been through: turns that are not empty, *)
(* users never twice in a row, results first and behind the uses they       *)
(* answer, thinking only with a budget that fits, without temperature and   *)
(* top_p and never in a tool loop without it (toAnthropicRequest); a        *)
(* signature with every answer's calls, the function's name with every      *)
(* result, no key of a schema that Gemini does not know, no object without  *)
(* properties at its top (adaptRequestForGemini).  Two things are not said, *)
(* because the code sends them as the client has them: a top_k or a forced  *)
(* tool beside thinking, and an empty object deeper in a schema.            *)
THEOREM RequestsAcceptedHolds == ChatSpec => []RequestsAccepted
<1>1. ConversationKnown => RequestsAccepted
  BY AcceptedImplied
<1> QED BY <1>1, ConversationInvariant, PTL
=============================================================================
