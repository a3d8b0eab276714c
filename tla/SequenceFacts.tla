---------------------------- MODULE SequenceFacts ----------------------------
(***************************************************************************)
(* Facts the proofs need about the operators the models keep their lines   *)
(* with: what InsertAt, RemoveAt and FlattenSeq of SequencesExt return,    *)
(* and that a set of numbers has a least element, and a bounded one a      *)
(* greatest.                                                               *)
(***************************************************************************)
EXTENDS SequencesExt, SequenceTheorems, WellFoundedInduction, Integers, TLAPS

(* A nonempty set of numbers has a least element. *)
LEMMA LeastExists ==
  ASSUME NEW D \in SUBSET Nat, D # {}
  PROVE  \E m \in D : \A i \in D : m <= i
<1> DEFINE R == {ss \in Nat \X Nat : ss[1] < ss[2]}
<1>1. IsWellFoundedOn(R, Nat)
  BY NatLessThanWellFounded, Zenon DEF OpToRel
<1>2. PICK m \in D : \A i \in D : ~ (<<i, m>> \in R)
  <2> HIDE DEF R
  <2> QED BY <1>1, WFMin
<1>3. ASSUME NEW i \in D, i < m
      PROVE  FALSE
  <2>1. <<i, m>> \in R
    BY <1>3
  <2> QED BY <2>1, <1>2
<1> QED BY <1>3

(* A nonempty set of numbers up to n has a greatest element. *)
LEMMA GreatestExists ==
  ASSUME NEW n \in Nat, NEW D \in SUBSET (0..n), D # {}
  PROVE  \E m \in D : \A i \in D : i <= m
<1> DEFINE T == {u \in Nat : n - u \in D}
<1>1. T \subseteq Nat /\ T # {}
  <2>1. PICK d \in D : d \in 0..n
    OBVIOUS
  <2>2. n - (n - d) = d /\ n - d \in Nat
    BY <2>1
  <2> QED BY <2>1, <2>2
<1>2. PICK t \in T : \A u \in T : t <= u
  <2> HIDE DEF T
  <2> QED BY <1>1, LeastExists
<1>3. n - t \in D
  BY <1>2
<1>4. \A i \in D : i <= n - t
  <2> SUFFICES ASSUME NEW i \in D PROVE i <= n - t
    OBVIOUS
  <2>1. n - (n - i) = i /\ n - i \in Nat
    OBVIOUS
  <2> QED BY <2>1, <1>2
<1> QED BY <1>3, <1>4

(* splice(n - 1, 0, e): e becomes element n, the rest moves one back. *)
LEMMA InsertAtProperties ==
  ASSUME NEW S, NEW s \in Seq(S), NEW e \in S, NEW n \in 1..(Len(s) + 1)
  PROVE  /\ InsertAt(s, n, e) \in Seq(S)
         /\ Len(InsertAt(s, n, e)) = Len(s) + 1
         /\ \A i \in 1..(n - 1) : InsertAt(s, n, e)[i] = s[i]
         /\ InsertAt(s, n, e)[n] = e
         /\ \A i \in (n + 1)..(Len(s) + 1) : InsertAt(s, n, e)[i] = s[i - 1]
<1> DEFINE k == n - 1
<1> DEFINE a == SubSeq(s, 1, k)
           b == SubSeq(s, k + 1, Len(s))
           c == a \o <<e>>
<1>1. Len(s) \in Nat /\ k \in Nat /\ k + 1 = n /\ k + 2 = n + 1 /\ k <= Len(s) /\ n \in Nat
  OBVIOUS
<1>2. /\ a \in Seq(S) /\ Len(a) = k
      /\ \A i \in 1..k : a[i] = s[i]
  BY <1>1
<1>3. /\ b \in Seq(S) /\ Len(b) = Len(s) - k
      /\ \A i \in 1..(Len(s) - k) : b[i] = s[i + k]
  BY <1>1
<1>4. InsertAt(s, n, e) = c \o b
  BY <1>1 DEF InsertAt
<1> HIDE DEF k
<1> HIDE DEF a, b
<1>5. c = Append(a, e)
  BY <1>2, AppendIsConcat
<1> HIDE DEF c
<1>6. c \in Seq(S) /\ Len(c) = k + 1 /\ c[k + 1] = e
  BY <1>2, <1>5, AppendProperties
<1>7. \A i \in 1..k : c[i] = s[i]
  BY <1>2, <1>5, AppendProperties
<1>8. /\ c \o b \in Seq(S)
      /\ Len(c \o b) = Len(c) + Len(b)
      /\ \A i \in 1..(Len(c) + Len(b)) : (c \o b)[i] = IF i <= Len(c) THEN c[i] ELSE b[i - Len(c)]
  BY <1>3, <1>6, ConcatProperties
<1>9. Len(c) + Len(b) = Len(s) + 1 /\ Len(c \o b) = Len(s) + 1 /\ c \o b \in Seq(S)
  BY <1>1, <1>3, <1>6, <1>8
<1>10. ASSUME NEW i \in 1..k PROVE (c \o b)[i] = s[i]
  BY <1>1, <1>6, <1>7, <1>8, <1>9
<1>11. (c \o b)[k + 1] = e
  BY <1>1, <1>6, <1>8, <1>9
<1>12. ASSUME NEW i \in (k + 2)..(Len(s) + 1) PROVE (c \o b)[i] = s[i - 1]
  <2>1. i - (k + 1) \in 1..(Len(s) - k) /\ (i - (k + 1)) + k = i - 1
    BY <1>1
  <2>2. (c \o b)[i] = b[i - (k + 1)]
    BY <1>1, <1>6, <1>8, <1>9
  <2> QED BY <2>1, <2>2, <1>3
<1> QED BY <1>1, <1>4, <1>9, <1>10, <1>11, <1>12 DEF k

(* shift(): the first element goes. *)
LEMMA DropFirstProperties ==
  ASSUME NEW S, NEW s \in Seq(S), Len(s) >= 1
  PROVE  /\ SubSeq(s, 2, Len(s)) \in Seq(S)
         /\ Len(SubSeq(s, 2, Len(s))) = Len(s) - 1
         /\ \A i \in 1..(Len(s) - 1) : SubSeq(s, 2, Len(s))[i] = s[i + 1]
<1>1. Len(s) \in Nat
  OBVIOUS
<1> QED BY <1>1

(* splice(k - 1, 1): element k goes, the rest moves one forward. *)
LEMMA RemoveAtProperties ==
  ASSUME NEW S, NEW s \in Seq(S), NEW k \in 1..Len(s)
  PROVE  /\ RemoveAt(s, k) \in Seq(S)
         /\ Len(RemoveAt(s, k)) = Len(s) - 1
         /\ \A i \in 1..(Len(s) - 1) :
              RemoveAt(s, k)[i] = IF i < k THEN s[i] ELSE s[i + 1]
<1> DEFINE a == SubSeq(s, 1, k - 1)
           b == SubSeq(s, k + 1, Len(s))
<1>1. Len(s) \in Nat /\ k \in Nat /\ k >= 1 /\ k <= Len(s)
  OBVIOUS
<1>2. /\ a \in Seq(S) /\ Len(a) = k - 1
      /\ \A i \in 1..(k - 1) : a[i] = s[i]
  BY <1>1
<1>3. /\ b \in Seq(S) /\ Len(b) = Len(s) - k
      /\ \A i \in 1..(Len(s) - k) : b[i] = s[i + k]
  BY <1>1
<1>4. RemoveAt(s, k) = a \o b
  BY DEF RemoveAt
<1> HIDE DEF a, b
<1>5. /\ a \o b \in Seq(S) /\ Len(a \o b) = Len(a) + Len(b)
      /\ \A i \in 1..(Len(a) + Len(b)) : (a \o b)[i] = IF i <= Len(a) THEN a[i] ELSE b[i - Len(a)]
  BY <1>2, <1>3, ConcatProperties
<1>6. ASSUME NEW i \in 1..(Len(s) - 1)
      PROVE  (a \o b)[i] = IF i < k THEN s[i] ELSE s[i + 1]
  <2>1. CASE i < k
    BY <2>1, <1>1, <1>2, <1>3, <1>5
  <2>2. CASE ~ (i < k)
    <3>1. i - (k - 1) \in 1..(Len(s) - k) /\ (i - (k - 1)) + k = i + 1
      BY <2>2, <1>1
    <3>2. (a \o b)[i] = b[i - (k - 1)]
      BY <2>2, <1>1, <1>2, <1>3, <1>5
    <3> QED BY <3>1, <3>2, <2>2, <1>3
  <2> QED BY <2>1, <2>2
<1> QED BY <1>1, <1>2, <1>3, <1>4, <1>5, <1>6

-----------------------------------------------------------------------------
(* Lines without repetition: who stands in them, and before whom.          *)
Stands(s, q) == \E i \in 1..Len(s) : s[i] = q
StandsBefore(s, q, r) == \E i, j \in 1..Len(s) : i < j /\ s[i] = q /\ s[j] = r
NoRepeats(s) == \A i, j \in 1..Len(s) : s[i] = s[j] => i = j

(* Element k goes: the others keep their order. *)
LEMMA LineWithoutOne ==
  ASSUME NEW S, NEW s \in Seq(S), NEW t \in Seq(S), NEW k \in 1..Len(s), NoRepeats(s),
         Len(t) = Len(s) - 1,
         \A i \in 1..(Len(s) - 1) : t[i] = IF i < k THEN s[i] ELSE s[i + 1]
  PROVE  /\ NoRepeats(t)
         /\ \A q : Stands(t, q) <=> Stands(s, q) /\ q # s[k]
         /\ \A q, r : StandsBefore(t, q, r) <=> StandsBefore(s, q, r) /\ q # s[k] /\ r # s[k]
<1> DEFINE n == Len(s)
           was(i) == IF i < k THEN i ELSE i + 1
           now(j) == IF j < k THEN j ELSE j - 1
<1>1. n \in Nat /\ k \in 1..n /\ Len(t) = n - 1
  OBVIOUS
<1>2. \A i \in 1..Len(t) : was(i) \in 1..n /\ was(i) # k /\ t[i] = s[was(i)]
  BY <1>1
<1>3. \A i, j \in 1..Len(t) : (i < j <=> was(i) < was(j)) /\ (was(i) = was(j) => i = j)
  BY <1>1
<1>4. \A j \in 1..n : j # k => now(j) \in 1..Len(t) /\ was(now(j)) = j
  BY <1>1
<1>5. \A i \in 1..n : s[i] = s[k] => i = k
  BY <1>1 DEF NoRepeats
<1> HIDE DEF was, now
<1>6. NoRepeats(t)
  BY <1>2, <1>3 DEF NoRepeats
<1>7. ASSUME NEW q
      PROVE  Stands(t, q) <=> Stands(s, q) /\ q # s[k]
  <2>1. ASSUME NEW i \in 1..Len(t), t[i] = q
        PROVE  Stands(s, q) /\ q # s[k]
    BY <2>1, <1>2, <1>5 DEF Stands
  <2>2. ASSUME NEW j \in 1..n, s[j] = q, q # s[k]
        PROVE  Stands(t, q)
    <3>1. j # k /\ now(j) \in 1..Len(t) /\ was(now(j)) = j
      BY <2>2, <1>4
    <3>2. t[now(j)] = q
      BY <3>1, <2>2, <1>2
    <3> QED BY <3>1, <3>2 DEF Stands
  <2> QED BY <2>1, <2>2 DEF Stands
<1>8. ASSUME NEW q, NEW r
      PROVE  StandsBefore(t, q, r) <=> StandsBefore(s, q, r) /\ q # s[k] /\ r # s[k]
  <2>1. ASSUME NEW i \in 1..Len(t), NEW j \in 1..Len(t), i < j, t[i] = q, t[j] = r
        PROVE  StandsBefore(s, q, r) /\ q # s[k] /\ r # s[k]
    <3>1. /\ was(i) \in 1..n /\ was(j) \in 1..n /\ was(i) < was(j)
          /\ s[was(i)] = q /\ s[was(j)] = r /\ was(i) # k /\ was(j) # k
      BY <2>1, <1>2, <1>3
    <3> QED BY <3>1, <1>5 DEF StandsBefore
  <2>2. ASSUME NEW i \in 1..n, NEW j \in 1..n, i < j, s[i] = q, s[j] = r, q # s[k], r # s[k]
        PROVE  StandsBefore(t, q, r)
    <3>1. /\ now(i) \in 1..Len(t) /\ was(now(i)) = i
          /\ now(j) \in 1..Len(t) /\ was(now(j)) = j
      BY <2>2, <1>4
    <3>2. now(i) < now(j) /\ t[now(i)] = q /\ t[now(j)] = r
      BY <3>1, <2>2, <1>2, <1>3
    <3> QED BY <3>1, <3>2 DEF StandsBefore
  <2> QED BY <2>1, <2>2 DEF StandsBefore
<1> QED BY <1>6, <1>7, <1>8

(* A newcomer e takes place n: the others keep their order, and e stands   *)
(* behind those in front of place n and before the rest.                   *)
LEMMA LineWithOneMore ==
  ASSUME NEW S, NEW s \in Seq(S), NEW t \in Seq(S), NEW e \in S, NEW n \in 1..(Len(s) + 1),
         NoRepeats(s), ~Stands(s, e), Len(t) = Len(s) + 1, t[n] = e,
         \A i \in 1..(n - 1) : t[i] = s[i],
         \A i \in (n + 1)..(Len(s) + 1) : t[i] = s[i - 1]
  PROVE  /\ NoRepeats(t)
         /\ \A q : Stands(t, q) <=> Stands(s, q) \/ q = e
         /\ \A q, r : q # e /\ r # e => (StandsBefore(t, q, r) <=> StandsBefore(s, q, r))
         /\ \A q : StandsBefore(t, q, e) <=> \E i \in 1..(n - 1) : s[i] = q
         /\ \A q : StandsBefore(t, e, q) <=> \E i \in n..Len(s) : s[i] = q
<1> DEFINE m == Len(s)
           was(i) == IF i < n THEN i ELSE i - 1
           now(j) == IF j < n THEN j ELSE j + 1
<1>1. m \in Nat /\ n \in 1..(m + 1) /\ Len(t) = m + 1
  OBVIOUS
<1>2. \A i \in 1..Len(t) : i # n => was(i) \in 1..m /\ t[i] = s[was(i)]
  BY <1>1
<1>3. \A i, j \in 1..Len(t) : i # n /\ j # n => (i < j <=> was(i) < was(j)) /\ (was(i) = was(j) => i = j)
  BY <1>1
<1>4. \A j \in 1..m : now(j) \in 1..Len(t) /\ now(j) # n /\ was(now(j)) = j /\ t[now(j)] = s[j]
  BY <1>1
<1>5. \A i \in 1..m : s[i] # e
  BY <1>1 DEF Stands
<1>6. /\ \A j \in 1..m : now(j) < n <=> j < n
      /\ \A i \in 1..Len(t) : i # n => (was(i) < n <=> i < n)
  BY <1>1
<1> HIDE DEF was, now
<1>7. NoRepeats(t)
  BY <1>2, <1>3, <1>5 DEF NoRepeats
<1>8. ASSUME NEW q
      PROVE  Stands(t, q) <=> Stands(s, q) \/ q = e
  BY <1>1, <1>2, <1>4 DEF Stands
<1>9. ASSUME NEW q, NEW r, q # e, r # e
      PROVE  StandsBefore(t, q, r) <=> StandsBefore(s, q, r)
  <2>1. ASSUME NEW i \in 1..Len(t), NEW j \in 1..Len(t), i < j, t[i] = q, t[j] = r
        PROVE  StandsBefore(s, q, r)
    <3>1. i # n /\ j # n
      BY <1>9, <2>1
    <3> QED BY <2>1, <3>1, <1>2, <1>3 DEF StandsBefore
  <2>2. ASSUME NEW i \in 1..m, NEW j \in 1..m, i < j, s[i] = q, s[j] = r
        PROVE  StandsBefore(t, q, r)
    <3>1. now(i) < now(j)
      BY <2>2, <1>3, <1>4
    <3> QED BY <2>2, <3>1, <1>4 DEF StandsBefore
  <2> QED BY <2>1, <2>2 DEF StandsBefore
<1>10. ASSUME NEW q
       PROVE  /\ StandsBefore(t, q, e) <=> \E i \in 1..(n - 1) : s[i] = q
              /\ StandsBefore(t, e, q) <=> \E i \in n..m : s[i] = q
  <2>1. \A i \in 1..Len(t) : t[i] = e => i = n
    BY <1>2, <1>5
  <2>2. ASSUME NEW i \in 1..Len(t), t[i] = q, i < n
        PROVE  \E j \in 1..(n - 1) : s[j] = q
    BY <2>2, <1>1, <1>2, <1>6
  <2>3. ASSUME NEW i \in 1..Len(t), t[i] = q, n < i
        PROVE  \E j \in n..m : s[j] = q
    BY <2>3, <1>1, <1>2, <1>6
  <2>4. ASSUME NEW j \in 1..(n - 1), s[j] = q
        PROVE  StandsBefore(t, q, e)
    <3>1. j \in 1..m /\ j < n
      BY <1>1
    <3>2. now(j) \in 1..Len(t) /\ now(j) < n /\ t[now(j)] = q
      BY <2>4, <3>1, <1>4, <1>6
    <3> QED BY <3>2, <1>1 DEF StandsBefore
  <2>5. ASSUME NEW j \in n..m, s[j] = q
        PROVE  StandsBefore(t, e, q)
    <3>1. j \in 1..m /\ ~(j < n)
      BY <1>1
    <3>2. now(j) \in 1..Len(t) /\ now(j) > n /\ t[now(j)] = q
      BY <2>5, <3>1, <1>1, <1>4, <1>6
    <3> QED BY <3>2, <1>1 DEF StandsBefore
  <2>6. StandsBefore(t, q, e) => \E i \in 1..(n - 1) : s[i] = q
    BY <2>1, <2>2 DEF StandsBefore
  <2>7. StandsBefore(t, e, q) => \E i \in n..m : s[i] = q
    BY <2>1, <2>3 DEF StandsBefore
  <2> QED BY <2>4, <2>5, <2>6, <2>7
<1> QED BY <1>7, <1>8, <1>9, <1>10

-----------------------------------------------------------------------------
(* FlattenSeq.                                                             *)

(* The concatenations of the first parts, up to the n-th. *)
PartlyFlat(ss, n, g) ==
  g = [i \in 1 .. n |-> IF i = 1 THEN ss[i] ELSE g[i - 1] \o ss[i]]

LEMMA PartlyFlatExists ==
  ASSUME NEW ss, NEW n \in Nat
  PROVE  \E g : PartlyFlat(ss, n, g)
<1> DEFINE D == {m \in Nat : ~ \E g : PartlyFlat(ss, m, g)}
<1>1. ASSUME D # {} PROVE FALSE
  <2>1. PICK m \in D : \A i \in D : m <= i
    <3>1. D \in SUBSET Nat
      OBVIOUS
    <3> HIDE DEF D
    <3> QED BY <1>1, <3>1, LeastExists
  <2>2. m \in Nat /\ ~ \E g : PartlyFlat(ss, m, g)
    BY <2>1
  <2>3. CASE m = 0
    <3> DEFINE g == [i \in 1 .. m |-> ss[i]]
    <3>1. 1 .. m = {}
      BY <2>3
    <3>2. g = [i \in 1 .. m |-> IF i = 1 THEN ss[i] ELSE g[i - 1] \o ss[i]]
      BY <3>1
    <3> QED BY <2>2, <3>2 DEF PartlyFlat
  <2>4. CASE m # 0
    <3>1. m - 1 \in Nat /\ m - 1 \notin D
      BY <2>1, <2>2, <2>4
    <3>2. PICK g : PartlyFlat(ss, m - 1, g)
      BY <3>1
    <3> DEFINE x == IF m = 1 THEN ss[m] ELSE g[m - 1] \o ss[m]
               h == [i \in 1 .. m |-> IF i = m THEN x ELSE g[i]]
    <3>3. ASSUME NEW i \in 1 .. m
          PROVE  h[i] = IF i = 1 THEN ss[i] ELSE h[i - 1] \o ss[i]
      <4>1. CASE i = m
        <5>1. h[i] = x
          BY <4>1
        <5>2. i # 1 => i - 1 \in 1 .. m /\ i - 1 # m
          BY <2>2
        <5>3. i # 1 => h[i - 1] = g[i - 1]
          BY <5>2
        <5> QED BY <4>1, <5>1, <5>3
      <4>2. CASE i # m
        <5>1. i \in 1 .. m - 1
          BY <2>2, <4>2
        <5>2. g[i] = IF i = 1 THEN ss[i] ELSE g[i - 1] \o ss[i]
          BY <3>2, <5>1 DEF PartlyFlat
        <5>3. i # 1 => i - 1 \in 1 .. m /\ i - 1 # m
          BY <2>2, <5>1
        <5>4. h[i] = g[i] /\ (i # 1 => h[i - 1] = g[i - 1])
          BY <4>2, <5>3
        <5> QED BY <5>2, <5>4
      <4> QED BY <4>1, <4>2
    <3>4. h = [i \in 1 .. m |-> IF i = 1 THEN ss[i] ELSE h[i - 1] \o ss[i]]
      <4>1. h = [i \in 1 .. m |-> h[i]]
        OBVIOUS
      <4> HIDE DEF h
      <4> QED BY <3>3, <4>1
    <3> QED BY <2>2, <3>4 DEF PartlyFlat
  <2> QED BY <2>3, <2>4
<1> QED BY <1>1

(* Two sequences begin alike. *)
SameUpTo(f, g, n) == \A i \in 1 .. n : f[i] = g[i]

LEMMA PartlyFlatAgree ==
  ASSUME NEW ss, NEW tt, NEW n \in Nat, NEW m \in Nat, n <= m,
         SameUpTo(ss, tt, n),
         NEW g, NEW h, PartlyFlat(ss, n, g), PartlyFlat(tt, m, h)
  PROVE  SameUpTo(g, h, n)
<1> DEFINE D == {i \in 1 .. n : g[i] # h[i]}
<1>1. ASSUME D # {} PROVE FALSE
  <2>1. PICK k \in D : \A i \in D : k <= i
    <3>1. D \in SUBSET Nat
      OBVIOUS
    <3> HIDE DEF D
    <3> QED BY <1>1, <3>1, LeastExists
  <2>2. k \in 1 .. n /\ k \in 1 .. m /\ g[k] # h[k] /\ ss[k] = tt[k]
    BY <2>1 DEF SameUpTo
  <2>3. g[k] = IF k = 1 THEN ss[k] ELSE g[k - 1] \o ss[k]
    BY <2>2 DEF PartlyFlat
  <2>4. h[k] = IF k = 1 THEN tt[k] ELSE h[k - 1] \o tt[k]
    BY <2>2 DEF PartlyFlat
  <2>5. k # 1 => g[k - 1] = h[k - 1]
    <3>1. k # 1 => k - 1 \in 1 .. n /\ k - 1 \notin D
      BY <2>1, <2>2
    <3> QED BY <3>1
  <2> QED BY <2>2, <2>3, <2>4, <2>5
<1> QED BY <1>1 DEF SameUpTo

LEMMA FlattenIs ==
  ASSUME NEW ss, Len(ss) \in Nat \ {0}
  PROVE  \E g : PartlyFlat(ss, Len(ss), g) /\ FlattenSeq(ss) = g[Len(ss)]
<1> DEFINE g == CHOOSE g : g = [i \in 1 .. Len(ss) |-> IF i = 1 THEN ss[i] ELSE g[i - 1] \o ss[i]]
<1>1. \E f : f = [i \in 1 .. Len(ss) |-> IF i = 1 THEN ss[i] ELSE f[i - 1] \o ss[i]]
  BY PartlyFlatExists DEF PartlyFlat
<1>2. g = [i \in 1 .. Len(ss) |-> IF i = 1 THEN ss[i] ELSE g[i - 1] \o ss[i]]
  <2> HIDE DEF g
  <2> QED BY <1>1 DEF g
<1>3. FlattenSeq(ss) = g[Len(ss)]
  BY DEF FlattenSeq
<1> QED BY <1>2, <1>3 DEF PartlyFlat

LEMMA FlattenEmpty == FlattenSeq(<<>>) = <<>>
<1>1. Len(<<>>) = 0
  OBVIOUS
<1> QED BY <1>1 DEF FlattenSeq

LEMMA FlattenAppend ==
  ASSUME NEW S, NEW ss \in Seq(Seq(S)), NEW s \in Seq(S)
  PROVE  FlattenSeq(Append(ss, s)) = FlattenSeq(ss) \o s
<1> DEFINE n == Len(ss)
           tt == Append(ss, s)
<1>1. n \in Nat /\ Len(tt) = n + 1 /\ tt[n + 1] = s /\ \A i \in 1 .. n : tt[i] = ss[i]
  OBVIOUS
<1>2. PICK h : PartlyFlat(tt, n + 1, h) /\ FlattenSeq(tt) = h[n + 1]
  <2> HIDE DEF n, tt
  <2>1. Len(tt) \in Nat \ {0}
    BY <1>1
  <2> QED BY <1>1, <2>1, FlattenIs
<1> HIDE DEF tt
<1>3. h[n + 1] = IF n = 0 THEN tt[n + 1] ELSE h[n] \o tt[n + 1]
  <2> HIDE DEF n
  <2> DEFINE k == n + 1
  <2>1. k \in 1 .. k
    BY <1>1
  <2> HIDE DEF k
  <2>2. h[k] = IF k = 1 THEN tt[k] ELSE h[k - 1] \o tt[k]
    <3>1. PartlyFlat(tt, k, h)
      BY <1>2 DEF k
    <3> QED BY <2>1, <3>1 DEF PartlyFlat
  <2>3. k = n + 1 /\ k - 1 = n /\ (k = 1 <=> n = 0)
    BY <1>1 DEF k
  <2> QED BY <2>2, <2>3
<1>4. CASE n = 0
  <2>1. ss = <<>>
    BY <1>4, EmptySeq
  <2>2. <<>> \o s = s
    OBVIOUS
  <2> QED BY <1>1, <1>2, <1>3, <1>4, <2>1, <2>2, FlattenEmpty DEF tt
<1>5. CASE n # 0
  <2>1. PICK g : PartlyFlat(ss, n, g) /\ FlattenSeq(ss) = g[n]
    BY <1>1, <1>5, FlattenIs
  <2>2. n <= n + 1 /\ n + 1 \in Nat /\ n \in 1 .. n
    BY <1>1, <1>5
  <2> HIDE DEF n
  <2>3. SameUpTo(ss, tt, n)
    BY <1>1 DEF SameUpTo
  <2> DEFINE m == n + 1
  <2>4. m \in Nat /\ n <= m /\ PartlyFlat(tt, m, h)
    BY <1>1, <1>2, <2>2
  <2> HIDE DEF m
  <2>5. SameUpTo(g, h, n)
    BY <1>1, <2>1, <2>3, <2>4, PartlyFlatAgree
  <2>6. g[n] = h[n]
    BY <2>2, <2>5 DEF SameUpTo
  <2> QED BY <1>1, <1>2, <1>3, <2>1, <2>2, <2>6 DEF tt
<1> QED BY <1>4, <1>5

(* What sequences of sequences have in common with their concatenation. *)
LEMMA FlattenType ==
  ASSUME NEW S, NEW ss \in Seq(Seq(S))
  PROVE  /\ FlattenSeq(ss) \in Seq(S)
         /\ \A i \in DOMAIN FlattenSeq(ss) : \E j \in DOMAIN ss : \E k \in DOMAIN ss[j] :
                FlattenSeq(ss)[i] = ss[j][k]
         /\ \A j \in DOMAIN ss : \A k \in DOMAIN ss[j] : \E i \in DOMAIN FlattenSeq(ss) :
                FlattenSeq(ss)[i] = ss[j][k]
<1> DEFINE From(s, n) == /\ s \in Seq(S)
                         /\ \A i \in DOMAIN s : \E j \in 1 .. n : \E k \in DOMAIN ss[j] : s[i] = ss[j][k]
                         /\ \A j \in 1 .. n : \A k \in DOMAIN ss[j] : \E i \in DOMAIN s : s[i] = ss[j][k]
<1>1. Len(ss) \in Nat /\ DOMAIN ss = 1 .. Len(ss) /\ \A i \in 1 .. Len(ss) : ss[i] \in Seq(S)
  OBVIOUS
<1>2. CASE Len(ss) = 0
  <2>1. ss = <<>> /\ DOMAIN ss = {}
    BY <1>1, <1>2, EmptySeq
  <2>2. FlattenSeq(ss) = <<>> /\ DOMAIN <<>> = {} /\ <<>> \in Seq(S)
    BY <2>1, FlattenEmpty
  <2> QED BY <2>1, <2>2
<1>3. CASE Len(ss) # 0
  <2>1. PICK g : PartlyFlat(ss, Len(ss), g) /\ FlattenSeq(ss) = g[Len(ss)]
    BY <1>1, <1>3, FlattenIs
  <2> DEFINE D == {k \in 1 .. Len(ss) : ~ From(g[k], k)}
  <2>2. ASSUME D # {} PROVE FALSE
    <3>1. PICK m \in D : \A i \in D : m <= i
      <4>1. D \in SUBSET Nat
        BY <1>1
      <4> HIDE DEF D
      <4> QED BY <2>2, <4>1, LeastExists
    <3>2. m \in 1 .. Len(ss) /\ ~ From(g[m], m)
      BY <3>1
    <3>3. g[m] = IF m = 1 THEN ss[m] ELSE g[m - 1] \o ss[m]
      BY <2>1, <3>2 DEF PartlyFlat
    <3>4. ss[m] \in Seq(S) /\ m \in Nat
      BY <1>1, <3>2
    <3>5. CASE m = 1
      <4>1. g[m] = ss[m] /\ 1 .. m = {m}
        BY <3>3, <3>5
      <4> QED BY <3>2, <3>4, <4>1
    <3>6. CASE m # 1
      <4> HIDE DEF From
      <4>0. m - 1 \in 1 .. Len(ss) /\ ~ m <= m - 1
        BY <1>1, <3>2, <3>4, <3>6
      <4>1. m - 1 \in 1 .. Len(ss) /\ m - 1 \notin D
        <5> HIDE DEF D
        <5> QED BY <3>1, <4>0
      <4>2. From(g[m - 1], m - 1)
        BY <4>1
      <4>3. g[m] = g[m - 1] \o ss[m]
        BY <3>3, <3>6
      <4> DEFINE a == g[m - 1]
                 b == ss[m]
      <4>4. a \in Seq(S) /\ b \in Seq(S) /\ g[m] = a \o b
        BY <3>4, <4>2, <4>3 DEF From
      <4>5. 1 .. m = (1 .. m - 1) \cup {m}
        BY <3>2, <3>4, <3>6
      <4>6. \A i \in DOMAIN a : \E j \in 1 .. m - 1 : \E k \in DOMAIN ss[j] : a[i] = ss[j][k]
        BY <4>2 DEF From
      <4>7. \A j \in 1 .. m - 1 : \A k \in DOMAIN ss[j] : \E i \in DOMAIN a : a[i] = ss[j][k]
        BY <4>2 DEF From
      <4>8. b = ss[m]
        OBVIOUS
      <4> HIDE DEF a, b
      <4>9. a \o b \in Seq(S)
        BY <4>4
      <4>10. ASSUME NEW i \in DOMAIN (a \o b)
             PROVE  \E j \in 1 .. m : \E k \in DOMAIN ss[j] : (a \o b)[i] = ss[j][k]
        <5>1. CASE i \in 1 .. Len(a)
          <6>1. i \in DOMAIN a /\ (a \o b)[i] = a[i]
            BY <4>4, <5>1
          <6> QED BY <4>5, <4>6, <6>1
        <5>2. CASE i \notin 1 .. Len(a)
          <6>1. i - Len(a) \in DOMAIN b /\ (a \o b)[i] = b[i - Len(a)]
            BY <4>4, <4>10, <5>2
          <6> QED BY <4>5, <4>8, <6>1
        <5> QED BY <5>1, <5>2
      <4>11. ASSUME NEW j \in 1 .. m, NEW k \in DOMAIN ss[j]
             PROVE  \E i \in DOMAIN (a \o b) : (a \o b)[i] = ss[j][k]
        <5>1. CASE j \in 1 .. m - 1
          <6>1. PICK i \in DOMAIN a : a[i] = ss[j][k]
            BY <4>7, <5>1
          <6>2. i \in DOMAIN (a \o b) /\ (a \o b)[i] = a[i]
            BY <4>4
          <6> QED BY <6>1, <6>2
        <5>2. CASE j = m
          <6>1. k \in DOMAIN b
            BY <4>8, <5>2
          <6>2. Len(a) + k \in DOMAIN (a \o b) /\ (a \o b)[Len(a) + k] = b[k]
            BY <4>4, <6>1
          <6> QED BY <4>8, <5>2, <6>2
        <5> QED BY <4>5, <5>1, <5>2
      <4>12. From(a \o b, m)
        BY <4>9, <4>10, <4>11 DEF From
      <4> QED BY <3>2, <4>4, <4>12
    <3> QED BY <3>5, <3>6
  <2>3. From(g[Len(ss)], Len(ss))
    <3>1. Len(ss) \in 1 .. Len(ss)
      BY <1>1, <1>3
    <3> HIDE DEF From
    <3> QED BY <2>2, <3>1
  <2> DEFINE s == FlattenSeq(ss)
  <2>4. From(s, Len(ss))
    <3> HIDE DEF From
    <3> QED BY <2>1, <2>3
  <2> HIDE DEF s
  <2>5. /\ s \in Seq(S)
        /\ \A i \in DOMAIN s : \E j \in DOMAIN ss : \E k \in DOMAIN ss[j] : s[i] = ss[j][k]
        /\ \A j \in DOMAIN ss : \A k \in DOMAIN ss[j] : \E i \in DOMAIN s : s[i] = ss[j][k]
    BY <1>1, <2>4
  <2> QED BY <2>5 DEF s
<1> QED BY <1>2, <1>3

(* One more part, the others as they were. *)
LEMMA FlattenLonger ==
  ASSUME NEW S, NEW ss \in Seq(Seq(S)), NEW s \in Seq(S), NEW tt,
         tt = [i \in 1 .. Len(ss) + 1 |-> tt[i]],
         SameUpTo(ss, tt, Len(ss)), tt[Len(ss) + 1] = s
  PROVE  FlattenSeq(tt) = FlattenSeq(ss) \o s
<1>1. tt = Append(ss, s)
  <2>1. Append(ss, s) = [i \in 1 .. Len(ss) + 1 |-> IF i = Len(ss) + 1 THEN s ELSE ss[i]]
    <3> DEFINE a == Append(ss, s)
    <3>1. /\ a \in Seq(Seq(S)) /\ Len(a) = Len(ss) + 1 /\ Len(ss) \in Nat
          /\ a[Len(ss) + 1] = s /\ \A i \in 1 .. Len(ss) : a[i] = ss[i]
      OBVIOUS
    <3> HIDE DEF a
    <3>2. a = [i \in 1 .. Len(a) |-> a[i]]
      BY <3>1
    <3>3. \A i \in 1 .. Len(ss) + 1 : a[i] = IF i = Len(ss) + 1 THEN s ELSE ss[i]
      BY <3>1
    <3> QED BY <3>1, <3>2, <3>3 DEF a
  <2>2. ASSUME NEW i \in 1 .. Len(ss) + 1
        PROVE  tt[i] = IF i = Len(ss) + 1 THEN s ELSE ss[i]
    <3>1. i # Len(ss) + 1 => i \in 1 .. Len(ss)
      OBVIOUS
    <3> QED BY <3>1 DEF SameUpTo
  <2> QED BY <2>1, <2>2
<1> QED BY <1>1, FlattenAppend
(* What f makes of each element, put together. *)
Parts(f, s) == [i \in DOMAIN s |-> f[s[i]]]
Collected(f, s) == FlattenSeq(Parts(f, s))

Gives(f, S, T) == f \in [S -> Seq(T)]
Grows(f, s, x) == Collected(f, Append(s, x)) = Collected(f, s) \o f[x]

LEMMA CollectedParts ==
  ASSUME NEW S, NEW T, NEW f, Gives(f, S, T), NEW s \in Seq(S)
  PROVE  /\ Parts(f, s) \in Seq(Seq(T))
         /\ DOMAIN Parts(f, s) = DOMAIN s /\ Len(Parts(f, s)) = Len(s)
         /\ \A i \in DOMAIN s : Parts(f, s)[i] = f[s[i]]
<1> DEFINE ss == Parts(f, s)
<1>1. Len(s) \in Nat /\ DOMAIN s = 1 .. Len(s) /\ \A i \in 1 .. Len(s) : s[i] \in S
  OBVIOUS
<1>2. ss \in [1 .. Len(s) -> Seq(T)] /\ \A i \in DOMAIN s : ss[i] = f[s[i]]
  BY <1>1 DEF Parts, Gives
<1> HIDE DEF ss
<1>3. ss \in Seq(Seq(T)) /\ DOMAIN ss = 1 .. Len(s) /\ Len(ss) = Len(s)
  <2> DEFINE U == Seq(T)
             n == Len(s)
  <2>1. n \in Nat /\ ss \in [1 .. n -> U]
    BY <1>1, <1>2
  <2> HIDE DEF U, n
  <2>2. ss \in Seq(U) /\ DOMAIN ss = 1 .. n /\ Len(ss) = n
    BY <2>1
  <2> QED BY <2>2 DEF U, n
<1> QED BY <1>1, <1>2, <1>3 DEF ss

LEMMA CollectedNone == \A f : Collected(f, <<>>) = <<>>
<1> SUFFICES ASSUME NEW f PROVE Collected(f, <<>>) = <<>>
  OBVIOUS
<1>1. DOMAIN <<>> = {}
  OBVIOUS
<1>2. Parts(f, <<>>) = <<>>
  <2>1. <<>> \in Seq({}) /\ f = f
    OBVIOUS
  <2>2. Parts(f, <<>>) = [i \in {} |-> f[<<>>[i]]]
    BY <1>1 DEF Parts
  <2>3. <<>> = [i \in {} |-> <<>>[i]]
    BY <1>1
  <2> QED BY <2>2, <2>3
<1> QED BY <1>2, FlattenEmpty DEF Collected

LEMMA CollectedAppend ==
  ASSUME NEW S, NEW T, NEW f, Gives(f, S, T), NEW s \in Seq(S), NEW x \in S
  PROVE  /\ Collected(f, s) \in Seq(T)
         /\ Grows(f, s, x)
<1> DEFINE more == Append(s, x)
           ss == Parts(f, s)
           tt == Parts(f, more)
<1>1. /\ Len(s) \in Nat /\ DOMAIN s = 1 .. Len(s) /\ DOMAIN more = 1 .. Len(s) + 1
      /\ more[Len(s) + 1] = x /\ (\A i \in 1 .. Len(s) : more[i] = s[i]) /\ more \in Seq(S)
  OBVIOUS
<1>2. ss \in Seq(Seq(T)) /\ Len(ss) = Len(s) /\ \A i \in 1 .. Len(s) : ss[i] = f[s[i]]
  BY <1>1, CollectedParts
<1>3. f[x] \in Seq(T)
  BY DEF Gives
<1>4. SameUpTo(ss, tt, Len(ss)) /\ tt[Len(ss) + 1] = f[x]
  <2> HIDE DEF more
  <2>0. \A i \in 1 .. Len(s) + 1 : tt[i] = f[more[i]]
    BY <1>1 DEF Parts
  <2> HIDE DEF ss, tt
  <2>1. ASSUME NEW i \in 1 .. Len(s) PROVE ss[i] = tt[i]
    <3>1. i \in 1 .. Len(s) + 1
      BY <1>1
    <3>2. ss[i] = f[s[i]] /\ more[i] = s[i] /\ tt[i] = f[more[i]]
      BY <1>1, <1>2, <2>0, <3>1
    <3> QED BY <3>2
  <2>2. Len(s) + 1 \in 1 .. Len(s) + 1
    BY <1>1
  <2>3. tt[Len(s) + 1] = f[x]
    BY <1>1, <2>0, <2>2
  <2> QED BY <1>2, <2>1, <2>3 DEF SameUpTo
<1>5. tt = [i \in 1 .. Len(ss) + 1 |-> tt[i]]
  <2> HIDE DEF more, ss
  <2>1. tt = [i \in DOMAIN more |-> tt[i]]
    BY DEF Parts
  <2> HIDE DEF tt
  <2> QED BY <1>1, <1>2, <2>1
<1>6. Collected(f, s) = FlattenSeq(ss) /\ Collected(f, more) = FlattenSeq(tt)
  BY DEF Collected
<1> HIDE DEF ss, tt, more
<1>7. FlattenSeq(tt) = FlattenSeq(ss) \o f[x]
  BY <1>2, <1>3, <1>4, <1>5, FlattenLonger
<1>8. FlattenSeq(ss) \in Seq(T)
  BY <1>2, FlattenType
<1> QED BY <1>6, <1>7, <1>8 DEF more, Grows

LEMMA CollectedHas ==
  ASSUME NEW S, NEW T, NEW f, Gives(f, S, T), NEW s \in Seq(S)
  PROVE  /\ \A i \in DOMAIN Collected(f, s) : \E j \in DOMAIN s : \E k \in DOMAIN f[s[j]] :
                Collected(f, s)[i] = f[s[j]][k]
         /\ \A j \in DOMAIN s : \A k \in DOMAIN f[s[j]] : \E i \in DOMAIN Collected(f, s) :
                Collected(f, s)[i] = f[s[j]][k]
<1> DEFINE ss == Parts(f, s)
<1>1. ss \in Seq(Seq(T)) /\ DOMAIN ss = DOMAIN s
  BY CollectedParts
<1>2. \A j \in DOMAIN s : ss[j] = f[s[j]]
  BY CollectedParts
<1>3. Collected(f, s) = FlattenSeq(ss)
  BY DEF Collected
<1> HIDE DEF ss
<1>4. \A i \in DOMAIN FlattenSeq(ss) : \E j \in DOMAIN ss : \E k \in DOMAIN ss[j] :
        FlattenSeq(ss)[i] = ss[j][k]
  BY <1>1, FlattenType
<1>5. \A j \in DOMAIN ss : \A k \in DOMAIN ss[j] : \E i \in DOMAIN FlattenSeq(ss) :
        FlattenSeq(ss)[i] = ss[j][k]
  BY <1>1, FlattenType
<1> QED BY <1>1, <1>2, <1>3, <1>4, <1>5

=============================================================================
