------------------------------- MODULE Limits -------------------------------
(***************************************************************************)
(* The limits of one API key (gate/src/limits.ts) together with the usage  *)
(* totals they read (gate/src/store/usage.ts) and the two moments of a     *)
(* request that touch them: admission and the end of the run (chat.ts,     *)
(* routeAndAdmit and finish).  Every map of the class is indexed by key,   *)
(* so keys do not interact and one is enough.                              *)
(*                                                                         *)
(* Time is counted in ticks of the hub's clock.  The window and the day    *)
(* totals live in different places: the window and `pending` are memory    *)
(* and are lost by a restart, the totals are rows of the database.         *)
(***************************************************************************)
EXTENDS Integers, Sequences, FiniteSets, FiniteSetsExt

CONSTANTS
  Requests,         \* requests of the key that can be in flight at once
  Rpm, Rpd,         \* requests per window, per day (NoLimit: null)
  TokensPerDay, TokensPerMonth,
  NoLimit,
  Window,           \* 60_000 ms, in ticks
  Second,           \* 1000 ms, in ticks
  DayLength,        \* ticks of a day
  DaysPerMonth,
  TokenUse,         \* the numbers of tokens a request can turn out to use
  MaxTime,          \* bound: the clock stops there
  MaxRestarts       \* bound: restarts of the hub

ASSUME LimitsAssumption ==
  /\ IsFiniteSet(Requests)
  /\ Rpm \in (Nat \ {0}) \cup {NoLimit} /\ Rpd \in (Nat \ {0}) \cup {NoLimit}
  /\ TokensPerDay \in (Nat \ {0}) \cup {NoLimit}
  /\ TokensPerMonth \in (Nat \ {0}) \cup {NoLimit}
  /\ NoLimit \notin Nat
  /\ Window \in Nat \ {0} /\ Second \in Nat \ {0}
  /\ DayLength \in Nat \ {0} /\ DaysPerMonth \in Nat \ {0}
  /\ TokenUse \subseteq Nat /\ IsFiniteSet(TokenUse) /\ TokenUse # {}
  /\ MaxTime \in Nat /\ MaxRestarts \in Nat

VARIABLES
  now,         \* the clock
  stamps,      \* times of the admissions the window still holds
  pending,     \* admissions not released yet, as the code counts them
  requestsOn,  \* requests recorded for each day
  tokensOn,    \* tokens recorded for each day
  inFlight,    \* the admitted requests that have not finished
  restarts,
  admissions,  \* history: times of all admissions since the hub started
  refusal      \* history: the latest rate_limited answer, if any

memory == <<stamps, pending, inFlight>>
store == <<requestsOn, tokensOn>>
vars == <<now, memory, store, restarts, admissions, refusal>>

DayOf(t) == t \div DayLength
Today == DayOf(now)
Days == 0..DayOf(MaxTime)

(* Days of the current month up to today. *)
MonthToDate == {d \in Days : d <= Today /\ d \div DaysPerMonth = Today \div DaysPerMonth}

NoRefusal == [at |-> 0, wait |-> 0]

-----------------------------------------------------------------------------
(* What the checks read. *)

UsedToday == requestsOn[Today] + pending

TokensToday == tokensOn[Today]

Total(tokens, days) == MapThenSumSet(LAMBDA d : tokens[d], days)
TokensThisMonth == Total(tokensOn, MonthToDate)

(* A likely mistake: > for >=. *)
Exceeded(used, limit) == limit # NoLimit /\ used > limit

Reached(used, limit) == limit # NoLimit /\ used >= limit

BudgetExhausted ==
  \/ Reached(UsedToday, Rpd)
  \/ Reached(TokensToday, TokensPerDay)
  \/ Reached(TokensThisMonth, TokensPerMonth)

(* recent(): shifts out the stamps that left the window. *)
Expired(t) ==
  CHOOSE k \in 0..Len(stamps) :
    /\ \A i \in 1..k : stamps[i] <= t - Window
    /\ k < Len(stamps) => stamps[k + 1] > t - Window

RecentAt(t) == SubSeq(stamps, Expired(t) + 1, Len(stamps))
Recent == RecentAt(now)

(* A likely mistake: rounding the wait down. *)
RoundedDown(stamp) ==
  LET left == stamp + Window - now
  IN  IF left \div Second > 1 THEN left \div Second ELSE 1

(* Retry-After in seconds: until the given stamp leaves the window. *)
RetryAfter(stamp) ==
  LET left == stamp + Window - now
      seconds == (left + Second - 1) \div Second
  IN  IF seconds > 1 THEN seconds ELSE 1

-----------------------------------------------------------------------------
Init ==
  /\ now = 0
  /\ stamps = <<>> /\ pending = 0 /\ inFlight = {}
  /\ requestsOn = [d \in Days |-> 0]
  /\ tokensOn = [d \in Days |-> 0]
  /\ restarts = 0
  /\ admissions = <<>>
  /\ refusal = NoRefusal

(* admit() answers budget_exhausted, before it looks at the window. *)
RefuseExhausted ==
  /\ BudgetExhausted
  /\ UNCHANGED <<memory, admissions, refusal>>

(* admit() answers rate_limited. *)
RefuseTooFast ==
  /\ ~BudgetExhausted
  /\ stamps' = Recent
  /\ Reached(Len(Recent), Rpm)
  /\ refusal' = [at |-> now, wait |-> RetryAfter(Recent[1])]
  /\ UNCHANGED <<pending, inFlight, admissions>>

(* admit() lets the request in: one stamp, one pending. *)
Admit(r) ==
  /\ ~BudgetExhausted
  /\ ~Reached(Len(Recent), Rpm)
  /\ stamps' = Append(Recent, now)
  /\ pending' = pending + 1
  /\ inFlight' = inFlight \cup {r}
  /\ admissions' = Append(admissions, now)
  /\ UNCHANGED refusal

Arrive(r) ==
  /\ r \notin inFlight
  /\ RefuseExhausted \/ RefuseTooFast \/ Admit(r)
  /\ UNCHANGED <<now, store, restarts>>

(* release(), once per request: max(0, pending - 1). *)
Release(r) ==
  /\ pending' = IF pending > 0 THEN pending - 1 ELSE 0
  /\ inFlight' = inFlight \ {r}
  /\ UNCHANGED stamps

(* A likely mistake: release inside the try, skipped when recording fails. *)
FinishRecordedOnly(r, tokens, recorded) ==
  /\ r \in inFlight
  /\ IF recorded
     THEN /\ requestsOn' = [requestsOn EXCEPT ![Today] = @ + 1]
          /\ tokensOn' = [tokensOn EXCEPT ![Today] = @ + tokens]
          /\ Release(r)
     ELSE /\ inFlight' = inFlight \ {r}
          /\ UNCHANGED <<store, stamps, pending>>
  /\ UNCHANGED <<now, restarts, admissions, refusal>>

(* finish(): the request is added to the totals of the day it ends on.  A  *)
(* failing database is logged and the admission is released all the same.  *)
Finish(r, tokens, recorded) ==
  /\ r \in inFlight
  /\ IF recorded
     THEN /\ requestsOn' = [requestsOn EXCEPT ![Today] = @ + 1]
          /\ tokensOn' = [tokensOn EXCEPT ![Today] = @ + tokens]
     ELSE UNCHANGED store
  /\ Release(r)
  /\ UNCHANGED <<now, restarts, admissions, refusal>>

(* snapshot(), the key's own view of its usage, prunes the window too. *)
Snapshot ==
  /\ stamps' = Recent
  /\ UNCHANGED <<now, pending, inFlight, store, restarts, admissions, refusal>>

Tick ==
  /\ now < MaxTime
  /\ now' = now + 1
  /\ UNCHANGED <<memory, store, restarts, admissions, refusal>>

(* The hub stops and starts again: requests in flight die unrecorded. *)
Restart ==
  /\ restarts < MaxRestarts
  /\ restarts' = restarts + 1
  /\ stamps' = <<>> /\ pending' = 0 /\ inFlight' = {}
  /\ admissions' = <<>> /\ refusal' = NoRefusal
  /\ UNCHANGED <<now, store>>

Next ==
  \/ \E r \in Requests :
       \/ Arrive(r)
       \/ \E tokens \in TokenUse, recorded \in BOOLEAN : Finish(r, tokens, recorded)
  \/ Snapshot
  \/ Tick
  \/ Restart

Spec == Init /\ [][Next]_vars

-----------------------------------------------------------------------------
TypeOK ==
  /\ now \in 0..MaxTime
  /\ stamps \in Seq(Nat)
  /\ pending \in Nat
  /\ requestsOn \in [Days -> Nat]
  /\ tokensOn \in [Days -> Nat]
  /\ inFlight \in SUBSET Requests
  /\ restarts \in 0..MaxRestarts
  /\ admissions \in Seq(Nat)
  /\ refusal \in [at : Nat, wait : Nat]

(* No day ends with more than rpd requests on record, those of the day's   *)
(* start that began the evening before included, and whatever is in flight *)
(* still fits into the day on which it is going to be recorded.            *)
DailyAllowance ==
  Rpd # NoLimit =>
    /\ \A d \in Days : requestsOn[d] <= Rpd
    /\ requestsOn[Today] + Cardinality(inFlight) <= Rpd

(* `pending` counts exactly the requests in flight: no path through a run  *)
(* (error, abort, failing database) loses or doubles a release, so a key   *)
(* can never be locked out of its own allowance.                           *)
PendingExact == pending = Cardinality(inFlight)

(* Between two restarts any window of 60 seconds sees at most rpm          *)
(* admissions: the one that comes rpm places later comes a window later.   *)
SlidingWindow ==
  Rpm # NoLimit =>
    \A i \in 1..Len(admissions) :
      i + Rpm <= Len(admissions) => admissions[i + Rpm] >= admissions[i] + Window

(* A client that waits as long as Retry-After told it finds room in the    *)
(* window, provided no other request of the key came in between.           *)
RetryAfterIsEnough ==
  LET then == refusal.at + refusal.wait * Second
  IN  (refusal # NoRefusal /\ \A i \in DOMAIN admissions : admissions[i] <= refusal.at)
        => ~Reached(Len(RecentAt(then)), Rpm)

(* Requests already running may push a key past its token budget, but      *)
(* never by more than all of them together can use.                        *)
TokenOvershoot ==
  LET most == Max(TokenUse) * Cardinality(Requests)
  IN  /\ TokensPerDay # NoLimit => \A d \in Days : tokensOn[d] < TokensPerDay + most
      /\ TokensPerMonth # NoLimit => TokensThisMonth < TokensPerMonth + most

(* The window is the tail of the admissions, in order, and what it lost    *)
(* had left it.                                                            *)
WindowIsTail ==
  LET lost == Len(admissions) - Len(stamps)
  IN  /\ lost \in Nat
      /\ \A i \in 1..Len(stamps) : stamps[i] = admissions[lost + i]
      /\ \A i \in 1..lost : admissions[i] <= now - Window
      /\ \A i, j \in 1..Len(admissions) : i <= j => admissions[i] <= admissions[j]
      /\ \A i \in 1..Len(admissions) : admissions[i] <= now

(* The days to come have no usage yet. *)
FutureEmpty == \A d \in Days : d > Today => requestsOn[d] = 0 /\ tokensOn[d] = 0

(* After a rate_limited answer, and until the next admission: the oldest   *)
(* of the last rpm admissions has left the window when the wait is over,   *)
(* and while the clock stands still it has not left it.                    *)
RefusalKnown ==
  /\ refusal.at <= now
  /\ refusal # NoRefusal /\ (\A i \in 1..Len(admissions) : admissions[i] <= refusal.at) =>
       /\ Rpm # NoLimit
       /\ Len(admissions) >= Rpm
       /\ LET oldest == admissions[Len(admissions) - Rpm + 1]
          IN  /\ oldest + Window <= refusal.at + refusal.wait * Second
              /\ refusal.at = now => oldest > now - Window

(* What is in flight still fits above the token budgets, if each uses the  *)
(* most it can.                                                            *)
OvershootFits ==
  LET most == Max(TokenUse) * Cardinality(Requests)
      running == Max(TokenUse) * Cardinality(inFlight)
  IN  /\ TokensPerDay # NoLimit =>
           /\ \A d \in Days : tokensOn[d] < TokensPerDay + most
           /\ tokensOn[Today] + running < TokensPerDay + most
      /\ TokensPerMonth # NoLimit => TokensThisMonth + running < TokensPerMonth + most

LimitsInv ==
  /\ TypeOK
  /\ IsFiniteSet(inFlight)
  /\ PendingExact
  /\ FutureEmpty
  /\ DailyAllowance
  /\ WindowIsTail
  /\ SlidingWindow
  /\ RefusalKnown
  /\ OvershootFits
=============================================================================
