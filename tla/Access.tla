------------------------------- MODULE Access -------------------------------
(***************************************************************************)
(* Who may talk to the hub: the throttle of failed logins (auth.ts), which *)
(* every client and admin call passes first, and the client keys           *)
(* (store/keys.ts) with the operations of the admin API and the command    *)
(* line.  Every operation here runs in one piece; what is hard is what a   *)
(* long sequence of them leaves behind.  Names and secrets, which the      *)
(* table keeps unique, are left out: a key is its id.                      *)
(***************************************************************************)
EXTENDS Integers, SequencesExt, FiniteSetsExt

CONSTANTS
    Addresses,      \* client addresses (req.ip)
    Ids,            \* key ids; a random id is never given out twice
    MaxFailures, Window, MaxTracked,    \* AuthThrottle's parameters, times in ticks
    Second,         \* 1000 ms, in ticks
    TouchEvery,     \* TOUCH_EVERY_MS, in ticks
    Top,            \* priorities are 1 .. Top
    None,
    MaxTime,        \* bound: the clock stops there
    MaxRestarts     \* bound

ASSUME AccessConstants ==
    /\ MaxFailures \in Nat \ {0} /\ Window \in Nat \ {0} /\ MaxTracked \in Nat \ {0}
    /\ Second \in Nat \ {0} /\ TouchEvery \in Nat \ {0} /\ Top \in Nat \ {0}
    /\ MaxTime \in Nat /\ MaxRestarts \in Nat

VARIABLES
    now,
    failures,   \* AuthThrottle's map: times by address, <<>> for no entry
    behind,     \* the map's order: who was put into it after an address was
    key,        \* the rows of api_keys, None for an id not in use
    touched,    \* KeyStore.touched, None for no entry
    usedIds,    \* ids given out so far
    restarts,
    guesses,    \* history: failures of each address since it could be forgotten
    since,      \* history: who has failed since an address failed last
    refusal,    \* history: the latest refusal, until that address fails again
    usedAt      \* history: when each key last made a chat request

throttle == <<failures, behind, guesses, since, refusal>>
store == <<key, touched, usedIds, usedAt>>
accessVars == <<now, throttle, store, restarts>>

Priorities == 1 .. Top
Times == 0 .. MaxTime

\* A row of api_keys.
KeyRows == [min : Priorities, def : Priorities, max : Priorities, revoked : BOOLEAN,
            lastUsed : Times \cup {None}]

ASSUME NoneIsNoKey == None \notin Nat /\ None \notin KeyRows

NoRefusal == [ip |-> None, at |-> 0, wait |-> 0]

AccessInit ==
    /\ now = 0
    /\ failures = [a \in Addresses |-> <<>>] /\ behind = [a \in Addresses |-> {}]
    /\ key = [id \in Ids |-> None] /\ touched = [id \in Ids |-> None]
    /\ usedIds = {} /\ restarts = 0
    /\ guesses = [a \in Addresses |-> <<>>] /\ since = [a \in Addresses |-> {}]
    /\ refusal = NoRefusal /\ usedAt = [id \in Ids |-> None]

-----------------------------------------------------------------------------
(* The throttle.                                                           *)

\* Where the times later than `limit` begin, whatever comes behind them.
FirstLater(times, limit) ==
    CHOOSE i \in 1 .. Len(times) + 1 :
        /\ \A j \in 1 .. i - 1 : times[j] <= limit
        /\ i <= Len(times) => times[i] > limit

Later(times, limit) == SubSeq(times, FirstLater(times, limit), Len(times))

\* recent(): the oldest failures go as long as they have left the window.
Recent(times) == Later(times, now - Window)

Tracked(map) == {a \in Addresses : map[a] # <<>>}

\* A likely mistake: a flood of addresses clears the memory of all of them.
EvictAll(map, order) == [a \in Addresses |-> <<>>]

\* evict(): expired entries first, then the addresses that failed longest ago.
Evict(map, order) ==
    LET live == [a \in Addresses |-> Recent(map[a])]
    IN  [a \in Addresses |->
           IF Cardinality(Tracked(live) \cap order[a]) < MaxTracked THEN live[a] ELSE <<>>]

\* `ip` comes behind all others.
MovedBack(order, ip) == [a \in Addresses |-> IF a = ip THEN {} ELSE order[a] \cup {ip}]

\* fail(): the address moves to the back with one more failure.
Fail(ip) ==
    LET new == [failures EXCEPT ![ip] = Append(Recent(@), now)]
    IN  /\ behind' = MovedBack(behind, ip)
        /\ failures' = IF Cardinality(Tracked(new)) > MaxTracked THEN Evict(new, behind') ELSE new

\* Retry-After: seconds until the oldest failure leaves the window, at least one.
Wait(times) ==
    LET left == times[1] + Window - now
        seconds == (left + Second - 1) \div Second
    IN  IF seconds < 1 THEN 1 ELSE seconds

\* check() lets the address pass, and the call fails: fail().
FailureOf(ip) ==
    /\ Len(Recent(failures[ip])) < MaxFailures
    /\ Fail(ip)
    /\ since' = MovedBack(since, ip)
    /\ guesses' = [a \in Addresses |->
                     IF a = ip THEN Append(guesses[a], now)
                     ELSE IF Cardinality(since'[a]) >= MaxTracked THEN <<>> ELSE guesses[a]]
    /\ refusal' = IF refusal.ip = ip THEN NoRefusal ELSE refusal
    /\ UNCHANGED <<store, now, restarts>>

\* check(): what is too old of the address is forgotten.
Checked(ip) == failures' = [failures EXCEPT ![ip] = Recent(@)]

\* check() refuses, whatever the call carries; the refusal does not count as a failure.
RefusedBy(ip) ==
    LET times == Recent(failures[ip])
    IN  /\ Len(times) >= MaxFailures
        /\ Checked(ip)
        /\ refusal' = [ip |-> ip, at |-> now, wait |-> Wait(times)]
        /\ UNCHANGED <<behind, guesses, since, store, now, restarts>>

\* check() lets the address pass; the caller does the rest.
Passes(ip) ==
    /\ Len(Recent(failures[ip])) < MaxFailures
    /\ Checked(ip)
    /\ UNCHANGED <<behind, guesses, since, refusal, now, restarts>>

-----------------------------------------------------------------------------
(* The keys.                                                               *)

Keys == {id \in Ids : key[id] # None}

\* authenticate(): the row is there and not revoked.
Active == {id \in Keys : ~key[id].revoked}

\* touch(): last_used_at is written at most once in TOUCH_EVERY_MS.  The memory
\* is set before the row: an UPDATE that fails, which is left out, leaves it ahead.
Touch(id) ==
    IF touched[id] # None /\ now - touched[id] < TouchEvery
    THEN UNCHANGED <<touched, key>>
    ELSE /\ touched' = [touched EXCEPT ![id] = now]
         /\ key' = [key EXCEPT ![id].lastUsed = now]

\* A chat or embeddings request with a good key: authenticateClient(), then touch().
ChatRequest(ip, id) ==
    /\ Passes(ip)
    /\ id \in Active
    /\ Touch(id)
    /\ usedAt' = [usedAt EXCEPT ![id] = now]
    /\ UNCHANGED usedIds

\* A missing header, an unknown or revoked key, a wrong admin token.
BadCall(ip) == FailureOf(ip)

Refused(ip) == RefusedBy(ip)

\* A call of the admin API, or a list of models: nothing is changed.
GoodCall(ip) == Passes(ip) /\ UNCHANGED store

Ordered(min, def, max) == min <= def /\ def <= max

\* What is not given: the whole range, and 3 or the nearest to it in the range.
Clamp(p, min, max) ==
    LET raised == IF p < min THEN min ELSE p IN IF raised > max THEN max ELSE raised

Or(given, default) == IF given = None THEN default ELSE given

Middle == (Top + 1) \div 2

Given == Priorities \cup {None}

Create(id, gmin, gdef, gmax) ==
    LET min == Or(gmin, 1)
        max == Or(gmax, Top)
        def == Or(gdef, Clamp(Middle, min, max))
    IN  /\ id \notin usedIds
        /\ Ordered(min, def, max)
        /\ key' = [key EXCEPT ![id] = [min |-> min, def |-> def, max |-> max,
                                    revoked |-> FALSE, lastUsed |-> None]]
        /\ usedIds' = usedIds \cup {id}
        /\ UNCHANGED <<touched, usedAt>>

\* A likely mistake: the default stays where it was when the bounds move.
UpdateKeepsDefault(id, gmin, gdef, gmax) ==
    LET min == Or(gmin, key[id].min)
        max == Or(gmax, key[id].max)
        def == Or(gdef, key[id].def)
    IN  /\ min <= max
        /\ gdef # None => Ordered(min, def, max)
        /\ key' = [key EXCEPT ![id].min = min, ![id].def = def, ![id].max = max]

\* The priorities of a PATCH: what is not sent stays, the default moved into the bounds.
UpdatePriorities(id, gmin, gdef, gmax) ==
    LET min == Or(gmin, key[id].min)
        max == Or(gmax, key[id].max)
        def == Or(gdef, Clamp(key[id].def, min, max))
    IN  /\ Ordered(min, def, max)
        /\ key' = [key EXCEPT ![id].min = min, ![id].def = def, ![id].max = max]

Update(id, gmin, gdef, gmax) ==
    /\ id \in Keys
    /\ <<gmin, gdef, gmax>> # <<None, None, None>>
    /\ UpdatePriorities(id, gmin, gdef, gmax)
    /\ UNCHANGED <<touched, usedIds, usedAt>>

Revoke(id) ==
    /\ id \in Keys
    /\ key' = [key EXCEPT ![id].revoked = TRUE]
    /\ UNCHANGED <<touched, usedIds, usedAt>>

Delete(id) ==
    /\ id \in Keys
    /\ key' = [key EXCEPT ![id] = None]
    /\ usedAt' = [usedAt EXCEPT ![id] = None]
    /\ UNCHANGED <<touched, usedIds>>

-----------------------------------------------------------------------------
Tick ==
    /\ now < MaxTime
    /\ now' = now + 1
    /\ UNCHANGED <<throttle, store, restarts>>

\* The hub starts again: the rows stay, what was in memory is gone.
Restart ==
    /\ restarts < MaxRestarts
    /\ restarts' = restarts + 1
    /\ failures' = [a \in Addresses |-> <<>>] /\ behind' = [a \in Addresses |-> {}]
    /\ guesses' = [a \in Addresses |-> <<>>] /\ since' = [a \in Addresses |-> {}]
    /\ refusal' = NoRefusal /\ touched' = [id \in Ids |-> None]
    /\ UNCHANGED <<now, key, usedIds, usedAt>>

CallStep ==
    \E ip \in Addresses :
        \/ BadCall(ip) \/ Refused(ip) \/ GoodCall(ip)
        \/ \E id \in Ids : ChatRequest(ip, id)

\* The key routes of the admin API: check() comes first.
AdminKeyCall ==
    \E ip \in Addresses, id \in Ids :
        /\ Passes(ip)
        /\ \/ \E gmin, gdef, gmax \in Given :
                 Create(id, gmin, gdef, gmax) \/ Update(id, gmin, gdef, gmax)
           \/ Revoke(id) \/ Delete(id)

\* `keys create`, `revoke` and `delete`, in a process of their own.
CommandLine ==
    /\ \E id \in Ids :
          \/ \E gmin, gdef, gmax \in Given : Create(id, gmin, gdef, gmax)
          \/ Revoke(id) \/ Delete(id)
    /\ UNCHANGED <<throttle, now, restarts>>

AccessNext == CallStep \/ AdminKeyCall \/ CommandLine \/ Tick \/ Restart

AccessSpec == AccessInit /\ [][AccessNext]_accessVars

-----------------------------------------------------------------------------
AccessTypeOK ==
    /\ now \in Times
    /\ failures \in [Addresses -> Seq(Times)] /\ guesses \in [Addresses -> Seq(Times)]
    /\ behind \in [Addresses -> SUBSET Addresses] /\ since \in [Addresses -> SUBSET Addresses]
    /\ refusal \in [ip : Addresses \cup {None}, at : Times, wait : Nat]

InWindow(times) == {i \in DOMAIN times : times[i] > now - Window}

(* "A client that keeps guessing is refused" (auth.ts:8), and a flood of   *)
(* addresses "must not wipe the memory of who is blocked" (auth.ts:50): an *)
(* address with maxFailures failures in the window is refused, unless      *)
(* maxTracked other addresses have failed after it did.                    *)
GuessersBlocked ==
    \A a \in Addresses :
        Cardinality(InWindow(guesses[a])) >= MaxFailures => Len(Recent(failures[a])) >= MaxFailures

(* Nobody is refused for failures that are too old or not its own, no more *)
(* than maxFailures count, and no more than maxTracked addresses are kept, *)
(* in the order of their latest failures.                                  *)
ThrottleIsFair ==
    /\ Cardinality(Tracked(failures)) <= MaxTracked
    /\ \A a \in Tracked(failures) :
          /\ Len(failures[a]) <= MaxFailures
          /\ \A b \in Tracked(failures) \ {a} :
                /\ b \in behind[a] <=> a \notin behind[b]
                /\ b \in behind[a] => Last(failures[a]) <= Last(failures[b])
    /\ \A a \in Addresses :
          /\ \A i \in DOMAIN Recent(failures[a]) : Recent(failures[a])[i] > now - Window
          /\ \E k \in 1 .. Len(guesses[a]) + 1 :
                Recent(failures[a]) = SubSeq(guesses[a], k, Len(guesses[a]))

(* Whoever fails no more and waits as long as Retry-After says is let in   *)
(* again.                                                                  *)
WaitIsEnough ==
    refusal # NoRefusal =>
      LET then == refusal.at + refusal.wait * Second
      IN  Len(Later(failures[refusal.ip], then - Window)) < MaxFailures

ThrottleInv == AccessTypeOK /\ GuessersBlocked /\ ThrottleIsFair /\ WaitIsEnough

KeysTypeOK ==
    /\ now \in Times /\ usedIds \subseteq Ids
    /\ key \in [Ids -> KeyRows \cup {None}]
    /\ touched \in [Ids -> Times \cup {None}] /\ usedAt \in [Ids -> Times \cup {None}]

(* What KeyStore.touched remembers is what the row says, unless the row is *)
(* gone, and it remembers nothing of an id before the id is given out.     *)
TouchedInOrder ==
    \A id \in Ids :
        /\ id \in Keys /\ touched[id] # None => key[id].lastUsed = touched[id] /\ touched[id] <= now
        /\ id \notin usedIds => key[id] = None /\ touched[id] = None /\ usedAt[id] = None

(* No sequence of creations and partial changes leaves a key whose bounds  *)
(* exclude its default, or a `last used` that is more than a minute behind *)
(* the last use, restarts included, as long as the database takes what is  *)
(* written (touch() remembers a write before it is made: keys.ts:221).     *)
KeysInOrder ==
    \A id \in Keys :
        /\ 1 <= key[id].min /\ Ordered(key[id].min, key[id].def, key[id].max) /\ key[id].max <= Top
        /\ usedAt[id] # None =>
              /\ key[id].lastUsed # None /\ key[id].lastUsed <= now
              /\ usedAt[id] - key[id].lastUsed < TouchEvery

KeysInv == KeysTypeOK /\ TouchedInOrder /\ KeysInOrder
=============================================================================
