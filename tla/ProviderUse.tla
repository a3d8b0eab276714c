---------------------------- MODULE ProviderUse ----------------------------
(***************************************************************************)
(* What the request path derives from a provider's row and keeps beside    *)
(* it: the concurrency limiter (Registry), the opened API key              *)
(* (ProviderStore) and the count of requests on the machine (NodeManager). *)
(* All three are told of every change of the provider.  A request keeps    *)
(* the row it was routed with while it waits for the machine and for its   *)
(* slot.  Composed with Catalogue, whose owner makes the changes.          *)
(***************************************************************************)
EXTENDS Catalogue, Integers

CONSTANTS
    Requests,
    Limiters,   \* PriorityLimiter objects; an unused one stands for a new one
    MaxActive   \* bound on requests, listings and downloads under way together

ASSUME UseConstants ==
    /\ IsFiniteSet(Requests) /\ IsFiniteSet(Limiters)
    /\ Cardinality(Limiters) > Cardinality(Requests)
    /\ None \notin Limiters \cup [id : Limiters, max : {1, 2}] \cup {0, 1, 2}

VARIABLES
    request,    \* what each request is doing
    current,    \* the limiter the registry holds for the provider and its max, or None
    cached,     \* the opened key, with the sealed one it was opened from
    master,     \* the master key of the running hub
    sealedBy,   \* the master key the stored API key was sealed with
    inflight,   \* NodeManager's count for the machine
    settled,    \* history: nobody routed before the last change took a slot since
    kept        \* history: the count was not forgotten under a running request

useVars == <<request, current, cached, master, sealedBy, inflight, settled, kept>>
allVars == <<vars, useVars>>

\* `used`: 0 for a call without a key, None for one whose key cannot be opened.
IdleRequest == [at |-> "idle", max |-> 1, fresh |-> FALSE, limiter |-> None,
                used |-> 0]

UseTypeOK ==
    /\ request \in [Requests ->
          [at : {"idle", "ensuring", "waiting", "calling"}, max : {1, 2},
           fresh : BOOLEAN, limiter : Limiters \cup {None}, used : {0, 1, 2, None}]]
    /\ current \in [id : Limiters, max : {1, 2}] \cup {None}
    /\ cached \in {None, 1, 2}
    /\ master \in {1, 2} /\ sealedBy \in {1, 2}
    /\ inflight \in 0 .. Cardinality(Requests)
    /\ settled \in BOOLEAN /\ kept \in BOOLEAN

UseInit ==
    /\ Init
    /\ request = [r \in Requests |-> IdleRequest]
    /\ current = None
    /\ cached = None
    /\ master = 1 /\ sealedBy = 1
    /\ inflight = 0
    /\ settled = TRUE /\ kept = TRUE

Calling == {r \in Requests : request[r].at = "calling"}
In(l) == {r \in Calling : request[r].limiter = l}
WaitingIn(l) == {r \in Requests : request[r].at = "waiting" /\ request[r].limiter = l}
Active == Cardinality({r \in Requests : request[r].at # "idle"}) +
          Cardinality({s \in Syncs : sync[s].at # "idle"}) +
          Cardinality({j \in Jobs : job[j].status = "running" \/ job[j].watched})

\* ProviderStore.secret: the cached value only if it was opened from the row's
\* sealed key; a key sealed with another master key cannot be opened.
Secret ==
    IF provider = None THEN 0
    ELSE IF cached = provider.secret \/ sealedBy = master THEN provider.secret
    ELSE None

SecretNowCached ==
    cached' = IF provider # None /\ Secret # None THEN provider.secret ELSE cached

-----------------------------------------------------------------------------
\* The router gives the request the provider's row as it is now.
Route(r) ==
    /\ request[r].at = "idle"
    /\ Active < MaxActive
    /\ provider # None
    /\ provider.enabled
    /\ request' = [request EXCEPT ![r] = [IdleRequest EXCEPT !.at = "ensuring",
                      !.max = provider.max, !.fresh = TRUE]]
    /\ UNCHANGED <<current, cached, master, sealedBy, inflight, settled, kept>>

\* The machine does not come up, or the client leaves.
EnsureFails(r) ==
    /\ request[r].at = "ensuring"
    /\ request' = [request EXCEPT ![r] = IdleRequest]
    /\ UNCHANGED <<current, cached, master, sealedBy, inflight, settled, kept>>

\* What stands for a new PriorityLimiter: one that nobody refers to.
Unused == {l \in Limiters : /\ In(l) = {} /\ WaitingIn(l) = {}
                            /\ current # None => l # current.id}

\* A likely mistake: a limiter of its own for every request.
LimiterAnew(max) == [id |-> CHOOSE l \in Unused : TRUE, max |-> max]

\* Registry.limiter: the one it holds if its size is the row's, else a new one
\* in its place.
LimiterFor(max) ==
    IF current # None /\ current.max = max THEN current
    ELSE [id |-> CHOOSE l \in Unused : TRUE, max |-> max]

\* The machine is up: the request takes a limiter, and a slot if one is free;
\* the call is prepared as soon as it has the slot.
TakeSlot(r) ==
    /\ request[r].at = "ensuring"
    /\ current' = LimiterFor(request[r].max)
    /\ LET l == LimiterFor(request[r].max).id
       IN IF Cardinality(In(l)) < request[r].max
          THEN /\ request' = [request EXCEPT ![r].at = "calling",
                                 ![r].limiter = l, ![r].used = Secret]
               /\ SecretNowCached
               /\ inflight' = inflight + 1
          ELSE /\ request' = [request EXCEPT ![r].at = "waiting", ![r].limiter = l]
               /\ UNCHANGED <<cached, inflight>>
    /\ settled' = (settled /\ request[r].fresh)
    /\ UNCHANGED <<master, sealedBy, kept>>

\* The wait is given up: the line is full, its time is over, the client left.
LeaveLine(r) ==
    /\ request[r].at = "waiting"
    /\ request' = [request EXCEPT ![r] = IdleRequest]
    /\ UNCHANGED <<current, cached, master, sealedBy, inflight, settled, kept>>

\* A likely mistake: the count may go below zero.
EndedUnchecked(n) == n - 1

Ended(n) == IF n = 0 THEN 0 ELSE n - 1

\* A call ends: the count goes down, but not below zero, and the slot passes to
\* one that waits in the same limiter, whichever the registry holds by now.
Finish(r) ==
    LET l == request[r].limiter
        idle == [request EXCEPT ![r] = IdleRequest]
    IN
    /\ request[r].at = "calling"
    /\ IF WaitingIn(l) = {}
       THEN /\ request' = idle
            /\ inflight' = Ended(inflight)
            /\ UNCHANGED cached
       ELSE \E w \in WaitingIn(l) :
            /\ request' = [idle EXCEPT ![w].at = "calling", ![w].used = Secret]
            /\ inflight' = Ended(inflight) + 1
            /\ SecretNowCached
    /\ kept' = (kept \/ Calling = {r})
    /\ UNCHANGED <<current, master, sealedBy, settled>>

\* ProviderStore.emit, after every change: the opened key is dropped, then the
\* registry forgets the limiter and, for a provider that is no machine (any
\* more), the node manager its count.
Emit ==
    /\ cached' = None
    /\ current' = None
    /\ request' = [r \in Requests |-> [request[r] EXCEPT !.fresh = FALSE]]
    /\ settled' = TRUE
    /\ IF provider' = None \/ ~provider'.agent
       THEN inflight' = 0 /\ kept' = (kept /\ Calling = {})
       ELSE UNCHANGED <<inflight, kept>>
    /\ sealedBy' = IF provider' # None /\
                      (provider = None \/ provider'.secret # provider.secret)
                   THEN master ELSE sealedBy
    /\ UNCHANGED master

\* A restart loses all of it, and may bring another master key.
ForgetUse ==
    /\ request' = [r \in Requests |-> IdleRequest]
    /\ current' = None
    /\ cached' = None
    /\ inflight' = 0
    /\ settled' = TRUE /\ kept' = TRUE
    /\ master' \in {1, 2}
    /\ UNCHANGED sealedBy

UseStep(r) ==
    Route(r) \/ EnsureFails(r) \/ TakeSlot(r) \/ LeaveLine(r) \/ Finish(r)

UseNext ==
    \/ ChangeProvider /\ Emit
    \/ RestartHub /\ ForgetUse
    \/ Others /\ UNCHANGED useVars /\ (Active' <= MaxActive \/ Active' <= Active)
    \/ \E r \in Requests : UseStep(r) /\ UNCHANGED vars

\* The timer of a watch goes off.  That a call ends is not assumed: send() has a
\* deadline for the headers, but none for the body (upstream.ts:97).
UseSpec ==
    /\ UseInit
    /\ [][UseNext]_allVars
    /\ \A j \in Jobs : WF_allVars(WatchTurn(j) /\ UNCHANGED useVars)

-----------------------------------------------------------------------------
\* No limiter exceeds its own size, and nobody waits in one that has a free slot.
SlotsRight ==
    \A r \in Requests :
        LET taken == Cardinality(In(request[r].limiter))
        IN /\ request[r].at = "calling" => taken <= request[r].max
           /\ request[r].at = "waiting" => taken = request[r].max

\* The machine's count, unless it was forgotten under a running request.
CountRight ==
    /\ inflight <= Cardinality(Calling)
    /\ kept => inflight = Cardinality(Calling)

KeyRight ==
    \A r \in Calling :
        request[r].fresh => \/ request[r].used = provider.secret
                            \/ request[r].used = None /\ sealedBy # master

\* What the three need: those in the same limiter agree on its size ...
InLimiter == {r \in Requests : request[r].at \in {"waiting", "calling"}}

LimitersAgree ==
    /\ \A r \in Requests : r \in InLimiter <=> request[r].limiter # None
    /\ \A r, q \in InLimiter :
          request[r].limiter = request[q].limiter => request[r].max = request[q].max
    /\ \A r \in InLimiter :
          current # None /\ current.id = request[r].limiter => current.max = request[r].max

\* ... and a request routed since the last change has the row that is stored;
\* if nobody else took a slot since, it is in the limiter the registry holds.
RowsFresh ==
    \A r \in Requests : request[r].fresh =>
        /\ provider # None /\ request[r].max = provider.max
        /\ settled /\ r \in InLimiter => current # None /\ request[r].limiter = current.id

\* However often the provider is changed under running requests: no limiter
\* exceeds its own size, nobody waits in one that has a free slot (also one the
\* registry has forgotten), the machine's count is never too high and is exact
\* unless it was forgotten under a running request, and a request routed since
\* the last change calls with the key that is stored, unless it cannot be
\* opened (registry.ts, node.ts begin/end, store/providers.ts secret).
UseInv == UseTypeOK /\ SlotsRight /\ CountRight /\ KeyRight /\ LimitersAgree /\ RowsFresh

\* max_concurrency holds for the requests routed since the provider was last
\* changed, until one that was routed before the change takes a slot: the old
\* row then brings back a limiter of the old size beside the new one
\* (registry.ts limiter, chat.ts:311).
FreshWithinMax ==
    settled => LET fresh == {r \in Calling : request[r].fresh}
               IN fresh # {} => Cardinality(fresh) <= provider.max
=============================================================================
