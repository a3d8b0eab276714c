-------------------------------- MODULE Panel --------------------------------
(***************************************************************************)
(* The panel's way of loading and changing things, in one browser tab:     *)
(* the session (lib/session.ts, pages/Login.tsx), one page with a query    *)
(* (lib/query.ts) and an action whose success reloads it (lib/action.ts,   *)
(* pages/Keys.tsx), and the client that signs out when the hub refuses the *)
(* token (api/client.ts, api/context.tsx).                                 *)
(*                                                                         *)
(* The browser runs one callback at a time; between the callbacks the hub  *)
(* reads requests, other people change what it holds, and answers travel.  *)
(* An aborted request settles without any effect, because its run is no    *)
(* longer the current one by then, so it is dropped when it is aborted.    *)
(***************************************************************************)
EXTENDS Naturals

CONSTANTS
    Inputs,     \* what the query depends on: a filter, an id
    None,
    MaxRev,     \* bound: changes of the hub's data
    MaxToken    \* bound: admin tokens, one after the other

ASSUME PanelConstants == MaxRev \in Nat /\ MaxToken \in Nat \ {0}

VARIABLES
    rev,        \* how often the data on the hub has changed
    hubToken,   \* the admin token of the hub that is running
    session,    \* the panel's session store
    login,      \* a token the hub has just accepted from the login form, or None
    query,      \* the state and refs of the mounted page's useQuery, or None
    run,        \* its request on the way: that of the current `seq`, or None
    late,       \* requests no mounted page waits for: only a refusal has an effect
    action,     \* the call of the page's useAction
    told        \* history: the newest change the page was told of and reloaded for

vars == <<rev, hubToken, session, login, query, run, late, action, told>>

Tokens == 1 .. MaxToken
Outcomes == {"ok", "refused", "failed"}
NoAction == [at |-> "idle", token |-> 1, got |-> "ok", rev |-> 0, page |-> "off"]

Init ==
    /\ rev = 0 /\ hubToken = 1
    /\ session \in [token : {None, 1}, expired : {FALSE}]  \* what the storage kept
    /\ login = None /\ query = None /\ run = None
    /\ late = {} /\ action = NoAction /\ told = 0

\* What a query answers with, what the hook keeps, and its request on the way.
Answers == [inputs : Inputs, rev : 0 .. MaxRev]
Queries == [enabled : BOOLEAN, inputs : Inputs, data : {None} \cup Answers, error : BOOLEAN,
            loading : BOOLEAN, refreshing : BOOLEAN, busy : BOOLEAN]
Runs == [inputs : Inputs, token : Tokens, at : {"sent", "back"}, got : Outcomes, rev : 0 .. MaxRev]

ASSUME NoneIsNoValue ==
    /\ None \notin Tokens /\ None \notin Inputs
    /\ None \notin Answers /\ None \notin Queries /\ None \notin Runs

SignedIn == session.token # None
Mounted == query # None

-----------------------------------------------------------------------------
(* The request of a run, and what aborts it.                               *)

Request(inputs) == [inputs |-> inputs, token |-> session.token, at |-> "sent",
                    got |-> "ok", rev |-> 0]

\* run(): nothing while a request is on its way.
RunOn(q) ==
    IF q.busy THEN query' = q /\ UNCHANGED run
    ELSE /\ query' = [q EXCEPT !.busy = TRUE, !.refreshing = TRUE]
         /\ run' = Request(q.inputs)

\* A likely mistake: the cleanup leaves the request on its way alone.
CleanupLeavesRequest ==
    late' = late \cup
              (IF run = None THEN {}
               ELSE {[token |-> run.token, of |-> "query",
                      refused |-> run.at = "back" /\ run.got = "refused"]})

\* The effect's cleanup aborts the request; the run is not the current one any more.
Cleanup == late' = late

\* The refs after the cleanup, when the effect runs again.
Restarted(q) == [q EXCEPT !.busy = FALSE]

\* The hook of a page that is gone keeps its refs: its reload() still asks,
\* unless it was switched off.
Orphaned(a) ==
    IF a.page # "here" THEN a
    ELSE [a EXCEPT !.page = IF query.enabled THEN "gone" ELSE "off"]

Unmount ==
    /\ query' = None /\ run' = None
    /\ Cleanup
    /\ action' = Orphaned(action)

\* signOut(): the store is emptied, and with it the page goes.
SignOut(expired) ==
    /\ session' = [token |-> None, expired |-> expired]
    /\ Unmount

-----------------------------------------------------------------------------
(* The session.                                                            *)

\* Login.submit(): the hub is asked with the candidate, the session untouched.
HubAcceptsLogin ==
    /\ ~SignedIn /\ login = None
    /\ login' = hubToken
    /\ UNCHANGED <<rev, hubToken, session, query, run, late, action, told>>

\* signIn(), when the answer is there.
SignIn ==
    /\ login # None
    /\ session' = [token |-> login, expired |-> FALSE]
    /\ login' = None
    /\ UNCHANGED <<rev, hubToken, query, run, late, action, told>>

PersonSignsOut ==
    /\ SignedIn
    /\ SignOut(FALSE)
    /\ UNCHANGED <<rev, hubToken, login, told>>

\* The hub is started again with another MINDGATE_ADMIN_TOKEN.
TokenChanges ==
    /\ hubToken < MaxToken
    /\ hubToken' = hubToken + 1
    /\ UNCHANGED <<rev, session, login, query, run, late, action, told>>

\* Somebody or something else changes what the query shows.
HubChanges ==
    /\ rev < MaxRev
    /\ rev' = rev + 1
    /\ UNCHANGED <<hubToken, session, login, query, run, late, action, told>>

-----------------------------------------------------------------------------
(* The page with its query.                                                *)

NewQuery(on, inputs) ==
    [enabled |-> on, inputs |-> inputs, data |-> None, error |-> FALSE,
     loading |-> on, refreshing |-> on, busy |-> FALSE]

\* The page opens: state as useState has it, then the effect.
Open(on, inputs) ==
    /\ SignedIn /\ ~Mounted
    /\ IF on THEN RunOn(NewQuery(on, inputs))
       ELSE query' = NewQuery(on, inputs) /\ UNCHANGED run
    /\ UNCHANGED <<rev, hubToken, session, login, late, action, told>>

Leave ==
    /\ Mounted
    /\ Unmount
    /\ UNCHANGED <<rev, hubToken, session, login, told>>

\* The inputs, `enabled` or the interval change: cleanup, then the effect anew.
Change(on, inputs) ==
    /\ Mounted
    /\ LET q == [Restarted(query) EXCEPT !.enabled = on, !.inputs = inputs]
       IN  IF ~on
           THEN query' = [q EXCEPT !.loading = FALSE, !.refreshing = FALSE] /\ run' = None
           ELSE IF q.busy THEN query' = [q EXCEPT !.loading = TRUE] /\ run' = None
           ELSE RunOn([q EXCEPT !.loading = TRUE])
    /\ Cleanup
    /\ UNCHANGED <<rev, hubToken, session, login, action, told>>

\* The interval, or the tab coming to the front; a hidden tab lets its ticks pass.
Tick ==
    /\ Mounted /\ query.enabled /\ ~query.busy
    /\ RunOn(query)
    /\ UNCHANGED <<rev, hubToken, session, login, late, action, told>>

\* A likely mistake: a reload is content with the request that is on its way.
ReloadJoins ==
    IF query.enabled THEN RunOn(query) ELSE UNCHANGED <<query, run>>

\* reload(): abort what is on its way and ask again; not while switched off.
Reload ==
    IF query.enabled THEN RunOn([query EXCEPT !.busy = FALSE])
    ELSE UNCHANGED <<query, run>>

PressReload ==
    /\ Mounted
    /\ Reload
    /\ UNCHANGED <<rev, hubToken, session, login, late, action, told>>

\* What the hub says to a token, unless it or the network fails.
Verdict(token) == IF token = hubToken THEN "ok" ELSE "refused"

HubReads ==
    /\ run # None /\ run.at = "sent"
    /\ \E got \in {Verdict(run.token), "failed"} :
          run' = [run EXCEPT !.at = "back", !.got = got, !.rev = IF got = "ok" THEN rev ELSE 0]
    /\ UNCHANGED <<rev, hubToken, session, login, query, late, action, told>>

Settled(q) == [q EXCEPT !.busy = FALSE, !.loading = FALSE, !.refreshing = FALSE]

\* The answer of the current run: data, or an error beside the old data.
RunSettles ==
    /\ run # None /\ run.at = "back" /\ run.got # "refused"
    /\ query' = IF run.got = "ok"
                THEN [Settled(query) EXCEPT !.error = FALSE,
                        !.data = [inputs |-> run.inputs, rev |-> run.rev]]
                ELSE [Settled(query) EXCEPT !.error = TRUE]
    /\ run' = None
    /\ UNCHANGED <<rev, hubToken, session, login, late, action, told>>

\* A 401: onAuthFailed signs out, and the page is gone.
RunRefused ==
    /\ run # None /\ run.at = "back" /\ run.got = "refused"
    /\ SignOut(TRUE)
    /\ UNCHANGED <<rev, hubToken, login, told>>

-----------------------------------------------------------------------------
(* The action.                                                             *)

Act ==
    /\ Mounted /\ action.at = "idle"
    /\ action' = [at |-> "sent", token |-> session.token, got |-> "ok", rev |-> 0, page |-> "here"]
    /\ UNCHANGED <<rev, hubToken, session, login, query, run, late, told>>

\* The hub does what is asked, refuses it, or fails; or its answer is lost.
HubActs ==
    /\ action.at = "sent"
    /\ \/ /\ Verdict(action.token) = "ok" /\ rev < MaxRev
          /\ rev' = rev + 1
          /\ \E got \in {"ok", "failed"} :
                action' = [action EXCEPT !.at = "back", !.got = got, !.rev = rev + 1]
       \/ /\ \E got \in {"refused", "failed"} :
                /\ got = "refused" => Verdict(action.token) = "refused"
                /\ action' = [action EXCEPT !.at = "back", !.got = got]
          /\ UNCHANGED rev
    /\ UNCHANGED <<hubToken, session, login, query, run, late, told>>

\* Success reloads the query of the page that started the action, be it gone.
ActionSucceeds ==
    /\ action.at = "back" /\ action.got = "ok"
    /\ action' = NoAction
    /\ CASE action.page = "here" ->
              /\ Reload
              /\ told' = IF query.enabled THEN action.rev ELSE told
              /\ UNCHANGED late
         [] action.page = "gone" ->
              /\ late' = late \cup {[token |-> session.token, of |-> "reload", refused |-> FALSE]}
              /\ UNCHANGED <<query, run, told>>
         [] action.page = "off" -> UNCHANGED <<query, run, told, late>>
    /\ UNCHANGED <<rev, hubToken, session, login>>

ActionFails ==
    /\ action.at = "back" /\ action.got = "failed"
    /\ action' = NoAction
    /\ UNCHANGED <<rev, hubToken, session, login, query, run, late, told>>

\* The call of an action carries no abort signal: a refusal signs out whoever is in.
ActionRefused ==
    /\ action.at = "back" /\ action.got = "refused"
    /\ session' = [token |-> None, expired |-> TRUE]
    /\ query' = None /\ run' = None /\ Cleanup
    /\ action' = NoAction
    /\ UNCHANGED <<rev, hubToken, login, told>>

\* A request without a page, sent by the reload of one that is gone.
LateRead(l) ==
    /\ ~l.refused
    /\ late' = (late \ {l}) \cup
                 (IF Verdict(l.token) = "refused" THEN {[l EXCEPT !.refused = TRUE]} ELSE {})
    /\ UNCHANGED <<rev, hubToken, session, login, query, run, action, told>>

LateRefused(l) ==
    /\ l.refused
    /\ session' = [token |-> None, expired |-> TRUE]
    /\ query' = None /\ run' = None
    /\ action' = Orphaned(action)
    /\ late' = late \ {l}
    /\ UNCHANGED <<rev, hubToken, login, told>>

-----------------------------------------------------------------------------
Next ==
    \/ HubAcceptsLogin \/ SignIn \/ PersonSignsOut \/ TokenChanges \/ HubChanges
    \/ \E on \in BOOLEAN, inputs \in Inputs : Open(on, inputs) \/ Change(on, inputs)
    \/ Leave \/ Tick \/ PressReload
    \/ HubReads \/ RunSettles \/ RunRefused
    \/ Act \/ HubActs \/ ActionSucceeds \/ ActionFails \/ ActionRefused
    \/ \E l \in late : LateRead(l) \/ LateRefused(l)

Spec == Init /\ [][Next]_vars
=============================================================================
