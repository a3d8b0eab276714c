------------------------------ MODULE LogPage ------------------------------
(***************************************************************************)
(* The request log in the panel (pages/Log.tsx, lib/log.ts) over the log   *)
(* route of the hub (routes-admin.ts, recentLog of store/usage.ts).  The   *)
(* newest page is the query of Panel; older pages are fetched on request   *)
(* and joined with it.  The hub's data after `rev` changes is the log of   *)
(* the requests 1 .. rev, so a change is a request that ended.             *)
(***************************************************************************)
EXTENDS Panel, FiniteSets, FiniteSetsExt

CONSTANTS
    Page,       \* PAGE, the limit of every call
    Matches     \* for each filter (of Inputs) the ids it lets through

ASSUME LogConstants == Page \in Nat \ {0} /\ Matches \in [Inputs -> SUBSET Nat]

VARIABLES
    seen,       \* the list on screen, the filter it belongs to and `exhausted`
    older,      \* loadOlder's request, or None (bound: one on its way)
    loading,    \* more.loading
    patchy      \* history: the list was joined with a page that need not meet it

logVars == <<vars, seen, older, loading, patchy>>

\* recentLog(): the newest rows that match, up to the limit.
RecentLog(filter, upTo) ==
    LET rows == (1 .. upTo) \cap Matches[filter]
    IN  {i \in rows : Cardinality({j \in rows : j >= i}) <= Page}

OlderPages == [filter : Inputs, before : 1 .. MaxRev, token : Tokens, at : {"sent", "back"},
               got : Outcomes, rows : SUBSET (1 .. MaxRev), page : BOOLEAN, same : BOOLEAN]

ASSUME NoneIsNoPage == None \notin OlderPages

NothingSeen == [filter |-> None, rows |-> {}, exhausted |-> FALSE]

LogInit == Init /\ seen = NothingSeen /\ older = None /\ loading = FALSE /\ patchy = FALSE

\* The rows on screen: those of another filter are not shown.
Shown == IF Mounted /\ seen.filter = query.inputs THEN seen.rows ELSE {}

CanMore == ~(seen.filter = query.inputs /\ seen.exhausted) /\ Cardinality(Shown) >= Page

-----------------------------------------------------------------------------
MergeLog(rows, page) == rows \cup page

\* A likely mistake: `exhausted` outlives a change of the filter.
StaysExhausted(filter) == seen.exhausted

KeepsExhausted(filter) == seen.filter = filter /\ seen.exhausted

\* More rows came between two looks than one page holds.
Swamped(filter, upTo) ==
    /\ seen.filter = filter /\ seen.rows # {}
    /\ Cardinality((Max(seen.rows) + 1 .. upTo) \cap Matches[filter]) > Page

\* The effects of Log(): data of this filter is joined, a new filter starts over.
Follow ==
    LET q == query'
        fresh == q # None /\ q.data # None /\ q.data.inputs = q.inputs
        restarts == fresh /\ seen.filter # q.inputs
    IN  /\ CASE q = None -> seen' = NothingSeen /\ patchy' = FALSE
             [] fresh ->
                  /\ seen' = [filter |-> q.inputs, exhausted |-> KeepsExhausted(q.inputs),
                              rows |-> MergeLog(IF restarts THEN {} ELSE seen.rows,
                                                RecentLog(q.inputs, q.data.rev))]
                  /\ patchy' = (~restarts /\ (patchy \/ Swamped(q.inputs, q.data.rev)))
             [] q # None /\ ~fresh -> UNCHANGED <<seen, patchy>>
        /\ loading' = (loading /\ Mounted /\ q # None /\ q.inputs = query.inputs)
        /\ older' = IF older = None THEN None
                    ELSE [older EXCEPT !.page = @ /\ q # None, !.same = @ /\ ~restarts]

\* Everything of Panel, with the page's effects behind it.  Bound: an action and
\* an older page are not on their way together.
PanelStep == Next /\ Follow /\ (older = None \/ action' = NoAction)

LoadOlder ==
    /\ Shown # {} /\ CanMore /\ ~loading /\ older = None /\ action = NoAction
    /\ loading' = TRUE
    /\ older' = [filter |-> query.inputs, before |-> Min(Shown), token |-> session.token,
                 at |-> "sent", got |-> "ok", rows |-> {}, page |-> TRUE, same |-> TRUE]
    /\ UNCHANGED <<vars, seen, patchy>>

OlderRows(o) == RecentLog(o.filter, o.before - 1)

HubReadsOlder ==
    /\ older # None /\ older.at = "sent"
    /\ \E got \in {Verdict(older.token), "failed"} :
          older' = [older EXCEPT !.at = "back", !.got = got,
                       !.rows = IF got = "ok" THEN OlderRows(older) ELSE {}]
    /\ UNCHANGED <<vars, seen, loading, patchy>>

\* The page is joined if the filter is (again) the one it was asked for.
OlderArrives ==
    /\ older # None /\ older.at = "back" /\ older.got = "ok"
    /\ IF older.page /\ seen.filter = older.filter
       THEN /\ seen' = [seen EXCEPT !.rows = MergeLog(@, older.rows),
                                    !.exhausted = Cardinality(older.rows) < Page]
            /\ patchy' = (patchy \/ ~older.same)
       ELSE UNCHANGED <<seen, patchy>>
    /\ loading' = (loading /\ ~older.page)
    /\ older' = None
    /\ UNCHANGED vars

OlderFails ==
    /\ older # None /\ older.at = "back" /\ older.got = "failed"
    /\ loading' = (loading /\ ~older.page)
    /\ older' = None
    /\ UNCHANGED <<vars, seen, patchy>>

\* api.log() for older rows has no abort signal either.
OlderRefused ==
    /\ older # None /\ older.at = "back" /\ older.got = "refused"
    /\ SignOut(TRUE)
    /\ seen' = NothingSeen /\ patchy' = FALSE /\ loading' = FALSE
    /\ older' = None
    /\ UNCHANGED <<rev, hubToken, login, told>>

LogNext == PanelStep \/ LoadOlder \/ HubReadsOlder \/ OlderArrives \/ OlderFails \/ OlderRefused

LogSpec == LogInit /\ [][LogNext]_logVars

-----------------------------------------------------------------------------
PanelTypeOK ==
    /\ rev \in 0 .. MaxRev /\ hubToken \in Tokens
    /\ session \in [token : Tokens \cup {None}, expired : BOOLEAN]
    /\ login \in Tokens \cup {None}
    /\ query \in Queries \cup {None}
    /\ run \in Runs \cup {None}
    /\ late \subseteq [token : Tokens \cup {None}, of : {"query", "reload"}, refused : BOOLEAN]
    /\ action \in [at : {"idle", "sent", "back"}, token : Tokens, got : Outcomes,
                   rev : 0 .. MaxRev, page : {"here", "gone", "off"}]
    /\ told \in 0 .. MaxRev

TypeOK ==
    /\ PanelTypeOK
    /\ seen \in [filter : Inputs \cup {None}, rows : SUBSET (1 .. rev), exhausted : BOOLEAN]
    /\ older \in OlderPages \cup {None}
    /\ loading \in BOOLEAN /\ patchy \in BOOLEAN

(* The hook is busy, and says it is refreshing, exactly while the request  *)
(* of its latest run is on its way (query.ts): a flag that outlived its    *)
(* request would stop every later poll.                                    *)
BusyIsARequest ==
    Mounted =>
      /\ query.busy <=> run # None
      /\ query.refreshing <=> run # None
      /\ query.loading => query.refreshing
      /\ run # None => run.inputs = query.inputs

(* "loading: No answer yet for the current inputs" (query.ts:7): a page    *)
(* that neither loads nor shows an error shows the answer to its inputs.   *)
ShowsItsInputs ==
    (Mounted /\ query.enabled /\ ~query.loading /\ ~query.error)
      => query.data # None /\ query.data.inputs = query.inputs

(* After a successful action the page settles on data that has the change  *)
(* in it, whichever polls were on their way when it was made.              *)
ShowsItsChange ==
    (Mounted /\ query.enabled /\ ~query.refreshing /\ ~query.error) => query.data.rev >= told

QueryInv == TypeOK /\ BusyIsARequest /\ ShowsItsInputs /\ ShowsItsChange

(* What the rest of the code relies on without saying so.  A page is there *)
(* only while somebody is signed in, and its request carries the token of  *)
(* the session; what the hub refuses carries a token it no longer takes.   *)
Obsolete(token) == token # None => token < hubToken

SessionInOrder ==
    /\ SignedIn => session.token <= hubToken /\ ~session.expired /\ login = None
    /\ login # None => login <= hubToken
    /\ Mounted => SignedIn
    /\ run # None => Mounted /\ run.token = session.token
    /\ run # None /\ run.at = "back" /\ run.got = "refused" => Obsolete(run.token)
    /\ action.token <= hubToken /\ (action.page = "here" => Mounted)
    /\ action.at = "back" /\ action.got = "refused" => Obsolete(action.token)
    /\ \A l \in late : /\ l.of = "reload" /\ (l.token # None => l.token <= hubToken)
                       /\ l.refused => Obsolete(l.token)

(* Answers come from the past, none older than the answer before it or     *)
(* than the change the page was told of.                                   *)
AnswersInOrder ==
    /\ told <= rev /\ action.rev <= rev
    /\ Mounted /\ query.data # None => query.data.rev <= rev
    /\ run # None /\ run.at = "back" /\ run.got = "ok" =>
          /\ told <= run.rev /\ run.rev <= rev
          /\ query.data # None => query.data.rev <= run.rev

(* The list on screen is taken from the answers so far, and an older page  *)
(* on its way continues it where it was asked for.                         *)
ListInOrder ==
    /\ ~Mounted => seen = NothingSeen
    /\ seen.rows # {} =>
          /\ seen.filter # None /\ seen.rows \subseteq Matches[seen.filter]
          /\ query.data # None /\ seen.rows \subseteq 1 .. query.data.rev
    /\ older # None =>
          /\ older.token <= hubToken
          /\ older.at = "back" /\ older.got = "refused" => Obsolete(older.token)
          /\ older.at = "back" /\ older.got = "ok" => older.rows = OlderRows(older)
          /\ older.page => Mounted /\ query.data # None /\ older.before <= query.data.rev
          /\ older.page /\ older.same => seen.filter = older.filter /\ older.before \in seen.rows

(* No row between two rows of the list is missing, or none below a row.   *)
Gapless(rows, all) == \A i, k \in rows : \A j \in all : i < j /\ j < k => j \in rows
ReachesDown(rows, all) == \A k \in rows : \A j \in all : 1 <= j /\ j < k => j \in rows

(* The list has no gap, and once an older page, or the list, was not full  *)
(* it goes down to the beginning.                                          *)
ListIsWhole ==
    ~patchy =>
      /\ Gapless(seen.rows, Matches[seen.filter])
      /\ seen.exhausted => seen.rows # {}
      /\ seen.exhausted \/ Cardinality(seen.rows) < Page
            => ReachesDown(seen.rows, Matches[seen.filter])

(* QueryInv with all that it takes to show it, EndIsTrue and SessionEnds.  *)
PageInv == QueryInv /\ SessionInOrder /\ AnswersInOrder /\ ListInOrder /\ ListIsWhole

(* "That is everything" below the log is true: unless a page was joined    *)
(* that need not meet the list (the panel was not looking while more than  *)
(* a page of requests ended, or a straggling older page came after the     *)
(* filter was left and taken up again), no request between the first row   *)
(* and the beginning of the log is missing.                                *)
EndIsTrue ==
    (Shown # {} /\ ~CanMore /\ ~patchy)
      => Shown = (1 .. Max(Shown)) \cap Matches[query.inputs]

(* A session the hub still accepts is not thrown away (session.ts: "the    *)
(* hub refused the token we had") by a request of the mounted page's query *)
(* or of an earlier one, which are aborted: only a call without an abort   *)
(* signal that was sent with another token can do that.                    *)
SessionEnds ==
    [][(SignedIn /\ session'.expired) =>
         \/ session.token # hubToken
         \/ (action.at = "back" /\ action.token # session.token)
         \/ (older # None /\ older.token # session.token)
         \/ \E l \in late : l.of = "reload" /\ l.token # session.token]_logVars
=============================================================================
