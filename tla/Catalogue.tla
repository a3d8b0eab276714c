----------------------------- MODULE Catalogue -----------------------------
(***************************************************************************)
(* The hub's catalogue of one provider's models and everything that writes *)
(* to it: the owner (admin routes), the listings fetched from the upstream *)
(* (ModelSync, several of which may be under way at once), the downloads   *)
(* the hub follows on the machine's agent (NodeClient) and the removal of  *)
(* a model from the machine.  Rows are in the database and survive a       *)
(* restart of the hub; what NodeClient remembers and the listings under    *)
(* way do not.                                                             *)
(***************************************************************************)
EXTENDS Naturals, FiniteSets

CONSTANTS
    Models,        \* upstream ids
    CloudModels,   \* those the upstream reports as running in the cloud
    Kinds,         \* kinds of models
    Reports,       \* the kind the upstream reports of each model
    Guesses,       \* the kind that each model's name suggests
    Drafts,        \* places and kinds the owner adds a model with (a bound)
    Syncs,         \* listings that may be under way at once (a bound)
    Jobs,          \* downloads on the agent
    TargetOf,      \* the model a download brings
    AtFirst,       \* what the upstream lists at first (a bound)
    MaxFailures,   \* polls in a row a watch survives (30 in the code)
    MaxOps,        \* bound on what the owner and the world do
    None

ASSUME CatalogueConstants ==
    /\ CloudModels \subseteq Models
    /\ AtFirst \subseteq Models
    /\ Reports \in [Models -> Kinds] /\ Guesses \in [Models -> Kinds]
    /\ Drafts \subseteq [place : {"unset", "local", "cloud"}, kind : Kinds \cup {"unset"}]
    /\ "unset" \notin Kinds
    /\ TargetOf \in [Jobs -> Models]
    /\ MaxFailures \in Nat \ {0}
    /\ MaxOps \in Nat
    /\ None \notin Models \cup Jobs

VARIABLES
    provider,   \* the row of providers, or None
    model,      \* the rows of models
    machine,    \* what the upstream lists
    sync,       \* listings under way
    job,        \* downloads: on the agent, and what NodeClient keeps of them
    ops,        \* bound
    shown       \* history: what the catalogue should show as present

vars == <<provider, model, machine, sync, job, ops, shown>>

Words == {"unset", "yes", "no"}
Places == {"unset", "local", "cloud"}

ProviderRecord ==
    [enabled : BOOLEAN, auto : BOOLEAN, local : BOOLEAN, agent : BOOLEAN,
     max : {1, 2}, secret : {1, 2}, synced : BOOLEAN, error : BOOLEAN]

ModelRecord ==
    [source : {"synced", "manual"}, cloud : BOOLEAN, reported : Kinds, enabled : Words,
     place : Places, kind : Kinds \cup {"unset"}, present : BOOLEAN]

\* Why a listing is fetched decides what follows it: a removal ends in a purge.
Reasons == {"asked", "timer", "download", "removal"}
SyncRecord ==
    [at : {"idle", "probing", "removing", "listing", "answered"},
     why : Reasons, item : Models \cup {None}, auto : BOOLEAN,
     list : SUBSET Models]
IdleSync == [at |-> "idle", why |-> "asked", item |-> None, auto |-> FALSE,
             list |-> {}]

JobRecord ==
    [status : {"none", "running", "succeeded", "failed", "gone"},
     watched : BOOLEAN,   \* a watch follows it
     asked : BOOLEAN,     \* the watch's call to the agent is under way
     failures : 0 .. MaxFailures, marked : BOOLEAN]

\* None is no row.
ASSUME NoneIsNoRow == None \notin ModelRecord \cup ProviderRecord

CatalogueTypeOK ==
    /\ provider \in ProviderRecord \cup {None}
    /\ model \in [Models -> ModelRecord \cup {None}]
    /\ machine \subseteq Models
    /\ sync \in [Syncs -> SyncRecord]
    /\ job \in [Jobs -> JobRecord]
    /\ ops \in 0 .. MaxOps
    /\ shown \subseteq Models

Init ==
    /\ provider \in {p \in ProviderRecord :
                        p.enabled /\ ~p.synced /\ ~p.error /\ p.agent /\
                        p.max = 1 /\ p.secret = 1 /\ p.local}
    /\ model = [m \in Models |-> None]
    /\ machine = AtFirst
    /\ sync = [s \in Syncs |-> IdleSync]
    /\ job = [j \in Jobs |-> [status |-> "none", watched |-> FALSE,
                              asked |-> FALSE, failures |-> 0, marked |-> FALSE]]
    /\ ops = 0
    /\ shown = {}

Op == ops < MaxOps /\ ops' = ops + 1

-----------------------------------------------------------------------------
(* What a row means.                                                        *)

\* The owner's word wins; otherwise the upstream may only lower the model to
\* the cloud, and everything else takes the provider's setting.
Local(m) ==
    \/ model[m].place = "local"
    \/ model[m].place = "unset" /\ ~model[m].cloud /\ provider.local

Enabled(m) == model[m].enabled # "no"

Kind(m) == IF model[m].kind = "unset" THEN model[m].reported ELSE model[m].kind

\* The endpoints that ask for a model, each named for the kind it wants.
Endpoints == {"chat", "embedding"}

\* A key's allow-list: None for everything, the whole provider, or some ids.
AllowedBy(patterns, m) == patterns = None \/ m \in patterns

\* A likely mistake: the kind of the model is not looked at.
ServesAnyKind(m, patterns, localOnly, endpoint) ==
    /\ model[m] # None
    /\ AllowedBy(patterns, m)
    /\ provider # None
    /\ provider.enabled
    /\ Enabled(m)
    /\ localOnly => Local(m)

\* Router.resolve gives the model to a request of the endpoint.
Serves(m, patterns, localOnly, endpoint) ==
    /\ model[m] # None
    /\ AllowedBy(patterns, m)
    /\ provider # None
    /\ provider.enabled
    /\ Enabled(m)
    /\ Kind(m) = endpoint
    /\ localOnly => Local(m)

\* Router.list shows the model to a key.
Listed(m, patterns, localOnly) ==
    /\ model[m] # None
    /\ provider # None
    /\ provider.enabled
    /\ Enabled(m)
    /\ model[m].present \/ model[m].source = "manual"
    /\ AllowedBy(patterns, m)
    /\ localOnly => Local(m)

-----------------------------------------------------------------------------
(* Listings.                                                                *)

\* A likely mistake: whatever is not listed is absent, the owner's own models too.
SyncMarksAll(list, auto) ==
    [m \in Models |->
        IF model[m] = None
        THEN IF m \in list
             THEN [source |-> "synced", cloud |-> m \in CloudModels, reported |-> Reports[m],
                   enabled |-> IF auto THEN "unset" ELSE "no",
                   place |-> "unset", kind |-> "unset", present |-> TRUE]
             ELSE None
        ELSE [model[m] EXCEPT !.present = m \in list]]

\* A likely mistake: a listed model is written anew.
SyncWritesAnew(list, auto) ==
    [m \in Models |->
        IF m \in list
        THEN [source |-> "synced", cloud |-> m \in CloudModels, reported |-> Reports[m],
              enabled |-> IF auto THEN "unset" ELSE "no",
              place |-> "unset", kind |-> "unset", present |-> TRUE]
        ELSE IF model[m] # None /\ model[m].source = "synced"
             THEN [model[m] EXCEPT !.present = FALSE]
             ELSE model[m]]

\* The rows after a listing: new models appear, known ones are refreshed and
\* present again, synced ones that are not listed are marked absent and kept.
SyncProvider(list, auto) ==
    [m \in Models |->
        IF m \in list
        THEN IF model[m] = None
             THEN [source |-> "synced", cloud |-> m \in CloudModels, reported |-> Reports[m],
                   enabled |-> IF auto THEN "unset" ELSE "no",
                   place |-> "unset", kind |-> "unset", present |-> TRUE]
             ELSE [model[m] EXCEPT !.cloud = m \in CloudModels,
                                   !.reported = Reports[m],
                                   !.present = TRUE]
        ELSE IF model[m] # None /\ model[m].source = "synced"
             THEN [model[m] EXCEPT !.present = FALSE]
             ELSE model[m]]

\* What follows a listing that has ended: a removed model's row is deleted.
Purged(s, rows) ==
    IF sync[s].why = "removal" THEN [rows EXCEPT ![sync[s].item] = None] ELSE rows

Forgotten(s) == IF sync[s].why = "removal" THEN {sync[s].item} ELSE {}

ManualModels == {m \in Models : model[m] # None /\ model[m].source = "manual"}

\* syncOne begins: it refuses a provider that is gone before it asks anybody.
SyncOne(s, why, item) ==
    /\ sync[s].at = "idle"
    /\ sync' = IF provider = None THEN sync
               ELSE [sync EXCEPT ![s] =
                        [at |-> "listing", why |-> why, item |-> item,
                         auto |-> provider.auto, list |-> {}]]

\* The upstream makes up its answer.
UpstreamAnswers(s) ==
    /\ sync[s].at = "listing"
    /\ sync' = [sync EXCEPT ![s].at = "answered", ![s].list = machine]
    /\ UNCHANGED <<provider, model, machine, job, ops, shown>>

\* The answer arrives and is applied to whatever the provider's rows are now.
ApplyList(s) ==
    /\ sync[s].at = "answered"
    /\ IF provider = None
       THEN UNCHANGED <<provider, model, shown>>
       ELSE /\ provider' = [provider EXCEPT !.synced = TRUE, !.error = FALSE]
            /\ model' = Purged(s, SyncProvider(sync[s].list, sync[s].auto))
            /\ shown' = (sync[s].list \cup ManualModels) \ Forgotten(s)
    /\ sync' = [sync EXCEPT ![s] = IdleSync]
    /\ UNCHANGED <<machine, job, ops>>

\* Any failure of the round trip is remembered on the provider.
ListFails(s) ==
    /\ sync[s].at \in {"listing", "answered"}
    /\ IF provider = None
       THEN UNCHANGED <<provider, model, shown>>
       ELSE /\ provider' = [provider EXCEPT !.error = TRUE]
            /\ model' = Purged(s, model)
            /\ shown' = shown \ Forgotten(s)
    /\ sync' = [sync EXCEPT ![s] = IdleSync]
    /\ UNCHANGED <<machine, job, ops>>

\* POST /providers/:id/sync.
AskSync(s) ==
    /\ Op
    /\ SyncOne(s, "asked", None)
    /\ UNCHANGED <<provider, model, machine, job, shown>>

\* syncAll reaches this provider: a machine that is not online is probed
\* first, and the provider it looked at may have changed when that ends.
TimerTurn(s) ==
    /\ Op
    /\ provider # None
    /\ provider.enabled
    /\ \/ SyncOne(s, "timer", None)
       \/ /\ provider.agent
          /\ sync[s].at = "idle"
          /\ sync' = [sync EXCEPT ![s] = [IdleSync EXCEPT !.at = "probing",
                                                          !.why = "timer"]]
    /\ UNCHANGED <<provider, model, machine, job, shown>>

ProbeEnds(s) ==
    /\ sync[s].at = "probing"
    /\ \/ sync' = [sync EXCEPT ![s] = IdleSync]
       \/ /\ provider # None
          /\ sync' = [sync EXCEPT ![s].at = "listing", ![s].auto = provider.auto]
    /\ UNCHANGED <<provider, model, machine, job, ops, shown>>

-----------------------------------------------------------------------------
(* Downloads and removals, through the agent.                               *)

\* A likely mistake: the download is marked, and no listing follows.
MarkOnly(j, watched) ==
    /\ job' = [job EXCEPT ![j].marked = (job[j].status = "succeeded"),
                          ![j].watched = watched, ![j].asked = job[j].asked /\ watched]
    /\ UNCHANGED sync

\* afterFinished: the first to hear that a download succeeded refreshes.
AfterFinished(j, watched) ==
    IF job[j].status = "succeeded" /\ ~job[j].marked
    THEN /\ job' = [job EXCEPT ![j].marked = TRUE, ![j].watched = watched,
                               ![j].asked = job[j].asked /\ watched]
         /\ \E s \in Syncs : SyncOne(s, "download", None)
    ELSE /\ job' = [job EXCEPT ![j].watched = watched,
                               ![j].asked = job[j].asked /\ watched]
         /\ UNCHANGED sync

\* POST .../node/pulls.  The answer may be lost: then nobody follows the job.
Pull(j) ==
    /\ Op
    /\ provider # None
    /\ provider.agent
    /\ job[j].status = "none"
    /\ \E heard \in BOOLEAN :
          job' = [job EXCEPT ![j].status = "running", ![j].watched = heard]
    /\ UNCHANGED <<provider, model, machine, sync, shown>>

DownloadEnds(j) ==
    /\ job[j].status = "running"
    /\ \/ /\ job' = [job EXCEPT ![j].status = "succeeded"]
          /\ machine' = machine \cup {TargetOf[j]}
       \/ /\ job' = [job EXCEPT ![j].status = "failed"]
          /\ UNCHANGED machine
    /\ UNCHANGED <<provider, model, sync, ops, shown>>

\* The agent was restarted or has pruned the job.
AgentForgets(j) ==
    /\ Op
    /\ job[j].status \in {"running", "succeeded", "failed"}
    /\ job' = [job EXCEPT ![j].status = "gone"]
    /\ UNCHANGED <<provider, model, machine, sync, shown>>

\* A turn of the watch: it asks the agent, or finds nobody to ask.
WatchTurn(j) ==
    /\ job[j].watched /\ ~job[j].asked
    /\ job' = IF provider = None \/ ~provider.agent
              THEN [job EXCEPT ![j].watched = FALSE]
              ELSE [job EXCEPT ![j].asked = TRUE]
    /\ UNCHANGED <<provider, model, machine, sync, ops, shown>>

\* The agent's answer.
WatchHears(j) ==
    /\ job[j].asked
    /\ CASE job[j].status = "gone" ->
               /\ job' = [job EXCEPT ![j].watched = FALSE, ![j].asked = FALSE]
               /\ UNCHANGED sync
         [] job[j].status = "running" ->
               /\ job' = [job EXCEPT ![j].failures = 0, ![j].asked = FALSE]
               /\ UNCHANGED sync
         [] OTHER -> AfterFinished(j, FALSE)
    /\ UNCHANGED <<provider, model, machine, ops, shown>>

\* The call fails: the watch gives up when the machine stays gone.
WatchFails(j) ==
    /\ job[j].asked
    /\ job' = [job EXCEPT ![j].failures = @ + 1, ![j].asked = FALSE,
                          ![j].watched = job[j].failures + 1 < MaxFailures]
    /\ UNCHANGED <<provider, model, machine, sync, ops, shown>>

\* Somebody has the panel open: GET .../node/pulls.
PanelHears(j) ==
    /\ provider # None
    /\ provider.agent
    /\ job[j].status = "succeeded"
    /\ ~job[j].marked
    /\ AfterFinished(j, job[j].watched)
    /\ UNCHANGED <<provider, model, machine, ops, shown>>

\* DELETE .../node/models/*: the machine first, then the listing, then the row.
AskRemoval(s, m) ==
    /\ Op
    /\ provider # None
    /\ provider.agent
    /\ sync[s].at = "idle"
    /\ sync' = [sync EXCEPT ![s] = [IdleSync EXCEPT !.at = "removing",
                                       !.why = "removal", !.item = m]]
    /\ UNCHANGED <<provider, model, machine, job, shown>>

RemovalAnswered(s) ==
    /\ sync[s].at = "removing"
    /\ machine' = machine \ {sync[s].item}
    /\ sync' = [sync EXCEPT ![s] =
                   IF provider = None THEN IdleSync
                   ELSE [@ EXCEPT !.at = "listing", !.auto = provider.auto]]
    /\ UNCHANGED <<provider, model, job, ops, shown>>

RemovalRefused(s) ==
    /\ sync[s].at = "removing"
    /\ sync' = [sync EXCEPT ![s] = IdleSync]
    /\ UNCHANGED <<provider, model, machine, job, ops, shown>>

-----------------------------------------------------------------------------
(* The owner.                                                               *)

\* POST /providers; a provider without a machine is listed straight away.
CreateProvider ==
    /\ Op
    /\ provider = None
    /\ \E auto, agent \in BOOLEAN, max \in {1, 2} :
          LET p == [enabled |-> TRUE, auto |-> auto, local |-> FALSE,
                    agent |-> agent, max |-> max, secret |-> 1,
                    synced |-> FALSE, error |-> FALSE]
          IN /\ provider' = p
             /\ IF agent THEN UNCHANGED sync
                ELSE \E s \in Syncs :
                        /\ sync[s].at = "idle"
                        /\ sync' = [sync EXCEPT ![s] =
                               [IdleSync EXCEPT !.at = "listing", !.auto = auto]]
    /\ UNCHANGED <<model, machine, job, shown>>

\* PATCH /providers/:id.
PatchProvider ==
    /\ Op
    /\ provider # None
    /\ provider' \in
          {[provider EXCEPT !.enabled = ~@], [provider EXCEPT !.auto = ~@],
           [provider EXCEPT !.local = ~@], [provider EXCEPT !.agent = ~@],
           [provider EXCEPT !.max = 3 - @], [provider EXCEPT !.secret = 3 - @]}
    /\ UNCHANGED <<model, machine, sync, job, shown>>

\* DELETE /providers/:id; the rows of its models go with it.
DeleteProvider ==
    /\ Op
    /\ provider # None
    /\ provider' = None
    /\ model' = [m \in Models |-> None]
    /\ shown' = {}
    /\ UNCHANGED <<machine, sync, job>>

\* POST /models: a model the upstream need not list.
AddManual(m) ==
    /\ Op
    /\ provider # None
    /\ model[m] = None
    /\ \E draft \in Drafts :
          model' = [model EXCEPT ![m] =
                      [source |-> "manual", cloud |-> FALSE, reported |-> Guesses[m],
                       enabled |-> "unset", place |-> draft.place, kind |-> draft.kind,
                       present |-> TRUE]]
    /\ shown' = shown \cup {m}
    /\ UNCHANGED <<provider, machine, sync, job>>

\* PATCH /models/*: `enabled` can be set but never unset, `locality` and `kind`
\* both.
PatchModel(m) ==
    /\ Op
    /\ model[m] # None
    /\ \/ \E word \in {"yes", "no"} : model' = [model EXCEPT ![m].enabled = word]
       \/ \E place \in Places : model' = [model EXCEPT ![m].place = place]
       \/ \E kind \in Kinds \cup {"unset"} : model' = [model EXCEPT ![m].kind = kind]
    /\ UNCHANGED <<provider, machine, sync, job, shown>>

\* DELETE /models/*: a synced model would come back, so it is disabled.
DeleteModel(m) ==
    /\ Op
    /\ model[m] # None
    /\ IF model[m].source = "synced"
       THEN model' = [model EXCEPT ![m].enabled = "no"] /\ UNCHANGED shown
       ELSE model' = [model EXCEPT ![m] = None] /\ shown' = shown \ {m}
    /\ UNCHANGED <<provider, machine, sync, job>>

-----------------------------------------------------------------------------
(* The rest of the world.                                                   *)

\* Somebody changes the machine's models without the hub.
MachineChanges(m) ==
    /\ Op
    /\ machine' = IF m \in machine THEN machine \ {m} ELSE machine \cup {m}
    /\ UNCHANGED <<provider, model, sync, job, shown>>

\* The hub is restarted: the database stays, the memory goes.
RestartHub ==
    /\ Op
    /\ sync' = [s \in Syncs |-> IdleSync]
    /\ job' = [j \in Jobs |-> [job[j] EXCEPT !.watched = FALSE, !.asked = FALSE,
                                             !.marked = FALSE, !.failures = 0]]
    /\ UNCHANGED <<provider, model, machine, shown>>

ChangeProvider == CreateProvider \/ PatchProvider \/ DeleteProvider

OwnerStep == \E m \in Models : AddManual(m) \/ PatchModel(m) \/ DeleteModel(m)

SyncStep(s) == UpstreamAnswers(s) \/ ApplyList(s) \/ ListFails(s) \/ ProbeEnds(s)

RemovalStep(s) == RemovalAnswered(s) \/ RemovalRefused(s)

WatchStep(j) == WatchTurn(j) \/ WatchHears(j) \/ WatchFails(j)

Others ==
    \/ OwnerStep
    \/ \E s \in Syncs :
          \/ AskSync(s) \/ TimerTurn(s) \/ SyncStep(s) \/ RemovalStep(s)
          \/ \E m \in Models : AskRemoval(s, m)
    \/ \E j \in Jobs :
          \/ Pull(j) \/ DownloadEnds(j) \/ AgentForgets(j)
          \/ WatchStep(j) \/ PanelHears(j)
    \/ \E m \in Models : MachineChanges(m)

Next == ChangeProvider \/ Others \/ RestartHub

Spec == Init /\ [][Next]_vars

-----------------------------------------------------------------------------
(* Properties.                                                              *)

\* A download is followed only after it was asked for, and gives up in time.
WatchBounded(j) ==
    /\ job[j].watched => job[j].failures < MaxFailures
    /\ job[j].asked => job[j].watched
    /\ job[j].status = "none" => ~job[j].watched /\ job[j].failures = 0

\* The catalogue is in order: rows belong to a provider; a model the owner
\* added is never taken for absent; what is present is exactly what the list
\* applied last and the owner since then say; and whatever GET /v1/models shows
\* a key, a request of that key is given by the endpoint of the kind shown, if
\* there is one, and by no other (store/models.ts, routing.ts).
CatalogueInv ==
    /\ CatalogueTypeOK
    /\ provider = None => \A m \in Models : model[m] = None
    /\ \A m \in ManualModels : model[m].present
    /\ shown = {m \in Models : model[m] # None /\ model[m].present}
    /\ \A j \in Jobs : WatchBounded(j)
    /\ \A m \in Models, localOnly \in BOOLEAN, patterns \in {None} \cup SUBSET Models :
          Listed(m, patterns, localOnly) =>
             \A endpoint \in Endpoints :
                Serves(m, patterns, localOnly, endpoint) <=> Kind(m) = endpoint

\* What one step may do to a row: it keeps the owner's words unless the owner
\* speaks, and goes only with a deletion or at the end of a removal.
WordStands ==
    \A m \in Models :
        model[m] # None =>
           IF model'[m] = None
           THEN \/ DeleteProvider
                \/ DeleteModel(m)
                \/ \E s \in Syncs : sync[s].why = "removal" /\ sync[s].item = m
           ELSE \/ /\ model'[m].enabled = model[m].enabled
                   /\ model'[m].place = model[m].place
                   /\ model'[m].kind = model[m].kind
                   /\ model'[m].source = model[m].source
                \/ OwnerStep

\* Only the owner changes what the owner has said of a model, and a row goes
\* only because the owner deletes it or its provider or removes the model from
\* the machine: no listing, however late, overwrites or drops it
\* (store/models.ts:157 "so the owner's overrides survive a flaky listing").
OwnersWordStands == [][WordStands]_vars

\* Provided that every call the hub makes to list, to remove or to follow ends
\* some time: a download that the hub follows ends in the catalogue unless its
\* refresh failed (then the provider shows the error), the hub gave up or forgot
\* it, or the model or the provider was taken away (node-client.ts
\* afterFinished).
DownloadShows ==
    /\ \A s \in Syncs : []<>(sync[s].at = "idle")
    /\ \A j \in Jobs : []<>~job[j].asked
    => \A j \in Jobs :
          job[j].status = "succeeded" /\ job[j].watched /\ ~job[j].marked
            ~> \/ provider = None
               \/ model[TargetOf[j]] # None
               \/ provider.error
               \/ ~job[j].watched /\ ~job[j].marked
               \/ TargetOf[j] \notin machine
=============================================================================
