# A formal model of MindGate

MindGate is a **hub** (`gate/`) in front of language models, an **agent** (`agent/`) on the machine with the graphics card, a **tray**
program (`tray/`) for the person who uses that machine, and a **panel** (`panel/`) in the browser. This directory models, in TLA+, the
parts of it whose correctness depends on the order of events; TLC checks the models on small instances and TLAPS proves the central
safety properties for every instance. `PROJECT.json` lists the components, the runs, the source lines each definition stands for, the
hazards and the theorems.

Everything runs on Node.js: one callback at a time, with `await` as the only place where something else can happen. So in every module
an action is what runs between two `await`s on the outside world (network, timer, process), and what can go wrong is what happens at
those `await`s: another request, an abort, a timer, an answer that is older than the state it meets.

## Inventory

### Hub (`gate/src`)

| Part | State | Operations | Talks to | What is hard | What makes it correct |
|---|---|---|---|---|---|
| Concurrency limiter, `queue.ts`, `registry.ts` | `active`, `waiting` per provider | acquire, release, timer, abort | `chat.ts` acquires before and releases after a call | timer, abort and grant race; releases come twice; order within a priority | never more than `max_concurrency`; no slot idle while someone waits; best priority first, first come first served; nobody of the top priority starves |
| Key limits, `limits.ts`, `store/usage.ts`, `time.ts` | window of stamps and `pending` in memory, day totals in SQLite | admit, release, snapshot, record | `chat.ts` admits after routing, records and releases in `finish` | requests over midnight; totals on disk and counts in memory; a failing database; restarts | `rpd` per day, `rpm` per window, `Retry-After` that suffices, token budgets overshot by no more than what is in flight |
| Node manager, `node.ts` | per machine: status, time of the last probe, time of the last activity, in-flight count, the wake under way, the shutdown pause | ensure, wake, probe, begin/end, markUp/markDown, tick, requestShutdown | `chat.ts`, `sync.ts`, `node-client.ts` and the admin API write the same record; the machine through HTTP and UDP | every probe is an `await`; wake shared by many waiters; machine that comes and goes; monitor against requests | in-flight count exact; "waking" only while being woken; waiters only of a wake that runs; shutdown only while idle; every request and every wake ends |
| Request run, `chat.ts`, `upstream.ts` | one object per request: admission, signal, sink, usage | execute: validate, route, admit, attempt, relay, fail, finish | all of the above | first byte decides between retry and error inside the stream; keepalive; client hangs up; idle and total timeouts | exactly one ending; slot, in-flight count and admission given back on every path; retried at most once and never after content has gone out |
| Catalogue, `store/models.ts`, `routing.ts`, `sync.ts`, `node-client.ts` | models table, aliases, `synced`, `watching` | syncProvider, patch, purge, delete, resolve, list, watch, afterFinished | provider APIs, agent's job list | overlapping syncs, older list applied last; provider deleted and created again under a sync; one step of several fails | what is present is what the last list and the owner say; what the owner changed by hand survives; a model is served at the endpoint of its kind and at no other; a finished download appears |
| Providers, keys, authentication, `store/providers.ts`, `store/keys.ts`, `auth.ts`, `registry.ts`, `crypto.ts`, `db.ts` | tables, cached secrets, limiters, throttle of failures | create, update, delete with change events; check of keys and tokens | limiter and node manager forget state on change events | change while requests run; restart with another master key; a flood of addresses; partial changes one after the other | no limiter exceeds its size, nobody waits in a forgotten one; calls use the stored key; guessing is slowed and nobody is locked out for it; rows stay valid |
| Adapters, `adapters/` | the translator of a stream | translate requests, answers and streams | provider APIs | rules that span messages: results first, thinking in front and signed; events numbered differently on both sides | a legal chat becomes a request that keeps the API's rules; signed blocks come back as they came; a stream adds up to its message |
| Wake-on-LAN packet and relay, `wol.ts`, `wol-relay.ts` | none | build and send a packet | UDP, HTTP | I/O, which may fail | bytes of the packet |
| Configuration, command line, presentation, `config.ts`, `cli.ts`, `present.ts`, `panel.ts` | none | parse, print, serve files | | | |

### Agent (`agent/src`)

| Part | State | Operations | Talks to | What is hard | What makes it correct |
|---|---|---|---|---|---|
| Shutdown guard, `power.ts`, `activity.ts` | `shuttingDown`, `userActive`, in-flight count | shutdown (forced or not), setUserActive | proxy and downloads (work under way), tray, `shutdown` command | two `await`s between check and command; overlapping calls; tray silent; command fails or is killed | never switched off on a guess; "allow" only if the system took the command; every call answered |
| Downloads, `pulls.ts` | jobs, the line, the running one, abort controllers | start, cancel, abortAll, pump, run | engine; hub watches by id | cancel while the engine starts; stall timer; name asked for again | one at a time, in order; each ends; a name is downloaded once |
| Engine, `ollama.ts`, `ollama-process.ts` | child process, start under way, cache by digest | ensureRunning, stop, calls | Ollama, operating system | a child that hangs; a start during a stop | at most one start; stopped with the agent |
| Proxy and routes, `proxy.ts`, `routes-node.ts`, `server.ts` | none | forward, count requests | hub | client leaves | each request counted once |

### Tray (`tray/src`), panel, others

| Part | State | Operations | What makes it correct |
|---|---|---|---|
| Conversation with the agent, `ipc.js`, `idle.js` | toggle, idle time | verdict, reports, input switches the toggle on | the verdict is about the moment it is given; late reports do not matter where a verdict is asked for |
| Shutdown blocker, `shutdown-block.js`, `index.js` | helper process, its bookkeeping, timer | enable, disable, follow the agent's status; exit and error events | a block ends with the work; no helper is lost sight of |
| Menu, configuration | | | |
| Panel: hooks and session, `lib/query.ts`, `lib/action.ts`, `lib/session.ts`, `api/client.ts` | per hook: data, flags, the current request; the token | load, poll, reload, act, sign in, sign out | answers in any order: what is shown belongs to what is asked for and has the change in it |
| Panel: log, `pages/Log.tsx`, `lib/log.ts` | rows on screen, `exhausted` | poll, older pages, filter | "that is everything" is true |
| Panel: editors, `pages/ProviderForm.tsx`, `ModelEditor.tsx`, `Keys.tsx`, `lib/provider-form.ts`, `lib/models.ts` | the draft | fill, edit, send | what was not touched survives, what is shown is stored |
| `e2e/`, `scripts/`, `tools/`, `docs/` | | | tests, packaging, documentation |

## Modules

| Module | Models | Built on |
|---|---|---|
| `PriorityLimiter` | the limiter of one provider (`queue.ts`), one action per method, timer and event | community module SequencesExt |
| `FairSlots` | abstract: what `queue.ts:15-19` promises, without any line to keep sorted | |
| `PriorityLimiterFair` | the limiter with the order of arrival as a history variable, and the refinement mapping to `FairSlots` | `PriorityLimiter`, `FairSlots` |
| `Limits` | limits of one key, the totals in the database, admission and end of a request, midnight, month, restart | |
| `AgentPower` | shutdown guard, activity, tray conversation, the operating system, a person who cancels the shutdown | |
| `TrayBlocker` | the tray's helper that holds a shutdown back while the agent is busy (`shutdown-block.js`, `index.js`) | `AgentPower` |
| `NodeManager` | the hub's record of one machine with the requests, the wake, the monitor and the other writers around it | |
| `ClientExchange` | abstract: what a client is promised about one request (`docs/01-gate.md`, "No silent substitution"), free of calls, slots and retries | |
| `RequestRun` | requests from routing to the last byte (`chat.ts`, `upstream.ts`, `adapters/openai.ts`) over one provider, and the mapping to `ClientExchange` | `ClientExchange` |
| `Pulls` | the downloads (`pulls.ts`): jobs, the line, the one that runs | SequencesExt |
| `Engine` | `ensureRunning`, start and stop of the engine, its processes, the end of the agent (`ollama.ts`, `ollama-process.ts`, `index.ts`) | |
| `AgentWork` | both together: the download that runs is one of the callers of `ensureRunning`, the end of the agent ends both | `Pulls`, `Engine` |
| `Catalogue` | rows of one provider's models and all who write them: owner, syncs, downloads, removals; `resolve` and `list` of the router | |
| `ProviderUse` | what requests derive from a provider's row: limiter (`registry.ts`), opened key (`providers.ts`), the machine's count (`node.ts`), while the row changes | `Catalogue` |
| `Access` | throttle of failed logins (`auth.ts`); keys (`store/keys.ts`) under panel and command line | SequencesExt, FiniteSetsExt |
| `Conversation` | a client's chat through `anthropic-translate.ts` (requests, answers, stream events) and `gemini.ts` (ids, names, the parameters of tools) | SequencesExt, FiniteSetsExt |
| `Panel` | `useQuery`, `useAction`, session and client of the panel, with the hub behind them | |
| `LogPage` | the log page: polls, older pages, filters, over the hub's log | `Panel` |
| `Editors` | the editors of providers, models and keys over the hub's rows, and the validation and defaults of those rows | |
| `SequenceFacts` | lemmas about `InsertAt`, `RemoveAt`, `Append`, `FlattenSeq`, prefixes, and the least and the greatest of some numbers | |
| `PriorityLimiterProofs`, `RequestRunProofs` | theorems about the limiter and its refinement, a request run | `PriorityLimiterFair`, `RequestRun` |
| `ClientProofs` | theorems about the limits of a client's key and about its chat | `Limits`, `Conversation` |
| `CatalogueProofs` | theorems about the catalogue, and about the requests that use it | `ProviderUse` |
| `HubProofs` | theorems about the node manager, the client keys and the throttle | `NodeManager`, `Access` |
| `AgentProofs` | theorems about the shutdown guard, the tray's blocker, downloads, engine and both together | `TrayBlocker`, `AgentWork` |
| `PanelProofs` | theorems about the panel's editors, its page and its log | `Editors`, `LogPage` |
| `MC...` | instances for TLC | |

### How the state corresponds to the code

* **PriorityLimiter.** `active` and `waiting` are the fields of the class; `waiting` holds requests in the order of the array.
  `state[r]` is where a request stands with the limiter: what its `acquire()` has returned (`held`, or the error it was rejected with)
  and whether the release closure has been called. `aborted[r]` is its `AbortSignal`. A release grants slots in the same action, because
  `release` calls `pump`. A request may call its release closure again; only the first call counts.
* **Limits.** One key (all maps of the class are indexed by key). `stamps` is the window, `pending` the map entry, `requestsOn` and
  `tokensOn` the rows the totals are read from; `admissions` and `refusal` are history. Time is a counter of ticks; the window, the second, the
  day and the month are constants measured in it. `Finish` is the end of a run: it records on the day it happens, not on the day of
  admission, and releases whether or not recording succeeded.
* **AgentPower.** A call of `shutdown()` is in one of its two waits or answered. What it decides before its first `await` is one action
  (`Ask`), what it does with the tray's verdict another. A verdict that is on its way ("heard") can still be lost to the five-second
  deadline. `CommandEnds` lets a command that failed, or was killed after fifteen seconds, have taken effect or not. Tray reports are
  concurrent HTTP requests and arrive in any order or never. A scheduled shutdown happens some time later (`PowerOff`).
* **NodeManager.** `status`, `inflight` and so on are the fields of `State`; times are replaced by what is asked of them (`fresh`:
  `now - lastProbeAt < TRUST_MS`; `idleLong`; `retryOver`) with an action that lets each expire. A request is at one of its `await`s: health check
  on its way (`probing`) or answered and not yet acted upon (`alive`, `dead`), waiting for the shared wake, in the limiter's line, in its call before
  and after the first byte. A client that hangs up is not noticed by a health check, nor while a body is read whole (`aborted` in stage `calling`). `Grant` is the limiter reduced to what matters here: free slots go to some of the queued requests at once and
  `begin()` runs for them. `visitor` is one of the others that write the record: the model sync's probe, or a call of the admin API to the agent, which marks
  the machine up and, for a shutdown, marks it asleep again. The machine itself (`up`) changes at any moment, and even while up may fail a check.
* **RequestRun.** `req[r]` is the request object: `stage` is the `await` it is at, the other fields are those of `RequestRun` and its `Sink` that decide anything (`errorCode` is `ending`, `sawDone || sawFinish` is `finished`,
  a usage record is `usage`, a row written by `usage.record` is `recorded`). `Failed` is `fail()` with what the error says about `fallback`; `Over` is `finish()`. A request that holds a slot moves with `Hold` (keeps it) or `Leave` (the `finally` of `callOnce`, which hands
  the slot on), one that holds none with `Move`. `source` tells what the upstream sends, because it decides who is listening: an event stream has a limit on silence and hears the client's abort; a body that is read whole has neither. `ensure()` is one stage that
  settles either way (how is `NodeManager`'s subject). The requests of the hub that go to other providers, and providers without a limit, differ only in what they leave out. Chunks are told apart by what they change: shown to the client or not, with a `finish_reason` or not.
  `silent` says that the upstream sends nothing more (`FallSilent`), which is what the limit on silence waits for: a stream that goes on, if only by comments, is never cut by it. `ClientExchange` sees of a request only: nothing yet, waiting, a part, and the four ends.
* **Pulls.** `job` is the map of jobs, `line` the array `waiting`, `current` the job `run()` is at work on (0 if `running` is false), `phase` which of its two `await`s it is in. What
  lies between the end of one job and the start of the next (skipping jobs that were aborted in the line included) runs without another wait and is part of the action that ends the job (`Finish`).
  An id is the job's number. `aborted` is its abort controller. The contents of a progress report are left out; what matters is that it comes and that the number of them is finite.
* **Engine.** `start` and `awaiting` are the promise `starting` and those who await it, `child` is `this.child`. Processes are numbered; `alive` and `listener` belong to the operating system: a child may crash, hang, or
  never get the address because somebody else's Ollama has it. A health check may fail although somebody listens (a busy engine misses its two seconds), so a start can spawn a second child while the first is alive. `agent` is how far the agent's own end has come;
  `Gone` may follow the closing without `Stop` (the forced exit after ten seconds).
* **AgentWork.** When a start ends, `run()` goes on in the same turn of the event loop and may ask anew for the next job before anybody else does anything: this is `again` in `StartEnds`.
* **TrayBlocker.** `isBlocking` and `blockerProcess` are the two variables of `shutdown-block.js`; `running` and `exits` belong to Windows: processes that run, and those whose `exit` or `error` event has not been handled. A poll of `/health` is one
  step, because an answer that comes late is the answer to an earlier question. A kill may fail (`KillHelper`); the bookkeeping is cleared all the same. Two histories tell in which way the tray has lost a helper that runs on: `unkilled` (the kill failed) and `forgotten` (the exit of another helper wiped its record).
* **Catalogue.** One provider, whose row may go and come back under the same id. `sync[s]` is one call of `syncOne` from whichever caller (button, timer, finished download, removal of a model): probing, removing, listing, answered; it reads `autoEnable` from
  the row it began with and applies its list to whatever rows there are when the answer comes. `job[j]` is a download at the agent together with what `NodeClient` keeps of it (`watching`, `synced`, failures in a row). A row's `enabled`
  and `place` are the owner's word ("unset" if there is none); `present` is `upstream_present`. `shown` is history: the last list and the owner's additions.
  A model has a kind: what its list reports, or else what is guessed from its name, unless the owner has set another; `Serves` is `resolve` for one endpoint with its kind, `Listed` is `list`, which asks for no kind. The listings, removals and questions of a watch end only if somebody answers (`asked` is a question on its way); the watch's timer is the hub's own (`WatchTurn`).
* **ProviderUse.** A request keeps the row it was routed with (`max`) through `ensure()`; `limiter` is the object it took its slot from, which the registry may have forgotten. `current` is the registry's entry, `cached` the provider store's opened key, `inflight` the node manager's count. `Emit`
  is the change event and happens in the same step as the change. `fresh` and `settled` are history.
* **Access.** `failures` is the map of `AuthThrottle` (`<<>>` for an address that is not in it) and `behind` its insertion order, which eviction relies on: who was put into the map after an address was. `Recent` is `recent()`, which drops the oldest times as long as they are too old. `guesses`, `since` and `refusal` are history. `AdminKeyCall` passes the throttle first, `CommandLine` is another process on the same database. Ids are never used twice; names are left out.
* **Conversation.** Texts are sequences of pieces, a piece being the number of the upstream's block it stems from, so that order, loss and mixture show. The client may keep or drop what it does not understand (`reasoning_details`, signatures), may put user messages between tool results, and may turn to
  the other upstream at any turn. It may send a `top_k` and force a tool (`Extras`). The parameters of a tool are a JSON schema, which is the set of the paths of its keys: `SanitizeSchema` takes paths away. The upstream's answer is built block by block and arrives whole or as events, which may be cut at any point and may end without a stop reason.
* **Panel, LogPage.** `query` and `action` are state and refs of the two hooks of the mounted page, `run` the request of the current `seq`, `late` those that nobody waits for any more but whose refusal is still heard. The hub's data is a counter of changes (in `LogPage`: of ended requests), read at a moment of its own between the
  sending and the answer. A page goes away, comes back, changes its inputs; tokens are replaced.
* **Editors.** Rows with one field of each kind of handling (required text, number with default, secret, clearable text, an option that is written only when off, options the form does not know, machine settings). A dialog is filled from the view (`ProviderView`, `ModelView`), edited, sent, and sent again after a lost answer, while one other change happens to
  the rows.

## Runs

| Run | Instance | Shows |
|---|---|---|
| `limiter` | 4 requests, priorities {3, 5}, 1 slot, line of 2, timeouts on | the inductive invariant `FairInv` (never over the limit, no idle slot, line in order, first come first served within a priority), refinement of `FairSlots` (`ServesBestFirst`), liveness `TopPriorityServed` |
| `limits` | 3 requests, rpm 2, rpd 3, day budget 2 and month budget 5 tokens, window 3, second 2, day 3, month 2 days, clock to 7, 1 restart | `LimitsInv` (daily allowance, sliding window, exact counts), `RetryAfterIsEnough`, `TokenOvershoot` |
| `agent_power` | 1 request, 1 download, a call of shutdown at a time, with and without a tray, 2 helper processes | `PowerInv` ("never on a guess", "yes means down"), `BlockerKnown`, liveness `AlwaysAnswered`, `BlockEnds` |
| `node_manager` | 1 request, which may wake the machine, 1 slot, wakes of 2 polls, monitor and visitor | `NodeInv`, `AsksOnlyIdle`, liveness `EveryRequestEnds`, `WakeEnds` |
| `request_run` | 2 requests, 1 slot, line of 1, a machine that sleeps, 2 chunks | `RequestInv` (one answer, books kept), the refinement of `ClientExchange` (`KeepsPromise`), liveness `EveryRequestOver` |
| `pulls` | 3 models, 5 jobs, 1 finished job kept, 1 progress report each; models symmetric | `PullsInv`, `InOrder`, `JobsAreSafe` |
| `agent_work` | 2 models, 2 jobs, 1 request beside the download, 2 child processes | `WorkInv`, liveness `EveryDownloadEnds`, `CallersAnswered` |
| `provider_use` | 2 models (one with a name that suggests another kind than its list reports, one a cloud model the machine lists, of a kind that no endpoint takes), 2 kinds, 2 ways of adding a model by hand, 2 overlapping syncs, 1 download, 2 requests, 3 limiters, 3 changes, 2 activities at once | `CatalogueInv`, `UseInv`, `FreshWithinMax`, `OwnersWordStands`, liveness `DownloadShows` |
| `conversation` | 3 requests, 3 blocks in all, 1 delta each, 2 functions, ids that Gemini repeats, tools with 3 kinds of parameters, requests with and without `top_k` and a forced tool | `RequestsAccepted`, `EchoIsExact`, `StreamIsWhole` |
| `panel` | 2 filters, 3 ended requests, pages of 1, 2 tokens | `PageInv` (`QueryInv` and what it takes to show it), `EndIsTrue`, `SessionEnds` |
| `access` | 3 addresses of which 2 are remembered, 2 failures allowed, window 3, clock to 3, 1 key, priorities 1 and 2, 1 restart; addresses symmetric | `ThrottleInv`, `KeysInv` |
| `editors` | 1 provider, model and key, 2 edits, 1 change by others, 1 lost call or answer | `RecordsInv`, `SavesAsShown` |

**Why the bounds are enough.** *limiter*: with four requests and one slot, two stand in the line and one arrives, so a newcomer is put before, between
and behind waiters of both priorities and finds the line full; more slots change only the number that the proofs keep general. *limits*: three requests are one more than `rpm` and
as many as `rpd`; the window (3) is not a multiple of the second (2), so that rounding matters, and is as long as the day, so that requests, windows, days and
the month's end cross each other within seven ticks. *agent_power*: each kind of work matters only through being there; two helpers are what it takes for an old one's exit to meet a newer one. Overlapping calls of shutdown do not occur in this instance: that nothing goes wrong between
them is what the proof is for (any number of calls).
*node_manager*: one request, the monitor, the visitor and the wake are four writers of the record, and two polls give a wake that goes on once and then times out; a wake shared by several requests and a slot handed on are left to the
proofs (any number of requests and slots) because liveness with two requests is beyond TLC's patience, and a second request adds to it only the queue, whose progress is the limiter's subject.
*request_run*: two requests meet at one slot and in the line, so that each ending hands the slot on or not; two chunks give an answer that breaks before, after and between contents (a longer one repeats the second); the machine gives the retry. A full line does not occur with two requests and one place in
it; `Acquired` refuses then as `queue.ts` does, and the proofs cover it.
*pulls*: three models let two jobs wait behind a third (a model has one unfinished job at most), so that the order of the line, leaving it from the middle and skipping an aborted one all happen; with five jobs and one kept, pruning finds finished jobs
before, between and behind unfinished ones. Because nothing distinguishes models but being equal, they may be permuted. *provider_use*: two requests meet in a limiter and its successor, and a third limiter is the fresh one; two syncs overlap; three changes are a change, a deletion and a new beginning in any order; of the work that goes on at once (requests, syncs, downloads) any two are looked at together (`MaxActive`).
*conversation*: three turns are a call of a tool, its result and what follows from both, three blocks let thinking, text and a call meet in one answer or be spread over two. *panel*: three revisions let a poll, an action and an older answer each have their own; with pages of one row every boundary between pages happens.
*access*: three addresses are one more than are remembered; the clock runs past the window. *editors*: one change behind the dialog's back is enough to lose it, and two edits combine a field with the one that depends on it.
*agent_work*: two processes are what it takes for an old child's exit to meet a newer child; two jobs let one begin in the same turn in which a start ends for the other.

**Fairness.** With one exception a specification assumes only what the code's own timers guarantee; what a property needs beyond that is a hypothesis written into the property, where it can be seen. The exception is the limiter, which by itself knows nothing of calls and assumes that a holder ends (`Release`): `chat.ts` releases in a `finally`,
and that the call ends is for the call to see to. In `request_run` the timers are `ensure` settling, the deadline for headers, the limit on silence (which works only once the upstream has fallen silent), and the hub going on with a document it has (`Timers`). `EveryRequestOver` supposes that nobody holds a request for ever (`Held`): no upstream that never ends a body read
whole, or never ends a stream while it sends something (`readSse` starts its timer anew on every byte, comments included, `upstream.ts:268`), and no client that stays connected and takes nothing in (`chat.ts` awaits its `drain` without a deadline). In the node manager the health checks (5 s) and the wake's timers end, nothing else; `EveryRequestEnds`
supposes that no call goes on for ever, and then says that no request goes round between machine, wake and monitor for ever. The agent's calls have a deadline on each of their two waits (5 s, 15 s), and the tray polls as long as it runs (`BlockEnds`); a kill may fail, the exit of a helper need not be heard of. In the agent, a start of the engine has deadlines
(2 s for the check, `startTimeoutMs` for the child), and a download that is silent runs into the stall timer, whose abort ends its connection; nothing is assumed of the engine, which may never answer. In `provider_use` only the timer of a watch goes off; `DownloadShows` supposes that listings, removals and questions to the agent end, because
`fetchJson` and `NodeClient.call` read a body without a deadline once the headers are in (`upstream.ts:97`, `node-client.ts:60`). Each hypothesis is met by behaviours of the instance that reach the interesting states: the mutant of each property breaks it while the hypothesis holds. No run assumes that a queued request is served, that a client stays, that an upstream answers, or that a machine boots.

**Deadlock** is checked except where the instance really stops: `provider_use`, `conversation`, `panel` and `access` end when their bounds on changes, requests, revisions and time are used up.

## Where code and documentation part

Modelling the code step by step brought these to light. The models do what the code does; the properties state what holds nevertheless, and where a property has an exception, it is one of these.

* **A request is cut by a shutdown it could not see coming.** `docs/02-agent.md:158` promises that the agent shuts the computer down only when no request is in progress and nothing is being downloaded. `power.ts:79`
  checks this before it waits for the tray (up to five seconds) and not again afterwards, so work that starts in between is cut. Without a tray check and command are one step.
* **A yes that is no longer true.** `shuttingDown` is set when a command has ended well (`power.ts:101`) and never taken back, so after a person's `shutdown /a` the agent goes on answering `shutdown_in_progress`, which `docs/05-nodes.md:160` explains as "it is already shutting down". `YesMeansDown`, part of `PowerInv`, says what is left:
  the system *took* a command, and a person may have cancelled it since. Because the flag is set so late, two overlapping calls may also both issue the command.
* **A block that stays.** The exit event of a helper that was killed is handled after a new one was started and wipes its bookkeeping (`shutdown-block.js:57`); the new one then blocks until the tray ends. A kill that fails has the same effect: it is swallowed and the bookkeeping cleared (`shutdown-block.js:77`), or its `error` event clears it.
  `BlockerKnown` and `BlockEnds` say that these are the only two ways: every other helper is known to the tray and ends with the work.
* **The monitor looks at served requests only.** `docs/05-nodes.md:186` says the hub asks for a shutdown after the idle time "without requests through the hub". `tick()` (`node.ts:291`) looks at requests that hold a slot; one
  that is at its health check (or waits for a wake or a slot) does not count and does not touch the idle clock. What does hold (`AsksOnlyIdle`, checked and proved) is that nothing is being *served*.
* **A body that is read whole has no deadline.** `upstream.ts:224` says of `fetchJson` that it is a round trip "under one deadline for the whole exchange". `send()` (`upstream.ts:97`) takes the timer and the abort listener off when the headers are in, and nothing replaces them while the body is read (`bodyTimeout` is 0). An upstream
  that goes silent in the middle of a document keeps the request, its slot and its admission, and the client's hanging up changes nothing; listings and the calls to an agent (`NodeClient.call`) are exposed alike. A stream has a limit on silence and ends with its client, but comments alone keep it open as long as the client stays.
* **Models that no endpoint takes.** `GET /v1/models` lists models of every kind (`routing.ts:96`), "every model it may use" by its comment; `resolve` refuses those whose kind is not the endpoint's (`routing.ts:72`), and there is none for images or speech. `CatalogueInv` says what holds: a listed model is served at the endpoint of its kind, and only there.
* **Beside thinking.** `temperature` and `top_p` are left out of a request with a thinking budget because "thinking forbids touching either" (`anthropic-translate.ts:219`), `top_k` is sent all the same (`:224`), and so is a `tool_choice` that forces a tool (`:187`), of which the repository says nothing and which the API's own documentation excludes beside thinking.
  `AnthropicAccepts` has the whole rule; `RequestsAccepted` says that a request keeps it but for these two.
* **An empty `properties` inside.** `sanitizeSchema` (`gemini.ts:48`) leaves out a tool's parameters whose `properties` map is empty and lets one inside them through, although Gemini "rejects ... an object with an empty `properties` map". It also drops a *parameter* that happens to be called `$schema` or `additionalProperties`, at any depth.
* **A stream that ends without a stop reason.** `message_stop` makes the translator say `stop` to the client (`anthropic-translate.ts:367`) although no reason has come, and the request then fails as incomplete: the client has seen a finish and gets an error after it.
* **"Blocked for a minute"** (`docs/01-gate.md:242`) is looser than the throttle: a block lasts until the oldest of the failures that count leaves the window, which is at most the window.
* **The engine may outlive the agent.** `docs/02-agent.md:7` says of Ollama that the agent "starts it itself (and stops it together with itself)". The engine is stopped after `app.close()`, which waits for open requests; when that takes ten seconds the forced
  `process.exit(1)` (`index.ts:34`) comes first. A child that missed a health check and was replaced (`ollama.ts:81`) is not stopped either, because only the latest one is remembered. What does hold (`KnowsItsChild`, part of `WorkInv`) is that the agent never loses sight of its *latest* child.
* **`max_concurrency` while it is being changed.** Old and new limiter run side by side, and a request routed before the change brings a limiter of the old size back (`registry.ts:47`, `chat.ts:311`), so that requests routed afterwards may have two limiters. `FreshWithinMax` says how far the limit holds (for a limiter made under the current settings, as long as no request routed under older ones has brought another);
  `UseInv` that no limiter as such is ever exceeded or leaves anybody waiting beside a free slot. A call made with a row from before a change of address and key together carries the old address and the new key (`registry.ts:23` reads the key by id): not covered by a property.
* **The streamed call without arguments.** A tool without parameters is called with `"{}"` in a whole answer and with `""` in a stream (`anthropic-translate.ts`), which is no JSON; `StreamIsWhole` compares what the two mean.
* **The panel.** A call that cannot be aborted (an action, an older page of the log, the reload after an action of a page that has gone) and is refused signs the panel out even if a newer token has been entered meanwhile; `SessionEnds` shows that the mounted page's query never does. The log may have a gap when more requests
  than a page holds end between two polls, or when an older page arrives after the filter was left and taken up again (`patchy`); `EndIsTrue` holds otherwise. A `fetch` has no deadline, so a hub that never answers leaves `busy` set and stops polling. The reload after an action of an unmounted page does not refresh the page that took its place.
* **The editors.** Those of providers and keys send every field and so overwrite what others changed since they were opened; only the model's keeps the promise "a save never rewrites what it did not touch". Its "use reported" for the locality fills in the *overridden* one when the provider reports none (`ModelEditor.tsx:163`), although the save removes
  the override. An emptied name is refused, an emptied description or number falls back to what was reported. A key stored with an empty allow-list cannot be saved unchanged. A key whose creation succeeded while the answer was lost is in the table with a secret nobody has seen, and the retry is refused.

## Proofs

All theorems are proved from the modules' own assumptions on their constants (finite sets, positive limits, bounds that are numbers, and that the model value `None` or `Null` is none of the values it stands beside), for any number of requests, priorities, slots, calls, downloads, polls, helpers, filters, keys, edits, lost answers, messages and blocks, any window and any calendar.
Where an invariant is not inductive, the run checks the inductive one, which contains it.

* **PriorityLimiter.** `WithinLimit` and `NoIdleSlot` are not inductive alone: that a release grants the right number needs `active` to be the number of holders (`SlotsCounted`) and the line to hold
  exactly the waiting requests, once each (`LineIsTheWaiting`), sorted (`LineSorted`) and with live clients (`NoGhosts`). `IInv` is their conjunction. `SequenceFacts` supplies
  what `InsertAt`, `RemoveAt` and taking a prefix do; `LeavingTheLine`, `JoiningTheLine` and `FreeingASlot` say what the three ways of changing the line preserve; the step theorem has a case per method.
* **PriorityLimiterFair.** `ServesBestFirstHolds` is the refinement of `FairSlots`, initial state and every step. What the code never states and the refinement needs is that requests of one priority stand in the line in the order of their arrival, although the line is sorted by
  priority and people leave it from the middle. `ArrivalsInv` says so of the history variable, and `FairInv` (with `IInv`) is inductive. From it the first of the line is, among the arrivals, the earliest of the highest priority, which is the one `FairSlots` serves.
* **Limits.** `LimitsInv` adds to the allowance that `pending` equals the number of requests in flight (`PendingExact`), that future days are empty, and that the window is the tail of the history of admissions with everything cut off older than
  the window (`WindowIsTail`). From the last one `SlidingWindow` follows at each admission; `DailyAllowance` needs the day's recorded requests *plus* those in flight to stay within `rpd`, over midnight too.
  `TokenOvershootHolds` bounds the sum over the days of a month: `TotalIsCount` replaces the recursively defined sum by the size of a set of units (a smallest set on which they differed would differ on a smaller one), so that the library's facts about finite sets apply.
  `RetryAfterIsEnoughHolds` needs what a refusal remembers (`RefusalKnown`, part of `LimitsInv`): the entry of the window whose leaving makes room, and `RoundedUp`, that rounding to whole seconds never falls short.
* **Catalogue.** `CatalogueInv` is inductive as it stands once it says that a watch gives up in time (`WatchBounded`). It is split into the rows (`RowsInOrder`) and what is under way (`WorkInOrder`). `AfterListing` says what a list does to rows, `PurgedRows` what a removal does, `FewerRows` and `RowReplaced` what the owner does; `UseIsNext` carries both theorems over to
  `ProviderUse`, whose requests leave the catalogue alone. That a listed model is served at the endpoint of its kind and at no other follows from a row's kind, which is the owner's or else the list's or the name's. `OwnersWordHolds` follows from the same lemmas: a list keeps enabled, place and source of every row it finds.
* **ProviderUse.** That no limiter exceeds *its* size is not inductive: a freed slot is passed on by the size the request itself remembers. `UseInv` therefore says that those in one limiter agree on its size, also with the registry (`LimitersAgree`), and that a request routed since the last change has the stored row and, as long as no older one has taken a
  slot, is in the limiter the registry holds (`RowsFresh`). The slots are counted by four lemmas (`SlotTaken`, `LineJoined`, `SlotFreed`, `SlotPassed`), one for each way of changing them; `EmitInv` is the change event. `FreshWithinMaxHolds` follows from the invariant; it is about the limiters made under the current settings only (an old size can come back, see above).
* **AgentPower, TrayBlocker.** `PowerInv` adds what each stage of a call knows (`CallsConsistent`). `CallByCall` breaks it into one statement per call, so that a step has to look only at the call it moves.
  `BlockerWatches` shows that every behaviour of the composition is one of `AgentPower`, which carries it over (`PowerInvariantWatched`). `BlockerInvariant` is `BlockerKnown`, kills that fail and late exits included; it is inductive once it says that no unheard exit is of a helper that runs and that a lost helper is not the one the tray knows.
* **NodeManager.** `NodeInv` splits into the half of the requests and their slots (`ServedInv`) and the half of the wake (`WakeInv`), tied by `WaitersHaveWake`. `GrantServes` shows once that granting slots keeps the books, `EnterServes`, `LeaveServes` and `MoveServes` carry it
  over to the ways requests move. `AsksOnlyIdleHolds` follows from the exact count: zero in flight means nobody is served.
* **Access.** That a row's `last used` is less than a minute behind (`KeysInOrder`) needs what the store's memory of its writes says of the row: the same time, unless the row is gone, and nothing of an id not yet given out (`TouchedInOrder`); were that memory ahead of the row, `touch` would skip a write it owes. `KeysInv` is the conjunction and is inductive.
  `ThrottleInv` is not: that a flood lifts no block needs the map's order to be the order of the latest failures, whoever comes behind an address that still counts to be in the map as well, and what is remembered of an address to be exactly its guesses in the window. `ThrottleKnown` (`OrderKnown`, `SameRecent`, `WithinBounds`, `RefusalEnds`) says so and is inductive.
  `LaterIs`, `LaterOfLater` and `LaterOfAppend` are what `recent()` does to a rising line of times, `ForgettingKeeps`, `FailingKeeps`, `RefusingKeeps` and `TickingKeeps` the four ways the throttle changes; `WaitEnds` that the rounded wait is never too short.
* **Conversation.** None of the three properties is inductive: each speaks of one moment of a chat that is built message by message and block by block. `ConversationKnown` says what holds in between and has four parts. `ChatKnown`: the messages are ones a client writes, every tool result belongs to a call of the answer before it, and the turns they make
  are in order with every use answered in the next turn or still open. `AnswersKnown`: the message of each answer makes the very blocks of that answer (`Kept`), so `EchoIsExactHolds` follows once turns of the assistant are known to stay (`Persist`). `RequestKnown`: a request exists as long as anything is asked or answered, only when no call
  is open, and is the translation of the chat until the answer begins. `StreamKnown`: which tool index and which thinking block the translator remembers, and that the client has of the closed blocks what a whole message gives, of an open one what has come; when the stop reason is there nothing is open, and `StreamIsWholeHolds` follows.
  `ParametersCleaned` says that sanitized parameters, whatever the schema, hold none of the keys Gemini refuses and no empty `properties` at the top. `RequestsAcceptedHolds` needs of the above only that the turns are in order and no call is open; the rest is arithmetic of the budget (`BudgetFits`), that the last answer with uses stands right before its results (`LoopThinks`), and that the last call with an id is the one a result belongs to (`NameIsCalled`).
  Turns and filters are recursive functions and `FlattenSeq`; what they do for one element more (`TurnsAppend`, `KindsAppend`, from `FlattenAppend` in `SequenceFacts`) is proved by a least counterexample, and every proof goes on from there one message or one block at a time. `PushKeeps` and `AnswerKeeps` are the turns; `SayKeeps`, `ResultKeeps`
  and `TakeKeeps` the three ways the chat grows; `StreamStarts`, `StreamGrows`, `StreamSigns`, `StreamStops` and `StreamMoves` the events; `ReplyEchoes` the way from blocks to the client's message and back.
* **RequestRun.** Two theorems rest on one lemma about steps (`StepKeeps`): `RequestsKeepBooks` (the invariant `RequestInv`) and `PromiseKept` (the refinement of `ClientExchange`, initial state and every step). The invariant is taken apart into the count of the slots and a statement about each single request (`Sound`); `May` says what a client
  may see next. `MoveKeeps`, `HoldKeeps` and `LeaveKeeps` show for the three ways of moving that whatever is sound and may be seen keeps everything; `GoneSound`, `FailedSound`, `CompletedSound` and `AcquiredSound` show that the ends are sound, and each action's lemma puts one of each together.
* **AgentWork.** `PullsInv` needs that a running job is older than all that wait (`OldestRuns`): from it, and from the line being sorted, `DownloadsInOrder` follows at once. `FinishKeeps` is the heart: the first place of the line that is not aborted exists (least-number principle in `SequenceFacts`),
  the jobs before it end as cancelled, and the rest of the line is what `SubSeq` leaves. `EngineInv` is proved action by action. `WorkInvariant` adds `RunWaits`, which ties the two: a start that ends for `run()` may begin the next in the same step.
* **Panel, LogPage.** `PageInv` is what makes `QueryInv`, `EndIsTrue` and `SessionEnds` provable. `SessionInOrder`: the mounted page's request carries the session's token, and whatever comes back refused carries a token the hub has replaced; from it `SessionEndsHolds` follows step by step.
  `AnswersInOrder`: no answer is older than the one before it, or than the change the page was told of; without it a late poll could undo a reload. `ListInOrder`: an older page on its way continues the list where it was asked for. `ListIsWhole`: the list has no gap and, if it was not full, goes down to the beginning.
  `PanelKeeps` proves the first two and the hook's own invariants for every action of the panel and says how the shown data grows; `FollowKeeps` needs nothing else of those actions. `RecentRows`, `NewerPage` and `OlderPage` say what the newest rows of a log are and why joining a page at either end leaves no gap, from the size of the page alone.
* **Editors.** `RecordsInv` contains its own induction: that a row can be opened and saved as it is (`KeptAsItIs`) follows from the row being in order (`KeptInOrder`), and that it stays in order needs of an open dialog only that its draft is one the form can hold, and what of it was not touched (`DialogOK`). `PatchedFields` and `PatchedModel` say
  what a patch, which has some of the fields, makes of a row; `InputFields` and `DraftFromRow` what the form writes and reads. `FormSaved` joins them, for a new row and a changed one; `OthersTyped` shows that the calls of others fit as well. `SavesAsShownHolds` follows from `FormSaved` and `ModelSavedAsShown`: of the row the save finds nothing
  is used but that it is in order, so others may have put anything there since the dialog was opened. The texts and numbers of the rows and forms are the few the module names; the number of edits, changes and lost answers is not bounded.

Checked by TLC only:

* Liveness (`TopPriorityServed`, `AlwaysAnswered`, `BlockEnds`, `EveryRequestEnds`, `WakeEnds`, `EveryRequestOver`, `EveryDownloadEnds`, `CallersAnswered`, `DownloadShows`), which the proof system cannot do under fairness.

## Not modelled

* Texts, layout and bytes: presentation, configuration files, the bytes of the magic packet and the relay's exchange, cryptography (a key sealed with one master key cannot be opened with another; that is all), translations and styles of the panel, its pages that only show what the hooks give them, `e2e/`, `scripts/`, `tools/`.
* In modelled parts: an embeddings request differs from a chat that is not streamed only in its documents; response headers (`RequestRun`); pictures, structured output, usage numbers and the different stop reasons (`Conversation`); aliases, and the pages of Anthropic's model list, which can change between one page and the
  next (`anthropic.ts:76`, one answer here); a failing `UPDATE` of a key's last use, after which the store's memory is ahead of the row (`keys.ts:221`; `Touch` writes both in one step); names and their uniqueness, so that `require(idOrName)` never finds a key by another's name, and what a running request keeps of a key that changes (`Access`); time zones with daylight saving and the per-model totals (`limits.ts`, `usage.ts`); machines
  without a shutdown address, several machines in one monitor tick (`node.ts`); calls to a running engine (list, load, unload) and the agent's cache of what it said (`ollama.ts`); the tray's menu.
* A model's kind in its editor, which shows `chat` (`ModelEditor.tsx:158`) where the hub would guess from the name (`models.ts:103`): `Editors` leaves kinds out, `Catalogue` has the hub's.
* The list that `POST /providers` asks for is `Catalogue`'s subject and not repeated in `Editors`.

## Plan

1. `ShutdownProtocol`: `NodeManager` and `AgentPower` composed over HTTP with the hub's ten-second deadline.
2. Composition of `RequestRun` with `Limits` (admission released exactly once), and the agent's proxy as one of its upstreams.
