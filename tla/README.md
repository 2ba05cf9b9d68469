# Trusyn AI: a TLA+ model of the gateway, its event streams and its consoles

Trusyn AI is a gateway that AI agents send their requests through. The backend (FastAPI on one
event loop per worker process, PostgreSQL, Redis, two workers by `backend/Dockerfile`) judges each
request by the agent's status, the organization's policies and a risk score, adjusts the agent's
trust, persists the decision and streams it to dashboards over WebSockets. Two consoles, for
organizations and for the platform's administrators, and a landing page run in the browser. This
directory models the parts in which ordering, concurrency, failure and arithmetic decide whether the
system is right, checks them with TLC on small instances and proves the main properties with TLAPS for
all instances.

Paths below are relative to `src/backend/app` unless they begin with another directory of `src`.
`PROJECT.json` has the full lists: components, runs, the lines each definition stands for, hazards,
findings, theorems.

## 1. Inventory

| Component | State | Operations | Talks to | What is hard | What makes it right | Model |
|---|---|---|---|---|---|---|
| Active policies and cache (`services/policy_service.py`, `cache/`) | policy rows; one cache key per organization in Redis with a TTL, a fallback dictionary per worker | create, update, delete a policy; get, set, delete a key | PostgreSQL, Redis, the gateway | the key is deleted before the commit; reads and fills race with that; each Redis call can fail | a superseded policy set goes out of use in bounded time, at once when nothing races | `CacheService`, `PolicyCache` |
| Governance engine (`engine/` without the orchestration) | none | detect, match, score, decide | called by the orchestration | contradicting policies, ranges, precedence | the strongest rule wins, scores stay in range and are monotone | `GovernanceEngine` |
| Behaviour, anomaly, trust (`intelligence/`) | `trust_score` of the agent | profile, anomaly score, trust update | called after the decision | feedback from trust to risk to trust | refusals cost; from which score on recovery is possible | `AgentTrust`, `AgentRuntime` |
| Gateway pipeline (`engine/orchestration.py`, `intelligence/intelligence_orchestrator.py`, `services/ai_agent_service.py`) | the agent's row, decision, threat and audit rows; one transaction per request | a runtime request; update and delete of an agent | cache, Gemini, engine, database, event publishers | stale rows, row locks, events before the commit, rollback, timeout | a block holds, events follow commits, clients are told the truth | `GatewayPipeline` |
| Event bus (`events/event_bus.py`, `publishers.py`) | bounded queue, subscriptions, a worker task | publish, subscribe, start, stop, dispatch | publishers; retention and broadcast subscribers | overflow, callbacks that raise, stop and restart | order, no silent loss, no wedged worker | `EventBus` |
| Channels and streaming (`ws/channels.py`, `events/stream_manager.py`, `events/subscribers.py`, `api/routes/ws.py`) | the last events of each channel; per socket the subscriptions | join with history, subscribe, unsubscribe, live events | bus, WebSocket manager | history races with the live stream; tenants share channels | no gap on join, tenant isolation | `EventChannels`, `EventStreaming` |
| WebSocket manager (`ws/manager.py`) | registry, channel index, activity times | connect, disconnect, subscribe, broadcast, heartbeat, idle clean-up, stop | handlers, bus, clients | everything that removes a connection races with everything that uses it | registry and index agree, no resurrection, slots come back | `WebSocketManager` |
| Request middleware (`middleware/`) | none but the limiter's buckets | timeout, body limits, headers | every request | answers 504 while the handler goes on | the answer is not a lie | timeout in `GatewayPipeline` |
| Rate limiter (`middleware/rate_limit.py`) | fixed windows per key, per process | hit, cleanup | requests, handshakes | several keys per request, window edges, waits cut to whole seconds | a bound on what passes in any stretch of time; who waits as told gets through | `RateLimiter`, `RequestGuards` |
| Gemini client (`services/gemini_service.py`, `utils/resilience.py`) | circuit breaker, window, semaphore | analyse, structured call | gateway, recommendations | concurrent failures and late successes, retries, threads that outlive a timeout | no slot is lost; every call ends; the circuit closes again | `GeminiClient`, `RequestGuards` |
| Accounts (`services/auth_service.py`, `user_service.py`, `organization_service.py`, `core/security.py`, `api/deps/`) | users, organizations, signed tokens | login, refresh, change profiles, users and the organization | every route, audit trail | rows as old as the admission, role changes by those who lose theirs, check then insert | rights change only by those who may; the client is told the truth; the trail has the order of the commits | `Accounts`; tokens in `ConsoleSession` |
| Sessions of the two consoles (`frontend/*/src/app/api/client.ts`, `App.tsx`, `ProtectedRoute.tsx`) | tokens and user in the storage the tabs share; per tab its view and its requests | login, boot, requests, the refresh they join, logout, navigation | backend, other tabs | expired tokens found by many requests at once, sign-outs and sign-ins under way | nobody waits for ever or is signed out by an expiry; no session of before comes back | `ConsoleSession` |
| Web application and admin panel (`frontend/web-app`, `frontend/admin_panel`) | per page its list, selection, drafts and flags | load, filter, page, edit, create, delete, toggle, export, poll | backend | answers late, failed, overtaken | the list is that of the filter, actions meet the row selected, spinners end | `Tab`, `WebLists`, `AgentsPage`, `AuditLogsPage`, `PolicyEnginePage`, `ThreatCenterPage`, `AdminLists`, `GovernancePage`, `Dashboards`, `SettingsPages`, `Frames`, `FrontEnd` |
| Landing page (`frontend/landing-page`) | the state of its widgets | timers, clicks, resizes | nothing | timers that restart each other | the parts of a widget agree | `LandingPage`, `LandingSections`, `FrontEnd` |
| Lifecycle, scheduler, telemetry (`main.py`, `tasks/`, `observability/`) | tasks, metrics | start, stop, periodic calls, health loop | bus, manager, limiter | a callback that raises | a failing task does not end the others | not by itself; the periodic clean-ups are actions of `RateLimiter` and `WebSocketManager` |
| Threat ingestion, audit trail, alerts | rows, the last 300 alerts | ingest, record | database, bus | rows and events of one transaction | as for the gateway | audit events in `Accounts` and `GatewayPipeline` |
| Settings, API keys, integrations | rows | change | database | in-place change of JSON | what is told is stored | `Accounts` (profile, integrations), `SettingsPages` |
| Dashboards, analytics, admin views, exports of the backend | none | queries | database | nothing changes state | | not modelled |
| Correlation, explanations, recommendations | cached histories | pure summaries | events | no decision depends on them | | not modelled |
| Migrations, schemas, configuration, vendored user interface | | | | | | not modelled |

How a request runs through the parts: the rate limiter and the hardening middleware admit it;
`process_runtime_request` loads the agent and the policies (cache or table), publishes
`gateway.request.received`, asks Gemini, runs the engine, inserts and publishes threat and decision,
derives the trust score, flushes it (which takes the row lock), writes the histories, publishes the
trust event, commits and answers. Each publish puts an event in the bus without waiting; the bus
hands it to the retention streams and to the WebSocket manager, which sends it to the members of
the event's channels.

## 2. Modules

| Module | Code | Role |
|---|---|---|
| `CacheService` | `cache/cache_service.py` | the two tiers, with failing Redis calls |
| `PolicyCache` | `services/policy_service.py`, `engine/orchestration.py:96-124` | composes `CacheService` with administrators and gateway requests; also `api/deps/auth.py` (admission) |
| `GovernanceEngine` | `engine/*` | pure operators: one judgement |
| `AgentTrust` | `intelligence/behavior_engine.py`, `anomaly_detector.py`, `trust_engine.py` | pure operators: one trust update; extends the engine |
| `AgentRuntime` | `intelligence_orchestrator.py`, `ai_agent_service.py` | one agent, requests in sequence: the abstract promise about trust |
| `GatewayPipeline` | the same code, as concurrent transactions | extends `AgentTrust`; every request goes through `Execute` and `UpdateTrust` |
| `OrderedBroadcast` | the promise of `events/event_bus.py` | the abstract specification of the bus |
| `EventBus` | `events/event_bus.py` | the bus alone; implements `OrderedBroadcast` |
| `EventChannels` | `ws/channels.py`, `events/publishers.py`, `api/routes/ws.py` | which event goes where, which socket may hear what |
| `WebSocketManager` | `ws/manager.py`, `api/routes/ws.py` | the manager alone, with two or more sockets |
| `EventStreaming` | `main.py`, `events/subscribers.py`, `events/stream_manager.py` | instantiates `EventBus` and `WebSocketManager` and adds history |
| `RateLimiter` | `middleware/rate_limit.py` | buckets of keys that are charged in turn |
| `GeminiClient` | `services/gemini_service.py`, `utils/resilience.py` | window, semaphore, retries, time-outs, threads, circuit |
| `RequestGuards` | `middleware/rate_limit.py`, `engine/orchestration.py`, `tasks/cleanup_tasks.py` | extends both: requests behind the limiter and the calls of those that pass |
| `Accounts` | `services/user_service.py`, `auth_service.py`, `settings_service.py`, `organization_service.py`, `audit_service.py`, `api/deps/auth.py` | concurrent transactions on users and organizations |
| `ConsoleSession` | `api/client.ts`, `ProtectedRoute.tsx`, `App.tsx` and the login pages of both consoles, `auth_service.py` | tabs over one storage, and the server of their tokens |
| `Tab` | `api/client.ts`, the services of both consoles | one page: its requests, the rows at the server, what others do to them |
| `WebLists`, `AgentsPage`, `AuditLogsPage`, `PolicyEnginePage`, `ThreatCenterPage` | those pages of the web application | lists with filter, selection, form |
| `AdminLists`, `GovernancePage` | the pages of the admin panel | lists with search and pager; policies |
| `Dashboards`, `SettingsPages`, `Frames` | dashboards, settings and layouts of both | one load each; independent saves; polls and menus |
| `LandingPage`, `LandingSections` | `frontend/landing-page` | widgets with timers |
| `FrontEnd` | | extends all of these: any page by itself |
| `MC...` | | the instances for TLC |
| `BusAndSocketProofs` | | theorems about `EventBus` and `WebSocketManager`, apart and side by side |
| `GatewayProofs` | | theorems about `GovernanceEngine`, `AgentTrust`, `AgentRuntime` and `GatewayPipeline` |
| `FrontEndProofs` | | theorems about `FrontEnd` and all the pages and widgets it is made of |
| the other `...Proofs` | | theorems about the module of that name |

A step of a model is what the code does between two awaits at which another task, worker or
transaction can interfere. Stretches that touch only private state are one step, and a critical
section without an await inside is one step.

**CacheService and PolicyCache.** The contents of the policy table are a version number, the count of
committed changes. `Flush`, `Invalidate`, `Commit` and `Rollback` are an administrator's transaction in
the order of the code (the key is deleted first); `Lookup`, `ReadTable`, `Fill` and `Decide` are what a
gateway request does after its `Admit`. The admission matters: `get_current_user` loads the actor with the
organization, whose relationships are eager (`lazy="selectin"`, `models/organization.py`), so the policies and
the agents of the organization are in the session from then on, and SQLAlchemy's identity map keeps
their values when a later SELECT returns the same rows. `ReadTable` therefore takes the version of the
admission or that of the table. `Get`, `Set` and `Delete` let each Redis call fail and follow the fallback of the
code. `Tick` ages every entry.

**GovernanceEngine and AgentTrust.** A request is a record of what the code can tell apart: the pattern
classes found, a suspicious URL, the conditions that hold, production, external, Gemini's level. A
policy is enabled or not, matches all or any of its conditions, and has an action. All numbers are
those of the code.

**AgentRuntime.** `Govern` is a request that overlaps with no other, for any behaviour profile, so what
it says holds for any history; `Administer` is any change an administrator makes.

**GatewayPipeline.** `agent` is the committed row, `row[x]` the copy of transaction x, `dirty[x]` the
columns it changed: SQLAlchemy writes only these, on flush (`autoflush=False`), under the row lock.
`Receive` loads the row without a lock, at the admission of the request for the reason just given,
`Evaluate` judges by that copy, `Assess` computes the score from
it, `FlushTrust` writes it if it has changed, `AnnounceTrust` publishes it either way, `Commit` merges the dirty
columns into the row as it is then. `Update` and `Delete` flush and refresh; `AnnounceStatus`, after the insertion
of the audit event, is a step of its own, with the lock only if something was written. `Fail` is any
exception or crash before the commit is acknowledged. `Reject`, `Answer` and `Timeout` are what the client sees. Three
history variables record who announced, who committed and who was received since the last status
change. Left open: how much of the activity is younger than an hour. Left out: a commit whose
acknowledgement is lost, and the rows of other tables beyond the fact that they live and die with the
transaction.

**EventBus, WebSocketManager, EventStreaming.** The bus numbers accepted events; a full queue refuses
(no step). `Run` and `End` are a callback's effect and its end, possibly an exception in between. In
the manager, handlers, one broadcast per channel, the heartbeat, cleaners and shutdown are separate
tasks. `EventStreaming` joins the two: `BroadcastEvent` is the bus's `Run` of the subscriber
`ws-broadcast` and at the same time the manager's `PublishEvent`.

**OrderedBroadcast.** A subscription settles the events it wants one after the other, acting on each or
missing it for good, and passes over none while it is subscribed. It knows no queue, worker or phase. The
refinement maps its variables to those of the same names in `EventBus` (`Ordered`), so a publication that
is accepted is `Accept`, the effect of a callback, its failure and the drop of a stopped queue are `Settle`,
and everything else is a stutter.

**RateLimiter, GeminiClient, RequestGuards.** Time is in ticks of half a second, so that `retry_after`,
which the code cuts to whole seconds, can be too short. A request is charged to its keys in turn and stops
at the one that refuses. A call to Gemini waits for a slot (the semaphore is first come, first served),
then for a thread (the executor's queue; the models take any order), then ends, fails or is given up while its
thread goes on (`orphans`). The model is of the gateway's service. The recommendations build one of their own, with its
own circuit, window and semaphore but with the threads of the same pool, which `Recommend` takes at any time; that
second service is the same code and is not modelled twice. A timeout of the middleware does not cancel calls. The count of failures is capped at the threshold.
`told` and `passes` are history: what clients were told, and when requests passed.

**Accounts.** As in `GatewayPipeline`, a request is a transaction with copies as old as its admission, of
which only the columns that differ are written. `Load` finds the actor's own row in the session and another's
in the table. An integration is assigned to its own column after an in-place change, so nothing is written
(`UpdateIntegration`). An analyst may do what a developer may, and is left out.

**ConsoleSession.** `store` is the storage all tabs share; each tab has a view, the requests in flight and
at most one refresh, which the requests that meet a 401 join. `Notice` is the event by which a tab learns of
changes of the stored user. A tab writes the storage in the steps in which its code does. `owner`,
`raced` and `calm` are history: who signed in last, whether an answer of before is still to come, and
whether anything but expiry has happened.

**FrontEnd and its pages.** A request of a page is sent, served in any order, and answered in any order,
refused or lost; between those steps the user goes on and other users change the rows. What a page keeps is
in `ui`; `shown` is history, saying for which query the list was asked for and which answer came last. One page
is modelled at a time because they share nothing but the session, which is `ConsoleSession`'s.

## 3. Runs

| Run | Question | Bounds, and why they suffice |
|---|---|---|
| `policy_cache` | can a superseded policy set be used too late, or without a race? does the cache converge? | two administrators, one gateway that serves again and again, two workers, two changes, TTL 2, delay 1: a race involves one writer, one filler and a second of the former; versions 0, 1, 2 tell the previous set from an older one |
| `agent_runtime` | decisions and trust of one agent over any sequence | three policies that share conditions and disagree, benign to hostile requests, quiet and anomalous profiles, clean requests of every context (production, external, each of Gemini's levels), scores on both sides of each threshold and all those they lead to |
| `gateway_pipeline` | what concurrent transactions do to one agent; does the row lock ever strand one? | two benign requests and one administrator: any two contend for the lock while a third holds it; score 98, two from the limit, and 60, from which each request earns; a benign request is refused or not by status alone, which is what `BlockTakesHold` turns on |
| `gateway_streamed` | are streamed decisions persisted? (they are not always; finding) | benign and hostile requests |
| `event_bus` | does the bus implement the ordered broadcast, lose nothing silently, finish every event? | a queue of two and three events, so that the queue is full and holds more than one event; a subscription to the type and one to all, both come and go; stop and restart at any point |
| `websocket_manager` | registry, resurrection and slots under every interleaving | two sockets of one organization that come to one channel, one place, a cleaner besides the heartbeat: one socket is removed by several tasks at once while the other waits for its place |
| `websocket_limits` | is the connection limit kept? (it is not; finding) | two handshakes at once |
| `event_streaming` | is there a gap between history and live stream, do tenants stay apart, do events arrive? | one dashboard, two events of two tenants, a retention of one, so that it truncates, a first history of two, and the histories of one or two that the dashboard asks for later |
| `request_guards` | how much passes the limiter, who is kept waiting, are slots lost, does the circuit recover? | two users behind one address with a gateway limit of two, a dashboard with two keys; two slots over one thread, two attempts, a circuit that opens at two failures: each resource is exhausted, and the second caller meets that state |
| `accounts` | who changes whose rights, what are clients told, in which order is it audited? | two requests at a time among two accounts of one organization, a platform administrator of another and a free address: a race is between two transactions on a row; every request may be of any kind |
| `console_session` | does anybody wait for ever, lose or inherit a session? | two tabs, two users, two requests per tab, two steps of the user: both requests of a tab can meet the expiry, while the other tab refreshes, signs out or signs another user in |
| `front_pages` | does each page show what it says it does, whatever the order of answers? | two rows that a filter tells apart, two requests in flight, three steps of user and others: an answer overtakes another, and a row changes between asking and answering |

Symmetry is used in `accounts` and `gateway_streamed`, which check safety only, over requests that the code does
not tell apart. Larger instances of `GatewayPipeline` (two requests with two
administrators, for the invariants), of `EventStreaming` (three events) and of `WebSocketManager` (two
channels) have been explored too and satisfy the same invariants; the theorems of section 5 cover all instances.

`GatewayPipeline`, `EventStreaming`, `Accounts`, `ConsoleSession` and `FrontEnd` check no deadlock: what their users do is
bounded and ends. `EveryRequestEnds`, `ReachesDashboards`, `Unstuck` and `Settles` take its place.

**Fairness.** Nothing is assumed of clients, users, administrators or publishers anywhere: nobody has to begin.
`PolicyCache`: time passes; a request that has begun to load gets an answer or a failure.
`GatewayPipeline`: a transaction that has begun goes on or fails. Gemini calls are cut off
(`utils/resilience.py:35`), the pool has a timeout (`db/session.py`), and a Redis connection that
has died fails at the latest with the operating system's own timeout; there is no shorter one, because
`cache/redis.py:29` sets a timeout for connecting only. Weak fairness of a step that needs the row lock is
enough because its holder ends and, with finitely many transactions, the last one waiting gets it.
`EventBus`: the worker is scheduled and callbacks end. `WebSocketManager`: a broadcast that has begun is
run, sends complete or raise, the heartbeat loop runs. `RequestGuards`: time passes and the event loop hands
on slots and keeps its timers; nothing makes Gemini answer or a thread that was given up end.
`ConsoleSession` and `FrontEnd`: the browser ends every request, answered or not, and timers fire. `apiRequest`
gives up after 15 seconds; a refresh and an export have no time-out of their own, so for them this is the
browser's.

## 4. What the checks show

*Policies.* However lookups, fills, deletes, commits and Redis failures interleave, no request takes up
policies that were superseded more than TTL plus the delay from its admission to its fill ago
(`StalenessBounded`), the cache is wrong only after a race or a Redis failure (`FreshUnlessRaced`), and it
converges (`EventuallyFresh`). The deletion of the key before the commit is what makes the race
possible: the model reaches states where the old set is served after the commit, which the time bound
then ends.

*Decisions and trust.* A blocked or quarantined agent is refused whatever the policies say, among policies
the strongest wins, and a refusal never raises trust (`RefusalCosts`). Whether trust
comes back by clean requests is decided by a threshold that depends on what the context adds to the risk
(`RecoveryThreshold`): where it adds at most 4 (neither production, nor an external source, nor a level from Gemini that
weighs more) they earn at least four points from any score; for an external source only from 23 on, in production from 27, for both from 39; below that a clean request leaves the
score where it is. In production a score of 26 or less never rises by any request (`NoWayBackInProduction`). A
reader of the trust engine alone would expect neither.

*Concurrent transactions.* A committed block refuses every request received after it
(`BlockTakesHold`); of the scores, or statuses, that were written, published and committed, the one published last
is the one the database keeps (`LastToldIsKept`), because they are published under the row lock although before
the commit; nobody waits for ever (`EveryRequestEnds`). `LastToldIsKept` is no promise about dashboards: the list
below names what is published without being written, and what is written without being published. The code
does not promise that trust deltas add up: two requests that overlap both start from the old score and the later commit wins, over an administrator's score too. The models
reproduce that and no property forbids it.

*Accounts.* The same stale rows never bring rights back that an administrator took
(`RightsOnlyByAdministrators`), and who was demoted or deactivated while their own request was on its way
does not undo it by that request (`NoSelfRevival`). The client is told of what it asked for unless someone
else changed it too (`AskedIsAnswered`); the exception is the integrations, which are answered and audited but never
written. The audit trail has the order of the commits of a row (`AuditedInOrder`).

*Guards.* Fixed windows let at most twice the limit through in any span of a window (`TwiceTheLimit`), and who
waits as told is refused again at most once for the rounding (`WaitIsTrue`). Slots are not lost and the
threads are never more than the pool's (`SlotsAccounted`), every call ends even when the pool is full of
threads that nobody waits for (`CallsEnd`), and the circuit does not stay open (`Recovers`).

*Streaming.* The bus is an ordered broadcast (`ImplementsBroadcast`) that loses nothing silently (`Accounted`)
and wedges on no exception (`EveryEventFinished`); the registry stays consistent and slots come back
(`RegistryConsistent`, `NoResurrection`, `SlotReleased`); dashboards see no gap and nothing of other
tenants (`NoGapOnJoin`, `TenantIsolation`, `ReachesDashboards`).

*Consoles.* Requests that join a refresh are woken (`WaitersWake`), expiry signs nobody out (`StaysSignedIn`), and
the storage holds the session of the last to sign in unless an answer of before was still out when they
did (`OwnersSession`, `ViewsAgree`; by such an answer the code does bring a session of before back); spinners of the boot end (`Unstuck`). Pages come to rest (`Settles`) without
spinners (`NoSpinnerForever`). Where the answer that came last is that of the load sent last, they show the list of the
filter (`ListIsCurrent`) without a row they were told is deleted (`NothingReturns`); an overtaken load leaves the list of an
earlier filter, and these two exempt it. Forms are of the row selected, and so are details, but in two dialogs of
the admin panel only if no answer to an earlier click comes last (`ActsOnTheSelected`); the widgets of the landing page agree with themselves
(`WidgetsAgree`).

*Findings.* (1) `ws/manager.py:75`: the connection limits are checked before the handshake and the
connection registered after it, so concurrent handshakes exceed them. (2) `engine/orchestration.py:248`:
the events of a decision are published before the commit; when a later step fails, dashboards and
retained history show a decision that no row records, against `docs/ARCHITECTURE_OVERVIEW.md:32`.

*Behaviour met while modelling that no doc or test speaks against; the properties name these cases as exceptions or say
nothing of them:*

- `services/settings_service.py:113`: an update of the integrations writes nothing.
- `intelligence/intelligence_orchestrator.py:189`: a trust score that comes out as it was is published without being
  written, hence without the row lock. A request that loaded 100 may stream 100 after an administrator has committed 98.
- `services/ai_agent_service.py:119`: an administrator's edit of the trust score is never streamed. A status given
  that equals the one read is not written; if another administrator has committed a different one meanwhile, that
  one is announced again, possibly after a newer one, and so is a second deletion of the same agent.
- `engine/risk_engine.py:57`: an external source adds 6 to the risk, so that clean requests from one earn an agent
  with a score of 22 or less nothing, as in production those of one with 26 or less.
- `events/event_bus.py:46`: `start` during a `stop` that still waits for its worker would have its new queue
  dropped. The application's lifespan (`main.py:43`, `main.py:60`), their one caller, awaits each, so the models exclude it.
- The lists of both consoles take whichever answer comes last, so a load that is overtaken leaves the
  list of the earlier filter; edits typed while a list reloads may be lost; deleting from a list restores
  what the list was when the deletion was asked for.
- The details in the admin panel's threat and organization pages may be those of an earlier click; a
  refused investigation in the Threat Center leaves the earlier one.
- `SystemHealth` says that all systems are operational when it has no components, and the top bar always
  does; a failed poll of the web application's frame shows no threats. The admin settings share one
  save indicator and its 1600 ms timer.
- The end of a refresh token, or a change of its tenant (`services/auth_service.py:166-207`), is a refused refresh like
  an error of the server; the model has one step for all of them.
- A refresh of the tokens has no time-out. A server error during a refresh signs the user out; a refresh or a
  profile that is answered after another user has signed in puts the former's tokens or name back; a
  profile answered after a sign-out leaves a user without tokens until the next poll.
- `services/gemini_service.py:157`: an answer that is JSON but no object raises outside the handler that
  would fall back. `state/session.ts:5`: the snapshot of the session is a fresh object at each reading.
  `observability/telemetry.py:64`: an exception outside the database check ends the health loop.

## 5. Proofs

The theorems hold for all values of the constants that meet the named assumptions (`EngineAssumption`,
`PipelineAssumption` and so on: finitely many policies and requests, limits that are numbers, scores in
0..100).

| Module | Theorems | Argument |
|---|---|---|
| `PolicyCacheProofs` | `TypeCorrect`, `AgeCorrect`, `StalenessCorrect`, `FreshCorrect` | `AgeInv`: an entry's age and its remaining life, or a fill's age and the time it has waited, never exceed the bound together; the staleness of a load follows in one step. `FreshInv` adds that without a race the fallbacks are empty and Redis is empty between delete and commit |
| `BusAndSocketProofs`, the bus | `BusTypeCorrect`, `AccountedCorrect`, `BroadcastCorrect` | `QueueInv`: the queue holds exactly the numbers after those taken, and nobody has handled or been subscribed after a number not taken. `FateInv`: nothing is missed before it is taken, and a callback that goes on is for an event that is wanted and not missed. With `Accounted` they make the event being dispatched the next one of every subscription whose callback goes on (`CurrentInTurn`) and the queue the next ones of all (`DroppedInTurn`): each step of the bus is one of `OrderedBroadcast` or a stutter |
| `BusAndSocketProofs`, the manager | `ManagerTypeCorrect`, `RegistryCorrect`, `NoResurrectionCorrect`, `OnlyAllowedCorrect` | `RegistryInv`: the index agrees with the subscriptions, and a socket not yet registered is in neither |
| `EventStreamingProofs` | `StreamingTypeCorrect`, `NoGapCorrect`, `TenantIsolationCorrect` | below |
| `GatewayProofs`, one agent | `RiskMonotone`, `RuntimeTypeCorrect`, `AllowNeedsPolicyCorrect`, `RefusalCostsCorrect`, `NoWayBackCorrect`, `RecoveryThresholdCorrect` | the ranges of every score; the sum of the risk is monotone part by part, and clamping preserves that; bounds on each part of the trust delta; the risk of a clean request is its surcharge and the penalty for the score, and nothing else (`CleanRisk`) |
| `GatewayProofs`, transactions | `TypeCorrect`, `AnswersAreTrueCorrect`, `StatusOnlyByAdminCorrect`, `BlockTakesHoldCorrect`, `LastToldIsKeptCorrect` | below |
| `AccountsProofs` | `AccountsTypeCorrect`, `AskedIsAnsweredCorrect`, `RightsCorrect`, `NoSelfRevivalCorrect`, `AuditedInOrderCorrect` | below |
| `ConsoleSessionProofs` | `SessionTypes`, `NobodyLeftWaiting`, `SessionIsOwners`, `ExpiryKeepsSession`, `TabsShowTheSession` | one invariant, `IInv`: the types; who waits does so for a refresh; unless raced, whatever may still be written into the storage is of its owner; and while calm, a retry has an accepted token and only a tab that has seen no user is on the login page. `Shown`, which holds raced or not, is about rendering: a tab that loads has asked for its user, and the web application shows its pages to exactly those it has seen |
| `RequestGuardsProofs` | `WaitsAreTrue`, `NoSlotLost`, `BurstsAreBounded` | a refusal comes from a bucket with time left, and each wait as told uses all but the rounding of it up; slots are counted by the calls that hold them, threads by the attempts and those given up; `PassInv`: while a bucket runs, a key's passes are those it counts and at most the limit of before, which leave the window no later than the bucket ends, so that at its end no more than the limit are left |
| `FrontEndProofs` | `Inductive`, `TypesHold`, `SpinnersEnd`, `ListsAreCurrent`, `FormIsOfTheRow`, `DeletedStays`, `PartsAgree` | below |

`EventStreamingProofs` takes over what is proved of the bus and of the manager (`Proved == INSTANCE
BusAndSocketProofs`): every step of the composition is a step of each of them or leaves it alone
(`SameBus` and its like), so that their types, `QueueInv`, `RegistryInv` and `OnlyAllowed` hold here too. Its own
invariant, `StreamingInv`, has three parts. `DispatchInv`: a broadcast under way is one of the event being
dispatched, whose callback has not ended, and what is handed to the manager was retained before
(`handled[Cast] \subseteq handled[Retain]`). `StreamInv`: a retained stream is the latest events of its
channel, in order. `SocketInv`: a registered socket lacks, of what is retained for a channel it is subscribed to, only
the event that is coming and events older than all it has; and to have joined means to have been sent a full
history. Neither `NoGapOnJoin` nor `TenantIsolation` is inductive without it: the former says nothing about a
socket between its registration and its history, the latter nothing of the targets of a broadcast.

`AccountsProofs` has `AccountsInv`. A request is one of an account that existed and was active (`Admission`), its
copy has what it was asked for (`Copy`), its dirty columns are those its kind may write, within the rights
that it had (`Writing`), and a column of the copy that is not dirty is the table's unless someone else has written it
(`Fresh`), from which `AskedIsAnswered` follows at the refresh. The two action properties are about commits, and a
commit writes the dirty columns of the copy. The order of the trail needs that one request at a time has
written a row and not committed (`Exclusive`, the row lock) and that such a one was published after all that have
committed (`TrailInv`).

The transactions in `GatewayProofs` have four inductive invariants besides the type. `AnswersAreTrue` is one itself.
`OnlyTrust` (a request's dirty columns are at most the trust score) makes every commit of a request leave
the status alone. `JudgedByStatus` says that a request is judged by the status it loaded, which is the
committed one while the request is in `since`; a status change empties `since`. `OrderInv` is the long
one: who has flushed changed columns holds the lock (`WriterHoldsLock`) and publishes them after that and not before
(`AnnouncedLate`); so when y publishes a change, whoever published one of the same column earlier has let go of the lock,
which means it has ended, and if it committed it did so before y (`EarlierEnded`). The row has what the last one to
commit a change of a column wrote (`LastWriter`). `LastToldIsKept` speaks of committed transactions only and
nothing of the lock, hence it is not inductive by itself.

`FrontEndProofs` has `FrontEndInv`, from which all six invariants of the run follow. Its first part, `TabInv`, is about
what the pages share. The rows at the server have an id once, and none that is gone. A request is `Sound`: the answer to a
list has an id once, and none that the page was told is deleted unless the request is marked as late; a creation that
succeeded has one row; a deletion that was answered took its row away. The second part has one formula for each kind of page
(`WebInv`, `AdminInv`, `DashInv`, `SettingsInv` and so on), none of which mentions another kind. They say three things that the
properties leave out, since the properties speak of pages at rest only. A flag that is up has a request in flight that
lowers it (`Has`; `Creates`, where two requests follow each other). Whatever was sent before a late list is late as well
(`InOrder`), so that the last one awaited is the last one sent, and it is for the query on the page (`WebList`). The detail that
is awaited is of the row selected (`ThreatInv`, `DialogInv`). The widgets of the landing page need the distance between a timer and
the next tick of its interval (`ArchitectureInv`, `DecisionInv`): a time-out
of 28 tenths of a second has ended before an interval of 55 begins again, and one of 9 before one of 28.

The proof has a lemma for each page (`PolicyStep` to `FeaturesStep`), with a case for each handler and each answer. These rest on lemmas
for what pages have in common: a request is sent (`Sent`), ends with the others marked as late or overtaken (`RestIs`, `EndedHas`,
`EndedOther`, `EndedTold`), is answered (`AnsweredIs`, `ServeKeeps`); a list is loaded, a row saved, deleted or put first (`LoadedReady`,
`SavedIs`, `DeletedIs`, `PutFirst`). A page does not see the server's steps before it is answered (`Alike`, `PageSeesNothing`). What
a filter keeps of a list is proved once (`NthExists`, `NthIs`, `KeptIs`): its `Nth` member is found by counting, and is there by
the well-ordering of the finite set of positions.

Proved and not among the properties of a run: the type invariants but that of `EventStreaming`, `AgeInv`,
`AllowNeedsPolicy` (a risky request passes only if every matching policy says ALLOW), `StatusOnlyByAdmin`,
`AnswersAreTrue`, `OnlyAllowed` and `RiskMonotone`.

The assumptions are facts of the code or of its configuration. `EngineAssumption`, `TrustAssumption`: weights, inputs and
scores in their ranges. `ChannelsAssumption`, `StreamingAssumption`: the platform is no organization,
dashboards are those an endpoint admits, and a client asks for one event at least (`_parse_history_limit`
clamps it). `AccountsAssumption`: the rows at first are users and organizations, and an update is asked to
change, of what is modelled, nothing but role, activity and name (`UserUpdate`). `GuardsAssumption`: every client has a key, and none is
both a request's and a handshake's, because keys begin with what they limit (`path:`, `ws:`).
`GeminiAssumption`, `PipelineAssumption`, `PolicyCacheAssumption` and the like: finitely many calls or requests, limits that
are numbers. `TabAssumption`: finitely many rows, whose number is the limit of the loads without a pager, and an id of none that
is no row's. `FrontEndAssumption`: what the server has at first are rows, and an id is the key of one (`models/base.py:41`).

Only model-checked: the nine liveness properties and what rests on fairness or ENABLED, which the proof system does not
handle. Every invariant and every action property of a passing run is a theorem as well. `FrontEndInv` was checked
with TLC as an invariant of `front_pages` before it was proved, with four steps in place of three. No recursive operator is used in a
module with theorems; sums and counts over requests use the folds of the community modules, of which the proofs need only the type.

## 6. Not modelled

- Start-up, shut-down and the scheduler: one sequence, and loops around one call each.
- Registration, passwords, the signature of tokens, API keys (no path authenticates with one), and the
  cache entries `user_session` and `org_settings`, which nothing reads.
- The creation of policies and agents by name: the names are checked and then inserted with nothing that
  keeps two apart, so there is no property to state.
- The histories in the cache and the correlation, explanation and recommendation of threats: nothing reads them to
  decide. The code loses concurrent updates of the histories.
- Ingestion of threats, alerts, queries of dashboards, analytics and exports: one row, one event or none per request.
- Body limits, headers, tracing, migrations, schemas; text that patterns match; what prompts say;
  charts, wording and layout; the vendored component library.
- A commit whose acknowledgement is lost, and several server processes with a bus each: a dashboard hears the events
  of the process it is connected to.

## 7. What could be added

A specification of the trust score in which each change is computed from some earlier committed one, with
`GatewayPipeline` shown to implement it; two server processes with a bus each.
