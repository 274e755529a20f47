# Fabrix Endpoint in TLA+

Fabrix Endpoint is a console for a shared LLM cluster: a Go backend
(`backend/`) that proxies chat requests, enforces quotas and guard rails,
evaluates alert rules and keeps an incident inbox, a small forwarder
(`backend/cmd/glue`) that feeds traces to Langfuse, and a React front end
(`web/`). This directory models the parts of it that keep state, checks the
models with TLC on small instances, and proves the most important results with
TLAPS for every instance. Paths below are relative to the repository.

    tlc -workers 2 -config MCIncident.cfg MCIncident      # one run
    tlapm IncidentProofs.tla                              # the proofs of a module

`PROJECT.json` lists the components, the runs, which source lines each
definition translates (`map`), a plausible bug for every property that makes
TLC find it violated (`mutants`), the disagreements between code and documents
that the runs show (`findings`), what is hard to test in this code (`hazards`),
and the theorems.

## 1. The system

All paths in this section without a directory are under `backend/internal`.

| component | state it keeps | operations | what makes it correct |
|---|---|---|---|
| metric rule evaluator, `alertrules/engine.go` | runtime entry per rule: state, clear streak, time of the last notice | `Evaluate`, `State`, `Forget` | hysteresis, an elevation is announced once, a standing alarm is reminded |
| alert rules, `server/alertrules.go`, `mockstore/mockstore.go` | rules in insertion order | create, update, delete, list, the loop `StartRuleEvaluator` | the loop works on a copy of the rules while operators change them |
| dispatcher, `alerting/alerting.go` | webhook, dedup map, ring of send records | `SetWebhook`, `Dispatch`, `DispatchMetric`, asynchronous `send` | no storms, nothing owed is lost silently |
| incident store, `incident/incident.go`, `server/incidents.go` | incidents with counter, ring of occurrences, silence, audit log | `Observe`, `AutoResolve`, `Ack`, `Resolve`, `Snooze`, `List`, `Counts`, `Tick` | bookkeeping agrees with the state, the log is complete, silences end |
| quota, `quota/quota.go` | minute window and day window per key, crossed levels | `Allow`, `OverTPD`, `AddTokensWithBudget`, `TokensToday` | limits hold up to a known overshoot, a crossing is told exactly once |
| chat handler, `server/catalog.go`, `server/guard.go` | none of its own | key lookup, rpm, hard cap, guard, upstream, booking, usage | the order of its calls, between which anything may happen |
| key stores, `mockstore/mockstore.go`, `store/store.go` | keys, quotas, enabled flags | issue, revoke, `KeyQuota` | a revoked key does not pass |
| guard, `guard/guard.go`, `server/guard.go` | the policy | `Classify`: rules, remote classifiers, policy; `SetPolicy` | a verdict of one policy, also when a classifier is down |
| guard audit, `audit/clickhouse.go`, `audit/worm.go` | channel, batch, ClickHouse table, object-lock bucket | `Enqueue`, the writer's loop, `insert`, `Put` | no row twice, none stuck, mirror and original agree |
| usage rollup, `usage/usage.go` | channel, batch | as the audit, without a second store | as the audit |
| glue: `glue/langfuse.go`, `glue/capture.go`, `cmd/glue` | channel of events | capture, ingest | the events of a trace stay together |
| masking, `server/masking.go`, `store/masking.go`, `cmd/api/main.go` (the store), `glue/policy.go`, `glue/mask.go` | stored policy, polled copy | get, set, poll, mask, restart | masking follows what is in force at the server |
| rate limiter, `httpx/ratelimit.go` | token bucket per key | allow, evict the idle | eviction is invisible |
| identity and middleware, `httpx/identity.go`, `httpx/middleware.go` | none | per request | pure |
| capabilities, `capability/capability.go` | none | map computed at start | pure |
| self reconfiguration, `server/reconfigure.go`, `k8s/k8s.go` | ConfigMap, pods (outside) | patch, restart, scale, list | patch and restart agree |
| statistics, `proxystats/proxystats.go`, `diag/history.go`, `diag/diag.go` | rings | append, summarise | bounded |
| catalog and upstream, `catalog/catalog.go` | none | HTTP | a timeout of 60 s |
| dashboards, traces, evaluation, MCP: `provider/`, `langfuse/`, `harbor/`, `server/dashboard.go`, `server/eval*.go`, `server/mcp*.go`, `domain/` | experiments in the mock store | queries | translate and aggregate |

The web client, under `web/src`:

| component | state it keeps | operations | what makes it correct |
|---|---|---|---|
| polling hook, `utils/usePolling.ts` | the load in progress, the data shown, error and staleness | load, interval, pause, resume, unmount | a stale answer is never shown as current |
| reads, `api/client.ts` | attempts of one read | fetch, time limit, retry, abort | an abort is quiet, retries end |
| report screens, `pages/Traces`, `Sessions`, `Guard`, `Usage`, `Dashboard`, `Traffic`, `Gpu`, `MetricSources`, `Models`, `components/MetricExplorer` | choices, report, selected row and its panel | choose, load, refresh, open, close, follow a link | the report is of the choices shown, the panel of its row |
| URL state, `urlState.ts`, `router.ts`, `savedViews.ts` | the query, saved views | parse, write late, push, back | the URL says what is on the screen |
| screens that write, `pages/Keys`, `Endpoints`, `Credentials`, `Settings` (users, alert rules), `components/Notifications` | list, dialog, busy mark | fill, ask, send, reload, close | writes do not overlap, the list catches up |
| cards with one value, `components/GuardPolicy`, `MaskingPolicy`, `ReconfigurePanel`, `pages/Settings` | draft, saved copy | edit, save, test, revert, wait for a restart | what looks saved is saved |
| deployment wizard, `pages/Endpoints.tsx` | draft, dry run | pick, edit, dry run, create | what is created was dry-run |
| playground, `pages/Playground.tsx` | exchanges, one status, one drawing | ask, draw, stop, resume, retry, clear, compare | an answer stands under its question |
| object panel and action form, `components/ObjectView.tsx`, `ActionForm.tsx`, `api/mock.ts` (`applyAction`) | trail of objects, live object, form, dialog | open, hop, back, submit, apply | an action meets the object as it was shown |
| toasts, `toast.tsx` | stack of cards, timers | notify, replace, pause, dismiss | what must be read does not vanish |
| ontology, `api/ontologyGraph.ts`, `investigate.ts`, `detection.ts`, `incidentEvidence.ts`, `causeNarrative.ts`, `ontologyScorecard.ts` | none | search, follow a cause, find, explain, score | they tell one story of one snapshot |
| agent and actions, `api/agent.ts`, `demoScenario.ts`, `actions/` | none | tool loop, grounding, offers | nothing is said that has no evidence, nothing offered that is not allowed |
| drawing, `components/topology/layout.ts`, `hooks/useRowWindow.ts`, `components/spanWaterfall.ts`, `dashboardLayout.ts` | none | layers, windows, bars, arrangement | nothing is lost or drawn twice |

How they interact:

- `POST /playground/chat` (`server/catalog.go`) asks the key store, the quota
  limiter, the guard (which offers a row to the audit sink), the upstream, then
  the key store and the limiter again. Nothing is held across the calls.
- A booking that crosses a level calls back (`server/server.go`), outside the
  limiter's lock, into the dispatcher.
- The rule loop (`server/alertrules.go`) copies the rules, takes a snapshot of
  the metrics per rule, evaluates under the evaluator's lock and calls the
  dispatcher. `StartRuleEvaluator` is the only caller of `EvaluateRules`: there
  is one pass at a time. Only `mockstore` implements the rule store.
- The dispatcher sends on a goroutine per notice.
- The forwarder (`cmd/glue`) polls the server for the masking policy; a gateway
  posts it exchanges, which it answers before anything was sent to Langfuse.
- A screen of `web` talks to the backend through `api/client.ts` only: reads are
  retried and may carry the signal of the effect that sent them, writes are sent
  once and carry none. Screens share the URL, the capabilities and the toasts.
  The inbox of `web` loads when it is opened or acted in; it does not poll. The
  only caller of `Observe` in this commit is the seeding of demo incidents; the
  handlers document it as the place where alert sources attach.

What is hard about it: on the client, answers that arrive after what they were
asked for has changed, dialogs that close while their call is under way, timers
that go on behind a new state, one value kept in the URL and in the screen; on
the server, the state read before a lock (the clock, the quota, the
copy of the rules) and used after it; deduplication by time across several kinds
of event; lazily ended silences; bounded channels whose overflow is silent;
writes to two stores of which the second can fail; restarts, since everything
but ClickHouse, the bucket and PostgreSQL lives in memory. `hazards` in
`PROJECT.json` has them line by line.

## 2. The modules

| module | models | composed of |
|---|---|---|
| `AlertRules` | `Evaluate` as an operator from rule, entry and snapshot to entry and decision | |
| `AlertDispatch` | the dispatcher: gate, webhook, dedup, send goroutines, ring | |
| `AlertDispatchProofs` | lemmas about the dispatcher, for the two modules that use it | |
| `MetricAlerting` | rule handlers, the loop, metrics, time | `AlertRules`, `AlertDispatch` |
| `MetricAlertingProofs` | theorems about `MetricAlerting` | `AlertDispatchProofs` |
| `ChatQuota` | chat requests, quota limiter, key stores, crossing callbacks | `AlertDispatch` |
| `ChatQuotaProofs` | theorems about `ChatQuota` | `AlertDispatchProofs` |
| `IncidentLifecycle` | what the inbox promises (abstract) | |
| `Incident` | the incident store; implements `IncidentLifecycle` | `INSTANCE IncidentLifecycle` |
| `IncidentProofs` | theorems about `Incident` | |
| `BatchSink` | the asynchronous batching writer | |
| `AuditTrail` | the guard audit: sink, ClickHouse, bucket, restarts | `BatchSink` |
| `AuditTrailProofs` | theorems about `AuditTrail` | |
| `Guard` | the judgement of a prompt, its row, whether it is sent on; the policy | |
| `MaskingPolicy` | the stored masking policy, its saves, the poller's copy, what is kept of a text | |
| `Ingestion` | the forwarder: captures, events, queue, sender, restarts | `MaskingPolicy`, `BatchSink` |
| `ChatPathProofs` | theorems about `Guard` and `Ingestion` | |
| `TokenBuckets` | what the rate limiter promises (abstract) | |
| `RateLimit` | the rate limiter of the API; implements `TokenBuckets` | `INSTANCE TokenBuckets` |
| `RateLimitProofs` | theorems about `RateLimit` | |
| `Polling` | `usePolling` and the screens that use it | |
| `Transport` | `getJSON`: time limit, retries, abort | |
| `ReportPages` | what tells the report screens apart; the query codec | |
| `ReportScreens` | a visit to a report screen | `ReportPages` |
| `WriteScreens` | a visit to a screen that changes something, and the server behind it | |
| `DraftScreens` | a card that edits one value, and what stores it | |
| `EndpointWizard` | the deployment wizard | |
| `Playground` | the chat and the comparison of models | |
| `ObjectPanel` | the panel, the action form, and the side that applies actions | `INSTANCE Actions` |
| `Toasts` | the stack of notices | |
| `OntologyGraph` | the adjacency graph and its searches | |
| `RootCause` | the path of an investigation | `OntologyGraph` |
| `Evidence` | detections, evidence, explanations, scorecard | `RootCause` |
| `Actions` | registry of verbs, palette, tools | `OntologyGraph` |
| `Agent` | tool loop, insights, cluster queries, demo | `Evidence`, `Actions` |
| `TopologyLayout` | the layered drawing | |
| `Lists` | row window, span bars, arrangement of the dashboard | |
| `MCWebAlgorithms` | inputs of the pure functions | `Agent`, `TopologyLayout`, `Lists` |
| `Overlay` | one function laid over another, `{...g, ...f}` | |
| `MCWebClient` | the screens, one of them live | every screen above |
| `WebScreensProofs` | theorems about the screens of the web client | `MCWebClient` |
| `MCChatPath` | quota, judgement and forwarder, one of them live | `ChatQuota`, `Guard`, `Ingestion` |
| `MC*` | instances for TLC; `RateLimit.cfg` gives the constants of `RateLimit` themselves values | |

An operator named `X_Something` before a definition `X` is a variant of it with
a plausible bug; it is used by nothing but the `mutants` list.

### Metric alerting

`rules` is the store, `rt` the evaluator's map, `listed` what the running pass
of the loop still has to evaluate. `BeginPass` is `ListAlertRules` (a copy);
`EvaluateListed` is one iteration of the loop: the snapshot, `Evaluate` under the
evaluator's lock, and the dispatch. Between the iterations operators create,
update, pause and delete rules, the metrics move and POSTs end. The loop's order
over the rules is left open, which only adds behaviours. The value of a metric is
a level compared with the thresholds; `metricSnapshot` keeps the three ways in
which a value is missing. A minute is the tick of the ticker; `sinceNotified`
and the dedup map are ages, saturated where the code stops telling them apart.
`clearRun`, `quietFor` and `verdict` are history variables.

### Incident inbox

One action per operation, each under the store's mutex. Timestamps are cut to
whole seconds (`Sec`) as RFC 3339 does, while the comparisons use the full clock.
`Operate` is what `transition` and `Snooze` share: silences that ran out are
lifted first, then an unknown or resolved incident is refused. `AutoResolve`
does not lift silences, as in the code. The acknowledger of an incident is
never cleared, in the code and in the model. Two actors' names are excluded, by
assumption: `auto` and `system`, which the store uses itself.

### Quota

A request is a process with a program counter (`stage`). The limiter reads the
clock before it takes its lock (`today()`, `minuteNow()`), so `ReadMinute`,
`ReadDay` and `ReadBookDay` are steps of their own. The mock store finds a
revoked key and says it is disabled; the query of `store.go` does not find it and
may also fail, and a key that is not found passes without a quota. The webhook is
fixed here; `MetricAlerting` changes it. With a warning level that rounds to 0
the warning is never due; `thr` leaves out the rounding of floats only.

### Guard audit

A request stands for its row. `Enqueue` drops the row when the channel is full.
The writer takes rows only while it does not write. `Insert` and `Put` may fail
and may have happened although they failed (the answer is lost). `Crash` empties
the memory: `main.go` does not drain the sinks at shutdown either.

### Guard, masking policy, forwarder

`Guard` follows one prompt through `Classify`: each of the three calls is a step,
between which operators replace the policy. A classifier says yes, or it says no,
fails, or takes more than its 5 seconds, which comes to the same. `local` is what
the regular expressions see; they are inputs. `during` is history.

`MaskingPolicy` keeps what is in force at the server, saves that have not been
read back, the poll under way in its steps, and the forwarder's copy. What is in
force is numbered (history), so that an older one can be told from a newer.
`StoreOf` is the choice `main.go` makes at the start: PostgreSQL, a store in
memory, or none. A server with a database that is not reached at its start goes
on without (or with an empty store in memory) and answers polls with the default;
so `RestartServer` may change what is in force without anybody saving, and the
policy in the database comes back with a restart that reaches it. Without a store
a save is refused. A save that reports a failure may have been stored.

`Ingestion` makes the events of an exchange with the copy of the policy at that
moment and offers them one by one to the queue of `BatchSink`. `Apply` tells
which parts of a text can still be read in what is kept. An exchange whose
judgement gave a confidence above zero has a score for the suspicion, one that
has a decision a score for it. `Send` forgets the batch whatever the
answer. The usage rollup is the same loop without events that belong together.

`MCChatPath` puts them beside `ChatQuota`. The judgement and the quota share no
state, and the forwarder is another program, which the gateway calls: so here
too one part is live and the others are at rest.

### Rate limiter

`keys` is the map, with the tokens, the time of the last admission and
`lastSeen` of every entry. The bucket itself, `rate.Limiter` of
`golang.org/x/time`, is modelled from how the code uses it. A tick is a second.
`Serve` is `get` and `Allow` of one request; `evictIdle` runs in the second its
ticker fires. Requests between two seconds, the clock `Allow` reads before its
own lock, exempt paths and OPTIONS are left out. `total` and `before` count what
was admitted, for `RateHolds`.

### Screens of the web client

Each screen is one record variable; an action is one handler, one answer or one
timer, and what a handler sets together is set together, as React batches it.
Answers come in any order and may be failures. A call that carries the signal of
its effect leaves the state when the effect ends; a call that carries none stays,
and its answer does to the screen what its continuation does, whatever the
screen has become. The exceptions in the properties (`overtaken`, `strayed`,
`typed`, `lost`, `late`, `clearedAsking`, ...) are history: each names one thing
the code does not guard against, so that the property says exactly when the
promise holds. They are listed in section 5.

- `Polling`: `run` starts a load, which cuts off the one before; the interval
  starts one whether or not one is under way. `Screens` are the users of
  the hook, one of them in two modes, and what each draws of data, error and staleness.
- `Transport`: `http.phase` walks through an attempt. A refusal (a status that is
  not 2xx) has a body to be read before it is thrown; an answer is thrown inside
  the `try` whose `catch` retries it. A wait before a retry is not cut off by the
  caller's signal; the attempt after it is not sent.
- `ReportPages`/`ReportScreens`: `page.view` are the choices, `page.query` the
  URL, `Pages` a table of what each page does on a change, on a button, on a
  timer and on a click on a row. Texts go to the URL late (`typed`). `Back` and
  `Navigate` are the router. The visit begins without a query (`Started`),
  because `App.tsx` drops the one of an opened link. A call that was cut off is
  still answered once: the answer ends the spinner, is an error if a refusal's
  body was being read, and clears the panel of a session (`quiet` tells the panels
  that ignore an abort).
- `WriteScreens`: a table of verbs per page tells which dialog a verb has, which
  buttons wait for which calls (`waits`), what the server makes of the call and
  whether the list is loaded again. A button that adds is there before the list
  is. `Serve` is the server, `Done`/`Failed` the answer, `Elsewhere` another
  operator, who may change any thing to any level at any time. `lost[t]` says how
  many calls were sent when the answer of a write to `t` was lost or `t` was changed
  elsewhere: what was loaded before need not be right about `t`.
- `DraftScreens`: the cards differ in what is trimmed, validated and reset; a
  saved configuration starts a rollout, for the end of which the card polls. No
  other operator changes the stored value here: what a card knows of it is what
  it loaded when it was mounted and what it saved since.
- `EndpointWizard`: a draft is preset, model and name. A card with a preset or a
  model forgets the dry run (`pickPreset`, `pickHarborModel`); the same fields
  changed by hand (`EditField`) do not. A dry run carries the fields that were
  changed while it was under way or by hand since (`loose`, history).
- `Playground`: a place of the conversation is found by its number; a drawing is
  at most one, whosever it is; requests are not cancelled by anything.
- `ObjectPanel`: `panel.stack` is the trail, `panel.url` what the page's hook
  knows of the URL, `panel.address` what the browser has; `PaletteWrites` changes
  the latter alone, and the page is then `astray` until it or the browser writes
  the URL again. `load`, `data` and `confirm` hold at most one thing each.
  `ontology` holds the objects with status and revision and the calls under way.
  `Serve` is `applyAction`: the object that is not there first, then gating by
  status, the revision, and what the verb itself refuses. A key of idempotency is
  made for every call, so nothing is ever replayed, and the replay is left out.
  Objects also change by other operators (`ServeElse`), by their metrics
  (`Drift`), and by a snooze in the inbox that undoes a resolution (`SnoozeElse`).
- `Toasts`: a card's effect runs again when its notice begins or stops to stay;
  `first`, `alone` and `seen` are history.

`MCWebClient` composes them. They share no state but the URL, which each screen
owns while it is on, and so one of them is `live` from beginning to end:
interleaving them would only multiply the states. Its `Spec` is what the theorems
about the screens are of. The panel is live in two ways: as one object after the
other with actions on them (`ActOnObjects`), and as trails of objects, with the palette, without actions
(`WalkTrails`).

### Pure functions of the web client

`OntologyGraph` to `Lists` are functions of one input. Ids are numbers, because
the code compares ids and does nothing else with them; thresholds stay as
numbers, wording is left out. Loops of the code with a work list are recursive
operators here, which is why nothing is proved about these modules.
`MCWebAlgorithms` picks an input in its only step and compares the result with a
definition of another shape (distances against the breadth-first search, the set
of all simple paths against the one found, ranks against the drawing) or with
what another function says of the same input (every card of the strip has
evidence and an explanation, the strip agrees with the scorecard, the agent
suspects only what the root-cause path holds, and suggests no verb that the
palette, which goes by the registry and the state, would not offer there). When a
pod is out of order is written twice in the code, today in the same words
(`agent.ts:697`, `incidentEvidence.ts:155`); the models have one flag for both, so
a change of one of them alone would not be seen.

## 3. The runs

| run | result | what it shows |
|---|---|---|
| `metric_alerting` | holds | one rule of three shapes, any edits during passes, all levels of the metric, gaps, webhook on and off: a recovery is announced only after enough clear values in a row (`RecoveryIsEarned`); the list never comes to show WARNING or ALERT without an evaluation that decided to announce it (`ElevationIsAnnounced`); first notices keep the dedup distance however the rule flaps (`FirstNoticesAreSpaced`); under fairness, a breach that stands is sent again and again (`StandingAlarmReminds`) and a metric that stays clear ends in OK (`SteadyClearRecovers`) |
| `metric_alerting_recovery` | violated | a recovery within 24 hours of the alarm is suppressed: both have the event `metric_breached`, and the dedup key is rule and event (finding) |
| `metric_alerting_forget` | violated | a pass that copied the rules before a deletion recreates the runtime entry after `Forget` (finding) |
| `incident` | holds | log, fields, counter and ring agree with the state; no operation that changes a record leaves a silence on it that ran out (`AutoResolve` and mere reading of the clock aside); the store implements `IncidentLifecycle` |
| `chat_path` | holds | the parts a chat request meets, one of them live. Quota: two concurrent requests of one key across midnight, either store, revocation: each level is announced exactly once per day (`CrossingIsToldOnce`, `LevelIsAnnounced`), the overshoot over the hard cap is at most one answer per concurrent request (`OvershootIsBounded`), notices are owed (`NoticesAreOwed`). Guard: a prompt judged while the policy is replaced and classifiers are down gets the verdict of one policy (`VerdictIsOfOnePolicy`). Forwarder: the polled masking policy never falls behind what was in force at the server when the last successful poll began, also when the server restarts without its database (`CopyFollowsTheStore`); the events of an exchange keep their order, tell of one policy and hide what it hides (`TracesStayTogether`) |
| `chat_quota_midnight` | violated | a booking that read yesterday's date and takes the lock after one of today replaces the new day's window (finding) |
| `audit_trail` | holds | through overflow, lost answers and a restart no row is written twice or out of turn (`RowsAreWrittenAtMostOnce`), and none stays in memory (`NoRowLingers`) |
| `web_algorithms` | holds | searches and root-cause paths (`Investigations`), cards, evidence, explanations and scorecard of one estate (`Explanations`), the agent's suspects, citations and suggested verbs (`Agents`), drawings and lists (`Drawings`), each on every input of a family |
| `web_client` | holds | one screen at a time, with answers in any order, failures and the back button; another operator changes the things of the lists and of the object panel: `ReportIsOfTheChoices` (reports and the panels of their rows), `WritesDoNotOverlap`, `ListCatchesUp` (writes), `CleanMeansSaved` (cards), `CreatedWasDryRun` (wizard), `DataIsCurrent` (polling), `AbortIsQuiet` (reads), `AnswersFindTheirQuestion` (playground), `ActionsAreAsShown`, `PanelIsOfTheUrl` (panel), `ToastsKeepTheirTime` (toasts) |
| `web_client_notice` | violated | a call that ended well takes over the card of its own "in progress", whose timer is then set with 0 (finding) |
| `web_client_retry` | violated | a read that was refused with a 4xx waits for another attempt (finding) |
| `rate_limit` | holds | two keys, requests and evictions at any time: the rate holds over every span (`RateHolds`), idle keys leave the map (`IdleIsEvicted`), who waits for Retry-After is admitted (`RetryIsServed`), and every answer is that of buckets that are never evicted (`NeverEvicted`) |

Bounds, and why they are enough:

- One rule, since the rules share nothing but the ring of send records and the
  order of a pass; three bodies (one with a warning level and the default mode of
  `no_data_mode`, the same paused, one for which a gap counts as zero), both
  directions of comparison, and the default recovery window of 2. A fourth body,
  with `hold_previous` and a window of 1, is in the run of the recovery notice; in
  the first run it would double the states, and under it the theorems of section 4
  hold as well, which are of every body. TTL and reminder distances of 1 and 2 minutes:
  the code only compares ages with them. Ages are cut at `AgeCap` = 2 and runs of
  clear values at `RunCap` = 2, the largest values any comparison reads.
- Two incidents (one handled, one merely ticked), durations of one and two
  seconds with two clock readings per second, so that the cut to seconds bites;
  a ring of 2 with 3 observations overflows; audit logs of up to 3 entries.
- Two requests, the least that race; a budget of 4 with answers of 2, so that a
  request, or two together, cross a level exactly or jump over it; two days of
  one minute: a request lives at most 60 seconds, so one change of the minute is
  all it can see. The dispatcher's 24 hours and a calendar day are both one
  tick (`DayLen` = `TTL`). `MaxTokens` stops the upstream when a window stands
  at its budget, which only the SQL store would let pass; two answers at once
  still jump over it. Requests are interchangeable: symmetry is used where
  only invariants are checked.
- One prompt and two changes of the policy, to any combination of rules that are
  off, that flag, or that leave the action out: the policy is read once, so a
  third change adds nothing. Both ways of every classifier and of the local rules.
- Masking: two saves and two restarts, with and without a database, reached or
  not, with and without a store in memory, without exchanges; then
  one exchange with a save and a restart while its events are under way; then two
  exchanges of four and three events that share a channel of 2, which overflows
  between two events of one, without saves. Two policies besides the default
  cover every mode and every action on a text with words, a number that is found
  by its form, and a name that has to be pointed out.
- Four rows, a channel of 2 and batches of 2: the channel overflows while a batch
  is written, and a batch ends full as well as by the ticker; one restart.
- Buckets of two tokens of three parts each, two parts a second: a refill is not
  a whole token, Retry-After has to be rounded up, and a key idles exactly as
  long as its bucket takes to fill, the least `IdleRefills` allows. Six seconds
  hold three evictions. Two keys, so that a wrong key would show.
- Graphs of four ids with up to four links in either direction, self-links of the
  entry and links to ids that do not exist: two ways around and a cycle fit.
  Topologies of four nodes with up to five edges: two cycles that share an edge;
  the same with every edge twice. Tables that have shrunk under a scroll position:
  the window has to cover what is in sight at the position the browser falls back to.
  Estates of one object of each type, sick or healthy, in two wirings; signals
  of three points, as the first bad point is all that is read.
- Reports: two rows, three calls and one move (a link or the menu), which the way
  back can follow. A load of a button is overtaken by a change of the choices and its
  load; or a panel is closed with its call under way and opened on another row with
  one of its own. A report and a panel have no calls in common, and the theorem is
  for any number of them.
- Writes: two things at three levels; a first load, two writes and the loads after
  them, and one change by another operator at any time (`MaxOthers`), which races
  every one of those calls. `ListsCatchUp` is proved for any number of changes.
  Nothing tells the two things apart, here or in the panel, and the run has
  invariants only: it uses their symmetry (`ThingsAreAlike`).
- Cards: texts that differ, that differ in blanks only, and the empty one; five
  requests. Wizard: two picks, two texts, three runs (two dry runs and a creation).
  Polling: two values of what is asked, two rows, four loads. Reads: `MAX_RETRY` = 2
  is the code's.
- Playground: three requests, so that one is under way while a stopped one is
  taken up and a third asked; two pieces, so that a drawing can be stopped in
  the middle. The rows of a comparison come together and so count as one.
- The panel is walked in two ways: trails of up to three objects without actions,
  with a palette that writes the URL at any time, and two actions with a trail of
  one and no palette. The action form knows the head of the trail only, and nothing
  of the browser's URL, so these add no case to it. Two things; a verb that is
  destructive and one that is not; an operator that may act and one that may not.
- Toasts: a stack of two (the code: four), two ticks (the code: four seconds) and
  four notices: a stack overflows, and a notice under way is pushed out and
  comes back with its outcome.
- The two runs of the client that end in a violation have the instance of
  `web_client`, and `metric_alerting_forget` has that of `metric_alerting`.

`CHECK_DEADLOCK FALSE` where a visit or an instance may end: the bounds on calls
and time stop it, and a screen at rest waits for its operator.

Fairness. `Minute` and `BeginPass`: a `time.Ticker` of one minute drives the
loop. `EvaluateListed`: the loop is one goroutine that does not block for ever
(its queries carry timeouts). `Post`: a POST ends within 9 seconds, after two
attempts of 4 seconds. `Receive`, `Tick`, `Insert`, `Put`: the writer is one
goroutine with a ticker, and its HTTP client has a timeout. Operators, metrics,
requests and restarts are never assumed to do anything. All of it is weak
fairness of actions that stay enabled until taken. The properties of the web
client are about safety and assume none: nothing in a browser makes an answer
come, and the time limit of a read is an action it may take.

## 4. The proofs

### Incidents

`IncidentProofs` proves about `Incident`, for any set of keys, actors and
durations of at least a second, any clock resolution and any cap:

| theorem | statement |
|---|---|
| `TypeCorrect` | `Spec => []TypeOK` |
| `FieldsAlwaysMatch` | `Spec => []FieldsMatchState` |
| `AuditAlwaysReplays` | `Spec => []AuditReplays` |
| `SilencesAreLifted` | `Spec => ExpiredSilenceIsLifted` (of steps that change the record) |
| `StoreKeepsThePromise` | `Spec => KeepsThePromise`, the refinement of `IncidentLifecycle` |
| `GroupMergeAddsUp` | `Spec => []OccurrencesAddUp` |

The inductive invariant is `IInv`: the types, and every incident present is
`Good`, that is, a well-formed record whose fields fit its state and whose log
replays to it. Neither property is inductive alone: that an operation logs the
state it comes from needs the record to be well formed, and that lifting a
silence leaves no time behind needs the fields to fit. Each operation gets a
lemma about records (`RefireIsGood`, `RecurredIsGood`, ...), `TickedIsGood`
lifts them over `tickLocked`, and `OneIncidentChanges` says that replacing one
good incident by another preserves the invariant; the step lemma then has one
case per action. `SilencesAreLifted` needs, beyond the invariant, that a silence
of at least a second lies in the future in spite of the cut to whole seconds
(`SilenceIsAhead`). The refinement maps an incident to its state and its silence
to a wake-up time; every operation handles the incident it names (`HandlesOne`)
and the others are kept or woken (`OthersFollow`). `GroupMergeAddsUp` adds to
`IInv` that no incident was last seen after the second the clock is in
(`Counted`): without it an occurrence might be entered behind a later one.

Assumptions: `IncidentAssumption` and `AbsentIsNoIncident` in `Incident`. That
durations are at least a second is the handler's rule of whole minutes.

### Rate limiter

`RateLimitProofs` proves about `RateLimit`, for any keys, rate, capacity, idle
time, eviction interval and `MaxTime`:

| theorem | statement |
|---|---|
| `TypeCorrect` | `Spec => []TypeOK` |
| `TheLimitHolds` | `Spec => []RateHolds` |
| `IdleKeysLeave` | `Spec => []IdleIsEvicted` |
| `EvictionIsInvisible` | `Spec => NeverEvicted`, the refinement of `TokenBuckets` |
| `RetriesAreServed` | `RoundsUp => (Spec => RetryIsServed)` |

Everything follows from three lemmas on `held(k)`, what a key has at hand when an
evicted bucket counts as full: a tick refills it (`TickHeld`), a request takes a
token or nothing (`ServeHeld`), an eviction does not change it (`EvictHeld`). The
inductive invariant `LInv` adds to the types that buckets are `Recent` (a key was
seen no longer ago than the idle time and the ticker's progress; needed to show
that types survive and that the idle leave) and that the books are `Balanced`:
what was admitted since any tick, together with what is left, is within a full
bucket and the refill. `RateHolds` alone is not inductive, since it forgets what
is left in the bucket. `RetriesAreServed` rests on two lemmas: in `retryAfter`
seconds a token flows in (`WaitSuffices`), and what flows in counts from the last
admission, which is no later than the last request (`AwayIsServed`). Its
hypothesis `RoundsUp` is true of every rate of once a second or more, and of any
other whose wait is whole seconds or exceeds them by a millisecond or more.

Assumptions: `LimitAssumption`, `AbsentIsNoEntry` and `IdleRefills`, that the idle
time refills a bucket. The code does not check the last one when it reads the
limits from the environment; its defaults (20 a second, 40 at once, ten minutes)
satisfy it by far.

### Metric alerting

`MetricAlertingProofs` proves about `MetricAlerting`, for any set of rules and of
rule bodies the validation accepts, any webhooks, deduplication time and caps:

| theorem | statement |
|---|---|
| `TypeCorrect` | `Spec => []TypeOK` |
| `RecoveriesAreEarned` | `Spec => []RecoveryIsEarned` |
| `FirstNoticesSpaced` | `Spec => FirstNoticesAreSpaced` |
| `ElevationsAreAnnounced` | `Spec => ElevationIsAnnounced` |

The inductive invariant is `IInv`: the types; `StreakIsBacked`, that the streak an
entry holds is no longer than the values were clear in a row; `AgesAgree`, that
the dedup map knows the age of the last first notice of every rule; and
`RecoveryIsEarned` itself, which speaks of the step just taken only. Without
`StreakIsBacked` the evaluator could recover on a streak that a rule's former body
left behind. The evaluation is taken apart once: `StreakMoves` says what one
evaluation may do to the streak, proved branch by branch of `Evaluate`, and the
step of the loop follows from it whatever body of the rule was copied.
`AlertDispatchProofs` has the lemmas about the dispatcher that this module and the
next one need: what `Dispatching`, `Attempt` and `AgeSeen` keep and change.

Assumptions: `AlertingAssumption`, `AgeCapAssumption` and `DispatchAssumption`.
The second says that rule bodies are well formed and that `RunCap` reaches as far
as any rule's recovery window, which is what makes it a cut and not a bound.

### Quota

`ChatQuotaProofs` proves about `ChatQuota`, for any keys, any finite set of
concurrent requests, any limits, any answers that have a largest one, either
store and any bound on the time:

| theorem | statement |
|---|---|
| `TypeCorrect` | `Spec => []TypeOK` |
| `CrossingsAreToldOnce` | `Spec => []CrossingIsToldOnce` |
| `LevelsAreAnnounced` | `Spec => []LevelIsAnnounced` |
| `NoticesOwed` | `Spec => []NoticesAreOwed` |
| `OvershootBounded` | `Spec => []OvershootIsBounded` |

All rest on `Base`: the types, that no window is ahead of the clock, and that a
request is `Sound` (it carries no day that has not begun, and books against the
budget of its key when the store answers). The steps of a request that neither
book nor call back are taken apart once, as `Advances`. On top of it:

- `TollIsKept`: what was called out is exactly what is marked as crossed. That no
  level is told twice is not inductive alone, since it forgets the marks.
- `NoticeInv`: the callbacks a request has still to make are of crossings, and the
  dedup map is young for whatever is being sent; so no second POST of the same
  subject and event can start while the first is under way.
- `ChargeIsBounded`: the sum of today's tokens and one largest answer for each
  *charged* request is within the budget and one answer for each request. Charged
  are the admitted requests and also those that read a day before midnight and
  will pass the check on a window of yesterday. `OvershootIsBounded` counts the
  admitted alone and is not inductive: at midnight the latter enter from outside.
  A step either charges nobody and adds nothing, or leaves today with room,
  or turns one charge into tokens (`StepBounded`).

Assumptions: `QuotaAssumption` and `DispatchAssumption`. `OvershootBounded` holds
for the mock store only, as the property says: the query of `store.go` can fail,
and a key that is not found passes.

### Guard audit

`AuditTrailProofs` proves about `AuditTrail`, for any rows, channel and batch of
any size and any number of restarts:

| theorem | statement |
|---|---|
| `TypeCorrect` | `Spec => []TypeOK` |
| `WrittenAtMostOnce` | `Spec => []RowsAreWrittenAtMostOnce` |
| `NoRowTwice` | `Spec => []EachRowOnce` |

The inductive invariant `Inv` adds to both that the writer is in order
(`WriterInv`: the loop over the bucket is inside a batch that is being written,
one that is not has room) and that the sink accepted no row twice
(`AcceptedOnce`). The property says that table, batch and channel, one after the
other, are the accepted rows with some missing; the lemmas on `Within` say that
appending at both ends, and leaving out a part of the sequence, keep it so, and
each action is one of the two. `EachRowOnce` follows: no two places of the
pipeline hold the same row.

Assumptions: `SinkAssumption` and `TrailAssumption`.

### Guard, masking policy, forwarder

`ChatPathProofs` proves about `Guard` and `Ingestion`, each as a system of its
own, for any number of policies saved and of restarts, any exchanges, a channel
and batches of any size:

| theorem | statement |
|---|---|
| `VerdictsAreOfOnePolicy` | `GuardSpec => []VerdictIsOfOnePolicy` |
| `CopiesFollowTheStore` | `IngestionSpec => []CopyFollowsTheStore` |
| `TracesAreTogether` | `IngestionSpec => []TracesStayTogether` |

- `GuardInv`: what was found so far is what the classifiers asked so far said and
  the local rules see (`FoundInOrder`), and the policy in force is among those
  that were in force during the judgement (`UnderWay`). `VerdictSays` gives, from
  the three applications of `Judge`, the verdict in a form that does not depend
  on their order; it is what the property compares with.
- `CopyInv`: nothing that was sent is newer than what is in force
  (`SavesAreStored`), and the poll under way got nothing older than what was in
  force when it began (`PollIsAhead`). The instance covers a server with and
  without a database, which at every restart is reached or not.
- `FlowInv`: what is held anywhere is an event of its exchange, made under the
  policy of its capture (`HeldIsTold`); the events of an exchange are in order
  from what has arrived back to what is still to be offered (`FlowIsOrdered`);
  and none is missing that was not dropped or lost (`NoneIsMissing`). `ApplyHides`
  says that no mode of capture keeps what the policy hides.

`GuardSpec` and `IngestionSpec` are the modules' own next-state relations;
`MCChatPath` checks the same properties with one part live at a time.
Assumptions: `SinkAssumption`, and `CaptureAssumption` on the shape of a request to
the forwarder. The rules of a policy are those of the two modules (`PolicyRules`,
`Saved`), which have every case the code distinguishes.

### Screens of the web client

`WebScreensProofs` proves about `MCWebClient`, for any rows, things, texts, picks,
healths and requests and for any value of the bounds on calls and time:

| theorem | statement |
|---|---|
| `ReadsAreQuiet` | `Spec => []AbortIsQuiet` |
| `CreationsWereDryRun` | `Spec => []CreatedWasDryRun` |
| `PolledDataIsCurrent` | `Spec => []DataIsCurrent` |
| `NoticesKeepTheirTime` | `Spec => []ToastsKeepTheirTime` |
| `OneWriteAtATime` | `Spec => []WritesDoNotOverlap` |
| `ListsCatchUp` | `Spec => []ListCatchesUp` |
| `PanelFollowsTheUrl` | `Spec => []PanelIsOfTheUrl` |
| `ActionsMeetWhatWasShown` | `Spec => []ActionsAreAsShown` |
| `CleanCardsAreSaved` | `Spec => []CleanMeansSaved` |
| `AnswersStandUnderTheirQuestion` | `Spec => []AnswersFindTheirQuestion` |
| `ReportsAreOfTheChoices` | `Spec => []ReportIsOfTheChoices` |

Each screen has an inductive invariant of its own over its own variable, and a
lemma for each of its steps. A step of the client is a step of the live screen or
leaves its variable alone, which carries the invariant over. Every invariant was
first checked by TLC on the instance of `web_client`. What each adds to the
property, without which it is not inductive:

- `ReadInv`: one request was sent for every attempt, so that none is sent after
  an abort; the error a caller is told comes from the last attempt.
- `WizardInv`: one call is under way at most; a dry run under way, and one that
  passed, is of the draft but for the fields it carries as changed since
  (`DryRunsAreOfTheDraft`), and what is being created is of its dry run in the same
  sense (`CreationsAgree`).
- `PollInv`: a load that was not cut off is for what the screen depends on now,
  and a screen that loads has one. The property alone says nothing of the load
  whose answer it will show next.
- `ToastInv`: the time a card has been there and the time its timer still has to
  run make up the duration of its first notice, which is none for a notice that
  stays (that is how the outcome of a call comes to go at once; `NoticesKeepTheirTime`
  claims nothing of it, and `web_client_notice` shows it); a card shows "in
  progress" exactly while its call is under way.
- `WriteInv`: where all buttons wait, the page is busy while its one write is
  under way; a load that was served and is not what the server holds any more is
  *explained*, thing by thing, by a write to the thing served and not answered, a
  later load, or, since, a lost answer or another operator's change of it.
  `ListsCatchUp` is the case in which nothing is left to explain it.
- `OfTheUrl`: the trail ends with the object of the URL the page knows, which is
  the one object that may be loading, and that URL is the browser's unless the
  palette wrote there (`astray`). `ActionInv`: revisions only grow, whatever a screen or a
  call holds is a revision the object had, and a destructive call carries the id
  that was typed. Equality of the stated and the present revision is decided
  where the action is applied.
- `DraftInv`, one part for each kind of card: what is kept in the browser is
  known at once (`KeptHere`); a policy without an edit is the one in force
  (`PolicyInForce`); when nothing is restarted, a configuration that is not the
  present one has been asked for again (`ConfigurationRuns`).
- `ChatInv`: what a place of the conversation holds, and what is under way to it,
  is to the question there, unless somebody cleared while asking; one thing is
  under way at most, unless somebody stopped while asking.
- `ReportInv`: what was written to the URL is read back as the choice it was
  (`UrlHoldsTheView`, by cases over the schema of each page); a call its effect
  has not cut off asks what is chosen, and one is on its way whenever the report
  is not (`ReportIsAwaited`); what is asked for a panel is for its row.

Assumptions, each true of the code: `RowsHaveNames` (a row without an app is no
button, `Traces.tsx:274`, so no row has the name that stands for none),
`ThereIsAPick`, `RetriesAreANumber`, `NoticesAreNumbers`, and `NothingIsNoThing` of
`WriteScreens` (the mark for nothing is no thing's name). `Overlay` stands for `@@`
of `TLC`, which the provers cannot expand.

### What is not proved

Only model-checked, because the prover has no fairness: all liveness, which is
`StandingAlarmReminds` and `SteadyClearRecovers` of metric alerting and
`NoRowLingers` of the audit. Because the
pure functions of the web client recurse over their data: `Investigations`,
`Explanations`, `Agents` and `Drawings`. The composition `MCChatPath` is
checked only; it adds no step to those of its parts. The five violated properties
are false, so there is nothing to prove.

## 5. Where the code may surprise

Met while modelling. The five runs that end in a violation show the findings
(`findings` in `PROJECT.json`); the others are written into the models as they are,
and where a property has an exception, this is the reason.

Findings: an alarm's recovery within 24 hours is suppressed (`server/alertrules.go:136`);
a deletion during a pass leaves a runtime entry (`server/alertrules.go:251`); a
booking across midnight replaces the new day's window (`quota/quota.go:97`); the
notice of a call that ended well goes at once, because its card keeps the 0 of the
notice before it (`toast.tsx:145`); a read refused with a 4xx is sent three times,
because the refusal is thrown where failures are caught (`api/client.ts:119`).

On the server. A `Put` that fails ends the loop over its batch: the rows behind it
are in ClickHouse and are never put. `clickhouse.go:124` says that a failure leaves
the ClickHouse load as it is, and nothing promises more, so this is no finding.
A server whose database is not reached at its start goes on without
(`cmd/api/main.go:98`, where only the keys are said to be off), and then answers
the forwarder's polls with the default masking policy, whatever the operators
stored; saves are refused with 503.

Also there: a forwarder that restarts uses the default masking policy until its
first poll succeeds, which keeps blocked prompts in full, whatever was stored; an
overflow of its queue drops some events of an exchange and sends the rest. The
wait that `ratelimit.go:133` tells is rounded down when a token takes less than a
millisecond more than whole seconds (a rate of 0.9995 a second: told 1, needed
1.0005), so such a client is refused once more.

`SteadyClearRecovers` and `StandingAlarmReminds` hold for a rule that
is left alone: one that is rewritten between every copy and evaluation is always
judged by the body it had.

Reads and polling.
- `client.ts:89` says retries do not overlap the next tick of the polling; three
  times 12 s with the waits between exceed its 15 s.
- An abort while a refusal's body is read surfaces as an error of the API
  (`client.ts:106-125`), which a report screen shows (`Traces.tsx:119`) although
  the load that replaced it is under way.
- `usePolling.ts:46` starts a load at every interval and cuts off the one before:
  with a latency above the interval no data ever arrives.

Reports and writes.
- `App.tsx:75` replaces the URL the application was opened with by its path, so
  the query of an opened link or of a reload is lost before its screen reads it.
  `urlState.ts:1-8` and 57-59 have it that a link restores the view. The way back
  within a visit does; so the report property speaks of the URL as it is written
  and read during a visit, and a visit begins without a query.
- `Sessions.tsx:82` takes the end of a call that was cut off for a failure, and
  clears the detail of the session that was opened since, if that is there already.
- The calls of refresh buttons and timers carry no signal: a late answer shows
  the report of choices that are no longer on the screen (`overtaken`); the panel
  of a row does the same after a close (`strayed`).
- A choice that waits for the debounce is lost when the page is left (`typed`),
  and clicking the screen's own entry in the menu drops the query while the
  screen keeps its choices (`adrift`).
- A failed load of alert rules, of the webhook and of the guard's overview looks
  like an empty one. When the capabilities cannot be loaded, every control shows.
- In `Notifications` one busy mark serves all rows; demotion of a user does not
  wait for it; the key button of an endpoint's details is not gated.

Deployment wizard (`pages/Endpoints.tsx`).
- The cards of presets and models forget the dry run (`setPreview(null)`), the
  fields beside them do not: pattern (487), the id of a model (533), the way back to
  Harbor, which empties the model (540), and the figures (554 to 560) can be changed
  by hand after it and are created as they are then, a draft without a model too.
- All fields stay open while a dry run is under way, whose answer then enables the
  button for a draft it was not of.

Playground (`pages/Playground.tsx`).
- Stop and clear do not cancel the request. A late answer animates an exchange
  that was stopped, although the comment at lines 8 to 11 leaves that state by
  resume and regenerate only; after a clear it may land under another question.
- With a second question after a stop, the first answer's drawing is replaced by
  the second's and its exchange stays in "streaming".
- A comparison that was closed while under way opens again with its results.

Object panel.
- `ObjectView.tsx:219` says "not found" is not shown while loading, but the
  condition does not look at loading, and a closed panel leaves an empty object
  behind; any failure of the load shows as "not found".
- The browser's way to an entry with the same object and another trail leaves the
  old trail on the panel (`popped`).
- The forms in `KineticStrip.tsx:229` and `AiAgent.tsx:458` state no revision, so
  the check that answers 409 does not apply to them.
- `Layout.tsx:166` has an object view of its own: the palette's "open object"
  writes the URL, the page does not learn of it, and its panel does not open
  (`astray`), although `ObjectView.tsx:5-6` and 44 and `Layout.tsx:164` have the URL
  as the only source of what is shown.
- The order in `applyAction` is replay, object, gating, revision, not the one its
  numbered comments suggest.

Toasts (`toast.tsx`).
- Pointer and focus share one flag, so a pointer that leaves starts the timer of
  a card that still has the focus.

## 6. Not modelled, and the plan

Modelled next, in this order:

1. `Reconfigure`: patch, then restart, either failing. (The card that waits for
   the restart is in `DraftScreens`.)
2. What is left of partly modelled screens: the replay of a trace, the log and
   metrics tabs of an endpoint, the pages of the agent, the evaluations and the
   import, whose calls are answered where they were asked.

Every safety property that a run finds to hold, but for those of the pure
functions, is a theorem; a part that is modelled next brings its own.

Left out for good: dashboards, Langfuse and Harbor readers, evaluation and MCP
endpoints of the server, which translate a query and keep no protocol; `domain/`,
whose arithmetic is over floats; capability profiles and middleware, which are
pure functions; the demonstration server `web/src/api/mock.ts` but for the
application of an action; data shapes, charts, badges and the frame of the page
in `web/`. The URL validation of the webhook only decides which URLs are in
`Webhooks`.

Known and intended, so not stated as properties: a restart forgets dedup,
crossed levels and notify toggles (the code documents them as in-memory);
`List` and `Counts` take the lock one after the other and may differ by an
operation; a key whose toggle is off still marks its level as crossed; a crossing
on the next calendar day within 24 hours of the last is suppressed; an event
that finds no webhook uses up its dedup window.
