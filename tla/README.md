# CachePilot in TLA+

CachePilot keeps provider-side prompt caches alive while an agent waits for
background work. A relay sits between the agent and the provider; for each
session and cache it keeps a *lease*, and when the cache is about to expire it
replays the last request as a small *warm* request, if that pays. These modules
model that machinery from the source, with the agent plugin that reports the
background work, the observer that learns how long a cache lives and the churn
detector that explains why one was lost. TLC checks the modules on small
instances, and TLAPS proves the safety properties of all four parts for every
instance.

Source paths below are relative to `src/packages/`: `core` is
`core/src/cachepilot_core`, `relay` is `relay/src/cachepilot_relay`, `plugin` is
`hermes-plugin/src/cachepilot_hermes`.

## The system

| Component | State it keeps | Operations | Hard part |
|---|---|---|---|
| lease manager (`core/leases.py`) | leases, a runtime record per lease, lease by fingerprint, locks | find or create, invalidate, target started/finished, before/after request, tick, warm | requests run while a warm is awaited |
| lease controller (`relay/lease_controller.py`) | scheduler task, target ids, affinity entries | on_request_start, on_request_end, tick, stop | what is stored, kept or dropped, and when |
| proxy (`relay/proxy.py`) | none of its own | forward | every way an upstream call can go wrong |
| warm executor (`relay/warm_executor.py`), adapters | none | execute, build_warm_request | declined and slow warms |
| economics, pricing (`core/economics.py`, `pricing.py`) | none | evaluate, estimate costs | the spending bound |
| snapshots (`core/snapshots.py`) | last request per fingerprint | store, get, drop | replaying something out of date |
| route affinity (`core/route_affinity.py`) | one pin per lease | set, look up, clear | a pin meant for one request |
| observation (`relay/observation.py`), route intelligence | last event per session, a bounded cache of bodies | observe a response, a stream, a failure | order of arrival, what a restart loses |
| TTL learning (`core/ttl.py`), survival | profile per route, observations | learn, resolve | pairing of observations, crossed bounds |
| churn (`core/churn.py`), topology (`core/topology.py`) | churn rows | classify, attribute, summarise | two sources (bodies, digests) for one answer |
| telemetry store (`core/storage.py`) | SQLite tables | record, update, query | shutdown between change and write |
| plugin targets (`plugin/targets.py`, `lifecycle.py`, `tool_middleware.py`, `session.py`) | refcounts, current session | register, release, publish | unbalanced hooks, shared ids, one identity per process |
| duration history, classifier (`plugin/duration_history.py`, `classifier.py`) | rolling windows, stored rows | record, classify | windows lost and rows kept at a restart |
| identity, fingerprint, usage | none | pure functions | boundaries of the rules |
| command line, dashboard, fake provider, benchmarks | none | read and show | not modelled |

How they interact: the plugin sends the number of a session's active targets in
a request header; the proxy calls the controller before and after the upstream
call; the controller drives the manager, the snapshot store, the affinity
registry and the lease rows of the store; a scheduler task on the same event
loop ticks over all leases and awaits the warm executor. Everything in the relay
runs on one asyncio loop, so interleaving happens only at an `await`; the relay
awaits only the upstream, the warm and `sleep`. After a response the proxy calls
the observer, which records everything it learns in one step of the loop. The
plugin lives in the agent's process, where hooks may fire on several threads and
each store has a lock of its own.

What makes the core correct: a warm never runs against a real request of its
lease; it replays a request that did produce the cache, the latest one; warms
that verify nothing stop, and so do those that no longer pay; costs are visible;
a due lease is served, and in time; nothing a late answer does leaves a lease
stuck. The plugin is correct when the count it sends is the session's work in
progress; the learner when its bounds enclose the provider's real TTL; the churn
detector when the cause it stores did change and the view rebuilt from the store
claims no more than the exact one. The list of hazards in `PROJECT.json` names the lines.

## Modules

| Module | Models |
|---|---|
| `Economics` | `pricing.py` and `EconomicController.evaluate`, as operators on integers |
| `Leases` | `CacheLease`, `_LeaseRuntime` and the methods that act on one lease, as operators on records |
| `LeaseRelay` | the relay process: requests in `forward`, the controller, the manager's tables, snapshots, pins, stored rows, the scheduler task |
| `WarmGuard` | the abstract contract of warming, which `LeaseRelay` implements |
| `CommandHistory` | command signatures, duration statistics and the classifier, as operators |
| `BackgroundTargets` | the plugin in an agent process: registry, session identity, hooks, duration history |
| `TTLProfiles` | profiles, TTL resolution, route verdicts, outcomes, survival curves, as operators |
| `CacheLearning` | the observer and the learner against a provider whose caches expire |
| `PromptChurn` | layers of a prompt and the churn classifier, as operators |
| `Topology` | the two prompt topologies, as operators |
| `ChurnLog` | the observer with the churn detector: events, churn rows, body cache, restart |
| `MCLeaseRelay`, `MCBackgroundTargets`, `MCCacheLearning`, `MCChurnLog` | constant values and symmetry sets for TLC |
| `LeaseRelayProofs` | types, breaker, warming flags, and that real requests win, for `LeaseRelay` |
| `WarmGuardProofs` | `LeaseRelay` implements `WarmGuard` |
| `SpendingProofs` | what warming costs: stored and bounded |
| `ReplayProofs` | what a request leaves for later: pins and snapshots |
| `TimingProofs` | no cache expires unattended |
| `BackgroundTargetsProofs`, `CacheLearningProofs`, `ChurnLogProofs` | theorems about the plugin, the learner and the churn detector |

`LeaseRelay` extends `Leases`, which extends `Economics`; `BackgroundTargets` extends
`CommandHistory`; `CacheLearning` extends `TTLProfiles`; `ChurnLog` extends `Topology`,
which extends `PromptChurn`. The proof modules of the relay extend `LeaseRelayProofs`, the
others the module they are about. `_record` of the observer does two independent things
with an event, and is modelled once for each (`CacheLearning`, `ChurnLog`): the
product of the two state spaces would show nothing more.

## The relay

### State

`lease` and `runtime` are the dictionaries of the manager, `byFp` the index by
cache fingerprint, `snapshot` and `pin` the two in-memory stores, `stored` the
lease rows. Lease ids are numbered in insertion order, which is the order in
which a tick visits them; `count` is how many exist. `req[r]` is one call of
`forward`: not started, waiting for the upstream, relaying a stream, or over
(usable answer, error, or left by an exception). `sched` is the task: where it is,
which lease it is at, which ones it will persist, and the warm in flight.

### Steps

`StartOnLease` and `StartNewLease` are `on_request_start` up to the send, with
supersession of the session's other leases, the target sync, the snapshot, the
row and the affinity lookup. `RequestFails`, `BoundedResponse`,
`StreamingResponse` and `ErrorUnobserved` are the ways `forward` reaches
`on_request_end`; `BodyReadFails` is the way it does not. `TickBegins`, one
`Evaluate...` or `SendWarm` step per lease, `WarmReturns` and `TickEnds` are the
scheduler loop; `Stop` is the cancellation at shutdown; `Advance` lets one
scheduler interval pass.

Three calls can raise and are swallowed. `_persist` of a lease row only logs
(`lease_controller.py:534-541`): `Persist` writes the row or counts the miss, at most
`MaxMissed` times in a row, at a request's start and end and for each row of a tick. The TTL
resolver reads a profile from the store: for a request in `Unresolved` it may raise when a
lease is created, which leaves the request without a context (`StartUntracked`: the old
leases are invalidated, nothing else happens and no end of it reaches the controller), or at
the request's end, which skips the row, the snapshot drop and the pin (the second
alternative of `End`).

Between two awaits the code runs alone, so a request's start and end are single
steps, and `LoopFree` keeps requests out of a tick that is not awaiting a warm.
The tick is split into a step per lease only to keep the actions readable. The
per-fingerprint lock is taken by the scheduler alone and never contended.

### Abstraction

* Time is in scheduler intervals. A lease holds the age of its last touch; ages
  saturate at `MaxAge`. `MaxAge` is at or beyond the latest deadline or expiry a
  configuration's properties compare with.
* Money is in integers: a rate is a price per token, percentages are whole, and
  comparisons are multiplied out, so they are as exact as the code's decimals.
* A fingerprint is a value with a provider. Its three relatives (request, system,
  tools) decide nothing. `pending_warm` is written and never read.
* The TTL resolver, checked by itself in `CacheLearning`, returns any member of `TTLs`, the telemetry any outcome and any
  prompt size of `Prefixes`, a warm any result with a cost of `WarmCosts`.
* `LeaseManager.complete` and its state are not called by the relay and left out.
* A request with no session header creates no lease and is not a step.

Bounds: `Requests` (each sent once), `MaxLeases`, `MaxTargets`, `MaxAge`,
`WarmTimeout`, `MaxMissed`. Two or three requests are enough for a request before, during and
after a warm and for two that overlap; `MaxLeases` 2 or 3 for a lease that is
superseded, returned to, or duplicated. `MaxTargets` 1 separates no work from
some; the code distinguishes nothing else. One failed write in a row (`MaxMissed` 1, in
`relay_serial`) makes the row lag by a warm, and by two in the tick of the next one.

### What warming promises

`WarmGuard` has three variables: the leases with a request at the provider, the
leases with a warm there, and the unverified warms of each in a row. A warm goes
out only when none is under way, no request of its lease waits and fewer than
`Limit` warms in a row were unverified. `LeaseRelay!Guard` maps `waiting` to the
leases of the requests that wait, `warmed` to the lease of the warm in flight and
`misses` to the runtime's count. The relay never looks at the requests themselves
when it warms: it has a flag per lease, an evaluation step that may be several steps
old, and a breaker. That these add up to the contract is `ImplementsGuard`, checked
for clients that wait for an answer (with `Overlap` it fails, as `relay_overlap`
shows). That a warm sent ends is not part of it: it is an assumption on the upstream (see
Fairness).

## The plugin

`refcount` and `owner` are the registry, `identity` the published session id,
`window`, `row` and `disabled` the duration history; `call` and `agent` are the
tool calls and subagents of the process, `session` the session it runs.

A call asks the history for the learned row if the history is on (`AskHistory`), is
classified (`ToolRequest`, whose read of the row may fail and switch the history off), is
moved to the background (`RegisterProcess`) or not, ends (`PostToolCall`: the release,
whoever registered) and is recorded. Recording is three steps, since the history tests
`_disabled` before it takes its lock and sets it after the lock is released
(`duration_history.py:208`, `214`, `246-247`): `CheckHistory`, then `Record` or
`RecordFails` (the window has the sample, the row has not), then `Disable`. `NotRecorded` is
a call without a duration, a signature or a history. Between any two of these the steps of
other threads may fall, so a thread that passed the test may record after another's write
failed, with that sample in its window. The history may also fail to open, at the start and
at a restart. Where a hook takes the lock of the registry and that of the session id, the
two are one step; no other step can tell as long as the published id does not change, which
is what `OneSession` says.
`CallLost` is a call whose `post_tool_call` never fires. `SubagentStart` and
`SubagentStop` are the subagent hooks, the second of which does not know a
`Nameless` agent; `SessionBegins` is `on_session_start` and `on_session_reset`;
`Restart` ends the process, of which only the rows of the history remain.
`Headers` is what `llm_request` puts on a request sent in a state.

`Ordered(samples, k)` is the k-th of the sorted samples, defined by counting instead of
sorting, and `P90` interpolates between two of them as `percentile` does.

A command is a sequence of tokens (word, flag, stdin marker, operator). The settings
are the defaults, with every feature on. `OneSession` says that the agent finishes a
session's work before another session begins, `Concurrent` that two calls of one
signature may be under way at once; the identity is one per process, so without the
first the header names whichever session spoke last.

Bounds: `Calls`, `Agents` (each used once), `MaxRestarts`, `WindowSize`. Three calls on
two signatures and a window of two samples fill a window, drop a sample, and leave
one call to find a learned row; a restart may come before any of them.

## Learning

The provider is part of `CacheLearning`: `touched[f]` is when it last used the cache
`f`, `Alive(f)` whether that is less than `TrueTTL` ago. `Send` reaches the provider
at once and is served or turned away; `ObserveBounded`, `ObserveStreaming` and
`ObserveFailure` record it up to `Latency` later, with the route that the response
names (none for a failure). Each is one `_record`, which commits the event, the churn row,
the TTL observation and the profile one after the other. An error in between is logged and
leaves what was written (`observation.py:743-744`), and so does a relay that dies:
`writes`, from 1 to 4, says how many succeed. `NotRecorded` is a request of which nothing is
stored: its body breaks while it is buffered (`proxy.py:249`), the observation raises
(`proxy.py:353-355`), the first write fails or the relay dies. `Outage` holds the numbers of
requests sent at which a recording may break like that. The history variable `unseen` has
the routes whose cache was used by a request that left no TTL row of the route, and the
field `learned` of a row says whether the profile followed it. `Warm` is a warm of the
relay, which touches the cache and is not observed; only `WarmSpec` has it.

Times are whole units and at most one request is recorded per unit, because the
code's timestamps are finer than any two recordings. Confidences are in hundredths
and the estimate is scaled by 100, so all arithmetic is exact; the survival curve
is a fraction. `MaxTime` and `MaxRequests` (4 each) with a TTL of 2 let a cache live,
expire, be rebuilt, be shared by two sessions and contradict itself. `Outage` is `{2}` in
`learning`: the recordings that break come after two requests and before two more, so what
they leave behind is met by later ones.

Two branches of the source are not reached: the learner's reset of the confidence after
a route change (`core/ttl.py`; the route is part of the fingerprint that pairs the
rows, so the two never differ), and the verdict `SHORT_TTL`, which is for
an unchanged route, while the observer asks only when the route changed. The pair after a
fingerprint change is never clean, since the churn row of the change lies within it.

## Churn and topology

A prompt is a sequence of pieces and a piece is plain or of the kind one of the
detector's patterns recognises; a digest is what it digests, `Absent` is `None`. Only JSON
bodies are modelled: any other has no content and is classified by digests. The
estimate of the lost prefix counts pieces where the code counts characters.

`log` and `churn` are the two tables, `bodies` the body cache, a FIFO over
sessions. `Record` is `_record` for any kind of response; `ChurnNotStored` the same with
a store that fails at the churn row, after the event (a store that fails at the event itself
is not a step, nor is the classifier's own fallback when it raises, `observation.py:808-809`
and `828-830`: its operators are total); `Restart` loses the bodies, so
that the next classification has digests only. `TopologyFromStore` and
`TopologyFromSnapshots` are the two reports.

Bounds: two sessions, room for one body, a window of three events and four events in
all (`MaxEvents`). Seven requests differ in tail, history, route, suffix, leaked
prefix, tool order and scope, alone or together. Four events are enough for a body that
is evicted, comes back and is compared again, and for a row that falls out of the
window.

## Runs

| Run | Instance | Shows |
|---|---|---|
| `relay_serial` | 2 sessions, 1 shared cache, 3 requests, economics on, row writes that fail once in a row | types; no stuck warming state or flag; breaker and miss count agree; a stored cost lags by one warm for each write that failed and one for a tick cut off; no warm against a waiting request of its lease |
| `relay_session` | 1 session, 2 caches, 3 requests, affinity on, one request that may meet a failing resolver | a pin is for the next request only; spending stays within budget; a warm replays the lease's latest request, and a successful one |
| `relay_timed` | 2 sessions with a cache each, TTL 12, margin 5, warms up to 2, jitter +3% | no warmable cache expires unattended when the margin covers an interval and all the warms; the relay implements `WarmGuard` |
| `relay_live` | 2 sessions, 2 caches, TTL 1 or 3, one opaque, one request without output bound, one that breaks, goes unobserved or meets a failing resolver | a due lease is eventually served |
| `plugin` | 2 sessions in turn, 3 calls, 2 agents, a restart, failing reads and writes of the history | the registry counts the work in progress; the headers tell the sender's own work; a row counts all recorded runs and its p90 is that of a window of observed ones |
| `learning` | 2 sessions, 2 routes, responses up to 1 late, lost, failed or without usage, recordings that break off | bounds enclose the real TTL; the profile is never ahead of the curve and agrees with it unless an update of it was lost; what is resolved as learned has evidence; contradicted routes never regain trust; a miss blamed on the route refines nothing |
| `churn` | 2 sessions and requests without one, one body kept, rows lost, restarts | the cause stored did change; attributions from the store are right; the stored topology never claims more than the exact one |
| `relay_overlap` | a client that overlaps its requests | **violated**: the first to end clears the busy flag (`leases.py:604`) and a warm is sent against the second |
| `relay_switch_back` | a session that returns to a cache | **violated**: the invalidated lease is found again and disarmed to INACTIVE (`leases.py:446`, `563`) |
| `relay_broken_body` | a body breaks while buffered | **violated**: the lease stays busy for ever (`proxy.py:249`) |
| `plugin_shared_target` | two runs of one signature at once | **violated**: the foreground run's end releases the background run's target (`lifecycle.py:113`) |
| `learning_warms` | as `learning`, with the relay's warms | **violated**: a hit after a warm is taken for a long idle age (`ttl.py:312`) and the lower bound exceeds the real TTL |

Each violated property states what a comment or document of the repository says;
`PROJECT.json` quotes it. The passing runs state the same properties where they do hold:
`RealRequestWins` for clients that wait for an answer, `RefcountsExact` for calls of
different signatures, `BoundsSound` without warms.

`WithinBudget` allows up to one warm more: the gate compares the estimate of the
next warm with what is left, and the actual cost is known only afterwards.
`BoundsSound` allows the latency of a response. It exempts the lower bound of a route in
`unseen`: a request used the cache there and left no row of it, so the next row's idle age
is measured from an earlier touch and the bound it sets may exceed the real TTL. It exempts
the upper bound once the route answered with an error (an error row shortens the idle age
of the next pair).

`WarmCostStored` counts failed writes with the row (`missed`), and `RowSummarisesRuns` lets
the window of a row hold runs that could not be stored, but only observed ones and all the
recorded runs of the process that fit. `PinIsForNextRequest` and `WarmReplaysLatest` exempt
exactly the requests whose end the failing resolver may have cut short: the pin and the
snapshot are then those the end would have removed.

`ServedInTime` is about a lease that nothing but time keeps from being warmed and whose
warm would replay a request of its own (`KeepsOwn`): a lease that shares its fingerprint
may become warmable through the request of another, which does not touch it.

Deadlock is checked in every run but `churn`, where `MaxEvents` bounds the tables and the
model stops when they are full; a stopped relay stutters explicitly.

### Where the passing runs end

The constants of a passing run are conditions. Changing one shows what it is for:

* `Unobserved` not empty: `WarmReplaysLatest` fails, as an error response whose
  observation fails counts as a success (`proxy.py:241`, `253`) and is replayed.
* `Abortable` not empty in `relay_session`: `PinIsForNextRequest` fails, as a body that
  breaks while it is read skips `on_request_end` (`proxy.py:249`) and leaves the older pin.
* Two sessions that share a cache: `WarmReplaysLatest` fails, as a warm replays the other
  session's request before it is answered (`lease_controller.py:236`).
* A warm timeout beyond what the margin covers, as by default: `ServedInTime` fails, as
  the second lease of a tick expires while the first one's warm is awaited
  (`leases.py:850`). The client's own timeout does not keep a warm within any bound.
* `Overlap` in `learning`: `BoundsSound` fails, as two requests for one content may be
  recorded in the other order than they were served.
* `ChurnDetection` off in `learning`: `InstabilityRefinesNothing` fails. No churn row
  is written, so the pair is clean and the miss does refine the profile, although
  `route_intel.py:150-152` and `observation.py:657-659` say it does not.
* `MaxBody` 6 in `churn`: `CauseNamesChange` fails, as a body that is too large leaves
  the one before it in the cache (`observation.py:757`) to be compared with a later one.
* `Requests <- BlockRequests` in `churn`: `CauseNamesChange` fails, as a system prompt
  given as blocks is digested but not read by `request_content_from_payload`
  (`churn.py:219-258`).

Other places where the model follows the code against its comments:

* `_churn_index` reads the rows newest first and lets later ones overwrite, so it keeps
  the oldest of several rows, not the last (`topology.py:348-350`).
* A conversation is taken as unchanged when the divergence lies before it, even if its
  digests differ (`topology.py:210-216`); `AttributionSound` leaves out this case only.
* The loss estimate compares serializations with sorted keys, in which the messages
  precede the system prompt (`churn.py:204-216`), not the prefix order.
* The boundary of the system prompt is the first match of the first pattern that
  matches, not the first volatile region (`churn.py:103-118`).
* The body cache evicts the session inserted first, not the least recent one
  (`observation.py:101-102`).
* After a restart of the agent a row's count goes on while its percentiles are those of
  the new window (`duration_history.py:216`).

### Fairness

`Fairness` is weak fairness of the scheduler's own steps, of a warm's return and of
the clock. The event loop runs a ready task; time passes; a warm's return is an
assumption on the upstream. The timeout of `execute` (`warm_executor.py:76`) is the
client's, which bounds each wait for data and not the whole: it ends a warm the upstream is
silent about, every exception is turned into a result, but a response that keeps trickling
is not cut off. For the same reason `WarmTimeout`, the longest a warm takes, is an assumption.
Nothing is assumed of the clients, so requests may never come or never end. `BusyEnds`
is checked under `UpstreamFairSpec`, which adds that every request in flight is
answered or breaks: the violation is then due to the relay and not to a silent
provider. The other modules state safety only: nothing
in the plugin, the learner or the detector waits.

## Proofs

The theorems hold for every value of the constants that meets the named assumptions:
`EconomicsAssumption`, `LeasesAssumption`, `RelayAssumption`, `HistoryAssumption`,
`TargetsAssumption`, `ProfilesAssumption`, `LearningAssumption`, `ChurnAssumption` and
`LogAssumption` are field constraints of the settings, say that the "not set" markers are
not members, and that a process has finitely many calls and agents;
`BoundedAssumption` that there is a dearest warm and a largest prompt;
`RequestsAssumption` that prompts, tools and conversations are sequences. TLC evaluates
them in the runs. What a theorem needs beyond them is an ASSUME of its own, listed here
with the reason; the instances of the passing runs meet it.

| Theorem | Property | Beyond the assumptions |
|---|---|---|
| `LeaseRelayProofs!TypeCorrect`, `WarmsLeaveNoTrace`, `BreakerHolds` | `TypeOK`, `WarmingIsInFlight`, `BreakerBound` | |
| `LeaseRelayProofs!RealRequestsWin` | `RealRequestWins` | `Overlap = FALSE` |
| `WarmGuardProofs!RelayImplementsGuard` | `ImplementsGuard` | `Overlap = FALSE` |
| `SpendingProofs!SpendingStored` | `WarmCostStored` | |
| `SpendingProofs!SpendingBounded` | `WithinBudget` | |
| `ReplayProofs!PinServesNext` | `PinIsForNextRequest` | `Abortable = {}` |
| `ReplayProofs!ReplaysLatest` | `WarmReplaysLatest` | `Overlap = FALSE`, `Unobserved = {}`, one session |
| `TimingProofs!NoCacheExpires` | `ServedInTime` | `RoundFits`, `Unresolved = {}` |
| `TimingProofs!SettingsServeInTime` | `ServedInTime` | `SettingsFit`, `Unresolved = {}` |
| `TimingProofs!DefaultsServeInTime` | `ServedInTime` | `DefaultSettings`, `Unresolved = {}` |
| `BackgroundTargetsProofs!TypeCorrect`, `RowsSummariseRuns` | `TypeOK`, `RowSummarisesRuns` | |
| `BackgroundTargetsProofs!RegistryCountsWork` | `RefcountsExact` | `Concurrent = FALSE` |
| `BackgroundTargetsProofs!HeadersAreTrue` | `HeadersTellWork` | `Concurrent = FALSE`, `OneSession = TRUE` |
| `CacheLearningProofs!TypeCorrect`, `TrustOnlyFalls`, `LearnedRestsOnRows` | `TypeOK`, `CrossedNeverRegainsTrust`, `LearnedHasEvidence` | |
| `CacheLearningProofs!ProfileIsEvidence` | `ProfileMatchesRows`, a part of `CurveMatchesProfile` | |
| `CacheLearningProofs!CurveAgrees` | `CurveMatchesProfile` | |
| `CacheLearningProofs!InstabilityIsNoEvidence` | `InstabilityRefinesNothing` | `ChurnDetection = TRUE` |
| `CacheLearningProofs!BoundsEncloseTTL` | `BoundsSound` | `Overlap = FALSE` |
| `ChurnLogProofs!TypeCorrect` | `TypeOK` | |
| `ChurnLogProofs!CausesAreTrue`, `AttributionIsSound` | `CauseNamesChange`, `AttributionSound` | `BodiesRead` |
| `ChurnLogProofs!StoredClaimsNoMore` | `StoredWithinSnapshots` | `BodiesRead` |

The violated runs and "Where the passing runs end" show that these conditions are needed.

### The relay

`Safety` is `Spec => []Safe`. `Safe` is the type invariant, `WarmingIsInFlight`,
`BreakerBound`, and the four facts they rest on: the lease being warmed exists, so do the
leases that requests and the fingerprint table name, and these have a cache. Without the
last ones the induction fails: `WarmReturns` must hit the lease it was sent for, and `Due`
reads the jitter of a real fingerprint. The breaker argument: `misses` and
`circuitOpen` are written together by a warm's result and by a request with cache
evidence; a warm is sent only while the breaker is closed, and nothing but its own
result can open it, so the count is at most one when the result comes.

`RealRequestsWin` adds `Serial`: a waiting request's lease is marked busy, and a session
has at most one request in flight. The second carries the first: an end clears the mark
of its own lease, and an invalidation that of leases of the session that sends; either may
clear the mark of another waiting request only if the session had two in flight.
`RelayImplementsGuard` takes `Safe` and `Serial` and shows, action by action, that a
step moves the mapped variables as a step of `WarmGuard` does or not at all.

`SpendingStored` rests on `CostsKept`: a row lags by at most one warm for each of its writes
that failed since the last one that did not, and by one more only if the lease is among
those that the tick under way has passed and will persist. It holds for any `MaxMissed`.
`SpendingBounded` rests on `BudgetKept`: a warm in flight
passed the gate, so what had been spent then was within the budget of the prompt the lease
had, and no prompt is larger than the largest.

`PinServesNext` rests on `PinsKept`: a pin carries the generation its lease had, and the
lease's next request consumes it; only a request whose end is cut short can leave an older
one, and the property names it. A body that breaks ends its request without
`on_request_end`, after which an older pin can survive. `ReplaysLatest` rests on
`SnapshotsKept`: the snapshot of a fingerprint is the latest request for it, and a lease that
may be warmed has no request waiting.

`NoCacheExpires` is a budget: a lease's age and the longest time until the scheduler
comes to it add up to less than its TTL. Time moves one into the other, an evaluation
that finds the lease not due pays for the next round, and whatever makes a lease
warmable again touches it. `RoundFits` says what that takes: a lease just touched is not
due within `Fresh`, and one not due lives for another `Round`, one interval and the
warms of all other leases. In `relay_timed` the deadline comes at age 8, `Fresh` is 7,
`Round` 3 and the TTL 12.

`Unresolved = {}` leaves out requests whose end is cut short: a failed one would then keep its
snapshot, and its lease could be warmed although nothing touched it.

`RoundFits` is about every lease; `SettingsFit` is the same in terms of the settings, three
inequalities for each TTL and jitter, and `SettingsGiveRound` shows that it suffices.
`DefaultSettings` is the instance for the defaults of `LeaseSettings`: with
`warm_fraction` 0.80, 3% jitter, TTLs of 300 s or more and a network margin of a minute at
most, the warms of all leases but one may take 51 s together. With the default warm timeout
of 30 s that is two leases; the program does not enforce it, and with three the deadline,
the jitter and a round add up to more than 300 s. The bound is safe rather than tight: it
counts every lease the process has created, although an invalidated one takes no time.

### The plugin

`RegistryCountsWork` rests on `Counted`: of the calls of one signature at most one is
between its classification and its end (`OneUnderWay`), and each count is the work in
progress plus the leaks (`Balanced`). `HeadersAreTrue` adds `Owned`: work in progress is of
the session whose identity is published. `RowsSummariseRuns` rests on a relation of
window, row and runs: the window holds the latest runs this process sampled, those that could
not be stored among them; the row's count is that of the runs recorded ever; and the stored
p90 is that of the window when it was last written. A failed write adds a sample and no
count, so the window may be fuller than the recorded runs fill it, never emptier; a row that
stays keeps summarising the samples it was written from (`SummaryStays`). The lemmas about
`Ordered` show how many samples lie above the percentile and below.

### The learner

`Sound` is types and the order of times. `Truthful` relates rows to the provider: a hit
was young when it was served, a miss old, a row's age is the distance of two touches up to
the latency, and the latest row of a fingerprint is its latest touch unless the touch is in
flight or its route in `unseen` (`TouchIsSeen`). `Extreme` says that lower and upper bound
are the extremes of the clean rows that reached the profile, from which `ProfileIsEvidence`
and `LearnedRestsOnRows` follow. `CurveAgrees` adds what the curve is:
`Survival` is a recursive function of the age, `NatRecursion` shows that such a function
exists and `SurvivalStep` that the curve obeys its equation; `SurvivalFacts` is then an
induction over the age (a least age at which it fails): the estimate is a fraction, below
one from the first death on, because those who die at an age are among those at risk. A
row whose profile update was lost is in the curve only, so the curve may fall before the
profile's upper bound; the two agree exactly when every clean row reached the profile
(`InStep`).
The inductions are written out as arguments about a least counterexample, as the induction
theorems of the library take an operator that the provers cannot instantiate.
`InstabilityIsNoEvidence` follows from `Sound`: the request's own churn row lies within the pair.

### The churn detector

`Typed` keeps the body cache within its bound with each session once and says that a row is
built from two events of a session; `PrimaryFits` says of the table of causes which flags
hold for the cause it finds. `BodiesRead` says that no system prompt is given as blocks and
every body fits the cache. `Traced` then adds that a cached body is that of its session's
latest event (`BodiesLatest`), so a row was found from the two requests it names or from
their digests (`IsTrueRow`). The rest is about two requests and no behaviour: the flags of
the contents are those of the digests, and the layer of a row is the first in which the
requests differ, whatever events the topology later finds the row for.

`StoredClaimsNoMore` counts: in the table of one session (`OfSession`, a recursive function
like the curve) the pairs of a window are the neighbours (`NeighbourPairs`), what the store
says of a pair is within what the snapshots say (`PairCompared`), and what holds of every
pair holds of the counts (`ReportsCompared`), since a subset has no more elements.

### Only model-checked

* Liveness: `DueLeaseServed`. Fairness and ENABLED are beyond this
  prover.
* The violations, which are single behaviours.

Every safety invariant and action property that a passing run checks is stated by a theorem.

Records that other operators extend (`ClassifyHashes`, `Classify`, `ChurnRow`,
`TopologyFromStore`) are written out field by field, as the prover does not know `@@`.

## What is left

The plan is carried out: core, plugin, learner and detector are modelled, checked and
proved. Two things would go further: `RoundFits` with a round that counts the leases still
warmable instead of all, and the conditions of the churn theorems for system prompts given
as blocks, which the detector does not read.

Not modelled, and why: the command line and the dashboard read the store and show it;
the fake provider and the benchmarks are test code; plugin assembly and settings parse
and register; the bytes and headers of the proxy, the rewriting of bodies per provider
and the mapping of usage fields to token counts are conversions of data that no
property distinguishes; the schema migration of the store is SQL; `complete()` of the
lease manager has no caller. `PROJECT.json` lists every component with its status.
