# A TLA+ development for subbier

subbier is a desktop daemon that serves several Codex and Claude subscriptions
behind one local proxy. It keeps their OAuth tokens fresh, polls how much of
each allowance is used, picks a subscription for every proxied request, and
publishes a snapshot to a menu bar app, a TUI and a CLI. This directory models
the library `crates/libsubby`, and what the CLI, the TUI and the menu bar app
add to it, checks the models with TLC, and proves the most important results
with TLAPS.

## 1. Inventory

| Component | State | Operations | Talks to |
|---|---|---|---|
| Router (`balance/mod.rs`) | settings, pin, `current` per provider, quarantine map, strategy cursors, under one mutex | `select_in`, `on_failure`, `exhaust`, `lift_if_recovered`, `pin`, `set_settings`, `clear_*` | called by every proxied request and by the engine; awaits the usage cache between two critical sections |
| Strategies (`balance/strategy.rs`) | round-robin's cursor | `pick` | router |
| Usage cache (`usage/mod.rs`) | one entry per account: reading or failure, TTL, failures | `get`, `refresh_all`, `observe`, `peek` | providers; requests, engine |
| Token manager (`auth/mod.rs`) | map account → shared `OnceCell` | `ensure_fresh`, `retire`, `recover_adopted` | token endpoints, the vendor's own store |
| Proxy (`proxy/`) | registry of subs, metrics, last error, model catalogue | `forward_with_failover`, `attempt`, streaming | router, token manager, cache, transcripts; sends `TokensRefreshed` to the engine |
| Transcript store (`store/transcripts.rs`) | turns, placements, byte total | `remember`, `chain`, `placement`, `place`, `evict` | codex requests |
| Engine (`engine.rs`) | records, config, login, alerts, timers | commands, events, poll rounds, config watch, persistence, proxy lifecycle | everything; the only writer of `subs.json` and `config.kdl` |
| Metrics (`proxy/metrics.rs`) | counters per sub and pool | guards, hourly buckets, `forget` | requests, engine |
| Parsers, config text, derived figures | none | pure functions | engine |
| Discovery (`auth/discovery.rs`, `store/creds.rs`) | none of its own; the vendors' stores, `subs.json` | `discover`, `reread`, `save` | engine; codex and Claude Code write the stores |
| Sign-in (`auth/mod.rs`, `auth/pkce.rs`) | the engine's task and its handle, a fixed port | `begin_login`, `finish_login`, the callback server | browser, engine |
| History (`store/db.rs`, `history.rs`) | a queue, two tables | record, prune, query, resample | engine and proxy write, `watch` reads |
| Service (`service.rs` of both crates, `login_item.rs`) | the plist, launchd's job, the port | install, start, stop, restart, uninstall, `reconcile` | launchd, the menu bar app, `config.kdl` |
| TUI (`tui/`, `report.rs`) | cursor, hidden accounts, endpoint, page, range | keys, the live feed, the history feed | `/status` or an engine of its own; `state.db` |
| CLI, macOS app | view state | commands, snapshots | engine's `Handle` |

What is hard: a selection spans an await during which other requests and the
engine change the router; tokens exist in four copies (registry, record, disk,
vendor's store) that are updated in different orders; a refresh is shared by
callers that may be dropped at any await; readings arrive late, fail, or lag
what the provider enforces; the engine's loop blocks on its own polls while
events queue up; a crash may fall inside a debounce. What makes each part
correct:

* **router** - a request gets a sub of its own provider, inside its pool, not
  quarantined; quarantine starts and ends only for cause; every request is
  answered; `auto_switch` off keeps the identity;
* **token manager** - one refresh per account at a time, nobody waits for ever,
  no needless rotation, `needs login` only when it is the truth;
* **engine** - what it learns reaches the disk; events, hand edits and logins
  are not lost;
* **bodies** - what a client reads does not depend on how the bytes were cut,
  every token is counted once, a request costs a bounded number of calls;
* **files** - what the menu writes loads as what was meant, what loads is what is
  in force, and an account has one record with its own tokens;
* **screens** - no figure, label, line or rate says more than was read;
* **usage cache** - newer news wins, backoff is monotone; **transcripts** - a
  replayed chain is whole, the byte total is exact, the cap holds.

`PROJECT.json` lists every component and, under `hazards`, each place where the
code is exposed, with the property that covers it.

## 2. Modules

| Module | Models |
|---|---|
| `Allowance` | readings: `effective_pct`, `is_exhausted`, `exhaust_until`, recovery, a pool's ceiling |
| `Strategies` | the four rankings, as what it means to be the pick |
| `Router` | the router's state, requests in their stages, the engine's calls into the router, the clock |
| `RouterProofs` | theorems about `Router` |
| `Credentials` | the tokens of one account: provider, vendor's store, four copies, `TokenManager`, requests, the engine's rounds, restarts |
| `Forwarding` | the cost of one request: failover, refreshes, resends, the 401 retry, a body had again |
| `Streams` | one upstream answer on its way to the client: framer, aggregator, rewriting, the three bodies |
| `Requests` | the gate on key and path; Responses and Messages bodies as they are rewritten |
| `Catalog` | GET /models: the cached list, the fetch through accounts, the codex version |
| `Ancestry` | turns, `walk` and `assemble`, as pure operators on a table |
| `Transcripts` | the transcript store, and the codex requests that read and write it |
| `Conversations` | what the store promises: an abstract store that forgets at will |
| `TranscriptsProofs` | theorems about `Transcripts`, its rows and their bytes, and that it implements `Conversations` |
| `Sums` | lemmas about sums over finite sets, about selections from sequences and about flattening, and the inductions and recursions they rest on |
| `Selections` | what a filter keeps of a sequence |
| `UsageCache` | entries, TTL, backoff, overlapping polls, observed headers |
| `Readings` | the usage bodies and rate-limit headers, as they become a reading |
| `Rounds` | a usage round: health, alerts, when a signed-out account is looked at again |
| `Metrics` | gauges, token rings and the guards that hold them up |
| `Activity` | the proxy watch, its signature, the publish debounce |
| `Engine` | the configuration file, its copy in memory and everything that caches a piece of it |
| `ConfigFile` | `config.kdl` as text: `Config::parse`, `write::set` |
| `Discovery` | the vendors' stores, adoption, the re-read, `subs.json` |
| `SignIn` | the engine's task, the flow, the callback server and its port |
| `Figures` | a snapshot's labels, plan weights, bands, projections and pools |
| `Charts` | the tables of `state.db` and the series a chart makes of them |
| `Watch` | the TUI, over `Charts` |
| `Service` | the launch agent, launchd, processes and their port, `subbier service`, the app's `reconcile` |
| `MCRouter`, `MCCredentials`, `MCTranscripts`, `MCEngine`, `MCReadings`, `MCService` | instances for TLC, one module each |
| `Parts` | `Engine`, `UsageCache`, `Metrics`, `Rounds`, `Forwarding`, `Credentials`, `Figures`, `Catalog`, `Discovery` and `SignIn` side by side, with what is assumed of their constants |
| `EngineProofs` | theorems about four machines of `Parts`: `Engine`, `Credentials`, `SignIn`, `Discovery` |
| `MetricsProofs` | theorems about `Metrics` |
| `PartsProofs` | theorems about four machines of `Parts`: `Forwarding`, `UsageCache`, `Rounds`, `Catalog` |
| `Texts` | `Streams`, `Readings`, `ConfigFile`, `Requests`, `Service` and `Watch` side by side, with what is assumed of their constants |
| `StreamsProofs` | theorems about `Streams`, a machine of `Texts` |
| `TextsProofs` | theorems about three more machines of `Texts`: `Service`, `Readings`, `Requests` |
| `MCParts`, `MCTexts`, `MCFair` | instances for TLC of machines that do not interact; `MCParts` gives `Parts` its values, `MCTexts` gives `Texts` its |

Who uses whom: `Router` is built on `Allowance` and `Strategies`, `Transcripts`
on `Ancestry` and implements `Conversations`; `Readings`, `Figures` put their
results to `Allowance`'s tests. The other machines meet at the edge: `Forwarding`
takes any account `Router` may select, `Rounds` any answer `UsageCache` and
`Credentials` may give, `Engine` edits a file that `ConfigFile` shows to be read
and written as it assumes.

### Router

`Decide` is the critical section before the usage round (balance/mod.rs
689-802), `UsageRound`/`Rank` the await and the one after it (804-861). `Ask` is
the snapshot of the registry taken before either, so a request carries
`usable`, `admitted` and `load` that may be stale when they are used. `Start`
looks the sub up again. `Fail`, `Observe` and `Finish` end or interrupt the
attempt; `RecordUsage`, `SetSettings`, `Pin`, `ClearExhaustion`, `ToggleSub` and
`RemoveSub` are the engine's. `Tick` moves the clock, and quarantine is swept
where the code sweeps it (`Decide`, `LiftIfRecovered`), not when time passes.
The usage cache is reduced to the last reading `peek` would yield. A request's
attempts are separate rounds of the same process: the bound on attempts in
`forward_with_failover` is `Forwarding`'s. The reading that
comes with a failed request, and the score of each candidate, are arbitrary: the
model therefore also covers a provider that contradicts itself.

### Credentials

A token is a generation number, the provider honours only the newest, and a
refresh either rotates, is refused, or gives no answer (with or without having
rotated). `CellFor`, `Answer`, `Resume` are `ensure_fresh` (enter the map, the
driver's call, waking up and `retire`); the first in a cell's queue drives it.
`Attempt` ... `Resend` are `attempt` in proxy/codex.rs, whose claude.rs twin has
the same steps; `Cancel` drops a request's future. `PollRound`, `Recheck`,
`RoundRefreshed`, `Poll`, `PollAgain` are `poll_round` with `recheck_signed_out`,
`refresh_tokens` and `retry_unauthorized`: the engine does nothing else until the
round is over, so `HandleTokensRefreshed` waits. `PersistSubs` clears the debounce
and may fail, which is noted and not tried again (engine.rs:1602): `unsaved` marks
it, and from then on memory may stay ahead of the disk until something else makes
a write due. A refresh that returns the same refresh token is not modelled (the
provider always rotates, the case all the care is for), nor is an account without
a refresh token; the sign-in flow is `SignIn`'s.

### Transcripts

`rows` and `placement` are the two tables, `older` the order of the rowids,
`bytes` the running total, and `said` is a history variable that no code reads.
`Insert` is `remember_at` with `evict`, `Chain` is `chain_at`, `Placement` and
`Place` are their namesakes. Every call runs on a blocking thread and reads the
clock before it takes the mutex, so a call issued at `since` is stamped anywhere
in `Stamp` (`since..now`), and a request that was dropped (`gone`) still has its
call executed. SQL statements that fail are part of `Evict` (it ends where it
is), `Chain` (the first turns of the walk are restamped) and `Remember` (nothing
written). A request walks through `prepare` (chain, placement), `Select`, `Place`,
the upstream, `Remember` and `Tell`; aggregated and streamed answers take the same
steps, since both await `remember` before the frame that names the turn. The
account that is selected is arbitrary: how it is chosen is `Router`'s business. A
placement whose account has left the registry is kept as a hint that matches no
selection. A text stands for a turn's input and output together. A panic
inside a blocking call is not modelled.

`Conversations` accepts turns and answers a request only with a sequence of turns
from a root to the head, defined by `Descents`, oldest first and on its own,
not by the walk that `Ancestry` translates. The mapping is `said` for `said` and
each request's `spliced` for its `reply`.

### Forwarding

One request walks `Select`, `Refresh`, `Send`, and what may follow: a transport
that dies and is resent, a 401 with a refresh and a second send, an answer that
dies in its body and is had again. `changes` bounds what the engine does
meanwhile. The mark `resent` belongs to an attempt, so a request that dies in its
body and is then used up on the resend may pay on one more account; one whose
accounts all vanish is told 429. `CostIsBounded` counts the calls, `StaysInPool`
compares every account asked with the pool as it was when the request came in.

### Streams

Bytes are CR, LF and whole lines, because nothing else decides anything. `Chunk`
cuts them anywhere; the framer's `scanFrom`, its look-back and the aggregator
are the code's, `Eof`, `Break` and `HangUp` the three ways an answer ends.
`ChunksDoNotMatter` compares the frames with the events that a line-by-line reader
finds in the bytes that have arrived, `CountedOnce` and `AnswerIsWhole` what was posted
and told with what those events say. An index an item does not state, or two items
under one, are outside `AnswerIsWhole`: the code fills the first in and keeps the
later of the two. `remember` awaits the store and swallows an error or a panic of it
(proxy/codex.rs:759), so `stored` is `kept` or `lost`: what a client is told of is a
turn the store has answered for, and one that was lost makes the next request in its
chain a 400.

### Requests

A body is a function from keys to values; all spellings of an input, of a system
prompt, of a key and of a path are enumerated; an input may be an array, a text,
null, missing, or a bare object. A bare object is one item where the turn is kept
or chained (proxy/transcript.rs:52); the body that begins a conversation is
normalised only where its input is an array or a text, so there it goes as it
came, and `Accepted` lets it. `RequestsAreUnderstood` states that what is sent
holds everything that was said, once, in order, without what the Codex backend
refuses, and that no request passes the gate without the key. A path names the
same model under a pool as bare, but for a pool called `models`.

### Catalog

Time is in units of five minutes. `Refresh`, `Answer` and `Retry` go through the
accounts as `fetch_catalog` does, over one cache, router and registry that others
change. No route of /models looks at the pool of its path (see hazards).

### UsageCache, Readings, Rounds

`UsageCache` has time in quarters of a minute and a reading is the moment the
provider computed it: fetch and store are separate steps, `observe` and
invalidation fall in between. `Peek` is what the gate of a pool takes
(proxy/mod.rs:155), an entry of any age; only the engine's rounds keep it young,
so `Round` is one of the callers and begins every `Interval`: the poll interval
and the longest handler the loop may be in (a late tick is delayed,
engine.rs:1901). That there is such a bound is assumed: the calls over the network
have timeouts, but `security`, which reads the keychain (auth/discovery.rs:222),
has none, and while it waits for the user no round begins. `LeaveOut` and `TakeIn`
are an account that is disabled or signed out and comes back: its entry stays,
`settled` is false until the next round has ended, and a peek before that may hand
out a reading of any age.
`Readings` enumerates what a provider may write of an account (windows of 5, 168
and 27 hours, missing and malformed parts) and takes it through the parsers and
the cache. `Rounds` is what the engine makes of answers: alerts are crossings,
health says what the last answers were. An alert may be missed by a reader of the
latest-only channel; it is the engine's side that is modelled.

### Metrics, Activity

`Metrics` counts attempts in and out of populations that a removal forgets while
guards live on, over a bounded ring of hourly buckets and ticks that come late.
`Activity` has the signature of the half-second watch: it counts exhausted
accounts, it does not name them. Two changes that cancel in one half second are
excluded from `Lapse` and listed as a hazard.

### Engine, ConfigFile

`Engine` keeps one bit of the mtime and writes in three steps (read, rename,
record), between which the user may edit. `raced` is a history: an edit met a
write, or a write mended a file that did not load, and so its mtime stands for
edits that were never loaded. `Start` and `Build` are two steps as well: the
engine loads the file first (engine.rs:622) and records the mtime it finds later
(647), so an edit in between is `raced` too. A save of `subs.json` may fail.
Discovery, removal, the registry, the listener and the snapshot are derived or
cached as in the code. It assumes that a write sets a field and a file loads as
what it says: `ConfigFile` checks just that on documents of every shape (no
setting and no account is named twice).

### Discovery, SignIn

`Discovery` interleaves the vendors' writes with subbier's reads: codex has one
file, Claude Code two stores that `discover` and `reread` open in opposite orders.
The histories `torn` and `lost` mark the accounts for which a mixture was read, or
a write of `subs.json` failed (it is not tried again, engine.rs:1603), and
`RecordsAreTheirOwn` speaks of the others. The file has no mark of who is signed
out (`Lasting`): after a start that is learnt anew. A store that cannot be read has nothing,
nor has the source of an account that is not due to be looked at again. `SignIn`
has the events of a task that do not name it, an abort that lands late and a port
that is free only when the server has let go; `crossed` marks a handle dropped for a stale event.

### Service

A command of `subbier service` is a plan of steps; processes start, look at the
port, publish and die in between. `drift` marks the histories in which nobody
could know better: edits during a command or without an app, apps that die before
they settled, an install or uninstall that failed. Two behaviours the model has
and no property forbids: install writes the plist before the setting, so an app
that publishes in the gap takes the file away; and an engine without a port is
invisible to the next one, so two may run. `reconcile` runs with each snapshot
(`Publish`) and with each click on a tab (`SelectTab`), which takes the newest
snapshot there is. That of an app whose engine has ended (`lingering`) may be from
before the setting moved: its click then puts back, or takes away, a file that
nobody looks at again. This, too, is `drift`, and a thing to know of the code.

### Figures, Charts, Watch

`Figures` has the accounts come, go, be renamed, change plan and be polled.
`Charts` is the writer's queue, the tables, and `resample` with `resample_held`
and `rate`: a mean is a sum and a count, a rate two integers. `Watch` adds the
engine the TUI looks at, the keys, and the answers that arrive after the range,
the endpoint or the accounts on the screen have changed. Three behaviours worth
knowing: `hidden` holds ids that a restarted subbier numbers afresh
(tui/app.rs:169); a chart has two points per column, which for an hour are more
than there are one-minute buckets, so steady traffic is drawn as a comb, although
tui/app.rs:15 calls the buckets finer than any pane; and a TUI with an engine of
its own is not told when that ends, so nothing says `not updating`.

## 3. Runs

| Run | Question | Bounds |
|---|---|---|
| `MCRouter` | do the router's safety and action properties survive two interleaved selections? | 2 subs, 2 requests (symmetric), 2 arrivals, 2 engine steps, 1 tick, 2 readings |
| `MCRouterFair` | is every asked request answered? | same, three other strategies, 1 engine step |
| `MCRouterFrozen` | does `auto_switch = false` keep the identity? (violated) | 2 subs, 2 requests |
| `MCFair` | is every waiter released, does a port come free, does a snapshot catch up? | 2 requests and the engine, 1 rotation; 2 sign-ins on 1 port; 1 attempt on 2 accounts, watched |
| `MCParts` | do the engine and its parts keep their promises? | one machine at a time, see below |
| `MCTexts` | is what is read, written and shown true? | one machine at a time, see below |
| `MCCredentialsLogin` | is `needs login` only ever the truth? (violated) | 1 request, 2 rotations, 2 events |
| `MCCeilings` | does a ceiling hold under headers? (violated) | 1 account at 0, 90 or 120 %, 1 change |
| `MCHandEdit` | does a hand edit take effect? (violated) | 1 account, one edit against one write |
| `MCStop` | has a service that is reported stopped stopped? (violated) | 2 processes, 4 things done |
| `MCTranscripts` | does the byte total stay exact, the cap hold, and a turn survive its own write? | 2 ids, 2 requests (symmetric), texts of 1 and 2 bytes, cap 2, ttl 0, 1 tick, walks of 2 |
| `MCTranscriptsChains` | is only a whole conversation spliced; is a turn written before it is told? | 3 ids, 1 request, a text that is too large, 1 key, cap 2, ttl 1, 2 ticks, walks of 2 |

`MCParts` and `MCTexts` hold machines that do not interact. A behaviour has one of
them at work, its `focus`; the variables of the others stay in one state, in which
their properties hold. So each property is checked in all behaviours of its
machine, and one run serves them all; `MCFair` does the same for liveness.

| Machine | Run | Bounds | Properties |
|---|---|---|---|
| `Engine` | `MCParts` | 1 account, edits of every kind, files that do not load | `ProxyAgrees`, `SnapshotIsCurrent`, `MemoryFollowsFile` |
| `UsageCache` | `MCParts` | a request and the rounds, 12 quarter minutes (TTL and interval 4, deadline 2, backoff 2, 4, 8, Retry-After 5), 2 failures | `PollsArePaced`, `StalenessIsBounded` |
| `Metrics` | `MCParts` | 2 attempts (symmetric), 2 ticks, 2 posts, 1 removal | `CountersAgree` |
| `Rounds` | `MCParts` | 1 account and window, 3 events, 1 hour | `AlertsAreCrossings`, `HealthIsHonest` |
| `Forwarding` | `MCParts` | 2 accounts, 1 resend, 1 change | `StaysInPool`, `CostIsBounded` |
| `Credentials` | `MCParts` | 1 request and the engine, 2 rotations, 1 event, 2 cells | `DiskCatchesUp`, `NoNeedlessRotation` |
| `Figures` | `MCParts` | 3 accounts, 4 changes, 1 hour | `FiguresAreHonest` |
| `Catalog` | `MCParts` | 2 accounts, 2 requests (symmetric), 1 change, 1 tick | `CatalogIsSparing` |
| `Discovery` | `MCParts` | 2 accounts, one with an account id, 2 moves of the vendors | `RecordsAreTheirOwn` |
| `SignIn` | `MCParts` | 2 sign-ins on 1 port | `HandleReachesFlow` |
| `Streams` | `MCTexts` | answers of up to 3 frames in chunks of up to 4 | `ChunksDoNotMatter`, `ClientSeesItsChain`, `AnswerIsWhole`, `CountedOnce` |
| `Readings` | `MCTexts` | 0 and 120 %, 1 change | `ReadingIsHonest` |
| `ConfigFile` | `MCTexts` | a document and a write of every kind, two that do not load | `FileMeansMemory` |
| `Requests` | `MCTexts` | conversations of up to 3 turns | `RequestsAreUnderstood` |
| `Service` | `MCTexts` | 2 processes, 4 things done by the user | `PlistFollowsSetting` |
| `Watch` | `MCTexts` | 2 accounts, 3 routes, 3 moves, 1 jump of the clock | `ScreenIsTrue` |

Why the bounds are enough to meet the hazards: two requests suffice for any
pair of critical sections to interleave, and the interference between them is
up to two engine steps, one for each half; two subs make a switch visible, and
the readings are one with room and one full window beside a part-full one with
a later reset, so that both verdicts, both ways of computing a quarantine's end
and its lifting occur. One tick lets a quarantine end and a blind one begin.
Two rotations are what it takes for a caller to hold a token one behind while
another refresh is on the wire. In the store, two ids make a cycle and a
replacement, three a walk that is deeper than `MaxDepth` = 1 allows and a hole
between head and root; a cap of two bytes evicts one short turn or two, and a
tick makes a stamp late and a row expire. The theorems of section 5 cover what these
bounds do not. In `Engine` one
account suffices, since no handler relates two; in `Figures` three make a group of
two inside a provider with a third beside it. `Streams` enumerates every cut. Three
moves in `Watch` are a request or a poll, a query and a key: a stale answer drawn
under another range. In `Activity` one attempt suffices: what the watch may miss
begins and ends, and is undone by a quarantine that runs out, between two looks.

`CHECK_DEADLOCK FALSE` stands where a behaviour may stop: the budgets of the
instance are spent, or nobody asks; an account that is signed out and was not
adopted waits for the user.

### Fairness

`MCRouterFair` assumes weak fairness of `Decide` and `UsageRound` per request: a
critical section has no await, and a usage round has a deadline
(`usage_deadline`) after which it answers with failures. `MCFair` assumes, for
`WaiterReleased`, weak fairness of `Answer` and `Resume`: token requests carry
`TOKEN_REQUEST_TIMEOUT` and the runtime polls woken tasks. A hang-up needs no
fairness, and may happen any number of times: that waiters are released all the
same rests on the fair hand-over of the cell's permit. `WaitingSpec` leaves out
the steps no waiter depends on, which only start waits or, like a restart, end all
of them. `PortComesFree` assumes that the engine handles its queued events, that
a server that was told to stop does, and that a flow goes on (its browser step has
a timeout); `ActivityShows` that the watch ticks, events are handled and the
debounce ends. `MCHandEdit` assumes that the engine's loop and the menu's write go
on (`Loop`, `Start`), so its counterexample is not an engine that stopped.

## 4. Findings

Five places where a document of the code and the code disagree, each shown by
a run that expects the violation:

* **Frozen identity** (`MCRouterFrozen`, balance/mod.rs:439 and 855): with
  `auto_switch` off, two requests racing through the ranking both set `current`.
* **Needs login** (`MCCredentialsLogin`, engine.rs:260 and 1233): a round polls a
  clone of the record while a newer token waits in the event queue, spends the
  dead refresh token and marks the account signed out.
* **Ceilings** (`MCCeilings`, provider/claude.rs:258 and 332): headers that
  claim no percentage are stored as 0 %, in place of a polled 90 %, and the pool
  admits the account until the next poll. It takes a five-hour window that is allowed
  and has a reset: one without a reset is absent, and unknown to the gate, which is
  then right to admit (balance/mod.rs:342); a window with one is a known 0 %.
* **Hand edits** (`MCHandEdit`, engine.rs:53 and 1219): a menu write within the
  watch interval records the hand edit's mtime as its own, and the edit is in the
  file but never in force.
* **Stop** (`MCStop`, libsubby/src/service.rs:129 and subbier-macos/src/main.rs:125):
  the engine takes SIGTERM, the app's main thread does not, and `stop` reports a
  process stopped that lives on without an engine.

Three more without a run of their own: a reading of exactly 100 % is excluded by
a ceiling of 100 (`p < max`), although `PoolGate` says 100.0 never excludes
(balance/mod.rs:330 and 347); a pool is to accept everything the bare proxy
does (proxy/mod.rs:835), but under one called `models` the model of a path is all that
follows the pool's name (proxy/mod.rs:823); and a touch restamps a root in whole seconds, so
within one second eviction may take the root of a live conversation before a dead
turn (store/transcripts.rs:345 and 391).

Behaviour worth knowing that no document contradicts: a later failure without a
reading shortens an existing quarantine (balance/mod.rs:499); a failed fetch makes
an over-ceiling member admissible again; the usage round may force a refresh of a
good token because of a cached 401 (engine.rs:1386); a rotation whose answer is
lost costs the only live token (auth/mod.rs:556); two waiters may store
successive grants in the wrong order; `subbier watch --json` and `login` run an
engine beside a server, although login.rs:34 says `subs.json` has one writer. The
proof of `MemoryFollowsFile` turned up one more: a menu write that sets right the
value for which a hand-edited file did not load (engine.rs:1220) records that file's
mtime as its own, so the other edits in it are not loaded until it is touched again.

## 5. Proofs

Every theorem is about the modules the runs check, for any value of their
constants that meets the assumptions below; no bound of an instance is one of
them. Where a module has a bound for TLC (`MaxPosts`, `MaxGeneration`), it is a
guard like any other.

| Module | Proves |
|---|---|
| `RouterProofs` | `TypeOK`, `CurrentIsRoutable`, `ServedWithinRequest`, `NoQuarantinedSelection`, `QuarantineHasCause`, `QuarantineEndsForCause` |
| `TranscriptsProofs` | `ToldIsRemembered`, `ConversationsWhole` (the refinement of `Conversations`), `BytesExact`, `RememberHolds` |
| `EngineProofs` | `ProxyAgrees`, `SnapshotIsCurrent`, `MemoryFollowsFile`, `HandleReachesFlow`, `RecordsAreTheirOwn`; of `Credentials`: `TypeOK`, `OneRefreshInFlight`, `NoNeedlessRotation`, `DiskCatchesUp` |
| `MetricsProofs` | `CountersAgree` |
| `PartsProofs` | `StaysInPool`, `CostIsBounded`, `PollsArePaced`, `StalenessIsBounded`, `HealthIsHonest`, `AlertsAreCrossings`, `CatalogIsSparing` |
| `StreamsProofs` | `ChunksDoNotMatter`, `CountedOnce`, `AnswerIsWhole` |
| `TextsProofs` | `PlistFollowsSetting`, `ReadingIsHonest`, `RequestsAreUnderstood` |
| `Sums` | the lemmas on sums, listings, selections and flattening these use |

### Arguments

**Router.** The inductive invariant adds what a request carries between its
steps: `admitted` and `live` lie within the usable subs of its provider and inside
its pool. Without it the second critical section could pick anybody. The proof
has one step per action; what `Decide` and `Rank` do is stated as lemmas, and the
arithmetic of windows is hidden behind a lemma that `ExhaustUntil` is a natural
number. The two action properties (`EntersWithCause`, `LeavesWithCause`) compare the
quarantine map before and after each step that reaches it, through the three
operators that write it.

**Credentials.** That one refresh is on the wire at a time is not inductive. The
strengthening is `PendingInMap`: a caller that waits for a cell without an
outcome finds that very cell in the map, so two pending callers wait for one
cell, whose queue has one head. It survives `retire` only because `retire`
leaves a later cell alone. `NoNeedlessRotation` needs `SpendsSpent` besides: the
reason a request had for its refresh (expired, or a 401 on that very token)
still stands whenever the answer comes, and where another caller shares the
cell, it is the head of the queue whose token is spent.

**Transcripts.** The invariant adds `Agrees` (a row says what was last said under
its id, so a table with rows missing is a part of the history) and `Holds` (a
request has a conversation only between its lookup and its selection, so it is
answered once). `WalkDescends` is the heart of it: a walk that ends at a root, read
backwards, is a descent from that root in the history. For the bytes, the rows are
a finite set whose bytes are a sum; replacing, expiring and evicting take a part of
it away, and `SumWithout` says by how much the total falls. `RememberHolds` needs
besides that no row alone is too large for the store and that `older` orders the rows:
then eviction is done before it comes to the newest one.

**Engine.** `EngineInv` is what is on disk (`OnDisk`), and that the engine is stopped, or
has loaded a file that its start will work by (`AtStart`), or that things are in
force (`InForce`): the registry is that of the records, the listener that of `bind`, the
snapshot that of the state. In the middle of a menu write (`InToggle`) they differ; `Pending` and
`Memory` say which part is behind. `ProxyAgrees` also needs that no two records have
one key, or adoption would number an account twice.

**Sign-in.** `HandleReachesFlow` becomes inductive once it is said that only a flow that
was given up is aborted and the one in hand never was (`GivenUp`), that the one
in hand, once over, has its `finished` event in the queue (`OverIsAnnounced`), and
that a `finished` event is the last of its flow (`FinishedIsOver`). An event handled as
the wrong flow's breaks just this, and sets `crossed`.

**Discovery.** Whose a key is has to be known wherever a token is on its way into a
record: in codex's file (`Stores`), in the first half of a look round
(`LooksAround`: the profile read is that of the wallet to be read, or `torn`), in the
answers gathered by a re-read and the wallet it has open (`LooksAgain`). Then
each record is `Owned`, and the list of them keeps its keys apart through a
merge, a sign-in and a recovery (`OwnedList`).

**Metrics.** The table that an account's removal takes its counters out of never
shares a place (`Placed`), so a guard, which keeps its places, holds just the
counters of the populations it belongs to, until one of them is forgotten
(`Guarded`). A gauge is then the number of counted guards that hold its place
(`Gauged`), and no saturating subtraction ever saturates. A post is numbered and
is not ahead of the clock or the removals (`Numbered`); a ring holds, once each, all
that were posted to its population within the hour as long as it has room
(`Kept`): when a push throws one out, there were more recent posts than
`MaxTicks`, by a count of the two. The hour's tokens are a sum over the ring, the
property's one over the posts; `SumMoved` carries one to the other.

**Forwarding.** `ForwardingInv` says of each phase of an attempt what it can have
cost so far (`Costs`, over `Before`), and of a request that its order was settled at
its first selection, from the pool as it was. **UsageCache.** An entry is the figure
of the last poll that succeeded and the failures since; a poll under way is no older
than its deadline (`FigureIsRecent`, `FailureIsHeld`). For the gate, which takes it at
any age, the next round is due within the interval (`RoundIsTimed`), and what is in
the entry was good when the last round that is over began (`FigureWasGood`). **Rounds.** A record
`Remembers` its events: its figures are those of the last answer that had some, and
its error is the failing run under way, counted from its start; what is `Shown` is a
reading of such a record. For alerts, the band of a window is that of its last
reading, and the alerts raised for it are those its readings call for (`Announced`).
A reading adds at most one, since the listing of its windows has each once.
**Catalog.** A request `InTurn` has asked no account that is still to come, and the one
whose turn it is once or twice, by whether the refresh was forced. That needs
each account to be in the list once, which follows from the ids of the registry
(`OrderedOnce`): the current account is put first and left out of the rest.

**Streams.** What an answer means is said by a reader that goes line by line
(`Reference`), and the framer and that reader are led along the same bytes
(`Scanned`, `AtSeparator`): where the framer takes a frame out the reader has
nothing in hand, and where it finds no separator the reader tells no event, and
the data it has gathered are those of the bytes in the buffer. So the unterminated
frame begins where the reader had nothing in hand, has no separator in it, and is
looked at again from three bytes before its end (`Pending`); fewer would
lose a CRLF CRLF cut before its last byte. What a Claude stream counts is told
by the events read so far (`Counting`): before the first `message_stop` nothing is
posted and the running totals are the last ones stated; afterwards it is posted,
and those totals can change no more. What an aggregator holds is told likewise
(`Gathered`): while no event has ended the answer, its map has the finished items
under the indices they state, and so its values are in their order, for the k-th
key is the one that k - 1 are smaller than (`KthIs`).

**Service.** The one change that can be under way is in somebody's hands: unless a
command failed half-way or was overtaken (`drift`), the plist agrees with the
setting (`Match`) or an app that has not looked or published yet will make it
(`Due`), and a command between its steps owes exactly the part its remaining steps do
(`Planned`). A menu that looks acts on its own memory of the setting, which is
right as soon as it has looked, and what it shows is that once it has published
(`Memories`), so a click on one of its tabs does what its last snapshot did.

**Readings.** A body is one of the ways an account's figures can be put down
(`ClaudeBodies`, `CodexBodies`); each of the ways is read back by one lemma, and a
list of limits is read in any order because only the first of a kind is taken.
`Understood` is the property as a relation of the reading to what was heard.

**Requests.** The invariant is the property and that the store holds what was said.
A body is prepared by three insertions and a removal, so each of its keys is
followed on its own (`ReadiedIs`); normalising an item keeps its gist and does
nothing the second time (`NormalizedItem`), and so for an input in each of its
spellings (`LeftWhole`), with the earlier turns before it or without. The system
prompt is a selection that moving a block leaves alone (`SelectedMoved`); of the
betas the first i tokens are merged once each (`Merged`); and the segments of a path
stand two places further on under a pool (`Shifted`).

### Assumptions

| Assumption | Why the code justifies it |
|---|---|
| those of `Allowance`, `Router`, `Credentials`, `Transcripts` | limits are natural numbers, `None` and the names of states are no ids, and what rows are made of is finite |
| `LadderAssumption` | `UsageCache::BACKOFF` does not descend, and its second rung is no shorter than a healthy account's TTL |
| `AttemptAssumption` | subs and pools are two maps in `Metrics`, so a key is never both; a process has finitely many requests |
| `ReadingAssumption` | an account has finitely many windows; a missing figure is not a figure, nor a missing band a band |
| `IdentityAssumption` | about the vendors, not the code: what codex and Claude Code keep of an account (its id, its organisation, its address) gives the key that its provider's answer to a sign-in gives. `account_key` rests on it: otherwise adoption and sign-in make two records of one account |
| `RoundAssumption` | the engine's rounds are one of the callers, and begin no more than `Interval` apart (see UsageCache above) |
| `StreamsAssumption` | about the model's bytes, not upstream's: a byte other than CR and LF stands for a whole line, so no two are side by side |
| `ServiceAssumption`, `ReadingsAssumption` | there is a process id; percentages are numbers, and what stands for nothing is none of them |
| `RequestsAssumption` | an array is neither null nor a string (JSON); no pool has an empty name, no bare path begins with `/pool/`, and the key is not empty, as the parser and the router have it |
| those on edits, keys, flows and targets in `Parts` | `None` stands for an absent value, and is none |

TLC evaluates each of them in a run.

### What stays with TLC

Liveness under fairness and ENABLED are beyond the provers at hand, so
`EveryRequestAnswered`, `WaiterReleased`, `PortComesFree` and `ActivityShows` are
checked only. Induction is done here on sets (a set of natural numbers that holds 0
and successors is all of them, and so for finite sets and sequences: `SetInduction`,
`SubsetInduction`, `SequenceInduction`), because the library's induction theorems,
which take an operator, cannot be applied. For the same reason `Selections` defines
what a filter keeps by a recursive function, where the standard module's operator
cannot be unfolded, and what a recursive function returns is had from its
existence and a set of numbers (`RecursExist`, `ReferenceIs`, `AbsorbedIs`). Not
proved: `FiguresAreHonest`, whose labels fold over the accounts; `ClientSeesItsChain`,
which reads the rewritten text a second time; and `FileMeansMemory` and
`ScreenIsTrue`, which compare whole documents and screens.

## 6. Not modelled

* `render.rs`, `style.rs`, the colours and the layout of a screen: formatting.
* `codex_setup.rs`, `envcmd.rs`: they print or write another program's settings
  once, and nothing reads them back.
* `http.rs`, `logging.rs`, `error.rs`: wrappers without state.
* The AppKit side of the menu bar app (`ui.rs` and the Objective-C glue): it draws
  a snapshot and sends the commands that `Engine` has.
* Token encoding, JWT claims and PKCE arithmetic; headers that are copied; the
  encoding of JSON and KDL themselves (`ConfigFile` starts from nodes).
* The engine's timers as times: a poll round, a tick of the watch and a debounce
  are steps that may happen when they are due, `UsageCache` apart.

## 7. Plan

1. On the base module `Texts`: proofs of `ClientSeesItsChain` (the frames of the
   rewritten text, by the lemmas of `StreamsProofs`) and of `FileMeansMemory`
   (ConfigFile); the labels of `FiguresAreHonest`.
2. An abstract usage cache that `UsageCache` implements, for `Router` and `Rounds`
   to use.
3. The composition of `Engine` and `Credentials`: removal and sign-in of an
   account whose tokens are being refreshed.
