# A verification of the Infusion signal pipeline

The repository is a set of Python (asyncio) services that turn broker ticks into
trading signals and alerts. The services share nothing but Redis (streams,
hashes, sets, counters with expiries) and Postgres. This directory models the
parts of it where the order of events decides whether the system is right, checks
the models with TLC, and proves the most important facts about them with TLAPS.

Contents: 1 inventory, 2 modules, 3 runs, 4 fairness, 5 proofs, 6 findings,
7 observations, 8 what is left out, 9 plan.

## 1. Inventory

### 1.1 How the parts interact

    broker -> ingestion -> tick:raw -> normalizer -> tick:normalized
           -> feature-engine -> feature:computed -> scanner
           -> scan:signals / scan:suppressed
                -> alerter (Telegram), archiver (Postgres), ws-gateway (browsers)
    api/broker_sync -> scan:signals (position warnings)
    api routes, sweeps, scheduler, sentiment, nse-scraper -> Redis keys, Postgres

Every arrow between services is a Redis stream with one consumer group per
consumer (`infusion-streams`). Besides the streams the services share *hot state*:
keys with an expiry that one service writes and others read (latest tick, latest
features, active signals, cooldowns, pre-breakout states, mutes, tokens).

Each service is one process with one event loop. It interleaves at every `await`,
that is at every Redis or Postgres command. Docker restarts a process that ends;
nothing restarts a task that ends inside a process that lives on.

### 1.2 The components

| component | state it keeps | operations | what is hard | what makes it correct |
|---|---|---|---|---|
| stream consumption (`libs/infusion-streams`, `libs/infusion-common/lifecycle.py`) | group cursor, pending list, the batch in memory | create group, read, hand over, acknowledge, dead letter, stop | crash inside a batch, lost reply, XACK that raises, trimming | ordered, at most once; nothing skipped; nothing acknowledged unsettled; the loop goes on |
| ingestion: supervisor and adapters (`supervisor.py`, `adapters/upstox`), api `routes/auth.py` | attempt, failures, delay, the recheck flag | authenticate, connect, subscribe, stream, wait, poll; store a token, ask for a recheck | a token stored between two reads; a flag that runs out | a saved token wakes the supervisor; the wait fits the cause |
| normalizer (`main.py`, `dedup.py`, `throttler.py`, `ordering.py`) | symbols, ring of ids, last forwarded tick, newest time, hot tick | drop duplicates, throttle, flag, publish, update hot state | memory lost at restart; late ticks | repeats only after the ring has turned; the flag is exact; hot state follows the stream |
| feature-engine: bars (`bar_builder.py`, `engine.py`) | a symbol's state and its open bar, tick buffer | buffer, flush by count and by time, wall-clock close | three tasks on one bar; late ticks | every tick in its bar, every bar once unless a late tick reopens it, volume adds up |
| feature-engine: market structure (`features/structure.py`, `retest.py`, `zones.py`, `ict.py`), chart geometry | last bars, swings, gaps, blocks, zones, retest | fold one bar after the other; recompute for the chart | two implementations of one rule; a memory shorter than the day | what is shown still stands; chart and engine agree |
| scanner: signal path (`engine.py`, `suppression.py`) | signal hashes, active set, cooldowns, journal | evaluate strategies, gates, publish (8 commands), sweep | two tasks on one key, partial publication, expiry between commands | signals of a pair a cooldown apart; hashes expire; members leave the active set; one journal row per signal |
| scanner: watch episodes (`episode_manager.py`, `state.py`) | one ladder per symbol, strategy, direction, in memory | resolve, finalize, write back | written back before the gate decides; shared cooldown; restarts | a shown ladder is frozen; one alert per tier |
| scanner: pre-breakout (`pre_breakout.py`) | state, counters, entry time, a key for the dashboard | update, persist, trigger | memory and key diverge on failure or restart; time-outs seen only when bars come | key and state agree; no state for ever; new setups start from nothing |
| scanner: sectors and verdict (`sector.py`, `verdict_engine.py`, `alignment.py`) | strength, its last change, ranks, regime | recompute, rank, persist; judge a candidate | a value that is fed back on itself; a restart; a torn write | comes to rest on the features; ranks of one moment; better evidence never lowers a verdict |
| alerter (`engine.py`, `gate.py`, `telegram.py`, `main.py`) | rate and burst counters, cooldowns, delivered set, log | gate, post with retries, record, warn | read long before written; pipeline then expiries; posts whose answer is lost | limits hold; a message is sent once; limits lift again |
| archiver: writing (`main.py`, `writer.py`) | buffer in memory, checkpoint, rows | backfill, consume, timer flush, put back | two tasks on one buffer; acknowledged before written; rows that are refused | every signal gets its row; nothing dropped; buffer bounded |
| archiver: outcomes and recap (`tracker.py`, `main.py`) | outcome of each row, day of the last recap | fetch, walk the bars, write; send the recap | bars that come late, a limited query, restarts | the first touch decides; every row is decided; one recap per fault more |
| api: radar alerts and other sweeps (`radar_alert_queue.py`, `ebie_state_queue.py`, `lifecycle_monitor.py`) | tier cache and alert rows; cached states and their log; open trades | sweep: insert, graduate, expire; map, log, cache | cache and rows written one after the other; sweeps that raise | no crossing missed; verdicts stand; the log is a chain; the first touch decides |
| api: trade journal (`trade_journal.py`) | a Redis list of rows | log, create, review, close, rewrite | four writers of one list, no lock | one row per signal; what was answered stays |
| api: broker positions (`broker_sync.py`) | a cooldown key per position | judge, ask, set, warn | requests that overlap between the three calls | at most one warning per window and cooldown; no cooldown in silence |
| api: structure suite (`structure_signal.py`, `structure_backtest.py`, `structure_optimize.py`) | a run, its trades, stored profiles and their summary | replay bars, close a run, search, store, answer from the cache | task and request apart, concurrent searches, torn writes | a trade closes at the first bar that decides it; a cached answer is the best stored |
| api: walk-forward and proposals (`routes/backtest.py`) | one proposal | split, purge, measure, compare, store | leakage between training and test; settings that change meanwhile | what is trained on is known before the test begins; a proposal has its proof |
| sentiment-engine and the news queue | articles and their scores | persist, fetch, classify, write | the model may be missing; bad articles stay first in the query | a completed article has a genuine score; every article gets one |
| ws-gateway (`client_manager.py`, `main.py`) | registry of clients, buffer of ticks | connect, leave, buffer, flush | the registry is iterated over across awaits | no ghost clients; who stays sees what is buffered |
| feature-engine: indicators; api: routes; scheduler; nse-scraper; stubs; shared types; frontend, scripts, migrations | windows of numbers, single keys, tables, nothing | folds, queries, HTTP handlers, periodic loops | little: no second actor on their state | - |

`PROJECT.json` lists the components with their sources and the hazards with the
lines where they bite.

## 2. The modules

| module | models | kind |
|---|---|---|
| `RedisKeys` | the life of a Redis key: absent, n ticks to live, or no expiry | helper |
| `StreamConsumer`, `OrderedDelivery` | stream, group, loop and process; what a handler behind it may rely on | state machine and its abstract specification |
| `Ingestion` | the supervisor of the feed, the token and the recheck flag | state machine |
| `Normalizer`, `FlaggedFeed` | the ticks of one symbol through the four filters; what their readers are promised | state machine and its abstract specification |
| `FeatureBars` | tick buffer and open bar of one symbol, three tasks | state machine |
| `WsGateway` | the registry of browsers and the flush that walks it | state machine |
| `ScannerSignals` | the scanner's signal path and its sweep | state machine |
| `WatchEpisodes` | the episodes of one symbol and one strategy | state machine |
| `PreBreakout` | the pre-breakout machine of one symbol and its key | state machine |
| `SectorStrength`, `Verdict` | the sector layer; the judgement of a candidate | state machines around computations |
| `AlertGate` | the alerter's handler | state machine |
| `ArchiverWrites` | backfill, consumer, timer, buffer, Postgres | state machine |
| `OutcomeTracker` | a day of signals, bars and the tracker; the recap | state machine |
| `RadarAlerts`, `ShadowStates`, `TradeLifecycle` | three sweeps of the api | state machines |
| `TradeJournal` | the list of trades and its four writers | state machine |
| `PositionWarnings` | overlapping requests for the account's positions | state machine |
| `NewsSentiment` | articles between the api's sweep and the classifier | state machine |
| `SwingStructure` | the market structure bar by bar, and the chart's version of it | computation over all bars |
| `StructureReplay` | the backtest of that structure | computation over all bars |
| `StructureRuns` | a backtest run and the searches over it | state machine |
| `WalkForward` | the walk-forward choice and the stored proposal | computation, and a state machine around it |
| `MCStructure`, `MCWalkForward` | the shapes of bars, and the outcomes, that the computations are checked with | values |
| `MCScanner`, `MCFeed`, `MCMarket`, `MCArchiver`, `MCApi`, `MCSafety` | one run each over several of the modules above | harnesses |
| `...Proofs`, `SetLemmas` | theorems, see section 5; the lemmas on sets and sums that they share | proofs |

Conventions. Time is a tick (`Tick`, `AlertTick`, `SetupTick`, ...), which ages every
key; a tick is coarser than the code's seconds, and only the order of the configured
lives matters. A Redis command or a Postgres statement is one atomic action. A command that
fails, and a crash, are actions of their own (`HandlerFails`, `Crash`, `SweepRaises`,
...). Variables marked *history* exist for the properties only and are never read by a
guard. Most modules hold a faulty variant or two, named in the header
(`ExitTargetFirst`, `BufferTickLate`, ...): no action uses them; put in the place of the
definition they stand before, they break the property that `PROJECT.json` pairs
them with.

Properties are grouped: one definition per component (`SignalSafe`, `StreamSafe`,
`BarsSafe`, ...) is the conjunction of its type invariant and of named parts, each
with a comment that says what it is about.

A *harness* extends modules that share no state. Its variable `focus`, chosen at the
start, says which part this behaviour is about; `MCNext` gives steps to that part alone.
Each behaviour of the harness is thus a behaviour of one part and all of those are there,
and the state space is the sum of the parts' and not their product. The fairness
conditions of different parts are merged into disjunctions, which is sound because only
one disjunct ever has steps.

### Ticks on their way to a screen

**StreamConsumer, OrderedDelivery.** `Read` (XREADGROUP with ">"), `Yield` (hand over),
`Divert` and `SendToDlq`, `HandlerReturns` or `HandlerRaises`, `Ack`, `BatchDone` are the
loop of `consumer.py`. `ReadReplyLost` and `AckFails` are commands that raise, in the first
case after the server has executed them, in the second either way. `Crash` and
`Restart` are the process. Two constants say how a service uses the loop:
`CatchErrors` (the body logs the handler's exception and acknowledges all the same:
scanner, alerter, archiver; or lets it out: normalizer, feature-engine, ws-gateway) and
`Detached` (the loop is a task that nobody awaits before the shutdown event, so that its
death is not the process's; ws-gateway gathers its tasks). `OrderedDelivery` is what is
promised: what reaches the handler reaches it in stream order and at most once.

**Ingestion.** The supervisor's attempt is `Authenticate`, `Connect`, `Subscribe`, then
`SessionEnds` or `AttemptFails`; the wait after it is `Poll` once a second and
`WaitOver`, with `PollFindsFlag` and `Wake` where the flag `recheck` is found, `PollFails`
where Redis does not answer. `SaveToken` and `RequestRecheck` are the two halves of the api's
route, `ForceRecheck` its second route, `LoginCallback` nse-scraper's.

**Normalizer, FlaggedFeed.** `Ignore`, `Receive`, `DropTooSoon` and `Forward` are the main
loop up to the first await; `PublishTick` (XADD) and `UpdateHot` (HSET) follow. `NormDies`,
`NormRestart` with `resolver.load`, and `PopulateSymbols` for the keys the scraper writes.
`FlaggedFeed` is the promise: ticks are added, and one is marked late exactly if a
newer one was published before it since the start.

**FeatureBars.** `Ingest` is the stream loop, `TimedFlush` the timer; a flush of either is
`Begin`, `Lookup`, `Register`, `Compute`, `Finish`, with the await of every loader and
write between them. `CloserWakes`, `CloserCloses`, `CloserReads`, `CloserWrites` are the
wall-clock close. It hands on the bar that stays in the state, and `on_bar` reads it: at once
for a bar that is written first, after the await of the write before for the others of a pass
(step `held`, where a tick still changes it). The timeframe is a constant, so the other
timeframes are that await. `TimerDies` ends a task for good, as an exception there does, `BarsRestart` the
process.

**WsGateway.** `ClientConnects`, `SocketBreaks` and `HandlerEnds` are the handlers,
`BufferTick` the reader, `FlushBatch`, `SendTo`, `FlushEnds` the walk of `flush_batch` with an
await per browser, `FlushRaises` the dictionary that has changed its size.

### The scanner

**ScannerSignals.** `process_feature` handles one feature vector at a time:
`ProcessFeature` takes one up, `Evaluate` is a strategy of the loop, `CheckDuplicate`,
`CheckCooldown` and `CheckQuality` are the gates of `suppression.evaluate` in their
order, and the commands of `_publish_active` are `PublishStream` (XADD), `HsetSignal`,
`HsetLegacy`, `ExpireSignal`, `ExpireLegacy`, `AddActive` (ZADD), `AutoLogSignal` and
`SetCooldown`. `cleanup_expired` is `SweepStart` (ZRANGE), `SweepExists`, `SweepRemove`
(ZREM), `SweepEnd`. The point of the module is the key the strategies of a symbol
share (`legacyKey`): the handler writes it, the sweep reads it for every strategy of the
symbol. Scores, ranks, regime and every gate that leaves Redis alone decide either way.

**WatchEpisodes.** `Evaluate` is one closed bar: `resolve_ladder_basis` (`Reusable`,
`Invalidated`, `FreshStop`), `finalize_episode` (`StaySilent`, `Upgrade`, `Open`) and the
write-back in `process_feature`, which happens before the gate runs. `Publish`,
`PublishTorn` and `Suppress` are the gate's verdict. The episodes live in memory
(`Restart` clears them), the cooldown in Redis.

**PreBreakout.** `Bar` is `update` plus `update_from_features`; `Evaluated` is
`_evaluate`, `NewState` and `Transits` add the time-out, `Persist` is `_persist` (DEL, or
HSET and EXPIRE), `BarFails` a bar whose handler ends at a failing command,
`MarkTriggered` is `mark_triggered`, `WarmUp` a bar before the indicators are warm. A bar
is the set of comparisons the code makes with it; `Plausible` keeps zone and trend of the
width consistent with the width before.

**SectorStrength, Verdict.** `UpdateSymbol` recomputes the strength of a symbol's sector,
`RankAndPersist` and `RankAndFail` are the ranking and its pipeline, `UpdateIndex` the regime,
`PersistTick` the timer, `SectorRestart` a restart that reads the features back;
`Adjustment` is what a signal gets from all this. In `Verdict`, `FamilyReads` changes what one
family of evidence says and judges the next candidate (`Judge`).

### What becomes of a signal

**AlertGate.** `Receive` is `process_signal` taking a message up; `PassGate` and
`BlockAtGate` are the gates of `DeliveryGate.evaluate` in order, one await each; the posts
are `PostAccepted`, `PostRefused`, `PostFails`, `PostTimesOut`; `Record` is the pipeline of
`record_delivery`, followed by `EnsureRateTtl`, `EnsureBurstTtl` and `Log`. Position warnings
go through `WarningIsFresh`, `SetWarningCooldown` and the same posts. `RecordTorn` is a
pipeline of which a part was executed; `HandlerDies` a failing command or a crash.

**ArchiverWrites.** `BackfillAdd`, `LastFlush`, `SaveCheckpoint` are `_backfill`; `Read` and
`Consume` are `_consume_stream`; `TimerFlush` is `_periodic_flush`. A flush takes the buffer
at once (`Add`, `TakeBuffer`) and ends later in `FlushWritten`, `FlushRefused` or
`FlushFails`; the last two put the batch back. `Poison` says whether position warnings,
whose id is no UUID, are on the stream.

**OutcomeTracker.** `MinutePasses`, `BarWritten` and `SignalFires` are the day around it;
`StartCycle` fetches the rows without an outcome, `WalkBars` goes to the first bar that touches
stop or target, `UpdateOutcomes` writes; `CycleFails` and `ArchiverRestarts` cut a cycle short.
`PublishRecap` and `RecapReplyLost` are the evening's recap.

**TradeJournal.** `LogSignal` (with `PushRow`, `TrimRows`), `CreateTrade`, `UserLoads`,
`MonitorLoads`, `MonitorResolves` and `SaveRows` are the calls of the four writers, `LoggerFails`
and `RewriterFails` end one between two of them. `Bare` says which trades were posted without
levels; `Resolvable` is what the monitor asks of a row before it looks at its age. **TradeLifecycle** is how the monitor decides:
`Tick` moves the price, `EndMinute` and `WriteBar` make the bars, `SweepRow` walks them.

**PositionWarnings.** A request is `GetPositions`, `JudgePosition`, `AskCooldown` (EXISTS),
`SetCooldown` (SET), `AddWarning` (XADD); several windows poll at the same time.

### Sweeps, research and news

**RadarAlerts.** `StartSweep` reads tiers and cache, `VisitSymbol` does what `RowsAfter` says
(`Insert`, `Revisit`), `ExpireRows` gives old rows up, `EndSweep` writes the tiers. **ShadowStates.**
`ReadTicks`, `MapRow`, `InsertRow`, `WriteCache`, `WriteVerdict`; what the sweep reads is any of
the rows of `Evidence` each time.

**SwingStructure.** `CompleteBar` folds one bar (`UpdateStructure`, `UpdateRetest`,
`UpdateZones`, `UpdateIct`), `ChartBar` with `ComputeSmcGeometry` is the chart's
computation over all bars, `RestartEngine` seeds the engine again. **StructureReplay.**
`NextBar`, `WarmUp`, `DecideSetup`, `ExitOrClose`, `HoldPosition`, `CloseAtEnd`: one position at a
time over the bars. **StructureRuns.** `CreateRun`, `PersistTrades`, `CloseRun`, `TaskRaises`,
`MarkFailed` are the task; `Visit`, `AnswerCached`, `BeginSearch`, `EndSearch`, `StoreProfiles`,
`StoreMeta`, `VisitFails` the requests.

**WalkForward.** `Choice` and `Recommended` are the split, the purge, the grid and the ranking;
`Decided` archives an outcome, `Deploy` and `Republish` change and publish the settings,
`ComputeProposal`, `QueryFails`, `ComputeFails` are the stored answer.

**NewsSentiment.** `Appears` and `Leaves` are the feed, `PersistEvents` the api's sweep;
`FetchPending`, `ClassifyBatch`, `WriteScore`, `NextArticle` the engine.

## 3. The runs

Every bound is a constant of the `.cfg`, described in its header, or a guard that
names it. `MCScanner` checks deadlock. The behaviours of the other harnesses end when
their bounds are used up (messages, sweeps, bars, trades), so they do not.

| run | parts | expected |
|---|---|---|
| `MCScanner` | signals without faults, episodes, pre-breakout | pass |
| `MCFeed` | stream consumption (both ways of treating errors), normalizer, ingestion, gateway | pass |
| `MCMarket` | bars, news, shadow states, sectors, verdict | pass |
| `MCArchiver` | writes, outcomes, trade, structure runs | pass |
| `MCApi` | radar, journal, position warnings | pass |
| `MCSafety` | signals with faults, alerter, market structure, backtest, walk-forward: safety only | pass |
| `StreamHalts` | does a detached loop always read again? | violated |
| `WatchSwallowed` | does silence mean that the episode was announced? | violated |
| `AlertStuck` | is a rate limit that has been reached lifted? | violated |
| `ArchiverPoison` | is every buffered signal written? | violated |
| `OneOpenRow` | does a symbol have one open alert at most? | violated |
| `ChosenOnTraining` | is the profile chosen on the training rows alone? | violated |

What a passing run shows is said in `PROJECT.json` and at its properties. Why the
bounds are enough:

- *Streams* (3 messages, batches of 2, `StreamMaxLen` 2, 2 faults): a first batch, a
  second one, and a fault in each; a stream of length two is trimmed below the cursor,
  at it, and above it; two faults are a lost reply followed by a crash.
- *Normalizer* (ring 2, interval 2, stamps 1..3, 5 raw ticks, 1 crash): the ring turns
  over, and every order of early, late and repeated ticks occurs.
- *Ingestion* (2 tokens, 3 failures of the feed; a refused token waits twice as long as
  the longest backoff): the token is replaced at every point of an attempt and of a wait,
  and the backoff reaches its cap.
- *Gateway* (2 browsers, 2 updates): one browser comes or leaves while the other is served.
- *Bars* (periods of 2, two and a half of them, 3 ticks, batches of 2, 1 fault): a tick
  before, in and after a boundary, computed in any order by two flushers, and a bar closed
  by a tick and by the clock, with a tick between its closing and its reading.
- *News* (3 articles, 1 of which never gets a score, batches of 2), *shadow states* (4 rows of
  evidence in 2 directions, 3 sweeps: one direction comes between two of the other),
  *sectors* (2 sectors of 3 symbols, 6 features, enough to come to rest, ranked after every
  second), *verdict* (5 families, of which three share a weight and one can only argue for
  a rise).
- *Signal path* (1 symbol, 2 strategies): the interaction is between the strategies of
  one symbol through one key, and two are a writer and a bystander; symbols share
  nothing. The lives keep the order of the settings (sweep 60 s, signal 300 s, cooldown
  900 s); `MCSafety`, with faults, has the shorter lives.
- *Episodes* (prices 1..3, a stop one away, life 2, cooldown 1): an entry that stands, one
  that is touched and one that is broken, in both directions; a fresh, an old and an
  expired episode; a cooldown shorter than the life.
- *Pre-breakout* (2 bars to compress, 3 to reverse, `MaxState` 2, `StateTtl` 4): "not yet",
  "just" and "after", in the order of the settings.
- *Alerter* (2 interchangeable symbols, limits 2 and 1, cooldown 1, hour 2, burst window
  1, 2 posts, 1 fault): two symbols share the counters, the windows are nested as the real ones
  are, two posts are one retry, and one fault already reaches every step.
- *Archiver* (3 messages, reads and writes of 2, 2 crashes, 1 failed INSERT, warnings on
  the stream): the timer has something to take while the main task waits, and a crash meets the
  backfill that follows a crash.
- *Outcomes* (a day of 2 minutes and 2 of grace, life 3, a query that returns 1 row of 2, 1
  fault) and *trades* (3 minutes, 3 moves over 4 prices, a long and a short plan with 2
  targets): a bar that comes late, a row that the query passes over, stop and target in one bar.
- *Runs* (2 visitors, 3 searches, up to 3 profiles of which 2 are kept, 2 failing
  statements, 1 crash): searches overlap, and a failure meets the handler of a failure.
- *Radar* (1 symbol, 5 sweeps, rows given up after 1, a tier cache of 2, 1 fault): a tier that
  crosses, falls and crosses again, with a failing sweep between. Symbols share nothing there.
- *Journal* (2 rows, 3 trades, 1 rewrite of the user beside the monitor's, 1 failing call): a
  push between load and save, a row displaced meanwhile, a row pushed and not trimmed; the
  second trade has no levels if it is the api's.
- *Position warnings* (1 position, 3 windows, 1 failing call): three requests overlap at any of
  the three calls. Positions share nothing, since each has its own key.
- *Market structure* (6 bars of 5 shapes, a pivot in every window of 3, a memory of 4 bars, 1
  restart) and *backtest* (3 bars of warm-up and 3 that trade, of 4 shapes, the last in another
  session behind a bar at 15:30, 4 settings): every sequence of those bars, so that a swing is formed, broken,
  retested and forgotten, and a trade is opened and closed in each way.
- *Walk-forward* (6 outcomes, 3 on either side of the split, an embargo of 2, training half, at
  least 2 rows each): a row is purged, falls in the embargo, or neither.

Two properties deserve a word. `EmissionsSpaced` holds although the duplicate check is
unreliable (the sweep may drop a live member, section 7) because the cooldown outlives the
signal; the order `SignalTtl <= CooldownTtl` is an assumption of the module, which the
settings satisfy and nothing in the code enforces. `HourBounded` is the bound the code
really gives: fewer than twice the limit in any sliding hour, since the counter's
window starts with its first delivery.

## 4. Fairness

Faults, crashes and expiries of keys are never fair, unless said otherwise, and
neither is the arrival of messages, ticks, features or requests.

- *Streams*: `LoopStep` (a pending command is answered, a handler ends) and `Restart`
  (`restart:` policy in `docker-compose.yml`).
- *Ingestion*: the supervisor goes on (`SupervisorStep`), and the request for a recheck that
  follows a stored token in the same handler is made (`RequestRecheck`).
- *Normalizer*: `PublishTick`, `UpdateHot`, `NormRestart`. *Gateway*: the flusher goes
  on, the process is restarted, and the handler of a broken socket ends.
- *Bars*: both flushers, the closer and the clock. *News*: the sweep and the engine.
- *Signal path without faults*: the handler and the sweep go on, time passes, and the sweep
  is never overdue, since its loop sleeps a minute between runs.
- *Pre-breakout*: time passes, and bars keep coming (`[]<>(~quiet)`): the time-out is
  evaluated only when a bar arrives, so `NoStateForever` is a statement about a session in
  progress. Which bars come is left open.
- *Alerter* (`AlertStuck`): the handler goes on (posts have a time-out) and time passes.
- *Archiver*: both tasks go on (INSERTs have a command time-out) and the process is
  restarted. *Outcomes*: minutes pass, bars are written, the tracker goes on, the recap is
  sent. *Trade*: minutes end, bars are written, the monitor sweeps. *Runs*: the background
  task goes on; nobody has to ask for a search.
- *Radar*: the sweep goes on. *Journal*: the writers go on; `SF_journalVars(TradeAges)`
  says that a row gets old although rewrites come between. *Position warnings*: every window
  polls (the cockpit's timer), and a cooldown runs out (`SF`), which is Redis's promise.

## 5. Proofs

All theorems hold for every value of the constants that satisfies the module's
named assumption. What is assumed beyond "positive" or "natural": the scanner's
`SignalTtl <= CooldownTtl` (300 and 900 s), the pre-breakout's `MaxState < StateTtl`, the
tracker's `0 < SignalTTL < Lookback` (75 and 90 min; with a lifetime of 0 a row would be
over before its first bar), `BarLength <= MaxClock`, `Window <= KeptBars`, bars whose
extremes contain their open and close, targets and a stop on their sides of the
entry, and finite sets of symbols, signals, articles, positions, windows, visitors and
sector members. `Embargo` is positive (its default is 5 min).

| module | theorem | statement |
|---|---|---|
| `ScannerProofs` | `TypeCorrect`, `SpacedEmissions`, `LiveInCooldown`, `NoImmortal`, `LoggedEmissions` | the parts of `SignalSafe` |
| | `SignalsSafe` | `Spec => []SignalSafe` |
| | `SetupInvariant`, `SetupIsSafe` | `SetupSpec => []SetupSafe` |
| | `EpisodeInvariant`, `FrozenLadder`, `OncePerTier`, `EpisodesAreSafe` | `EpisodeSafe`: two invariants, two action properties |
| `FeedProofs` | `TypeCorrect`, `Settled`, `NoGap` | the parts of `StreamSafe` |
| | `StreamsSafe`, `Refinement` | `Spec => []StreamSafe`; `StreamConsumer` implements `OrderedDelivery` |
| | `NormInvariant`, `TicksAreSound`, `FeedIsFlagged` | `NormSafe`; `Normalizer` implements `FlaggedFeed` |
| | `IngestInvariant`, `TokensAreNoticed` | `[]IngestSafe`: no saved token is slept over, waits fit their cause |
| | `NoGhosts` | `[]GateSafe`: whoever is counted as a client is there |
| `DeliveryProofs` | `TypeCorrect`, `NothingForgotten` | while no INSERT fails, the checkpoint covers only what is archived or trimmed |
| | `BufferIsSafe` | nothing dropped, buffer bounded, no two writers of one row |
| | `AlertInvariant`, `AlertsAreSafe`, `AlertsKeepPace` | `[]AlertSafe`, and the action property `AlertPace` |
| | `HourIsBounded` | `[]HourBounded`: deliveries within an hour of the clock, not of the counter |
| `ApiProofs` | `RadarInvariant`, `RadarIsSafe` | `RadarSafe`: no crossing missed, verdicts stand |
| | `JournalInvariant`, `JournalIsSafe` | `[]JournalSafe`: one row per signal, and what was answered is kept |
| | `NewsInvariant`, `ScoresAreGenuine` | `NewsSafe`: completed exactly with a genuine score, which stands |
| | `WarningInvariant`, `WarningsAreSafe` | `[]WarningSafe`: at most one warning per window and cooldown |
| `OutcomeProofs` | `TradeInvariant`, `TradeIsJudgedRight` | `TradeSafe`: what the monitor says of a trade is what the price did |
| | `DayInvariant`, `OutcomesAreRight` | `OutcomeSafe`: the first touch decides, none falls out, the recap is sent once |
| | `RunInvariant`, `RunsAreSafe` | `RunSafe`: a cached answer is the best of all that is stored |
| `MarketProofs` | `DirectionsAreEqual` | `[]VerdictSafe`: a fall is judged as a rise |
| | `EvidenceIsMonotone` | the action property `BetterIsNeverWorse` |
| | `SectorInvariant`, `SectorsAreSafe` | `SectorSafe`: strengths come to rest, the past is bounded, ranks follow |
| | `ShadowInvariant`, `ShadowsAreSafe` | `ShadowSafe`: the rows of the log form a chain |
| | `BarsInvariant`, `BarsAreSafe` | `BarsSafe`: no tick lost, none in two bars unless one was reopened, all of the volume |
| `BacktestProofs` | `SwingInvariant`, `StructureIsSound` | `[]StructureStands`: chart and engine agree, and what is drawn still stands |
| | `ReplayInvariant`, `ReplayIsSafe` | `[]ReplaySafe`: the first bar decides, no overlap, losses capped, every bar accounted for |
| | `WalkInvariant`, `ProposalsAreProven` | `WalkSafe`: a proposal has its proof in later signals |
| `SetLemmas` | lemmas only | least and greatest elements, induction over subsets, sums over finite sets, quotients |

With these every invariant and every action property of a passing run is a theorem, or
part of one; what the runs have beyond them is liveness.

Each proof follows one pattern: an inductive invariant (`IInv`, `SetupIInv`, `AlertIInv`,
...), a lemma per part of it with a step per action, and a last step that puts them
together. The invariant is stated in the module it is about or, where it speaks of what the model has no name
for (`TradeIInv`, `DayIInv`, `RunIInv`, `VerdictIInv`, `SectorIInv`, `ShadowIInv`, `BarsIInv`,
`SwingIInv`, `ReplayIInv`, `WalkIInv`), at the head of its proof.

The community modules' folds and sums are recursive, and no installed prover does
induction over data. `SetLemmas` goes round this: `MapThenSumSet` is a `CHOOSE` of a function
on subsets that satisfies an equation. `SumExists` shows that there is one, by taking a
smallest subset at which the attempts fail (`SubsetInduction`, stated for a set of
subsets instead of a predicate), `SumsAgree` that there is one only. From then on a sum
is a value with two facts: it is 0 of nothing, and one element adds its own. The
chart's geometry, a fold over all bars, is treated the same way in `BacktestProofs`.

What each invariant adds to the property, and why it is needed:

**Signal path.** `EmissionsSpaced` speaks of one step of the handler and says nothing of
the way there. `SpacingCovered`: age of the last emission plus what is left of the
cooldown makes a full cooldown, for every pair whose last publication was completed.
`GatePassed`: once the gate has been passed the cooldown is down and stays down, since
only the pair in hand could set it. `SignalCovered`: the hash dies before the cooldown does;
the one place that uses `SignalTtl <= CooldownTtl`. `ImmortalSignal`: at which steps,
exactly, a hash may lack its expiry. `UnloggedInHand`: an emission without a journal row is
the one in flight, or one that was cut short.

**Streams.** `BatchTaken` and `WorkInBatch` say where `next` stands relative to the cursor at
each step of the loop, `HandedBehind` that the handler has seen only what is before `next`,
`SettledBeforeAck` what is known of a message when its acknowledgement is sent.
`HandedBehind` is what makes `Yield` a step of the abstract `HandOver`; `Publish` maps to
`Publish`, everything else to a stutter.

**Archiver.** `CheckpointedIsArchived` is not inductive because the checkpoint moves at the end
of a backfill: `BackfillKeeps` and `LastFlushKeeps` say where every row of the backfill is
until then. `Healthy` in the hypothesis cannot become true again, which is what lets
the induction use it. For the buffer: `HeldWasRead` and `HeldOnce` (whoever holds a row - the
buffer, an INSERT of either task - holds it alone), `DownIsCrashed`.

**Pre-breakout.** `ActiveWasEntered`: what is active in memory was entered by `_transition`, so
that its counters started from nothing. `KeyOutlivesState`: the key's remaining life covers
what is left of the state's own limit; this uses `MaxState < StateTtl`.

**Episodes.** `CandidateOfEpisode`: the candidate at the gate carries the ladder of the
episode in memory, although the write-back came first. `ShownIsOpen`, `ChaseIsMarked`: what was
published is remembered as an open episode of that tier. `CandidateIsNews`: the candidate's
tier is above every tier announced.

**Alerter.** The gate reads counters, cooldowns and sets many awaits before they are written.
`GatesStillHold` says for each step what the gates before it have found and that it still
holds: one handler is at work at a time, and the clock can only lower what it has read.
`WarningStaysFresh` is the same of the warning's own key, `EachCostsAFault` counts what a
repeated message has cost, `RecordedWasAccepted` ties the log to Telegram's answer.

**Normalizer.** `InRing`: the ring holds the last forwarded times. `NewestIsPublished`: the
detector's newest time is that of the newest tick published in this life, or of the one at
work. `WorkIsTrue`: the flag of the tick at work is right. `HotIsLast`, `ShownIsOfLife`: the
hash shows the last published tick of this life, once it has one. For the refinement,
`PublishTick` is a step of `FlaggedFeed`, a restart its restart, everything else a stutter.

**Ingestion.** `SavedTokenWakes` is about the wait; the flag it needs was set earlier, while the
supervisor may still have been connecting with the old token. `FlagCovers` states the
same from the moment the token is read: only a wait that ends deletes the flag, and the token
is read again after that, so that a later save leaves a flag that nothing deletes in between;
and a session that streams needs none, since its end starts over with another read. The
shortest wait after a session needs that streaming has reset the count.

**Gateway.** `GateSafe` is inductive as it stands, once the types say what the walk through
the registry holds.

**Journal.** Old lists come back, so what is in the list now says too little. `OneTradePerSignal`
speaks of every pair of trade and signal that is in the list, in a list some rewriter has read,
or in a logger's hand, `PushedIsNew` says that a row on its way is in none of those, and
`RewritersKeepRows` that a rewriter changes no row's place, trade or signal. For
`AnsweredIsKept`: `NotFarBehind` bounds the *place* of a row by the pushes since and the faults,
each of which may have pushed a row that nobody vouches for; a rewrite that found the list as it
was read puts every row back where it was.

**News.** A batch is scored many awaits after it was fetched. `BatchIsPending`: what is left of it
is stored and not completed, each article once, so that the score that is written replaces
none of the model's own and completes no other article of the batch.

**Radar.** `CrossingIsAlerted` is about what a finished sweep has left; in the middle of a
sweep `PreviousWasCached` says that the tiers it compares with are still those in Redis, or
were too old when it read them, `VisitedIsAlerted` that every symbol it has passed above the
threshold has a row younger than the last time it was below, and `AllVisited` that none is
left at the end. A sweep that fails changes nothing of this, which is why the statement
needs no exception for failures.

**Position warnings.** `NotifiedOncePerWindow` counts warnings, and two requests may both be
between EXISTS and XADD. `CommittedHaveRoom`: the warnings added under a key and the
windows that are still on the way to add one are together no more than the windows;
`WarnsUnderKey`: who is about to warn has set the key, and it is still there.

**Hourly limit.** `HourBounded` is about the clock, the counter about itself: it may begin at
any time and has its expiry from the delivery *after* which it is set. `FirstIsEarlier`: what was
delivered since the counter was given its expiry is less than it has counted, so that when it
dies its first delivery is out of the hour. `LittleIsForgotten`: what the hour holds beyond this
counter's own is less than the limit. Two counters then make less than twice the limit.

**Trade.** The monitor looks at bars, a trade is about prices. `TouchesAreShown` ties
the two: a level was first touched in the minute of the first bar that shows it, whether that
bar is written, due or forming (`BarsInPlace`). `VerdictStands`: the bars read for a verdict
still give it, since none older than a written one is ever written.

**Tracker.** `ResultsBorneOut`: each result is what the tape says up to its bar, for the rows of
the cycle at work as well (`CycleHolds`), which reads its rows, walks them and writes in three
steps. That no row falls out of the query is a question of pace: `KeepsPace` says that the
whole queries still in front of a row, with the minutes since it was over, are no
more than what was in front when it was created and the faults since. Each turn that passes an
undecided row by was therefore a fault, or took `FetchLimit` rows of those in front with it.

**Searches.** `Ranked`: among what is stored, survivors have a rank and only they, and
to each survivor that was kept there is one of rank 1 that is no worse. It holds of
several tables put together although their ranks then repeat, which is what the cached
answer depends on, and of what a visitor holds but has not stored.

**Verdict.** The candidate's own direction enters every family. `DirectionsAreEqual` mirrors
the reads, the context and the candidate, and shows that the same families argue and are
silent. `EvidenceIsMonotone` is about a weighted mean whose weights change with the read: the
families of a cluster share one weight, so one more that argues takes weight from others
that argue, or from those that argue against. The mean of each case is compared by
cross-multiplication; rounding keeps the order.

**Sectors.** A strength is not a function of its features, since what it rose by last is added
again. `Settling`: what it has above its features *is* its last rise, so a
computation that finds no rise brings it to rest. `RanksBelong`: the ranks published are those
of strengths of one moment, which needs no two sectors to share a rank.

**Shadow states.** `Known` is the state that the sweep, or else the cache, takes for the last
that was logged. `KnownIsLogged`: it was logged; `Owed` is 1 where it is not what the log says
last. A repeated row is thus owed before it is written, and the fault that lost the state has
paid for it.

**Bars.** Three tasks interleave at every await, and a restart or a second state of the
symbol may come at any. `WaitingTicksAreNew` (a tick that waits is in no bar),
`AppliedTicksAreKept` (one that was computed is in the open bar of its state, or written or
held in the period it belongs to) and `NoTwoClash` (of two bars that are written, held or open and
hold the same ticks exactly one was read late; and, as long as this life is in order and in time,
none are of one period) say where each tick is at every step. What the closer holds counts as a
bar of its own only once the bar in the state has been opened again (`Handed`, `CloserBars`);
`LateBarsHaveLateTicks` says that the tick that did so had missed the grace. `NoneIsAhead` is what keeps a period from being opened again.
`VolumeAddsUp` is inductive with them: the bars' volumes are a sum to which each computed
tick adds what was traded since the last.

**Structure.** The chart folds over all stored bars, the engine keeps a state and the last few.
The proof shows first that the chart's fold over one bar more is one step from the fold over
the others, and that a step reads only the bars of its window. `RecentIsKept` and
`NothingEarly` say that the engine's memory is enough for the same window; `SameStory` is
then one equality. For what is drawn, `SpansStand` has what the marks do not show: a gap's
marks are the number of closes inside it, a block's mark says that some close has confirmed it
and none has come back through its middle since, a pending retest has held its level
since it was armed.

**Replay.** A trade is judged when it closes, by bars that were looked at one by one.
`PositionOf` keeps of an open position that no bar since its entry has touched the stop or a
target, that each has closed above the stop, and that none was the last of a session. That only
a swing arms needs the price of the trigger: the last bar is in the range its close would have
to leave, a line counts only while it is not crossed, and `min` leaves one candidate. The
targets are in order since the ratios are and the risk is positive; the account of the bars is
a sum over the trades, to which each adds the bars it was held.

**Walk-forward.** The archive grows between proposal and deployment. The proof that is kept is of
the prefix the proposal has read (`ProposalTyped`): the rows that follow change neither the split of the
prefix nor what is computed from it. That the best profile exists, and is the first in
a lexicographic order, needs `GreatestInteger` once per criterion.

*What stays with TLC.* Liveness under fairness, and ENABLED, which the prover does not
handle. These are the eleven temporal properties of the passing runs: `StreamProgress`,
`TokenBringsFeed`, `TicksReachScreens`, `NoStateForever`, `ActiveMembersExpire`,
`SignalsAreArchived`, `AllIsDecided`, `WorkIsDone`, `RowResolves`, `OpenRowResolves` and
`BrokenIsTold`. The theorems are about models in scaled integers: what floating-point
rounding adds is in neither the runs nor the proofs.

## 6. Findings

| run | what the code does | what it says |
|---|---|---|
| `StreamHalts` | One XACK that raises ends the loop's task; `run_until_shutdown` waits for the shutdown event only, so the process and its health report live on and Docker restarts nothing. | "any service can crash and restart", "resume from their last ACK'd stream position" (`docs/PHASE-1-SYSTEM-FOUNDATIONS.md:182`) |
| `WatchSwallowed` | The episode is marked as alerted before the gate decides. A candidate that the gate stops, for instance because the other direction has just set the shared cooldown, leaves a setup that stays silent for its whole life. | silence means "same still-open episode, nothing changed since the last alert" (`episode_manager.py:116`) |
| `AlertStuck` | A failure between INCR and EXPIRE of the delivery that reaches the hourly limit leaves a counter without expiry. The next delivery would repair it, but the gate lets none through. | "STRING (counter, TTL=3600)" (`constants.py:68`) |
| `ArchiverPoison` | A position warning in the buffer has an id that is no UUID. The batch is refused as a whole, put back, and refused again with all that was added since. | "Re-buffer failed rows for retry on next flush" (`writer.py:190`) |
| `OneOpenRow` | A symbol whose row graduated gets a new row below the threshold, which is still open when it crosses the threshold again and gets another; no failure is needed. | "Any previously open row for this symbol has already been resolved", "in lockstep by construction" (`radar_alert_queue.py:135-140`) |
| `ChosenOnTraining` | The profiles with enough training rows are sorted by a status and a utility that are computed from the test window, so that the recommended one depends on the newer outcomes. | "The optimizer chooses a profile only from the older training window" (`routes/backtest.py:988`) |

## 7. Observations

Disagreements noticed while reading, which no run checks.

*Streams, feed, bars*
- `consumer.py:81` asks callers not to acknowledge on failure; `alerter/main.py:102`
  (and scanner, archiver) acknowledge after an exception.
- `docs/PHASE-1-SYSTEM-FOUNDATIONS.md:226` has pending messages delivered again; the
  loop only ever reads ">", so they are not.
- nse-scraper's login callback stores a token without setting the recheck flag
  (`oauth.py:184-195`, `supervisor.py:53-54`); ingestion reads the instruments once, at
  boot (`main.py:73-107`); a failed first `connect()` counts as a reconnect;
  `subscription_registry.promote` is not used.
- The out-of-order flag compares with the last *forwarded* tick, and throttled ticks never
  reach it; a late tick takes the hot state back (`normalizer/main.py:130`); the last
  throttled tick before a quiet spell is never shown. `docs/PHASE-1-SYSTEM-FOUNDATIONS.md`
  lines 1399 and 1453 promise the *latest* tick per window and deduplication across
  restarts. The symbol master is not reloaded, though `resolver.py:32` says so.
- A late tick re-opens a bar the timer has closed, and it is emitted a second time
  (`bar_builder.py:77`), with the late tick's price as its `open`. If the tick comes before the
  timer's `on_bar` has read the bar - it hands on the object that stays in the state
  (`bar_builder.py:89-91`), and reads the five- and fifteen-minute bars after the await of the
  one-minute write (`engine.py:254-258`, `main.py:119-133`) - both writes hold the same ticks.
  `engine.py:246-250` says that a concurrent tick "can never double-emit or corrupt a bar this
  pass just closed". A late tick also lowers the cumulative volume the next tick is compared
  with (`engine.py:498-502`). Two flushers can each create a state
  for a symbol. `flush_timer`, `bar_flush_timer` and `_periodic_flush` have no `try`: the first
  exception ends the task. Volume profiles are read once per process; history may be applied
  after a live bar; a symbol that has closed a bar is not seeded.
- A browser that connects while `flush_batch` walks the registry ends the gateway
  (`client_manager.py:65`); the clients' subscriptions are not consulted there.

*Scanner*
- `engine.py:1131`: the sweep tests the key of the *symbol*, so between HSET and EXPIRE, or
  when that key dies first, it drops a live member, and it keeps a dead one as long as
  another strategy keeps the key alive. Every member still leaves because two strategies
  times 300 s are less than the cooldown of 900 s; three strategies could keep it for ever.
- `config.py:20`: `max_active_signals` is never read. `engine.py:958-960`: a failure before
  `_auto_log_signal` loses the journal row, since nothing retries.
- `episode_manager.py:81-85`: whether a ladder was broken is tested on the bars at which the
  strategy qualifies, so one broken in between may be reused.
- `pre_breakout.py:425-428`: `mark_triggered` keeps the time of entry, so a state may be
  `TRIGGERED` for one bar and then expire. Line 15 describes accumulation as volume under
  compression; `_evaluate` looks at the volume alone.
- `verdict_engine.py:353-364`: `_volume_family` is said to argue for the candidate's direction and
  returns an absolute reading. Five structure families alone make a score of 100 and `ARMED`,
  though the header says no single cluster can dominate; a single family gives the confidence
  `VERY_HIGH`. `sector.py`: after a start every sector is "improving" and its next strength gets
  +10; the regime is `NEUTRAL`; a failing persist inside `update_symbol` ends the feature's
  processing; "same constituents, same metrics" (line 264) is not so because of the
  momentum; `concentration_flag` is not symmetric.

*Alerter, archiver*
- `gate.py:149`, `config.py:34`: the limit is per counter window and not per sliding hour.
  `telegram.py:129`: a post whose answer is lost is sent again. `gate.py:189`: the set of delivered
  ids has no expiry; `constants.py:71` gives one. The warning's cooldown is set before the post
  (`engine.py:383`, on purpose).
- `archiver/main.py:101`: the checkpoint is saved although `flush` has swallowed an error.
  Line 158: the day of the last recap is in memory, so a restart in the evening repeats it
  ("at most once per trading day", line 156); it is sent on days without trading as well, and at
  15:35, while the tracker runs until 15:40.
- Signals fired after about 14:25 are not resolved by the tracker (`tracker.py:9`). The
  minute in which a signal fires is never looked at. The reason given for the tie-break
  (`tracker.py:125-126`, `lifecycle_monitor.py:150-153`) does not hold of a continuous price.

*Api*
- The monitor skips rows without `created_at_epoch`, that is the rows the scanner logs
  (`lifecycle_monitor.py:49-51, 287-291`), and passes over rows without a positive entry, stop
  and first target before it looks at their age (216-217, 239-240), which is what a POST without
  them leaves (`routes/journal.py:71-73`): both stay open until they are displaced, and
  `OpenRowResolves` is about the other rows only. A row closes at the first target as soon as a sweep sees
  it, though the docstring says the deepest. `auto_log_signal` takes the id before it pushes
  (`journal.py:274`). The statistics count `WIN`, `TARGET`, `T1`, `T2`, the monitor writes `WIN_T1`
  to `WIN_T3` (lines 372, 429). The race of two rewrites is disclosed at 227-238.
- `radar_alert_queue.py:175`: a symbol that stays at the graduation tier is graduated in one
  sweep and inserted afresh in the next; a row that fires at the top tier and falls is `FADED`.
- Shadow states: a cache write that fails leaves the last row of the log wrong; a flip of
  direction leaves the other direction's cached state for a day.
- Position warnings: an option's premium is compared with levels of the underlying, a long put
  is judged as a rise; overlapping polls send one warning each, though 445-447 says at most
  one; an XADD that fails after the SET silences the position for half an hour.
- `execution.py:226-241` stages a ticket without asking the kill switch of `safety.py:231-247`.
- Structure: `_check_exit` tests the third target before the first though "touched first"
  (`structure_backtest.py:27-28, 267`). The modes `fast_range` and `trendline` can never arm
  (`structure_signal.py:369-380`), though line 140 calls the mode "a REAL config knob"; `hybrid`
  often picks `fast_range` and then does not confirm. "No lookahead" (441), but the higher
  timeframe is aggregated from all the history and stamped with the start of its buckets. The
  buckets of `ReplayDiagnostics` do not sum to `bars_evaluated` (172-175), and
  `insufficient_bars` is never counted. A position entered on the last bar of a session is held
  overnight; a gap through the stop is filled at the stop; with `min_bias_edge` 0 a tie is a
  rise. A run whose last UPDATE fails is `FAILED` with its trades stored; a crash, or a second
  failure in the handler, leaves it `RUNNING`. A restart seeds the bars and not the structure.
- Optimizer: "Stores every candidate profile" (`structure_optimize.py:695`), but only the best
  twenty; `refresh` and concurrent GETs append a second set with a second rank 1; a torn
  store leaves rows without their summary until the next refresh; with two searches at once the
  summary may be the other's.
- Walk-forward: a failed query is stored as `NO_PROPOSAL` with the reason of the target;
  thresholds are compared although `precision_guard_enabled` is off; a stored proposal may name
  settings that are no longer live, and an answer from older settings may replace a newer one.
- News: a model that has failed to load is not loaded again; sixteen bad articles starve those
  behind them.

*Not modelled parts*
- Scheduler: an exception at `main.py:194`, outside the `try`, ends that loop for good; a sweep that
  answers `available: False` counts as done for the day (28-31). Its time-out of 60 s does not
  stop the api's pass over option premiums, so that passes overlap and the later overwrites the
  earlier entry premium; the exit pass prices the contract that scores best then; twenty rows that
  fail starve older ones.
- nse-scraper: the average of deliveries counts a session twice after a step back to an older file
  (`delivery.py:167-180`); the F&O ban list is replaced by two commands though called
  atomic, and the gate is open in between; a failed download writes the checked-in keys back.

## 8. What is not modelled

- *Numbers*: indicators, scores, targets, position sizes. They are floating-point
  computations; the models let every comparison with them go either way, or enumerate its
  outcomes. Sector strength, verdict, backtest and walk-forward are modelled with scaled integers,
  because their properties are about the numbers.
- *Requests*: most of the api's routes, which read Redis and Postgres and answer, and the scrapers.
  Each is one actor on its own keys.
- *Content*: message texts, log lines, column lists, the dashboard.
- *Scheduler*: independent loops around HTTP calls.
- Inside modelled components: `handle_with_retry` (no service calls it), the readiness
  score of `PreBreakout`, the order and trimming of the delivery log, the archiver's second
  stream (it shares the buffer exactly as the timer does), and what `PROJECT.json` notes at
  each component.

The map covers about a seventh of the repository's lines of code. Most of the
rest are HTTP handlers that keep nothing between two requests, scripts, indicators and the
frontend, of which a state machine would say nothing.

The constants that bound environments without a bound in reality (`MaxMsgs`, `MaxFaults`,
`MaxSweeps`, ...) are bounds for TLC. The theorems hold for every value of them.

## 9. Plan

What could follow:

1. The scheduler's loops, and the capture of option premiums with the overlap of section 7.
2. Composition: `AlertGate` behind the order that `OrderedDelivery` gives, with the
   scanner's spacing as its environment.
