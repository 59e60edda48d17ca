# trader-cockpit-app: TLA+ specifications and proofs

This directory holds formal models of trader-cockpit, its backend and the
state of its browser client, the TLC configurations that check them on small instances, and proofs checked by TLAPS.
Paths below are relative to `src/`, the repository.

The application follows Indian equities and index futures. `DataSyncService`
fills TimescaleDB with daily bars (yfinance) and 1-minute bars (Dhan) and syncs
a Zerodha account; `LiveFeedService` receives live ticks from Dhan over
WebSockets, builds candles, detects signals and publishes them through Redis;
`CockpitUI` (Next.js) shows them. All services are Python asyncio processes or
browser code: within one process the interleaving points are the `await`s.

## 1. Inventory

### DataSyncService

| Component | State | Operations | What makes it correct |
|---|---|---|---|
| Price tables and `sync_state` (`repositories/_price_writes.py`, `_sync_state_writes.py`, `services/sync_state_writer.py`) | rows by (symbol, time); per symbol and timeframe `last_data_ts`, `status` | chunked `INSERT .. ON CONFLICT DO NOTHING`, upsert with `COALESCE`, mark error | `last_data_ts` never promises bars that are not there |
| 1-minute sync (`minute_sync_service.py`, `infrastructure/dhan/historical_fetcher.py`) | `last_ts_map` of a run, chunks, the in-memory request budget | classify, fetch in batches under the budget, persist, mark error; `POST /sync/reset-1min` | no hole behind `last_data_ts`; the Dhan quota holds |
| Daily sync (`sync_service.py`, `_sync_orchestrator.py`, `_daily_fetch_strategies.py`, `domain/daily_action.py`) | the three lists of a run, the batch in progress | classify (INITIAL, FETCH_TODAY, FETCH_GAP, SKIP), fetch, persist; gap report | no hole; SKIP and the gap report agree; unfinished bars do not stay |
| Sync endpoints (`api/_sync_routes.py`) | background tasks and SSE streams | start runs, report progress, reset | none excludes another, so every pair must be safe |
| Zerodha sync (`zerodha_sync_service.py`, `zerodha_ingest.py`, `zerodha_charges.py`, ...) | tokens, sync runs, orders, trades, charges, snapshots | login, sync of each account in one transaction, mark error | a run row ends; a repeated sync adds nothing twice |
| Trade reconstruction (`zerodha_trades.py`) | none (pure) | FIFO matching of buys and sells | matched quantity is conserved, order respected |
| Instrument master, migrations, read-only routes | tables | idempotent updates, queries | none |

### LiveFeedService

| Component | State | Operations | What makes it correct |
|---|---|---|---|
| Dhan connections (`subscription_manager.py`, `websocket_client.py`, `_ws_connection.py`) | `_tasks`, one task per created connection, `connected` event and `_running` flag per client | `start`, `reconnect_all`, `stop`, the feed loop with back-off; `POST /token` | one connection per client, on the newest token; nobody waits for ever |
| Candle pipeline (`_drain_worker.py`, `_feed_init_mixin.py`, `tick_router.py`, `candle_builder.py`, `instrument_loader.py`) | tick queue, a `CandleBuilder` per instrument, `_session_date` | enqueue and drop oldest, route, add to a candle or end it, reset on a new day, seed from the database | a candle in the history has all its ticks and no other, in order, of today |
| Signal engine (`signals/`) | per symbol flags and histories | breakout, range and Camarilla detection, one-shot flags | one H4 or L4 signal a day, kind and symbol |
| Index bias (`_feed_signal_mixin.py`) | direction of the last candle of each index future | set on a future's candle, cleared by the reset | not yesterday's |
| Publisher and history (`infrastructure/redis/`) | daily list, pub/sub channel, cluster counts | filter, push, trim, publish; recent signals, pages of a date | list and channel agree |
| Streams (`api/routes/_signals_ws.py`, `_signals_sse.py`) | a queue per client | subscribe, replay, forward | no signal missed between replay and stream |
| Option chain (`option_chain_client.py`, `api/routes/option_chain.py`) | a lock, the time of the last call | one or two rate-limited calls | the pause is kept, every handler returns |
| Configuration (`shared/config_store.py`, `routes/config.py`, the same in DataSyncService) | the overrides in `service_config`, the settings object | load at start, GET, PATCH: store, then apply | memory and database agree; a PATCH changes what its user meant |
| Metrics, instruments (`metrics_service.py`, `routes/instruments.py`) | caches; the daily one is loaded again by every `GET /screener` | queries | the pages of one list are of several loads (see the stock list) |

### CockpitUI

| Component | State | Operations | What makes it correct |
|---|---|---|---|
| `useSignals` | the socket, the rows (one per symbol and type), a pause buffer, the regimes, the symbols whose metrics were asked for | connect, replay, push, pause, clear, restore, batch requests of metrics | no signal missed or counted twice; a row shows the regime of now; no symbol left without a request |
| Live prices, signal feed, heat map (`useLivePrices.ts`, `SignalFeed.tsx`, `lib/heatmap.ts`) | one event stream and one table of prices for all views; each view's prices | watch symbols, tick, merge metrics, reconnect | the last tick in every view; the biggest liquid movers in the heat map |
| Stock list (`useStockList.ts`, `domain/screener.ts`) | the pages loaded, offset, filters, sort | load, load more on scroll, filter, sort | all that passes the filters is shown, once and in order |
| Chart (`useDailyChart.ts`, `chartUtils.ts`) | symbol, timeframe, indicators, `dataRef`, what is drawn | select, answer, toggle, redraw | candles and overlays of the selection; resampling loses nothing |
| Symbol modal, option chain panel (`SymbolModal.tsx`, `OptionChainPanel.tsx`, `chainAssessment.ts`) | the row, the expiries, the chain, a verdict | open, select an expiry, answers | the chain shown is the one selected; no favourable verdict on a chain nobody trades |
| Notes, settings (`useNotes.ts`, `useCockpitState.ts`) | local storage and each page's copy | add, delete, replace; choose | what was written is there on the next page |
| Accounts panel (`useAccountsData.ts`) | three answers, loading, a message | load, save an account, sync, import | comes to rest with data that has every change made here |
| Admin panel (`useFullSync.ts`, `ServiceConfigPane.tsx`) | the steps of the pipeline; a pane's settings | run the pipeline; load, edit, save | a pipeline ends and can be run again; a save stores edits only |

### How the parts interact

* The two syncs and `LiveFeedService` share only the database: `hydrate` reads
  the bars that the 1-minute sync wrote, perhaps a bar still in progress.
* `POST /token` writes Redis and reconnects; each WebSocket task reads the token
  by itself before it connects. Ticks go from the tasks through one queue to
  `_main_loop`; from there candle, engine, publisher and reset are one call chain.
* Publisher to client: a Redis list for replay and a channel for the stream.

### Hard behaviours

Overlapping runs that work from a stale `last_ts_map`; a crash between the insert
and the upsert; a destructive reset beside a run; cancelled tasks that still have
to end, sharing flags and events with their successors; waiting without a
timeout; a queue that drops its oldest member; a session reset that comes after
the tick that triggers it; replayed trades dated today; a rate limit whose
request fails; in the browser, answers that come after the selection has
changed, callbacks that see the state of an earlier render, effects that write
before what they read is rendered, and pages that share one storage. `PROJECT.json` lists each hazard at its line, with the
properties that cover it, or with the reason none does.

## 2. The modules

| Module | Models | Lines |
|---|---|---|
| `PriceStore` | the statements on a price table and `sync_state` | shared by the two syncs |
| `MinuteSync` | the 1-minute sync with its budget, and `reset-1min` | EXTENDS `PriceStore` |
| `DailySync` | the daily sync and the gap report's classification | EXTENDS `PriceStore` |
| `FeedConnections` | connection manager, feed loops, `POST /token` | |
| `RateLimit` | abstract: one request at a time, a pause after an answer | |
| `OptionChain` | the option chain handlers and their lock | implements `RateLimit` |
| `CandlePipeline` | tick queue, builders, session reset, Camarilla signals | |
| `SignalStream` | publisher, WebSocket session, rows of `useSignals` | |
| `SignalRegimes` | the regime of a row | |
| `Arrangement` | pure: the members of a set in an order, part of a list (`sort`, `filter` of JavaScript) | |
| `SignalView` | pure: filters and order of the signals, live metrics, heat map | EXTENDS `Arrangement` |
| `SignalMetrics` | batches of metrics, the list made of them | EXTENDS `SignalView` |
| `LivePrices` | the shared price stream and its views | EXTENDS `SignalView` |
| `Screener` | pure: derived columns, filters, presets, order of the stock list | EXTENDS `Arrangement` |
| `StockList` | `useStockList`, its pages and filter bar | EXTENDS `Screener` |
| `ChartData` | pure: requests, resampling, averages' times, volume profile | EXTENDS `Arrangement` |
| `LatestAnswer` | abstract: shown is what was asked for last, or nothing | |
| `DailyChart` | `useDailyChart` | EXTENDS `ChartData`, implements `LatestAnswer` |
| `ChainAssessment` | pure: strikes around the money, the verdict | |
| `SymbolModal` | the modal's and the option chain panel's requests | EXTENDS `ChainAssessment` |
| `Notes`, `CockpitState` | local storage and the pages that share it | |
| `Accounts` | `useAccountsData` and the server's changes | |
| `ServiceConfig` | overrides, settings, PATCH, GET, `ServiceConfigPane` | |
| `Pipeline` | `useFullSync` | |
| `CockpitViews`, `CockpitPanels` | seven views and four panels of the cockpit side by side | compose the eleven modules above |
| `MC*` | the small instances: values of the constants | one per module that a run checks |
| `*_proofs` | the theorems about a module | EXTENDS that module, `TLAPS` |

### PriceStore, MinuteSync

`rows[s]`, `lastTs[s]`, `status[s]` are the tables. A bar is a natural number;
prices are left out. Runs are concurrent, and each has the local variables of
`_run_sync_inner` as functions of the run. An action ends where the code awaits:

* `StartRun` reads `last_ts_map` and classifies; `TakeChunk` takes the next
  `dhan_1min_persist_chunk_size` symbols and fixes the request window.
* `SendBatch`, `StopEarly`, `ReceiveBatch` are `_run_batched`: the budget is
  checked, one batch is out, then the answers come and the budget is charged.
  A failed request, an empty answer and an unasked symbol look alike, as in the
  code. An answer has every bar from `from_date` to the one it ends at, which
  may be any bar up to the clock and `to_date`, also one that is older than the
  bar the run had found. `served` and `short` are history variables: the newest
  bar Dhan ever answered with, and whose answer ended before a bar that it was
  asked for and had been served. No guard reads them.
* `IngestChunk` commits one chunk of `bulk_ingest`; records are ordered by
  symbol and time, so a chunk holds whole symbols and a prefix of one more.
  `RecordState` is the upsert, `PersistFails` and `MarkError` the caught
  errors, `RunDies` the uncaught ones, `Crash` a restart of the process, which
  also forgets the budget.
* `ResetTruncate` and `ResetDelete` are the two statements of `reset-1min`.

`ResetIsolated` is an assumption about operation, not a mechanism of the code:
with it a reset runs only while no sync is active and is not cut short. Without
it the guarantee does not hold (run `minute_reset`).

### DailySync

Time is counted in half days, before and after 15:30. `partial[s]` (a history
variable) are the bars that were stored while their session was open.
`StartRun` sorts symbols into the three lists, `TakeBatch` takes them in the
code's order, INITIAL, FETCH_TODAY, FETCH_GAP; `Since` is the start of a
request of each strategy. The last day of a request is fixed when it is sent,
since `started` when the run began: a run may work past midnight.

### FeedConnections

Managers are `start()`, `stop()` and the `POST /token` handlers; tasks are
WebSocket tasks with reusable ids. `listed` is `_tasks`, `connected` and
`running` are the client's event and flag. The code between two awaits of a
manager's loop (gather returns, create a task, wait) is split into `Restart`,
`Spawn` and `LoopEnds`; while a manager is at `"spawn"` nothing else may run
(`LoopFree`), so the split adds no interleaving. A wait on an event that is set
does not suspend; a waiter that was woken goes on even when the event has been
cleared again (`"woken"`). Cancellation is delivered later than it is
requested, and runs the two `finally`/`except` blocks of the task. A task that
was never started touches neither flag nor event. Back-off delays are left
out; the server refuses a token that expired.

`Serialized` is again an assumption: `start()`, `stop()` and the `POST /token`
do not overlap. A `POST /token` after `stop()` has returned is part of it: the
HTTP server goes on when `_main_loop` has failed, and `reconnect_all` connects
the stopped feed again. `stoppedAt` is a history variable, the token at the call
of `stop()`; `StoppedMeansClosed` says by it that what runs after `stop()` came
with a later `POST /token`. Not covered is a `POST /token` that `stop()`
overtakes: its wait may never end in the code, the serialized run excludes the
overlap and `EveryPostReturns` excuses it.

### OptionChain, RateLimit

The lock is a FIFO queue as in asyncio. A handler makes one or two calls and
queues again for the second. `age` is what the code measures, `sinceAnswer`
a history variable. `RateLimit` is what a caller may rely on;
`ImplementsRateLimit` is the refinement with `inFlight` := some handler is
posting and `quiet` := `sinceAnswer`.

### CandlePipeline

Time is counted in minutes of short days. A trade is named by its minute. Each
builder has the candle in progress, `_is_first`, the minute of the day of the
last tick (the fast path) and the history. `kept` travels with a tick (history
variable): the trades of its candle that were delivered and not dropped, which
is what a candle ought to contain. `Replay` is the packet with the last trade
that a new subscription begins with; `Stamp` dates it today, as `_parse_ltt`
does. Which Camarilla signals `detect_camarilla` finds in a candle is a free
choice (`hits`), since prices are left out. The four at H4 and L4 (breakout,
breakdown, two reversals) have a flag in `_SessionState` and are `OneShot`; the
reversals at H3 and L3 have none and are `Repeated`, given for every candle that
shows one, and `CamOncePerDay` does not speak of them. The handling of a tick, with `_check_session_reset` at its end,
is one action in four cases. The main loop is the only writer, and nothing it
calls between the tick and the reset can be overtaken by another writer.
`Minute` requires an empty queue at midnight: the exchange closes hours before.

### SignalStream

A signal is named by its place in the daily list and has a key, symbol:type.
`stream` is what the session has for the browser: the pub/sub buffer, the
asyncio queue and the socket are all first in, first out and lost together, so
they are one sequence, and handling its head is `onmessage`. `Subscribe` comes
before `ReadRecent`, which puts the replay in front of what was queued since.
`ReaderDies` is the reader task that only logs its error. `rows` are the rows
of the screen with `n` (timestamp), `_count` and `_fromCatchup`, which is
undefined (`"new"`) in a row that a live signal made and becomes true when
such a row is restored from the session's storage. The history variables `got`,
`cut` and `cleared` say what the browser was given, what the last replay left
out as too old, and what the user threw away. While the feed is paused the
buffer has no limit in the code; `MaxPending` bounds the length with which the
browser reconnects.

### SignalRegimes, SignalMetrics, SignalView

Two more sides of `useSignals`, each over rows of its own: what `SignalStream`
says of order and number of rows is not repeated. `SignalRegimes` has the
server's regime of a symbol (`market`), the rows with theirs, and the signals
held while paused, both as functions of the kind; `aged` and `missed` (history)
are the rows made of older signals and the symbols whose update went by while
the socket was down.
`SignalMetrics` has the set `fetching` that a symbol never leaves, the batch with
its timer, and the requests; `SortedFiltered` is the list the feed shows, by
`SignalView`'s rules. A signal without metrics yet passes a liquidity limit,
and so do the rows that a reload restores until a signal of theirs is pushed.

### LivePrices

`sharedPrices`, `stream` and `retries` belong to the browser's page; a view has
the symbols it watches, its listener and its request for metrics. A tick goes to
the table and to the views that listen; `MergeMetricPrice` lets what is shared
already win. `lastTick` (history) is the price each symbol last ticked at, so that
`LiveInEveryView` compares what a view shows with the tick itself and not with the
table the view copies from. The heat map is computed from a view's prices
(`HeatOf`, `VisibleEntries`).

### Arrangement

What `Array.prototype.sort` and `filter` return, without a recursion: the place
of an element is the number of those that stand before it. `Sooner`, in
`Screener` and in `SignalView`, is the comparison the code hands to `sort`, and
the places in the list where it says 0 (the sort is stable); `Picked` is a list
at the places a filter keeps.

### Screener, StockList

A row has the columns that filters and order look at; a symbol is its rank and a
percentage is in basis points. `drawn` is the state a callback of the last render
sees, so that two scroll events before a render send two requests with one
offset, which is what `overlapped` (history) notes. Answers come in any order
and each merges its page by symbol, as the `Map` in `loadMore` does.

The server's rows are not fixed. Every `GET /screener` loads the metrics again
(`precompute_daily(force=True)`, `instruments.py:90`) by a query without `ORDER BY`
(`_metrics_loader.py:12`) and adds the live prices of the moment, so `AnswerOk` cuts
each page from a snapshot of its own, any of `Snapshots`: values, order and number
of rows may differ from page to page. `listing` and `reordered` (history) are the
symbols the last load was answered from, in their order, and whether a page since
was cut from others.

### ChartData, DailyChart, LatestAnswer

What is drawn is named by its key, symbol and timeframe; `Bars(key)` gives the
bars, resampled for weeks (from Monday) and months. `current` marks the request
whose `aborted` is still false. The overlays are drawn when an answer comes, by
the frame it asks for, and from `dataRef` when an indicator is toggled, whatever
`dataRef` holds then: before the first answer of a new selection these are the
data of the one before. `DrawnDataSound` checks the pure part on what is drawn:
resampled bars against the bars served, and the profile, in units of a fraction
that makes its shares whole numbers, against the volume of the bars it was drawn
of. A group of resampled bars is told by the places of its bars (`Picked`), a
sum by its running sums, a recursive function, so that both can be reasoned
about. `Sound` is what `Served` may be: the routes answer a 404 without rows and
else rows in the order of their times, one for a time (the key of the table); that
a low is no higher than its high is taken from the data. `ImplementsLatestAnswer` maps `asked` to the selection and `shown` to the key
of the candles.

### ChainAssessment, SymbolModal

`AssessChain` adds the scores of volatility, spread, put-call ratio and volume,
with ratios compared by cross-multiplication. The panel's answers carry no
guard: each one is applied, and each ends the loading of all. `crossed`
(history) says that one came out of order.

### Notes, CockpitState

The browser's storage and the pages over it. A page reads when it mounts and
stores its own list of a name. `alive` (history) is what was written and not
taken away, `crossed` the names a page wrote without holding just those.
`CockpitState` splits the mounting in two: the effects of the first render read
the storage and then write the defaults, and the next render writes what was
restored; in between a page may be closed.

### Accounts

Data is the number of the server's change it has seen. A load is three requests
answered one by one; a save, a sync and an import change the server and then
load; nothing keeps them apart. `own` (history) is the last change made here.

### ServiceConfig

The service and one cockpit, with the other callers as PATCHes of any of the
settings, one, several or none: `updates` is any dictionary, and `save_overrides`
upserts the keys it has. A body is a function to `Values` or `None` (not given).
`ServeSave` is the transaction of `save_overrides`, `ServeApply` what follows
the await, for the settings given only; `Restart` applies what is stored and ends what was being served. The
pane starts from the page's `initialConfig`, however old, loads, edits, and
sends all it shows. `version`, `seen`, `edited`, and, setting by setting,
`savedBy`, `appliedBy` (the PATCH that stored it and the one that applied it last)
and `raced` are history variables.

### Pipeline

The Zerodha sync, then the daily and the 1-minute sync side by side; a step of a
stream is its end. `running` is the ref that bars a second run.

## 3. Runs

| Run | Instance | Shows |
|---|---|---|
| `minute_sync` | 1 symbol, 2 runs, 2 bars a day, window 2 days, budget 3, clock to 4, resets isolated | `HistoryComplete`, `WatermarkStored`, `BudgetHeld`, `RegressionExplained` |
| `minute_reset` | the same, resets at any time | violation of `HistoryComplete` |
| `daily_sync` | 1 symbol, 2 runs, a holiday, history 2 days, clock to 6 half days | `HistoryComplete`, `SkipAgreesWithReport`, `OnlyGapsStoreOpenSession` |
| `daily_skip` | 2 symbols, 1 run | violation of `SkipMeansCurrent` |
| `option_chain` | 3 handlers, pause of 2 | `ImplementsRateLimit`, `EveryHandlerReturns` |
| `feed_connections` | 2 clients, 2 handlers, 3 tasks, 2 new tokens, serialized | `OneConnectionPerClient`, `EventMeansUp`, `StoppedMeansClosed`, `NoStaleConnection`, `NoSilentEnd`, `EveryClientConnects` |
| `feed_concurrent` | 1 client, 2 handlers, not serialized | `EveryPostReturns` |
| `feed_overlap` | 1 client, 4 tasks, not serialized | violation of `OneConnectionPerClient` |
| `candle_pipeline` | 1 equity, 1 future, a signal with a flag and one without, 2 days of 4 minutes, candles of 2, history 2, queue 1 | `CandleComplete`, `HistoryOfTheSession`, `CamOncePerDay` |
| `signal_stream` | 3 keys, replay of 2, 2 rows, 3 signals, reconnects with at most 1 buffered message | `NothingMissed`, `SameScreen`, `EverySignalArrives` |
| `cockpit_views` | seven views, see below | `EverythingMatchingShown`, `ImplementsLatestAnswer`, `ChartAgrees`, `DrawnDataSound`, `WrongChainOnlyWhenLate`, `IlliquidNeverFavourable`, `RegimeCurrent`, `IlliquidListedOnlyUnanswered`, `AccountsSettled`, `SavesOnlyEdits`, `SavedIsApplied` |
| `cockpit_panels` | four panels, see below | `LiveInEveryView`, `TopMovers`, `NotesKept`, `SettingsKept`, `PipelineEnds` |

`minute_sync` and `cockpit_views` check `TypeOK` too; the other modules state
theirs, and it holds in the instance of their run. For every property of a
passing run the module holds a variant of one definition, commented `Mutant:`,
that breaks it: a reserve forgotten, a guard dropped, an event left set.

### The runs of the cockpit

The modules of the cockpit share no state: each view talks to the services by
its own requests, and what two of them read of the same hook is inside one
module. `CockpitViews` and `CockpitPanels` therefore instantiate several of
them, and one run checks each. A variable (`view`, `panel`) is chosen at the start, and a
behaviour takes the steps of that one only, while the others stay as they
started. The reachable states are the disjoint union of those of the modules,
so an invariant holds in the run exactly when it holds in its module's own
instance; a temporal property of one of them is trivial for the behaviours of
the others and says all it says for its own.

### Why the bounds are enough

* Syncs: bars of different symbols meet only in chunk boundaries and in shared
  errors, which `HistoryComplete` does not relate; two runs are enough for every
  stale read and lost update of one symbol, and the clock reaches past the
  window so that it slides, the clamp bites and a new day resets the budget.
  The proofs below do away with all these bounds for both syncs.
* `FeedConnections`: two clients show the order of the manager's loop; three
  tasks are one more than the connections of a serialized reconnect, whose old
  tasks end before new ones start. The unserialized runs use one client, where
  the races are between handlers of the same client.
* `OptionChain`: three handlers make a queue of more than one waiter; a pause
  of two has a proper part.
* `CandlePipeline`: two days with a minute outside the session between them, a
  first, a full and a cut candle on each, a history that overflows, and a queue
  that overflows at the second tick.
* `cockpit_views`. Stock list: four requests, for pages of two from four rows, so
  that a page can be skipped, fetched twice, or empty, and a row without prices;
  from the same with another price; and from three of them in another order. Chart: a symbol
  with five bars over three weeks and a month's end, a Sunday and a bar that traded
  at the highest price alone among them, and one with a single price, two requests on the way. Modal: two expiries, one
  untraded, and a symbol without options, five requests. Accounts: the first
  load and two more beside one change of any kind. Configuration: two settings
  of two values, two requests of which each may give one, both or none, one restart
  between their steps. Metrics: one
  symbol liquid, one not, one unknown to the server. Larger instances agree:
  accounts with two changes (20 million states).
* `cockpit_panels`: two views and two symbols with two prices; two pages, one
  name that is a symbol and one that is a signal, each with a legacy note; two
  pages and three settings, one stored value that is no longer valid; the
  pipeline needs no bound.
* `SignalStream`: three keys on two rows drop a row; three signals are more
  than a replay of two, so that one can be too old; drops, reconnects, pauses
  and reloads are not counted. The code's replay (50) is shorter than its list
  (200), and the theorems of section 4 are about every length of both. The safety
  properties were also checked once with a list of 3, a replay of 2 and 4 signals
  (7.6 million states): a replay that breaks off in front of a longer list is what
  gives `NewestFirst` its exception.

`CHECK_DEADLOCK FALSE` is stated where a clock, tokens or requests are bounded, so
that the model may come to its end; `OptionChain` has no such bound and is
checked for deadlock.

### Fairness

* `OptionChain`: weak fairness of the clock and of every handler's next step.
  The event loop runs what can run, and the HTTP client's timeout ends a
  request.
* `FeedConnections`: weak fairness of managers and tasks. The token is read and
  a dial with a valid token succeeds if repeated for ever (strong fairness of
  `ReadToken` and `Connect`): the loop retries for ever, so this says that the
  network and Redis are not down for good. No fairness is given to `Fail`,
  `Expire`, `StoreToken` or `Stop`. The liveness properties leave out the cases
  in which the token has expired and nobody posted a new one, and in which the
  feed is stopped: there a handler does wait for ever.
* `SignalStream`: weak fairness of the browser's retry (a timer), of the
  session's read of the history, and of `onmessage`. `EverySignalArrives` is
  about a connection that stays up with a reader that lives; when the reader
  dies the socket stays open and silent, and nothing makes the browser connect
  again.
* `Pipeline`: weak fairness of the end of a stream (an answer, an error, or a
  close: `readSSE` has no timeout, that a stream ends is the server's promise)
  and of what follows it in the browser, which is the microtask queue.

### What the violations say

1. `minute_reset`: `reset-1min` beside a run can leave `last_data_ts` set over
   an empty table; the promised full re-fetch then never happens.
2. `daily_skip`: a bar stored before 15:30 is never replaced (`DO NOTHING`),
   while `SKIP` is documented as "data is current".
3. `feed_overlap`: two overlapping `POST /token` leave two live connections of
   a client, one of which is on no list and cannot be stopped.

### What the exceptions say

Some properties are stated with the exceptions that the code makes, so that
they say exactly what remains. What the exceptions stand for:

* `CamOncePerDay`, `HistoryOfTheSession`: the reset comes with and after the
  first tick of a day; that tick ends yesterday's last candle, whose signal is
  dated today (`docs/SIGNAL_ENGINE.md:234` puts the reset at midnight). A
  replayed trade of yesterday is dated today.
* `RateLimit`: the call time is stamped after the answer, so after a request
  that raises the next one leaves at once.
* `EverythingMatchingShown`: overlapping requests may skip a page for good, and so
  may a page cut from other symbols, or the same in another order, than the load:
  a symbol that moved over the end of a page is missing although `has_more` is
  false, until the next load. That a symbol is shown once, and that what is shown
  passes and is in order, has no exception.
* `ChartAgrees`: while a chart loads, and after an error, toggling an indicator
  draws the averages and the profile of the selection before; the frame after
  an answer draws the profile of all bars, not of those in sight.
* `DrawnDataSound`: a bar whose low and high both are the highest price in sight
  begins in the bucket after the last one and ends in the last one, so
  `buildVolumeProfile` (`chartUtils.ts:148`) spreads its volume over no bucket:
  the profile holds the volume of the other bars (`SpreadVolume`).
* `WrongChainOnlyWhenLate`: a late answer replaces the chain of another expiry,
  and the verdict on the previous chain stays above an error.
* `SameScreen`: a replay puts every signal it brings in front. When it breaks off
  in the middle, the ones it brought stand before newer rows, and the next
  replay moves them no more if by then they are too old for it. So the rows are
  in order, newest first, down to the first one that is older than the last
  replay (`NewestFirst`).
* `RegimeCurrent`: regime updates are not replayed, and an updated row keeps the
  regime it had.
* `IlliquidListedOnlyUnanswered`: a symbol whose batch failed is never asked
  for again.
* `NotesKept`, `SettingsKept`: two pages overwrite each other; a legacy note
  comes back when the last of its list is deleted; a page closed while mounting
  leaves the defaults behind.
* `AccountsSettled`: a sync whose request is rejected leaves the panel loading;
  an older load that ends last shows its older data. The message of a save does
  not outlive the load that follows it.
* `SavesOnlyEdits`, `SavedIsApplied`: a setting changed by somebody else since the
  pane's answer is set back; two PATCHes of a setting that are at once between
  their two steps may apply it in the other order than they stored it, and leave it
  different from the stored override until a restart or the next PATCH of it
  (`raced`).
* `PipelineEnds`: when Zerodha's step fails the other steps stay idle, so the
  pane's "Pipeline failed", which waits for all of them, is never shown.

One difference of a document that no run is about: `docs/FRONTEND.md:322` gives
`nearpdh` as "within 2% of prior day high", the code takes 0.5 %.

## 4. Proofs

TLAPS checks the theorems below for every value of the constants that the named
assumptions allow, so without the bounds of the runs.

| Module | Theorem | Property | Beside the modules' `ASSUME`s |
|---|---|---|---|
| `MinuteSync_proofs` | `TypeCorrect` | `TypeOK` | |
| | `NoSilentHole` | `HistoryComplete` | `ResetIsolated` |
| | `WatermarkIsStored` | `WatermarkStored` | `ResetIsolated` |
| | `QuotaHeld` | `BudgetHeld` | `IsFiniteSet(Runs)`, `Cardinality(Runs) * Rate <= Safety + 1` |
| | `GoesBackOnlyExplained` | `RegressionExplained` | |
| `DailySync_proofs` | `TypeCorrect` | `TypeOK` | |
| | `NoSilentHole` | `HistoryComplete` | |
| | `SkipAgrees` | `SkipAgreesWithReport` | |
| | `SnapshotsOnlyOfGaps` | `OnlyGapsStoreOpenSession` | |
| `OptionChain_proofs` | `TypeCorrect` | `TypeOK` | |
| | `MutualExclusion` | `OneHolder` | |
| | `RateLimitImplemented` | `ImplementsRateLimit` | |
| `FeedConnections_proofs` | `TypeCorrect` | `TypeOK` | |
| | `OneConnection` | `OneConnectionPerClient` | `Serialized` |
| | `EventTellsTheTruth` | `EventMeansUp` | `Serialized` |
| | `StopCloses` | `StoppedMeansClosed` | `Serialized` |
| | `NoLoopEndsSilently` | `NoSilentEnd` | `Serialized` |
| | `NoConnectionIsStale` | `NoStaleConnection` | `Serialized` |
| `CandlePipeline_proofs` | `TypeCorrect` | `TypeOK` | |
| | `CandlesAreComplete` | `CandleComplete` | |
| | `HistoryIsOfTheSession` | `HistoryOfTheSession` | |
| | `BreakoutOncePerDay` | `CamOncePerDay` | |
| `SignalStream_proofs` | `NoHoleBetweenReplayAndStream` | `NothingMissed` | |
| | `ScreenIsTheSame` | `SameScreen` | |
| `CockpitViews_proofs` | `AccountsComeToRest` | `AccountsSettled` | |
| | `SettingsSurviveRestart` | `SavedIsApplied` | |
| | `OnlyEditsAreSaved` | `SavesOnlyEdits` | |
| | `LoadedChartAgrees` | `ChartAgrees` | |
| | `ChartImplementsLatestAnswer` | `ImplementsLatestAnswer` | |
| | `WrongChainIsLate` | `WrongChainOnlyWhenLate` | |
| | `IlliquidIsNotFavourable` | `IlliquidNeverFavourable` | |
| | `RegimesAreCurrent` | `RegimeCurrent` | |
| | `EveryMatchIsShown` | `EverythingMatchingShown` | |
| | `IlliquidIsUnanswered` | `IlliquidListedOnlyUnanswered` | |
| | `WhatIsDrawnIsSound` | `DrawnDataSound` | |
| | `ViewsHaveTheirTypes` | `TypeOK` | |
| `CockpitPanels_proofs` | `ChoicesSurvive` | `SettingsKept` | |
| | `LastTickShown` | `LiveInEveryView` | |
| | `NotesAreKept` | `NotesKept` | |
| | `TopMoversShown` | `TopMovers` | |

### Assumptions

The modules' `ASSUME`s give the constants their kinds (a positive window, a
`None` that is no symbol, price or expiry; a number or `None` in every column
that is filtered or sorted; one stock for a symbol; finitely many metrics; `Sound`
bars and at least one bucket for the chart; room for two requests of the chain
panel, whose answer with the expiries always sends the second); TLC evaluates
them in the runs.
Three hypotheses are of another kind and are stated in the theorems:

* `ResetIsolated` and `Serialized` are about operation: no reset beside a sync,
  no `POST /token` beside `start()`, `stop()` or another one. The runs
  `minute_reset` and `feed_overlap` show that the guarantees fail without them.
* `QuotaHeld` needs a reserve that covers a batch of every run that may
  overlap. With the code's defaults, two requests a second and a reserve of
  100, that allows fifty runs.

### The arguments

`MinuteSync`. `HistoryComplete` is not inductive: it says nothing of what a run
has downloaded and not yet inserted. The invariant is

    IInv == TypeOK /\ StoreInv /\ ResetAlone /\ \A r \in Runs : RunInv(r)

* `StoreInv`: outside the two statements of a reset, a recorded last bar is
  stored and the table covers the window up to it, and "synced" means that
  there is one.
* `ResetAlone`: between these statements no run is active.
* `RunInv(r)`: the table covers the window up to `seen[r][s]` for every symbol
  the run has read and, while it fetches or persists, below `from[r][s]`; the
  newest downloaded bar, once `from[r][s]` has passed it, is stored.

A request starts on the day of the bar the run has read, or at the first day of
the window; what lies before is covered already (`FromBarCovered`). An ingest
chunk adds the bars from `from` on without a gap (`CoversInsert`), so when
nothing is pending the table covers the window up to `newest`, and writing it to
`sync_state` keeps `StoreInv`, even when it lowers another run's later value.
`Covers` grows with the table and the window only slides forward
(`WindowSlides`), so other runs' facts survive (`CoversStable`).
The budget has an invariant of its own (`QuotaInv`): the requests sent are at
most those counted and those in flight, and a batch is sent only below the
budget less the reserve. `InFlightBound` counts what is in flight by an injection into
pairs of a run and a place in its batch. `ServedInv` says that
what `sync_state`, a run's snapshot and its results hold was served once;
`ReachInv` that what a run downloads reaches the bar it found, unless its answer
was a short one. So another run's record can be lowered, or what Dhan no longer
answers with; nothing else goes back.

`DailySync`. The shape is the same, with sessions for bars. `FetchInv` says that
what is stored together with what a run holds covers the history up to the
newest bar it will record, so any prefix of a persist is safe; `ActionInv` ties
a run's downloads to its classification and to the day on which it was started.

`OptionChain`. The queue of the lock has every busy handler once and only its
first member works (`LockInv`); whoever sends has slept until the pause was over
and nobody can stamp a new answer in between (`PauseInv`). `LimitNext` maps each
step to one of `RateLimit` or to a stutter.

`FeedConnections`. At most one manager is at work (`ManagerInv`, from
`Serialized`); every live task is on the list and no two are of one client
(`TaskInv`), so a reconnect that gathered the list has ended every task, and in
its loop live tasks belong to the clients it has come to (`LoopInv`), with
connections of its token (`TokenInv`). Once `stop()` has returned, whatever is at
work or runs has a later token (`StopInv`). A task's own steps are summed up once, in
`TaskChange`: it ends only when cancelled and touches the flag and event of its
own client.

`CandlePipeline`. `QueueInv`: the ticks of an instrument are queued in the order
of their trades, each with trades of its own candle. `KeptInv` says where a
delivered trade is (`Accounted`): in a tick still queued, in the candle in
progress or in one of the history, or in a candle that is to be discarded;
`BuildersInv` relates each builder to the ticks still to come and to the session
(`BuilderOK`). One lemma per case of the handling of a tick (added, candle ended,
reset) shows that all of this survives, a queue that drops its oldest included,
for what it drops leaves `kept`. `GivenInv` ties the signals of a day that have
a flag to the flag that the reset clears.

`SignalStream`. With an open session that is listened to, what is neither older
than the replay nor received is in the way to the browser (`NoHole`). The
order of `Subscribe` before `ReadRecent` is what makes it inductive.
The screen is compared with `Way`, the buffer of the pause and then the stream:
what the browser still has to push. `ScreenInv` says that live signals are in
order on it (`Ascending`), that no row has counted a signal that is still to come
(`Counted`), and, while the session is open and listened to, that from any message
on every newer signal still follows (`Complete`), that a key whose last signal
does not follow shows it or was crowded out (`Shown`), and that before a signal
that does not follow there are only newer ones (`Ordered`). `Complete` makes the
last two survive a push: what is pushed is older than nothing that does not follow
(`PushedIsNewer`). `PushIs` says what `pushSignal` does to the list; the end of a
pause pushes the buffer place by place (`Flushed`), and an induction over its
places by the least-number principle (`PlaceByPlace`) carries the invariant along
(`FlushKeeps`).

`CockpitViews`, `CockpitPanels`. A step of the cockpit is a step of the one view
the property is about, or leaves its variables alone; then

* accounts: a load that began last is later than every change made here
  (`NewestInv`), and "loading" has a reason (`LoadingInv`);
* configuration: what a pane holds differs from the settings only where it was
  edited or where somebody changed a setting since its answer (`Told`, in
  `PageInv` and `PatchesInv`). For each setting: a PATCH that stored it last and has
  not applied it gives what is stored, and unless two of them raced the one that
  applied it last is the one that stored it last, or that one is still to apply it
  (`MarkInv`, `OrderInv`);
* chart: the request that counts is for the selection, and nothing is drawn as
  candles while it is on the way (`LatestInv`); `ChartImplementsLatestAnswer`
  maps each step to one of `LatestAnswer` or to a stutter;
* modal: only the newest request is for the selected expiry (`AsksInv`), so a
  chain of another one came late. The verdict is an argument about sums of scores, and the
  nearest strike exists by the least-number principle (`LeastOfNats`);
* settings: while a single page mounts, the storage has its defaults and the
  page what was chosen (`SettingsInv`);
* live prices: the shared table, and every view that watches the symbol, have the
  price of its last tick, which metrics never replace (`MergeKeepsTick`);
* regimes: a row is made of its symbol's regime or is noted as aged, and an
  update changes every row of its symbol or is missed (`RegimesInv`);
* notes: the numbers of a page's list differ (`NotesInv`), so deleting one
  leaves the others (`RemoveOne`), and a list that replaces the stored one holds
  what is alive unless the page did not hold it before;
* stock list: unless requests overlapped there is at most one, for the next page
  or for the first; unless the server's order changed too, the symbols of the rows
  are the first `n` of the listing, with everything up to the offset among them; in
  any case the rows are rows of snapshots, one for a symbol (`ListInv`). `MergeIs`
  says what a merge makes: what the rows had is replaced in place, the rest is
  appended, so a page merged into a prefix that reaches it makes a prefix of
  symbols again. At the end these are all there are;
* metrics: a listed symbol was asked for since the last reload or was restored by
  it; asked for, it is in the batch with the timer running, in a request, refused,
  or its metrics are known (`MetricsInv`). What is listed passed the filter,
  so an illiquid one has none yet (`ListedPass`);
* heat map: the entries are finitely many, one for a symbol, so that move and
  symbol order them totally, and the first `n` of a side are `n` or all
  (`FirstRanks`, `FirstOfMoves`).

The last three need that an order puts everything in a place. In a finite set with a
strict total order the number of those before a member takes each value below
the cardinality once (`AheadIsRank`, by a bijection with an interval), so
`Arranged` has each member once and in order (`ArrangedIs`, `PickedIs`), and
the stable comparison of a column is such an order and puts nothing before what
its column puts first (`StableOrder`).

What the chart draws is arithmetic on lists of any length, and the provers have no
induction over data. Its place is taken by `PlaceByPlace`: a set of the places
`0 .. n` that holds 0 and with every place the next one holds all (else there
would be a least place outside it). With it `RunningIs` and `FactorialIs` show
that the recursive functions exist and are what their definitions say, `OneSum`
that the sum is unique, and `SumOfPiece`, `SumOfInterval`, `SumOfTable` (a table
is summed by its rows or by its columns) what is needed of sums. Then

* groups: the keys of weeks and months never fall along the bars
  (`MondaysAscend`, and `Sound` for months), so the bars of a key are a piece
  without a gap and the pieces follow one another (`GroupIs`). Each has the open of
  its first bar, the close of its last, its extremes and its volume
  (`BarOfGroup`); volumes of pieces are differences of running sums, so they add
  up to the whole (`GroupedIs`);
* profile: a bar puts `Scale * volume / k` into each of its `k` buckets, which are
  `Scale * volume` in all since `Scale` is a multiple of `k` (`ScaleDivides`),
  unless its low already falls past the last bucket (`BucketIs`,
  `SharesOfBar`); the rows of the profile are the other way to sum the same table
  (`ProfileSpreads`). `ChartTypesInv` says that the piece in sight is within the
  bars.

The types of the views are inductive with few additions, which say why a bound
holds: the rows of the stock list are of snapshots (`ListInv`); the request for the expiries is the panel's first (`ModalTypesInv`),
so that its answer has room for the next; the batch of metrics and the requests
are of symbols in `fetching` (`FetchTypesInv`); no setting was changed later than
the service has served (`PaneTypesInv`).

### What is only model-checked

* Liveness (`EveryHandlerReturns`, `EveryClientConnects`, `EveryPostReturns`,
  `EverySignalArrives`, `PipelineEnds`): out of the prover's reach.
* The three runs that expect a violation.

Every other property of a run, invariant, action property or refinement, is
stated by a theorem.

## 5. Not modelled

* OHLCV values and what the services compute from them: indicators, regimes,
  metrics, levels, the content of an option chain (also that a 429 is answered as "no
  expiries" or as an empty chain); `auto_adjust` mixing price scales.
* Pattern detection of the signal engine, the range breakout's per-candle guard
  and the cluster filter's counts; pages of the signal history.
* The tick's fields other than instrument and time; subscription batches of
  instruments; back-off delays.
* The budget across restarts: nothing carries it over, `BudgetHeld` is a
  statement about a process.
* The Zerodha sync and its trade reconstruction: the sync of an account is one
  transaction between the committed `running` row of `start_run` and the row
  that ends it; when the process stops in between, nothing ends that row.
  Reconstruction, charges and performance are pure functions of tables.
* In the cockpit: rendering, wording, colours, the pixels of charts, flashing
  prices (`LivePrice`), the token and Zerodha panes, whose forms send one request
  and show its answer; the second run of effects that React's development mode
  adds; functions that the application never calls (`computeBreadthStats`,
  `sortRows`, `isRangeActive`).
* Migrations, the connection pool, XLSX and P&L imports, dashboards, read-only
  routes, rendering: pure I/O or pure functions of tables.

## 6. Plan

Modelled and checked: the syncs, the feed, the candles, the signal stream, the
option chain, the configuration and the state of the cockpit. Proved: section 4.
What is left to model is the rest of the signal path (the cluster filter's counts,
pages cut from a list that grows, SSE) and the Zerodha sync.
