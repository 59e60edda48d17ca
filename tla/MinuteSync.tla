----------------------------- MODULE MinuteSync -----------------------------
(***************************************************************************)
(* The 1-minute price sync of DataSyncService: MinuteSyncService._run_sync *)
(* _inner, DhanHistoricalFetcher._run_batched with its daily request       *)
(* budget, SyncStateWriter.persist, and POST /sync/reset-1min.             *)
(*                                                                         *)
(* Nothing in the service excludes two runs at once (run-1min, run-1min-   *)
(* sse and run-all all start one), so Runs are concurrent; every await of  *)
(* a run ends an action.  A crash of the process ends every run and every  *)
(* open request and keeps the database.                                    *)
(*                                                                         *)
(* Time is counted in bars, BarsPerDay to the day.                         *)
(***************************************************************************)
EXTENDS PriceStore

CONSTANTS
  Runs,           \* concurrent runs of run_sync
  BarsPerDay,     \* bars of one trading day
  WindowDays,     \* _INITIAL_HISTORY_DAYS = _MAX_DAYS_PER_REQUEST (90)
  SkipBars,       \* _SKIP_STALENESS_SECONDS, in bars
  Rate,           \* dhan_1min_rate_per_sec: requests of one batch
  ChunkSize,      \* dhan_1min_persist_chunk_size
  Budget,         \* dhan_daily_budget
  Safety,         \* dhan_budget_safety
  MaxClock,       \* bound: the last bar of the model
  ResetIsolated   \* TRUE: reset-1min only while no sync runs, and undisturbed

ASSUME MinuteAssumption ==
  /\ BarsPerDay \in Nat \ {0} /\ WindowDays \in Nat \ {0}
  /\ SkipBars \in Nat \ {0} /\ Rate \in Nat \ {0} /\ ChunkSize \in Nat \ {0}
  /\ Budget \in Nat /\ Safety \in Nat /\ MaxClock \in Nat
  /\ ResetIsolated \in BOOLEAN

VARIABLES
  clock,        \* the bar in progress
  pc,           \* pc[r]: where run r stands
  seen,         \* seen[r][s]: last_ts_map, read when the run started
  initial,      \* initial[r]: INITIAL symbols not yet taken into a chunk
  incremental,  \* incremental[r]: FETCH_INCREMENTAL symbols, likewise
  chunk,        \* chunk[r]: the symbols being fetched and persisted
  queue,        \* queue[r]: symbols of the chunk not yet requested
  flight,       \* flight[r]: symbols requested and not yet answered
  from,         \* from[r][s]: next bar of s to insert, at first from_date
  upTo,         \* upTo[r]: the bar after to_date of the chunk's requests
  newest,       \* newest[r][s]: df.index.max() of the answer, NoTs if none
  used,         \* _daily_used
  usedDay,      \* _reset_day
  sent,         \* requests sent today by this process (history variable)
  resetPc,      \* "idle", or "truncated" between the statements of a reset
  served,       \* served[s]: newest bar of s Dhan ever answered (history variable)
  short         \* short[r]: symbols of the chunk whose answer ended before a bar
                \* that it was asked for and Dhan had served (history variable)

planVars   == <<seen, initial, incremental>>
chunkVars  == <<chunk, queue, flight, from, upTo, newest, short>>
runVars    == <<pc, planVars, chunkVars>>
budgetVars == <<used, usedDay, sent>>
vars       == <<storeVars, clock, runVars, budgetVars, resetPc, served>>

RunStates == {"idle", "next", "batch", "await", "persist", "mark"}

TypeOK ==
  /\ StoreTypeOK
  /\ clock \in Nat
  /\ pc \in [Runs -> RunStates]
  /\ seen \in [Runs -> [Symbols -> Ts]]
  /\ initial \in [Runs -> SUBSET Symbols]
  /\ incremental \in [Runs -> SUBSET Symbols]
  /\ chunk \in [Runs -> SUBSET Symbols]
  /\ queue \in [Runs -> SUBSET Symbols]
  /\ flight \in [Runs -> SUBSET Symbols]
  /\ from \in [Runs -> [Symbols -> Nat]]
  /\ upTo \in [Runs -> Nat]
  /\ newest \in [Runs -> [Symbols -> Ts]]
  /\ used \in Nat /\ usedDay \in Nat /\ sent \in Nat
  /\ resetPc \in {"idle", "truncated"}
  /\ served \in [Symbols -> Ts]
  /\ short \in [Runs -> SUBSET Symbols]

NoneSeen == [s \in Symbols |-> NoTs]
NoBars   == [s \in Symbols |-> 0]

Active(r) == pc[r] # "idle"

-----------------------------------------------------------------------------
(* Days, the request window, the classification of a symbol, the budget.   *)

Day(t) == t \div BarsPerDay

DayStart(t) == BarsPerDay * Day(t)

\* Mutant: a window that is not cut off at the first day.
WindowStartUncut(t) == BarsPerDay * (Day(t) - WindowDays)

\* First bar of the WindowDays calendar days that end today.
WindowStart(t) ==
  IF Day(t) >= WindowDays THEN BarsPerDay * (Day(t) - WindowDays + 1) ELSE 0

\* Mutant: no staleness limit, every synced symbol is fetched again.
ClassifyNoSkip(last, now) == IF last = NoTs THEN "INITIAL" ELSE "FETCH_INCREMENTAL"

\* classify_minute
ClassifyMinute(last, now) ==
  IF last = NoTs THEN "INITIAL"
  ELSE IF now - last < SkipBars THEN "SKIP" ELSE "FETCH_INCREMENTAL"

\* Mutant: an incremental request starts on the day after the last bar.
FromNextDay(last, now) ==
  IF last = NoTs THEN WindowStart(now) ELSE DayStart(last) + BarsPerDay

\* from_date of a request: the whole window (fetch_initial), or the day of the
\* last bar clamped to the window (fetch_incremental).
FromBar(last, now) ==
  IF last = NoTs \/ DayStart(last) < WindowStart(now)
  THEN WindowStart(now)
  ELSE DayStart(last)

\* The bar after the last one of to_date, which is today.
ToBar(now) == DayStart(now) + BarsPerDay

\* _maybe_reset: the count that a check made now would see.
UsedToday == IF usedDay = Day(clock) THEN used ELSE 0

MaybeReset == used' = UsedToday /\ usedDay' = Day(clock)

\* Mutant: the safety reserve is forgotten.
BudgetNoReserve == UsedToday < Budget

\* _budget_ok
BudgetOk == UsedToday + Safety < Budget

-----------------------------------------------------------------------------

Init ==
  /\ StoreInit
  /\ clock = 0
  /\ pc          = [r \in Runs |-> "idle"]
  /\ seen        = [r \in Runs |-> NoneSeen]
  /\ initial     = [r \in Runs |-> {}]
  /\ incremental = [r \in Runs |-> {}]
  /\ chunk       = [r \in Runs |-> {}]
  /\ queue       = [r \in Runs |-> {}]
  /\ flight      = [r \in Runs |-> {}]
  /\ from        = [r \in Runs |-> NoBars]
  /\ upTo        = [r \in Runs |-> 0]
  /\ newest      = [r \in Runs |-> NoneSeen]
  /\ used = 0 /\ usedDay = 0 /\ sent = 0
  /\ resetPc = "idle"
  /\ served = NoneSeen
  /\ short = [r \in Runs |-> {}]

\* The local variables of a chunk, and of a run, go out of scope.
ForgetChunk(r) ==
  /\ queue'  = [queue EXCEPT ![r] = {}]
  /\ flight' = [flight EXCEPT ![r] = {}]
  /\ from'   = [from EXCEPT ![r] = NoBars]
  /\ upTo'   = [upTo EXCEPT ![r] = 0]
  /\ newest' = [newest EXCEPT ![r] = NoneSeen]
  /\ short'  = [short EXCEPT ![r] = {}]

ForgetPlan(r) ==
  /\ seen'        = [seen EXCEPT ![r] = NoneSeen]
  /\ initial'     = [initial EXCEPT ![r] = {}]
  /\ incremental' = [incremental EXCEPT ![r] = {}]

GoTo(r, place) == pc' = [pc EXCEPT ![r] = place]

Tick ==
  /\ clock < MaxClock
  /\ clock' = clock + 1
  /\ sent' = IF Day(clock + 1) = Day(clock) THEN sent ELSE 0
  /\ UNCHANGED <<storeVars, runVars, used, usedDay, resetPc, served>>

\* run_sync starts: last_ts_map is read once, every symbol is classified, and
\* remaining_budget() is logged, which resets the count on a new day.
StartRun(r) ==
  /\ ~Active(r)
  /\ ResetIsolated => resetPc = "idle"
  /\ GoTo(r, "next")
  /\ seen' = [seen EXCEPT ![r] = lastTs]
  /\ initial' = [initial EXCEPT ![r] =
       {s \in Symbols : ClassifyMinute(lastTs[s], clock) = "INITIAL"}]
  /\ incremental' = [incremental EXCEPT ![r] =
       {s \in Symbols : ClassifyMinute(lastTs[s], clock) = "FETCH_INCREMENTAL"}]
  /\ MaybeReset
  /\ UNCHANGED <<storeVars, clock, chunkVars, sent, resetPc, served>>

\* Mutant: the results are one dictionary of the fetcher, not one of the call.
SharedResults(r) ==
  [s \in Symbols |-> LET held == {q \in Runs : newest[q][s] # NoTs}
                     IN  IF held = {} THEN NoTs ELSE newest[CHOOSE q \in held : TRUE][s]]

\* _run_batched begins without a result.
NoResults(r) == NoneSeen

\* The next chunk, INITIAL symbols first, then the incremental ones, and its
\* requests (fetch_initial, fetch_incremental).  A symbol whose last day lies
\* in the future is not requested.
TakeChunk(r, c) ==
  /\ pc[r] = "next"
  /\ \/ Slice(c, initial[r], ChunkSize)
     \/ initial[r] = {} /\ Slice(c, incremental[r], ChunkSize)
  /\ initial' = [initial EXCEPT ![r] = @ \ c]
  /\ incremental' = [incremental EXCEPT ![r] = @ \ c]
  /\ chunk' = [chunk EXCEPT ![r] = c]
  /\ LET asked == {s \in c : seen[r][s] = NoTs \/ Day(seen[r][s]) <= Day(clock)}
     IN  /\ queue' = [queue EXCEPT ![r] = asked]
         /\ GoTo(r, IF asked = {} THEN "persist" ELSE "batch")
  /\ from' = [from EXCEPT ![r] = [s \in Symbols |-> FromBar(seen[r][s], clock)]]
  /\ upTo' = [upTo EXCEPT ![r] = ToBar(clock)]
  /\ newest' = [newest EXCEPT ![r] = NoResults(r)]
  /\ UNCHANGED <<storeVars, clock, seen, flight, short, budgetVars, resetPc, served>>

\* Both lists are done: the run returns (and reports remaining_budget()).
FinishRun(r) ==
  /\ pc[r] = "next"
  /\ initial[r] = {} /\ incremental[r] = {}
  /\ GoTo(r, "idle")
  /\ ForgetPlan(r)
  /\ MaybeReset
  /\ UNCHANGED <<storeVars, clock, chunkVars, sent, resetPc, served>>

\* _run_batched: a batch of Rate requests leaves if the budget allows it.
SendBatch(r, b) ==
  /\ pc[r] = "batch"
  /\ BudgetOk
  /\ Slice(b, queue[r], Rate)
  /\ queue' = [queue EXCEPT ![r] = @ \ b]
  /\ flight' = [flight EXCEPT ![r] = b]
  /\ GoTo(r, "await")
  /\ MaybeReset
  /\ sent' = sent + Cardinality(b)
  /\ UNCHANGED <<storeVars, clock, planVars, chunk, from, upTo, newest, short,
                 resetPc, served>>

\* The budget is spent: the rest of the chunk is never requested.
StopEarly(r) ==
  /\ pc[r] = "batch"
  /\ ~BudgetOk
  /\ queue' = [queue EXCEPT ![r] = {}]
  /\ GoTo(r, "persist")
  /\ MaybeReset
  /\ UNCHANGED <<storeVars, clock, planVars, chunk, flight, from, upTo, newest,
                 short, sent, resetPc, served>>

\* The bars an answer that arrives now may end at: any one up to the bar in
\* progress and to to_date.
NewestBars(r) == {t \in 0 .. clock : t < upTo[r]}

\* The symbols that get bars from the answers top.
Filled(r, top) == {s \in flight[r] : top[s] # NoTs /\ from[r][s] <= top[s]}

\* The answer ends before a bar that the request covers and Dhan has served.
EndsShort(r, s, top) == served[s] # NoTs /\ top < served[s] /\ top < upTo[r] - 1

\* The answers of a batch: for each symbol the bars from its from_date up to
\* top[s], or nothing (an error of any kind is an empty frame).
ReceiveBatch(r, top) ==
  /\ pc[r] = "await"
  /\ newest' = [newest EXCEPT ![r] =
       [s \in Symbols |-> IF s \in Filled(r, top) THEN top[s] ELSE newest[r][s]]]
  /\ short' = [short EXCEPT ![r] = @ \cup {s \in Filled(r, top) : EndsShort(r, s, top[s])}]
  /\ served' = [s \in Symbols |->
       IF s \in Filled(r, top) /\ (served[s] = NoTs \/ served[s] < top[s])
       THEN top[s] ELSE served[s]]
  /\ used' = used + Cardinality(flight[r])
  /\ flight' = [flight EXCEPT ![r] = {}]
  /\ GoTo(r, IF queue[r] = {} THEN "persist" ELSE "batch")
  /\ UNCHANGED <<storeVars, clock, planVars, chunk, queue, from, upTo, usedDay,
                 sent, resetPc>>

\* Mutant: sync_state does not wait for the insert.
UnstoredIgnored(r) == {}

\* Symbols with downloaded bars that are not inserted yet.
Unstored(r) == {s \in Symbols : newest[r][s] # NoTs /\ from[r][s] <= newest[r][s]}

\* bulk_ingest: one chunk of records, one transaction.  Records are ordered by
\* symbol and then by time, so a chunk holds the rest of some symbols (whole)
\* and of one more symbol (part) the bars below cut.
AfterChunk(r, whole, part, cut) ==
  [s \in Symbols |-> IF s = part THEN cut
                     ELSE IF s \in whole THEN newest[r][s] + 1
                     ELSE from[r][s]]

IngestChunk(r, whole, part, cut) ==
  /\ pc[r] = "persist"
  /\ whole \subseteq Unstored(r)
  /\ InsertBars([s \in Symbols |->
                   from[r][s] .. (AfterChunk(r, whole, part, cut)[s] - 1)])
  /\ from' = [from EXCEPT ![r] = AfterChunk(r, whole, part, cut)]
  /\ UNCHANGED <<lastTs, status, clock, pc, planVars, chunk, queue, flight,
                 upTo, newest, short, budgetVars, resetPc, served>>

\* Everything downloaded is committed: sync_state is upserted for the chunk.
RecordState(r) ==
  /\ pc[r] = "persist"
  /\ Unstored(r) = {}
  /\ UpdateState(chunk[r], newest[r])
  /\ GoTo(r, "next")
  /\ chunk' = [chunk EXCEPT ![r] = {}]
  /\ ForgetChunk(r)
  /\ UNCHANGED <<clock, planVars, budgetVars, resetPc, served>>

\* A PostgresError or OSError in either statement.
PersistFails(r) ==
  /\ pc[r] = "persist"
  /\ GoTo(r, "mark")
  /\ ForgetChunk(r)
  /\ UNCHANGED <<storeVars, clock, planVars, chunk, budgetVars, resetPc, served>>

MarkError(r) ==
  /\ pc[r] = "mark"
  /\ MarkErrorState(chunk[r])
  /\ GoTo(r, "next")
  /\ chunk' = [chunk EXCEPT ![r] = {}]
  /\ UNCHANGED <<clock, planVars, queue, flight, from, upTo, newest, short,
                 budgetVars, resetPc, served>>

\* Any other exception, or a failing _mark_error, ends the run.
RunDies(r) ==
  /\ pc[r] \in {"persist", "mark"}
  /\ GoTo(r, "idle")
  /\ ForgetPlan(r)
  /\ chunk' = [chunk EXCEPT ![r] = {}]
  /\ ForgetChunk(r)
  /\ UNCHANGED <<storeVars, clock, budgetVars, resetPc, served>>

\* POST /sync/reset-1min: TRUNCATE, then DELETE, each committed on its own.
ResetTruncate ==
  /\ resetPc = "idle"
  /\ ResetIsolated => \A r \in Runs : ~Active(r)
  /\ rows' = [s \in Symbols |-> {}]
  /\ resetPc' = "truncated"
  /\ UNCHANGED <<lastTs, status, clock, runVars, budgetVars, served>>

ResetDelete ==
  /\ resetPc = "truncated"
  /\ lastTs' = [s \in Symbols |-> NoTs]
  /\ status' = [s \in Symbols |-> "none"]
  /\ resetPc' = "idle"
  /\ UNCHANGED <<rows, clock, runVars, budgetVars, served>>

\* The process stops and starts again: the database stays, the rest is lost.
Crash ==
  /\ ResetIsolated => resetPc = "idle"
  /\ pc'          = [r \in Runs |-> "idle"]
  /\ seen'        = [r \in Runs |-> NoneSeen]
  /\ initial'     = [r \in Runs |-> {}]
  /\ incremental' = [r \in Runs |-> {}]
  /\ chunk'       = [r \in Runs |-> {}]
  /\ queue'       = [r \in Runs |-> {}]
  /\ flight'      = [r \in Runs |-> {}]
  /\ from'        = [r \in Runs |-> NoBars]
  /\ upTo'        = [r \in Runs |-> 0]
  /\ newest'      = [r \in Runs |-> NoneSeen]
  /\ short'       = [r \in Runs |-> {}]
  /\ used' = 0 /\ usedDay' = Day(clock) /\ sent' = 0
  /\ resetPc' = "idle"
  /\ UNCHANGED <<storeVars, clock, served>>

RunStep(r) ==
  \/ StartRun(r)
  \/ \E c \in SUBSET Symbols : TakeChunk(r, c)
  \/ FinishRun(r)
  \/ \E b \in SUBSET Symbols : SendBatch(r, b)
  \/ StopEarly(r)
  \/ \E top \in [flight[r] -> NewestBars(r) \cup {NoTs}] : ReceiveBatch(r, top)
  \/ \E whole \in SUBSET Symbols, part \in Unstored(r) :
       \E cut \in from[r][part] + 1 .. newest[r][part] + 1 :
         IngestChunk(r, whole, part, cut)
  \/ RecordState(r)
  \/ PersistFails(r)
  \/ MarkError(r)
  \/ RunDies(r)

Next ==
  \/ Tick
  \/ \E r \in Runs : RunStep(r)
  \/ ResetTruncate
  \/ ResetDelete
  \/ Crash

Spec == Init /\ [][Next]_vars

-----------------------------------------------------------------------------
(* Properties.                                                             *)

\* No silent hole: once sync_state records a last bar for a symbol, every bar
\* from the start of the request window to that bar is stored, whatever chunk
\* commits, errors, crashes and overlapping runs came between.  Nothing else
\* would ever fetch a missing bar again: the next run asks from the last bar.
HistoryComplete ==
  resetPc = "idle" =>
    \A s \in Symbols : lastTs[s] # NoTs =>
      \A t \in WindowStart(clock) .. lastTs[s] : t \in rows[s]

\* last_data_ts is a promise about the price table: the bar it names is there,
\* even when the run that wrote it crashed or failed half way.
WatermarkStored ==
  resetPc = "idle" =>
    \A s \in Symbols :
      /\ lastTs[s] # NoTs => lastTs[s] \in rows[s]
      /\ status[s] = "synced" => lastTs[s] # NoTs

\* The safety reserve covers what overlapping runs have in flight: a process
\* never sends more requests in a day than the Dhan quota.
BudgetHeld == sent <= Budget

\* sync_state.last_data_ts is overwritten, not raised (COALESCE, no GREATEST).
\* It moves backwards only as a lost update (the run that writes it works from a
\* last_ts_map that another run has since made stale) or because Dhan itself
\* left out bars it was asked for and had served before: never because a run
\* asked for less than it had.
RegressionExplained ==
  [][\A s \in Symbols :
       lastTs[s] # NoTs /\ lastTs'[s] # NoTs /\ lastTs'[s] < lastTs[s]
         => \E r \in Runs : pc'[r] # pc[r] /\ (seen[r][s] # lastTs[s] \/ s \in short[r])]_vars
=============================================================================
