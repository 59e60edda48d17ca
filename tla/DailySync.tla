------------------------------ MODULE DailySync -----------------------------
(***************************************************************************)
(* The daily price sync of DataSyncService: SyncService.run_sync with      *)
(* run_daily_sync, classify_daily, the three fetch strategies over         *)
(* yfinance, SyncStateWriter.persist, and the gap report.                  *)
(*                                                                         *)
(* Nothing excludes two runs (run, run-sse and run-all each start one); an *)
(* await of a run ends an action.  Time is counted in half days: the half  *)
(* before the market close (15:30 IST) and the half after it.  A daily bar *)
(* is named by its day; the bar a data source returns for a day whose      *)
(* session is still open is a snapshot of that moment.                     *)
(***************************************************************************)
EXTENDS PriceStore, FiniteSetsExt

CONSTANTS
  Runs,         \* concurrent runs of run_sync
  Holidays,     \* days without a session, weekends included
  HistoryDays,  \* sync_1d_history_days
  BatchSize,    \* sync_batch_size
  MaxClock      \* bound: the last half day of the model

ASSUME DailyAssumption ==
  /\ Holidays \subseteq Nat
  /\ HistoryDays \in Nat \ {0} /\ BatchSize \in Nat \ {0} /\ MaxClock \in Nat

VARIABLES
  clock,    \* the half day in progress
  partial,  \* partial[s]: stored bars that were snapshots of an open session
  pc,       \* pc[r]: where run r stands
  seen,     \* seen[r][s]: last_ts_map, read when the run started
  started,  \* started[r]: now_ist of the classification
  todo,     \* todo[r]: symbols to fetch and not yet taken into a batch
  batch,    \* batch[r]: the symbols being fetched and persisted
  endDay,   \* endDay[r]: last day the request of the batch asks for
  data,     \* data[r][s]: downloaded bars not yet inserted
  newest,   \* newest[r][s]: df.index.max() of the download, NoTs if none
  open      \* open[r]: the downloaded bar of an open session, NoTs if none

runVars == <<pc, seen, started, todo, batch, endDay, data, newest, open>>
vars    == <<storeVars, clock, partial, runVars>>

RunStates == {"idle", "next", "await", "persist", "mark"}

TypeOK ==
  /\ StoreTypeOK
  /\ clock \in Nat
  /\ partial \in [Symbols -> SUBSET Nat]
  /\ pc \in [Runs -> RunStates]
  /\ seen \in [Runs -> [Symbols -> Ts]]
  /\ started \in [Runs -> Nat]
  /\ todo \in [Runs -> SUBSET Symbols]
  /\ batch \in [Runs -> SUBSET Symbols]
  /\ endDay \in [Runs -> Nat]
  /\ data \in [Runs -> [Symbols -> SUBSET Nat]]
  /\ newest \in [Runs -> [Symbols -> Ts]]
  /\ open \in [Runs -> Ts]

-----------------------------------------------------------------------------

Day(t) == t \div 2

AfterClose(t) == t % 2 = 1

\* Mutant: before the close a symbol that has yesterday's bar is fetched too.
ClassifyAnyTime(last, now) ==
  IF last = NoTs THEN "INITIAL"
  ELSE IF last >= Day(now) THEN "SKIP"
  ELSE IF last = Day(now) - 1 THEN "FETCH_TODAY"
  ELSE "FETCH_GAP"

\* classify_daily
ClassifyDaily(last, now) ==
  IF last = NoTs THEN "INITIAL"
  ELSE IF last >= Day(now) THEN "SKIP"
  ELSE IF last < Day(now) - 1 THEN "FETCH_GAP"
  ELSE IF AfterClose(now) THEN "FETCH_TODAY" ELSE "SKIP"

\* First day of the history an INITIAL symbol asks for.
HistoryStart(now) == IF Day(now) >= HistoryDays THEN Day(now) - HistoryDays ELSE 0

\* What a run decided for a symbol when it started.
Action(r, s) == ClassifyDaily(seen[r][s], started[r])

\* Mutant: FETCH_TODAY asks from the day of the request.
SinceRequest(r, s) ==
  CASE Action(r, s) = "INITIAL"     -> HistoryStart(clock)
    [] Action(r, s) = "FETCH_TODAY" -> endDay[r]
    [] OTHER                        -> seen[r][s]

\* First day a strategy asks for: the whole history, the day before the run
\* started (the same for all FETCH_TODAY symbols), or the symbol's last bar.
Since(r, s) ==
  CASE Action(r, s) = "INITIAL"     -> HistoryStart(2 * endDay[r])
    [] Action(r, s) = "FETCH_TODAY" -> Day(started[r]) - 1
    [] OTHER                        -> seen[r][s]

NoneSeen == [s \in Symbols |-> NoTs]
NoData   == [s \in Symbols |-> {}]

GoTo(r, place) == pc' = [pc EXCEPT ![r] = place]

ForgetBatch(r) ==
  /\ endDay' = [endDay EXCEPT ![r] = 0]
  /\ data'   = [data EXCEPT ![r] = NoData]
  /\ newest' = [newest EXCEPT ![r] = NoneSeen]
  /\ open'   = [open EXCEPT ![r] = NoTs]

ForgetPlan(r) ==
  /\ seen'    = [seen EXCEPT ![r] = NoneSeen]
  /\ started' = [started EXCEPT ![r] = 0]
  /\ todo'    = [todo EXCEPT ![r] = {}]

-----------------------------------------------------------------------------

Init ==
  /\ StoreInit
  /\ clock = 0
  /\ partial = [s \in Symbols |-> {}]
  /\ pc      = [r \in Runs |-> "idle"]
  /\ seen    = [r \in Runs |-> NoneSeen]
  /\ started = [r \in Runs |-> 0]
  /\ todo    = [r \in Runs |-> {}]
  /\ batch   = [r \in Runs |-> {}]
  /\ endDay  = [r \in Runs |-> 0]
  /\ data    = [r \in Runs |-> NoData]
  /\ newest  = [r \in Runs |-> NoneSeen]
  /\ open    = [r \in Runs |-> NoTs]

Tick ==
  /\ clock < MaxClock
  /\ clock' = clock + 1
  /\ UNCHANGED <<storeVars, partial, runVars>>

\* run_sync: the sync state is read, and run_daily_sync sorts the symbols into
\* its three lists.
StartRun(r) ==
  /\ pc[r] = "idle"
  /\ GoTo(r, "next")
  /\ seen' = [seen EXCEPT ![r] = lastTs]
  /\ started' = [started EXCEPT ![r] = clock]
  /\ todo' = [todo EXCEPT ![r] =
       {s \in Symbols : ClassifyDaily(lastTs[s], clock) # "SKIP"}]
  /\ UNCHANGED <<storeVars, clock, partial, batch, endDay, data, newest, open>>

Listed(r, action) == {s \in todo[r] : Action(r, s) = action}

\* The next batch: first the INITIAL list, then FETCH_TODAY, then FETCH_GAP.
\* Its requests end with the day they are sent on.
TakeBatch(r, b) ==
  /\ pc[r] = "next"
  /\ \/ Slice(b, Listed(r, "INITIAL"), BatchSize)
     \/ /\ Listed(r, "INITIAL") = {}
        /\ Slice(b, Listed(r, "FETCH_TODAY"), BatchSize)
     \/ /\ Listed(r, "INITIAL") = {} /\ Listed(r, "FETCH_TODAY") = {}
        /\ Slice(b, Listed(r, "FETCH_GAP"), BatchSize)
  /\ GoTo(r, "await")
  /\ todo' = [todo EXCEPT ![r] = @ \ b]
  /\ batch' = [batch EXCEPT ![r] = b]
  /\ endDay' = [endDay EXCEPT ![r] = Day(clock)]
  /\ UNCHANGED <<storeVars, clock, partial, seen, started, data, newest, open>>

FinishRun(r) ==
  /\ pc[r] = "next"
  /\ todo[r] = {}
  /\ GoTo(r, "idle")
  /\ ForgetPlan(r)
  /\ UNCHANGED <<storeVars, clock, partial, batch, endDay, data, newest, open>>

\* The sessions a source can return now: those up to top, the last day asked
\* for or, while it has no bar for that day yet, the day before.
Sessions(r, s, top) == (Since(r, s) .. top) \ Holidays

\* The downloads of a batch: bars for the symbols of answered (none for the
\* others: an error, or an empty frame).
ReceiveBatch(r, answered, top) ==
  /\ pc[r] = "await"
  /\ answered \subseteq batch[r]
  /\ top \in {endDay[r], endDay[r] - 1}
  /\ data' = [data EXCEPT ![r] =
       [s \in Symbols |-> IF s \in answered THEN Sessions(r, s, top) ELSE {}]]
  /\ newest' = [newest EXCEPT ![r] =
       [s \in Symbols |-> IF s \in answered /\ Sessions(r, s, top) # {}
                          THEN Max(Sessions(r, s, top)) ELSE NoTs]]
  /\ open' = [open EXCEPT ![r] =
       IF top = Day(clock) /\ ~AfterClose(clock) THEN top ELSE NoTs]
  /\ GoTo(r, "persist")
  /\ UNCHANGED <<storeVars, clock, partial, seen, started, todo, batch, endDay>>

\* Mutant: sync_state does not wait for the insert.
PendingIgnored(r) == {}

\* Symbols with downloaded bars that are not inserted yet.
Pending(r) == {s \in Symbols : data[r][s] # {}}

\* bulk_ingest: one chunk of records in one transaction, all that is left of
\* the symbols of whole and the bars of one more symbol up to cut.
IngestChunk(r, whole, part, cut) ==
  /\ pc[r] = "persist"
  /\ LET bars == [s \in Symbols |->
                    IF s = part THEN {d \in data[r][s] : d <= cut}
                    ELSE IF s \in whole THEN data[r][s] ELSE {}]
     IN  /\ InsertBars(bars)
         /\ partial' = [s \in Symbols |->
              partial[s] \cup ((bars[s] \ rows[s]) \cap {open[r]})]
         /\ data' = [data EXCEPT ![r] = [s \in Symbols |-> @[s] \ bars[s]]]
  /\ UNCHANGED <<lastTs, status, clock, pc, seen, started, todo, batch, endDay,
                 newest, open>>

RecordState(r) ==
  /\ pc[r] = "persist"
  /\ Pending(r) = {}
  /\ UpdateState(batch[r], newest[r])
  /\ GoTo(r, "next")
  /\ batch' = [batch EXCEPT ![r] = {}]
  /\ ForgetBatch(r)
  /\ UNCHANGED <<clock, partial, seen, started, todo>>

\* A PostgresError or OSError in either statement, and _mark_error after it.
PersistFails(r) ==
  /\ pc[r] = "persist"
  /\ GoTo(r, "mark")
  /\ ForgetBatch(r)
  /\ UNCHANGED <<storeVars, clock, partial, seen, started, todo, batch>>

MarkError(r) ==
  /\ pc[r] = "mark"
  /\ MarkErrorState(batch[r])
  /\ GoTo(r, "next")
  /\ batch' = [batch EXCEPT ![r] = {}]
  /\ UNCHANGED <<clock, partial, seen, started, todo, endDay, data, newest, open>>

\* Any other exception, or a failing _mark_error, ends the run.
RunDies(r) ==
  /\ pc[r] # "idle"
  /\ GoTo(r, "idle")
  /\ ForgetPlan(r)
  /\ batch' = [batch EXCEPT ![r] = {}]
  /\ ForgetBatch(r)
  /\ UNCHANGED <<storeVars, clock, partial>>

\* The process stops: every run ends where it stands.
Crash ==
  /\ pc'      = [r \in Runs |-> "idle"]
  /\ seen'    = [r \in Runs |-> NoneSeen]
  /\ started' = [r \in Runs |-> 0]
  /\ todo'    = [r \in Runs |-> {}]
  /\ batch'   = [r \in Runs |-> {}]
  /\ endDay'  = [r \in Runs |-> 0]
  /\ data'    = [r \in Runs |-> NoData]
  /\ newest'  = [r \in Runs |-> NoneSeen]
  /\ open'    = [r \in Runs |-> NoTs]
  /\ UNCHANGED <<storeVars, clock, partial>>

RunStep(r) ==
  \/ StartRun(r)
  \/ \E b \in SUBSET Symbols : TakeBatch(r, b)
  \/ FinishRun(r)
  \/ \E answered \in SUBSET batch[r], top \in {endDay[r] - 1, endDay[r]} :
       ReceiveBatch(r, answered, top)
  \/ \E whole \in SUBSET Pending(r), part \in Pending(r) :
       \E cut \in data[r][part] : IngestChunk(r, whole, part, cut)
  \/ RecordState(r)
  \/ PersistFails(r)
  \/ MarkError(r)
  \/ RunDies(r)

Next ==
  \/ Tick
  \/ \E r \in Runs : RunStep(r)
  \/ Crash

Spec == Init /\ [][Next]_vars

-----------------------------------------------------------------------------
(* Properties.                                                             *)

\* get_last_data_ts_bulk: the newest stored bar, None without rows.
NewestRow(s) == IF rows[s] = {} THEN NoTs ELSE Max(rows[s])

\* No silent hole: every session from the start of the history to the last bar
\* that sync_state records is stored.  A later run fetches from that bar only.
HistoryComplete ==
  \A s \in Symbols : lastTs[s] # NoTs =>
    (HistoryStart(clock) .. lastTs[s]) \ Holidays \subseteq rows[s]

\* The gap report reads the price table, the sync reads sync_state.  sync_state
\* may lag after a crash, but what the sync skips the report never lists as a
\* gap, at any time of day.
SkipAgreesWithReport ==
  \A s \in Symbols :
    ClassifyDaily(lastTs[s], clock) = "SKIP"
      => ClassifyDaily(NewestRow(s), clock) = "SKIP"

\* A symbol that has yesterday's bar waits for the close: a snapshot of an open
\* session enters the table only with a first or a gap fetch, or when a run is
\* still working on the day after it was started.
OnlyGapsStoreOpenSession ==
  [][\A s \in Symbols : partial'[s] # partial[s] =>
       \E r \in Runs : /\ data'[r][s] # data[r][s]
                       /\ \/ Action(r, s) \in {"INITIAL", "FETCH_GAP"}
                          \/ open[r] > Day(started[r])]_vars

\* daily_action.py: SKIP means the data is current.  What is stored of a
\* finished session is then its final bar.
SkipMeansCurrent ==
  \A s \in Symbols :
    ClassifyDaily(lastTs[s], clock) = "SKIP"
      => \A d \in partial[s] : d = Day(clock) /\ ~AfterClose(clock)
=============================================================================
