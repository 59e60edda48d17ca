----------------------------- MODULE CockpitViews ----------------------------
(***************************************************************************)
(* The views of what the services know: the stock list, a chart, a         *)
(* symbol's modal, the regimes and the metrics of the signals, the         *)
(* accounts, a service's configuration.  They share no state, so a         *)
(* behaviour takes the steps of one of them and leaves the others as they  *)
(* start.                                                                  *)
(***************************************************************************)
EXTENDS Integers, Sequences

CONSTANTS
  None,
  \* the stock list
  Snapshots, PageSize, Queries, PresetKeys, Columns, MaxListSent, MaxClicks,
  \* the chart and the modal
  Symbols, Served(_, _), MonthStart(_), Offered, Buckets, MaxAsked,
  Expiries(_), Chain(_, _), AtmCount, MaxAsks,
  \* the regimes and the metrics of the signals
  Regimes, RegimeKinds,
  Types, PerSide, MinAdv, MetricKinds, MetricsOf, Filters, SortKeys,
  \* the accounts and a service's configuration
  MaxLoads, MaxOps, ConfigKeys, Values, Default, MaxSent, MaxServed

VARIABLES
  view,  \* the one that takes steps
  rows, listLoading, hasMore, total, offset, fetched, active, drawn, requests, listSent, overlapped,
  listing, reordered, listFilter, listSort, clicks,
  key, vis, busy, failed, legend, candles, overlays, data, profile, frames, chartAsks, current,
  symbol, tab, known, fetchedRow, rowAsked, selected, chain, loading, error, asks, sent, crossed,
  market, connected, paused, held, signalRows, aged, missed,
  listed, fetching, batch, timer, metricsAsks, metrics, filter, sort, refused, restored,
  accountData, shown, message, accountsLoading, loads, ops, begun, started, own, showing, stuck,
  stored, applied, initial, mounted, config, saveStatus, configLoads, patches, configSent, served, version,
  edited, seen, savedBy, appliedBy, raced

listVars == <<rows, listLoading, hasMore, total, offset, fetched, active, drawn, requests, listSent,
              overlapped, listing, reordered, listFilter, listSort, clicks>>
chartVars == <<key, vis, busy, failed, legend, candles, overlays, data, profile, frames, chartAsks, current>>
modalVars == <<symbol, tab, known, fetchedRow, rowAsked, selected, chain, loading, error, asks, sent, crossed>>
regimeVars == <<market, connected, paused, held, signalRows, aged, missed>>
accountsVars == <<accountData, shown, message, accountsLoading, loads, ops, begun, started, own, showing, stuck>>
configVars == <<stored, applied, initial, mounted, config, saveStatus, configLoads, patches, configSent,
                served, version, edited, seen, savedBy, appliedBy, raced>>
metricsVars == <<listed, fetching, batch, timer, metricsAsks, metrics, filter, sort, refused, restored>>

-----------------------------------------------------------------------------
(* The views.                                                              *)

List == INSTANCE StockList WITH
  MaxSent <- MaxListSent,
  loading <- listLoading, sent <- listSent, filter <- listFilter, sort <- listSort

Chart == INSTANCE DailyChart WITH asks <- chartAsks

Modal == INSTANCE SymbolModal

Regime == INSTANCE SignalRegimes WITH Kinds <- RegimeKinds, rows <- signalRows

Metrics == INSTANCE SignalMetrics WITH Kinds <- MetricKinds, asks <- metricsAsks

Accounts == INSTANCE Accounts WITH data <- accountData, loading <- accountsLoading

Config == INSTANCE ServiceConfig WITH Keys <- ConfigKeys, loads <- configLoads, sent <- configSent

ASSUME CockpitViewsAssumption ==
  /\ List!StockListAssumption /\ Chart!DailyChartAssumption /\ Modal!SymbolModalAssumption
  /\ Regime!SignalRegimesAssumption /\ Metrics!SignalMetricsAssumption
  /\ Accounts!AccountsAssumption /\ Config!ServiceConfigAssumption

-----------------------------------------------------------------------------
(* One of them takes steps.                                                *)

\* The chart, the filter and the page start in one way where they take no steps.
Init ==
  /\ view \in {"list", "chart", "modal", "regimes", "metrics", "accounts", "config"}
  /\ List!Init /\ Modal!Init /\ Regime!Init /\ Accounts!Init
  /\ Chart!Init /\ (view = "chart" \/ key.symbol = CHOOSE s \in Symbols : TRUE)
  /\ Metrics!Init /\ (view = "metrics" \/ filter = CHOOSE f \in Filters : f.minAdv = 0)
  /\ Config!Init /\ (view = "config" \/ initial = None)

ListSteps ==
  /\ view = "list" /\ List!Next
  /\ UNCHANGED <<view, chartVars, modalVars, regimeVars, metricsVars, accountsVars, configVars>>

ChartSteps ==
  /\ view = "chart" /\ Chart!Next
  /\ UNCHANGED <<view, listVars, modalVars, regimeVars, metricsVars, accountsVars, configVars>>

ModalSteps ==
  /\ view = "modal" /\ Modal!Next
  /\ UNCHANGED <<view, listVars, chartVars, regimeVars, metricsVars, accountsVars, configVars>>

RegimeSteps ==
  /\ view = "regimes" /\ Regime!Next
  /\ UNCHANGED <<view, listVars, chartVars, modalVars, metricsVars, accountsVars, configVars>>

MetricsSteps ==
  /\ view = "metrics" /\ Metrics!Next
  /\ UNCHANGED <<view, listVars, chartVars, modalVars, regimeVars, accountsVars, configVars>>

AccountsSteps ==
  /\ view = "accounts" /\ Accounts!Next
  /\ UNCHANGED <<view, listVars, chartVars, modalVars, regimeVars, metricsVars, configVars>>

ConfigSteps ==
  /\ view = "config" /\ Config!Next
  /\ UNCHANGED <<view, listVars, chartVars, modalVars, regimeVars, metricsVars, accountsVars>>

Next == ListSteps \/ ChartSteps \/ ModalSteps \/ RegimeSteps \/ MetricsSteps \/ AccountsSteps \/ ConfigSteps

vars == <<view, listVars, chartVars, modalVars, regimeVars, metricsVars, accountsVars, configVars>>

Spec == Init /\ [][Next]_vars

-----------------------------------------------------------------------------
(* Properties: those of the views.                                         *)

\* Every view's state has its type.
TypeOK ==
  /\ List!TypeOK /\ Chart!TypeOK /\ Modal!TypeOK /\ Regime!TypeOK /\ Metrics!TypeOK
  /\ Accounts!TypeOK /\ Config!TypeOK

\* The stock list shows what passes of its rows, once and in order, and ends with a
\* row for every symbol, unless requests overlapped or the server's order changed.
EverythingMatchingShown == List!EverythingMatchingShown

\* An answer overtaken by another selection is never drawn.
ImplementsLatestAnswer == Chart!ImplementsLatestAnswer

\* A loaded chart's overlays are of the bars of its candles.
ChartAgrees == Chart!ChartAgrees

\* Resampling and the volume profile lose nothing.
DrawnDataSound == Chart!DrawnDataSound

\* The chain shown is of the selected expiry, unless answers came out of order.
WrongChainOnlyWhenLate == Modal!WrongChainOnlyWhenLate

\* A chain nobody trades is never called favourable.
IlliquidNeverFavourable == Modal!IlliquidNeverFavourable

\* A row shows its symbol's regime, but after a replay or a missed update.
RegimeCurrent == Regime!RegimeCurrent

\* No pushed symbol is left without a request for its metrics.
IlliquidListedOnlyUnanswered == Metrics!IlliquidListedOnlyUnanswered

\* The accounts panel comes to rest, with the newest data.
AccountsSettled == Accounts!AccountsSettled

\* A PATCH changes what its user edited, or what changed behind the pane.
SavesOnlyEdits == Config!SavesOnlyEdits

\* A setting of a service is what a restart would come to, unless PATCHes of it raced.
SavedIsApplied == Config!SavedIsApplied
=============================================================================
