---------------------------- MODULE SignalMetrics ---------------------------
(***************************************************************************)
(* The metrics that useSignals asks for, in batches, for the symbols of    *)
(* its signals, and the list that useSignalSort makes of both.             *)
(*                                                                         *)
(* A row is one of Kinds; what else a row holds, and how it came, is the   *)
(* matter of SignalStream.                                                 *)
(***************************************************************************)
EXTENDS SignalView, Functions

CONSTANTS
  Kinds,       \* a set of [symbol, type, price]
  MetricsOf,   \* the metrics of the server, None for a symbol without
  Filters,     \* the filters set: [category, subType, fnoOnly, minAdv, query]
  SortKeys     \* the heads clicked

VARIABLES
  listed,      \* signals, newest first
  fetching, batch,  \* fetchingRef, metricsPendingRef
  timer,       \* metricsTimerRef is running
  asks,        \* requests on the way: sets of symbols
  metrics,     \* metricsCache
  filter, sort,
  refused,     \* history: symbols asked for and not answered
  restored     \* history: symbols of rows that a reload brought back, not pushed since

fetchVars == <<fetching, batch, timer, asks, metrics, refused>>
signalMetricsVars == <<listed, fetchVars, filter, sort, restored>>

AllSymbols == DOMAIN MetricsOf

NoMetrics == [s \in AllSymbols |-> None]

\* Limits, and the columns of the head, with metrics or without, are numbers.
SignalMetricsAssumption ==
  /\ \A k \in Kinds : k.symbol \in AllSymbols
  /\ \A f \in Filters : f.minAdv \in Nat
  /\ \A s \in AllSymbols : MetricsOf[s] # None => MetricsOf[s].adv \in Int \union {None}
  /\ \A k \in Kinds, key \in SortKeys, now \in {MetricsOf, NoMetrics} : SortValue(k, key, now) \in Int \union {None}

TypeOK ==
  /\ listed \in Seq(Kinds) /\ timer \in BOOLEAN
  /\ batch \subseteq fetching /\ fetching \subseteq AllSymbols /\ asks \subseteq SUBSET fetching
  /\ metrics \in [AllSymbols -> Range(MetricsOf) \union {None}]
  /\ filter \in Filters /\ sort \in [key : SortKeys \union {None}, asc : BOOLEAN]
  /\ refused \subseteq AllSymbols /\ restored \subseteq AllSymbols

Init ==
  /\ listed = <<>> /\ fetching = {} /\ batch = {} /\ timer = FALSE /\ asks = {} /\ refused = {} /\ restored = {}
  /\ metrics = NoMetrics
  /\ filter \in {f \in Filters : f.minAdv = 0} /\ sort = [key |-> None, asc |-> FALSE]

-----------------------------------------------------------------------------
(* Requests.                                                               *)

\* Mutant: the timer is started for the first symbol alone.
QueueOnce(s) ==
  /\ IF s \in fetching THEN UNCHANGED <<fetching, batch, timer>>
     ELSE fetching' = fetching \union {s} /\ batch' = batch \union {s} /\ timer' = (timer \/ fetching = {})
  /\ UNCHANGED <<asks, metrics, refused>>

\* Mutant: what is asked for is not noted.
QueueAlways(s) ==
  /\ batch' = batch \union {s} /\ timer' = TRUE
  /\ UNCHANGED <<fetching, asks, metrics, refused>>

\* queueMetrics: a new symbol starts the timer anew.
QueueMetrics(s) ==
  /\ IF s \in fetching THEN UNCHANGED <<fetching, batch, timer>>
     ELSE fetching' = fetching \union {s} /\ batch' = batch \union {s} /\ timer' = TRUE
  /\ UNCHANGED <<asks, metrics, refused>>

\* The rows but the one of k.
Others(list, k) == Picked(list, {i \in DOMAIN list : list[i] # k})

\* A signal is pushed.  The last row may go (MAX_SIGNALS).
Push(k) ==
  /\ listed' \in {<<k>> \o Others(listed, k), <<k>> \o (IF listed = <<>> THEN <<>> ELSE Others(SubSeq(listed, 1, Len(listed) - 1), k))}
  /\ QueueMetrics(k.symbol)
  /\ restored' = restored \ {k.symbol}
  /\ UNCHANGED <<filter, sort>>

Clear == listed # <<>> /\ listed' = <<>> /\ UNCHANGED <<fetchVars, filter, sort, restored>>

\* restoreSignals: the session storage has the rows, and no metrics are asked
\* for until a signal of the symbol is pushed.  The filter is stored elsewhere.
Reload ==
  /\ restored' = {k.symbol : k \in Range(listed)}
  /\ fetching' = {} /\ batch' = {} /\ timer' = FALSE /\ asks' = {} /\ refused' = {}
  /\ metrics' = NoMetrics /\ sort' = [key |-> None, asc |-> FALSE]
  /\ UNCHANGED <<listed, filter>>

\* The timer: flushMetricsBatch.
FlushMetricsBatch ==
  /\ timer /\ timer' = FALSE
  /\ asks' = asks \union {batch} /\ batch' = {}
  /\ UNCHANGED <<listed, fetching, metrics, refused, filter, sort, restored>>

\* mergeMetrics: the answer has the symbols the server knows.
Answer(syms) ==
  /\ syms \in asks /\ asks' = asks \ {syms}
  /\ metrics' = [s \in AllSymbols |-> IF s \in syms THEN OrElse(MetricsOf[s], metrics[s]) ELSE metrics[s]]
  /\ refused' = refused \union {s \in syms : MetricsOf[s] = None}
  /\ UNCHANGED <<listed, fetching, batch, timer, filter, sort, restored>>

\* An error status or a rejected fetch: the symbols are not asked for again.
Fail(syms) ==
  /\ syms \in asks /\ asks' = asks \ {syms}
  /\ refused' = refused \union syms
  /\ UNCHANGED <<listed, fetching, batch, timer, metrics, filter, sort, restored>>

-----------------------------------------------------------------------------
(* The toolbar and the head of the table.                                  *)

SetFilter(f) == f # filter /\ filter' = f /\ UNCHANGED <<listed, fetchVars, sort, restored>>

HandleSort(key) ==
  /\ sort' = [key |-> key, asc |-> IF sort.key = key THEN ~sort.asc ELSE key = "timestamp"]
  /\ UNCHANGED <<listed, fetchVars, filter, restored>>

ClearSort ==
  /\ sort.key # None /\ sort' = [key |-> None, asc |-> FALSE]
  /\ UNCHANGED <<listed, fetchVars, filter, restored>>

Next ==
  \/ \E k \in Kinds : Push(k)
  \/ Clear \/ Reload \/ FlushMetricsBatch \/ ClearSort
  \/ \E syms \in asks : Answer(syms) \/ Fail(syms)
  \/ \E f \in Filters : SetFilter(f)
  \/ \E key \in SortKeys : HandleSort(key)

Spec == Init /\ [][Next]_signalMetricsVars

-----------------------------------------------------------------------------
(* Properties.                                                             *)

\* sortedFiltered
SortedFiltered == SortedSignals(listed, FilterSignals(listed, filter, metrics), sort, metrics)

\* Nothing stands before a signal that its column puts first, and what has no
\* value there stands last.
InOrder(list) ==
  \A i, j \in DOMAIN list : i < j =>
    LET a == SortValue(list[i], sort.key, metrics)
        b == SortValue(list[j], sort.key, metrics)
    IN b # None => a # None /\ (IF sort.asc THEN a <= b ELSE a >= b)

\* With a liquidity limit an illiquid symbol is listed only while its metrics
\* are asked for, after they were refused, or from before a reload: no symbol
\* that is pushed is left out of the requests.  Signals without a value in the
\* sorted column stand last.
IlliquidListedOnlyUnanswered ==
  /\ \A s \in Range(SortedFiltered) :
       filter.minAdv > 0 /\ (MetricsOf[s.symbol] = None \/ MetricsOf[s.symbol].adv < filter.minAdv) =>
         \/ s.symbol \in batch /\ timer
         \/ \E syms \in asks : s.symbol \in syms
         \/ s.symbol \in refused \union restored
  /\ sort.key # None => InOrder(SortedFiltered)
=============================================================================
