----------------------------- MODULE LivePrices -----------------------------
(***************************************************************************)
(* Live prices in the cockpit: the one event stream that useLivePrices     *)
(* opens for all views, the prices it shares, the metrics each view asks   *)
(* for, and the heat map and signal feed that are drawn from them.         *)
(***************************************************************************)
EXTENDS SignalView, Functions

CONSTANTS
  Symbols,       \* the symbols that may have a live price
  Views,
  Prices,        \* the prices of ticks and metrics
  PrevClose,     \* the previous close of every symbol
  Metrics,       \* metricsCache
  Signals,       \* the signals, newest first
  MaxRetries     \* bound: reconnects that wait at once

\* Prices are whole, and a symbol is its alphabetical rank.
LivePricesAssumption ==
  /\ MaxRetries \in Nat \ {0} /\ PerSide \in Nat /\ MinAdv \in Nat /\ Symbols \subseteq DOMAIN PrevClose
  /\ None \notin Prices /\ Prices \subseteq Int /\ Range(PrevClose) \subseteq Nat \union {None}
  /\ None \notin [ltp : Prices \union {None}, prev : Range(PrevClose) \union {None}]
  /\ IsFiniteSet(DOMAIN Metrics) /\ DOMAIN Metrics \subseteq Int
  /\ \A s \in DOMAIN Metrics : Metrics[s] # None =>
       /\ {Metrics[s].current, Metrics[s].day_close, Metrics[s].chg} \subseteq Int \union {None}
       /\ Metrics[s].prev \in Nat \union {None}
  /\ Signals \in Seq(Range(Signals))
  /\ \A s \in Range(Signals) : s.symbol \in DOMAIN Metrics /\ s.price \in Int \union {None}

VARIABLES
  sharedPrices,
  stream,     \* there is a sharedEvents
  retries,    \* timers that wait to open the stream again
  watched,    \* the symbols of a view
  listening,  \* the view's effect is on: it has its listener
  asking,     \* its metrics request is on the way and active
  prices,     \* the prices a view shows
  lastTick    \* history: the price of a symbol's last tick

livePricesVars == <<sharedPrices, stream, retries, watched, listening, asking, prices, lastTick>>

Price == [ltp : Prices \union {None}, prev : Range(PrevClose) \union {None}] \union {None}

TypeOK ==
  /\ sharedPrices \in [Symbols -> Price] /\ prices \in [Views -> [Symbols -> Price]]
  /\ stream \in BOOLEAN /\ retries \in 0 .. MaxRetries
  /\ watched \in [Views -> SUBSET Symbols] /\ lastTick \in [Symbols -> Prices \union {None}]
  /\ listening \in [Views -> BOOLEAN] /\ asking \in [Views -> BOOLEAN]
  /\ \A v \in Views : asking[v] => listening[v]

NoPrices == [s \in Symbols |-> None]

Init ==
  /\ sharedPrices = NoPrices /\ prices = [v \in Views |-> NoPrices]
  /\ stream = FALSE /\ retries = 0 /\ lastTick = NoPrices
  /\ watched = [v \in Views |-> {}]
  /\ listening = [v \in Views |-> FALSE] /\ asking = [v \in Views |-> FALSE]

-----------------------------------------------------------------------------
(* Views.                                                                  *)

PickPrices(syms) == [s \in Symbols |-> IF s \in syms THEN sharedPrices[s] ELSE None]

\* The effect of enabled and symbols: the old listener and request are off.
Watch(v, syms) ==
  /\ syms # {} /\ ~(listening[v] /\ watched[v] = syms)
  /\ watched' = [watched EXCEPT ![v] = syms]
  /\ listening' = [listening EXCEPT ![v] = TRUE] /\ asking' = [asking EXCEPT ![v] = TRUE]
  /\ prices' = [prices EXCEPT ![v] = PickPrices(syms)]
  /\ stream' = TRUE
  /\ UNCHANGED <<sharedPrices, retries, lastTick>>

\* Disabled, unmounted, or left without a symbol.
Unwatch(v) ==
  /\ listening[v]
  /\ listening' = [listening EXCEPT ![v] = FALSE] /\ asking' = [asking EXCEPT ![v] = FALSE]
  /\ UNCHANGED <<sharedPrices, stream, retries, watched, prices, lastTick>>

\* Mutant: the metrics, fetched before, overwrite a tick.
MetricWins(s, ltp) ==
  LET now == sharedPrices[s] IN
  [ltp |-> OrElse(ltp, IF now = None THEN None ELSE now.ltp), prev |-> PrevClose[s]]

\* mergeMetricPrice: what is shared already, a tick or older metrics, wins.
MergeMetricPrice(s, ltp) ==
  LET now == sharedPrices[s] IN
  [ltp |-> IF now = None THEN ltp ELSE OrElse(now.ltp, ltp), prev |-> PrevClose[s]]

\* The answer has metrics for some of the symbols; other views are not told.
MetricsAnswer(v) ==
  /\ asking[v] /\ asking' = [asking EXCEPT ![v] = FALSE]
  /\ \E found \in SUBSET watched[v], ltp \in Prices \union {None} :
       LET Merged(old) == [s \in Symbols |-> IF s \in found THEN MergeMetricPrice(s, ltp) ELSE old[s]] IN
       /\ sharedPrices' = Merged(sharedPrices)
       /\ prices' = [prices EXCEPT ![v] = Merged(@)]
  /\ UNCHANGED <<stream, retries, watched, listening, lastTick>>

MetricsFail(v) ==
  /\ asking[v] /\ asking' = [asking EXCEPT ![v] = FALSE]
  /\ UNCHANGED <<sharedPrices, stream, retries, watched, listening, prices, lastTick>>

-----------------------------------------------------------------------------
(* The stream.                                                             *)

Tick(s, p) ==
  LET next == [ltp |-> p, prev |-> IF sharedPrices[s] = None THEN None ELSE sharedPrices[s].prev] IN
  /\ stream
  /\ sharedPrices' = [sharedPrices EXCEPT ![s] = next]
  /\ prices' = [v \in Views |-> IF listening[v] /\ s \in watched[v]
                                THEN [prices[v] EXCEPT ![s] = next] ELSE prices[v]]
  /\ lastTick' = [lastTick EXCEPT ![s] = p]
  /\ UNCHANGED <<stream, retries, watched, listening, asking>>

StreamError ==
  /\ stream /\ retries < MaxRetries
  /\ stream' = FALSE /\ retries' = retries + 1
  /\ UNCHANGED <<sharedPrices, watched, listening, asking, prices, lastTick>>

\* The timer after 3 s: ensurePriceStream, which leaves an open stream alone.
RetryFires ==
  /\ retries > 0 /\ retries' = retries - 1 /\ stream' = TRUE
  /\ UNCHANGED <<sharedPrices, watched, listening, asking, prices, lastTick>>

Next ==
  \/ \E v \in Views : \/ \E syms \in SUBSET Symbols : Watch(v, syms)
                      \/ Unwatch(v) \/ MetricsAnswer(v) \/ MetricsFail(v)
  \/ \E s \in Symbols, p \in Prices : Tick(s, p)
  \/ StreamError \/ RetryFires

Spec == Init /\ [][Next]_livePricesVars

-----------------------------------------------------------------------------
(* Properties.                                                             *)

\* A symbol that has had a tick shows the price of the last one in every view
\* that is on, whatever metrics came before, between and after.
LiveInEveryView ==
  \A v \in Views : \A s \in watched[v] :
    listening[v] /\ lastTick[s] # None => prices[v][s] # None /\ prices[v][s].ltp = lastTick[s]

\* Symbols that never tick have no live price.
LiveOf(v) == [s \in DOMAIN Metrics |-> IF s \in Symbols THEN prices[v][s] ELSE None]

HeatOf(v) == HeatEntries(Signals, Metrics, LiveOf(v))

\* What HeatMapFrame draws of them.
VisibleEntries(v) == TopLiquidMovers(HeatOf(v))

\* The heat map leaves no liquid mover out for a smaller one of its side, takes
\* at most so many per side, and its three counts add up.
TopMovers ==
  \A v \in Views :
    LET shown == VisibleEntries(v)
        Same(a, b) == (a.chg > 0) = (b.chg > 0)
        stats == HeatStats(shown)
    IN /\ \A e \in shown : e \in HeatOf(v) /\ e.adv >= MinAdv /\ e.chg \notin {None, 0}
       /\ \A e \in HeatOf(v) \ shown : e.adv >= MinAdv /\ e.chg \notin {None, 0} =>
            /\ Cardinality({x \in shown : Same(x, e)}) = PerSide
            /\ \A x \in shown : Same(x, e) => Move(x) >= Move(e)
       /\ \A e \in shown : Cardinality({x \in shown : Same(x, e)}) <= PerSide
       /\ stats.gainers + stats.losers + stats.flat = Cardinality(shown)
=============================================================================
