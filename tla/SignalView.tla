----------------------------- MODULE SignalView -----------------------------
(***************************************************************************)
(* The pure rules of the live view: which signals are listed and in which  *)
(* order (filterSignals, useSignalSort), what live prices do to metrics    *)
(* (SignalFeed), and the heat map (LiveHeatMapView, heatmap).              *)
(*                                                                         *)
(* Signals are [symbol, type, price, time, score]; metrics map a symbol to *)
(* None or [adv, is_fno, current, day_close, prev, high, chg]; live prices *)
(* to None or [ltp, prev].  A symbol is its alphabetical rank, a missing   *)
(* number None, a percentage in basis points.                              *)
(***************************************************************************)
EXTENDS Integers, Sequences, Arrangement

CONSTANTS
  None,
  Types,      \* the categories and their signal types, CATEGORY_TYPES
  PerSide,    \* HEATMAP_TOP_PER_SIDE
  MinAdv      \* HEATMAP_MIN_ADV_CR

\* a ?? b
OrElse(a, b) == IF a # None THEN a ELSE b

\* A falsy number counts as missing.
OrElseTruthy(a, b) == IF a \notin {None, 0} THEN a ELSE b

PctOf(price, prev) == ((price - prev) * 10000) \div prev

-----------------------------------------------------------------------------
(* The list of signals.                                                    *)

\* A symbol without metrics yet passes the liquidity filter, and fails F&O only.
PassesFilter(s, f, metrics) ==
  /\ f.category # "ALL" => s.type \in Types[f.category]
  /\ f.subType # None => s.type = f.subType
  /\ f.fnoOnly => metrics[s.symbol] # None /\ metrics[s.symbol].is_fno
  /\ f.minAdv > 0 /\ metrics[s.symbol] # None => OrElse(metrics[s.symbol].adv, 0) >= f.minAdv

\* Where the signals are that pass the filter and the query.
FilterSignals(signals, f, metrics) ==
  {i \in DOMAIN signals : /\ PassesFilter(signals[i], f, metrics)
                          /\ f.query = None \/ signals[i].symbol \in f.query}

\* displayMetrics: the metrics of a symbol with a live price take it over.
DisplayMetrics(metrics, live) ==
  [s \in DOMAIN metrics |->
    LET m == metrics[s]
        p == live[s]
    IN IF m = None \/ p = None \/ (p # None /\ p.ltp = None) THEN m
       ELSE LET prev == OrElse(p.prev, m.prev) IN
            [m EXCEPT !.current = p.ltp, !.day_close = p.ltp, !.prev = prev,
                      !.chg = IF prev \in {None, 0} THEN m.chg ELSE PctOf(p.ltp, prev)]]

SortValue(s, key, metrics) ==
  LET m == metrics[s.symbol] IN
  CASE key = "timestamp" -> s.time
    [] key = "price"     -> s.price
    [] key = "score"     -> s.score
    [] key = "adv"       -> IF m = None THEN None ELSE m.adv
    [] key = "chg_pct"   -> IF m = None THEN None ELSE m.chg
    [] key = "f52h_pct"  -> IF m = None \/ s.price = None THEN None
                            ELSE IF m.high = None THEN None ELSE PctOf(s.price, m.high)

Precedes(a, b, asc) ==
  \/ a # None /\ b = None
  \/ a # None /\ b # None /\ (IF asc THEN a < b ELSE a > b)

\* sort.key is None until a head is clicked; the sort is stable.
Sooner(signals, places, sort, metrics) ==
  LET Value(i) == SortValue(signals[i], sort.key, metrics) IN
  {p \in places \X places : \/ Precedes(Value(p[1]), Value(p[2]), sort.asc)
                            \/ ~Precedes(Value(p[2]), Value(p[1]), sort.asc) /\ p[1] < p[2]}

SortedSignals(signals, places, sort, metrics) ==
  LET order == Arranged(places, Sooner(signals, places, sort, metrics)) IN
  IF sort.key = None THEN Picked(signals, places) ELSE [n \in DOMAIN order |-> signals[order[n]]]

-----------------------------------------------------------------------------
(* The heat map.                                                           *)

\* The newest signal of every symbol.
LatestBySymbol(signals) ==
  {signals[i] : i \in {n \in DOMAIN signals : \A k \in 1 .. n - 1 : signals[k].symbol # signals[n].symbol}}

HeatEntry(s, m, p) ==
  LET Of(r, field) == IF r = None THEN None ELSE r[field]
      price == OrElse(Of(p, "ltp"), OrElse(Of(m, "current"), OrElse(Of(m, "day_close"), s.price)))
      prev  == OrElse(Of(p, "prev"), Of(m, "prev"))
  IN [symbol |-> s.symbol, price |-> price, adv |-> OrElseTruthy(Of(m, "adv"), 1),
      chg |-> IF price # None /\ prev \notin {None, 0} THEN PctOf(price, prev) ELSE Of(m, "chg")]

CachedEntry(sym, m) ==
  [symbol |-> sym, price |-> OrElse(m.current, m.day_close), adv |-> OrElseTruthy(m.adv, 1), chg |-> m.chg]

\* Without a signal to show, the metrics fetched so far are shown.
HeatEntries(signals, metrics, live) ==
  LET cached == {CachedEntry(sym, metrics[sym]) : sym \in {x \in DOMAIN metrics : metrics[x] # None}}
      listed == {HeatEntry(s, metrics[s.symbol], live[s.symbol]) : s \in LatestBySymbol(signals)}
  IN IF signals = <<>> THEN cached ELSE listed

Move(entry) == IF entry.chg = None THEN 0 ELSE IF entry.chg < 0 THEN -entry.chg ELSE entry.chg

\* heatMoveSort
MovesMore(a, b) == Move(a) > Move(b) \/ (Move(a) = Move(b) /\ a.symbol < b.symbol)

\* The first n, sorted.
FirstOf(entries, n) ==
  LET more == {p \in entries \X entries : MovesMore(p[1], p[2])} IN {e \in entries : Ahead(entries, more, e) < n}

\* Mutant: the biggest movers are taken before the liquid ones.
TopThenLiquid(entries) ==
  LET Side(more) == FirstOf({e \in entries : e.chg # None /\ IF more THEN e.chg > 0 ELSE e.chg < 0}, PerSide)
  IN {e \in Side(TRUE) \union Side(FALSE) : e.adv >= MinAdv}

TopLiquidMovers(entries) ==
  LET liquid == {e \in entries : e.chg # None /\ e.adv >= MinAdv} IN
  FirstOf({e \in liquid : e.chg > 0}, PerSide) \union FirstOf({e \in liquid : e.chg < 0}, PerSide)

\* heatStats: more than half a percent up, down, or flat.
HeatStats(shown) ==
  LET gainers == {e \in shown : e.chg > 50}
      losers  == {e \in shown : e.chg < -50}
  IN [gainers |-> Cardinality(gainers), losers |-> Cardinality(losers),
      flat |-> Cardinality(shown \ (gainers \union losers))]
=============================================================================
