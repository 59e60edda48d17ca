----------------------------- MODULE DailyChart -----------------------------
(***************************************************************************)
(* The chart of a symbol and a timeframe: useDailyChart under DailyChart,  *)
(* whose symbol changes in place in the chart view of the stock list.      *)
(*                                                                         *)
(* What is drawn is named by its key, the symbol and timeframe of the bars *)
(* it was computed from; Bars(key) are the bars.                           *)
(***************************************************************************)
EXTENDS ChartData

CONSTANTS
  Symbols,
  Served(_, _),  \* the bars the server has for a symbol and an endpoint
  Offered,       \* the timeframes clicked
  None,
  MaxAsked       \* bound: requests

DailyChartAssumption ==
  /\ MaxAsked \in Nat \ {0} /\ "1d" \in Offered /\ Offered \subseteq Timeframes /\ Buckets \in Nat \ {0}
  /\ \A s \in Symbols, tf \in Offered : Sound(Served(s, Endpoint(tf)))

Indicators == {"fast", "slow", "vol", "vp"}

Keys == [symbol : Symbols, tf : Offered]

Bars(k) == Resampled(Served(k.symbol, Endpoint(k.tf)), k.tf)

\* The times of the points of the average drawn as line, "fast" or "slow".
LineTimes(k, line) == EmaTimes(Bars(k), EmaPeriods(k.tf)[line])

VARIABLES
  key,       \* symbol and tf
  vis,       \* the indicators switched on
  busy, failed, \* loading, error
  legend,    \* the key of the bar under the cross hair
  candles,   \* the key drawn as candles
  overlays,  \* the keys drawn as fast, slow and vol
  data,      \* the key of dataRef, which a change of selection leaves alone
  profile,   \* the bars drawn as volume profile on the canvas: [key, from, to]
  frames,    \* requestAnimationFrame callbacks: the keys they draw a profile of
  asks,      \* requests on the way: [id, key]
  current    \* the request that is not aborted, the last one sent

dailyChartVars == <<key, vis, busy, failed, legend, candles, overlays, data, profile, frames, asks, current>>

Drawing == Keys \union {None}

TypeOK ==
  /\ key \in Keys /\ vis \subseteq Indicators /\ busy \in BOOLEAN /\ failed \in BOOLEAN
  /\ legend \in Drawing /\ candles \in Drawing /\ data \in Drawing
  /\ overlays \in [Indicators \ {"vp"} -> Drawing]
  /\ profile \in {None} \union [key : Keys, from : Nat, to : Nat]
  /\ frames \in Seq(Keys)
  /\ asks \subseteq [id : 1 .. MaxAsked, key : Keys] /\ current \in 1 .. MaxAsked

Init ==
  /\ key \in [symbol : Symbols, tf : {"1d"}] /\ vis = Indicators /\ busy = TRUE /\ failed = FALSE
  /\ legend = None /\ candles = None /\ data = None /\ profile = None /\ frames = <<>>
  /\ overlays = [i \in Indicators \ {"vp"} |-> None]
  /\ current = 1 /\ asks = {[id |-> 1, key |-> key]}

-----------------------------------------------------------------------------
(* Drawing.                                                                *)

\* drawVP of bars from .. to of k, with indicators on; priceToCoordinate knows
\* no price while the candles are empty.
DrawVP(k, from, to, on) ==
  IF "vp" \in on /\ candles # None /\ k # None
  THEN [key |-> k, from |-> from, to |-> to] ELSE None

WholeVP(k, on) == DrawVP(k, 1, IF k = None THEN 0 ELSE Len(Bars(k)), on)

OverlaysOf(k, on) == [i \in Indicators \ {"vp"} |-> IF i \in on THEN k ELSE None]

\* refreshVP of the bars in sight, here and on a change of the visible range.
RefreshVP(on) ==
  IF data = None THEN profile' = None
  ELSE \E from, to \in DOMAIN Bars(data) : from <= to /\ profile' = DrawVP(data, from, to, on)

-----------------------------------------------------------------------------
(* Actions.                                                                *)

\* A new symbol or timeframe: the effect's clean-up and a new, empty chart.
Select(k) ==
  /\ k # key /\ current < MaxAsked
  /\ key' = k /\ current' = current + 1
  /\ asks' = asks \union {[id |-> current', key |-> k]}
  /\ busy' = TRUE /\ failed' = FALSE /\ legend' = None
  /\ candles' = None /\ overlays' = OverlaysOf(None, vis)
  /\ UNCHANGED <<vis, data, profile, frames>>

\* Mutant: the answer does not look at aborted.
AnyRequest(r) == r \in asks

Live(r) == r.id = current

Answer(r) ==
  /\ r \in asks /\ asks' = asks \ {r}
  /\ IF Live(r)
     THEN /\ data' = r.key /\ candles' = r.key /\ overlays' = OverlaysOf(r.key, vis)
          /\ frames' = Append(frames, r.key) /\ busy' = FALSE
     ELSE UNCHANGED <<data, candles, overlays, frames, busy>>
  /\ UNCHANGED <<key, vis, failed, legend, profile, current>>

Fail(r) ==
  /\ r \in asks /\ asks' = asks \ {r}
  /\ IF Live(r) THEN failed' = TRUE /\ busy' = FALSE ELSE UNCHANGED <<failed, busy>>
  /\ UNCHANGED <<key, vis, legend, candles, overlays, data, profile, frames, current>>

\* The frame asked for by an answer draws all its bars, not those in sight.
Frame ==
  /\ frames # <<>> /\ frames' = Tail(frames)
  /\ profile' = WholeVP(Head(frames), vis)
  /\ UNCHANGED <<key, vis, busy, failed, legend, candles, overlays, data, asks, current>>

\* The vis effect draws from dataRef, whatever it holds.
Toggle(i) ==
  /\ vis' = IF i \in vis THEN vis \ {i} ELSE vis \union {i}
  /\ overlays' = OverlaysOf(data, vis')
  /\ RefreshVP(vis')
  /\ UNCHANGED <<key, busy, failed, legend, candles, data, frames, asks, current>>

\* A resize or a change of the visible range.
Redraw ==
  /\ RefreshVP(vis)
  /\ UNCHANGED <<key, vis, busy, failed, legend, candles, overlays, data, frames, asks, current>>

\* The cross hair meets a bar of this chart, or leaves it.
Hover ==
  /\ legend' \in {None, candles}
  /\ UNCHANGED <<key, vis, busy, failed, candles, overlays, data, profile, frames, asks, current>>

Next ==
  \/ \E k \in Keys : Select(k)
  \/ \E r \in asks : Answer(r) \/ Fail(r)
  \/ \E i \in Indicators : Toggle(i)
  \/ Frame \/ Redraw \/ Hover

Spec == Init /\ [][Next]_dailyChartVars

-----------------------------------------------------------------------------
(* Properties.                                                             *)

\* The candles are those of the selection or none: an answer that was overtaken
\* by another selection is never drawn.
Latest == INSTANCE LatestAnswer WITH Things <- Keys, Nothing <- None, asked <- key, shown <- candles

ImplementsLatestAnswer == Latest!Spec

\* On a chart that has loaded, the averages, the volumes, the legend and (once
\* the frames are drawn) the profile are of the bars of the candles; an
\* indicator that is off is not drawn.  While it loads and after an error they
\* may be of an earlier selection, when an indicator is toggled.
ChartAgrees ==
  ~busy /\ ~failed =>
    /\ candles = key
    /\ overlays = OverlaysOf(key, vis)
    /\ legend \in {None, key}
    /\ frames = <<>> /\ profile # None => "vp" \in vis /\ profile.key = key

\* Of the volume of bars, what the profile spreads: a bar that traded at their
\* highest price alone ends before it begins, and is dropped.
SpreadVolume(bars) ==
  Total([i \in DOMAIN bars |-> IF bars[i].low < Highest(bars) THEN bars[i].volume ELSE 0])

\* What is drawn is sound: times ascend (setData asks for it), resampled bars
\* lose no volume and no extreme of the bars served, and the profile spreads
\* exactly the volume of the bars it was drawn of, but of those at the very top,
\* if their prices differ at all; an average ends at the last bar.
DrawnDataSound ==
  /\ candles # None =>
       LET raw  == Served(candles.symbol, Endpoint(candles.tf))
           bars == Bars(candles)
       IN /\ \A i \in 2 .. Len(bars) : bars[i - 1].time < bars[i].time
          /\ Volume(bars) = Volume(raw)
          /\ Highest(bars) = Highest(raw) /\ Lowest(bars) = Lowest(raw)
          /\ bars[1].open = raw[1].open /\ bars[Len(bars)].close = raw[Len(raw)].close
  /\ \A line \in {"fast", "slow"} : overlays[line] # None =>
       LET times == LineTimes(overlays[line], line)
           bars  == Bars(overlays[line])
       IN times = <<>> \/ times[Len(times)] = bars[Len(bars)].time
  /\ profile # None =>
       LET bars == SubSeq(Bars(profile.key), profile.from, profile.to)
           rows == VolumeProfile(bars)
       IN rows # <<>> => Total(rows) = Scale * SpreadVolume(bars)
=============================================================================
