------------------------------ MODULE ChartData -----------------------------
(***************************************************************************)
(* The pure part of the chart (chartUtils): the request of a timeframe,    *)
(* the resampling of daily bars, the times of an average's points, and the *)
(* volume profile.                                                         *)
(*                                                                         *)
(* A time is a day number, day 0 a Sunday; bars come sorted by time.       *)
(***************************************************************************)
EXTENDS Integers, Sequences, FiniteSetsExt, Arrangement

CONSTANTS
  MonthStart(_),  \* the first day of a day's month
  Buckets         \* the rows of the volume profile

Timeframes == {"1m", "15m", "1d", "1w", "1mo"}

Intraday == {"1m", "15m"}

\* buildChartUrl: the daily timeframes all ask for the daily bars.
Endpoint(tf) == IF tf \in Intraday THEN tf ELSE "daily"

EmaPeriods(tf) ==
  CASE tf = "1m"  -> [fast |-> 9,  slow |-> 21]
    [] tf = "15m" -> [fast |-> 20, slow |-> 50]
    [] tf = "1d"  -> [fast |-> 50, slow |-> 200]
    [] tf = "1w"  -> [fast |-> 9,  slow |-> 21]
    [] tf = "1mo" -> [fast |-> 6,  slow |-> 12]

Bar == [time : Int, open : Int, high : Int, low : Int, close : Int, volume : Nat]

\* What the routes answer: some bars (without any it is a 404), in the order of
\* their times; months begin in the order of their days.
Sound(bars) ==
  /\ bars \in Seq(Bar) /\ bars # <<>>
  /\ \A i \in DOMAIN bars : bars[i].low <= bars[i].high /\ MonthStart(bars[i].time) \in Int
  /\ \A i, j \in DOMAIN bars :
       i < j => bars[i].time < bars[j].time /\ MonthStart(bars[i].time) <= MonthStart(bars[j].time)

\* The sums of the first numbers of a sequence, and of all.
Running(v) == LET sum[n \in 0 .. Len(v)] == IF n = 0 THEN 0 ELSE sum[n - 1] + v[n] IN sum

Total(v) == Running(v)[Len(v)]

Times(bars) == [i \in DOMAIN bars |-> bars[i].time]

Volume(bars) == Total([i \in DOMAIN bars |-> bars[i].volume])

Highest(bars) == Max({bars[i].high : i \in DOMAIN bars})

Lowest(bars) == Min({bars[i].low : i \in DOMAIN bars})

\* computeEMA: a point for every bar from the period-th on.
EmaTimes(bars, period) == SubSeq(Times(bars), period, Len(bars))

-----------------------------------------------------------------------------
(* Resampling.                                                             *)

Monday(d) == d + (IF d % 7 = 0 THEN -6 ELSE 1 - (d % 7))

\* The bar of a group.
Merged(k, g) ==
  [time |-> k, open |-> Head(g).open, close |-> g[Len(g)].close,
   high |-> Highest(g), low |-> Lowest(g), volume |-> Volume(g)]

\* Bars of one key become one bar; keys are the keys of the bars.
Group(bars, keys) ==
  LET different == Range(keys)
      order == Arranged(different, Lower(different))
  IN [n \in DOMAIN order |-> Merged(order[n], Picked(bars, {i \in DOMAIN bars : keys[i] = order[n]}))]

Resampled(bars, tf) ==
  CASE tf = "1w"  -> Group(bars, [i \in DOMAIN bars |-> Monday(bars[i].time)])
    [] tf = "1mo" -> Group(bars, [i \in DOMAIN bars |-> MonthStart(bars[i].time)])
    [] OTHER      -> bars

-----------------------------------------------------------------------------
(* The volume profile, in units of 1 / Scale.                              *)

Factorial[n \in 0 .. Buckets] == IF n = 0 THEN 1 ELSE n * Factorial[n - 1]

\* A multiple of every number of buckets, so that the shares are whole.
Scale == Factorial[Buckets]

\* The bucket of a price, from 0.
BucketOf(price, lo, hi) == ((price - lo) * Buckets) \div (hi - lo)

\* Mutant: the top of the highest bar falls out of the profile.
TopUnclipped(bar, lo, hi) == BucketOf(bar.high, lo, hi)

BottomBucket(bar, lo, hi) == Max({0, BucketOf(bar.low, lo, hi)})

TopBucket(bar, lo, hi) == Min({Buckets - 1, BucketOf(bar.high, lo, hi)})

\* A bar's share of a bucket: of one price at the very top it has no bucket.
Share(bar, i, lo, hi) ==
  LET bottom == BottomBucket(bar, lo, hi)
      top    == TopBucket(bar, lo, hi)
  IN IF i \in bottom .. top THEN (Scale * bar.volume) \div (top - bottom + 1) ELSE 0

VolumeProfile(bars) ==
  LET lo == Lowest(bars)
      hi == Highest(bars)
  IN IF bars = <<>> \/ hi = lo
     THEN <<>>
     ELSE [i \in 1 .. Buckets |-> Total([j \in DOMAIN bars |-> Share(bars[j], i - 1, lo, hi)])]
=============================================================================
