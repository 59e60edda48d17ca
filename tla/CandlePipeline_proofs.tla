------------------------ MODULE CandlePipeline_proofs -----------------------
(***************************************************************************)
(* What candles and signals are worth for every day length, session,       *)
(* candle size, history, queue and set of instruments.                     *)
(***************************************************************************)
EXTENDS CandlePipeline, TLAPS

-----------------------------------------------------------------------------
(* Minutes, days, candles.                                                 *)

LEMMA DivMod ==
  ASSUME NEW n \in Int, NEW m \in Nat \ {0}
  PROVE  /\ n \div m \in Int /\ n % m \in 0 .. m - 1
         /\ n = m * (n \div m) + (n % m)
OBVIOUS

LEMMA DivNat ==
  ASSUME NEW n \in Nat, NEW m \in Nat \ {0}
  PROVE  n \div m \in Nat
OBVIOUS

LEMMA DivModUnique ==
  ASSUME NEW m \in Nat \ {0}, NEW q \in Int, NEW r \in 0 .. m - 1
  PROVE  (m * q + r) \div m = q /\ (m * q + r) % m = r
OBVIOUS

LEMMA DivMonotone ==
  ASSUME NEW m \in Nat \ {0}, NEW a \in Int, NEW b \in Int, a <= b
  PROVE  a \div m <= b \div m
OBVIOUS

LEMMA ProductMonotone ==
  ASSUME NEW m \in Nat \ {0}, NEW a \in Int, NEW b \in Int, a <= b
  PROVE  m * a \in Int /\ m * b \in Int /\ m * a <= m * b
OBVIOUS

\* A minute is a day and a time of day.
LEMMA DayAndTime ==
  ASSUME NEW t \in Nat
  PROVE  /\ Day(t) \in Nat /\ TimeOfDay(t) \in 0 .. DayLen - 1
         /\ t = DayLen * Day(t) + TimeOfDay(t)
<1>1. DayLen \in Nat \ {0}
  BY CandleAssumption
<1>2. t % DayLen \in 0 .. DayLen - 1 /\ t = DayLen * (t \div DayLen) + (t % DayLen)
  BY <1>1, DivMod
<1>3. t \div DayLen \in Nat
  BY <1>1, DivNat
<1> QED
  BY <1>2, <1>3 DEF Day, TimeOfDay

LEMMA DayTimesNat ==
  ASSUME NEW d \in Nat
  PROVE  DayLen * d \in Nat
BY CandleAssumption

LEMMA DayOfMinute ==
  ASSUME NEW d \in Nat, NEW r \in 0 .. DayLen - 1
  PROVE  /\ DayLen * d + r \in Nat
         /\ Day(DayLen * d + r) = d /\ TimeOfDay(DayLen * d + r) = r
BY DivModUnique, CandleAssumption DEF Day, TimeOfDay

LEMMA DayMonotone ==
  ASSUME NEW s \in Nat, NEW t \in Nat, s <= t
  PROVE  Day(s) <= Day(t)
BY DivMonotone, CandleAssumption DEF Day

\* Minutes of one day compare like their times.
LEMMA SameDayOrder ==
  ASSUME NEW s \in Nat, NEW t \in Nat, Day(s) = Day(t), s <= t
  PROVE  TimeOfDay(s) <= TimeOfDay(t)
<1> DEFINE x == DayLen * Day(t)
<1>1. x \in Nat
  BY DayAndTime, DayTimesNat
<1>2. s = x + TimeOfDay(s) /\ t = x + TimeOfDay(t)
  BY DayAndTime
<1> HIDE DEF x
<1> QED
  BY <1>1, <1>2, DayAndTime

\* The candle of a minute of the session begins in the session of its day.
LEMMA BoundaryOf ==
  ASSUME NEW d \in Nat, NEW r \in Open .. Close - 1
  PROVE  /\ Boundary(DayLen * d + r) = DayLen * d + (r - ((r - Open) % CandleMin))
         /\ r - ((r - Open) % CandleMin) \in Open .. r
         /\ Boundary(DayLen * d + r) \in Nat
         /\ Day(Boundary(DayLen * d + r)) = d
         /\ Open <= TimeOfDay(Boundary(DayLen * d + r))
<1>1. r \in 0 .. DayLen - 1 /\ DayLen \in Nat /\ Open \in Nat /\ CandleMin \in Nat \ {0}
  BY CandleAssumption
<1>2. TimeOfDay(DayLen * d + r) = r /\ DayLen * d + r \in Nat
  BY <1>1, DayOfMinute
<1> DEFINE x == DayLen * d
           m == (r - Open) % CandleMin
<1>3. x \in Nat
  BY DayTimesNat
<1>4. m \in 0 .. CandleMin - 1
  BY <1>1, DivMod
<1>5. m <= r - Open
  <2>1. r - Open = CandleMin * ((r - Open) \div CandleMin) + m
    BY <1>1, DivMod
  <2>3. 0 <= (r - Open) \div CandleMin /\ (r - Open) \div CandleMin \in Int
    <3>1. r - Open \in Nat
      BY <1>1
    <3> QED
      BY <1>1, <3>1, DivNat
  <2>4. 0 <= CandleMin * ((r - Open) \div CandleMin)
    BY <1>1, <2>3, ProductMonotone
  <2> QED
    BY <1>1, <1>4, <2>1, <2>3, <2>4
<1>6. Boundary(DayLen * d + r) = (x + r) - m
  BY <1>2 DEF Boundary
<1> HIDE DEF x, m
<1>7. (x + r) - m = x + (r - m) /\ r - m \in Open .. r
  BY <1>1, <1>3, <1>4, <1>5
<1>8. r - m \in 0 .. DayLen - 1
  <2>1. r - m \in Int /\ Open <= r - m /\ r - m <= r
    BY <1>1, <1>7
  <2> QED
    BY <1>1, <2>1
<1>9. Day(DayLen * d + (r - m)) = d /\ TimeOfDay(DayLen * d + (r - m)) = r - m
      /\ DayLen * d + (r - m) \in Nat
  BY <1>8, DayOfMinute
<1> QED
  BY <1>1, <1>6, <1>7, <1>9 DEF x, m

\* A later minute of a session is never in an earlier candle.
LEMMA BoundaryMonotone ==
  ASSUME NEW d \in Nat, NEW r \in Open .. Close - 1, NEW s \in Open .. Close - 1, r <= s
  PROVE  Boundary(DayLen * d + r) <= Boundary(DayLen * d + s)
<1>1. Open \in Nat /\ CandleMin \in Nat \ {0} /\ DayLen * d \in Nat /\ r \in Nat /\ s \in Nat
  BY CandleAssumption, DayTimesNat
<1> DEFINE p == (r - Open) \div CandleMin
           q == (s - Open) \div CandleMin
<1>2. p \in Int /\ q \in Int /\ p <= q
  <2>1. r - Open \in Nat /\ s - Open \in Nat /\ r - Open <= s - Open
    BY <1>1
  <2> QED
    BY <1>1, <2>1, DivMonotone, DivNat
<1>3. CandleMin * p \in Int /\ CandleMin * q \in Int /\ CandleMin * p <= CandleMin * q
  BY <1>1, <1>2, ProductMonotone
<1>4. /\ r - Open = CandleMin * p + ((r - Open) % CandleMin)
      /\ s - Open = CandleMin * q + ((s - Open) % CandleMin)
      /\ (r - Open) % CandleMin \in Int /\ (s - Open) % CandleMin \in Int
  BY <1>1, DivMod
<1> DEFINE u == CandleMin * p
           v == CandleMin * q
           a == (r - Open) % CandleMin
           b == (s - Open) % CandleMin
<1> HIDE DEF p, q, u, v, a, b
<1>5. r - ((r - Open) % CandleMin) <= s - ((s - Open) % CandleMin)
  <2>1. r - Open = u + a /\ s - Open = v + b /\ a \in Int /\ b \in Int
    BY <1>4 DEF u, v, a, b
  <2>2. u \in Int /\ v \in Int /\ u <= v
    BY <1>3 DEF u, v
  <2>3. r - a <= s - b
    BY <1>1, <2>1, <2>2
  <2> QED
    BY <2>3 DEF a, b
<1> QED
  <2> DEFINE x == DayLen * d
             y == r - ((r - Open) % CandleMin)
             z == s - ((s - Open) % CandleMin)
  <2>1. Boundary(DayLen * d + r) = x + y /\ Boundary(DayLen * d + s) = x + z
    BY BoundaryOf
  <2>2. y \in Int /\ z \in Int /\ x \in Nat
    BY <1>1, BoundaryOf
  <2> HIDE DEF x, y, z
  <2>3. y <= z
    BY <1>5 DEF y, z
  <2> QED
    BY <2>1, <2>2, <2>3

\* The same for minutes as the feed names them.
LEMMA SessionBoundary ==
  ASSUME NEW t \in Nat, InSession(t)
  PROVE  /\ TimeOfDay(t) \in Open .. Close - 1
         /\ Boundary(t) = Boundary(DayLen * Day(t) + TimeOfDay(t))
         /\ Boundary(t) \in Nat /\ Day(Boundary(t)) = Day(t)
         /\ Boundary(t) <= t /\ DayLen * Day(t) + Open <= Boundary(t)
<1>1. /\ t = DayLen * Day(t) + TimeOfDay(t) /\ Day(t) \in Nat
      /\ TimeOfDay(t) \in 0 .. DayLen - 1
  BY DayAndTime
<1>2. TimeOfDay(t) \in Open .. Close - 1
  BY <1>1, CandleAssumption DEF InSession
<1> DEFINE x == DayLen * Day(t)
           y == TimeOfDay(t) - ((TimeOfDay(t) - Open) % CandleMin)
<1>3. x \in Nat
  BY <1>1, DayTimesNat
<1>4. y \in Open .. TimeOfDay(t) /\ Boundary(t) = x + y /\ Boundary(t) \in Nat
      /\ Day(Boundary(t)) = Day(t)
  BY <1>1, <1>2, BoundaryOf
<1>5. t = x + TimeOfDay(t)
  BY <1>1
<1> HIDE DEF x, y
<1>6. Boundary(t) <= t /\ x + Open <= Boundary(t)
  BY <1>1, <1>2, <1>3, <1>4, <1>5, CandleAssumption
<1> QED
  BY <1>1, <1>2, <1>4, <1>6 DEF x

LEMMA SessionOrder ==
  ASSUME NEW s \in Nat, NEW t \in Nat, InSession(s), InSession(t), Day(s) = Day(t), s <= t
  PROVE  Boundary(s) <= Boundary(t)
<1>1. TimeOfDay(s) <= TimeOfDay(t)
  BY SameDayOrder
<1>2. TimeOfDay(s) \in Open .. Close - 1 /\ TimeOfDay(t) \in Open .. Close - 1
  BY SessionBoundary
<1>3. s = DayLen * Day(t) + TimeOfDay(s) /\ t = DayLen * Day(t) + TimeOfDay(t)
  BY DayAndTime
<1> QED
  BY <1>1, <1>2, <1>3, BoundaryMonotone, DayAndTime

\* A trade in the candle of a minute of the session, and not after it, is of
\* that session.
LEMMA EarlierInCandle ==
  ASSUME NEW t \in Nat, NEW u \in Nat, t <= u, InSession(u), Boundary(t) = Boundary(u)
  PROVE  InSession(t) /\ Day(t) = Day(u)
<1>1. Open \in Nat /\ CandleMin \in Nat \ {0}
  BY CandleAssumption
<1>2. Boundary(t) <= t
  <2>1. TimeOfDay(t) - Open \in Int
    BY <1>1, DayAndTime
  <2>2. (TimeOfDay(t) - Open) % CandleMin \in 0 .. CandleMin - 1
    BY <1>1, <2>1, DivMod
  <2> QED
    BY <1>1, <2>2 DEF Boundary
<1> DEFINE x == DayLen * Day(u)
<1>3. x \in Nat /\ x + Open <= t /\ Day(u) \in Nat
  <2>1. Day(u) \in Nat /\ x \in Nat
    BY DayAndTime, DayTimesNat
  <2>2. x + Open <= Boundary(u) /\ Boundary(u) \in Nat
    BY SessionBoundary
  <2> HIDE DEF x
  <2> QED
    BY <1>1, <1>2, <2>1, <2>2
<1>4. x <= t
  BY <1>1, <1>3
<1>5. Day(x) = Day(u)
  <2>1. 0 \in 0 .. DayLen - 1 /\ x + 0 = x
    BY <1>3, CandleAssumption
  <2> QED
    BY <1>3, <2>1, DayOfMinute
<1>6. Day(t) = Day(u)
  <2>1. Day(x) <= Day(t) /\ Day(t) <= Day(u)
    BY <1>3, <1>4, DayMonotone
  <2> HIDE DEF x
  <2> QED
    BY <1>5, <2>1, DayAndTime
<1>7. TimeOfDay(t) <= TimeOfDay(u)
  BY <1>6, SameDayOrder
<1>8. t = x + TimeOfDay(t)
  BY <1>6, DayAndTime
<1> HIDE DEF x
<1>9. Open <= TimeOfDay(t)
  BY <1>1, <1>3, <1>8, DayAndTime
<1> QED
  BY <1>6, <1>7, <1>9, DayAndTime, CandleAssumption DEF InSession

\* Dhan's time without a date, with today's.
LEMMA StampIs ==
  ASSUME clock \in Nat, NEW t \in Nat, InSession(t)
  PROVE  /\ Stamp(t) \in Nat /\ InSession(Stamp(t)) /\ Day(Stamp(t)) = Day(clock)
         /\ TimeOfDay(Stamp(t)) = TimeOfDay(t)
         /\ Day(t) = Day(clock) => Stamp(t) = t
<1>1. Day(clock) \in Nat /\ TimeOfDay(t) \in 0 .. DayLen - 1
  BY DayAndTime
<1> QED
  BY <1>1, DayOfMinute, DayAndTime DEF Stamp, InSession

-----------------------------------------------------------------------------
(* One builder.  What it must look like on day "day", when every trade that *)
(* is still to come is at least as late as those in "low".                 *)

TickType == [in : Instruments, at : Nat, kept : SUBSET Nat]

BuilderType == [current : Candles, first : BOOLEAN, history : Seq(Candles), tod : Int]

\* The trades were put where their time of day belongs on the candle's day.
OfItsMinutes(c) ==
  \A t \in c.trades : InSession(t) /\ Boundary(DayLen * Day(c.bnd) + TimeOfDay(t)) = c.bnd

\* Candle d may follow candle c in a history.
Before(c, d) ==
  \/ c.bnd < d.bnd
  \/ ~Live(c) /\ c.bnd = d.bnd
  \/ Misdated(c) \/ Misdated(d)

Whole(c) == ~Misdated(c) => c.kept \subseteq c.trades

CurrentOK(b, day, low) ==
  b.current # NoCandle =>
    /\ b.current.trades # {} /\ b.current.trades \subseteq low
    /\ b.current.bnd \in Nat /\ Day(b.current.bnd) = day
    /\ OfItsMinutes(b.current)
    /\ b.tod \in Open .. Close - 1 /\ Boundary(DayLen * day + b.tod) = b.current.bnd
    /\ b.first => b.history = <<>>
    /\ ~b.first => Whole(b.current)
    /\ b.history # <<>> => Before(b.history[Len(b.history)], b.current)

\* A seeded builder that has seen no tick ends with a candle of the past.
SeedOK(b, low) ==
  b.current = NoCandle /\ b.history # <<>> =>
    \E u \in low : InSession(u) /\ b.history = <<Stored(Boundary(u))>>

HistoryOK(b, day) ==
  /\ Len(b.history) <= HistoryMax
  /\ \A k \in 1 .. Len(b.history) : b.history[k] # NoCandle
  /\ \A k \in 1 .. Len(b.history) :
       Live(b.history[k]) =>
         OfItsMinutes(b.history[k]) /\ Day(b.history[k].bnd) = day /\ Whole(b.history[k])
  /\ \A k \in 1 .. Len(b.history) - 1 : Before(b.history[k], b.history[k + 1])

BuilderOK(b, day, low) ==
  CurrentOK(b, day, low) /\ SeedOK(b, low) /\ HistoryOK(b, day)

\* What becomes of a trade t that the feed delivered, before the candle it is
\* in is finished: its tick is still queued, or it is in the current candle,
\* or its candle will be discarded as the first.
Discarded(b, t) ==
  \/ b.current = NoCandle /\ b.history = <<>>
  \/ b.current # NoCandle /\ b.first /\ b.current.bnd = Boundary(t)

Accounted(b, low, queued, t) ==
  \/ t \in queued
  \/ t \in b.current.trades
  \/ t \in low /\ Discarded(b, t)

LEMMA CandleIs ==
  /\ \A b, trades, made :
       /\ Candle(b, trades, made).bnd = b
       /\ Candle(b, trades, made).trades = trades
       /\ Candle(b, trades, made).kept = made
  /\ \A c \in Candles : c.bnd \in Nat \cup {None} /\ c.trades \subseteq Nat /\ c.kept \subseteq Nat
  /\ \A b \in Nat \cup {None} : \A trades, made \in SUBSET Nat : Candle(b, trades, made) \in Candles
  /\ \A c : c.trades # {} \/ c.bnd \in Nat => c # NoCandle
BY DEF Candle, Candles, NoCandle, None

LEMMA BuilderIs ==
  ASSUME NEW b \in BuilderType
  PROVE  /\ b.current \in Candles /\ b.first \in BOOLEAN
         /\ b.history \in Seq(Candles) /\ b.tod \in Int
BY DEF BuilderType

LEMMA FreshIs ==
  /\ FreshBuilder \in BuilderType
  /\ FreshBuilder.current = NoCandle /\ FreshBuilder.history = <<>>
  /\ NoCandle \in Candles /\ NoCandle.trades = {}
<1>1. NoCandle \in Candles /\ NoCandle.trades = {}
  BY CandleIs DEF NoCandle
<1> HIDE DEF Candles
<1>2. <<>> \in Seq(Candles) /\ None \in Int /\ TRUE \in BOOLEAN
  BY DEF None
<1> QED
  BY <1>1, <1>2 DEF FreshBuilder, BuilderType

LEMMA FreshOK ==
  ASSUME NEW day, NEW low
  PROVE  BuilderOK(FreshBuilder, day, low)
<1>1. Len(FreshBuilder.history) = 0
  BY FreshIs
<1>2. HistoryMax \in Nat
  BY CandleAssumption
<1> QED
  BY <1>1, <1>2, FreshIs DEF BuilderOK, CurrentOK, SeedOK, HistoryOK

\* The later trades are, the easier it is.
LEMMA LowerOK ==
  ASSUME NEW b, NEW day, NEW low, NEW low2, low \subseteq low2, BuilderOK(b, day, low)
  PROVE  BuilderOK(b, day, low2)
BY DEF BuilderOK, CurrentOK, SeedOK

LEMMA AccountedLower ==
  ASSUME NEW b, NEW low, NEW low2, NEW q, NEW q2, NEW t,
         low \subseteq low2, t \in q => t \in q2, Accounted(b, low, q, t)
  PROVE  Accounted(b, low2, q2, t)
BY DEF Accounted

\* deque(maxlen): the new candle is the last, and no order is lost.
LEMMA PushIs ==
  ASSUME NEW h \in Seq(Candles), NEW c \in Candles, Len(h) <= HistoryMax
  PROVE  /\ Push(h, c) \in Seq(Candles) /\ Len(Push(h, c)) <= HistoryMax
         /\ Push(h, c) # <<>> /\ Push(h, c)[Len(Push(h, c))] = c
         /\ \A k \in 1 .. Len(Push(h, c)) :
              Push(h, c)[k] = c \/ \E j \in 1 .. Len(h) : Push(h, c)[k] = h[j]
         /\ \A k \in 1 .. Len(Push(h, c)) - 1 :
              \/ h # <<>> /\ Push(h, c)[k] = h[Len(h)] /\ Push(h, c)[k + 1] = c
              \/ \E j \in 1 .. Len(h) - 1 : Push(h, c)[k] = h[j] /\ Push(h, c)[k + 1] = h[j + 1]
<1> DEFINE g == Append(h, c)
<1>1. g \in Seq(Candles) /\ Len(g) = Len(h) + 1 /\ Len(h) \in Nat /\ HistoryMax \in Nat \ {0}
  BY CandleAssumption
<1>2. g[Len(h) + 1] = c /\ \A j \in 1 .. Len(h) : g[j] = h[j]
  OBVIOUS
<1>3. CASE Len(g) > HistoryMax
  <2>1. Push(h, c) = Tail(g) /\ g # <<>>
    BY <1>1, <1>3 DEF Push
  <2>2. Tail(g) \in Seq(Candles) /\ Len(Tail(g)) = Len(h) /\ \A k \in 1 .. Len(h) : Tail(g)[k] = g[k + 1]
    BY <1>1, <2>1
  <2>3. Len(h) >= 1 /\ h # <<>> /\ Tail(g) # <<>>
    BY <1>1, <1>3, <2>2
  <2>4. ASSUME NEW k \in 1 .. Len(h)
        PROVE  Tail(g)[k] = c \/ \E j \in 1 .. Len(h) : Tail(g)[k] = h[j]
    <3>1. CASE k = Len(h)
      BY <1>2, <2>2, <3>1
    <3>2. CASE k < Len(h)
      <4>1. k + 1 \in 1 .. Len(h)
        BY <1>1, <3>2
      <4> QED
        BY <1>2, <2>2, <4>1
    <3> QED
      BY <1>1, <3>1, <3>2
  <2>5. ASSUME NEW k \in 1 .. Len(h) - 1
        PROVE  \/ Tail(g)[k] = h[Len(h)] /\ Tail(g)[k + 1] = c
               \/ \E j \in 1 .. Len(h) - 1 : Tail(g)[k] = h[j] /\ Tail(g)[k + 1] = h[j + 1]
    <3>1. k \in 1 .. Len(h) /\ k + 1 \in 1 .. Len(h) /\ Tail(g)[k] = h[k + 1]
      BY <1>1, <1>2, <2>2
    <3>2. CASE k + 1 = Len(h)
      BY <1>1, <1>2, <2>2, <3>1, <3>2
    <3>3. CASE k + 1 < Len(h)
      <4>1. k + 1 \in 1 .. Len(h) - 1 /\ (k + 1) + 1 \in 1 .. Len(h)
        BY <1>1, <3>3
      <4>2. Tail(g)[k + 1] = h[(k + 1) + 1]
        BY <1>2, <2>2, <3>1, <4>1
      <4> QED
        BY <3>1, <4>1, <4>2
    <3> QED
      BY <1>1, <3>1, <3>2, <3>3
  <2> QED
    BY <1>1, <1>2, <2>1, <2>2, <2>3, <2>4, <2>5
<1>4. CASE ~(Len(g) > HistoryMax)
  <2>1. Push(h, c) = g
    BY <1>4 DEF Push
  <2>2. \A k \in 1 .. Len(g) : g[k] = c \/ \E j \in 1 .. Len(h) : g[k] = h[j]
    BY <1>1, <1>2
  <2>3. ASSUME NEW k \in 1 .. Len(g) - 1
        PROVE  \/ h # <<>> /\ g[k] = h[Len(h)] /\ g[k + 1] = c
               \/ \E j \in 1 .. Len(h) - 1 : g[k] = h[j] /\ g[k + 1] = h[j + 1]
    <3>1. CASE k = Len(h)
      BY <1>1, <1>2, <3>1
    <3>2. CASE k < Len(h)
      <4>1. k \in 1 .. Len(h) - 1 /\ k + 1 \in 1 .. Len(h)
        BY <1>1, <3>2
      <4> QED
        BY <1>2, <4>1
    <3> QED
      BY <1>1, <3>1, <3>2
  <2> QED
    BY <1>1, <1>2, <1>4, <2>1, <2>2, <2>3
<1> QED
  BY <1>3, <1>4

LEMMA AfterTickIs ==
  ASSUME NEW b \in BuilderType, NEW tick \in TickType
  PROVE  /\ AfterTick(b, tick).tod = TimeOfDay(tick.at)
         /\ b.current = NoCandle =>
              /\ AfterTick(b, tick).current = NewCandle(tick)
              /\ AfterTick(b, tick).first = (b.history = <<>>)
              /\ AfterTick(b, tick).history = b.history
         /\ b.current # NoCandle /\ SameCandle(b, tick) =>
              /\ AfterTick(b, tick).current = Add(b.current, tick)
              /\ AfterTick(b, tick).first = b.first
              /\ AfterTick(b, tick).history = b.history
         /\ b.current # NoCandle /\ ~SameCandle(b, tick) =>
              /\ AfterTick(b, tick).current = NewCandle(tick)
              /\ AfterTick(b, tick).first = FALSE
              /\ AfterTick(b, tick).history =
                   IF b.first THEN b.history ELSE Push(b.history, b.current)
BY DEF AfterTick, StartsFirst, BuilderType

LEMMA AddIs ==
  ASSUME NEW c \in Candles, NEW tick \in TickType, c # NoCandle, c.bnd \in Nat
  PROVE  /\ Add(c, tick) \in Candles /\ Add(c, tick) # NoCandle
         /\ Add(c, tick).bnd = c.bnd /\ Add(c, tick).kept = tick.kept
         /\ Add(c, tick).trades = c.trades \cup {tick.at}
<1>1. /\ Add(c, tick) \in Candles
      /\ Add(c, tick).bnd = c.bnd /\ Add(c, tick).kept = tick.kept
      /\ Add(c, tick).trades = c.trades \cup {tick.at}
  BY DEF Add, Candles, TickType
<1> QED
  BY <1>1, CandleIs

\* On the day of the builder the two tests of on_tick are one.
LEMMA SameCandleIs ==
  ASSUME NEW b \in BuilderType, NEW tick \in TickType, clock \in Nat, InSession(tick.at),
         NEW low, CurrentOK(b, Day(clock), low), b.current # NoCandle
  PROVE  SameCandle(b, tick) <=> Boundary(Stamp(tick.at)) = b.current.bnd
<1>1. TimeOfDay(tick.at) = b.tod => Boundary(Stamp(tick.at)) = b.current.bnd
  BY DEF Stamp, CurrentOK
<1> QED
  BY <1>1 DEF SameCandle

\* The candle a tick starts.
LEMMA NewCandleIs ==
  ASSUME NEW tick \in TickType, clock \in Nat, InSession(tick.at)
  PROVE  /\ NewCandle(tick) \in Candles /\ NewCandle(tick) # NoCandle
         /\ NewCandle(tick).bnd = Boundary(Stamp(tick.at))
         /\ NewCandle(tick).trades = {tick.at} /\ NewCandle(tick).kept = tick.kept
         /\ Boundary(Stamp(tick.at)) \in Nat
         /\ Day(Boundary(Stamp(tick.at))) = Day(clock)
<1>1. tick.at \in Nat /\ tick.kept \in SUBSET Nat
  BY DEF TickType
<1>2. Boundary(Stamp(tick.at)) \in Nat /\ Day(Boundary(Stamp(tick.at))) = Day(clock)
  BY <1>1, StampIs, SessionBoundary
<1>3. {tick.at} \in SUBSET Nat /\ Boundary(Stamp(tick.at)) \in Nat \cup {None}
  BY <1>1, <1>2
<1> QED
  BY <1>1, <1>2, <1>3, CandleIs DEF NewCandle

\* The minutes of today's candle, as the stamp dates them.
LEMMA StampBoundary ==
  ASSUME clock \in Nat, NEW t \in Nat, InSession(t)
  PROVE  /\ Boundary(DayLen * Day(clock) + TimeOfDay(t)) = Boundary(Stamp(t))
         /\ TimeOfDay(t) \in Open .. Close - 1
BY SessionBoundary DEF Stamp

\* A trade of the candle that is of its day is in its minutes.
LEMMA OwnMinutes ==
  ASSUME NEW c, OfItsMinutes(c), NEW t \in c.trades, t \in Nat, Day(t) = Day(c.bnd)
  PROVE  InSession(t) /\ Boundary(t) = c.bnd
BY DayAndTime DEF OfItsMinutes

\* What CandleBuilder.on_tick owes to a tick, on the day of the builder.
LEMMA AfterTickType ==
  ASSUME NEW b \in BuilderType, NEW tick \in TickType, clock \in Nat, InSession(tick.at),
         NEW low, BuilderOK(b, Day(clock), low)
  PROVE  AfterTick(b, tick) \in BuilderType
<1> DEFINE d == AfterTick(b, tick)
<1>1. /\ b.current \in Candles /\ b.first \in BOOLEAN /\ b.history \in Seq(Candles)
      /\ Len(b.history) <= HistoryMax
  BY BuilderIs DEF BuilderOK, HistoryOK
<1>2. d.tod \in Int
  <2>1. tick.at \in Nat
    BY DEF TickType
  <2>2. TimeOfDay(tick.at) \in Int
    BY <2>1, DayAndTime
  <2> QED
    BY <2>2, AfterTickIs
<1>3. b.current # NoCandle => Add(b.current, tick) \in Candles
  BY <1>1, AddIs DEF BuilderOK, CurrentOK
<1>4. d.current \in Candles
  BY <1>3, AfterTickIs, NewCandleIs
<1>5. Push(b.history, b.current) \in Seq(Candles)
  BY <1>1, PushIs
<1>6. d.history \in Seq(Candles)
  BY <1>1, <1>5, AfterTickIs
<1>7. d.first \in BOOLEAN
  BY <1>1, AfterTickIs
<1>8. d = [current |-> d.current, first |-> d.first, history |-> d.history, tod |-> d.tod]
  BY DEF AfterTick, BuilderType
<1> QED
  BY <1>2, <1>4, <1>6, <1>7, <1>8 DEF BuilderType

\* on_tick keeps the builder in order: the candle it finishes is whole or is
\* discarded, and the one it starts follows it.
LEMMA AfterTickOK ==
  ASSUME NEW b \in BuilderType, NEW tick \in TickType, clock \in Nat, InSession(tick.at),
         NEW low \in SUBSET Nat, NEW low2, low \subseteq low2, tick.at \in low2,
         \A t \in low : t <= tick.at,
         BuilderOK(b, Day(clock), low),
         \A t \in tick.kept : t <= tick.at /\ Boundary(t) = Boundary(tick.at),
         Day(tick.at) = Day(clock) =>
           \A t \in tick.kept : Accounted(b, low, {tick.at}, t)
  PROVE  BuilderOK(AfterTick(b, tick), Day(clock), low2)
<1> DEFINE d == AfterTick(b, tick)
           c == b.current
           n == d.current
           day == Day(clock)
           s == Boundary(Stamp(tick.at))
<1>1. /\ c \in Candles /\ b.first \in BOOLEAN /\ b.history \in Seq(Candles)
      /\ tick.at \in Nat /\ tick.kept \in SUBSET Nat
  BY BuilderIs DEF TickType
<1>2. CurrentOK(b, day, low) /\ SeedOK(b, low) /\ HistoryOK(b, day)
  BY DEF BuilderOK
<1>3. /\ s \in Nat /\ Day(s) = day /\ TimeOfDay(tick.at) \in Open .. Close - 1
      /\ Boundary(DayLen * day + TimeOfDay(tick.at)) = s
      /\ Day(tick.at) = day => s = Boundary(tick.at)
  BY <1>1, NewCandleIs, StampBoundary, StampIs
\* Trades are kept for the candle they were made in, whole or not.
<1>4. ASSUME Day(tick.at) = day, NEW t \in tick.kept
      PROVE  /\ t \in Nat /\ InSession(t) /\ Day(t) = day /\ Boundary(t) = s
             /\ t = tick.at \/ t \in c.trades \/ Discarded(b, t)
  BY <1>1, <1>3, <1>4, EarlierInCandle DEF Accounted
\* A trade of the current candle is in its minutes if it is of its day.
<1>5. ASSUME c # NoCandle, NEW t \in c.trades
      PROVE  /\ t \in Nat /\ t \in low /\ InSession(t)
             /\ Day(t) = day => Boundary(t) = c.bnd
  BY <1>1, <1>2, <1>5, OwnMinutes, CandleIs DEF CurrentOK, OfItsMinutes
<1>6. CASE c # NoCandle /\ SameCandle(b, tick)
  <2>1. /\ n = Add(c, tick) /\ d.first = b.first /\ d.history = b.history
        /\ d.tod = TimeOfDay(tick.at)
    BY <1>6, AfterTickIs
  <2>2. /\ n # NoCandle /\ n.bnd = c.bnd /\ n.kept = tick.kept
        /\ n.trades = c.trades \cup {tick.at}
    BY <1>1, <1>2, <1>6, <2>1, AddIs DEF CurrentOK
  <2>3. s = c.bnd
    BY <1>2, <1>6, SameCandleIs
  <2>4. OfItsMinutes(n)
    BY <1>2, <1>3, <1>6, <2>2, <2>3 DEF CurrentOK, OfItsMinutes
  <2>5. ~b.first => Whole(n)
    <3>1. ASSUME ~b.first, ~Misdated(n), NEW t \in tick.kept
          PROVE  t \in n.trades
      <4>1. Day(tick.at) = day
        BY <1>3, <2>2, <2>3, <3>1 DEF Misdated
      <4>2. ~Discarded(b, t)
        BY <1>6, <3>1 DEF Discarded
      <4> QED
        BY <1>4, <2>2, <4>1, <4>2, <3>1
    <3> QED
      BY <2>2, <3>1 DEF Whole
  <2>6. b.history # <<>> => Before(b.history[Len(b.history)], n)
    <3>1. Misdated(c) => Misdated(n)
      BY <2>2 DEF Misdated
    <3> QED
      BY <1>2, <1>6, <2>2, <3>1 DEF CurrentOK, Before
  <2>7. CurrentOK(d, day, low2)
    <3> HIDE DEF n, d, c, s, day
    <3>1. n.trades # {} /\ n.trades \subseteq low2
      BY <1>2, <1>6, <2>2 DEF CurrentOK, c
    <3>2. n.bnd \in Nat /\ Day(n.bnd) = day
      BY <1>3, <2>2, <2>3
    <3>3. d.tod \in Open .. Close - 1 /\ Boundary(DayLen * day + d.tod) = n.bnd
      BY <1>3, <2>1, <2>2, <2>3
    <3>4. d.first => d.history = <<>>
      BY <1>2, <1>6, <2>1 DEF CurrentOK, c
    <3> QED
      BY <2>1, <2>2, <2>4, <2>5, <2>6, <3>1, <3>2, <3>3, <3>4 DEF CurrentOK, n
  <2>8. SeedOK(d, low2) /\ HistoryOK(d, day)
    BY <1>2, <2>1, <2>2 DEF SeedOK, HistoryOK
  <2> QED
    BY <2>7, <2>8 DEF BuilderOK
<1>7. ASSUME c = NoCandle \/ ~SameCandle(b, tick)
      PROVE  /\ n = NewCandle(tick) /\ n # NoCandle /\ n.bnd = s
             /\ n.trades = {tick.at} /\ n.kept = tick.kept
             /\ d.tod = TimeOfDay(tick.at)
             /\ OfItsMinutes(n)
             /\ Day(tick.at) # day => Misdated(n)
  <2>1. n = NewCandle(tick) /\ d.tod = TimeOfDay(tick.at)
    BY <1>7, AfterTickIs
  <2>2. /\ n # NoCandle /\ n.bnd = s /\ n.trades = {tick.at} /\ n.kept = tick.kept
    BY <2>1, NewCandleIs
  <2>3. OfItsMinutes(n)
    BY <1>3, <2>2 DEF OfItsMinutes
  <2>4. Day(tick.at) # day => Misdated(n)
    BY <1>3, <2>2 DEF Misdated
  <2> QED
    BY <2>1, <2>2, <2>3, <2>4
\* What is left to show of a candle that starts.
<1>8. ASSUME c = NoCandle \/ ~SameCandle(b, tick),
             d.first => d.history = <<>>,
             ~d.first => Whole(n),
             d.history # <<>> => Before(d.history[Len(d.history)], n)
      PROVE  CurrentOK(d, day, low2) /\ SeedOK(d, low2)
  <2>1. /\ n # NoCandle /\ n.bnd = s /\ n.trades = {tick.at}
        /\ d.tod = TimeOfDay(tick.at) /\ OfItsMinutes(n)
    BY <1>7, <1>8
  <2> HIDE DEF n, d, c, s, day
  <2>2. CurrentOK(d, day, low2)
    BY <1>3, <1>8, <2>1 DEF CurrentOK, n
  <2>3. SeedOK(d, low2)
    BY <2>1 DEF SeedOK, n
  <2> QED
    BY <2>2, <2>3
<1>9. CASE c = NoCandle
  <2>1. d.first = (b.history = <<>>) /\ d.history = b.history
    BY <1>9, AfterTickIs
  <2>2. ~d.first => Whole(n)
    <3>1. ASSUME ~d.first, ~Misdated(n), NEW t \in tick.kept
          PROVE  t \in n.trades
      <4>1. Day(tick.at) = day
        BY <1>7, <1>9, <3>1
      <4>2. ~Discarded(b, t) /\ t \notin c.trades
        BY <1>9, <2>1, <3>1, FreshIs DEF Discarded
      <4> QED
        BY <1>4, <1>7, <1>9, <4>1, <4>2, <3>1
    <3> QED
      BY <1>7, <1>9, <3>1 DEF Whole
  <2>3. ASSUME b.history # <<>>
        PROVE  Before(b.history[Len(b.history)], n)
    <3>1. PICK u \in low : InSession(u) /\ b.history = <<Stored(Boundary(u))>>
      BY <1>2, <1>9, <2>3 DEF SeedOK
    <3>2. /\ b.history[Len(b.history)] = Stored(Boundary(u)) /\ u \in Nat /\ u <= tick.at
          /\ Stored(Boundary(u)).bnd = Boundary(u) /\ ~Live(Stored(Boundary(u)))
      <4>1. /\ Stored(Boundary(u)).bnd = Boundary(u) /\ Stored(Boundary(u)).trades = {}
        BY CandleIs DEF Stored
      <4>2. u \in Nat /\ u <= tick.at
        OBVIOUS
      <4>3. b.history[Len(b.history)] = Stored(Boundary(u))
        BY <3>1
      <4> QED
        BY <4>1, <4>2, <4>3 DEF Live
    <3>3. CASE Day(tick.at) # day
      BY <1>7, <1>9, <3>3 DEF Before
    <3>4. CASE Day(tick.at) = day
      <4>1. Boundary(u) <= Boundary(tick.at)
        <5>1. CASE Day(u) = Day(tick.at)
          BY <1>1, <3>1, <3>2, <5>1, SessionOrder
        <5>2. CASE Day(u) # Day(tick.at)
          <6>1. Day(u) <= Day(tick.at)
            BY <1>1, <3>2, DayMonotone
          <6>2. /\ Boundary(u) \in Nat /\ Day(Boundary(u)) = Day(u)
                /\ Boundary(tick.at) \in Nat /\ Day(Boundary(tick.at)) = Day(tick.at)
            BY <1>1, <3>1, <3>2, SessionBoundary
          <6>3. ~(Boundary(tick.at) <= Boundary(u))
            <7>1. Day(u) \in Nat /\ Day(tick.at) \in Nat
              BY <1>1, <3>2, DayAndTime
            <7>2. Day(u) < Day(tick.at)
              BY <5>2, <6>1, <7>1
            <7>3. Boundary(tick.at) <= Boundary(u) => Day(tick.at) <= Day(u)
              <8>1. Boundary(tick.at) <= Boundary(u) =>
                      Day(Boundary(tick.at)) <= Day(Boundary(u))
                BY <6>2, DayMonotone
              <8> QED
                BY <6>2, <8>1
            <7> QED
              BY <7>1, <7>2, <7>3
          <6> QED
            BY <6>2, <6>3
        <5> QED
          BY <5>1, <5>2
      <4>2. n.bnd = Boundary(tick.at) /\ Boundary(u) \in Nat /\ Boundary(tick.at) \in Nat
        BY <1>1, <1>3, <1>7, <1>9, <3>1, <3>2, <3>4, SessionBoundary
      <4> QED
        BY <3>2, <4>1, <4>2 DEF Before
    <3> QED
      BY <3>3, <3>4
  <2>4. HistoryOK(d, day)
    BY <1>2, <2>1 DEF HistoryOK
  <2> QED
    BY <1>8, <1>9, <2>1, <2>2, <2>3, <2>4 DEF BuilderOK
<1>10. CASE c # NoCandle /\ ~SameCandle(b, tick)
  <2>1. d.first = FALSE /\ d.history = IF b.first THEN b.history ELSE Push(b.history, c)
    BY <1>10, AfterTickIs
  <2>2. s # c.bnd /\ c.bnd \in Nat /\ c.trades # {} /\ Day(c.bnd) = day
    BY <1>2, <1>10, SameCandleIs DEF CurrentOK
  \* All the trades of its minutes are in the candle that ends, none is in the
  \* new one but the one that starts it.
  <2>3. Whole(n)
    <3>1. ASSUME ~Misdated(n), NEW t \in tick.kept
          PROVE  t \in n.trades
      <4>1. Day(tick.at) = day
        BY <1>7, <1>10, <3>1
      <4>2. t \notin c.trades
        BY <1>4, <1>5, <1>10, <2>2, <4>1, <3>1
      <4>3. ~Discarded(b, t)
        BY <1>4, <1>10, <2>2, <4>1, <3>1 DEF Discarded
      <4> QED
        BY <1>4, <1>7, <1>10, <4>1, <4>2, <4>3, <3>1
    <3> QED
      BY <1>7, <1>10, <3>1 DEF Whole
  <2>4. Before(c, n)
    <3>1. CASE Misdated(c) \/ Misdated(n)
      BY <3>1 DEF Before
    <3>2. CASE ~Misdated(c) /\ ~Misdated(n)
      <4>1. Day(tick.at) = day
        BY <1>7, <1>10, <3>2
      <4>2. PICK t \in c.trades : TRUE
        BY <2>2
      <4>3. /\ t \in Nat /\ InSession(t) /\ Day(t) = day /\ Boundary(t) = c.bnd
            /\ t <= tick.at
        BY <1>5, <1>10, <2>2, <3>2, <4>2 DEF Misdated
      <4>4. c.bnd <= s
        BY <1>1, <1>3, <4>1, <4>3, SessionOrder
      <4>5. c.bnd < n.bnd
        BY <1>3, <1>7, <1>10, <2>2, <4>4
      <4> QED
        BY <4>5 DEF Before
    <3> QED
      BY <3>1, <3>2
  <2>5. CASE b.first
    <3>1. d.history = <<>> /\ b.history = <<>>
      BY <1>2, <1>10, <2>1, <2>5 DEF CurrentOK
    <3>2. HistoryOK(d, day)
      BY <1>2, <3>1 DEF HistoryOK
    <3> QED
      BY <1>8, <1>10, <2>1, <2>3, <3>1, <3>2 DEF BuilderOK
  <2>6. CASE ~b.first
    <3> DEFINE p == Push(b.history, c)
    <3>1. d.history = p
      BY <2>1, <2>6
    <3>2. /\ p # <<>> /\ p[Len(p)] = c /\ Len(p) <= HistoryMax
          /\ \A k \in 1 .. Len(p) : p[k] = c \/ \E j \in 1 .. Len(b.history) : p[k] = b.history[j]
          /\ \A k \in 1 .. Len(p) - 1 :
               \/ b.history # <<>> /\ p[k] = b.history[Len(b.history)] /\ p[k + 1] = c
               \/ \E j \in 1 .. Len(b.history) - 1 :
                    p[k] = b.history[j] /\ p[k + 1] = b.history[j + 1]
      <4>1. Len(b.history) <= HistoryMax
        BY <1>2 DEF HistoryOK
      <4>2. c \in Candles /\ b.history \in Seq(Candles)
        BY <1>1
      <4> DEFINE h == b.history
      <4>3. h \in Seq(Candles) /\ Len(h) <= HistoryMax /\ p = Push(h, c)
        BY <4>1, <4>2
      <4> HIDE DEF c, h
      <4>4. /\ Push(h, c) # <<>> /\ Push(h, c)[Len(Push(h, c))] = c
            /\ Len(Push(h, c)) <= HistoryMax
            /\ \A k \in 1 .. Len(Push(h, c)) :
                 Push(h, c)[k] = c \/ \E j \in 1 .. Len(h) : Push(h, c)[k] = h[j]
            /\ \A k \in 1 .. Len(Push(h, c)) - 1 :
                 \/ h # <<>> /\ Push(h, c)[k] = h[Len(h)] /\ Push(h, c)[k + 1] = c
                 \/ \E j \in 1 .. Len(h) - 1 :
                      Push(h, c)[k] = h[j] /\ Push(h, c)[k + 1] = h[j + 1]
        BY <4>2, <4>3, PushIs
      <4> QED
        BY <4>3, <4>4 DEF h
    <3>3. OfItsMinutes(c) /\ Day(c.bnd) = day /\ Whole(c)
      BY <1>2, <1>10, <2>6 DEF CurrentOK
    <3>4. b.history # <<>> => Before(b.history[Len(b.history)], c)
      BY <1>2, <1>10 DEF CurrentOK
    <3> HIDE DEF p, c, d
    <3>5. \A k \in 1 .. Len(p) : p[k] # NoCandle
      BY <1>2, <1>10, <3>2 DEF HistoryOK
    <3>6. \A k \in 1 .. Len(p) :
            Live(p[k]) => OfItsMinutes(p[k]) /\ Day(p[k].bnd) = day /\ Whole(p[k])
      BY <1>2, <3>2, <3>3 DEF HistoryOK
    <3>7. \A k \in 1 .. Len(p) - 1 : Before(p[k], p[k + 1])
      BY <1>2, <3>2, <3>4 DEF HistoryOK
    <3>8. HistoryOK(d, day)
      BY <3>1, <3>2, <3>5, <3>6, <3>7 DEF HistoryOK
    <3>9. Before(d.history[Len(d.history)], n)
      BY <2>4, <3>1, <3>2
    <3> QED
      BY <1>8, <1>10, <2>1, <2>3, <3>8, <3>9 DEF BuilderOK, d
  <2> QED
    BY <2>5, <2>6
<1> QED
  BY <1>6, <1>9, <1>10

\* on_tick loses sight of no trade: one in the minutes of a later tick of the
\* day stays in the current candle, or its candle stays one to discard.
LEMMA AfterTickAccounts ==
  ASSUME NEW b \in BuilderType, NEW tick \in TickType, clock \in Nat, InSession(tick.at),
         NEW low \in SUBSET Nat, NEW low2, low \subseteq low2,
         \A x \in low : x <= tick.at,
         BuilderOK(b, Day(clock), low),
         NEW u \in Nat, InSession(u), Day(u) = Day(clock), tick.at <= u,
         NEW t \in Nat, t <= u, Boundary(t) = Boundary(u),
         NEW q, NEW q2, t \in q => t \in q2 \/ t = tick.at,
         Accounted(b, low, q, t)
  PROVE  Accounted(AfterTick(b, tick), low2, q2, t)
<1> DEFINE d == AfterTick(b, tick)
           c == b.current
<1>1. /\ c \in Candles /\ tick.at \in Nat
      /\ CurrentOK(b, Day(clock), low)
  BY BuilderIs DEF TickType, BuilderOK
<1>2. InSession(t) /\ Day(t) = Day(clock) /\ Boundary(t) \in Nat
  BY EarlierInCandle, SessionBoundary
\* A tick between the two is of the same candle.
<1>3. t <= tick.at => Boundary(Stamp(tick.at)) = Boundary(t)
  <2>1. SUFFICES ASSUME t <= tick.at PROVE Boundary(Stamp(tick.at)) = Boundary(t)
    OBVIOUS
  <2>2. Day(tick.at) = Day(clock)
    <3>1. Day(t) <= Day(tick.at) /\ Day(tick.at) <= Day(u)
      BY <1>1, <2>1, DayMonotone
    <3>2. Day(tick.at) \in Nat /\ Day(clock) \in Nat
      BY <1>1, DayAndTime
    <3> QED
      BY <1>2, <3>1, <3>2
  <2>3. Stamp(tick.at) = tick.at
    BY <1>1, <2>2, StampIs
  <2>4. Boundary(t) <= Boundary(tick.at) /\ Boundary(tick.at) <= Boundary(u)
    BY <1>1, <1>2, <2>1, <2>2, SessionOrder
  <2>5. Boundary(tick.at) \in Nat
    BY <1>1, SessionBoundary
  <2> QED
    BY <1>2, <2>3, <2>4, <2>5
<1>4. tick.at \in d.current.trades
  <2>1. c # NoCandle => c.bnd \in Nat
    BY <1>1 DEF CurrentOK
  <2>2. d.current = NewCandle(tick) \/ (c # NoCandle /\ d.current = Add(c, tick))
    BY AfterTickIs
  <2> QED
    BY <1>1, <2>1, <2>2, AddIs, NewCandleIs
<1>5. ASSUME c # NoCandle, t <= tick.at, c.bnd = Boundary(t)
      PROVE  /\ d.current # NoCandle /\ d.current.bnd = c.bnd /\ d.first = b.first
             /\ c.trades \subseteq d.current.trades
  <2>1. SameCandle(b, tick) /\ c.bnd \in Nat
    BY <1>1, <1>2, <1>3, <1>5, SameCandleIs
  <2> QED
    <3>1. d.current = Add(c, tick) /\ d.first = b.first
      BY <1>5, <2>1, AfterTickIs
    <3> HIDE DEF c, d
    <3>2. /\ Add(c, tick) # NoCandle /\ Add(c, tick).bnd = c.bnd
          /\ Add(c, tick).trades = c.trades \cup {tick.at}
      BY <1>1, <1>5, <2>1, AddIs
    <3> QED
      BY <3>1, <3>2
<1>6. CASE t \in q
  BY <1>4, <1>6 DEF Accounted
<1>7. CASE t \in c.trades
  <2>1. c # NoCandle /\ t <= tick.at
    BY <1>1, <1>7, FreshIs DEF CurrentOK
  <2>2. c.bnd = Boundary(t)
    BY <1>1, <1>2, <1>7, <2>1, OwnMinutes DEF CurrentOK
  <2>3. t \in d.current.trades
    BY <1>5, <1>7, <2>1, <2>2
  <2> QED
    BY <2>3 DEF Accounted
<1>8. CASE t \in low /\ c = NoCandle /\ b.history = <<>>
  <2>1. t <= tick.at /\ t \in low2
    BY <1>8
  <2>2. /\ c = NoCandle => d.current = NewCandle(tick) /\ d.first = (b.history = <<>>)
    BY AfterTickIs
  <2>3. d.current = NewCandle(tick) /\ d.first
    BY <1>8, <2>2
  <2>4. d.current # NoCandle /\ d.current.bnd = Boundary(t)
    BY <1>3, <2>1, <2>3, NewCandleIs
  <2> QED
    BY <2>1, <2>3, <2>4 DEF Accounted, Discarded
<1>9. CASE t \in low /\ c # NoCandle /\ b.first /\ c.bnd = Boundary(t)
  BY <1>5, <1>9 DEF Accounted, Discarded
<1> QED
  BY <1>6, <1>7, <1>8, <1>9 DEF Accounted, Discarded

-----------------------------------------------------------------------------
(* The whole service.                                                      *)

\* Trades that are not after anything still to come of instrument i.
Low(i) ==
  {t \in Nat : t <= last[i] /\ \A k \in 1 .. Len(ticks) : ticks[k].in = i => t <= ticks[k].at}

\* The trades of i among the first n ticks of the queue.
QueuedTo(i, n) == {t \in Nat : \E j \in 1 .. n : ticks[j].in = i /\ ticks[j].at = t}

TypeInv ==
  /\ clock \in 0 .. MaxClock /\ up \in BOOLEAN
  /\ ticks \in Seq(TickType) /\ Len(ticks) <= QueueMax
  /\ last \in [Instruments -> Nat \cup {None}]
  /\ \A i \in Instruments : last[i] <= clock
  /\ kept \in [Instruments -> SUBSET Nat]
  /\ builder \in [Instruments -> BuilderType]
  /\ sessionDay \in Nat /\ sessionDay <= Day(clock)
  /\ bias \in [Futures -> Nat \cup {None}]
  /\ signalled \in [Equities -> SUBSET OneShot]
  /\ given \in [Equities -> SUBSET Givens]

\* A process that is down remembers nothing.
DownInv ==
  ~up =>
    /\ ticks = <<>>
    /\ \A i \in Instruments : kept[i] = {} /\ builder[i] = FreshBuilder
    /\ \A f \in Futures : bias[f] = None
    /\ \A e \in Equities : given[e] = {}

\* A tick carries the trades of its candle, up to its own.
CarriesOwn(at, trades) == \A t \in trades : t <= at /\ Boundary(t) = Boundary(at)

\* The queue keeps the order of the trades of an instrument.
QueueInv ==
  /\ \A k \in 1 .. Len(ticks) :
       ticks[k].at <= last[ticks[k].in] /\ CarriesOwn(ticks[k].at, ticks[k].kept)
  /\ \A j, k \in 1 .. Len(ticks) :
       j <= k /\ ticks[j].in = ticks[k].in => ticks[j].at <= ticks[k].at
  /\ \A i \in Instruments : CarriesOwn(last[i], kept[i])

BuildersInv == \A i \in Instruments : BuilderOK(builder[i], sessionDay, Low(i))

Today(t) == InSession(t) /\ Day(t) = Day(clock)

\* The same for trade t of instrument i, when n ticks are handled first.
InHand(i, n, t) == Accounted(builder[i], Low(i), QueuedTo(i, n), t)

KeptInv ==
  /\ \A i \in Instruments : \A n \in 1 .. Len(ticks) :
       ticks[n].in = i /\ Today(ticks[n].at) => \A t \in ticks[n].kept : InHand(i, n, t)
  /\ \A i \in Instruments : \A n \in Nat :
       n = Len(ticks) /\ last[i] \in Nat /\ Today(last[i]) =>
         \A t \in kept[i] : InHand(i, n, t)

BiasInv == \A f \in Futures : bias[f] \in {None, sessionDay}

\* A signal that has a flag, for a candle of its own day, has set the flag of its
\* session.
Own(g) == g.kind \in OneShot /\ Day(g.bnd) = g.day

GivenInv ==
  \A e \in Equities :
    /\ \A g \in given[e] :
         Own(g) => g.day < sessionDay \/ (g.day = sessionDay /\ g.kind \in signalled[e])
    /\ \A g, h \in given[e] : Own(g) /\ Own(h) /\ g.kind = h.kind /\ g.day = h.day => g = h

IInv ==
  TypeInv /\ DownInv /\ QueueInv /\ BuildersInv /\ KeptInv /\ BiasInv /\ GivenInv

-----------------------------------------------------------------------------
(* A tick is handled.                                                      *)

LEMMA QueueTail ==
  ASSUME TypeInv, NEW tick, Take(tick)
  PROVE  /\ tick \in TickType /\ tick.in \in Instruments /\ tick = ticks[1]
         /\ 1 \in 1 .. Len(ticks) /\ Len(ticks) \in Nat
         /\ ticks' \in Seq(TickType) /\ Len(ticks') = Len(ticks) - 1
         /\ \A k \in 1 .. Len(ticks') : k + 1 \in 1 .. Len(ticks) /\ ticks'[k] = ticks[k + 1]
<1>1. ticks \in Seq(TickType) /\ ticks # <<>> /\ tick = Head(ticks) /\ ticks' = Tail(ticks)
  BY DEF Take, TypeInv
<1>2. tick = ticks[1] /\ tick \in TickType /\ 1 \in 1 .. Len(ticks) /\ Len(ticks) \in Nat
  BY <1>1
<1>3. tick.in \in Instruments
  BY <1>2 DEF TickType
<1> QED
  BY <1>1, <1>2, <1>3

\* Taking the first tick raises nothing; its own trade is not after what is
\* still to come.
LEMMA TakeLow ==
  ASSUME TypeInv, QueueInv, NEW tick, Take(tick)
  PROVE  /\ \A i \in Instruments : Low(i) \subseteq Low(i)' /\ Low(i) \in SUBSET Nat
         /\ \A t \in Low(tick.in) : t <= tick.at
         /\ tick.at \in Low(tick.in)'
         /\ \A i \in Instruments : \A n \in 1 .. Len(ticks) : \A t \in QueuedTo(i, n) :
              t \in QueuedTo(i, n - 1)' \/ (i = tick.in /\ t = tick.at)
<1>1. /\ tick = ticks[1] /\ tick.at \in Nat /\ tick.in \in Instruments
      /\ 1 \in 1 .. Len(ticks) /\ Len(ticks) \in Nat
      /\ Len(ticks') = Len(ticks) - 1
      /\ \A k \in 1 .. Len(ticks') : k + 1 \in 1 .. Len(ticks) /\ ticks'[k] = ticks[k + 1]
  BY QueueTail DEF TickType
<1>2. last' = last
  BY DEF Take
<1>3. ASSUME NEW i \in Instruments
      PROVE  Low(i) \subseteq Low(i)' /\ Low(i) \in SUBSET Nat
  BY <1>1, <1>2 DEF Low
<1>4. \A t \in Low(tick.in) : t <= tick.at
  BY <1>1 DEF Low
<1>5. tick.at \in Low(tick.in)'
  <2>1. tick.at <= last'[tick.in]
    BY <1>1, <1>2 DEF QueueInv
  <2>2. ASSUME NEW k \in 1 .. Len(ticks'), ticks'[k].in = tick.in
        PROVE  tick.at <= ticks'[k].at
    <3>1. k + 1 \in 1 .. Len(ticks) /\ 1 <= k + 1 /\ ticks'[k] = ticks[k + 1]
      BY <1>1
    <3> QED
      BY <1>1, <2>2, <3>1 DEF QueueInv
  <2> QED
    BY <1>1, <2>1, <2>2 DEF Low
<1>6. ASSUME NEW i \in Instruments, NEW n \in 1 .. Len(ticks), NEW t \in QueuedTo(i, n)
      PROVE  t \in QueuedTo(i, n - 1)' \/ (i = tick.in /\ t = tick.at)
  <2>1. PICK j \in 1 .. n : ticks[j].in = i /\ ticks[j].at = t
    BY DEF QueuedTo
  <2>2. CASE j = 1
    BY <1>1, <2>1, <2>2
  <2>3. CASE j # 1
    <3>1. j - 1 \in 1 .. n - 1 /\ j - 1 \in 1 .. Len(ticks') /\ (j - 1) + 1 = j
      BY <1>1, <2>3
    <3>2. ticks'[j - 1] = ticks[j]
      BY <1>1, <3>1
    <3> QED
      BY <2>1, <3>1, <3>2 DEF QueuedTo
  <2> QED
    BY <2>2, <2>3
<1> QED
  BY <1>3, <1>4, <1>5, <1>6

\* What all the ways to handle a tick have in common.
Handled(tick) ==
  /\ Take(tick)
  /\ sessionDay' = Day(clock)
  /\ builder' = IF NewDay THEN [i \in Instruments |-> FreshBuilder]
                ELSE IF InSession(tick.at)
                  THEN [builder EXCEPT ![tick.in] = AfterTick(builder[tick.in], tick)]
                ELSE builder

LEMMA AllHandled ==
  ASSUME NEW tick,
         \/ TickOutside(tick) \/ TickInside(tick) \/ FutureCandle(tick)
         \/ \E hits \in SUBSET (OneShot \cup Repeated) : EquityCandle(tick, hits)
  PROVE  Handled(tick)
BY DEF TickOutside, TickInside, FutureCandle, EquityCandle, Settle, Reset, Handled

LEMMA HandledIs ==
  ASSUME IInv, NEW tick, Handled(tick), NEW i \in Instruments
  PROVE  /\ builder[i] \in BuilderType /\ clock \in Nat
         /\ NewDay => builder'[i] = FreshBuilder
         /\ ~NewDay =>
              /\ sessionDay = Day(clock)
              /\ i = tick.in /\ InSession(tick.at) => builder'[i] = AfterTick(builder[i], tick)
              /\ i # tick.in \/ ~InSession(tick.at) => builder'[i] = builder[i]
<1>1. /\ builder \in [Instruments -> BuilderType] /\ clock \in Nat
      /\ tick.in \in Instruments
  BY QueueTail DEF IInv, TypeInv, Handled
<1> QED
  BY <1>1 DEF Handled, NewDay

\* A trade the feed delivered is still accounted for when a tick before u is
\* handled, or thrown away.
LEMMA HandledAccounts ==
  ASSUME IInv, NEW tick, Handled(tick),
         NEW i \in Instruments, NEW n \in 1 .. Len(ticks),
         NEW u \in Nat, Today(u), i = tick.in => tick.at <= u,
         NEW t \in Nat, t <= u, Boundary(t) = Boundary(u),
         InHand(i, n, t)
  PROVE  InHand(i, n - 1, t)'
<1> SUFFICES ASSUME Accounted(builder[i], Low(i), QueuedTo(i, n), t)
             PROVE  Accounted(builder'[i], Low(i)', QueuedTo(i, n - 1)', t)
  BY DEF InHand
<1>1. /\ Low(i) \subseteq Low(i)' /\ Low(i) \in SUBSET Nat
      /\ i = tick.in => tick.at \in Low(i)' /\ \A x \in Low(i) : x <= tick.at
      /\ t \in QueuedTo(i, n) => t \in QueuedTo(i, n - 1)' \/ (i = tick.in /\ t = tick.at)
      /\ tick \in TickType
  BY TakeLow, QueueTail DEF Handled, IInv
<1>2. BuilderOK(builder[i], sessionDay, Low(i)) /\ builder[i] \in BuilderType /\ clock \in Nat
  BY HandledIs DEF IInv, BuildersInv
<1>3. InSession(t) /\ InSession(u) /\ Day(u) = Day(clock)
  BY EarlierInCandle DEF Today
<1>4. CASE NewDay
  <2>1. builder'[i] = FreshBuilder
    BY <1>4, HandledIs
  <2>2. t \in builder[i].current.trades => t \in Low(i)
    BY <1>2, FreshIs DEF BuilderOK, CurrentOK
  <2> QED
    BY <1>1, <2>1, <2>2, FreshIs DEF Accounted, Discarded
<1>5. CASE ~NewDay /\ i = tick.in /\ InSession(tick.at)
  <2>1. builder'[i] = AfterTick(builder[i], tick) /\ sessionDay = Day(clock)
    BY <1>5, HandledIs
  <2>2. \A x \in Low(i) : x <= tick.at
    BY <1>1, <1>5
  <2> QED
    BY <1>1, <1>2, <1>3, <1>5, <2>1, <2>2, AfterTickAccounts
<1>6. CASE ~NewDay /\ (i # tick.in \/ ~InSession(tick.at))
  <2>1. builder'[i] = builder[i]
    BY <1>6, HandledIs
  <2>2. t \in QueuedTo(i, n) => t \in QueuedTo(i, n - 1)'
    BY <1>1, <1>3, <1>6
  <2> QED
    BY <1>1, <2>1, <2>2, AccountedLower
<1> QED
  BY <1>4, <1>5, <1>6

LEMMA HandledQueue ==
  ASSUME IInv, NEW tick, Handled(tick)
  PROVE  QueueInv'
<1>1. /\ \A k \in 1 .. Len(ticks') : k + 1 \in 1 .. Len(ticks) /\ ticks'[k] = ticks[k + 1]
      /\ last' = last /\ kept' = kept
  BY QueueTail DEF Handled, Take, IInv
<1>2. \A k \in 1 .. Len(ticks') :
        ticks'[k].at <= last'[ticks'[k].in] /\ CarriesOwn(ticks'[k].at, ticks'[k].kept)
  BY <1>1 DEF IInv, QueueInv
<1>3. ASSUME NEW j \in 1 .. Len(ticks'), NEW k \in 1 .. Len(ticks'),
             j <= k, ticks'[j].in = ticks'[k].in
      PROVE  ticks'[j].at <= ticks'[k].at
  <2>1. j + 1 \in 1 .. Len(ticks) /\ k + 1 \in 1 .. Len(ticks) /\ j + 1 <= k + 1
    BY <1>1, <1>3
  <2> QED
    BY <1>1, <1>3, <2>1 DEF IInv, QueueInv
<1>4. \A i \in Instruments : CarriesOwn(last'[i], kept'[i])
  BY <1>1 DEF IInv, QueueInv
<1> QED
  BY <1>2, <1>3, <1>4 DEF QueueInv

LEMMA HandledBuilders ==
  ASSUME IInv, NEW tick, Handled(tick)
  PROVE  builder' \in [Instruments -> BuilderType] /\ BuildersInv'
<1>1. /\ tick \in TickType /\ tick.in \in Instruments /\ tick = ticks[1]
      /\ 1 \in 1 .. Len(ticks)
  BY QueueTail DEF Handled, IInv
<1>2. ASSUME NEW i \in Instruments
      PROVE  builder'[i] \in BuilderType /\ BuilderOK(builder'[i], sessionDay', Low(i)')
  <2>1. /\ Low(i) \subseteq Low(i)' /\ Low(i) \in SUBSET Nat
        /\ i = tick.in => tick.at \in Low(i)' /\ \A x \in Low(i) : x <= tick.at
    BY TakeLow DEF Handled, IInv
  <2>2. /\ BuilderOK(builder[i], sessionDay, Low(i)) /\ builder[i] \in BuilderType
        /\ clock \in Nat /\ sessionDay' = Day(clock)
    BY HandledIs DEF IInv, BuildersInv, Handled
  <2>3. CASE NewDay
    BY <2>3, HandledIs, FreshIs, FreshOK
  <2>4. CASE ~NewDay /\ i = tick.in /\ InSession(tick.at)
    <3>1. builder'[i] = AfterTick(builder[i], tick) /\ sessionDay = Day(clock)
      BY <2>4, HandledIs
    <3>2. \A t \in tick.kept : t <= tick.at /\ Boundary(t) = Boundary(tick.at)
      BY <1>1 DEF IInv, QueueInv, CarriesOwn
    <3>3. ASSUME Day(tick.at) = Day(clock), NEW t \in tick.kept
          PROVE  Accounted(builder[i], Low(i), {tick.at}, t)
      <4>1. Accounted(builder[i], Low(i), QueuedTo(i, 1), t)
        BY <1>1, <2>4, <3>3 DEF IInv, KeptInv, Today, InHand
      <4>2. t \in QueuedTo(i, 1) => t \in {tick.at}
        BY <1>1 DEF QueuedTo
      <4> QED
        BY <4>1, <4>2, AccountedLower
    <3>4. AfterTick(builder[i], tick) \in BuilderType
      BY <1>1, <2>2, <2>4, <3>1, AfterTickType
    <3>5. \A x \in Low(i) : x <= tick.at
      BY <2>1, <2>4
    <3>6. BuilderOK(AfterTick(builder[i], tick), Day(clock), Low(i)')
      BY <1>1, <2>1, <2>2, <2>4, <3>1, <3>2, <3>3, <3>5, AfterTickOK
    <3> QED
      BY <2>2, <3>1, <3>4, <3>6
  <2>5. CASE ~NewDay /\ (i # tick.in \/ ~InSession(tick.at))
    <3>1. builder'[i] = builder[i] /\ sessionDay = Day(clock)
      BY <2>5, HandledIs
    <3> QED
      BY <2>1, <2>2, <3>1, LowerOK
  <2> QED
    BY <2>3, <2>4, <2>5
<1>3. builder' \in [Instruments -> BuilderType]
  <2>1. \A i \in Instruments : builder'[i] \in BuilderType
    BY <1>2
  <2>2. builder' = [i \in Instruments |-> builder'[i]]
    BY <1>1 DEF Handled, IInv, TypeInv
  <2> QED
    BY <2>1, <2>2
<1> QED
  BY <1>2, <1>3 DEF BuildersInv

LEMMA HandledKept ==
  ASSUME IInv, NEW tick, Handled(tick)
  PROVE  KeptInv'
<1>1. /\ tick \in TickType /\ tick.in \in Instruments /\ tick = ticks[1]
      /\ 1 \in 1 .. Len(ticks) /\ Len(ticks) \in Nat /\ Len(ticks') = Len(ticks) - 1
      /\ ticks \in Seq(TickType)
      /\ \A k \in 1 .. Len(ticks') : k + 1 \in 1 .. Len(ticks) /\ ticks'[k] = ticks[k + 1]
  BY QueueTail DEF Handled, IInv, TypeInv
<1>2. /\ clock' = clock /\ last' = last /\ kept' = kept
      /\ kept \in [Instruments -> SUBSET Nat]
  BY DEF Handled, Take, IInv, TypeInv
<1>3. ASSUME NEW i \in Instruments, NEW n \in 1 .. Len(ticks'),
             ticks'[n].in = i, InSession(ticks'[n].at), Day(ticks'[n].at) = Day(clock),
             NEW t \in ticks'[n].kept
      PROVE  InHand(i, n, t)'
  <2>1. PICK m \in Nat : m = n + 1 /\ m \in 1 .. Len(ticks) /\ ticks'[n] = ticks[m] /\ m - 1 = n
    BY <1>1
  <2>0. ticks[m] \in TickType
    BY <1>1, <2>1
  <2>2. PICK u \in Nat : u = ticks[m].at
    BY <2>0 DEF TickType
  <2>3. ticks[m].in = i /\ ticks[m].kept \in SUBSET Nat /\ Today(u) /\ t \in ticks[m].kept
    BY <1>3, <2>0, <2>1, <2>2 DEF TickType, Today
  <2>4. i = tick.in => tick.at <= u
    BY <1>1, <2>1, <2>2, <2>3 DEF IInv, QueueInv
  <2>5. t \in Nat /\ t <= u /\ Boundary(t) = Boundary(u)
    BY <2>1, <2>2, <2>3 DEF IInv, QueueInv, CarriesOwn
  <2>6. InHand(i, m, t)
    BY <2>1, <2>2, <2>3 DEF IInv, KeptInv
  <2>7. InHand(i, m - 1, t)'
    BY <2>1, <2>3, <2>4, <2>5, <2>6, HandledAccounts
  <2> QED
    BY <2>1, <2>7
<1>4. ASSUME NEW i \in Instruments, NEW n \in Nat, n = Len(ticks'),
             last[i] \in Nat, InSession(last[i]), Day(last[i]) = Day(clock), NEW t \in kept[i]
      PROVE  InHand(i, n, t)'
  <2>1. PICK m \in Nat : m = n + 1 /\ m = Len(ticks) /\ m \in 1 .. Len(ticks) /\ m - 1 = n
    BY <1>1, <1>4
  <2>2. PICK u \in Nat : u = last[i]
    BY <1>4
  <2>3. Today(u) /\ kept[i] \in SUBSET Nat
    BY <1>2, <1>4, <2>2 DEF Today
  <2>4. i = tick.in => tick.at <= u
    BY <1>1, <2>2 DEF IInv, QueueInv
  <2>5. t \in Nat /\ t <= u /\ Boundary(t) = Boundary(u)
    BY <1>4, <2>2, <2>3 DEF IInv, QueueInv, CarriesOwn
  <2>6. InHand(i, m, t)
    BY <1>4, <2>1, <2>2, <2>3 DEF IInv, KeptInv
  <2>7. InHand(i, m - 1, t)'
    BY <2>1, <2>3, <2>4, <2>5, <2>6, HandledAccounts
  <2> QED
    BY <2>1, <2>7
<1> QED
  BY <1>2, <1>3, <1>4 DEF KeptInv, Today

LEMMA CompletedIs ==
  ASSUME IInv, NEW tick, Take(tick), Completes(builder[tick.in], tick)
  PROVE  /\ tick.in \in Instruments /\ builder[tick.in].current # NoCandle
         /\ builder[tick.in].current.bnd \in Nat
         /\ Day(builder[tick.in].current.bnd) = sessionDay
<1>1. tick.in \in Instruments
  BY QueueTail DEF IInv
<1> QED
  BY <1>1 DEF Completes, IInv, BuildersInv, BuilderOK, CurrentOK

\* Bias and flags after a tick that completes nothing for them.
LEMMA SettledSame ==
  ASSUME IInv, NEW tick, Take(tick), sessionDay' = Day(clock),
         bias' = IF NewDay THEN [f \in Futures |-> None] ELSE bias
  PROVE  BiasInv' /\ bias' \in [Futures -> Nat \cup {None}]
BY DEF IInv, TypeInv, BiasInv, NewDay

LEMMA GivenSame ==
  ASSUME IInv, NEW tick, Take(tick), sessionDay' = Day(clock), given' = given,
         signalled' = IF NewDay THEN [e \in Equities |-> {}] ELSE signalled
  PROVE  GivenInv' /\ signalled' \in [Equities -> SUBSET OneShot]
<1>1. signalled' \in [Equities -> SUBSET OneShot]
  BY DEF IInv, TypeInv
<1>2. /\ clock \in Nat /\ sessionDay \in Nat /\ sessionDay <= Day(clock) /\ Day(clock) \in Nat
      /\ given \in [Equities -> SUBSET Givens]
  BY DayAndTime DEF IInv, TypeInv
<1>3. ASSUME NEW e \in Equities, NEW g \in given[e], Own(g)
      PROVE  g.day < sessionDay' \/ (g.day = sessionDay' /\ g.kind \in signalled'[e])
  <2>0. g.day \in Nat
    BY <1>2 DEF Givens
  <2>1. g.day < sessionDay \/ (g.day = sessionDay /\ g.kind \in signalled[e])
    BY <1>3 DEF IInv, GivenInv
  <2>2. CASE NewDay
    BY <1>2, <2>0, <2>1, <2>2 DEF NewDay
  <2>3. CASE ~NewDay
    BY <2>1, <2>3 DEF NewDay
  <2> QED
    BY <2>2, <2>3
<1>4. \A e \in Equities : \A g, h \in given[e] : Own(g) /\ Own(h) /\ g.kind = h.kind /\ g.day = h.day => g = h
  BY DEF IInv, GivenInv
<1> QED
  BY <1>1, <1>3, <1>4 DEF GivenInv

LEMMA BiasSet ==
  ASSUME IInv, NEW tick, FutureCandle(tick)
  PROVE  BiasInv' /\ bias' \in [Futures -> Nat \cup {None}]
<1>1. /\ bias' = IF NewDay THEN [f \in Futures |-> None]
                 ELSE [bias EXCEPT ![tick.in] = Day(builder[tick.in].current.bnd)]
      /\ sessionDay' = Day(clock)
  BY DEF FutureCandle, Settle
<1>2. Day(builder[tick.in].current.bnd) = sessionDay /\ sessionDay \in Nat
      /\ bias \in [Futures -> Nat \cup {None}]
  BY CompletedIs DEF FutureCandle, IInv, TypeInv
<1> QED
  BY <1>1, <1>2 DEF IInv, BiasInv, NewDay

\* A signal with a flag is given once: the flag of its session is up, or the session has
\* ended with the very tick that completed its candle.
LEMMA BreakoutGiven ==
  ASSUME IInv, NEW tick, NEW hits \in SUBSET (OneShot \cup Repeated), EquityCandle(tick, hits)
  PROVE  /\ GivenInv' /\ signalled' \in [Equities -> SUBSET OneShot]
         /\ given' \in [Equities -> SUBSET Givens]
<1> DEFINE x == tick.in
           b == builder[x].current.bnd
           r(k) == [kind |-> k, bnd |-> b, day |-> Day(clock)]
           got == Gives(x, hits)
<1>1. /\ x \in Equities /\ b \in Nat /\ Day(b) = sessionDay
      /\ sessionDay' = Day(clock)
      /\ signalled' = IF NewDay THEN [e \in Equities |-> {}]
                   ELSE [signalled EXCEPT ![x] = @ \cup (got \cap OneShot)]
      /\ given' = [given EXCEPT ![x] = @ \cup {r(k) : k \in got}]
      /\ got \subseteq OneShot \cup Repeated
  BY CompletedIs DEF EquityCandle, Settle, Gives
<1>2. /\ clock \in Nat /\ sessionDay \in Nat /\ sessionDay <= Day(clock) /\ Day(clock) \in Nat
      /\ given \in [Equities -> SUBSET Givens]
      /\ signalled \in [Equities -> SUBSET OneShot]
  <2>1. /\ clock \in Nat /\ sessionDay \in Nat /\ sessionDay <= Day(clock)
        /\ given \in [Equities -> SUBSET Givens]
        /\ signalled \in [Equities -> SUBSET OneShot]
    BY DEF IInv, TypeInv
  <2> QED
    BY <2>1, DayAndTime
<1>3. /\ \A k \in got : r(k) \in Givens
      /\ \A k : r(k).day = Day(clock) /\ r(k).kind = k /\ (Own(r(k)) => ~NewDay /\ k \in OneShot)
  BY <1>1, <1>2 DEF Own, NewDay, Givens
<1>0. \A k \in got : k \notin signalled[x]
  BY DEF Gives
<1> HIDE DEF x, b, r, got
<1>4. signalled' \in [Equities -> SUBSET OneShot]
  <2>1. signalled[x] \cup (got \cap OneShot) \in SUBSET OneShot
    BY <1>1, <1>2
  <2> QED
    BY <1>1, <1>2, <2>1
<1>5. given' \in [Equities -> SUBSET Givens]
  <2>1. given[x] \cup {r(k) : k \in got} \in SUBSET Givens
    BY <1>1, <1>2, <1>3
  <2> QED
    BY <1>1, <1>2, <2>1
<1>6. \A e \in Equities : \A g \in given'[e] :
        g \in given[e] \/ (e = x /\ \E k \in got : g = r(k))
  BY <1>1, <1>2
<1>7. \A e \in Equities : ~NewDay => signalled[e] \subseteq signalled'[e]
  BY <1>1, <1>2
<1>8. ~NewDay => got \cap OneShot \subseteq signalled'[x]
  BY <1>1, <1>2
<1>9. ASSUME NEW e \in Equities, NEW g \in given'[e], Own(g)
      PROVE  g.day < sessionDay' \/ (g.day = sessionDay' /\ g.kind \in signalled'[e])
  <2>1. CASE g \in given[e]
    <3>0. g.day \in Nat
      BY <1>2, <2>1 DEF Givens
    <3>1. g.day < sessionDay \/ (g.day = sessionDay /\ g.kind \in signalled[e])
      BY <1>9, <2>1 DEF IInv, GivenInv
    <3>2. CASE NewDay
      BY <1>1, <1>2, <3>0, <3>1, <3>2 DEF NewDay
    <3>3. CASE ~NewDay
      BY <1>1, <1>7, <3>1, <3>3 DEF NewDay
    <3> QED
      BY <3>2, <3>3
  <2>2. CASE e = x /\ \E k \in got : g = r(k)
    <3>1. PICK k \in got : g = r(k)
      BY <2>2
    <3>2. ~NewDay /\ k \in OneShot /\ g.day = Day(clock) /\ g.kind = k
      BY <1>3, <1>9, <3>1
    <3> QED
      BY <1>1, <1>8, <2>2, <3>2
  <2> QED
    BY <1>6, <2>1, <2>2
<1>10. ASSUME NEW e \in Equities, NEW g \in given'[e], NEW h \in given[e],
              Own(g), Own(h), g.kind = h.kind, g.day = h.day
       PROVE  g = h
  <2>1. CASE g \in given[e]
    BY <1>10, <2>1 DEF IInv, GivenInv
  <2>2. CASE e = x /\ \E k \in got : g = r(k)
    <3>1. PICK k \in got : g = r(k)
      BY <2>2
    <3>2. ~NewDay /\ g.day = Day(clock) /\ g.kind = k
      BY <1>3, <1>10, <3>1
    <3>3. h.day = sessionDay /\ h.kind = k /\ sessionDay \in Nat
      BY <1>2, <1>10, <3>2 DEF NewDay
    <3>4. h.kind \in signalled[e]
      BY <1>2, <1>10, <3>3 DEF IInv, GivenInv
    <3> QED
      BY <1>0, <2>2, <3>1, <3>3, <3>4
  <2> QED
    BY <1>6, <2>1, <2>2
<1>11. ASSUME NEW e \in Equities, NEW g \in given'[e], NEW h \in given'[e],
              Own(g), Own(h), g.kind = h.kind, g.day = h.day
       PROVE  g = h
  <2>1. CASE h \in given[e]
    BY <1>10, <1>11, <2>1
  <2>2. CASE g \in given[e]
    BY <1>10, <1>11, <2>2
  <2>3. CASE \E k, l \in got : g = r(k) /\ h = r(l)
    BY <1>3, <1>11, <2>3
  <2> QED
    BY <1>6, <1>11, <2>1, <2>2, <2>3
<1> QED
  BY <1>4, <1>5, <1>9, <1>11 DEF GivenInv

LEMMA HandleKeeps ==
  ASSUME IInv, HandleTick
  PROVE  IInv'
<1>1. PICK tick \in ToSet(ticks) :
        \/ TickOutside(tick) \/ TickInside(tick) \/ FutureCandle(tick)
        \/ \E hits \in SUBSET (OneShot \cup Repeated) : EquityCandle(tick, hits)
  BY DEF HandleTick
<1>2. Handled(tick)
  BY <1>1, AllHandled
<1>3. QueueInv' /\ BuildersInv' /\ KeptInv' /\ builder' \in [Instruments -> BuilderType]
  BY <1>2, HandledQueue, HandledBuilders, HandledKept
<1>4. /\ ticks' \in Seq(TickType) /\ Len(ticks') <= QueueMax
      /\ clock' = clock /\ up' = up /\ up /\ last' = last /\ kept' = kept
      /\ sessionDay' = Day(clock) /\ Day(clock) \in Nat
  <2>1. /\ ticks' \in Seq(TickType) /\ Len(ticks') = Len(ticks) - 1
        /\ Len(ticks) \in Nat /\ Len(ticks) <= QueueMax /\ QueueMax \in Nat
    BY <1>2, QueueTail, CandleAssumption DEF Handled, IInv, TypeInv
  <2>2. Day(clock) \in Nat
    BY DayAndTime DEF IInv, TypeInv
  <2> QED
    BY <1>2, <2>1, <2>2 DEF Handled, Take
<1>5. BiasInv' /\ bias' \in [Futures -> Nat \cup {None}]
  <2>1. CASE FutureCandle(tick)
    BY <2>1, BiasSet
  <2>2. CASE ~FutureCandle(tick)
    <3>1. bias' = IF NewDay THEN [f \in Futures |-> None] ELSE bias
      BY <1>1, <2>2 DEF TickOutside, TickInside, EquityCandle, Settle
    <3> QED
      BY <1>2, <3>1, SettledSame DEF Handled
  <2> QED
    BY <2>1, <2>2
<1>6. /\ GivenInv' /\ signalled' \in [Equities -> SUBSET OneShot]
      /\ given' \in [Equities -> SUBSET Givens]
  <2>1. ASSUME NEW hits \in SUBSET (OneShot \cup Repeated), EquityCandle(tick, hits)
        PROVE  /\ GivenInv' /\ signalled' \in [Equities -> SUBSET OneShot]
               /\ given' \in [Equities -> SUBSET Givens]
    BY <2>1, BreakoutGiven
  <2>2. CASE TickOutside(tick) \/ TickInside(tick) \/ FutureCandle(tick)
    <3>1. /\ signalled' = IF NewDay THEN [e \in Equities |-> {}] ELSE signalled
          /\ given' = given
      BY <2>2 DEF TickOutside, TickInside, FutureCandle, Settle
    <3> QED
      BY <1>2, <3>1, GivenSame DEF Handled, IInv, TypeInv
  <2> QED
    BY <1>1, <2>1, <2>2
<1>7. TypeInv'
  BY <1>3, <1>4, <1>5, <1>6 DEF IInv, TypeInv
<1>8. DownInv'
  BY <1>4 DEF DownInv
<1> QED
  BY <1>3, <1>5, <1>6, <1>7, <1>8 DEF IInv

-----------------------------------------------------------------------------
(* A tick is queued.                                                       *)

\* drain_queue: what is left of the queue, and who is forgotten.
LEMMA EnqueueIs ==
  ASSUME TypeInv, NEW i \in Instruments, NEW at \in Nat, NEW made \in SUBSET Nat,
         Enqueue(i, at, made)
  PROVE  \E drop \in {0, 1} :
           /\ drop <= Len(ticks) /\ ticks' \in Seq(TickType)
           /\ Len(ticks') = (Len(ticks) + 1) - drop /\ Len(ticks') <= QueueMax
           /\ \A k \in 1 .. Len(ticks') - 1 :
                /\ k + drop \in 1 .. Len(ticks)
                /\ ticks'[k].in = ticks[k + drop].in /\ ticks'[k].at = ticks[k + drop].at
                /\ ticks'[k].kept \subseteq ticks[k + drop].kept
           /\ ticks'[Len(ticks')].in = i /\ ticks'[Len(ticks')].at = at
           /\ ticks'[Len(ticks')].kept \subseteq made
           /\ kept' \in [Instruments -> SUBSET Nat]
           /\ \A j \in Instruments : kept'[j] \subseteq IF j = i THEN made ELSE kept[j]
           /\ drop = 1 =>
                /\ \A k \in 1 .. Len(ticks') :
                     ticks'[k].in = ticks[1].in => ticks[1].at \notin ticks'[k].kept
                /\ ticks[1].at \notin kept'[ticks[1].in]
<1> DEFINE tick == [in |-> i, at |-> at, kept |-> made]
           q == Append(ticks, tick)
<1>1. tick \in TickType /\ tick.in = i /\ tick.at = at /\ tick.kept = made
  BY DEF TickType
<1>2. /\ ticks \in Seq(TickType) /\ Len(ticks) \in Nat /\ Len(ticks) <= QueueMax
      /\ QueueMax \in Nat \ {0} /\ kept \in [Instruments -> SUBSET Nat]
  BY CandleAssumption DEF TypeInv
<1> HIDE DEF tick
<1>3. /\ q \in Seq(TickType) /\ Len(q) = Len(ticks) + 1 /\ q[Len(ticks) + 1] = tick
      /\ \A k \in 1 .. Len(ticks) : q[k] = ticks[k]
  BY <1>1, <1>2
<1>4. CASE Len(ticks) < QueueMax
  <2>1. ticks' = q /\ kept' = [kept EXCEPT ![i] = made]
    BY <1>4 DEF Enqueue, tick
  <2> HIDE DEF q
  <2>2. /\ 0 <= Len(ticks) /\ Len(ticks') = (Len(ticks) + 1) - 0 /\ Len(ticks') <= QueueMax
        /\ Len(ticks') = Len(ticks) + 1 /\ ticks' \in Seq(TickType)
    BY <1>2, <1>3, <1>4, <2>1
  <2>3. \A k \in 1 .. Len(ticks') - 1 :
          k + 0 \in 1 .. Len(ticks) /\ k + 0 = k /\ ticks'[k] = ticks[k]
    BY <1>2, <1>3, <2>1, <2>2
  <2>4. ticks'[Len(ticks')] = tick
    BY <1>3, <2>1, <2>2
  <2>5. /\ kept' \in [Instruments -> SUBSET Nat]
        /\ \A j \in Instruments : kept'[j] = IF j = i THEN made ELSE kept[j]
    BY <1>2, <2>1
  <2> QED
    BY <1>1, <2>2, <2>3, <2>4, <2>5
<1>5. CASE ~(Len(ticks) < QueueMax)
  <2> DEFINE lost == ticks[1]
  <2>0. Len(ticks) = QueueMax /\ 1 \in 1 .. Len(ticks) /\ lost \in TickType
    BY <1>2, <1>5
  <2>1. /\ ticks' = [k \in 1 .. QueueMax |-> Forget(q[k + 1], lost)]
        /\ kept' = [j \in Instruments |->
             (IF j = i THEN made ELSE kept[j]) \ (IF j = lost.in THEN {lost.at} ELSE {})]
    BY <1>2, <1>5, <2>0 DEF Enqueue, tick
  <2>2. ASSUME NEW x \in TickType
        PROVE  /\ Forget(x, lost) \in TickType
               /\ Forget(x, lost).in = x.in /\ Forget(x, lost).at = x.at
               /\ Forget(x, lost).kept \subseteq x.kept
               /\ x.in = lost.in => lost.at \notin Forget(x, lost).kept
    BY DEF Forget, TickType
  <2> HIDE DEF q, lost
  <2>3. \A k \in 1 .. QueueMax : k + 1 \in 1 .. Len(ticks) + 1 /\ q[k + 1] \in TickType
    BY <1>2, <1>3, <2>0
  <2>4. \A k \in 1 .. QueueMax :
          /\ ticks'[k] \in TickType
          /\ ticks'[k].in = q[k + 1].in /\ ticks'[k].at = q[k + 1].at
          /\ ticks'[k].kept \subseteq q[k + 1].kept
          /\ ticks'[k].in = lost.in => lost.at \notin ticks'[k].kept
    BY <2>1, <2>2, <2>3
  <2>5. ticks' \in Seq(TickType) /\ Len(ticks') = QueueMax
    <3>1. \A k \in 1 .. QueueMax : Forget(q[k + 1], lost) \in TickType
      BY <2>2, <2>3
    <3> QED
      BY <1>2, <2>1, <3>1
  <2>6. /\ 1 <= Len(ticks) /\ Len(ticks') = (Len(ticks) + 1) - 1 /\ Len(ticks') <= QueueMax
        /\ Len(ticks') + 1 = Len(ticks) + 1
    BY <1>2, <2>0, <2>5
  <2>7. \A k \in 1 .. Len(ticks') - 1 :
          /\ k + 1 \in 1 .. Len(ticks)
          /\ ticks'[k].in = ticks[k + 1].in /\ ticks'[k].at = ticks[k + 1].at
          /\ ticks'[k].kept \subseteq ticks[k + 1].kept
    <3>1. ASSUME NEW k \in 1 .. Len(ticks') - 1
          PROVE  k + 1 \in 1 .. Len(ticks) /\ k \in 1 .. QueueMax /\ q[k + 1] = ticks[k + 1]
      BY <1>2, <1>3, <2>0, <2>5
    <3> QED
      BY <2>4, <3>1
  <2>8. /\ ticks'[Len(ticks')].in = i /\ ticks'[Len(ticks')].at = at
        /\ ticks'[Len(ticks')].kept \subseteq made
    <3>1. Len(ticks') \in 1 .. QueueMax /\ q[Len(ticks') + 1] = tick
      BY <1>2, <1>3, <2>5, <2>6
    <3> QED
      BY <1>1, <2>4, <3>1
  <2>9. /\ kept' \in [Instruments -> SUBSET Nat]
        /\ \A j \in Instruments : kept'[j] \subseteq IF j = i THEN made ELSE kept[j]
        /\ lost.at \notin kept'[lost.in]
    <3>1. lost.in \in Instruments
      BY <2>0 DEF TickType
    <3> QED
      BY <1>2, <2>1, <3>1
  <2>10. \A k \in 1 .. Len(ticks') : ticks'[k].in = lost.in => lost.at \notin ticks'[k].kept
    BY <2>4, <2>5
  <2> QED
    BY <2>5, <2>6, <2>7, <2>8, <2>9, <2>10 DEF lost
<1> QED
  BY <1>4, <1>5

\* A trade is delivered, now or again.
LEMMA EnqueueKeeps ==
  ASSUME IInv, up, NEW i \in Instruments, NEW at \in Nat, NEW made \in SUBSET Nat,
         Enqueue(i, at, made), at <= clock, last[i] <= at,
         last' = [last EXCEPT ![i] = at],
         clock' = clock, up' = up, session' = session,
         CarriesOwn(at, made),
         \A n \in Nat : n = Len(ticks) /\ Today(at) =>
           \A t \in made : t = at \/ InHand(i, n, t)
  PROVE  IInv'
<1>1. PICK drop \in {0, 1} :
        /\ drop <= Len(ticks) /\ ticks' \in Seq(TickType)
        /\ Len(ticks') = (Len(ticks) + 1) - drop /\ Len(ticks') <= QueueMax
        /\ \A k \in 1 .. Len(ticks') - 1 :
             /\ k + drop \in 1 .. Len(ticks)
             /\ ticks'[k].in = ticks[k + drop].in /\ ticks'[k].at = ticks[k + drop].at
             /\ ticks'[k].kept \subseteq ticks[k + drop].kept
        /\ ticks'[Len(ticks')].in = i /\ ticks'[Len(ticks')].at = at
        /\ ticks'[Len(ticks')].kept \subseteq made
        /\ kept' \in [Instruments -> SUBSET Nat]
        /\ \A j \in Instruments : kept'[j] \subseteq IF j = i THEN made ELSE kept[j]
        /\ drop = 1 =>
             /\ \A k \in 1 .. Len(ticks') :
                  ticks'[k].in = ticks[1].in => ticks[1].at \notin ticks'[k].kept
             /\ ticks[1].at \notin kept'[ticks[1].in]
  BY EnqueueIs DEF IInv
<1>2. /\ ticks \in Seq(TickType) /\ Len(ticks) \in Nat
      /\ last \in [Instruments -> Nat \cup {None}] /\ kept \in [Instruments -> SUBSET Nat]
      /\ clock \in Nat /\ \A j \in Instruments : last[j] <= clock
  BY DEF IInv, TypeInv
<1>3. /\ builder' = builder /\ sessionDay' = sessionDay /\ bias' = bias
      /\ signalled' = signalled /\ given' = given
  BY DEF session
<1>4. \A k \in 1 .. Len(ticks) :
        /\ ticks[k] \in TickType /\ ticks[k].in \in Instruments /\ ticks[k].at \in Nat
        /\ ticks[k].kept \in SUBSET Nat
        /\ ticks[k].at <= last[ticks[k].in]
        /\ CarriesOwn(ticks[k].at, ticks[k].kept)
  <2>1. \A k \in 1 .. Len(ticks) : ticks[k] \in TickType
    BY <1>2
  <2> QED
    BY <2>1 DEF TickType, IInv, QueueInv
<1>5. \A j \in Instruments :
        /\ last'[j] = IF j = i THEN at ELSE last[j]
        /\ last[j] \in Int /\ last'[j] \in Int /\ last[j] <= last'[j]
  BY <1>2 DEF None
<1>6. /\ Len(ticks') \in Nat \ {0} /\ Len(ticks') - 1 = Len(ticks) - drop
      /\ drop \in Nat /\ drop <= Len(ticks)
  BY <1>1, <1>2
<1>7. TypeInv'
  <2>1. last' \in [Instruments -> Nat \cup {None}] /\ \A j \in Instruments : last'[j] <= clock
    BY <1>2, <1>5
  <2> QED
    BY <1>1, <1>3, <2>1 DEF IInv, TypeInv
<1>8. \A j \in Instruments : Low(j) \subseteq Low(j)' /\ Low(j) \in SUBSET Nat
  <2>1. ASSUME NEW j \in Instruments, NEW t \in Low(j)
        PROVE  t \in Low(j)'
    <3>1. t \in Nat /\ t <= last[j] /\ t <= last'[j]
      BY <1>5 DEF Low
    <3>2. ASSUME NEW k \in 1 .. Len(ticks'), ticks'[k].in = j
          PROVE  t <= ticks'[k].at
      <4>1. CASE k = Len(ticks')
        BY <1>1, <1>5, <3>1, <3>2, <4>1
      <4>2. CASE k \in 1 .. Len(ticks') - 1
        BY <1>1, <3>2, <4>2 DEF Low
      <4> QED
        BY <1>6, <4>1, <4>2
    <3> QED
      BY <3>1, <3>2 DEF Low
  <2> QED
    BY <2>1 DEF Low
<1>9. BuildersInv'
  BY <1>3, <1>8, LowerOK DEF IInv, BuildersInv
<1>0. \A k \in 1 .. Len(ticks') - 1 :
        /\ k + drop \in 1 .. Len(ticks)
        /\ ticks'[k].in = ticks[k + drop].in /\ ticks'[k].at = ticks[k + drop].at
        /\ ticks'[k].kept \subseteq ticks[k + drop].kept
  BY <1>1
<1>10. QueueInv'
  <2>1. ASSUME NEW k \in 1 .. Len(ticks')
        PROVE  ticks'[k].at <= last'[ticks'[k].in] /\ CarriesOwn(ticks'[k].at, ticks'[k].kept)
    <3>1. CASE k = Len(ticks')
      <4>1. ticks'[k].in = i /\ ticks'[k].at = at /\ ticks'[k].kept \subseteq made
        BY <1>1, <3>1
      <4>2. last'[i] = at /\ at <= at
        BY <1>5
      <4>3. CarriesOwn(at, ticks'[k].kept)
        BY <4>1 DEF CarriesOwn
      <4> QED
        BY <4>1, <4>2, <4>3
    <3>2. CASE k \in 1 .. Len(ticks') - 1
      <4>1. /\ k + drop \in 1 .. Len(ticks) /\ ticks'[k].in = ticks[k + drop].in
            /\ ticks'[k].at = ticks[k + drop].at /\ ticks'[k].kept \subseteq ticks[k + drop].kept
        BY <1>0, <3>2
      <4>2. ticks'[k].in \in Instruments /\ ticks'[k].at \in Nat
            /\ ticks'[k].at <= last[ticks'[k].in]
        BY <1>4, <4>1
      <4> QED
        BY <1>4, <1>5, <4>1, <4>2 DEF CarriesOwn
    <3> QED
      BY <1>6, <3>1, <3>2
  <2>2. ASSUME NEW j \in 1 .. Len(ticks'), NEW k \in 1 .. Len(ticks'),
               j <= k, ticks'[j].in = ticks'[k].in
        PROVE  ticks'[j].at <= ticks'[k].at
    <3>1. CASE j \in 1 .. Len(ticks') - 1 /\ k \in 1 .. Len(ticks') - 1
      <4>1. /\ j + drop \in 1 .. Len(ticks) /\ k + drop \in 1 .. Len(ticks)
            /\ j + drop <= k + drop
        <5>1. j + drop \in 1 .. Len(ticks) /\ k + drop \in 1 .. Len(ticks)
          BY <1>1, <3>1
        <5>2. j + drop <= k + drop
          BY <1>6, <2>2, <3>1
        <5> QED
          BY <5>1, <5>2
      <4> QED
        BY <1>1, <2>2, <3>1, <4>1 DEF IInv, QueueInv
    <3>2. CASE k = Len(ticks') /\ j \in 1 .. Len(ticks') - 1
      <4>1. /\ j + drop \in 1 .. Len(ticks) /\ ticks'[j].at = ticks[j + drop].at
            /\ ticks[j + drop].in = i /\ ticks'[k].at = at
        BY <1>1, <2>2, <3>2
      <4>2. ticks[j + drop].at \in Nat /\ ticks[j + drop].at <= last[i]
        BY <1>4, <4>1
      <4> QED
        BY <1>5, <4>1, <4>2
    <3>3. CASE k = Len(ticks') /\ j = Len(ticks')
      BY <1>1, <3>3
    <3> QED
      BY <1>6, <2>2, <3>1, <3>2, <3>3
  <2>3. \A j \in Instruments : CarriesOwn(last'[j], kept'[j])
    <3>1. ASSUME NEW j \in Instruments, NEW t \in kept'[j]
          PROVE  t <= last'[j] /\ Boundary(t) = Boundary(last'[j])
      <4>1. CASE j = i
        <5>1. t \in made /\ last'[j] = at
          BY <1>1, <1>5, <3>1, <4>1
        <5> QED
          BY <5>1 DEF CarriesOwn
      <4>2. CASE j # i
        <5>1. t \in kept[j] /\ last'[j] = last[j]
          BY <1>1, <1>5, <3>1, <4>2
        <5> QED
          BY <5>1 DEF IInv, QueueInv, CarriesOwn
      <4> QED
        BY <4>1, <4>2
    <3> QED
      BY <3>1 DEF CarriesOwn
  <2> QED
    BY <2>1, <2>2, <2>3 DEF QueueInv
\* Who was accounted for still is, unless it is the trade that was dropped.
<1>11. ASSUME NEW j \in Instruments, NEW n \in Nat, n <= Len(ticks), drop <= n,
              NEW m \in Nat, n - drop <= m, m <= Len(ticks'),
              NEW t, InHand(j, n, t),
              ~(drop = 1 /\ j = ticks[1].in /\ t = ticks[1].at)
       PROVE  InHand(j, m, t)'
  <2>1. t \in QueuedTo(j, n) => t \in QueuedTo(j, m)'
    <3>1. SUFFICES ASSUME t \in Nat, NEW p \in 1 .. n, ticks[p].in = j, ticks[p].at = t
                   PROVE  t \in QueuedTo(j, m)'
      BY DEF QueuedTo
    <3>2. p - drop \in 1 .. n - drop
      BY <1>11, <3>1
    <3>3. /\ p - drop \in 1 .. m /\ p - drop \in 1 .. Len(ticks') - 1
          /\ (p - drop) + drop = p
      BY <1>2, <1>6, <1>11, <3>2
    <3>4. ticks'[p - drop].in = j /\ ticks'[p - drop].at = t
      BY <1>1, <3>1, <3>3
    <3> QED
      BY <3>1, <3>3, <3>4 DEF QueuedTo
  <2>2. Accounted(builder[j], Low(j), QueuedTo(j, n), t)
    BY <1>11 DEF InHand
  <2>3. Accounted(builder[j], Low(j)', QueuedTo(j, m)', t)
    BY <1>8, <2>1, <2>2, AccountedLower
  <2> QED
    BY <1>3, <2>3 DEF InHand
\* The trades of the new tick.
<1>12. ASSUME NEW m \in Nat, m = Len(ticks'), Today(at), NEW t \in made,
              ~(drop = 1 /\ i = ticks[1].in /\ t = ticks[1].at)
       PROVE  InHand(i, m, t)'
  <2>1. CASE t = at
    <3>1. m \in 1 .. m /\ ticks'[m].in = i /\ ticks'[m].at = t
      <4>1. m = Len(ticks')
        BY <1>12
      <4>2. m \in 1 .. m
        BY <1>6, <4>1
      <4> QED
        BY <1>1, <2>1, <4>1, <4>2
    <3>2. t \in QueuedTo(i, m)'
      BY <3>1, <2>1 DEF QueuedTo
    <3> QED
      BY <3>2 DEF InHand, Accounted
  <2>2. CASE t # at
    <3>1. PICK n \in Nat : n = Len(ticks)
      BY <1>2
    <3>2. InHand(i, n, t)
      BY <1>12, <2>2, <3>1
    <3>3. n <= Len(ticks) /\ drop <= n /\ n - drop <= m /\ m <= Len(ticks')
      <4>1. m = Len(ticks')
        BY <1>12
      <4> QED
        BY <1>2, <1>6, <3>1, <4>1
    <3> QED
      BY <1>11, <1>12, <3>2, <3>3
  <2> QED
    BY <2>1, <2>2
<1>13. KeptInv'
  <2>1. ASSUME NEW j \in Instruments, NEW n \in 1 .. Len(ticks'),
               ticks'[n].in = j, InSession(ticks'[n].at), Day(ticks'[n].at) = Day(clock),
               NEW t \in ticks'[n].kept
        PROVE  InHand(j, n, t)'
    <3>0. ~(drop = 1 /\ j = ticks[1].in /\ t = ticks[1].at)
      BY <1>1, <2>1
    <3>1. CASE n = Len(ticks')
      <4>1. j = i /\ t \in made /\ Today(at) /\ n \in Nat
        BY <1>1, <2>1, <3>1 DEF Today
      <4> QED
        BY <1>12, <3>0, <3>1, <4>1
    <3>2. CASE n \in 1 .. Len(ticks') - 1
      <4>1. PICK m \in Nat : m = n + drop
        OBVIOUS
      <4>2. /\ m \in 1 .. Len(ticks) /\ ticks[m].in = j /\ Today(ticks[m].at)
            /\ t \in ticks[m].kept
        BY <1>1, <2>1, <3>2, <4>1 DEF Today
      <4>3. InHand(j, m, t)
        BY <4>2 DEF IInv, KeptInv
      <4>4. m <= Len(ticks) /\ drop <= m /\ m - drop <= n /\ n <= Len(ticks') /\ n \in Nat
        BY <1>2, <1>6, <3>2, <4>1, <4>2
      <4> QED
        BY <1>11, <3>0, <4>3, <4>4
    <3> QED
      BY <1>6, <3>1, <3>2
  <2>2. ASSUME NEW j \in Instruments, NEW n \in Nat, n = Len(ticks'),
               last'[j] \in Nat, InSession(last'[j]), Day(last'[j]) = Day(clock),
               NEW t \in kept'[j]
        PROVE  InHand(j, n, t)'
    <3>0. ~(drop = 1 /\ j = ticks[1].in /\ t = ticks[1].at)
      BY <1>1, <2>2
    <3>1. CASE j = i
      <4>1. t \in made /\ Today(at)
        BY <1>1, <1>5, <2>2, <3>1 DEF Today
      <4> QED
        BY <1>12, <2>2, <3>0, <3>1, <4>1
    <3>2. CASE j # i
      <4>1. t \in kept[j] /\ last[j] \in Nat /\ Today(last[j])
        BY <1>1, <1>5, <2>2, <3>2 DEF Today
      <4>2. PICK m \in Nat : m = Len(ticks)
        BY <1>2
      <4>3. InHand(j, m, t)
        BY <4>1, <4>2 DEF IInv, KeptInv
      <4>4. m <= Len(ticks) /\ drop <= m /\ m - drop <= n /\ n <= Len(ticks')
        <5>1. n = Len(ticks')
          BY <2>2
        <5> QED
          BY <1>2, <1>6, <4>2, <5>1
      <4> QED
        BY <1>11, <3>0, <4>3, <4>4
    <3> QED
      BY <3>1, <3>2
  <2> QED
    BY <2>1, <2>2 DEF KeptInv, Today
<1>14. DownInv' /\ BiasInv' /\ GivenInv'
  BY <1>3 DEF IInv, DownInv, BiasInv, GivenInv
<1> QED
  BY <1>7, <1>9, <1>10, <1>13, <1>14 DEF IInv

-----------------------------------------------------------------------------
(* The other steps.                                                        *)

LEMMA TradeKeeps ==
  ASSUME IInv, NEW i \in Instruments, Trade(i)
  PROVE  IInv'
<1> DEFINE made == {t \in kept[i] : Boundary(t) = Boundary(clock)} \cup {clock}
<1>1. /\ clock \in Nat /\ last[i] # clock /\ last' = [last EXCEPT ![i] = clock]
      /\ clock' = clock /\ up' = up /\ session' = session
      /\ last[i] \in Nat \cup {None} /\ last[i] <= clock /\ kept[i] \in SUBSET Nat
      /\ CarriesOwn(last[i], kept[i])
  BY DEF Trade, IInv, TypeInv, QueueInv
<1>2. CASE up
  <2>1. Enqueue(i, clock, made)
    BY <1>2 DEF Trade
  <2>2. made \in SUBSET Nat /\ CarriesOwn(clock, made)
    BY <1>1 DEF CarriesOwn, None
  \* What the minute's candle has so far was made in this session too.
  <2>3. ASSUME NEW n \in Nat, n = Len(ticks), Today(clock), NEW t \in made, t # clock
        PROVE  InHand(i, n, t)
    <3>1. t \in kept[i] /\ Boundary(t) = Boundary(clock) /\ t <= last[i]
          /\ Boundary(t) = Boundary(last[i])
      BY <1>1, <2>3 DEF CarriesOwn
    <3>2. last[i] \in Nat
      BY <1>1, <3>1 DEF None
    <3>3. Today(last[i])
      BY <1>1, <2>3, <3>1, <3>2, EarlierInCandle DEF Today
    <3> QED
      BY <2>3, <3>1, <3>2, <3>3 DEF IInv, KeptInv
  <2> HIDE DEF made
  <2>4. clock <= clock
    BY <1>1
  <2> QED
    BY <1>1, <1>2, <2>1, <2>2, <2>3, <2>4, EnqueueKeeps
<1>3. CASE ~up
  <2>1. /\ kept' = [kept EXCEPT ![i] = {}] /\ ticks' = ticks /\ ticks = <<>>
        /\ \A j \in Instruments : kept[j] = {} /\ builder[j] = FreshBuilder
        /\ kept \in [Instruments -> SUBSET Nat]
        /\ last \in [Instruments -> Nat \cup {None}] /\ \A j \in Instruments : last[j] <= clock
    BY <1>3 DEF Trade, IInv, DownInv, TypeInv
  <2>2. /\ builder' = builder /\ sessionDay' = sessionDay /\ bias' = bias
        /\ signalled' = signalled /\ given' = given
    BY <1>1 DEF session
  <2>3. /\ \A j \in Instruments : kept'[j] = {}
        /\ kept' \in [Instruments -> SUBSET Nat]
        /\ last' \in [Instruments -> Nat \cup {None}] /\ \A j \in Instruments : last'[j] <= clock
    BY <1>1, <2>1
  <2>4. TypeInv'
    BY <1>1, <2>1, <2>2, <2>3 DEF IInv, TypeInv
  <2>5. DownInv' /\ BiasInv' /\ GivenInv'
    BY <1>1, <2>1, <2>2, <2>3 DEF IInv, DownInv, BiasInv, GivenInv
  <2>6. Len(ticks') = 0
    BY <2>1
  <2>7. QueueInv' /\ KeptInv'
    BY <2>3, <2>6 DEF QueueInv, KeptInv, CarriesOwn
  <2>8. BuildersInv'
    BY <2>1, <2>2, FreshOK DEF BuildersInv
  <2> QED
    BY <2>4, <2>5, <2>7, <2>8 DEF IInv
<1> QED
  BY <1>2, <1>3

LEMMA ReplayKeeps ==
  ASSUME IInv, NEW i \in Instruments, Replay(i)
  PROVE  IInv'
<1>1. PICK at \in Nat : at = last[i]
  BY DEF Replay, IInv, TypeInv
<1>2. PICK made : made = kept[i] \cup {at}
  OBVIOUS
<1>3. /\ up /\ Enqueue(i, at, made) /\ clock' = clock /\ up' = up /\ session' = session
      /\ last' = last
  BY <1>1, <1>2 DEF Replay
<1>4. /\ last \in [Instruments -> Nat \cup {None}] /\ at <= clock /\ last[i] <= at
      /\ kept[i] \in SUBSET Nat /\ CarriesOwn(at, kept[i])
  BY <1>1 DEF IInv, TypeInv, QueueInv
<1>5. last' = [last EXCEPT ![i] = at]
  BY <1>1, <1>3, <1>4
<1>6. made \in SUBSET Nat /\ CarriesOwn(at, made)
  BY <1>2, <1>4 DEF CarriesOwn
<1>7. ASSUME NEW n \in Nat, n = Len(ticks), Today(at), NEW t \in made, t # at
      PROVE  InHand(i, n, t)
  BY <1>1, <1>2, <1>7 DEF IInv, KeptInv
<1> QED
  BY <1>3, <1>4, <1>5, <1>6, <1>7, EnqueueKeeps

\* The day changes only when the queue is empty.
LEMMA MinuteKeeps ==
  ASSUME IInv, Minute
  PROVE  IInv'
<1>0. clock \in 0 .. MaxClock /\ MaxClock \in Nat /\ clock < MaxClock /\ clock' = clock + 1
  BY CandleAssumption DEF Minute, IInv, TypeInv
<1>a. clock \in Nat /\ clock' \in 0 .. MaxClock /\ clock' \in Nat /\ clock <= clock'
  BY <1>0
<1>b. /\ last' = last /\ kept' = kept /\ up' = up /\ ticks' = ticks
      /\ builder' = builder /\ sessionDay' = sessionDay /\ bias' = bias
      /\ signalled' = signalled /\ given' = given
  BY DEF Minute, session
<1>1. /\ clock \in Nat /\ clock' = clock + 1 /\ clock' \in 0 .. MaxClock /\ clock' \in Nat
      /\ clock <= clock'
      /\ last' = last /\ kept' = kept /\ up' = up /\ ticks' = ticks
      /\ builder' = builder /\ sessionDay' = sessionDay /\ bias' = bias
      /\ signalled' = signalled /\ given' = given
  BY <1>0, <1>a, <1>b
<1>2. Day(clock) <= Day(clock') /\ Day(clock) \in Nat /\ Day(clock') \in Nat
  <2>1. PICK s \in Nat : s = clock
    BY <1>a
  <2>2. PICK t \in Nat : t = clock'
    BY <1>a
  <2>3. s <= t
    BY <1>a, <2>1, <2>2
  <2>4. Day(s) <= Day(t) /\ Day(s) \in Nat /\ Day(t) \in Nat
    BY <2>3, DayMonotone, DayAndTime
  <2> QED
    BY <2>1, <2>2, <2>4
<1>3. TypeInv'
  <2>1. sessionDay \in Nat /\ sessionDay <= Day(clock')
    BY <1>2 DEF IInv, TypeInv
  <2>2. \A i \in Instruments : last[i] <= clock'
    <3>1. \A i \in Instruments : last[i] \in Int /\ last[i] <= clock
      BY DEF IInv, TypeInv, None
    <3> QED
      BY <1>1, <3>1
  <2> QED
    BY <1>1, <2>1, <2>2 DEF IInv, TypeInv
<1>4. DownInv' /\ QueueInv' /\ BiasInv' /\ GivenInv'
  BY <1>1 DEF IInv, DownInv, QueueInv, BiasInv, GivenInv
<1>5. \A i \in Instruments : Low(i)' = Low(i)
  BY <1>1 DEF Low
<1>6. BuildersInv'
  BY <1>1, <1>5 DEF IInv, BuildersInv
<1>7. \A i \in Instruments : \A n, t : InHand(i, n, t) => InHand(i, n, t)'
  <2>1. ASSUME NEW i \in Instruments, NEW n, NEW t, InHand(i, n, t)
        PROVE  InHand(i, n, t)'
    <3>1. QueuedTo(i, n)' = QueuedTo(i, n)
      BY <1>1 DEF QueuedTo
    <3> QED
      BY <1>1, <1>5, <2>1, <3>1 DEF InHand
  <2> QED
    BY <2>1
<1>8. KeptInv'
  <2>1. ASSUME NEW i \in Instruments, NEW n \in 1 .. Len(ticks),
               ticks[n].in = i, InSession(ticks[n].at), Day(ticks[n].at) = Day(clock'),
               NEW t \in ticks[n].kept
        PROVE  InHand(i, n, t)
    <3>1. Day(clock') = Day(clock)
      <4>1. clock' = clock + 1 /\ (Day(clock + 1) # Day(clock) => ticks = <<>>)
        BY DEF Minute
      <4>2. ticks # <<>>
        BY <2>1
      <4> QED
        BY <4>1, <4>2
    <3> QED
      BY <2>1, <3>1 DEF IInv, KeptInv, Today
  <2>2. ASSUME NEW i \in Instruments, NEW n \in Nat, n = Len(ticks),
               last[i] \in Nat, InSession(last[i]), Day(last[i]) = Day(clock'),
               NEW t \in kept[i]
        PROVE  InHand(i, n, t)
    <3>1. Day(last[i]) <= Day(clock)
      BY <1>1, <2>2, DayMonotone DEF IInv, TypeInv
    <3>2. Day(last[i]) = Day(clock)
      BY <1>2, <2>2, <3>1
    <3> QED
      BY <2>2, <3>2 DEF IInv, KeptInv, Today
  <2> QED
    BY <1>1, <1>7, <2>1, <2>2 DEF KeptInv, Today
<1> QED
  BY <1>3, <1>4, <1>6, <1>8 DEF IInv

\* A seeded builder ends with a candle of a minute the equity traded in.
LEMMA SeededOK ==
  ASSUME IInv, ~up, NEW e \in Equities, NEW h \in Seeds(e), NEW day
  PROVE  LET b == [FreshBuilder EXCEPT !.history = h, !.first = (h = <<>>)]
         IN  b \in BuilderType /\ BuilderOK(b, day, Low(e))
<1> DEFINE b == [FreshBuilder EXCEPT !.history = h, !.first = (h = <<>>)]
<1>1. ticks = <<>> /\ Len(ticks) = 0 /\ e \in Instruments /\ last[e] \in Nat \cup {None}
  BY DEF IInv, DownInv, TypeInv, Instruments
<1>2. CASE h = <<>>
  <2>1. b.current = NoCandle /\ b.history = <<>> /\ b.tod = None /\ b.first = TRUE
    BY <1>2 DEF FreshBuilder
  <2>2. b \in BuilderType
    BY <1>2, FreshIs DEF BuilderType
  <2>3. Len(b.history) = 0 /\ HistoryMax \in Nat
    BY <2>1, CandleAssumption
  <2>4. BuilderOK(b, day, Low(e))
    <3> HIDE DEF b
    <3> QED
      BY <2>1, <2>3 DEF BuilderOK, CurrentOK, SeedOK, HistoryOK
  <2> QED
    BY <2>2, <2>4
<1>3. ASSUME h # <<>>
      PROVE  b \in BuilderType /\ BuilderOK(b, day, Low(e))
  <2>1. PICK u \in 0 .. last[e] : InSession(u) /\ h = <<Stored(Boundary(u))>>
    BY <1>3 DEF Seeds
  <2>2. u \in Nat /\ u <= last[e]
    BY <1>1, <2>1 DEF None
  <2>3. u \in Low(e)
    BY <1>1, <2>2 DEF Low
  <2>4. /\ Stored(Boundary(u)) \in Candles /\ Stored(Boundary(u)) # NoCandle
        /\ Stored(Boundary(u)).trades = {}
    <3>1. Boundary(u) \in Nat
      BY <2>1, <2>2, SessionBoundary
    <3>2. /\ Stored(Boundary(u)).bnd = Boundary(u) /\ Stored(Boundary(u)).trades = {}
          /\ Stored(Boundary(u)) \in Candles
      BY <3>1, CandleIs DEF Stored
    <3> QED
      BY <3>1, <3>2, CandleIs
  <2>5. /\ h \in Seq(Candles) /\ Len(h) = 1 /\ h[1] = Stored(Boundary(u))
    BY <2>1, <2>4
  <2>6. /\ b \in BuilderType /\ b.current = NoCandle /\ b.history = h
    BY <2>5, FreshIs DEF BuilderType, FreshBuilder
  <2>7. HistoryOK(b, day)
    <3>1. Len(h) <= HistoryMax
      BY <2>5, CandleAssumption
    <3>2. \A k \in 1 .. Len(h) : h[k] # NoCandle /\ ~Live(h[k])
      BY <2>4, <2>5 DEF Live
    <3>3. \A k \in 1 .. Len(h) - 1 : Before(h[k], h[k + 1])
      BY <2>5
    <3> HIDE DEF b
    <3> QED
      BY <2>6, <3>1, <3>2, <3>3 DEF HistoryOK
  <2>8. SeedOK(b, Low(e)) /\ CurrentOK(b, day, Low(e))
    <3> HIDE DEF b
    <3> QED
      BY <2>1, <2>3, <2>6 DEF SeedOK, CurrentOK
  <2> QED
    BY <2>6, <2>7, <2>8 DEF BuilderOK
<1> QED
  BY <1>2, <1>3

LEMMA BootKeeps ==
  ASSUME IInv, NEW seed, Boot(seed)
  PROVE  IInv'
<1>1. /\ ~up /\ up' = TRUE /\ sessionDay' = Day(clock) /\ clock' = clock /\ ticks' = ticks
      /\ last' = last /\ kept' = kept /\ bias' = bias /\ signalled' = signalled /\ given' = given
      /\ \A e \in Equities : seed[e] \in Seeds(e)
      /\ builder' = [i \in Instruments |->
           IF i \in Equities
             THEN [FreshBuilder EXCEPT !.history = seed[i], !.first = (seed[i] = <<>>)]
             ELSE FreshBuilder]
  BY DEF Boot
<1>2. /\ ticks = <<>> /\ Len(ticks) = 0
      /\ \A i \in Instruments : kept[i] = {}
      /\ \A f \in Futures : bias[f] = None
      /\ \A e \in Equities : given[e] = {}
      /\ Day(clock) \in Nat
  <2>1. clock \in Nat /\ Day(clock) \in Nat
    BY DayAndTime DEF IInv, TypeInv
  <2> QED
    BY <1>1, <2>1 DEF IInv, DownInv
<1>3. \A i \in Instruments : Low(i)' = Low(i)
  BY <1>1 DEF Low
<1>4. ASSUME NEW i \in Instruments
      PROVE  builder'[i] \in BuilderType /\ BuilderOK(builder'[i], Day(clock), Low(i))
  <2>1. CASE i \in Equities
    BY <1>1, <2>1, SeededOK
  <2>2. CASE i \notin Equities
    BY <1>1, <2>2, FreshIs, FreshOK
  <2> QED
    BY <2>1, <2>2
<1>5. TypeInv'
  <2>1. \A i \in Instruments : builder'[i] \in BuilderType
    BY <1>4
  <2>2. builder' = [i \in Instruments |-> builder'[i]]
    BY <1>1
  <2>3. builder' \in [Instruments -> BuilderType]
    BY <2>1, <2>2
  <2>4. sessionDay' <= Day(clock) /\ sessionDay' \in Nat
    <3>1. PICK d \in Nat : d = Day(clock)
      BY <1>2
    <3>2. sessionDay' = d
      BY <1>1, <3>1
    <3> QED
      BY <3>1, <3>2
  <2>5. up' \in BOOLEAN
    BY <1>1
  <2> QED
    BY <1>1, <2>3, <2>4, <2>5 DEF IInv, TypeInv
<1>6. QueueInv' /\ KeptInv'
  <2>1. Len(ticks') = 0
    BY <1>1, <1>2
  <2>2. \A i \in Instruments : kept'[i] = {}
    BY <1>1, <1>2
  <2> QED
    BY <2>1, <2>2 DEF QueueInv, KeptInv, CarriesOwn
<1>7. BuildersInv'
  BY <1>1, <1>3, <1>4 DEF BuildersInv
<1>8. DownInv' /\ BiasInv' /\ GivenInv'
  BY <1>1, <1>2 DEF DownInv, BiasInv, GivenInv
<1> QED
  BY <1>5, <1>6, <1>7, <1>8 DEF IInv

\* Nothing remembered, nothing to be wrong: the start and the end of a process.
LEMMA BlankIs ==
  ASSUME clock \in 0 .. MaxClock, up \in BOOLEAN, ~up, ticks = <<>>,
         last \in [Instruments -> Nat \cup {None}], \A i \in Instruments : last[i] <= clock,
         kept = [i \in Instruments |-> {}],
         builder = [i \in Instruments |-> FreshBuilder],
         sessionDay = 0,
         bias = [f \in Futures |-> None],
         signalled = [e \in Equities |-> {}],
         given = [e \in Equities |-> {}]
  PROVE  IInv
<1>1. /\ ticks \in Seq(TickType) /\ Len(ticks) = 0 /\ QueueMax \in Nat /\ clock \in Nat
  BY CandleAssumption
<1>2. Day(clock) \in Nat /\ sessionDay <= Day(clock) /\ sessionDay \in Nat
  BY <1>1, DayAndTime
<1>3. /\ kept \in [Instruments -> SUBSET Nat] /\ builder \in [Instruments -> BuilderType]
      /\ bias \in [Futures -> Nat \cup {None}]
      /\ signalled \in [Equities -> SUBSET OneShot]
      /\ given \in [Equities -> SUBSET Givens]
  BY FreshIs
<1>4. TypeInv
  BY <1>1, <1>2, <1>3 DEF TypeInv
<1>5. QueueInv /\ KeptInv
  BY <1>1 DEF QueueInv, KeptInv, CarriesOwn
<1>6. DownInv /\ BiasInv /\ GivenInv
  BY DEF DownInv, BiasInv, GivenInv
<1>7. BuildersInv
  BY FreshOK DEF BuildersInv
<1> QED
  BY <1>4, <1>5, <1>6, <1>7 DEF IInv

LEMMA InitOK == Init => IInv
<1>1. ASSUME Init
      PROVE  /\ clock \in 0 .. MaxClock /\ up \in BOOLEAN /\ ~up /\ ticks = <<>>
             /\ last \in [Instruments -> Nat \cup {None}]
             /\ \A i \in Instruments : last[i] <= clock
  <2>1. clock = 0 /\ MaxClock \in Nat /\ up = FALSE /\ ticks = <<>>
        /\ last = [i \in Instruments |-> None]
    BY <1>1, CandleAssumption DEF Init
  <2>2. None \in Nat \cup {None} /\ None <= clock
    BY <2>1 DEF None
  <2>3. last \in [Instruments -> Nat \cup {None}]
    BY <2>1, <2>2
  <2>4. \A i \in Instruments : last[i] <= clock
    BY <2>1, <2>2
  <2>5. clock \in 0 .. MaxClock
    BY <2>1
  <2>6. up \in BOOLEAN /\ ~up
    BY <2>1
  <2> QED
    BY <2>1, <2>3, <2>4, <2>5, <2>6
<1> QED
  BY <1>1, BlankIs DEF Init

LEMMA DieKeeps ==
  ASSUME IInv, Die
  PROVE  IInv'
<1>1. /\ up' = FALSE /\ ticks' = <<>> /\ clock' = clock /\ last' = last
      /\ kept' = [i \in Instruments |-> {}]
      /\ builder' = [i \in Instruments |-> FreshBuilder]
      /\ sessionDay' = 0
      /\ bias' = [f \in Futures |-> None]
      /\ signalled' = [e \in Equities |-> {}]
      /\ given' = [e \in Equities |-> {}]
  BY DEF Die
<1>2. /\ clock \in 0 .. MaxClock /\ clock \in Nat
      /\ last \in [Instruments -> Nat \cup {None}]
      /\ \A i \in Instruments : last[i] <= clock
  BY DEF IInv, TypeInv
<1>3. ticks' \in Seq(TickType) /\ Len(ticks') = 0 /\ QueueMax \in Nat
  BY <1>1, CandleAssumption
<1>4. Day(clock) \in Nat /\ sessionDay' <= Day(clock) /\ sessionDay' \in Nat
  BY <1>1, <1>2, DayAndTime
<1>5. /\ kept' \in [Instruments -> SUBSET Nat] /\ builder' \in [Instruments -> BuilderType]
      /\ bias' \in [Futures -> Nat \cup {None}]
      /\ signalled' \in [Equities -> SUBSET OneShot]
      /\ given' \in [Equities -> SUBSET Givens]
  BY <1>1, FreshIs
<1>6. up' \in BOOLEAN
  BY <1>1
<1>7. TypeInv'
  BY <1>1, <1>2, <1>3, <1>4, <1>5, <1>6 DEF TypeInv
<1>8. \A i \in Instruments : kept'[i] = {}
  BY <1>1
<1>9. QueueInv' /\ KeptInv'
  BY <1>3, <1>8 DEF QueueInv, KeptInv, CarriesOwn
<1>10. DownInv' /\ BiasInv' /\ GivenInv'
  BY <1>1 DEF DownInv, BiasInv, GivenInv
<1>11. BuildersInv'
  BY <1>1, FreshOK DEF BuildersInv
<1> QED
  BY <1>7, <1>9, <1>10, <1>11 DEF IInv

LEMMA IInvNext == IInv /\ [Next]_vars => IInv'
<1> SUFFICES ASSUME IInv, [Next]_vars
             PROVE  IInv'
  OBVIOUS
<1>1. CASE Minute
  BY <1>1, MinuteKeeps
<1>2. CASE \E i \in Instruments : Trade(i) \/ Replay(i)
  BY <1>2, TradeKeeps, ReplayKeeps
<1>3. CASE \E seed \in [Equities -> UNION {Seeds(e) : e \in Equities}] : Boot(seed)
  <2>1. PICK seed \in [Equities -> UNION {Seeds(e) : e \in Equities}] : Boot(seed)
    BY <1>3
  <2> QED
    BY <2>1, BootKeeps
<1>4. CASE Die
  BY <1>4, DieKeeps
<1>5. CASE HandleTick
  BY <1>5, HandleKeeps
<1>6. CASE UNCHANGED vars
  <2>1. /\ clock' = clock /\ up' = up /\ ticks' = ticks /\ last' = last /\ kept' = kept
        /\ builder' = builder /\ sessionDay' = sessionDay /\ bias' = bias
        /\ signalled' = signalled /\ given' = given
    BY <1>6 DEF vars, session
  <2>2. TypeInv' /\ DownInv' /\ QueueInv' /\ BiasInv' /\ GivenInv'
    BY <2>1 DEF IInv, TypeInv, DownInv, QueueInv, BiasInv, GivenInv
  <2>3. \A i \in Instruments : Low(i)' = Low(i)
    BY <2>1 DEF Low
  <2>4. BuildersInv'
    BY <2>1, <2>3 DEF IInv, BuildersInv
  <2>5. \A i, n : QueuedTo(i, n)' = QueuedTo(i, n)
    BY <2>1 DEF QueuedTo
  <2>6. KeptInv'
    BY <2>1, <2>3, <2>5 DEF IInv, KeptInv, InHand, Today
  <2> QED
    BY <2>2, <2>4, <2>6 DEF IInv
<1> QED
  BY <1>1, <1>2, <1>3, <1>4, <1>5, <1>6 DEF Next

LEMMA IInvHolds == Spec => []IInv
BY InitOK, IInvNext, PTL DEF Spec

-----------------------------------------------------------------------------
(* What follows.                                                           *)

\* The time of day of a builder is that of a tick in the session.
TodInv == \A i \in Instruments : builder[i].tod \in {None} \cup (Open .. Close - 1)

\* A builder changes in a tick, or becomes a fresh or a seeded one.
LEMMA TodNext ==
  ASSUME IInv, TodInv, [Next]_vars
  PROVE  TodInv'
<1>1. CASE builder' = builder
  BY <1>1 DEF TodInv
<1>2. ASSUME NEW seed, Boot(seed)
      PROVE  TodInv'
  <2>1. builder' = [i \in Instruments |->
           IF i \in Equities
             THEN [FreshBuilder EXCEPT !.history = seed[i], !.first = (seed[i] = <<>>)]
             ELSE FreshBuilder]
    BY <1>2 DEF Boot
  <2>2. \A i \in Instruments : builder'[i].tod = None
    BY <2>1 DEF FreshBuilder
  <2> QED
    BY <2>2 DEF TodInv
<1>3. CASE Die
  BY <1>3 DEF Die, TodInv, FreshBuilder
<1>4. CASE HandleTick
  <2>1. PICK tick \in ToSet(ticks) : Handled(tick)
    BY <1>4, AllHandled DEF HandleTick
  <2>2. ASSUME NEW i \in Instruments
        PROVE  builder'[i].tod \in {None} \cup (Open .. Close - 1)
    <3>1. builder[i].tod \in {None} \cup (Open .. Close - 1)
      BY DEF TodInv
    <3>2. CASE builder'[i] = FreshBuilder
      BY <3>2 DEF FreshBuilder
    <3>3. CASE builder'[i] = builder[i]
      BY <3>1, <3>3
    <3>4. CASE InSession(tick.at) /\ builder'[i] = AfterTick(builder[i], tick)
      <4>0. tick \in TickType /\ builder[i] \in BuilderType
        BY <2>1, QueueTail DEF Handled, IInv, TypeInv
      <4>1. builder'[i].tod = TimeOfDay(tick.at)
        BY <3>4, <4>0, AfterTickIs
      <4>2. tick.at \in Nat
        BY <4>0 DEF TickType
      <4> QED
        BY <3>4, <4>1, <4>2, SessionBoundary
    <3> QED
      BY <2>1, <3>2, <3>3, <3>4, HandledIs
  <2> QED
    BY <2>2 DEF TodInv
<1>5. Minute => builder' = builder
  BY DEF Minute, session
<1>6. ASSUME NEW i \in Instruments, Trade(i) \/ Replay(i)
      PROVE  builder' = builder
  BY <1>6 DEF Trade, Replay, session
<1>7. UNCHANGED vars => builder' = builder
  BY DEF vars, session
<1> QED
  BY <1>1, <1>2, <1>3, <1>4, <1>5, <1>6, <1>7 DEF Next

LEMMA TodHolds == Spec => []TodInv
<1>1. Init => TodInv
  BY DEF Init, TodInv, FreshBuilder
<1>2. IInv /\ TodInv /\ [Next]_vars => TodInv'
  BY TodNext
<1> QED
  BY <1>1, <1>2, IInvHolds, PTL DEF Spec

LEMMA IInvType == IInv /\ TodInv => TypeOK
<1> SUFFICES ASSUME IInv, TodInv
             PROVE  TypeOK
  OBVIOUS
<1>1. clock \in Nat /\ last \in [Instruments -> Nat \cup {None}]
  BY DEF IInv, TypeInv
<1>2. ASSUME NEW k \in DOMAIN ticks
      PROVE  ticks[k].in \in Instruments /\ ticks[k].at \in 0 .. clock
  <2>1. k \in 1 .. Len(ticks) /\ ticks[k] \in TickType
    BY DEF IInv, TypeInv
  <2>2. ticks[k].in \in Instruments /\ ticks[k].at \in Nat
    BY <2>1 DEF TickType
  <2>3. ticks[k].at <= last[ticks[k].in]
    BY <2>1 DEF IInv, QueueInv
  <2>4. last[ticks[k].in] <= clock /\ last[ticks[k].in] \in Nat \cup {None}
    BY <2>2, <1>1 DEF IInv, TypeInv
  <2> QED
    BY <1>1, <2>2, <2>3, <2>4 DEF None
<1>3. ASSUME NEW i \in Instruments
      PROVE  last[i] \in {None} \cup 0 .. clock /\ kept[i] \subseteq 0 .. clock
  <2>1. last[i] \in Nat \cup {None} /\ last[i] <= clock /\ kept[i] \subseteq Nat
    BY <1>1 DEF IInv, TypeInv
  <2>2. \A t \in kept[i] : t <= last[i]
    BY DEF IInv, QueueInv, CarriesOwn
  <2> QED
    BY <1>1, <2>1, <2>2 DEF None
<1>4. ASSUME NEW i \in Instruments
      PROVE  /\ builder[i].current \in Candles
             /\ builder[i].first \in BOOLEAN
             /\ builder[i].tod \in {None} \cup (Open .. Close - 1)
             /\ Len(builder[i].history) <= HistoryMax
             /\ \A k \in DOMAIN builder[i].history :
                  /\ builder[i].history[k] \in Candles
                  /\ builder[i].history[k] # NoCandle
  <2>1. builder[i] \in BuilderType
    BY DEF IInv, TypeInv
  <2>2. builder[i].current \in Candles /\ builder[i].first \in BOOLEAN
        /\ builder[i].history \in Seq(Candles)
    BY <2>1, BuilderIs
  <2>3. HistoryOK(builder[i], sessionDay)
    BY DEF IInv, BuildersInv, BuilderOK
  <2> QED
    BY <2>2, <2>3 DEF TodInv, HistoryOK
<1>5. ASSUME NEW f \in Futures
      PROVE  bias[f] \in {None} \cup 0 .. Day(clock)
  <2>1. /\ bias[f] \in {None, sessionDay} /\ sessionDay \in Nat
        /\ sessionDay <= Day(clock)
    BY DEF IInv, TypeInv, BiasInv
  <2>2. Day(clock) \in Nat
    BY <1>1, DayAndTime
  <2> QED
    BY <2>1, <2>2
<1>6. bias \in [Futures -> {None} \cup 0 .. Day(clock)]
  BY <1>5 DEF IInv, TypeInv
<1>7. /\ clock \in 0 .. MaxClock /\ up \in BOOLEAN /\ Len(ticks) <= QueueMax
      /\ sessionDay \in Nat
      /\ signalled \in [Equities -> SUBSET OneShot] /\ given \in [Equities -> SUBSET Givens]
  BY DEF IInv, TypeInv
<1> QED
  BY <1>2, <1>3, <1>4, <1>6, <1>7 DEF TypeOK

(***************************************************************************)
(* Clock, queue, builders and the memory of the engines stay what they are *)
(* declared to be; queue and history keep their bounds.                    *)
(***************************************************************************)
THEOREM TypeCorrect == Spec => []TypeOK
BY IInvHolds, TodHolds, IInvType, PTL

(***************************************************************************)
(* In whatever order ticks, full queues, replays, nights, resets and       *)
(* crashes come, a candle built from ticks of its own day that             *)
(* CandleBuilder has put in the history has every trade that the feed      *)
(* delivered and drain_queue did not drop, and no trade of another candle. *)
(***************************************************************************)
THEOREM CandlesAreComplete == Spec => []CandleComplete
<1>1. IInv => CandleComplete
  <2> SUFFICES ASSUME IInv, NEW i \in Instruments, NEW k \in DOMAIN builder[i].history,
                      NEW c, c = builder[i].history[k], Live(c), ~Misdated(c)
               PROVE  c.kept \subseteq c.trades /\ \A t \in c.trades : Boundary(t) = c.bnd
    BY DEF CandleComplete
  <2>1. builder[i].history \in Seq(Candles)
    BY BuilderIs DEF IInv, TypeInv
  <2>2. c \in Candles /\ k \in 1 .. Len(builder[i].history)
    BY <2>1
  <2>3. OfItsMinutes(c) /\ Whole(c)
    BY <2>2 DEF IInv, BuildersInv, BuilderOK, HistoryOK
  <2>4. ASSUME NEW t \in c.trades
        PROVE  Boundary(t) = c.bnd
    <3>1. t \in Nat /\ Day(t) = Day(c.bnd)
      BY <2>2, CandleIs DEF Misdated
    <3> QED
      BY <2>3, <3>1, OwnMinutes
  <2> QED
    BY <2>3, <2>4 DEF Whole
<1> QED
  BY <1>1, IInvHolds, PTL

(***************************************************************************)
(* The history of every builder is newest last, replayed trades of another *)
(* day apart, and _check_session_reset leaves no candle and no index bias  *)
(* of the day before.                                                      *)
(***************************************************************************)
THEOREM HistoryIsOfTheSession == Spec => []HistoryOfTheSession
<1>1. IInv => NewestLast
  BY DEF IInv, BuildersInv, BuilderOK, HistoryOK, NewestLast, Before
<1>2. IInv => NothingOfYesterday
  <2> SUFFICES ASSUME IInv
               PROVE  NothingOfYesterday
    OBVIOUS
  <2>1. ASSUME NEW i \in Instruments
        PROVE  /\ builder[i].current # NoCandle => Day(builder[i].current.bnd) = sessionDay
               /\ \A k \in DOMAIN builder[i].history :
                    Live(builder[i].history[k]) => Day(builder[i].history[k].bnd) = sessionDay
    <3>1. builder[i].history \in Seq(Candles)
      BY BuilderIs DEF IInv, TypeInv
    <3>2. BuilderOK(builder[i], sessionDay, Low(i))
      BY DEF IInv, BuildersInv
    <3> QED
      BY <3>1, <3>2 DEF BuilderOK, CurrentOK, HistoryOK
  <2> QED
    BY <2>1 DEF IInv, BiasInv, NothingOfYesterday
<1> QED
  BY <1>1, <1>2, IInvHolds, PTL DEF HistoryOfTheSession

(***************************************************************************)
(* evaluate_breakouts gives each Camarilla signal that has a flag (H4, L4)  *)
(* once a day and equity: of two on one day at least one was for a candle   *)
(* of an earlier day.                                                       *)
(***************************************************************************)
THEOREM BreakoutOncePerDay == Spec => []CamOncePerDay
<1>1. IInv => CamOncePerDay
  BY DEF IInv, GivenInv, Own, CamOncePerDay
<1> QED
  BY <1>1, IInvHolds, PTL

=============================================================================
