---------------------------- MODULE CandlePipeline --------------------------
(***************************************************************************)
(* From tick to signal in LiveFeedService: the tick queue, FeedService.    *)
(* _main_loop, TickRouter, CandleBuilder, the session reset, and what      *)
(* SignalEngine remembers of the signals it gave.                          *)
(*                                                                         *)
(* Time is counted in minutes, DayLen to the day; a trade is named by the  *)
(* minute it was made in.  Which levels a candle breaks is data: a free    *)
(* choice.  The main loop is one coroutine, so a tick is one action.       *)
(***************************************************************************)
EXTENDS Integers, Sequences, SequencesExt

CONSTANTS
  Equities, Futures,  \* the instruments of the feed
  OneShot,            \* the Camarilla signals with a flag: H4 breakout, L4
                      \* breakdown, H4 reversal, L4 reversal
  Repeated,           \* those without: H3 reversal, L3 reversal
  DayLen,             \* minutes of a day
  Open, Close,        \* the session is the minutes Open .. Close - 1
  CandleMin,          \* candle_minutes
  HistoryMax,         \* history_size of a builder
  QueueMax,           \* maxsize of the tick queue
  MaxClock            \* bound: the last minute of the model

ASSUME CandleAssumption ==
  /\ DayLen \in Nat \ {0} /\ CandleMin \in Nat \ {0}
  /\ Open \in 0 .. DayLen /\ Close \in Open .. DayLen
  /\ HistoryMax \in Nat \ {0} /\ QueueMax \in Nat \ {0} /\ MaxClock \in Nat
  /\ Equities \cap Futures = {}
  /\ OneShot \cap Repeated = {}

Instruments == Equities \cup Futures

None == -1

VARIABLES
  clock,       \* the minute in progress
  up,          \* _main_loop is running
  ticks,       \* tick_queue
  last,        \* last[i]: the minute of i's last trade, None before the first
  kept,        \* kept[i]: trades of the candle of last[i] that the feed
               \*          delivered and did not drop (history variable)
  builder,     \* builder[i]: the CandleBuilder of i
  sessionDay,  \* _session_date
  bias,        \* bias[f]: the day of the candle that set f's index bias
  signalled,   \* signalled[e]: the flags that are set in e's _SessionState
  given        \* given[e]: the signals published since the start, with their
               \*           candle and the day of it (history variable)

session == <<builder, sessionDay, bias, signalled, given>>
vars    == <<clock, up, ticks, last, kept, session>>

-----------------------------------------------------------------------------
(* Minutes, candles, builders.                                             *)

Day(t) == t \div DayLen

TimeOfDay(t) == t % DayLen

\* is_market_open
InSession(t) == Open <= TimeOfDay(t) /\ TimeOfDay(t) < Close

\* _boundary: the first minute of the candle that minute t belongs to.
Boundary(t) == t - ((TimeOfDay(t) - Open) % CandleMin)

\* _parse_ltt: Dhan sends the time of a trade without its date, today's is
\* taken.
Stamp(at) == DayLen * Day(clock) + TimeOfDay(at)

\* trades: what was added up; kept: what should have been (see CandleComplete).
Candle(b, trades, made) == [bnd |-> b, trades |-> trades, kept |-> made]

NoCandle == Candle(None, {}, {})

\* A candle read back from the database has no trades.
Stored(b) == Candle(b, {}, {})

FreshBuilder == [current |-> NoCandle, first |-> TRUE, history |-> <<>>, tod |-> None]

Add(c, tick) == [c EXCEPT !.trades = @ \cup {tick.at}, !.kept = tick.kept]

NewCandle(tick) == Candle(Boundary(Stamp(tick.at)), {tick.at}, tick.kept)

\* deque(maxlen)
Push(h, c) == LET g == Append(h, c) IN IF Len(g) > HistoryMax THEN Tail(g) ELSE g

\* Mutant: the boundary is not compared.
SameMinute(b, tick) == b.current # NoCandle /\ TimeOfDay(tick.at) = b.tod

\* The same minute of the day as the tick before, or the same candle.
SameCandle(b, tick) ==
  /\ b.current # NoCandle
  /\ \/ TimeOfDay(tick.at) = b.tod
     \/ Boundary(Stamp(tick.at)) = b.current.bnd

\* on_tick returns the candle that the tick ends, but not the first one.
Completes(b, tick) == b.current # NoCandle /\ ~SameCandle(b, tick) /\ ~b.first

\* Mutant: the first candle after a reset counts as a whole one.
NeverFirst(b) == FALSE

\* A builder without history starts with a candle it will discard.
StartsFirst(b) == b.history = <<>>

\* CandleBuilder.on_tick
AfterTick(b, tick) ==
  LET c == NewCandle(tick)
      t == TimeOfDay(tick.at)
  IN  IF b.current = NoCandle
        THEN [b EXCEPT !.current = c, !.first = StartsFirst(b), !.tod = t]
      ELSE IF SameCandle(b, tick)
        THEN [b EXCEPT !.current = Add(@, tick), !.tod = t]
      ELSE [b EXCEPT !.current = c, !.first = FALSE, !.tod = t,
              !.history = IF b.first THEN @ ELSE Push(@, b.current)]

Candles == [bnd : Nat \cup {None}, trades : SUBSET Nat, kept : SUBSET Nat]

Givens == [kind : OneShot \cup Repeated, bnd : Nat, day : Nat]

TypeOK ==
  /\ clock \in 0 .. MaxClock /\ up \in BOOLEAN
  /\ \A k \in DOMAIN ticks : ticks[k].in \in Instruments /\ ticks[k].at \in 0 .. clock
  /\ Len(ticks) <= QueueMax
  /\ \A i \in Instruments :
       /\ last[i] \in {None} \cup 0 .. clock
       /\ kept[i] \subseteq 0 .. clock
       /\ builder[i].current \in Candles
       /\ builder[i].first \in BOOLEAN
       /\ builder[i].tod \in {None} \cup (Open .. Close - 1)
       /\ Len(builder[i].history) <= HistoryMax
       /\ \A k \in DOMAIN builder[i].history :
            /\ builder[i].history[k] \in Candles
            /\ builder[i].history[k] # NoCandle
  /\ sessionDay \in Nat
  /\ bias \in [Futures -> {None} \cup 0 .. Day(clock)]
  /\ signalled \in [Equities -> SUBSET OneShot]
  /\ given \in [Equities -> SUBSET Givens]

Init ==
  /\ clock = 0 /\ up = FALSE
  /\ ticks = <<>>
  /\ last = [i \in Instruments |-> None]
  /\ kept = [i \in Instruments |-> {}]
  /\ builder = [i \in Instruments |-> FreshBuilder]
  /\ sessionDay = 0
  /\ bias = [f \in Futures |-> None]
  /\ signalled = [e \in Equities |-> {}]
  /\ given = [e \in Equities |-> {}]

-----------------------------------------------------------------------------
(* The exchange, the feed, the process.                                    *)

\* The queue is never longer over night than it takes to drain it.
Minute ==
  /\ clock < MaxClock
  /\ Day(clock + 1) # Day(clock) => ticks = <<>>
  /\ clock' = clock + 1
  /\ UNCHANGED <<last, kept, up, ticks, session>>

\* drain_queue: a full queue loses its oldest tick.
Forget(tick, lost) ==
  IF tick.in = lost.in THEN [tick EXCEPT !.kept = @ \ {lost.at}] ELSE tick

Enqueue(i, at, made) ==
  LET tick == [in |-> i, at |-> at, kept |-> made]
      q    == Append(ticks, tick)
  IN  IF Len(ticks) < QueueMax
        THEN ticks' = q /\ kept' = [kept EXCEPT ![i] = made]
        ELSE LET lost == Head(ticks)
             IN  /\ ticks' = [k \in 1 .. QueueMax |-> Forget(q[k + 1], lost)]
                 /\ kept' = [j \in Instruments |->
                      (IF j = i THEN made ELSE kept[j])
                        \ (IF j = lost.in THEN {lost.at} ELSE {})]

\* A trade is made, and delivered when the feed is up.
Trade(i) ==
  /\ last[i] # clock
  /\ last' = [last EXCEPT ![i] = clock]
  /\ LET made == {t \in kept[i] : Boundary(t) = Boundary(clock)} \cup {clock}
     IN  IF up THEN Enqueue(i, clock, made)
         ELSE kept' = [kept EXCEPT ![i] = {}] /\ UNCHANGED ticks
  /\ UNCHANGED <<clock, up, session>>

\* A connection is opened again: the feed begins with the last trade of an
\* instrument, of whatever day it is.
Replay(i) ==
  /\ up /\ last[i] # None
  /\ Enqueue(i, last[i], kept[i] \cup {last[i]})
  /\ UNCHANGED <<clock, last, up, session>>

\* What price_data_1min yields for an equity: nothing, or history that ends
\* with a candle of a minute it traded in, perhaps the one in progress.  Only
\* the end matters here.
Seeds(e) == {<<>>} \cup
  {<<Stored(Boundary(t))>> : t \in {u \in 0 .. last[e] : InSession(u)}}

\* _initialise: cold builders for the futures, seeded ones for the equities.
Boot(seed) ==
  /\ ~up
  /\ \A e \in Equities : seed[e] \in Seeds(e)
  /\ up' = TRUE
  /\ sessionDay' = Day(clock)
  /\ builder' = [i \in Instruments |->
       IF i \in Equities
         THEN [FreshBuilder EXCEPT !.history = seed[i], !.first = (seed[i] = <<>>)]
         ELSE FreshBuilder]
  /\ UNCHANGED <<clock, ticks, last, kept, bias, signalled, given>>

\* The process stops, or an exception ends _main_loop; all memory is lost.
Die ==
  /\ up
  /\ up' = FALSE
  /\ ticks' = <<>>
  /\ kept' = [i \in Instruments |-> {}]
  /\ builder' = [i \in Instruments |-> FreshBuilder]
  /\ sessionDay' = 0
  /\ bias' = [f \in Futures |-> None]
  /\ signalled' = [e \in Equities |-> {}]
  /\ given' = [e \in Equities |-> {}]
  /\ UNCHANGED <<clock, last>>

-----------------------------------------------------------------------------
(* _main_loop.                                                             *)

\* CandleBuilder.reset
Reset(b) == FreshBuilder

\* Mutant: the one-shot flags are not looked at.
AlwaysGives(e, hits) == hits

\* evaluate_breakouts: of what detect_camarilla finds in a candle, the signals
\* whose flag is not set yet and those that have no flag.
Gives(e, hits) == hits \ signalled[e]

\* _check_session_reset, which ends the handling of every tick: on a new day
\* it throws away what the handling has made of builders, bias and flags.
NewDay == Day(clock) # sessionDay

Settle(builders, biases, flags) ==
  /\ sessionDay' = Day(clock)
  /\ builder' = IF NewDay THEN [i \in Instruments |-> Reset(builders[i])] ELSE builders
  /\ bias' = IF NewDay THEN [f \in Futures |-> None] ELSE biases
  /\ signalled' = IF NewDay THEN [e \in Equities |-> {}] ELSE flags

Take(tick) ==
  /\ up /\ ticks # <<>>
  /\ tick = Head(ticks)
  /\ ticks' = Tail(ticks)
  /\ UNCHANGED <<clock, up, last, kept>>

\* The market is closed at the time of the tick: no builder gets it.
TickOutside(tick) ==
  /\ Take(tick)
  /\ ~InSession(tick.at)
  /\ Settle(builder, bias, signalled)
  /\ UNCHANGED given

TickInside(tick) ==
  /\ Take(tick)
  /\ InSession(tick.at)
  /\ ~Completes(builder[tick.in], tick)
  /\ Settle([builder EXCEPT ![tick.in] = AfterTick(@, tick)], bias, signalled)
  /\ UNCHANGED given

\* The tick ends a candle of an index future: its direction is the bias.
FutureCandle(tick) ==
  /\ tick.in \in Futures
  /\ Take(tick)
  /\ InSession(tick.at) /\ Completes(builder[tick.in], tick)
  /\ Settle([builder EXCEPT ![tick.in] = AfterTick(@, tick)],
            [bias EXCEPT ![tick.in] = Day(builder[tick.in].current.bnd)],
            signalled)
  /\ UNCHANGED given

\* The tick ends a candle of an equity: the signals its engine gives are
\* published.
EquityCandle(tick, hits) ==
  /\ tick.in \in Equities
  /\ Take(tick)
  /\ InSession(tick.at) /\ Completes(builder[tick.in], tick)
  /\ LET e == tick.in
         b == builder[e].current.bnd
     IN  /\ Settle([builder EXCEPT ![e] = AfterTick(@, tick)], bias,
                   [signalled EXCEPT ![e] = @ \cup (Gives(e, hits) \cap OneShot)])
         /\ given' = [given EXCEPT ![e] = @ \cup
              {[kind |-> k, bnd |-> b, day |-> Day(clock)] : k \in Gives(e, hits)}]

HandleTick ==
  \E tick \in ToSet(ticks) :
    \/ TickOutside(tick)
    \/ TickInside(tick)
    \/ FutureCandle(tick)
    \/ \E hits \in SUBSET (OneShot \cup Repeated) : EquityCandle(tick, hits)

Next ==
  \/ Minute
  \/ \E i \in Instruments : Trade(i) \/ Replay(i)
  \/ \E seed \in [Equities -> UNION {Seeds(e) : e \in Equities}] : Boot(seed)
  \/ Die
  \/ HandleTick

Spec == Init /\ [][Next]_vars

-----------------------------------------------------------------------------
(* Properties.                                                             *)

\* Some trade in the candle is of another day than the candle.
Misdated(c) == \E t \in c.trades : Day(t) # Day(c.bnd)

Live(c) == c.trades # {}

\* Whatever order ticks, nights and resets come in: a candle built from ticks
\* that enters the history holds every trade of its minutes that the feed
\* delivered, and no other.  The half-seen candles, the first of a cold start
\* and the one the reset cuts in two, are those that are discarded.
CandleComplete ==
  \A i \in Instruments : \A k \in DOMAIN builder[i].history :
    LET c == builder[i].history[k]
    IN  Live(c) /\ ~Misdated(c) =>
          c.kept \subseteq c.trades /\ \A t \in c.trades : Boundary(t) = c.bnd

\* A replayed trade of an earlier day, which is dated today, gets in the way of
\* the order.
NewestLast ==
  \A i \in Instruments :
    LET h == builder[i].history
    IN  \A k \in 1 .. Len(h) - 1 :
          \/ h[k].bnd < h[k + 1].bnd
          \/ ~Live(h[k]) /\ h[k].bnd = h[k + 1].bnd
          \/ Misdated(h[k]) \/ Misdated(h[k + 1])

\* Not even what the tick that caused the reset had completed is left.
NothingOfYesterday ==
  up =>
    /\ \A i \in Instruments :
         LET b == builder[i]
         IN  /\ b.current # NoCandle => Day(b.current.bnd) = sessionDay
             /\ \A k \in DOMAIN b.history : Live(b.history[k]) => Day(b.history[k].bnd) = sessionDay
    /\ \A f \in Futures : bias[f] \in {None, sessionDay}

\* The history is "newest last", as mtf_bias.compute takes it, and after the
\* reset nothing of the day before is left in it.
HistoryOfTheSession == NewestLast /\ NothingOfYesterday

\* A signal that has a flag, at H4 or L4, is given once a day and symbol by a
\* running service; a second one is possible only because the first was for a
\* candle of the day before, which the first tick of the day had ended.  The
\* reversals at H3 and L3 are given for every candle that shows one.
CamOncePerDay ==
  \A e \in Equities : \A g, h \in given[e] :
    g.kind \in OneShot /\ g.kind = h.kind /\ g.day = h.day /\ g # h =>
      Day(g.bnd) # g.day \/ Day(h.bnd) # h.day
=============================================================================
