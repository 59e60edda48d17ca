----------------------------- MODULE SignalStream ---------------------------
(***************************************************************************)
(* A signal's way to the screen: SignalPublisher.publish and               *)
(* recent_signals in Redis, one session of WS /signals/ws, and the         *)
(* useSignals hook of the cockpit with its socket, pause buffer and rows.  *)
(*                                                                         *)
(* A signal is named by its place in the daily list, which stands for its  *)
(* timestamp too, and has a key, symbol:type.  What is on the way from     *)
(* Redis to the browser is one sequence: pub/sub buffer, asyncio queue and *)
(* socket are first in, first out, and a lost connection loses them all.   *)
(***************************************************************************)
EXTENDS Naturals, Sequences, SequencesExt, FiniteSetsExt

CONSTANTS
  Keys,        \* symbol:signal_type
  CatchupMax,  \* CATCHUP_MAX
  MaxSignals,  \* MAX_SIGNALS
  MaxPublished, \* bound: signals of the day
  MaxPending    \* bound: pending messages with which the browser reconnects

ASSUME StreamAssumption ==
  /\ CatchupMax \in Nat \ {0} /\ MaxSignals \in Nat \ {0} /\ MaxPublished \in Nat /\ MaxPending \in Nat

VARIABLES
  daily,    \* signals:daily, in the order of the publications: their keys
  session,  \* "down", "subscribed", or "open" once the history has been read
  reader,   \* the session's _redis_reader task is alive
  stream,   \* messages sent to the browser, not yet handled there
  paused,   \* the user has paused the feed
  pending,  \* pendingRef: messages that came while it was paused
  rows,     \* signals: the rows on the screen, newest first
  got,      \* signals the browser has been given (history variable)
  cut,      \* signals too old for the last replay (history variable)
  cleared   \* signals published when the user last cleared (history variable)

serverVars  == <<session, reader, stream, cut>>
browserVars == <<paused, pending, rows, got, cleared>>
vars        == <<daily, serverVars, browserVars>>

Published == 1 .. MaxPublished

Message == [n : Published, catchup : BOOLEAN]

\* from: _fromCatchup, "new" while it is undefined.
Row == [key : Keys, n : Published, count : Nat \ {0}, from : {"catchup", "live", "new"}]

TypeOK ==
  /\ daily \in Seq(Keys) /\ Len(daily) <= MaxPublished
  /\ session \in {"down", "subscribed", "open"}
  /\ reader \in BOOLEAN /\ paused \in BOOLEAN
  /\ stream \in Seq(Message) /\ pending \in Seq(Message)
  /\ rows \in Seq(Row) /\ Len(rows) <= MaxSignals
  /\ \A i, j \in DOMAIN rows : rows[i].key = rows[j].key => i = j
  /\ got \in SUBSET Published
  /\ cut \in 0 .. MaxPublished /\ cleared \in 0 .. MaxPublished

Init ==
  /\ daily = <<>>
  /\ session = "down" /\ reader = FALSE /\ stream = <<>>
  /\ paused = FALSE /\ pending = <<>> /\ rows = <<>>
  /\ got = {} /\ cut = 0 /\ cleared = 0

-----------------------------------------------------------------------------
(* LiveFeedService.                                                        *)

Live(n) == [n |-> n, catchup |-> FALSE]

\* Mutant: the session listens to another channel.
HearsNothing == FALSE

Hears == session # "down" /\ reader

\* publish: list and channel in one Redis transaction.  The channel keeps
\* nothing for those who do not listen.
Publish(k) ==
  /\ Len(daily) < MaxPublished
  /\ daily' = Append(daily, k)
  /\ stream' = IF Hears THEN Append(stream, Live(Len(daily) + 1)) ELSE stream
  /\ UNCHANGED <<session, reader, cut, browserVars>>

\* connect() in the browser, accept and subscribe in ws_session.
Subscribe ==
  /\ session = "down"
  /\ Len(pending) <= MaxPending
  /\ session' = "subscribed"
  /\ reader' = TRUE
  /\ UNCHANGED <<daily, stream, cut, browserVars>>

\* Mutant: the oldest signals of the day are replayed.
OldestSignals ==
  [i \in 1 .. (IF Len(daily) > CatchupMax THEN CatchupMax ELSE Len(daily)) |->
     [n |-> i, catchup |-> TRUE]]

TooOld == IF Len(daily) > CatchupMax THEN Len(daily) - CatchupMax ELSE 0

\* recent_signals: the newest CatchupMax of them, oldest first.
RecentSignals ==
  [i \in 1 .. Len(daily) - TooOld |-> [n |-> TooOld + i, catchup |-> TRUE]]

\* The replay goes out before what the reader has queued since it subscribed.
ReadRecent ==
  /\ session = "subscribed"
  /\ session' = "open"
  /\ stream' = RecentSignals \o stream
  /\ cut' = TooOld
  /\ UNCHANGED <<daily, reader, browserVars>>

\* pubsub.listen() raises: it is logged, the socket stays open.  What the
\* reader had not queued is lost.
ReaderDies(kept) ==
  /\ session # "down" /\ reader
  /\ kept \in 0 .. Len(stream)
  /\ \A i \in kept + 1 .. Len(stream) : ~stream[i].catchup
  /\ reader' = FALSE
  /\ stream' = SubSeq(stream, 1, kept)
  /\ UNCHANGED <<daily, session, cut, browserVars>>

\* Either side closes, the network fails, or the history cannot be read.
HangUp == session' = "down" /\ reader' = FALSE /\ stream' = <<>> /\ UNCHANGED cut

Drop ==
  /\ session # "down"
  /\ HangUp
  /\ UNCHANGED <<daily, browserVars>>

-----------------------------------------------------------------------------
(* useSignals.                                                             *)

\* A live signal for a row: the first one after a replay was in the replay or
\* is not told apart from one that was.
CountLive(row) == IF row.from = "catchup" THEN row.count ELSE row.count + 1

\* The row a message makes of the one with its key.
Updated(row, msg) ==
  IF msg.catchup THEN [row EXCEPT !.n = msg.n]
  ELSE [row EXCEPT !.n = msg.n, !.count = CountLive(row), !.from = "live"]

Fresh(msg) ==
  [key |-> daily[msg.n], n |-> msg.n, count |-> 1,
   from |-> IF msg.catchup THEN "catchup" ELSE "new"]

SameKey(row, msg) == row.key = daily[msg.n]

\* Mutant: a row stays where it is when it is updated.
PutInPlace(list, msg) ==
  IF \E i \in DOMAIN list : SameKey(list[i], msg)
    THEN [i \in DOMAIN list |->
            IF SameKey(list[i], msg) THEN Updated(list[i], msg) ELSE list[i]]
    ELSE <<Fresh(msg)>> \o list

\* The row of the message's key, or a new one, comes to the front.
Put(list, msg) ==
  LET same == {i \in DOMAIN list : SameKey(list[i], msg)} IN
  IF same = {} THEN <<Fresh(msg)>> \o list
  ELSE <<Updated(list[Min(same)], msg)>> \o RemoveAt(list, Min(same))

\* The last row goes when there are too many.
Pop(list) == IF Len(list) > MaxSignals THEN Front(list) ELSE list

\* pushSignal
Push(list, msg) == Pop(Put(list, msg))

\* onmessage
Receive ==
  /\ session = "open" /\ stream # <<>>
  /\ LET msg == Head(stream)
     IN  /\ got' = got \cup {msg.n}
         /\ IF paused
              THEN pending' = Append(pending, msg) /\ UNCHANGED rows
              ELSE rows' = Push(rows, msg) /\ UNCHANGED pending
  /\ stream' = Tail(stream)
  /\ UNCHANGED <<daily, session, reader, cut, paused, cleared>>

Pause ==
  /\ ~paused
  /\ paused' = TRUE
  /\ UNCHANGED <<daily, serverVars, pending, rows, got, cleared>>

\* The rows after so many of the pending signals.
Flushed[i \in 0 .. Len(pending)] == IF i = 0 THEN rows ELSE Push(Flushed[i - 1], pending[i])

\* togglePause flushes the buffer in order.
Resume ==
  /\ paused
  /\ paused' = FALSE
  /\ rows' = Flushed[Len(pending)]
  /\ pending' = <<>>
  /\ UNCHANGED <<daily, serverVars, got, cleared>>

\* clearSignals; without rows and buffer it changes nothing.
Clear ==
  /\ rows # <<>> \/ pending # <<>>
  /\ rows' = <<>> /\ pending' = <<>>
  /\ cleared' = Len(daily)
  /\ UNCHANGED <<daily, serverVars, paused, got>>

\* The page is loaded again: restoreSignals reads the rows from the session's
\* storage, and the buffer is lost.
Reload ==
  /\ HangUp
  /\ rows' = [i \in DOMAIN rows |->
       IF rows[i].from = "new" THEN [rows[i] EXCEPT !.from = "catchup"] ELSE rows[i]]
  /\ pending' = <<>> /\ paused' = FALSE
  /\ got' = got \ {pending[i].n : i \in DOMAIN pending}
  /\ UNCHANGED <<daily, cleared>>

Next ==
  \/ \E k \in Keys : Publish(k)
  \/ Subscribe \/ ReadRecent \/ Drop \/ Receive
  \/ \E kept \in 0 .. Len(stream) : ReaderDies(kept)
  \/ Pause \/ Resume \/ Clear \/ Reload

\* The browser retries after 3 s, the session's tasks run, messages arrive.
Fairness == WF_vars(Subscribe) /\ WF_vars(ReadRecent) /\ WF_vars(Receive)

Spec == Init /\ [][Next]_vars /\ Fairness

-----------------------------------------------------------------------------
(* Properties.                                                             *)

\* The browser has handled all that the session has for it.
Settled == session = "open" /\ reader /\ stream = <<>>

\* "Replay history then stream live signals", without a hole between the two:
\* a signal is missed only when it was too old for the replay.
NothingMissed ==
  Settled => \A n \in 1 .. Len(daily) : n > cut => n \in got

Newest(k) == Max({n \in 1 .. Len(daily) : daily[n] = k})

\* Every key whose newest signal is not too old and not cleared has a row with
\* that signal, unless the list is full of newer ones.
RowsCurrent ==
  \A k \in ToSet(daily) :
    Newest(k) > cut /\ Newest(k) > cleared =>
      \/ \E i \in DOMAIN rows : rows[i].key = k /\ rows[i].n = Newest(k)
      \/ Len(rows) = MaxSignals /\ \A i \in DOMAIN rows : rows[i].n > Newest(k)

\* A replay moves old signals to the front on its way: those too old for the last
\* one may stand as one that broke off has left them.
NewestFirst == \A i, j \in DOMAIN rows : i < j /\ rows[j].n > cut => rows[i].n > rows[j].n

\* _count, the occurrences of a row: the replay and the stream give a signal
\* twice.
NotCountedTwice ==
  \A i \in DOMAIN rows :
    rows[i].count <= Cardinality({n \in 1 .. Len(daily) : daily[n] = rows[i].key})

\* Replays, duplicates, pauses, reloads and reconnects come to the same screen:
\* the newest signal of every key, the newest first, none counted twice.
SameScreen ==
  /\ Settled /\ pending = <<>> => RowsCurrent /\ NewestFirst
  /\ NotCountedTwice

\* Over a connection that stays up, with a reader that lives, every signal
\* arrives that is not too old.
EverySignalArrives ==
  <>[](session # "down" /\ reader) =>
    \A n \in Published : Len(daily) >= n ~> (n \in got \/ n <= cut)
=============================================================================
