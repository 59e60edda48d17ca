------------------------- MODULE SignalStream_proofs ------------------------
(***************************************************************************)
(* No hole between the replay and the stream, and the same screen whatever *)
(* was replayed, paused, cleared, reloaded or lost on the way, for any     *)
(* number of signals, keys, rows and any length of the replay.             *)
(***************************************************************************)
EXTENDS SignalStream, SequenceTheorems, FiniteSetTheorems, TLAPS

\* A message, for any number of publications.
Sent == [n : Nat, catchup : BOOLEAN]

\* What the way to the browser holds; rows and buffer do not matter for it.
WayType ==
  /\ daily \in Seq(Keys)
  /\ session \in {"down", "subscribed", "open"}
  /\ reader \in BOOLEAN
  /\ stream \in Seq(Sent)

OnTheWay(n) == \E i \in DOMAIN stream : stream[i].n = n

\* Over an open session that is listened to, a signal that is not too old for
\* the replay has arrived or is on its way.
NoHole ==
  session = "open" /\ reader =>
    \A n \in 1 .. Len(daily) : n > cut => n \in got \/ OnTheWay(n)

IInv == WayType /\ NoHole

-----------------------------------------------------------------------------

\* TooOld and the length of the replay are natural numbers: recent_signals
\* never asks for a negative range.
LEMMA RecentIs ==
  ASSUME daily \in Seq(Keys)
  PROVE  /\ TooOld \in Nat /\ TooOld <= Len(daily)
         /\ RecentSignals \in Seq(Sent)
         /\ Len(RecentSignals) = Len(daily) - TooOld
         /\ \A i \in 1 .. Len(daily) - TooOld : RecentSignals[i].n = TooOld + i /\ RecentSignals[i].catchup
<1>1. Len(daily) \in Nat
  OBVIOUS
<1>2. TooOld \in Nat /\ TooOld <= Len(daily)
  BY <1>1, StreamAssumption DEF TooOld
<1> DEFINE m == Len(daily) - TooOld
<1>3. m \in Nat
  BY <1>1, <1>2
<1>4. RecentSignals = [i \in 1 .. m |-> [n |-> TooOld + i, catchup |-> TRUE]]
  BY DEF RecentSignals
<1> HIDE DEF m
<1>5. \A i \in 1 .. m : [n |-> TooOld + i, catchup |-> TRUE] \in Sent
  BY <1>2, <1>3 DEF Sent
<1>6. RecentSignals \in Seq(Sent) /\ Len(RecentSignals) = m
  BY <1>3, <1>4, <1>5
<1>7. \A i \in 1 .. m : RecentSignals[i].n = TooOld + i /\ RecentSignals[i].catchup
  BY <1>3, <1>4
<1> QED
  BY <1>2, <1>6, <1>7 DEF m

\* What was on the way still is when the way grows at its end.
LEMMA AppendKeeps ==
  ASSUME NEW S, NEW s \in Seq(S), NEW x
  PROVE  /\ \A i \in DOMAIN s : i \in DOMAIN Append(s, x) /\ Append(s, x)[i] = s[i]
         /\ Len(s) + 1 \in DOMAIN Append(s, x)
         /\ Append(s, x)[Len(s) + 1] = x
  OBVIOUS

\* A published signal is on the way to those who listen.
LEMMA PublishKeeps ==
  ASSUME IInv, NEW k \in Keys, Publish(k)
  PROVE  IInv'
<1> USE DEF IInv, WayType, NoHole, OnTheWay, Publish, browserVars
<1>0. Len(daily) \in Nat
  OBVIOUS
<1>1. daily' \in Seq(Keys) /\ Len(daily') = Len(daily) + 1
  OBVIOUS
<1>2. Live(Len(daily) + 1) \in Sent /\ Live(Len(daily) + 1).n = Len(daily) + 1
  BY <1>0 DEF Live, Sent
<1>3. WayType'
  BY <1>1, <1>2
<1>4. ASSUME session' = "open", reader', NEW n \in 1 .. Len(daily'), n > cut'
      PROVE  n \in got' \/ OnTheWay(n)'
  <2>1. stream' = Append(stream, Live(Len(daily) + 1))
    BY <1>4 DEF Hears
  <2>2. \A i \in DOMAIN stream : i \in DOMAIN stream' /\ stream'[i] = stream[i]
    BY <2>1, AppendKeeps
  <2>3. Len(stream) + 1 \in DOMAIN stream' /\ stream'[Len(stream) + 1] = Live(Len(daily) + 1)
    BY <2>1, AppendKeeps
  <2>4. CASE n = Len(daily) + 1
    BY <2>3, <2>4, <1>2
  <2>5. CASE n \in 1 .. Len(daily)
    BY <1>4, <2>5, <2>2
  <2> QED
    BY <2>4, <2>5, <1>0, <1>1
<1> QED
  BY <1>3, <1>4

\* The replay holds every signal that is not too old, whatever the reader has
\* queued since it subscribed.
LEMMA ReadRecentKeeps ==
  ASSUME IInv, ReadRecent
  PROVE  IInv'
<1> USE DEF IInv, WayType, NoHole, OnTheWay, ReadRecent, browserVars
<1>1. daily' = daily /\ stream' = RecentSignals \o stream /\ cut' = TooOld
  OBVIOUS
<1>2. WayType'
  BY <1>1, RecentIs
<1>3. ASSUME NEW n \in 1 .. Len(daily), n > TooOld
      PROVE  \E i \in DOMAIN stream' : stream'[i].n = n
  <2>1. n - TooOld \in 1 .. Len(daily) - TooOld
    BY <1>3, RecentIs
  <2>2. n - TooOld \in DOMAIN stream' /\ stream'[n - TooOld] = RecentSignals[n - TooOld]
    BY <1>1, <2>1, RecentIs
  <2>3. RecentSignals[n - TooOld].n = n
    BY <2>1, <1>3, RecentIs
  <2> QED
    BY <2>2, <2>3
<1> QED
  BY <1>1, <1>2, <1>3

\* The browser takes the messages one by one: the first has arrived, the others
\* are still on the way.
LEMMA ReceiveKeeps ==
  ASSUME IInv, Receive
  PROVE  IInv'
<1> USE DEF IInv, WayType, NoHole, OnTheWay, Receive
<1>1. /\ daily' = daily /\ session' = session /\ reader' = reader /\ cut' = cut
      /\ stream # <<>> /\ stream' = Tail(stream) /\ got' = got \cup {Head(stream).n}
  OBVIOUS
<1>2. WayType'
  BY <1>1
<1>3. ASSUME NEW i \in DOMAIN stream, i # 1
      PROVE  i - 1 \in DOMAIN stream' /\ stream'[i - 1] = stream[i]
  BY <1>1, <1>3
<1>4. Head(stream) = stream[1]
  OBVIOUS
<1>5. ASSUME session' = "open", reader', NEW n \in 1 .. Len(daily'), n > cut'
      PROVE  n \in got' \/ OnTheWay(n)'
  <2>1. CASE n \in got
    BY <1>1, <2>1
  <2>2. ASSUME NEW i \in DOMAIN stream, stream[i].n = n
        PROVE  n \in got' \/ OnTheWay(n)'
    BY <1>1, <1>3, <1>4, <2>2
  <2> QED
    BY <1>1, <1>5, <2>1, <2>2
<1> QED
  BY <1>2, <1>5

\* A lost connection and a page load leave no session that is open and listened
\* to.
LEMMA HangUpKeeps ==
  ASSUME IInv, daily' = daily, HangUp
  PROVE  IInv'
<1> USE DEF IInv, WayType, HangUp
<1>1. WayType'
  <2>1. stream' \in Seq(Sent)
    OBVIOUS
  <2>2. reader' \in BOOLEAN
    OBVIOUS
  <2>3. session' \in {"down", "subscribed", "open"} /\ daily' \in Seq(Keys)
    OBVIOUS
  <2> QED
    BY <2>1, <2>2, <2>3
<1>2. NoHole'
  BY DEF NoHole, HangUp
<1> QED
  BY <1>1, <1>2 DEF IInv

\* A reader that dies leaves no session that is open and listened to.
LEMMA ReaderDiesKeeps ==
  ASSUME IInv, NEW kept \in 0 .. Len(stream), ReaderDies(kept)
  PROVE  IInv'
<1>1. stream \in Seq(Sent)
  BY DEF IInv, WayType
<1>2. SubSeq(stream, 1, kept) \in Seq(Sent)
  BY <1>1
<1>3. WayType'
  BY <1>2 DEF IInv, WayType, ReaderDies
<1>4. NoHole'
  BY DEF NoHole, ReaderDies
<1> QED
  BY <1>3, <1>4 DEF IInv

\* Nothing on the way changes, and a session just subscribed is not open.
LEMMA WayStable ==
  ASSUME IInv, daily' = daily, stream' = stream, cut' = cut, got' = got,
         \/ session' = session /\ reader' = reader
         \/ session' = "subscribed" /\ reader' = TRUE
  PROVE  IInv'
<1>1. WayType'
  BY DEF IInv, WayType
<1>2. NoHole'
  BY DEF IInv, NoHole, OnTheWay
<1> QED
  BY <1>1, <1>2 DEF IInv

\* Every step keeps the invariant.
LEMMA IInvNext ==
  ASSUME IInv, [Next]_vars
  PROVE  IInv'
<1>1. ASSUME NEW k \in Keys, Publish(k) PROVE IInv'
  BY <1>1, PublishKeeps
<1>2. CASE ReadRecent
  BY <1>2, ReadRecentKeeps
<1>3. CASE Receive
  BY <1>3, ReceiveKeeps
<1>4. CASE Drop
  BY <1>4, HangUpKeeps DEF Drop
<1>5. CASE Reload
  BY <1>5, HangUpKeeps DEF Reload
<1>6. ASSUME NEW kept \in 0 .. Len(stream), ReaderDies(kept) PROVE IInv'
  BY <1>6, ReaderDiesKeeps
<1>7. CASE Subscribe
  BY <1>7, WayStable DEF Subscribe, browserVars
<1>8. CASE Pause
  BY <1>8, WayStable DEF Pause, serverVars
<1>9. CASE Resume
  BY <1>9, WayStable DEF Resume, serverVars
<1>10. CASE Clear
  BY <1>10, WayStable DEF Clear, serverVars
<1>11. CASE UNCHANGED vars
  BY <1>11, WayStable DEF vars, serverVars, browserVars
<1> QED
  BY <1>1, <1>2, <1>3, <1>4, <1>5, <1>6, <1>7, <1>8, <1>9, <1>10, <1>11 DEF Next

\* So it holds in every state.
LEMMA IInvHolds == Spec => []IInv
<1>1. ASSUME Init PROVE IInv
  <2>1. stream \in Seq(Sent) /\ daily \in Seq(Keys)
    BY <1>1 DEF Init
  <2>2. reader \in BOOLEAN /\ session \in {"down", "subscribed", "open"} /\ NoHole
    BY <1>1 DEF Init, NoHole
  <2> QED
    BY <2>1, <2>2 DEF IInv, WayType
<1> QED
  BY <1>1, IInvNext, PTL DEF Spec

\* "Replay history then stream live signals" without a hole between the two
\* (ws_session subscribes before it reads the history): once the browser has
\* handled what the session has for it, it was given every signal of the day
\* that was not too old for the replay.
THEOREM NoHoleBetweenReplayAndStream == Spec => []NothingMissed
<1>1. IInv => NothingMissed
  BY DEF IInv, NoHole, OnTheWay, NothingMissed, Settled
<1> QED
  BY <1>1, IInvHolds, PTL

-----------------------------------------------------------------------------
(* The rows of the screen.                                                 *)

AnyRow == [key : Keys, n : Nat, count : Nat, from : {"catchup", "live", "new"}]

\* One row for a key, of a signal that had it.
RowsOK(d, list) ==
  /\ list \in Seq(AnyRow) /\ Len(list) <= MaxSignals
  /\ \A r \in DOMAIN list : list[r].n \in 1 .. Len(d) /\ list[r].key = d[list[r].n]
  /\ \A r, q \in DOMAIN list : list[r].key = list[q].key => r = q

\* A message of the day.
OfDay(d, msg) == msg.n \in 1 .. Len(d) /\ msg.catchup \in BOOLEAN

\* A list without one of its rows.
LEMMA RemoveAtIs ==
  ASSUME NEW S, NEW s \in Seq(S), NEW i \in 1 .. Len(s)
  PROVE  /\ RemoveAt(s, i) \in Seq(S) /\ Len(RemoveAt(s, i)) = Len(s) - 1
         /\ \A k \in 1 .. Len(s) - 1 : RemoveAt(s, i)[k] = IF k < i THEN s[k] ELSE s[k + 1]
<1>1. Len(s) \in Nat /\ \A k \in 1 .. Len(s) : s[k] \in S
  BY LenProperties, ElementOfSeq
<1> DEFINE n == Len(s)
           low == SubSeq(s, 1, i - 1)
           high == SubSeq(s, i + 1, n)
<1>2. /\ low \in Seq(S) /\ Len(low) = i - 1
      /\ \A k \in 1 .. i - 1 : low[k] = s[k]
  <2>1. \A k \in 1 .. i - 1 : s[k] \in S
    BY <1>1
  <2>2. /\ low \in Seq(S) /\ Len(low) = IF 1 <= i - 1 THEN i - 1 - 1 + 1 ELSE 0
        /\ \A k \in 1 .. i - 1 - 1 + 1 : low[k] = s[1 + k - 1]
    BY <1>1, <2>1, SubSeqProperties
  <2> HIDE DEF low
  <2>3. Len(low) = i - 1
    BY <1>1, <2>2
  <2>4. ASSUME NEW k \in 1 .. i - 1
        PROVE  low[k] = s[k]
    BY <1>1, <2>2
  <2> QED
    BY <2>2, <2>3, <2>4
<1>3. /\ high \in Seq(S) /\ Len(high) = n - i
      /\ \A k \in 1 .. n - i : high[k] = s[i + k]
  <2>1. \A k \in i + 1 .. n : s[k] \in S
    BY <1>1
  <2>2. /\ high \in Seq(S) /\ Len(high) = IF i + 1 <= n THEN n - (i + 1) + 1 ELSE 0
        /\ \A k \in 1 .. n - (i + 1) + 1 : high[k] = s[i + 1 + k - 1]
    BY <1>1, <2>1, SubSeqProperties
  <2> HIDE DEF high
  <2>3. Len(high) = n - i
    BY <1>1, <2>2
  <2>4. ASSUME NEW k \in 1 .. n - i
        PROVE  high[k] = s[i + k]
    BY <1>1, <2>2
  <2> QED
    BY <2>2, <2>3, <2>4
<1> HIDE DEF low, high
<1>4. /\ low \o high \in Seq(S) /\ Len(low \o high) = n - 1
      /\ \A k \in 1 .. n - 1 : (low \o high)[k] = IF k <= i - 1 THEN low[k] ELSE high[k - (i - 1)]
  <2>1. /\ low \o high \in Seq(S) /\ Len(low \o high) = Len(low) + Len(high)
        /\ \A k \in 1 .. Len(low) + Len(high) :
             (low \o high)[k] = IF k <= Len(low) THEN low[k] ELSE high[k - Len(low)]
    BY <1>2, <1>3, ConcatProperties
  <2>2. n \in Nat /\ i \in Int /\ i - 1 + (n - i) = n - 1
    BY <1>1
  <2>3. Len(low) + Len(high) = n - 1
    BY <1>2, <1>3, <2>2
  <2> QED
    BY <1>2, <2>1, <2>3
<1>5. RemoveAt(s, i) = low \o high
  BY DEF RemoveAt, low, high, n
<1>6. ASSUME NEW k \in 1 .. n - 1
      PROVE  (low \o high)[k] = IF k < i THEN s[k] ELSE s[k + 1]
  <2>1. CASE k < i
    BY <1>1, <1>2, <1>4, <2>1
  <2>2. CASE ~(k < i)
    <3>1. k - (i - 1) \in 1 .. n - i /\ i + (k - (i - 1)) = k + 1
      BY <1>1, <2>2
    <3>2. (low \o high)[k] = high[k - (i - 1)]
      <4>1. ~(k <= i - 1)
        BY <1>1, <2>2
      <4> QED
        BY <1>4, <4>1
    <3>3. high[k - (i - 1)] = s[i + (k - (i - 1))]
      BY <1>3, <3>1
    <3> QED
      BY <2>2, <3>1, <3>2, <3>3
  <2> QED
    BY <2>1, <2>2
<1> QED
  BY <1>1, <1>4, <1>5, <1>6

\* A row put first, and the others behind it.
LEMMA ConsIs ==
  ASSUME NEW S, NEW s \in Seq(S), NEW x \in S
  PROVE  /\ <<x>> \o s \in Seq(S) /\ Len(<<x>> \o s) = Len(s) + 1 /\ (<<x>> \o s)[1] = x
         /\ \A k \in 2 .. Len(s) + 1 : (<<x>> \o s)[k] = s[k - 1]
<1>1. <<x>> \in Seq(S) /\ Len(<<x>>) = 1 /\ <<x>>[1] = x
  OBVIOUS
<1>2. PICK u : u = <<x>>
  OBVIOUS
<1>3. /\ u \o s \in Seq(S) /\ Len(u \o s) = Len(u) + Len(s)
      /\ \A k \in 1 .. Len(u) + Len(s) : (u \o s)[k] = IF k <= Len(u) THEN u[k] ELSE s[k - Len(u)]
  BY <1>1, <1>2, ConcatProperties
<1>4. Len(s) \in Nat
  BY LenProperties
<1>5. Len(u) = 1 /\ u[1] = x
  BY <1>1, <1>2
<1>6. ASSUME NEW k \in 2 .. Len(s) + 1
      PROVE  (u \o s)[k] = s[k - 1]
  BY <1>3, <1>4, <1>5
<1>7. (u \o s)[1] = x /\ Len(u \o s) = Len(s) + 1
  BY <1>3, <1>4, <1>5
<1> QED
  BY <1>2, <1>3, <1>6, <1>7

\* What a push does to the list: the row at m, or none when m is behind the last,
\* gives way to the first.
Pushed(d, list, msg, new, m) ==
  /\ new \in Seq(AnyRow) /\ Len(new) \in 1 .. MaxSignals
  /\ new[1].n = msg.n /\ new[1].key = d[msg.n]
  /\ m \in 1 .. Len(list) + 1
  /\ m <= Len(list) => /\ list[m].key = d[msg.n] /\ new[1] = Updated(list[m], msg)
                       /\ Len(new) = Len(list)
  /\ m = Len(list) + 1 => /\ new[1] = Fresh(msg)
                          /\ Len(new) = IF Len(list) = MaxSignals THEN MaxSignals ELSE Len(list) + 1
  /\ \A r \in 1 .. Len(list) : r # m => list[r].key # d[msg.n]
  /\ \A q \in 2 .. Len(new) : new[q] = IF q <= m THEN list[q - 1] ELSE list[q]

\* So a push is one; pushSignal keeps one row for a key.
LEMMA PushIs ==
  ASSUME daily \in Seq(Keys), NEW list, RowsOK(daily, list), NEW msg, OfDay(daily, msg)
  PROVE  \E m : Pushed(daily, list, msg, Push(list, msg), m)
<1> DEFINE k == daily[msg.n]
           same == {i \in DOMAIN list : SameKey(list[i], msg)}
           new == Push(list, msg)
<1>1. /\ list \in Seq(AnyRow) /\ Len(list) \in Nat /\ DOMAIN list = 1 .. Len(list) /\ Len(list) <= MaxSignals
      /\ \A r, q \in 1 .. Len(list) : list[r].key = list[q].key => r = q
      /\ MaxSignals \in Nat \ {0}
  BY LenProperties, StreamAssumption DEF RowsOK
<1>2. k \in Keys /\ msg.n \in Nat
  BY DEF OfDay
<1>3. PICK c \in Nat : c = Len(list)
  BY <1>1
<1>4. same = {i \in 1 .. Len(list) : list[i].key = k}
  BY <1>1 DEF SameKey
<1>5. CASE same = {}
  <2>1. new = Pop(<<Fresh(msg)>> \o list)
    BY <1>5 DEF Push, Put
  <2>2. Fresh(msg) \in AnyRow /\ Fresh(msg).n = msg.n /\ Fresh(msg).key = k
    BY <1>2 DEF Fresh, AnyRow, OfDay
  <2>3. PICK put : put = <<Fresh(msg)>> \o list
    OBVIOUS
  <2>4. PICK fresh : fresh = Fresh(msg)
    OBVIOUS
  <2>5. /\ put \in Seq(AnyRow) /\ Len(put) = Len(list) + 1 /\ put[1] = fresh
        /\ \A q \in 2 .. Len(list) + 1 : put[q] = list[q - 1]
    <3>1. fresh \in AnyRow
      BY <2>2, <2>4
    <3> QED
      BY <1>1, <2>3, <2>4, <3>1, ConsIs
  <2>6. CASE Len(list) = MaxSignals
    <3>1. new = Front(put)
      BY <1>1, <2>1, <2>3, <2>5, <2>6 DEF Pop
    <3>2. Front(put) = SubSeq(put, 1, Len(list))
      BY <1>1, <2>5 DEF Front
    <3>3. \A i \in 1 .. Len(list) : put[i] \in AnyRow
      BY <1>1, <2>5
    <3>4. /\ SubSeq(put, 1, Len(list)) \in Seq(AnyRow)
          /\ Len(SubSeq(put, 1, Len(list))) = IF 1 <= Len(list) THEN Len(list) - 1 + 1 ELSE 0
          /\ \A i \in 1 .. Len(list) - 1 + 1 : SubSeq(put, 1, Len(list))[i] = put[1 + i - 1]
      BY <1>1, <3>3, SubSeqProperties
    <3>5. PICK s : s = SubSeq(put, 1, Len(list))
      OBVIOUS
    <3>6. s \in Seq(AnyRow) /\ Len(s) = MaxSignals /\ \A i \in 1 .. Len(list) : s[i] = put[i]
      BY <1>1, <2>6, <3>4, <3>5
    <3>7. new = s
      BY <3>1, <3>2, <3>5
    <3> HIDE DEF new, same, k
    <3>8. new[1] = fresh
      <4>1. 1 \in 1 .. Len(list)
        BY <1>1, <2>6
      <4>2. s[1] = put[1]
        BY <3>6, <4>1
      <4> QED
        BY <2>5, <3>7, <4>2
    <3>9. ASSUME NEW q \in 2 .. Len(new)
          PROVE  new[q] = IF q <= Len(list) + 1 THEN list[q - 1] ELSE list[q]
      <4>1. q \in 2 .. c /\ q \in 1 .. Len(list) /\ q \in 2 .. Len(list) + 1 /\ q <= Len(list) + 1
        BY <1>3, <2>6, <3>6, <3>7
      <4>2. new[q] = put[q] /\ put[q] = list[q - 1]
        BY <2>5, <3>6, <3>7, <4>1
      <4> QED
        BY <4>1, <4>2
    <3>10. \A r \in 1 .. Len(list) : list[r].key # k
      BY <1>4, <1>5
    <3>11. Pushed(daily, list, msg, new, Len(list) + 1)
      BY <1>1, <2>2, <2>4, <2>6, <3>6, <3>7, <3>8, <3>9, <3>10 DEF Pushed, k
    <3> QED
      BY <3>11 DEF new
  <2>7. CASE Len(list) # MaxSignals
    <3>1. new = put /\ Len(put) <= MaxSignals
      <4>1. PICK max \in Nat : max = MaxSignals
        BY <1>1
      <4>2. c <= max /\ c # max /\ Len(put) = c + 1
        BY <1>1, <1>3, <2>5, <2>7, <4>1
      <4>3. ~(c + 1 > max) /\ c + 1 <= max
        BY <4>2
      <4>4. ~(Len(put) > MaxSignals) /\ Len(put) <= MaxSignals
        BY <4>1, <4>2, <4>3
      <4> QED
        BY <2>1, <2>3, <4>4 DEF Pop
    <3> HIDE DEF new, same, k
    <3>2. \A q \in 2 .. Len(new) : new[q] = IF q <= Len(list) + 1 THEN list[q - 1] ELSE list[q]
      BY <1>1, <2>5, <3>1
    <3>3. \A r \in 1 .. Len(list) : list[r].key # k
      BY <1>4, <1>5
    <3>4. /\ Len(new) \in 1 .. MaxSignals /\ Len(new) = Len(list) + 1
          /\ Len(list) + 1 \in 1 .. Len(list) + 1 /\ ~(Len(list) + 1 <= Len(list))
      BY <1>1, <1>3, <2>5, <3>1
    <3>5. Pushed(daily, list, msg, new, Len(list) + 1)
      BY <2>2, <2>4, <2>5, <2>7, <3>4, <3>1, <3>2, <3>3 DEF Pushed, k
    <3> QED
      BY <3>5 DEF new
  <2> QED
    BY <2>6, <2>7
<1>6. CASE same # {}
  <2>1. PICK m \in 1 .. Len(list) : same = {m} /\ list[m].key = k
    BY <1>1, <1>4, <1>6
  <2>2. Min(same) = m
    <3>1. \E x \in {m} : \A y \in {m} : x =< y
      BY <1>1
    <3> QED
      BY <2>1, <3>1 DEF Min
  <2>3. new = Pop(<<Updated(list[m], msg)>> \o RemoveAt(list, m))
    BY <1>6, <2>2 DEF Push, Put
  <2>4. list[m] \in AnyRow
    BY <1>1, <2>1, ElementOfSeq
  <2>5. PICK updated : updated = Updated(list[m], msg)
    OBVIOUS
  <2>6. updated \in AnyRow /\ updated.n = msg.n /\ updated.key = k
    <3>1. CountLive(list[m]) \in Nat
      BY <2>4 DEF CountLive, AnyRow
    <3> QED
      BY <1>2, <2>1, <2>4, <2>5, <3>1 DEF Updated, AnyRow
  <2>7. PICK rest : rest = RemoveAt(list, m)
    OBVIOUS
  <2>8. /\ rest \in Seq(AnyRow) /\ Len(rest) = Len(list) - 1
        /\ \A i \in 1 .. Len(list) - 1 : rest[i] = IF i < m THEN list[i] ELSE list[i + 1]
    <3> HIDE DEF same, k, new
    <3> QED
      BY <1>1, <2>7, RemoveAtIs
  <2>9. PICK put : put = <<updated>> \o rest
    OBVIOUS
  <2>10. /\ put \in Seq(AnyRow) /\ Len(put) = Len(list) /\ put[1] = updated
         /\ \A q \in 2 .. Len(list) : put[q] = rest[q - 1]
    <3>1. /\ put \in Seq(AnyRow) /\ Len(put) = Len(rest) + 1 /\ put[1] = updated
          /\ \A q \in 2 .. Len(rest) + 1 : put[q] = rest[q - 1]
      BY <2>6, <2>8, <2>9, ConsIs
    <3>2. Len(rest) + 1 = Len(list)
      BY <1>1, <2>8
    <3> QED
      BY <3>1, <3>2
  <2>11. new = put
    BY <1>1, <2>3, <2>5, <2>7, <2>9, <2>10 DEF Pop
  <2> HIDE DEF new, same, k
  <2>12. \A q \in 2 .. Len(new) : new[q] = IF q <= m THEN list[q - 1] ELSE list[q]
    <3> SUFFICES ASSUME NEW q \in 2 .. Len(new)
                 PROVE  new[q] = IF q <= m THEN list[q - 1] ELSE list[q]
      OBVIOUS
    <3>1. q \in 2 .. c /\ q - 1 \in 1 .. c - 1 /\ m \in 1 .. c
      BY <1>3, <2>10, <2>11
    <3>2. new[q] = rest[q - 1]
      BY <1>3, <2>10, <2>11, <3>1
    <3>3. rest[q - 1] = IF q - 1 < m THEN list[q - 1] ELSE list[q - 1 + 1]
      BY <1>3, <2>8, <3>1
    <3>4. (q - 1 < m <=> q <= m) /\ q - 1 + 1 = q
      BY <3>1
    <3> QED
      BY <3>2, <3>3, <3>4
  <2>13. \A r \in 1 .. Len(list) : r # m => list[r].key # k
    BY <1>1, <2>1
  <2>14. Pushed(daily, list, msg, new, m)
    <3>1. /\ Len(new) = Len(list) /\ Len(new) \in 1 .. MaxSignals /\ m \in 1 .. Len(list) + 1
          /\ m <= Len(list) /\ m # Len(list) + 1
      BY <1>1, <1>3, <2>10, <2>11
    <3> QED
      BY <2>1, <2>5, <2>6, <2>10, <2>11, <2>12, <2>13, <3>1 DEF Pushed, k
  <2> QED
    BY <2>14 DEF new
<1> QED
  BY <1>5, <1>6


-----------------------------------------------------------------------------
(* What the rows and the way to them have in common.  W is a sequence of   *)
(* messages, those up to i have been pushed; d is the daily list, c and x  *)
(* are what was cut off and what was cleared.                              *)

Follows(W, i, n) == \E j \in i + 1 .. Len(W) : W[j].n = n

LiveToCome(W, i) == {W[j].n : j \in {h \in i + 1 .. Len(W) : ~W[h].catchup}}

Occurrences(d, k) == {n \in 1 .. Len(d) : d[n] = k}

\* The messages are of the day.
AllOfDay(d, W) == W \in Seq(Sent) /\ \A j \in DOMAIN W : W[j].n \in 1 .. Len(d)

\* Live signals come in the order of their publications.
Ascending(W) ==
  \A i, j \in DOMAIN W : i < j /\ ~W[i].catchup /\ ~W[j].catchup => W[i].n < W[j].n

\* From any message on, every signal that is newer and not cut off still comes.
Complete(d, W, c) ==
  \A j \in DOMAIN W : \A n \in c + 1 .. Len(d) :
    n >= W[j].n => \E h \in j .. Len(W) : W[h].n = n

\* A row has counted no signal that is still to come live, but for the one that
\* CountLive does not count for a row of the replay.
Counted(d, list, W, i) ==
  \A r \in DOMAIN list :
    LET all == Occurrences(d, list[r].key) IN
    /\ list[r].count <= Cardinality(all)
    /\ list[r].count + Cardinality(all \cap LiveToCome(W, i))
         <= Cardinality(all) + (IF list[r].from = "catchup" THEN 1 ELSE 0)

\* The signal n of the day is the last one of its key.
IsLast(d, n) == \A m \in n + 1 .. Len(d) : d[m] # d[n]

\* The last signal of a key that is not to come again has its row, or the list is
\* full of newer ones.
Shown(d, list, W, i, c, x) ==
  \A n \in c + 1 .. Len(d) :
    n > x /\ IsLast(d, n) /\ ~Follows(W, i, n) =>
      \/ \E r \in DOMAIN list : list[r].n = n
      \/ Len(list) = MaxSignals /\ \A r \in DOMAIN list : list[r].n > n

\* Before a signal that is not to come again there are newer ones only.
Ordered(list, W, i, c) ==
  \A r, q \in DOMAIN list :
    r < q /\ list[q].n > c /\ ~Follows(W, i, list[q].n) => list[r].n > list[q].n

\* Pushing the next message of the way.
PushHypotheses(d, list, W, i) ==
  /\ d = daily /\ daily \in Seq(Keys) /\ RowsOK(d, list)
  /\ AllOfDay(d, W) /\ i \in Nat /\ i < Len(W)

\* The rows behind the first one are those of before, in their order.
FromBefore(list, new, m) ==
  \A q \in 2 .. Len(new) :
    \E p \in 1 .. Len(list) : p # m /\ new[q] = list[p] /\ p = IF q <= m THEN q - 1 ELSE q

\* The row at m is gone, and the last one of a list that was full.
Remain(list, new, m) ==
  \A p \in 1 .. Len(list) :
    p # m => \/ \E q \in 2 .. Len(new) : new[q] = list[p]
             \/ p = Len(list) /\ Len(list) = MaxSignals /\ Len(new) = MaxSignals /\ m = Len(list) + 1

\* So it is after every push.
LEMMA OthersStay ==
  ASSUME NEW d, NEW list, NEW msg, NEW new, NEW m, RowsOK(d, list), Pushed(d, list, msg, new, m)
  PROVE  FromBefore(list, new, m) /\ Remain(list, new, m)
<1>1. PICK a \in Nat : a = Len(list)
  BY LenProperties DEF RowsOK
<1>2. PICK b \in Nat : b = Len(new)
  BY LenProperties DEF Pushed
<1>3. PICK max \in Nat : max = MaxSignals
  BY StreamAssumption
<1>4. m \in 1 .. a + 1 /\ \A q \in 2 .. b : new[q] = IF q <= m THEN list[q - 1] ELSE list[q]
  BY <1>1, <1>2 DEF Pushed
<1>5. b = IF m <= a THEN a ELSE IF a = max THEN max ELSE a + 1
  <2>1. m <= a => b = a
    BY <1>1, <1>2 DEF Pushed
  <2>2. m = a + 1 => b = IF a = max THEN max ELSE a + 1
    BY <1>1, <1>2, <1>3 DEF Pushed
  <2> QED
    BY <1>4, <2>1, <2>2
<1>6. ASSUME NEW q \in 2 .. b
      PROVE  \E p \in 1 .. a : p # m /\ new[q] = list[p] /\ p = IF q <= m THEN q - 1 ELSE q
  <2>1. CASE q <= m
    <3>1. q - 1 \in 1 .. a /\ q - 1 # m
      BY <1>4, <2>1
    <3>2. new[q] = list[q - 1]
      BY <1>4, <2>1
    <3> QED
      BY <2>1, <3>1, <3>2
  <2>2. CASE ~(q <= m)
    <3>1. q \in 1 .. a /\ q # m
      BY <1>4, <1>5, <2>2
    <3>2. new[q] = list[q]
      BY <1>4, <2>2
    <3> QED
      BY <2>2, <3>1, <3>2
  <2> QED
    BY <2>1, <2>2
<1>7. ASSUME NEW p \in 1 .. a, p # m
      PROVE  (\E q \in 2 .. b : new[q] = list[p]) \/ (p = a /\ a = max /\ b = max /\ m = a + 1)
  <2>1. CASE p < m /\ p + 1 <= b
    <3>1. p + 1 \in 2 .. b /\ p + 1 <= m /\ p + 1 - 1 = p
      BY <1>4, <2>1
    <3> QED
      BY <1>4, <3>1
  <2>2. CASE p < m /\ ~(p + 1 <= b)
    BY <1>4, <1>5, <2>2
  <2>3. CASE ~(p < m)
    <3>1. p \in 2 .. b /\ ~(p <= m)
      BY <1>4, <1>5, <1>7, <2>3
    <3> QED
      BY <1>4, <3>1
  <2> QED
    BY <2>1, <2>2, <2>3
<1>8. FromBefore(list, new, m)
  BY <1>1, <1>2, <1>6 DEF FromBefore
<1>9. Remain(list, new, m)
  BY <1>1, <1>2, <1>3, <1>7 DEF Remain
<1> QED
  BY <1>8, <1>9

\* There is still one row for a key.
LEMMA PushRows ==
  ASSUME NEW d, NEW list, NEW msg, NEW new, NEW m,
         RowsOK(d, list), OfDay(d, msg), Pushed(d, list, msg, new, m)
  PROVE  RowsOK(d, new)
<1>1. new \in Seq(AnyRow) /\ Len(new) <= MaxSignals /\ DOMAIN new = 1 .. Len(new) /\ Len(new) \in Nat
      /\ DOMAIN list = 1 .. Len(list) /\ 1 \in DOMAIN new
  <2>1. Len(new) \in 1 .. MaxSignals /\ MaxSignals \in Nat /\ new \in Seq(AnyRow) /\ list \in Seq(AnyRow)
    BY StreamAssumption DEF Pushed, RowsOK
  <2> QED
    BY <2>1, LenProperties
<1>2. new[1].n = msg.n /\ new[1].key = d[msg.n] /\ \A p \in 1 .. Len(list) : p # m => list[p].key # d[msg.n]
  BY DEF Pushed
<1>3. ASSUME NEW r \in DOMAIN new, r # 1
      PROVE  r \in 2 .. Len(new)
  BY <1>1, <1>3
<1>4. ASSUME NEW r \in DOMAIN new
      PROVE  new[r].n \in 1 .. Len(d) /\ new[r].key = d[new[r].n]
  <2>1. CASE r = 1
    BY <1>2, <2>1 DEF OfDay
  <2>2. CASE r # 1
    <3>1. PICK p \in 1 .. Len(list) : new[r] = list[p]
      BY <1>3, <2>2, OthersStay DEF FromBefore
    <3> QED
      BY <1>1, <3>1 DEF RowsOK
  <2> QED
    BY <2>1, <2>2
<1>5. ASSUME NEW r \in DOMAIN new, r # 1
      PROVE  new[r].key # new[1].key
  <2>1. PICK p \in 1 .. Len(list) : p # m /\ new[r] = list[p]
    BY <1>3, <1>5, OthersStay DEF FromBefore
  <2> QED
    BY <1>2, <2>1
<1>6. /\ \A q \in 2 .. Len(new) : \E p \in 1 .. Len(list) :
           p # m /\ new[q] = list[p] /\ p = IF q <= m THEN q - 1 ELSE q
      /\ m \in Int
  <2>1. m \in 1 .. Len(list) + 1 /\ Len(list) \in Nat
    BY LenProperties DEF Pushed, RowsOK
  <2>2. m \in Int
    BY <2>1
  <2> QED
    BY <2>2, OthersStay DEF FromBefore
<1>7. ASSUME NEW r \in DOMAIN new, NEW q \in DOMAIN new, r # 1, q # 1, new[r].key = new[q].key
      PROVE  r = q
  <2>1. r \in 2 .. Len(new) /\ q \in 2 .. Len(new)
    BY <1>3, <1>7
  <2>2. PICK p \in 1 .. Len(list) : p # m /\ new[r] = list[p] /\ p = IF r <= m THEN r - 1 ELSE r
    BY <1>6, <2>1
  <2>3. PICK o \in 1 .. Len(list) : o # m /\ new[q] = list[o] /\ o = IF q <= m THEN q - 1 ELSE q
    BY <1>6, <2>1
  <2>4. p = o
    BY <1>1, <1>7, <2>2, <2>3 DEF RowsOK
  <2>5. r \in Int /\ q \in Int
    BY <2>1
  <2> QED
    BY <1>6, <2>2, <2>3, <2>4, <2>5
<1> QED
  BY <1>1, <1>4, <1>5, <1>7 DEF RowsOK

\* The occurrences of a key are finitely many.
LEMMA OccurrencesFinite ==
  ASSUME NEW d, Len(d) \in Nat, NEW k
  PROVE  /\ IsFiniteSet(Occurrences(d, k)) /\ Cardinality(Occurrences(d, k)) \in Nat
         /\ \A T \in SUBSET Occurrences(d, k) :
              IsFiniteSet(T) /\ Cardinality(T) \in Nat /\ Cardinality(T) <= Cardinality(Occurrences(d, k))
<1>1. IsFiniteSet(1 .. Len(d))
  <2>1. PICK b \in Int : b = Len(d)
    OBVIOUS
  <2>2. 1 \in Int
    OBVIOUS
  <2>3. IsFiniteSet(1 .. b)
    BY <2>2, FS_Interval
  <2> QED
    BY <2>1, <2>3
<1>2. Occurrences(d, k) \in SUBSET (1 .. Len(d))
  BY DEF Occurrences
<1>3. IsFiniteSet(Occurrences(d, k))
  BY <1>1, <1>2, FS_Subset
<1> QED
  BY <1>3, FS_Subset, FS_CardinalityType

\* A row counts what it may after a push: a live signal is counted once, when it
\* comes, and a replayed one by its row alone.
LEMMA PushCounts ==
  ASSUME NEW d, NEW list, NEW msg, NEW new, NEW m, NEW W, NEW i \in Nat, i < Len(W), msg = W[i + 1],
         RowsOK(d, list), AllOfDay(d, W), Ascending(W), Pushed(d, list, msg, new, m), d \in Seq(Keys),
         Counted(d, list, W, i)
  PROVE  Counted(d, new, W, i + 1)
<1> DEFINE left == LiveToCome(W, i + 1)
<1>1. /\ Len(W) \in Nat /\ i + 1 \in DOMAIN W /\ DOMAIN W = 1 .. Len(W) /\ msg \in Sent /\ W \in Seq(Sent)
      /\ msg.n \in 1 .. Len(d) /\ Len(d) \in Nat
  <2>1. W \in Seq(Sent) /\ Len(d) \in Nat
    BY LenProperties DEF AllOfDay
  <2>2. Len(W) \in Nat /\ DOMAIN W = 1 .. Len(W)
    BY <2>1, LenProperties
  <2>3. i + 1 \in 1 .. Len(W)
    BY <2>2
  <2> QED
    BY <2>1, <2>2, <2>3, ElementOfSeq DEF AllOfDay
<1>2. LiveToCome(W, i) = IF msg.catchup THEN left ELSE left \cup {msg.n}
  <2>1. {h \in i + 1 .. Len(W) : ~W[h].catchup}
          = {h \in i + 1 + 1 .. Len(W) : ~W[h].catchup} \cup (IF msg.catchup THEN {} ELSE {i + 1})
    BY <1>1
  <2> QED
    BY <2>1 DEF LiveToCome
<1>3. ~msg.catchup => msg.n \notin left
  <2>1. ASSUME ~msg.catchup, NEW j \in i + 1 + 1 .. Len(W), ~W[j].catchup
        PROVE  W[j].n # msg.n
    <3>1. j \in DOMAIN W /\ i + 1 < j
      BY <1>1
    <3>2. W[i + 1].n < W[j].n
      BY <1>1, <2>1, <3>1 DEF Ascending
    <3>3. W[j] \in Sent
      BY <1>1, <3>1, ElementOfSeq
    <3>4. W[j].n \in Nat /\ msg.n \in Nat
      BY <1>1, <3>3 DEF Sent
    <3> QED
      BY <3>2, <3>4
  <2> QED
    BY <2>1 DEF LiveToCome
<1>4. /\ DOMAIN list = 1 .. Len(list) /\ Len(list) \in Nat
      /\ DOMAIN new = 1 .. Len(new) /\ Len(new) \in Nat /\ \A r \in DOMAIN new : new[r] \in AnyRow
      /\ \A r \in DOMAIN list : list[r] \in AnyRow
  BY LenProperties, ElementOfSeq DEF RowsOK, Pushed
<1> HIDE DEF left
<1>5. ASSUME NEW k
      PROVE  /\ IsFiniteSet(Occurrences(d, k)) /\ Cardinality(Occurrences(d, k)) \in Nat
             /\ \A T \in SUBSET Occurrences(d, k) :
                  IsFiniteSet(T) /\ Cardinality(T) \in Nat /\ Cardinality(T) <= Cardinality(Occurrences(d, k))
  BY <1>1, OccurrencesFinite
<1>6. ASSUME NEW r \in 2 .. Len(new)
      PROVE  LET all == Occurrences(d, new[r].key) IN
             /\ new[r].count <= Cardinality(all)
             /\ new[r].count + Cardinality(all \cap left)
                  <= Cardinality(all) + (IF new[r].from = "catchup" THEN 1 ELSE 0)
  <2>1. PICK p \in 1 .. Len(list) : new[r] = list[p]
    BY OthersStay DEF FromBefore
  <2> DEFINE all == Occurrences(d, new[r].key)
             before == all \cap LiveToCome(W, i)
             after == all \cap left
  <2>2. /\ new[r].count <= Cardinality(all)
        /\ new[r].count + Cardinality(before) <= Cardinality(all) + (IF new[r].from = "catchup" THEN 1 ELSE 0)
    BY <1>4, <2>1 DEF Counted
  <2>3. after \in SUBSET before /\ before \in SUBSET all
    BY <1>2
  <2>4. IsFiniteSet(before) /\ Cardinality(before) \in Nat /\ Cardinality(after) \in Nat /\ Cardinality(all) \in Nat
    BY <1>5, <2>3
  <2>5. Cardinality(after) <= Cardinality(before)
    <3> HIDE DEF after, before
    <3> QED
      BY <2>3, <2>4, FS_Subset
  <2>6. new[r].count \in Nat
    BY <1>4, <2>1 DEF AnyRow
  <2> HIDE DEF after, before, all
  <2>7. new[r].count + Cardinality(after) <= Cardinality(all) + (IF new[r].from = "catchup" THEN 1 ELSE 0)
    <3>1. PICK count \in Nat : count = new[r].count
      BY <2>6
    <3>2. PICK extra \in {0, 1} : extra = IF new[r].from = "catchup" THEN 1 ELSE 0
      OBVIOUS
    <3>3. count + Cardinality(before) <= Cardinality(all) + extra
      BY <2>2, <3>1, <3>2
    <3>4. PICK least \in Nat, most \in Nat, total \in Nat :
            least = Cardinality(after) /\ most = Cardinality(before) /\ total = Cardinality(all)
      BY <2>4
    <3>5. least <= most /\ count + most <= total + extra
      BY <2>5, <3>3, <3>4
    <3>6. count + least <= total + extra
      BY <3>5
    <3> QED
      BY <3>1, <3>2, <3>4, <3>6
  <2> QED
    BY <2>2, <2>7 DEF all, after
<1>7. LET all == Occurrences(d, new[1].key) IN
      /\ new[1].count <= Cardinality(all)
      /\ new[1].count + Cardinality(all \cap left)
           <= Cardinality(all) + (IF new[1].from = "catchup" THEN 1 ELSE 0)
  <2> DEFINE all == Occurrences(d, new[1].key)
             after == all \cap left
             before == all \cap LiveToCome(W, i)
  <2>1. msg.n \in all
    BY <1>1 DEF Occurrences, Pushed
  <2>2. /\ IsFiniteSet(after) /\ Cardinality(after) \in Nat /\ Cardinality(all) \in Nat
        /\ Cardinality(after) <= Cardinality(all) /\ Cardinality(before) \in Nat
        /\ Cardinality(before) <= Cardinality(all)
    BY <1>5
  <2>3. ~msg.catchup => Cardinality(after \cup {msg.n}) = Cardinality(after) + 1
    <3>1. ~msg.catchup => msg.n \notin after
      BY <1>3
    <3> HIDE DEF after
    <3> QED
      BY <2>2, <3>1, FS_AddElement
  <2>4. /\ msg.catchup => before = after
        /\ ~msg.catchup => before = after \cup {msg.n}
    BY <1>2, <2>1
  <2>5. /\ msg.catchup => Cardinality(before) = Cardinality(after)
        /\ ~msg.catchup => Cardinality(before) = Cardinality(after) + 1
    <3> HIDE DEF after, before
    <3> QED
      BY <2>3, <2>4
  <2>6. Cardinality(all) >= 1
    <3>1. {msg.n} \in SUBSET all
      BY <2>1
    <3>2. Cardinality({msg.n}) = 1
      BY FS_Singleton
    <3>3. Cardinality({msg.n}) <= Cardinality(all)
      BY <1>5, <3>1
    <3> QED
      BY <2>2, <3>2, <3>3
  <2>7. m \in 1 .. Len(list) + 1 /\ (m \in 1 .. Len(list) \/ m = Len(list) + 1)
    <3>1. m \in 1 .. Len(list) + 1
      BY DEF Pushed
    <3> QED
      BY <1>4, <3>1
  <2>8. CASE m = Len(list) + 1
    <3>1. new[1] = Fresh(msg)
      BY <2>8 DEF Pushed
    <3>2. new[1].count = 1 /\ new[1].from = IF msg.catchup THEN "catchup" ELSE "new"
      BY <3>1 DEF Fresh
    <3> HIDE DEF after, before, all
    <3>3. CASE msg.catchup
      <4>1. new[1].from = "catchup"
        BY <3>2, <3>3
      <4>2. 1 <= Cardinality(all) /\ 1 + Cardinality(after) <= Cardinality(all) + 1
        BY <2>2, <2>6
      <4> QED
        BY <3>2, <4>1, <4>2 DEF all, after
    <3>4. CASE ~msg.catchup
      <4>1. new[1].from # "catchup"
        BY <3>2, <3>4
      <4>2. 1 <= Cardinality(all) /\ 1 + Cardinality(after) <= Cardinality(all) + 0
        BY <2>2, <2>5, <2>6, <3>4
      <4> QED
        BY <3>2, <4>1, <4>2 DEF all, after
    <3> QED
      BY <3>3, <3>4
  <2>9. CASE m \in 1 .. Len(list)
    <3>1. new[1] = Updated(list[m], msg) /\ list[m].key = new[1].key /\ list[m] \in AnyRow /\ m \in DOMAIN list
      <4>1. m <= Len(list)
        BY <1>4, <2>9
      <4> QED
        BY <1>4, <2>9, <4>1 DEF Pushed
    <3>2. PICK count \in Nat : count = list[m].count
      BY <3>1 DEF AnyRow
    <3>3. /\ count <= Cardinality(all)
          /\ count + Cardinality(before) <= Cardinality(all) + (IF list[m].from = "catchup" THEN 1 ELSE 0)
      BY <3>1, <3>2 DEF Counted
    <3>4. /\ msg.catchup => new[1].count = count /\ new[1].from = list[m].from
          /\ ~msg.catchup => /\ new[1].from = "live"
                             /\ new[1].count = IF list[m].from = "catchup" THEN count ELSE count + 1
      BY <3>1, <3>2 DEF Updated, CountLive, AnyRow
    <3> HIDE DEF after, before, all
    <3>5. CASE msg.catchup
      <4>1. count + Cardinality(after) <= Cardinality(all) + (IF list[m].from = "catchup" THEN 1 ELSE 0)
        BY <2>5, <3>3, <3>5
      <4> QED
        BY <3>3, <3>4, <3>5, <4>1 DEF all, after
    <3>6. CASE ~msg.catchup /\ list[m].from = "catchup"
      <4>1. count + Cardinality(after) <= Cardinality(all) + 0
        BY <2>2, <2>5, <3>3, <3>6
      <4>2. new[1].count = count /\ new[1].from # "catchup"
        BY <3>4, <3>6
      <4> QED
        BY <3>3, <4>1, <4>2 DEF all, after
    <3>7. CASE ~msg.catchup /\ list[m].from # "catchup"
      <4>1. count + 1 + Cardinality(after) <= Cardinality(all) + 0 /\ count + 1 <= Cardinality(all)
        BY <2>2, <2>5, <3>3, <3>7
      <4>2. new[1].count = count + 1 /\ new[1].from # "catchup"
        BY <3>4, <3>7
      <4> QED
        BY <4>1, <4>2 DEF all, after
    <3> QED
      BY <3>5, <3>6, <3>7
  <2> QED
    BY <2>7, <2>8, <2>9
<1>8. ASSUME NEW r \in DOMAIN new
      PROVE  r = 1 \/ r \in 2 .. Len(new)
  BY <1>4
<1> QED
  BY <1>6, <1>7, <1>8 DEF Counted, left

\* The message i + 1 of the way.
LEMMA NextMessage ==
  ASSUME NEW d, NEW W, AllOfDay(d, W), NEW i \in Nat, i < Len(W)
  PROVE  /\ Len(W) \in Nat /\ DOMAIN W = 1 .. Len(W) /\ i + 1 \in DOMAIN W
         /\ W[i + 1] \in Sent /\ W[i + 1].n \in 1 .. Len(d) /\ W[i + 1].n \in Nat
<1>1. W \in Seq(Sent)
  BY DEF AllOfDay
<1>2. Len(W) \in Nat /\ DOMAIN W = 1 .. Len(W)
  BY <1>1, LenProperties
<1>3. i + 1 \in 1 .. Len(W)
  BY <1>2
<1>4. W[i + 1] \in Sent
  BY <1>1, <1>3, ElementOfSeq
<1>5. W[i + 1].n \in 1 .. Len(d)
  BY <1>2, <1>3 DEF AllOfDay
<1>6. W[i + 1].n \in Nat
  BY <1>4 DEF Sent
<1> QED
  BY <1>2, <1>3, <1>4, <1>5, <1>6

\* What is pushed is older than nothing that is not to come again.
LEMMA PushedIsNewer ==
  ASSUME NEW d, NEW W, NEW c \in Nat, NEW i \in Nat, i < Len(W), AllOfDay(d, W), Complete(d, W, c),
         NEW n \in c + 1 .. Len(d), ~Follows(W, i + 1, n), n # W[i + 1].n
  PROVE  n < W[i + 1].n
<1>1. Len(W) \in Nat /\ i + 1 \in DOMAIN W /\ W[i + 1].n \in Nat
  BY NextMessage
<1>2. SUFFICES ASSUME n >= W[i + 1].n
               PROVE  FALSE
  <2>1. n \in Int
    OBVIOUS
  <2> QED
    BY <1>1, <1>2, <2>1
<1>3. PICK h \in i + 1 .. Len(W) : W[h].n = n
  BY <1>1, <1>2 DEF Complete
<1>4. h # i + 1
  BY <1>3
<1>5. h \in i + 1 + 1 .. Len(W)
  BY <1>1, <1>4
<1> QED
  BY <1>3, <1>5 DEF Follows

\* What does not follow after the push and is not pushed did not follow before.
LEMMA FollowsBefore ==
  ASSUME NEW W, NEW i \in Nat, NEW n, ~Follows(W, i + 1, n), n # W[i + 1].n, Len(W) \in Nat
  PROVE  ~Follows(W, i, n)
<1>1. ASSUME NEW j \in i + 1 .. Len(W), W[j].n = n
      PROVE  FALSE
  <2>1. j # i + 1
    BY <1>1
  <2>2. j \in i + 1 + 1 .. Len(W)
    BY <2>1
  <2> QED
    BY <1>1, <2>2 DEF Follows
<1> QED
  BY <1>1 DEF Follows

\* The order survives a push.
LEMMA PushOrders ==
  ASSUME NEW d, NEW list, NEW msg, NEW new, NEW m, NEW W, NEW i \in Nat, NEW c \in Nat,
         i < Len(W), msg = W[i + 1],
         RowsOK(d, list), AllOfDay(d, W), Pushed(d, list, msg, new, m), d \in Seq(Keys),
         Complete(d, W, c), Ordered(list, W, i, c)
  PROVE  Ordered(new, W, i + 1, c)
<1>1. /\ Len(W) \in Nat /\ Len(d) \in Nat /\ DOMAIN new = 1 .. Len(new) /\ Len(new) \in Nat
      /\ DOMAIN list = 1 .. Len(list) /\ Len(list) \in Nat /\ m \in Int
  <2>1. W \in Seq(Sent) /\ new \in Seq(AnyRow) /\ list \in Seq(AnyRow) /\ m \in 1 .. Len(list) + 1
    BY DEF AllOfDay, Pushed, RowsOK
  <2>2. /\ Len(W) \in Nat /\ Len(d) \in Nat /\ DOMAIN new = 1 .. Len(new) /\ Len(new) \in Nat
        /\ DOMAIN list = 1 .. Len(list) /\ Len(list) \in Nat
    BY <2>1, LenProperties
  <2> QED
    BY <2>1, <2>2
<1>2. /\ \A q \in 2 .. Len(new) : \E p \in 1 .. Len(list) :
           p # m /\ new[q] = list[p] /\ p = IF q <= m THEN q - 1 ELSE q
  <2>1. FromBefore(list, new, m)
    BY OthersStay
  <2> QED
    BY <2>1 DEF FromBefore
<1>3. ASSUME NEW q \in 2 .. Len(new), new[q].n > c, ~Follows(W, i + 1, new[q].n)
      PROVE  new[q].n \in c + 1 .. Len(d) /\ new[q].n # msg.n /\ ~Follows(W, i, new[q].n)
  <2>1. PICK p \in 1 .. Len(list) : p # m /\ new[q] = list[p]
    BY <1>2
  <2>2. new[q].key # d[msg.n] /\ new[q].n \in 1 .. Len(d) /\ new[q].key = d[new[q].n]
    <3>1. list[p].key # d[msg.n]
      BY <2>1 DEF Pushed
    <3>2. list[p].n \in 1 .. Len(d) /\ list[p].key = d[list[p].n]
      BY <1>1 DEF RowsOK
    <3> QED
      BY <2>1, <3>1, <3>2
  <2>3. new[q].n # msg.n
    BY <2>2
  <2>4. new[q].n \in c + 1 .. Len(d)
    <3>1. PICK n : n = new[q].n
      OBVIOUS
    <3>2. n \in 1 .. Len(d) /\ n > c
      BY <1>3, <2>2, <3>1
    <3>3. n \in c + 1 .. Len(d)
      BY <1>1, <3>2
    <3> QED
      BY <3>1, <3>3
  <2> QED
    BY <1>1, <1>3, <2>3, <2>4, FollowsBefore
<1> SUFFICES ASSUME NEW r \in DOMAIN new, NEW q \in DOMAIN new,
                    r < q, new[q].n > c, ~Follows(W, i + 1, new[q].n)
             PROVE  new[r].n > new[q].n
  BY DEF Ordered
<1>4. q \in 2 .. Len(new) /\ (r = 1 \/ r \in 2 .. Len(new))
  BY <1>1
<1>5. new[q].n \in c + 1 .. Len(d) /\ new[q].n # msg.n /\ ~Follows(W, i, new[q].n)
  BY <1>3, <1>4
<1>6. CASE r = 1
  <2>1. new[1].n = msg.n /\ msg.n \in Nat
    <3>1. msg.n \in Nat
      BY NextMessage
    <3>2. new[1].n = msg.n
      BY DEF Pushed
    <3> QED
      BY <3>1, <3>2
  <2>2. new[q].n < msg.n
    BY <1>5, PushedIsNewer
  <2>3. new[q].n \in Int
    BY <1>5
  <2>4. msg.n > new[q].n
    BY <2>1, <2>2, <2>3
  <2> QED
    BY <1>6, <2>1, <2>4
<1>7. CASE r \in 2 .. Len(new)
  <2>1. PICK p \in 1 .. Len(list) : p # m /\ new[r] = list[p] /\ p = IF r <= m THEN r - 1 ELSE r
    BY <1>2, <1>7
  <2>2. PICK o \in 1 .. Len(list) : o # m /\ new[q] = list[o] /\ o = IF q <= m THEN q - 1 ELSE q
    BY <1>2, <1>4
  <2>3. p < o
    <3>1. r \in Int /\ q \in Int /\ m \in Int
      BY <1>1
    <3>2. (IF r <= m THEN r - 1 ELSE r) < (IF q <= m THEN q - 1 ELSE q)
      BY <3>1
    <3> QED
      BY <2>1, <2>2, <3>2
  <2>4. list[o].n > c /\ ~Follows(W, i, list[o].n) /\ p \in DOMAIN list /\ o \in DOMAIN list
    BY <1>1, <1>5, <2>2
  <2>5. list[p].n > list[o].n
    BY <2>3, <2>4 DEF Ordered
  <2> QED
    BY <2>1, <2>2, <2>5
<1> QED
  BY <1>4, <1>6, <1>7

\* So does that the signals have their rows.
LEMMA PushShows ==
  ASSUME NEW d, NEW list, NEW msg, NEW new, NEW m, NEW W, NEW i \in Nat, NEW c \in Nat, NEW x \in Nat,
         i < Len(W), msg = W[i + 1],
         RowsOK(d, list), AllOfDay(d, W), Pushed(d, list, msg, new, m), d \in Seq(Keys),
         Complete(d, W, c), Ordered(list, W, i, c), Shown(d, list, W, i, c, x)
  PROVE  Shown(d, new, W, i + 1, c, x)
<1>1. /\ Len(W) \in Nat /\ Len(d) \in Nat /\ DOMAIN new = 1 .. Len(new) /\ Len(new) \in Nat
      /\ DOMAIN list = 1 .. Len(list) /\ Len(list) \in Nat /\ 1 \in DOMAIN new /\ MaxSignals \in Nat
  <2>1. /\ W \in Seq(Sent) /\ new \in Seq(AnyRow) /\ list \in Seq(AnyRow) /\ Len(new) \in 1 .. MaxSignals
        /\ MaxSignals \in Nat
    BY StreamAssumption DEF AllOfDay, Pushed, RowsOK
  <2> QED
    BY <2>1, LenProperties
<1>2. \A q \in 2 .. Len(new) : \E p \in 1 .. Len(list) :
        p # m /\ new[q] = list[p] /\ p = IF q <= m THEN q - 1 ELSE q
  <2>1. FromBefore(list, new, m)
    BY OthersStay
  <2> QED
    BY <2>1 DEF FromBefore
<1>3. \A p \in 1 .. Len(list) :
        p # m => \/ \E q \in 2 .. Len(new) : new[q] = list[p]
                 \/ p = Len(list) /\ Len(list) = MaxSignals /\ Len(new) = MaxSignals /\ m = Len(list) + 1
  <2>1. Remain(list, new, m)
    BY OthersStay
  <2> QED
    BY <2>1 DEF Remain
<1>4. msg.n \in 1 .. Len(d) /\ msg.n \in Nat /\ new[1].n = msg.n
  <2>1. msg.n \in 1 .. Len(d) /\ msg.n \in Nat
    BY NextMessage
  <2>2. new[1].n = msg.n
    BY DEF Pushed
  <2> QED
    BY <2>1, <2>2
<1> SUFFICES ASSUME NEW n \in c + 1 .. Len(d), n > x, IsLast(d, n), ~Follows(W, i + 1, n)
             PROVE  \/ \E r \in DOMAIN new : new[r].n = n
                    \/ Len(new) = MaxSignals /\ \A r \in DOMAIN new : new[r].n > n
  BY DEF Shown
<1>5. CASE n = msg.n
  BY <1>1, <1>4, <1>5
<1>6. CASE n # msg.n
  <2>1. n < msg.n /\ ~Follows(W, i, n) /\ n \in 1 .. Len(d) /\ n \in Nat
    <3>1. n < msg.n
      BY <1>6, PushedIsNewer
    <3>2. ~Follows(W, i, n)
      BY <1>1, <1>6, FollowsBefore
    <3>3. n \in 1 .. Len(d) /\ n \in Nat
      BY <1>1
    <3> QED
      BY <3>1, <3>2, <3>3
  <2>2. ASSUME NEW r \in DOMAIN new
        PROVE  r = 1 \/ r \in 2 .. Len(new)
    BY <1>1
  <2>3. CASE \E p \in DOMAIN list : list[p].n = n
    <3>1. PICK p \in 1 .. Len(list) : list[p].n = n
      BY <1>1, <2>3
    <3>2. p # m
      <4>1. SUFFICES ASSUME p = m
                     PROVE  FALSE
        OBVIOUS
      <4>2. m <= Len(list)
        BY <1>1, <4>1
      <4>3. list[p].key = d[msg.n] /\ list[p].key = d[n]
        BY <1>1, <3>1, <4>1, <4>2 DEF Pushed, RowsOK
      <4>4. msg.n \in n + 1 .. Len(d)
        BY <1>1, <1>4, <2>1
      <4> QED
        BY <4>3, <4>4 DEF IsLast
    <3>3. CASE \E q \in 2 .. Len(new) : new[q] = list[p]
      <4>1. PICK q \in 2 .. Len(new) : new[q] = list[p]
        BY <3>3
      <4>2. q \in DOMAIN new
        BY <1>1
      <4> QED
        BY <3>1, <4>1, <4>2
    <3>4. CASE p = Len(list) /\ Len(list) = MaxSignals /\ Len(new) = MaxSignals /\ m = Len(list) + 1
      <4>1. ASSUME NEW r \in DOMAIN new
            PROVE  new[r].n > n
        <5>1. CASE r = 1
          BY <1>4, <2>1, <5>1
        <5>2. CASE r \in 2 .. Len(new) /\ r # 1
          <6>1. PICK o \in 1 .. Len(list) : o # m /\ new[r] = list[o] /\ o = IF r <= m THEN r - 1 ELSE r
            BY <1>2, <5>2
          <6>2. o < p /\ o \in DOMAIN list /\ p \in DOMAIN list
            BY <1>1, <3>4, <5>2, <6>1
          <6>3. list[p].n > c /\ ~Follows(W, i, list[p].n)
            BY <2>1, <3>1
          <6> QED
            BY <3>1, <6>1, <6>2, <6>3 DEF Ordered
        <5> QED
          BY <1>1, <5>1, <5>2
      <4> QED
        BY <3>4, <4>1
    <3> QED
      BY <1>3, <3>2, <3>3, <3>4
  <2>4. CASE Len(list) = MaxSignals /\ \A p \in DOMAIN list : list[p].n > n
    <3>1. Len(new) = MaxSignals
      <4>1. m \in 1 .. Len(list) + 1
        BY DEF Pushed
      <4>2. m <= Len(list) \/ m = Len(list) + 1
        BY <1>1, <4>1
      <4> QED
        BY <2>4, <4>2 DEF Pushed
    <3>2. ASSUME NEW r \in DOMAIN new
          PROVE  new[r].n > n
      <4>1. CASE r = 1
        BY <1>4, <2>1, <4>1
      <4>2. CASE r \in 2 .. Len(new)
        <5>1. PICK p \in 1 .. Len(list) : p # m /\ new[r] = list[p] /\ p = IF r <= m THEN r - 1 ELSE r
          BY <1>2, <4>2
        <5> QED
          BY <1>1, <2>4, <5>1
      <4> QED
        BY <2>2, <4>1, <4>2
    <3> QED
      BY <3>1, <3>2
  <2> QED
    BY <2>1, <2>3, <2>4 DEF Shown
<1> QED
  BY <1>5, <1>6

-----------------------------------------------------------------------------
(* The way when its first messages have been taken, or its last ones lost. *)

\* V is what of W comes after i.
Rest(W, i, V) == V \in Seq(Sent) /\ Len(V) = Len(W) - i /\ \A j \in DOMAIN V : V[j] = W[i + j]

\* V is the beginning of W.
Start(W, V) == V \in Seq(Sent) /\ Len(V) <= Len(W) /\ \A j \in DOMAIN V : V[j] = W[j]

\* What is still to come of W is what comes of the rest.
LEMMA RestFollows ==
  ASSUME NEW W \in Seq(Sent), NEW i \in Nat, NEW V, Rest(W, i, V)
  PROVE  /\ \A n : Follows(W, i, n) <=> Follows(V, 0, n)
         /\ LiveToCome(W, i) = LiveToCome(V, 0)
<1>1. /\ Len(W) \in Nat /\ Len(V) \in Nat /\ DOMAIN V = 1 .. Len(V) /\ Len(V) = Len(W) - i
      /\ \A j \in 1 .. Len(V) : V[j] = W[i + j]
  BY LenProperties DEF Rest
<1>2. \A j \in i + 1 .. Len(W) : j - i \in 0 + 1 .. Len(V) /\ V[j - i] = W[j]
  <2> SUFFICES ASSUME NEW j \in i + 1 .. Len(W)
               PROVE  j - i \in 0 + 1 .. Len(V) /\ V[j - i] = W[j]
    OBVIOUS
  <2>1. j - i \in 0 + 1 .. Len(V) /\ j - i \in 1 .. Len(V) /\ i + (j - i) = j
    BY <1>1
  <2> QED
    BY <1>1, <2>1
<1>3. \A j \in 0 + 1 .. Len(V) : i + j \in i + 1 .. Len(W) /\ V[j] = W[i + j]
  BY <1>1
<1>4. \A n : Follows(W, i, n) <=> Follows(V, 0, n)
  BY <1>2, <1>3 DEF Follows
<1>5. LiveToCome(W, i) = LiveToCome(V, 0)
  <2>1. ASSUME NEW n \in LiveToCome(W, i)
        PROVE  n \in LiveToCome(V, 0)
    <3>1. PICK j \in i + 1 .. Len(W) : ~W[j].catchup /\ n = W[j].n
      BY <2>1 DEF LiveToCome
    <3>2. j - i \in 0 + 1 .. Len(V) /\ V[j - i] = W[j]
      BY <1>2
    <3> QED
      BY <3>1, <3>2 DEF LiveToCome
  <2>2. ASSUME NEW n \in LiveToCome(V, 0)
        PROVE  n \in LiveToCome(W, i)
    <3>1. PICK j \in 0 + 1 .. Len(V) : ~V[j].catchup /\ n = V[j].n
      BY <2>2 DEF LiveToCome
    <3>2. i + j \in i + 1 .. Len(W) /\ V[j] = W[i + j]
      BY <1>3
    <3> QED
      BY <3>1, <3>2 DEF LiveToCome
  <2> QED
    BY <2>1, <2>2
<1> QED
  BY <1>4, <1>5

\* The rest of a way is one, and as complete.
LEMMA RestIs ==
  ASSUME NEW d, NEW W, NEW c, NEW i \in Nat, NEW V, Rest(W, i, V), AllOfDay(d, W), Ascending(W)
  PROVE  AllOfDay(d, V) /\ Ascending(V) /\ (Complete(d, W, c) => Complete(d, V, c))
<1>1. /\ Len(W) \in Nat /\ DOMAIN W = 1 .. Len(W)
      /\ Len(V) \in Nat /\ DOMAIN V = 1 .. Len(V) /\ Len(V) = Len(W) - i
      /\ \A j \in 1 .. Len(V) : V[j] = W[i + j]
      /\ V \in Seq(Sent)
  BY LenProperties DEF Rest, AllOfDay
<1>2. \A j \in 1 .. Len(V) : i + j \in DOMAIN W
  BY <1>1
<1>3. AllOfDay(d, V)
  BY <1>1, <1>2 DEF AllOfDay
<1>4. Ascending(V)
  <2> SUFFICES ASSUME NEW j \in 1 .. Len(V), NEW h \in 1 .. Len(V), j < h, ~V[j].catchup, ~V[h].catchup
               PROVE  V[j].n < V[h].n
    BY <1>1 DEF Ascending
  <2>1. i + j < i + h
    BY <1>1
  <2>2. /\ i + j \in DOMAIN W /\ i + h \in DOMAIN W /\ V[j] = W[i + j] /\ V[h] = W[i + h]
    BY <1>1, <1>2
  <2>3. W[i + j].n < W[i + h].n
    BY <2>1, <2>2 DEF Ascending
  <2> QED
    BY <2>2, <2>3
<1>5. ASSUME Complete(d, W, c), NEW j \in 1 .. Len(V), NEW n \in c + 1 .. Len(d), n >= V[j].n
      PROVE  \E h \in j .. Len(V) : V[h].n = n
  <2>1. PICK h \in i + j .. Len(W) : W[h].n = n
    <3>1. i + j \in DOMAIN W /\ n >= W[i + j].n
      BY <1>1, <1>2, <1>5
    <3> QED
      BY <1>5, <3>1 DEF Complete
  <2>2. h - i \in j .. Len(V) /\ h - i \in 1 .. Len(V) /\ i + (h - i) = h
    BY <1>1
  <2>3. V[h - i] = W[h]
    BY <1>1, <2>2
  <2> QED
    BY <2>1, <2>2, <2>3
<1> QED
  BY <1>1, <1>3, <1>4, <1>5 DEF Complete

\* So is its beginning, but for what has been lost.
LEMMA StartIs ==
  ASSUME NEW d, NEW W, NEW V, Start(W, V), AllOfDay(d, W), Ascending(W)
  PROVE  AllOfDay(d, V) /\ Ascending(V) /\ LiveToCome(V, 0) \subseteq LiveToCome(W, 0)
<1>1. /\ Len(W) \in Nat /\ DOMAIN W = 1 .. Len(W)
      /\ Len(V) \in Nat /\ DOMAIN V = 1 .. Len(V) /\ Len(V) <= Len(W)
      /\ \A j \in 1 .. Len(V) : V[j] = W[j]
      /\ V \in Seq(Sent)
  BY LenProperties DEF Start, AllOfDay
<1>2. \A j \in 1 .. Len(V) : j \in DOMAIN W
  BY <1>1
<1>3. AllOfDay(d, V)
  BY <1>1, <1>2 DEF AllOfDay
<1>4. Ascending(V)
  BY <1>1, <1>2 DEF Ascending
<1>5. \A j \in 0 + 1 .. Len(V) : j \in 0 + 1 .. Len(W) /\ V[j] = W[j]
  BY <1>1
<1>6. LiveToCome(V, 0) \subseteq LiveToCome(W, 0)
  BY <1>5 DEF LiveToCome
<1> QED
  BY <1>3, <1>4, <1>6

\* When less is still to come, no row has counted too many.
LEMMA CountedStays ==
  ASSUME NEW d \in Seq(Keys), NEW list, NEW W, NEW i, NEW V, NEW j, RowsOK(d, list),
         LiveToCome(V, j) \subseteq LiveToCome(W, i), Counted(d, list, W, i)
  PROVE  Counted(d, list, V, j)
<1>1. Len(d) \in Nat /\ \A r \in DOMAIN list : list[r] \in AnyRow
  BY LenProperties, ElementOfSeq DEF RowsOK
<1> SUFFICES ASSUME NEW r \in DOMAIN list
             PROVE  LET all == Occurrences(d, list[r].key) IN
                    /\ list[r].count <= Cardinality(all)
                    /\ list[r].count + Cardinality(all \cap LiveToCome(V, j))
                         <= Cardinality(all) + (IF list[r].from = "catchup" THEN 1 ELSE 0)
  BY DEF Counted
<1> DEFINE all == Occurrences(d, list[r].key)
           before == all \cap LiveToCome(W, i)
           after == all \cap LiveToCome(V, j)
<1>2. /\ list[r].count <= Cardinality(all)
      /\ list[r].count + Cardinality(before) <= Cardinality(all) + (IF list[r].from = "catchup" THEN 1 ELSE 0)
  BY DEF Counted
<1>3. after \in SUBSET before /\ before \in SUBSET all /\ after \in SUBSET all
  OBVIOUS
<1>4. IsFiniteSet(before) /\ Cardinality(before) \in Nat /\ Cardinality(after) \in Nat /\ Cardinality(all) \in Nat
  BY <1>1, <1>3, OccurrencesFinite
<1>5. Cardinality(after) <= Cardinality(before)
  <2> HIDE DEF after, before
  <2> QED
    BY <1>3, <1>4, FS_Subset
<1>6. list[r].count \in Nat
  BY <1>1 DEF AnyRow
<1> HIDE DEF after, before, all
<1>7. list[r].count + Cardinality(after) <= Cardinality(all) + (IF list[r].from = "catchup" THEN 1 ELSE 0)
  BY <1>2, <1>4, <1>5, <1>6
<1> QED
  BY <1>2, <1>7 DEF all, after

-----------------------------------------------------------------------------
(* The buffer of a pause, signal by signal.                                *)

\* The least-number principle, for sets.
LEMMA LeastOfNats ==
  ASSUME NEW T, T \subseteq Nat, T # {}
  PROVE  \E x \in T : \A y \in T : x <= y
<1>1. PICK x \in T : \A y \in T : ~(<<y, x>> \in OpToRel(<, Nat))
  BY WFMin, NatLessThanWellFounded
<1>2. \A y \in T : ~(y < x)
  BY <1>1 DEF OpToRel
<1> QED
  BY <1>2

\* Induction along the buffer: a set of its places that holds 0 and with every
\* place the next one holds them all.
LEMMA PlaceByPlace ==
  ASSUME NEW n \in Nat, NEW T, 0 \in T, \A i \in 0 .. n : i \in T /\ i + 1 <= n => i + 1 \in T
  PROVE  \A i \in 0 .. n : i \in T
<1> DEFINE left == (0 .. n) \ T
<1> SUFFICES ASSUME left # {}
             PROVE  FALSE
  OBVIOUS
<1>1. left \subseteq Nat
  OBVIOUS
<1>2. PICK x \in left : \A y \in left : x <= y
  <2> HIDE DEF left
  <2> QED
    BY <1>1, LeastOfNats
<1>3. x # 0 /\ x \in 0 .. n
  BY <1>2
<1>4. x - 1 \in 0 .. n /\ ~(x <= x - 1) /\ x - 1 + 1 = x
  BY <1>3
<1>5. x - 1 \in T
  BY <1>2, <1>4
<1>6. x \in T
  BY <1>3, <1>4, <1>5
<1> QED
  BY <1>2, <1>6

\* The first j pushes.
FlushOf(f, j) == f = [i \in 0 .. j |-> IF i = 0 THEN rows ELSE Push(f[i - 1], pending[i])]

\* Flushed is what its definition says.
LEMMA FlushedIs ==
  ASSUME Len(pending) \in Nat
  PROVE  /\ Flushed[0] = rows
         /\ \A i \in 0 .. Len(pending) : i + 1 <= Len(pending) => Flushed[i + 1] = Push(Flushed[i], pending[i + 1])
<1> DEFINE T == {j \in Nat : \E f : FlushOf(f, j)}
<1>1. PICK n \in Nat : n = Len(pending)
  OBVIOUS
<1>2. 0 \in T
  <2>1. FlushOf([i \in 0 .. 0 |-> rows], 0)
    BY DEF FlushOf
  <2> QED
    BY <2>1
<1>3. ASSUME NEW j \in 0 .. n, j \in T, j + 1 <= n
      PROVE  j + 1 \in T
  <2>1. PICK f : FlushOf(f, j)
    BY <1>3
  <2> DEFINE g == [i \in 0 .. j + 1 |-> IF i = 0 THEN rows ELSE Push(f[i - 1], pending[i])]
  <2>2. ASSUME NEW i \in 0 .. j
        PROVE  g[i] = f[i]
    <3>1. i \in 0 .. j + 1
      OBVIOUS
    <3>2. f[i] = IF i = 0 THEN rows ELSE Push(f[i - 1], pending[i])
      BY <2>1 DEF FlushOf
    <3> QED
      BY <3>1, <3>2
  <2>3. ASSUME NEW i \in 0 .. j + 1
        PROVE  g[i] = IF i = 0 THEN rows ELSE Push(g[i - 1], pending[i])
    <3>1. CASE i = 0
      BY <3>1
    <3>2. CASE i # 0
      <4>1. i - 1 \in 0 .. j
        BY <3>2
      <4>2. g[i - 1] = f[i - 1]
        BY <2>2, <4>1
      <4> QED
        BY <3>2, <4>2
    <3> QED
      BY <3>1, <3>2
  <2>4. FlushOf(g, j + 1)
    <3>1. g = [i \in 0 .. j + 1 |-> g[i]]
      OBVIOUS
    <3> HIDE DEF g
    <3> QED
      BY <2>3, <3>1 DEF FlushOf
  <2> QED
    BY <2>4
<1>4. n \in T
  <2>1. \A j \in 0 .. n : j \in T
    <3> HIDE DEF T
    <3> QED
      BY <1>2, <1>3, PlaceByPlace
  <2>2. n \in 0 .. n
    OBVIOUS
  <2> QED
    BY <2>1, <2>2
<1>5. PICK f : FlushOf(f, n)
  BY <1>4
<1>6. Flushed = [i \in 0 .. Len(pending) |-> IF i = 0 THEN rows ELSE Push(Flushed[i - 1], pending[i])]
  BY <1>1, <1>5 DEF Flushed, FlushOf
<1>7. Flushed[0] = rows
  <2>1. 0 \in 0 .. Len(pending)
    OBVIOUS
  <2> QED
    BY <1>6, <2>1
<1>8. ASSUME NEW i \in 0 .. Len(pending), i + 1 <= Len(pending)
      PROVE  Flushed[i + 1] = Push(Flushed[i], pending[i + 1])
  <2>1. i + 1 \in 0 .. Len(pending) /\ i + 1 # 0 /\ i + 1 - 1 = i
    BY <1>8
  <2> QED
    BY <1>6, <2>1
<1> QED
  BY <1>7, <1>8

\* The rows, their counters and, when the session is open and listened to, what
\* they show, after the first i messages of the way.
Screen(d, list, W, i) == RowsOK(d, list) /\ Counted(d, list, W, i)

UpToDate(d, list, W, i, c, x) == Shown(d, list, W, i, c, x) /\ Ordered(list, W, i, c)

\* One more message is pushed.
LEMMA PushKeeps ==
  ASSUME NEW list, NEW W, NEW i \in Nat, i < Len(W), daily \in Seq(Keys), cut \in Nat, cleared \in Nat,
         AllOfDay(daily, W), Ascending(W), Screen(daily, list, W, i)
  PROVE  /\ Screen(daily, Push(list, W[i + 1]), W, i + 1)
         /\ Complete(daily, W, cut) /\ UpToDate(daily, list, W, i, cut, cleared) =>
              UpToDate(daily, Push(list, W[i + 1]), W, i + 1, cut, cleared)
<1>1. PICK msg : msg = W[i + 1]
  OBVIOUS
<1>2. OfDay(daily, msg) /\ RowsOK(daily, list) /\ Counted(daily, list, W, i)
  <2>1. W[i + 1] \in Sent /\ W[i + 1].n \in 1 .. Len(daily)
    BY NextMessage
  <2> QED
    BY <1>1, <2>1 DEF OfDay, Sent, Screen
<1>3. PICK m : Pushed(daily, list, msg, Push(list, msg), m)
  BY <1>2, PushIs
<1>4. PICK new : new = Push(list, msg)
  OBVIOUS
<1>5. Pushed(daily, list, msg, new, m)
  BY <1>3, <1>4
<1>6. RowsOK(daily, new)
  BY <1>2, <1>5, PushRows
<1>7. Counted(daily, new, W, i + 1)
  BY <1>1, <1>2, <1>5, PushCounts
<1>8. ASSUME Complete(daily, W, cut), Shown(daily, list, W, i, cut, cleared), Ordered(list, W, i, cut)
      PROVE  Shown(daily, new, W, i + 1, cut, cleared) /\ Ordered(new, W, i + 1, cut)
  <2>1. Shown(daily, new, W, i + 1, cut, cleared)
    BY <1>1, <1>2, <1>5, <1>8, PushShows
  <2>2. Ordered(new, W, i + 1, cut)
    BY <1>1, <1>2, <1>5, <1>8, PushOrders
  <2> QED
    BY <2>1, <2>2
<1> QED
  BY <1>1, <1>4, <1>6, <1>7, <1>8 DEF Screen, UpToDate

-----------------------------------------------------------------------------
(* The invariant of the screen.                                            *)

\* What the browser has not pushed: the buffer of the pause, then the stream.
Way == pending \o stream

ScreenInv ==
  /\ pending \in Seq(Sent) /\ cut \in Nat /\ cleared \in Nat
  /\ AllOfDay(daily, Way) /\ Ascending(Way)
  /\ ~paused => pending = <<>>
  /\ session = "down" => stream = <<>>
  /\ Screen(daily, rows, Way, 0)
  /\ session = "subscribed" /\ reader => Complete(daily, stream, 0)
  /\ session = "open" /\ reader =>
       Complete(daily, Way, cut) /\ UpToDate(daily, rows, Way, 0, cut, cleared)

\* The buffer is the beginning of the way, the stream its rest.
LEMMA WayIs ==
  ASSUME NEW p \in Seq(Sent), NEW s \in Seq(Sent)
  PROVE  /\ p \o s \in Seq(Sent) /\ Len(p) \in Nat /\ Len(s) \in Nat /\ Len(p \o s) = Len(p) + Len(s)
         /\ \A j \in 1 .. Len(p) : (p \o s)[j] = p[j]
         /\ \A j \in 1 .. Len(s) : (p \o s)[Len(p) + j] = s[j]
         /\ Rest(p \o s, Len(p), s) /\ Start(p \o s, p)
<1>1. Len(p) \in Nat /\ Len(s) \in Nat /\ DOMAIN s = 1 .. Len(s) /\ DOMAIN p = 1 .. Len(p)
  BY LenProperties
<1>2. /\ p \o s \in Seq(Sent) /\ Len(p \o s) = Len(p) + Len(s)
      /\ \A j \in 1 .. Len(p) + Len(s) : (p \o s)[j] = IF j <= Len(p) THEN p[j] ELSE s[j - Len(p)]
  BY ConcatProperties
<1>3. PICK W : W = p \o s
  OBVIOUS
<1>4. PICK a \in Nat : a = Len(p)
  BY <1>1
<1>5. PICK b \in Nat : b = Len(s)
  BY <1>1
<1>6. \A j \in 1 .. a : W[j] = p[j]
  BY <1>2, <1>3, <1>4, <1>5
<1>7. ASSUME NEW j \in 1 .. b
      PROVE  W[a + j] = s[j]
  <2>1. a + j \in 1 .. a + b /\ ~(a + j <= a) /\ a + j - a = j
    OBVIOUS
  <2> QED
    BY <1>2, <1>3, <1>4, <1>5, <2>1
<1>8. Rest(W, a, s) /\ Start(W, p)
  BY <1>1, <1>2, <1>3, <1>4, <1>5, <1>6, <1>7 DEF Rest, Start
<1> QED
  BY <1>1, <1>2, <1>3, <1>4, <1>5, <1>6, <1>7, <1>8

\* When a pause ends the whole buffer is pushed, and the way is the stream.
LEMMA FlushKeeps ==
  ASSUME IInv, ScreenInv
  PROVE  /\ Screen(daily, Flushed[Len(pending)], stream, 0)
         /\ session = "open" /\ reader => UpToDate(daily, Flushed[Len(pending)], stream, 0, cut, cleared)
<1> DEFINE open == session = "open" /\ reader
           T == {i \in Nat : /\ Screen(daily, Flushed[i], Way, i)
                             /\ open => UpToDate(daily, Flushed[i], Way, i, cut, cleared)}
<1>1. /\ daily \in Seq(Keys) /\ pending \in Seq(Sent) /\ stream \in Seq(Sent) /\ cut \in Nat /\ cleared \in Nat
      /\ AllOfDay(daily, Way) /\ Ascending(Way)
      /\ open => Complete(daily, Way, cut)
  BY DEF IInv, WayType, ScreenInv
<1>2. PICK n \in Nat : n = Len(pending)
  BY <1>1, LenProperties
<1>3. /\ Len(stream) \in Nat /\ Len(Way) = n + Len(stream) /\ Rest(Way, n, stream) /\ Way \in Seq(Sent)
      /\ \A j \in 1 .. n : Way[j] = pending[j]
  BY <1>1, <1>2, WayIs DEF Way
<1>4. /\ Flushed[0] = rows
      /\ \A i \in 0 .. n : i + 1 <= n => Flushed[i + 1] = Push(Flushed[i], pending[i + 1])
  BY <1>2, FlushedIs
<1>5. 0 \in T
  BY <1>4 DEF ScreenInv
<1>6. ASSUME NEW i \in 0 .. n, i \in T, i + 1 <= n
      PROVE  i + 1 \in T
  <2>1. i \in Nat /\ i + 1 \in 1 .. n /\ i + 1 \in Nat /\ i < Len(Way)
    BY <1>3, <1>6
  <2>2. Flushed[i + 1] = Push(Flushed[i], Way[i + 1])
    BY <1>3, <1>4, <1>6, <2>1
  <2>3. PICK list : list = Flushed[i]
    OBVIOUS
  <2>4. Screen(daily, list, Way, i) /\ (open => UpToDate(daily, list, Way, i, cut, cleared))
    BY <1>6, <2>3
  <2>5. /\ Screen(daily, Push(list, Way[i + 1]), Way, i + 1)
        /\ open => UpToDate(daily, Push(list, Way[i + 1]), Way, i + 1, cut, cleared)
    <3> HIDE DEF open
    <3> QED
      BY <1>1, <2>1, <2>4, PushKeeps
  <2> QED
    BY <2>1, <2>2, <2>3, <2>5
<1>7. n \in T
  <2>1. \A i \in 0 .. n : i \in T
    <3> HIDE DEF T
    <3> QED
      BY <1>5, <1>6, PlaceByPlace
  <2>2. n \in 0 .. n
    OBVIOUS
  <2> QED
    BY <2>1, <2>2
<1>8. PICK list : list = Flushed[n]
  OBVIOUS
<1>9. Screen(daily, list, Way, n) /\ (open => UpToDate(daily, list, Way, n, cut, cleared))
  BY <1>7, <1>8
<1>10. /\ \A m : Follows(Way, n, m) <=> Follows(stream, 0, m)
       /\ LiveToCome(Way, n) = LiveToCome(stream, 0)
  BY <1>3, RestFollows
<1>11. Screen(daily, list, stream, 0)
  BY <1>9, <1>10 DEF Screen, Counted
<1>12. ASSUME open
       PROVE  UpToDate(daily, list, stream, 0, cut, cleared)
  <2>1. Shown(daily, list, Way, n, cut, cleared) /\ Ordered(list, Way, n, cut)
    BY <1>9, <1>12 DEF UpToDate
  <2>2. Shown(daily, list, stream, 0, cut, cleared)
    BY <1>10, <2>1 DEF Shown
  <2>3. Ordered(list, stream, 0, cut)
    BY <1>10, <2>1 DEF Ordered
  <2> QED
    BY <2>2, <2>3 DEF UpToDate
<1> QED
  BY <1>2, <1>8, <1>11, <1>12

\* The browser takes a message: into the buffer, or to the screen.
LEMMA ReceiveScreen ==
  ASSUME IInv, ScreenInv, Receive
  PROVE  ScreenInv'
<1>1. /\ daily \in Seq(Keys) /\ pending \in Seq(Sent) /\ stream \in Seq(Sent) /\ cut \in Nat /\ cleared \in Nat
      /\ AllOfDay(daily, Way) /\ Ascending(Way) /\ Screen(daily, rows, Way, 0)
      /\ session = "open" /\ stream # <<>>
      /\ reader => Complete(daily, Way, cut) /\ UpToDate(daily, rows, Way, 0, cut, cleared)
      /\ daily' = daily /\ session' = session /\ reader' = reader /\ cut' = cut /\ paused' = paused
      /\ cleared' = cleared /\ stream' = Tail(stream)
  BY DEF IInv, WayType, ScreenInv, Receive
<1>2. PICK s : s = Tail(stream)
  OBVIOUS
<1>3. /\ s \in Seq(Sent) /\ Len(stream) \in Nat /\ Len(stream) > 0 /\ Len(s) = Len(stream) - 1 /\ Len(s) \in Nat
      /\ \A j \in 1 .. Len(s) : s[j] = stream[j + 1]
      /\ Head(stream) = stream[1] /\ stream[1] \in Sent
  <2>1. Len(stream) \in Nat /\ Len(stream) > 0
    BY <1>1
  <2>2. s \in Seq(Sent) /\ Len(s) = Len(stream) - 1 /\ Len(s) \in Nat
    BY <1>1, <1>2
  <2>3. \A j \in 1 .. Len(s) : s[j] = stream[j + 1]
    BY <1>1, <1>2
  <2>4. Head(stream) = stream[1] /\ stream[1] \in Sent
    BY <1>1, <2>1
  <2> QED
    BY <2>1, <2>2, <2>3, <2>4
<1>4. CASE paused
  <2>1. pending' = Append(pending, Head(stream)) /\ rows' = rows
    BY <1>4 DEF Receive
  <2>2. pending' \in Seq(Sent)
    BY <1>1, <1>3, <2>1
  <2>3. Append(pending, Head(stream)) \o s = pending \o stream
    <3>1. PICK p : p = Append(pending, Head(stream))
      OBVIOUS
    <3>2. PICK a \in Nat : a = Len(pending)
      BY <1>1, LenProperties
    <3>3. /\ p \in Seq(Sent) /\ Len(p) = a + 1 /\ p[a + 1] = stream[1]
          /\ \A j \in 1 .. a : p[j] = pending[j]
      BY <1>1, <1>3, <3>1, <3>2, AppendProperties
    <3>4. PICK b \in Nat : b = Len(stream)
      BY <1>3
    <3>5. /\ p \o s \in Seq(Sent) /\ Len(p \o s) = a + b
          /\ \A j \in 1 .. a + 1 : (p \o s)[j] = p[j]
          /\ \A j \in 1 .. b - 1 : (p \o s)[a + 1 + j] = s[j]
      <4>1. /\ p \o s \in Seq(Sent) /\ Len(p \o s) = Len(p) + Len(s)
            /\ \A j \in 1 .. Len(p) : (p \o s)[j] = p[j]
            /\ \A j \in 1 .. Len(s) : (p \o s)[Len(p) + j] = s[j]
        BY <1>3, <3>3, WayIs
      <4>2. Len(p) = a + 1 /\ Len(s) = b - 1 /\ a + 1 + (b - 1) = a + b
        BY <1>3, <3>3, <3>4
      <4> QED
        BY <4>1, <4>2
    <3>6. /\ pending \o stream \in Seq(Sent) /\ Len(pending \o stream) = a + b
          /\ \A j \in 1 .. a : (pending \o stream)[j] = pending[j]
          /\ \A j \in 1 .. b : (pending \o stream)[a + j] = stream[j]
      BY <1>1, <3>2, <3>4, WayIs
    <3>7. PICK u : u = p \o s
      OBVIOUS
    <3>8. PICK v : v = pending \o stream
      OBVIOUS
    <3>9. ASSUME NEW j \in 1 .. a + b
          PROVE  u[j] = v[j]
      <4>1. CASE j <= a
        <5>1. j \in 1 .. a /\ j \in 1 .. a + 1
          BY <4>1
        <5> QED
          BY <3>3, <3>5, <3>6, <3>7, <3>8, <5>1
      <4>2. CASE j = a + 1
        <5>1. 1 \in 1 .. b /\ a + 1 \in 1 .. a + 1
          BY <1>3, <3>4
        <5> QED
          BY <3>3, <3>5, <3>6, <3>7, <3>8, <4>2, <5>1
      <4>3. CASE j > a + 1
        <5>1. /\ j - a - 1 \in 1 .. b - 1 /\ j - a \in 1 .. b /\ a + 1 + (j - a - 1) = j
              /\ a + (j - a) = j /\ j - a - 1 + 1 = j - a
          BY <4>3
        <5>2. u[j] = s[j - a - 1]
          BY <3>5, <3>7, <5>1
        <5>3. s[j - a - 1] = stream[j - a]
          <6>1. j - a - 1 \in 1 .. Len(s)
            BY <1>3, <3>4, <5>1
          <6> QED
            BY <1>3, <5>1, <6>1
        <5>4. v[j] = stream[j - a]
          BY <3>6, <3>8, <5>1
        <5> QED
          BY <5>2, <5>3, <5>4
      <4> QED
        BY <4>1, <4>2, <4>3
    <3>10. u \in Seq(Sent) /\ v \in Seq(Sent) /\ Len(u) = a + b /\ Len(v) = a + b
      BY <3>5, <3>6, <3>7, <3>8
    <3>11. u = v
      BY <3>9, <3>10, SeqEqual
    <3> QED
      BY <3>1, <3>7, <3>8, <3>11
  <2>4. Way' = Way
    BY <1>1, <1>2, <2>1, <2>3 DEF Way
  <2> QED
    BY <1>1, <1>4, <2>1, <2>2, <2>4 DEF ScreenInv
<1>5. CASE ~paused
  <2>1. pending = <<>> /\ pending' = <<>> /\ rows' = Push(rows, Head(stream))
    BY <1>5 DEF Receive, ScreenInv
  <2>2. Way = stream /\ Way' = s
    BY <1>1, <1>2, <1>3, <2>1 DEF Way
  <2>3. Rest(stream, 1, s)
    BY <1>3 DEF Rest
  <2>4. AllOfDay(daily, s) /\ Ascending(s) /\ (Complete(daily, stream, cut) => Complete(daily, s, cut))
    BY <1>1, <2>2, <2>3, RestIs
  <2>5. PICK list : list = Push(rows, stream[1])
    OBVIOUS
  <2>6. /\ Screen(daily, list, stream, 1)
        /\ reader => UpToDate(daily, list, stream, 1, cut, cleared)
    <3>1. 0 \in Nat /\ 0 + 1 = 1 /\ 0 < Len(stream)
      BY <1>3
    <3>2. /\ Screen(daily, Push(rows, stream[0 + 1]), stream, 0 + 1)
          /\ Complete(daily, stream, cut) /\ UpToDate(daily, rows, stream, 0, cut, cleared) =>
               UpToDate(daily, Push(rows, stream[0 + 1]), stream, 0 + 1, cut, cleared)
      BY <1>1, <2>2, <3>1, PushKeeps
    <3> QED
      BY <1>1, <2>2, <2>5, <3>1, <3>2
  <2>7. /\ \A m : Follows(stream, 1, m) <=> Follows(s, 0, m)
        /\ LiveToCome(stream, 1) = LiveToCome(s, 0)
    BY <1>1, <2>3, RestFollows
  <2>8. Screen(daily, list, s, 0)
    BY <2>6, <2>7 DEF Screen, Counted
  <2>9. reader => UpToDate(daily, list, s, 0, cut, cleared)
    BY <2>6, <2>7 DEF UpToDate, Shown, Ordered
  <2>10. rows' = list /\ pending' \in Seq(Sent)
    BY <1>3, <2>1, <2>5
  <2> QED
    BY <1>1, <1>5, <2>1, <2>2, <2>4, <2>8, <2>9, <2>10 DEF ScreenInv
<1> QED
  BY <1>4, <1>5

\* The user goes on: the buffer is pushed.
LEMMA ResumeScreen ==
  ASSUME IInv, ScreenInv, Resume
  PROVE  ScreenInv'
<1>1. /\ daily \in Seq(Keys) /\ pending \in Seq(Sent) /\ stream \in Seq(Sent) /\ cut \in Nat /\ cleared \in Nat
      /\ AllOfDay(daily, Way) /\ Ascending(Way)
      /\ session = "down" => stream = <<>>
      /\ session = "subscribed" /\ reader => Complete(daily, stream, 0)
      /\ session = "open" /\ reader => Complete(daily, Way, cut)
      /\ daily' = daily /\ session' = session /\ reader' = reader /\ cut' = cut /\ paused' = FALSE
      /\ cleared' = cleared /\ stream' = stream /\ pending' = <<>> /\ rows' = Flushed[Len(pending)]
  BY DEF IInv, WayType, ScreenInv, Resume, serverVars
<1>2. Way' = stream
  BY <1>1 DEF Way
<1>3. Rest(Way, Len(pending), stream) /\ Len(pending) \in Nat
  BY <1>1, WayIs DEF Way
<1>4. AllOfDay(daily, stream) /\ Ascending(stream) /\ (Complete(daily, Way, cut) => Complete(daily, stream, cut))
  BY <1>1, <1>3, RestIs
<1>5. PICK list : list = Flushed[Len(pending)]
  OBVIOUS
<1>6. /\ Screen(daily, list, stream, 0)
      /\ session = "open" /\ reader => UpToDate(daily, list, stream, 0, cut, cleared)
  BY <1>5, FlushKeeps
<1>7. rows' = list /\ pending' \in Seq(Sent)
  BY <1>1, <1>5
<1> QED
  BY <1>1, <1>2, <1>4, <1>6, <1>7 DEF ScreenInv

\* An empty screen shows all there is when all has been cleared.
LEMMA ClearScreen ==
  ASSUME IInv, ScreenInv, Clear
  PROVE  ScreenInv'
<1>1. /\ daily \in Seq(Keys) /\ pending \in Seq(Sent) /\ stream \in Seq(Sent) /\ cut \in Nat
      /\ AllOfDay(daily, Way) /\ Ascending(Way)
      /\ session = "down" => stream = <<>>
      /\ session = "subscribed" /\ reader => Complete(daily, stream, 0)
      /\ session = "open" /\ reader => Complete(daily, Way, cut)
      /\ daily' = daily /\ session' = session /\ reader' = reader /\ cut' = cut /\ paused' = paused
      /\ cleared' = Len(daily) /\ stream' = stream /\ pending' = <<>> /\ rows' = <<>>
  BY DEF IInv, WayType, ScreenInv, Clear, serverVars
<1>2. Way' = stream
  BY <1>1 DEF Way
<1>3. Rest(Way, Len(pending), stream) /\ Len(pending) \in Nat
  BY <1>1, WayIs DEF Way
<1>4. AllOfDay(daily, stream) /\ Ascending(stream) /\ (Complete(daily, Way, cut) => Complete(daily, stream, cut))
  BY <1>1, <1>3, RestIs
<1>5. PICK none : none = <<>>
  OBVIOUS
<1>6. none \in Seq(AnyRow) /\ none \in Seq(Sent) /\ Len(none) = 0 /\ DOMAIN none = {}
  BY <1>5
<1>7. Screen(daily, none, stream, 0)
  BY <1>6, StreamAssumption DEF Screen, RowsOK, Counted
<1>8. UpToDate(daily, none, stream, 0, cut, Len(daily))
  <2>1. Len(daily) \in Nat
    BY <1>1, LenProperties
  <2>2. Shown(daily, none, stream, 0, cut, Len(daily))
    BY <1>1, <2>1 DEF Shown
  <2> QED
    BY <1>6, <2>2 DEF UpToDate, Ordered
<1>9. Len(daily) \in Nat
  BY <1>1, LenProperties
<1> QED
  BY <1>1, <1>2, <1>4, <1>5, <1>6, <1>7, <1>8, <1>9 DEF ScreenInv

\* Nothing comes over a session that is gone, and the rows have counted no more.
LEMMA NothingComes ==
  ASSUME NEW V, V = <<>>
  PROVE  /\ \A d : AllOfDay(d, V) /\ Ascending(V) /\ \A c : Complete(d, V, c)
         /\ LiveToCome(V, 0) = {}
<1>1. V \in Seq(Sent) /\ DOMAIN V = {} /\ Len(V) = 0
  OBVIOUS
<1>2. 0 + 1 .. Len(V) = {}
  BY <1>1
<1> QED
  BY <1>1, <1>2 DEF AllOfDay, Ascending, Complete, LiveToCome

\* The page is loaded again: a row that was "new" may now miss a count.
LEMMA ReloadScreen ==
  ASSUME IInv, ScreenInv, Reload
  PROVE  ScreenInv'
<1>1. /\ daily \in Seq(Keys) /\ cut \in Nat /\ cleared \in Nat /\ Screen(daily, rows, Way, 0)
      /\ daily' = daily /\ session' = "down" /\ reader' = FALSE /\ cut' = cut /\ paused' = FALSE
      /\ cleared' = cleared /\ stream' = <<>> /\ pending' = <<>>
  BY DEF IInv, WayType, ScreenInv, Reload, HangUp
<1>2. Way' = <<>>
  BY <1>1 DEF Way
<1>3. PICK list : list = rows'
  OBVIOUS
<1>4. list = [i \in DOMAIN rows |->
        IF rows[i].from = "new" THEN [rows[i] EXCEPT !.from = "catchup"] ELSE rows[i]]
  BY <1>3 DEF Reload
<1>5. rows \in Seq(AnyRow) /\ RowsOK(daily, rows) /\ Counted(daily, rows, Way, 0)
  BY <1>1 DEF Screen, RowsOK
<1>6. DOMAIN rows = 1 .. Len(rows) /\ Len(rows) \in Nat /\ \A i \in DOMAIN rows : rows[i] \in AnyRow
  BY <1>5, LenProperties, ElementOfSeq
<1>7. ASSUME NEW i \in DOMAIN rows
      PROVE  /\ list[i] \in AnyRow /\ list[i].key = rows[i].key /\ list[i].n = rows[i].n
             /\ list[i].count = rows[i].count
  <2>1. rows[i] \in AnyRow
    BY <1>6
  <2> QED
    BY <1>4, <2>1 DEF AnyRow
<1>8. list \in Seq(AnyRow) /\ Len(list) = Len(rows) /\ DOMAIN list = DOMAIN rows
  <2>1. PICK n \in Nat : n = Len(rows)
    BY <1>6
  <2>2. list \in [1 .. n -> AnyRow]
    <3>1. DOMAIN list = 1 .. n /\ list = [i \in DOMAIN list |-> list[i]]
      BY <1>4, <1>6, <2>1
    <3> QED
      BY <1>6, <1>7, <2>1, <3>1
  <2>3. list \in Seq(AnyRow) /\ Len(list) = n
    BY <2>2
  <2> QED
    BY <1>6, <2>1, <2>2, <2>3
<1>9. RowsOK(daily, list)
  BY <1>5, <1>7, <1>8 DEF RowsOK
<1>10. PICK none : none = <<>>
  OBVIOUS
<1>11. AllOfDay(daily, none) /\ Ascending(none) /\ none \in Seq(Sent) /\ LiveToCome(none, 0) = {}
  BY <1>10, NothingComes DEF AllOfDay
<1>12. Counted(daily, list, none, 0)
  <2> SUFFICES ASSUME NEW r \in DOMAIN list
               PROVE  LET all == Occurrences(daily, list[r].key) IN
                      /\ list[r].count <= Cardinality(all)
                      /\ list[r].count + Cardinality(all \cap LiveToCome(none, 0))
                           <= Cardinality(all) + (IF list[r].from = "catchup" THEN 1 ELSE 0)
    BY DEF Counted
  <2> DEFINE all == Occurrences(daily, list[r].key)
  <2>1. list[r].count <= Cardinality(all) /\ list[r].count \in Nat
    BY <1>5, <1>7, <1>8 DEF Counted, AnyRow
  <2>2. Cardinality(all \cap LiveToCome(none, 0)) = 0
    <3>1. all \cap LiveToCome(none, 0) = {}
      BY <1>11
    <3> HIDE DEF all
    <3> QED
      BY <3>1, FS_EmptySet
  <2>3. Cardinality(all) \in Nat
    <3>1. Len(daily) \in Nat
      BY <1>1, LenProperties
    <3> QED
      BY <3>1, OccurrencesFinite
  <2> HIDE DEF all
  <2>4. list[r].count + Cardinality(all \cap LiveToCome(none, 0))
          <= Cardinality(all) + (IF list[r].from = "catchup" THEN 1 ELSE 0)
    BY <2>1, <2>2, <2>3
  <2> QED
    BY <2>1, <2>4 DEF all
<1> QED
  BY <1>1, <1>2, <1>3, <1>9, <1>10, <1>11, <1>12 DEF ScreenInv, Screen

\* The end of the way is lost, and with it that the session is listened to.
LEMMA LostScreen ==
  ASSUME IInv, ScreenInv, reader' = FALSE, UNCHANGED <<daily, cut, browserVars>>,
         NEW V, stream' = V, Start(stream, V), session' = "down" => V = <<>>
  PROVE  ScreenInv'
<1>1. /\ daily \in Seq(Keys) /\ pending \in Seq(Sent) /\ stream \in Seq(Sent) /\ cut \in Nat /\ cleared \in Nat
      /\ AllOfDay(daily, Way) /\ Ascending(Way) /\ Screen(daily, rows, Way, 0) /\ V \in Seq(Sent)
      /\ ~paused => pending = <<>>
      /\ daily' = daily /\ cut' = cut /\ paused' = paused
      /\ cleared' = cleared /\ pending' = pending /\ rows' = rows
  BY DEF IInv, WayType, ScreenInv, browserVars, Start
<1>2. PICK now : now = pending \o V
  OBVIOUS
<1>3. Start(Way, now)
  <2>1. PICK a \in Nat : a = Len(pending)
    BY <1>1, LenProperties
  <2>2. PICK b \in Nat : b = Len(V)
    BY <1>1, LenProperties
  <2>3. PICK before : before = Way
    OBVIOUS
  <2>4. PICK c \in Nat : c = Len(stream)
    BY <1>1, LenProperties
  <2>5. /\ Len(before) = a + c
        /\ \A j \in 1 .. a : before[j] = pending[j]
        /\ \A j \in 1 .. c : before[a + j] = stream[j]
    BY <1>1, <2>1, <2>3, <2>4, WayIs DEF Way
  <2>6. /\ now \in Seq(Sent) /\ Len(now) = a + b
        /\ \A j \in 1 .. a : now[j] = pending[j]
        /\ \A j \in 1 .. b : now[a + j] = V[j]
    BY <1>1, <1>2, <2>1, <2>2, WayIs
  <2>7. DOMAIN now = 1 .. a + b /\ b <= c /\ \A j \in 1 .. b : V[j] = stream[j]
    BY <1>1, <2>2, <2>4, <2>6, LenProperties DEF Start
  <2>8. ASSUME NEW j \in 1 .. a + b
        PROVE  now[j] = before[j]
    <3>1. CASE j <= a
      <4>1. j \in 1 .. a
        BY <3>1
      <4> QED
        BY <2>5, <2>6, <4>1
    <3>2. CASE ~(j <= a)
      <4>1. j - a \in 1 .. b /\ j - a \in 1 .. c /\ a + (j - a) = j
        BY <2>7, <3>2
      <4>2. now[a + (j - a)] = V[j - a] /\ before[a + (j - a)] = stream[j - a]
        BY <2>5, <2>6, <4>1
      <4>3. V[j - a] = stream[j - a]
        BY <2>7, <4>1
      <4> QED
        BY <4>1, <4>2, <4>3
    <3> QED
      BY <3>1, <3>2
  <2>9. a + b <= a + c
    BY <2>7
  <2> QED
    BY <2>3, <2>5, <2>6, <2>7, <2>8, <2>9 DEF Start
<1>4. AllOfDay(daily, now) /\ Ascending(now) /\ LiveToCome(now, 0) \subseteq LiveToCome(Way, 0)
  BY <1>1, <1>3, StartIs
<1>5. Screen(daily, rows, now, 0)
  BY <1>1, <1>4, CountedStays DEF Screen
<1>6. Way' = now
  BY <1>1, <1>2 DEF Way
<1> QED
  BY <1>1, <1>4, <1>5, <1>6 DEF ScreenInv

\* A day's list grows at its end: the signals before keep their keys.
LEMMA PublishRows ==
  ASSUME NEW d \in Seq(Keys), NEW k \in Keys, NEW e, e = Append(d, k), NEW list, NEW W, NEW V,
         Screen(d, list, W, 0), LiveToCome(V, 0) \subseteq LiveToCome(W, 0) \cup {Len(d) + 1}
  PROVE  Screen(e, list, V, 0)
<1>1. PICK a \in Nat : a = Len(d)
  BY LenProperties
<1>2. /\ e \in Seq(Keys) /\ Len(e) = a + 1 /\ e[a + 1] = k
      /\ \A j \in 1 .. a : e[j] = d[j]
  BY <1>1, AppendProperties
<1>3. RowsOK(d, list) /\ Counted(d, list, W, 0)
  BY DEF Screen
<1>4. RowsOK(e, list)
  <2>1. \A j \in 1 .. Len(d) : j \in 1 .. Len(e) /\ e[j] = d[j]
    BY <1>1, <1>2
  <2> QED
    BY <1>3, <2>1 DEF RowsOK
<1>5. \A r \in DOMAIN list : list[r].count \in Nat
  <2>1. list \in Seq(AnyRow)
    BY <1>3 DEF RowsOK
  <2>2. \A r \in DOMAIN list : list[r] \in AnyRow
    BY <2>1, LenProperties, ElementOfSeq
  <2> QED
    BY <2>2 DEF AnyRow
<1>6. ASSUME NEW r \in DOMAIN list
      PROVE  LET all == Occurrences(e, list[r].key) IN
             /\ list[r].count <= Cardinality(all)
             /\ list[r].count + Cardinality(all \cap LiveToCome(V, 0))
                  <= Cardinality(all) + (IF list[r].from = "catchup" THEN 1 ELSE 0)
  <2> DEFINE key == list[r].key
             old == Occurrences(d, key)
             new == Occurrences(e, key)
             before == old \cap LiveToCome(W, 0)
             after == new \cap LiveToCome(V, 0)
  <2>1. /\ list[r].count <= Cardinality(old) /\ list[r].count \in Nat
        /\ list[r].count + Cardinality(before) <= Cardinality(old) + (IF list[r].from = "catchup" THEN 1 ELSE 0)
    BY <1>3, <1>5 DEF Counted
  <2>2. new = old \cup (IF k = key THEN {a + 1} ELSE {}) /\ a + 1 \notin old
    <3>1. PICK y : y = key
      OBVIOUS
    <3>2. Occurrences(e, y) = Occurrences(d, y) \cup (IF k = y THEN {a + 1} ELSE {})
      <4>1. 1 .. a + 1 = (1 .. a) \cup {a + 1} /\ a + 1 \notin 1 .. a
        OBVIOUS
      <4>2. ASSUME NEW n
            PROVE  n \in Occurrences(e, y) <=> n \in Occurrences(d, y) \cup (IF k = y THEN {a + 1} ELSE {})
        <5>1. CASE n \in 1 .. a
          BY <1>1, <1>2, <4>1, <5>1 DEF Occurrences
        <5>2. CASE n \notin 1 .. a
          BY <1>1, <1>2, <4>1, <5>2 DEF Occurrences
        <5> QED
          BY <5>1, <5>2
      <4> QED
        BY <4>2
    <3>3. a + 1 \notin Occurrences(d, y)
      BY <1>1 DEF Occurrences
    <3> QED
      BY <3>1, <3>2, <3>3
  <2>3. /\ IsFiniteSet(old) /\ Cardinality(old) \in Nat
        /\ before \in SUBSET old /\ IsFiniteSet(before) /\ Cardinality(before) \in Nat
    BY <1>1, OccurrencesFinite
  <2>4. /\ IsFiniteSet(new) /\ Cardinality(new) \in Nat
        /\ after \in SUBSET new /\ IsFiniteSet(after) /\ Cardinality(after) \in Nat
    <3>1. Len(e) \in Nat
      BY <1>2
    <3>2. after \in SUBSET new
      OBVIOUS
    <3> HIDE DEF after, before, old
    <3>3. IsFiniteSet(new) /\ Cardinality(new) \in Nat
      BY <3>1, OccurrencesFinite
    <3>4. IsFiniteSet(after) /\ Cardinality(after) \in Nat
      BY <3>1, <3>2, OccurrencesFinite
    <3> QED
      BY <3>2, <3>3, <3>4
  <2>5. LiveToCome(V, 0) \subseteq LiveToCome(W, 0) \cup {a + 1}
    BY <1>1
  <2>6. CASE k = key
    <3>1. new = old \cup {a + 1} /\ after \in SUBSET (before \cup {a + 1})
      BY <2>2, <2>5, <2>6
    <3>2. a + 1 \notin before
      BY <2>2
    <3> HIDE DEF before, after, old, new, key
    <3>3. Cardinality(new) = Cardinality(old) + 1
      <4>1. a + 1 \notin old /\ IsFiniteSet(old) /\ Cardinality(old) \in Nat
        BY <2>2, <2>3
      <4>2. Cardinality(old \cup {a + 1}) = Cardinality(old) + 1
        BY <4>1, FS_AddElement
      <4> QED
        BY <3>1, <4>2
    <3>4. IsFiniteSet(before \cup {a + 1}) /\ Cardinality(before \cup {a + 1}) = Cardinality(before) + 1
      BY <2>3, <3>2, FS_AddElement
    <3>5. Cardinality(after) <= Cardinality(before) + 1
      BY <3>1, <3>4, FS_Subset
    <3>6. /\ list[r].count <= Cardinality(new)
          /\ list[r].count + Cardinality(after) <= Cardinality(new) + (IF list[r].from = "catchup" THEN 1 ELSE 0)
      <4>1. PICK extra \in {0, 1} : extra = IF list[r].from = "catchup" THEN 1 ELSE 0
        OBVIOUS
      <4>2. PICK count \in Nat, least \in Nat, most \in Nat, total \in Nat :
              /\ count = list[r].count /\ least = Cardinality(after)
              /\ most = Cardinality(before) /\ total = Cardinality(old)
        BY <2>1, <2>3, <2>4
      <4>3. count <= total /\ count + most <= total + extra /\ least <= most + 1
        BY <2>1, <3>5, <4>1, <4>2
      <4>4. count <= total + 1 /\ count + least <= total + 1 + extra
        BY <4>3
      <4> QED
        BY <3>3, <4>1, <4>2, <4>4
    <3> QED
      BY <3>6 DEF new, after, key
  <2>7. CASE k # key
    <3>1. new = old
      BY <2>2, <2>7
    <3>2. after \in SUBSET before
      BY <2>2, <2>5, <3>1
    <3> HIDE DEF before, after, old, new, key
    <3>3. Cardinality(after) <= Cardinality(before)
      BY <2>3, <3>2, FS_Subset
    <3>4. /\ list[r].count <= Cardinality(new)
          /\ list[r].count + Cardinality(after) <= Cardinality(new) + (IF list[r].from = "catchup" THEN 1 ELSE 0)
      BY <2>1, <2>3, <2>4, <3>1, <3>3
    <3> QED
      BY <3>4 DEF new, after, key
  <2> QED
    BY <2>6, <2>7
<1> QED
  BY <1>4, <1>6 DEF Screen, Counted

\* A signal more in the day's list, and a live message for it at the end of W.
Announced(d, e, W, V) ==
  /\ d \in Seq(Keys) /\ e \in Seq(Keys) /\ Len(e) = Len(d) + 1
  /\ V \in Seq(Sent) /\ Len(V) = Len(W) + 1
  /\ V[Len(W) + 1].n = Len(d) + 1 /\ ~V[Len(W) + 1].catchup
  /\ \A j \in 1 .. Len(W) : V[j] = W[j]

\* publish does both in one transaction.
LEMMA AnnouncedBy ==
  ASSUME NEW d \in Seq(Keys), NEW k \in Keys, NEW W \in Seq(Sent)
  PROVE  Announced(d, Append(d, k), W, Append(W, Live(Len(d) + 1)))
<1>1. Len(d) \in Nat
  BY LenProperties
<1>2. PICK msg : msg = Live(Len(d) + 1)
  OBVIOUS
<1>3. msg \in Sent /\ msg.n = Len(d) + 1 /\ ~msg.catchup
  BY <1>1, <1>2 DEF Live, Sent
<1>4. Append(d, k) \in Seq(Keys) /\ Len(Append(d, k)) = Len(d) + 1
  BY AppendProperties
<1>5. /\ Append(W, msg) \in Seq(Sent) /\ Len(Append(W, msg)) = Len(W) + 1
      /\ Append(W, msg)[Len(W) + 1] = msg /\ \A j \in 1 .. Len(W) : Append(W, msg)[j] = W[j]
  BY <1>3, AppendProperties
<1> QED
  BY <1>2, <1>3, <1>4, <1>5 DEF Announced

\* The way is as before, and the newest signal follows.
LEMMA AnnouncedIs ==
  ASSUME NEW d, NEW e, NEW W, NEW V, NEW c \in Nat,
         AllOfDay(d, W), Ascending(W), Announced(d, e, W, V)
  PROVE  /\ AllOfDay(e, V) /\ Ascending(V)
         /\ LiveToCome(V, 0) \subseteq LiveToCome(W, 0) \cup {Len(d) + 1}
         /\ Complete(d, W, c) => Complete(e, V, c)
         /\ Follows(V, 0, Len(d) + 1) /\ \A n : Follows(W, 0, n) => Follows(V, 0, n)
<1>1. PICK a \in Nat : a = Len(d)
  BY LenProperties DEF Announced
<1>2. Len(e) = a + 1
  BY <1>1 DEF Announced
<1>3. W \in Seq(Sent)
  BY DEF AllOfDay
<1>4. PICK b \in Nat : b = Len(W)
  BY <1>3, LenProperties
<1>5. PICK msg : msg = V[b + 1]
  OBVIOUS
<1>6. msg.n = a + 1 /\ ~msg.catchup
  BY <1>1, <1>4, <1>5 DEF Announced
<1>7. /\ V \in Seq(Sent) /\ Len(V) = b + 1 /\ V[b + 1] = msg
      /\ \A j \in 1 .. b : V[j] = W[j]
  BY <1>4, <1>5 DEF Announced
<1>8. DOMAIN V = 1 .. b + 1 /\ DOMAIN W = 1 .. b
  BY <1>3, <1>4, <1>7, LenProperties
<1>9. \A j \in 1 .. b : W[j].n \in 1 .. a /\ V[j] = W[j]
  BY <1>1, <1>7, <1>8 DEF AllOfDay
<1>10. AllOfDay(e, V)
  <2>1. ASSUME NEW j \in 1 .. b + 1
        PROVE  V[j].n \in 1 .. a + 1
    <3>1. CASE j \in 1 .. b
      BY <1>9, <3>1
    <3>2. CASE j = b + 1
      BY <1>6, <1>7, <3>2
    <3> QED
      BY <3>1, <3>2
  <2> QED
    BY <1>2, <1>7, <1>8, <2>1 DEF AllOfDay
<1>11. Ascending(V)
  <2> SUFFICES ASSUME NEW j \in 1 .. b + 1, NEW h \in 1 .. b + 1, j < h, ~V[j].catchup, ~V[h].catchup
               PROVE  V[j].n < V[h].n
    BY <1>8 DEF Ascending
  <2>1. j \in 1 .. b
    OBVIOUS
  <2>2. CASE h = b + 1
    BY <1>6, <1>7, <1>9, <2>1, <2>2
  <2>3. CASE h \in 1 .. b
    BY <1>8, <1>9, <2>1, <2>3 DEF Ascending
  <2> QED
    BY <2>2, <2>3
<1>12. ASSUME NEW n \in LiveToCome(V, 0)
       PROVE  n \in LiveToCome(W, 0) \cup {a + 1}
  <2>1. PICK j \in 0 + 1 .. b + 1 : ~V[j].catchup /\ n = V[j].n
    BY <1>7, <1>12 DEF LiveToCome
  <2>2. CASE j = b + 1
    BY <1>6, <1>7, <2>1, <2>2
  <2>3. CASE j # b + 1
    <3>1. j \in 0 + 1 .. b /\ j \in 1 .. b
      BY <2>3
    <3> QED
      BY <1>4, <1>7, <2>1, <3>1 DEF LiveToCome
  <2> QED
    BY <2>2, <2>3
<1>13. ASSUME Complete(d, W, c), NEW j \in 1 .. b + 1, NEW n \in c + 1 .. a + 1, n >= V[j].n
       PROVE  \E h \in j .. b + 1 : V[h].n = n
  <2>1. CASE n = a + 1
    <3>1. b + 1 \in j .. b + 1
      OBVIOUS
    <3> QED
      BY <1>6, <1>7, <2>1, <3>1
  <2>2. CASE n # a + 1
    <3>1. n \in c + 1 .. a /\ n <= a
      BY <2>2
    <3>2. j \in 1 .. b
      <4>1. SUFFICES ASSUME j = b + 1
                     PROVE  FALSE
        OBVIOUS
      <4> QED
        BY <1>6, <1>7, <1>13, <3>1, <4>1
    <3>3. j \in DOMAIN W /\ n >= W[j].n /\ n \in c + 1 .. Len(d)
      BY <1>1, <1>8, <1>9, <1>13, <3>1, <3>2
    <3>4. PICK h \in j .. b : W[h].n = n
      BY <1>4, <1>13, <3>3 DEF Complete
    <3>5. h \in 1 .. b /\ h \in j .. b + 1
      OBVIOUS
    <3> QED
      BY <1>9, <3>4, <3>5
  <2> QED
    BY <2>1, <2>2
<1>14. Follows(V, 0, a + 1)
  <2>1. b + 1 \in 0 + 1 .. b + 1
    OBVIOUS
  <2> QED
    BY <1>6, <1>7, <2>1 DEF Follows
<1>15. ASSUME NEW n, Follows(W, 0, n)
       PROVE  Follows(V, 0, n)
  <2>1. PICK j \in 0 + 1 .. b : W[j].n = n
    BY <1>4, <1>15 DEF Follows
  <2>2. j \in 1 .. b /\ j \in 0 + 1 .. b + 1
    OBVIOUS
  <2> QED
    BY <1>7, <1>9, <2>1, <2>2 DEF Follows
<1> QED
  BY <1>1, <1>2, <1>7, <1>8, <1>10, <1>11, <1>12, <1>13, <1>14, <1>15 DEF Complete

\* A signal is published: those who listen will hear of it.
LEMMA PublishScreen ==
  ASSUME IInv, ScreenInv, NEW k \in Keys, Publish(k)
  PROVE  ScreenInv'
<1>1. /\ daily \in Seq(Keys) /\ pending \in Seq(Sent) /\ stream \in Seq(Sent) /\ cut \in Nat /\ cleared \in Nat
      /\ AllOfDay(daily, Way) /\ Ascending(Way) /\ Screen(daily, rows, Way, 0)
      /\ ~paused => pending = <<>>
      /\ session = "down" => stream = <<>>
      /\ session = "subscribed" /\ reader => Complete(daily, stream, 0)
      /\ session = "open" /\ reader => Complete(daily, Way, cut) /\ UpToDate(daily, rows, Way, 0, cut, cleared)
      /\ daily' = Append(daily, k) /\ session' = session /\ reader' = reader /\ cut' = cut /\ paused' = paused
      /\ cleared' = cleared /\ pending' = pending /\ rows' = rows
      /\ stream' = IF Hears THEN Append(stream, Live(Len(daily) + 1)) ELSE stream
  BY DEF IInv, WayType, ScreenInv, Publish, browserVars
<1>2. PICK e : e = Append(daily, k)
  OBVIOUS
<1>3. PICK a \in Nat : a = Len(daily)
  BY <1>1, LenProperties
<1>4. e \in Seq(Keys) /\ Len(e) = a + 1 /\ \A j \in 1 .. a : e[j] = daily[j]
  BY <1>1, <1>2, <1>3, AppendProperties
<1>5. CASE ~Hears
  <2>1. stream' = stream /\ Way' = Way
    BY <1>1, <1>5 DEF Way
  <2>2. AllOfDay(e, Way)
    BY <1>1, <1>3, <1>4 DEF AllOfDay
  <2>3. Screen(e, rows, Way, 0)
    BY <1>1, <1>2, PublishRows
  <2>4. ~(session = "open" /\ reader) /\ ~(session = "subscribed" /\ reader)
    BY <1>5 DEF Hears
  <2> QED
    BY <1>1, <1>2, <2>1, <2>2, <2>3, <2>4 DEF ScreenInv
<1>6. CASE Hears
  <2>1. PICK s : s = Append(stream, Live(a + 1))
    OBVIOUS
  <2>2. PICK V : V = Append(Way, Live(a + 1))
    OBVIOUS
  <2>3. Way' = V
    <3>1. pending \o Append(stream, Live(a + 1)) = Append(pending \o stream, Live(a + 1))
      <4>1. Live(a + 1) \in Sent
        BY DEF Live, Sent
      <4>2. PICK msg \in Sent : msg = Live(a + 1)
        BY <4>1
      <4>3. pending \in Seq(Sent) /\ stream \in Seq(Sent)
        BY <1>1
      <4>4. pending \o Append(stream, msg) = Append(pending \o stream, msg)
        BY <4>3
      <4> QED
        BY <4>2, <4>4
    <3> QED
      BY <1>1, <1>3, <1>6, <2>2, <3>1 DEF Way
  <2>4. /\ AllOfDay(e, V) /\ Ascending(V)
        /\ LiveToCome(V, 0) \subseteq LiveToCome(Way, 0) \cup {Len(daily) + 1}
        /\ Complete(daily, Way, cut) => Complete(e, V, cut)
        /\ Follows(V, 0, a + 1) /\ \A n : Follows(Way, 0, n) => Follows(V, 0, n)
    <3>1. V = Append(Way, Live(Len(daily) + 1)) /\ Way \in Seq(Sent)
      BY <1>1, <1>3, <2>2 DEF AllOfDay
    <3>2. Announced(daily, e, Way, V)
      BY <1>1, <1>2, <3>1, AnnouncedBy
    <3>3. /\ AllOfDay(e, V) /\ Ascending(V)
          /\ LiveToCome(V, 0) \subseteq LiveToCome(Way, 0) \cup {Len(daily) + 1}
          /\ Complete(daily, Way, cut) => Complete(e, V, cut)
          /\ Follows(V, 0, Len(daily) + 1) /\ \A n : Follows(Way, 0, n) => Follows(V, 0, n)
      BY <1>1, <3>2, AnnouncedIs
    <3> QED
      BY <1>3, <3>1, <3>3
  <2>5. Screen(e, rows, V, 0)
    BY <1>1, <1>2, <2>4, PublishRows
  <2>6. ASSUME session = "subscribed", reader
        PROVE  Complete(e, s, 0)
    <3>1. AllOfDay(daily, stream) /\ Ascending(stream)
      <4>1. Rest(Way, Len(pending), stream) /\ Len(pending) \in Nat
        BY <1>1, WayIs DEF Way
      <4> QED
        BY <1>1, <4>1, RestIs
    <3>2. s = Append(stream, Live(Len(daily) + 1))
      BY <1>3, <2>1
    <3>3. Complete(daily, stream, 0) /\ 0 \in Nat
      BY <1>1, <2>6
    <3>4. Announced(daily, e, stream, s)
      BY <1>1, <1>2, <3>2, AnnouncedBy
    <3> QED
      BY <3>1, <3>3, <3>4, AnnouncedIs
  <2>7. ASSUME session = "open", reader
        PROVE  Complete(e, V, cut) /\ UpToDate(e, rows, V, 0, cut, cleared)
    <3>1. Complete(daily, Way, cut) /\ Shown(daily, rows, Way, 0, cut, cleared) /\ Ordered(rows, Way, 0, cut)
      BY <1>1, <2>7 DEF UpToDate
    <3>2. Ordered(rows, V, 0, cut)
      BY <2>4, <3>1 DEF Ordered
    <3>3. ASSUME NEW n \in cut + 1 .. Len(e), n > cleared, IsLast(e, n), ~Follows(V, 0, n)
          PROVE  \/ \E r \in DOMAIN rows : rows[r].n = n
                 \/ Len(rows) = MaxSignals /\ \A r \in DOMAIN rows : rows[r].n > n
      <4>1. n # a + 1 /\ ~Follows(Way, 0, n)
        BY <2>4, <3>3
      <4>2. n \in cut + 1 .. Len(daily) /\ n \in 1 .. a
        BY <1>1, <1>3, <1>4, <4>1
      <4>3. IsLast(daily, n)
        <5>1. ASSUME NEW m \in n + 1 .. Len(daily)
              PROVE  daily[m] # daily[n]
          <6>1. m \in n + 1 .. Len(e) /\ m \in 1 .. a
            BY <1>3, <1>4, <4>2
          <6> QED
            BY <1>4, <3>3, <4>2, <6>1 DEF IsLast
        <5> QED
          BY <5>1 DEF IsLast
      <4> QED
        BY <3>1, <3>3, <4>1, <4>2, <4>3 DEF Shown
    <3>4. Shown(e, rows, V, 0, cut, cleared)
      BY <3>3 DEF Shown
    <3> QED
      BY <2>4, <3>1, <3>2, <3>4 DEF UpToDate
  <2>8. stream' = s /\ daily' = e /\ session # "down"
    BY <1>1, <1>2, <1>3, <1>6, <2>1 DEF Hears
  <2> QED
    BY <1>1, <2>3, <2>4, <2>5, <2>6, <2>7, <2>8 DEF ScreenInv
<1> QED
  BY <1>5, <1>6

\* R is a replay of the day's signals from c on, for the way between p and s.
Replay(d, p, R, s, c) ==
  /\ d \in Seq(Keys) /\ p \in Seq(Sent) /\ R \in Seq(Sent) /\ s \in Seq(Sent)
  /\ Len(R) = Len(d) - c
  /\ \A i \in 1 .. Len(R) : R[i].n = c + i /\ R[i].catchup
  /\ AllOfDay(d, p \o s) /\ Ascending(p \o s)

\* A replay put between the buffer and the stream.
LEMMA ReplayIs ==
  ASSUME NEW d, NEW p, NEW R, NEW s, NEW c \in Nat, Replay(d, p, R, s, c)
  PROVE  /\ AllOfDay(d, p \o (R \o s)) /\ Ascending(p \o (R \o s))
         /\ LiveToCome(p \o (R \o s), 0) \subseteq LiveToCome(p \o s, 0)
         /\ \A n \in c + 1 .. Len(d) : Follows(p \o (R \o s), 0, n)
         /\ Complete(d, s, 0) => Complete(d, p \o (R \o s), c)
<1>1. p \in Seq(Sent) /\ R \in Seq(Sent) /\ s \in Seq(Sent)
  BY DEF Replay
<1>2. PICK a \in Nat : a = Len(p)
  BY <1>1, LenProperties
<1>3. PICK b \in Nat : b = Len(R)
  BY <1>1, LenProperties
<1>4. PICK e \in Nat : e = Len(s)
  BY <1>1, LenProperties
<1>5. PICK l \in Nat : l = Len(d)
  BY LenProperties DEF Replay
<1>6. b = l - c /\ \A i \in 1 .. b : R[i].n = c + i /\ R[i].catchup
  BY <1>3, <1>5 DEF Replay
<1>7. PICK W : W = p \o s
  OBVIOUS
<1>8. PICK t : t = R \o s
  OBVIOUS
<1>9. PICK V : V = p \o t
  OBVIOUS
<1>10. /\ W \in Seq(Sent) /\ Len(W) = a + e /\ DOMAIN W = 1 .. a + e
       /\ \A j \in 1 .. a : W[j] = p[j]
  BY <1>1, <1>2, <1>4, <1>7, WayIs, LenProperties
<1>11. \A j \in 1 .. e : W[a + j] = s[j]
  BY <1>1, <1>2, <1>4, <1>7, WayIs
<1>12. /\ t \in Seq(Sent) /\ Len(t) = b + e
       /\ \A j \in 1 .. b : t[j] = R[j]
       /\ \A j \in 1 .. e : t[b + j] = s[j]
  BY <1>1, <1>3, <1>4, <1>8, WayIs
<1>13. /\ V \in Seq(Sent) /\ Len(V) = a + (b + e)
       /\ \A j \in 1 .. a : V[j] = p[j]
       /\ \A j \in 1 .. b + e : V[a + j] = t[j]
  <2>1. /\ V \in Seq(Sent) /\ Len(V) = Len(p) + Len(t)
        /\ \A j \in 1 .. Len(p) : V[j] = p[j]
        /\ \A j \in 1 .. Len(t) : V[Len(p) + j] = t[j]
    <3>1. p \in Seq(Sent) /\ t \in Seq(Sent)
      BY <1>1, <1>12
    <3> QED
      BY <1>9, <3>1, WayIs
  <2>2. Len(p) = a /\ Len(t) = b + e
    BY <1>2, <1>12
  <2>3. Len(V) = a + (b + e) /\ \A j \in 1 .. a : V[j] = p[j]
    BY <2>1, <2>2
  <2>4. \A j \in 1 .. b + e : V[a + j] = t[j]
    BY <2>1, <2>2
  <2> QED
    BY <2>1, <2>3, <2>4
<1>14. DOMAIN V = 1 .. a + (b + e)
  BY <1>13, LenProperties
<1>15. AllOfDay(d, W) /\ Ascending(W)
  BY <1>7 DEF Replay
<1>16. ASSUME NEW i \in 1 .. b
       PROVE  /\ a + i \in DOMAIN V /\ V[a + i].n = c + i /\ V[a + i].catchup /\ c + i \in 1 .. l
  <2>1. a + i \in 1 .. a + (b + e) /\ i \in 1 .. b + e /\ c + i \in 1 .. l
    BY <1>6
  <2>2. V[a + i] = R[i]
    BY <1>12, <1>13, <2>1
  <2> QED
    BY <1>6, <1>14, <2>1, <2>2
<1>17. ASSUME NEW i \in 1 .. e
       PROVE  V[a + b + i] = s[i] /\ V[a + b + i] = W[a + i] /\ a + i \in DOMAIN W
  <2>1. b + i \in 1 .. b + e /\ a + (b + i) = a + b + i /\ a + i \in 1 .. a + e
    OBVIOUS
  <2>2. V[a + b + i] = t[b + i]
    BY <1>13, <2>1
  <2>3. t[b + i] = s[i]
    BY <1>12
  <2>4. W[a + i] = s[i]
    BY <1>11
  <2>5. a + i \in DOMAIN W
    <3>1. a + i \in 1 .. a + e
      BY <2>1
    <3> QED
      BY <1>10, <3>1
  <2> QED
    BY <2>2, <2>3, <2>4, <2>5
<1>18. ASSUME NEW j \in 1 .. a + (b + e)
       PROVE  \/ j \in 1 .. a /\ V[j] = W[j] /\ j \in DOMAIN W
              \/ j - a \in 1 .. b /\ a + (j - a) = j
              \/ j - a - b \in 1 .. e /\ a + b + (j - a - b) = j
  <2>1. CASE j <= a
    <3>1. j \in 1 .. a /\ j \in 1 .. a + e
      BY <2>1
    <3> QED
      BY <1>10, <1>13, <3>1
  <2>2. CASE a < j /\ j <= a + b
    BY <2>2
  <2>3. CASE a + b < j
    BY <2>3
  <2> QED
    BY <2>1, <2>2, <2>3
<1>19. AllOfDay(d, V)
  <2>1. ASSUME NEW j \in 1 .. a + (b + e)
        PROVE  V[j].n \in 1 .. l
    <3>1. CASE j \in 1 .. a /\ V[j] = W[j] /\ j \in DOMAIN W
      BY <1>5, <1>15, <3>1 DEF AllOfDay
    <3>2. CASE j - a \in 1 .. b /\ a + (j - a) = j
      <4>1. V[a + (j - a)].n = c + (j - a) /\ c + (j - a) \in 1 .. l
        BY <1>16, <3>2
      <4> QED
        BY <3>2, <4>1
    <3>3. CASE j - a - b \in 1 .. e /\ a + b + (j - a - b) = j
      <4>1. V[a + b + (j - a - b)] = W[a + (j - a - b)] /\ a + (j - a - b) \in DOMAIN W
        BY <1>17, <3>3
      <4>2. V[j] = W[a + (j - a - b)]
        BY <3>3, <4>1
      <4> QED
        BY <1>5, <1>15, <4>1, <4>2 DEF AllOfDay
    <3> QED
      BY <1>18, <3>1, <3>2, <3>3
  <2> QED
    BY <1>5, <1>13, <1>14, <2>1 DEF AllOfDay
<1>20. ASSUME NEW j \in DOMAIN V, ~V[j].catchup
       PROVE  \E h \in DOMAIN W : V[j] = W[h] /\ h = (IF j <= a THEN j ELSE j - b) /\ (j <= a \/ j > a + b)
  <2>1. CASE j \in 1 .. a /\ V[j] = W[j] /\ j \in DOMAIN W
    <3>1. j <= a
      BY <2>1
    <3> QED
      BY <2>1, <3>1
  <2>2. CASE j - a \in 1 .. b /\ a + (j - a) = j
    <3>1. V[a + (j - a)].catchup
      BY <1>16, <2>2
    <3> QED
      BY <1>20, <2>2, <3>1
  <2>3. CASE j - a - b \in 1 .. e /\ a + b + (j - a - b) = j
    <3>1. V[a + b + (j - a - b)] = W[a + (j - a - b)] /\ a + (j - a - b) \in DOMAIN W
      BY <1>17, <2>3
    <3>2. j \in Int
      BY <1>14
    <3>3. a + (j - a - b) = j - b /\ ~(j <= a) /\ j > a + b
      BY <2>3, <3>2
    <3> QED
      BY <2>3, <3>1, <3>3
  <2> QED
    BY <1>14, <1>18, <2>1, <2>2, <2>3
<1>21. Ascending(V)
  <2> SUFFICES ASSUME NEW i \in DOMAIN V, NEW j \in DOMAIN V, i < j, ~V[i].catchup, ~V[j].catchup
               PROVE  V[i].n < V[j].n
    BY DEF Ascending
  <2>1. PICK g \in DOMAIN W : V[i] = W[g] /\ g = (IF i <= a THEN i ELSE i - b) /\ (i <= a \/ i > a + b)
    BY <1>20
  <2>2. PICK h \in DOMAIN W : V[j] = W[h] /\ h = (IF j <= a THEN j ELSE j - b) /\ (j <= a \/ j > a + b)
    BY <1>20
  <2>3. g < h
    <3>1. i \in Int /\ j \in Int
      BY <1>14
    <3> QED
      BY <2>1, <2>2, <3>1
  <2> QED
    BY <1>15, <2>1, <2>2, <2>3 DEF Ascending
<1>22. ASSUME NEW n \in LiveToCome(V, 0)
       PROVE  n \in LiveToCome(W, 0)
  <2>1. PICK j \in 0 + 1 .. Len(V) : ~V[j].catchup /\ n = V[j].n
    BY <1>22 DEF LiveToCome
  <2>2. j \in DOMAIN V
    BY <1>13, <1>14
  <2>3. PICK h \in DOMAIN W : V[j] = W[h]
    BY <1>20, <2>1, <2>2
  <2>4. h \in 0 + 1 .. Len(W)
    BY <1>10
  <2> QED
    BY <2>1, <2>3, <2>4 DEF LiveToCome
<1>23. ASSUME NEW n \in c + 1 .. l
       PROVE  n - c \in 1 .. b /\ a + (n - c) \in 1 .. a + (b + e) /\ V[a + (n - c)].n = n
  <2>1. n - c \in 1 .. b /\ a + (n - c) \in 1 .. a + (b + e) /\ c + (n - c) = n
    BY <1>6
  <2> QED
    BY <1>16, <2>1
<1>24. ASSUME NEW n \in c + 1 .. l
       PROVE  Follows(V, 0, n)
  <2>1. a + (n - c) \in 0 + 1 .. Len(V)
    <3>1. a + (n - c) \in 1 .. a + (b + e)
      BY <1>23
    <3>2. Len(V) = a + (b + e) /\ 0 + 1 = 1
      BY <1>13
    <3> QED
      BY <3>1, <3>2
  <2> QED
    BY <1>23, <2>1 DEF Follows
<1>25. ASSUME Complete(d, s, 0), NEW j \in 1 .. a + (b + e), NEW n \in c + 1 .. l, n >= V[j].n
       PROVE  \E h \in j .. a + (b + e) : V[h].n = n
  <2>1. CASE j <= a
    <3>1. a + (n - c) \in j .. a + (b + e)
      BY <1>23, <2>1
    <3> QED
      BY <1>23, <3>1
  <2>2. CASE j - a \in 1 .. b /\ a + (j - a) = j
    <3>1. V[a + (j - a)].n = c + (j - a)
      BY <1>16, <2>2
    <3>2. n >= c + (j - a)
      BY <1>25, <2>2, <3>1
    <3>3. a + (n - c) \in j .. a + (b + e)
      BY <1>23, <3>2
    <3> QED
      BY <1>23, <3>3
  <2>3. CASE j - a - b \in 1 .. e /\ a + b + (j - a - b) = j
    <3>1. V[a + b + (j - a - b)] = s[j - a - b]
      BY <1>17, <2>3
    <3>2. DOMAIN s = 1 .. e
      BY <1>4, <1>1, LenProperties
    <3>3. n >= s[j - a - b].n /\ j - a - b \in DOMAIN s /\ n \in 0 + 1 .. Len(d)
      BY <1>5, <1>25, <2>3, <3>1, <3>2
    <3>4. PICK h \in j - a - b .. e : s[h].n = n
      BY <1>4, <1>25, <3>3 DEF Complete
    <3>5. h \in 1 .. e /\ a + b + h \in j .. a + (b + e)
      BY <2>3
    <3>6. V[a + b + h] = s[h]
      BY <1>17, <3>5
    <3> QED
      BY <3>4, <3>5, <3>6
  <2>4. j <= a \/ (j - a \in 1 .. b /\ a + (j - a) = j) \/ (j - a - b \in 1 .. e /\ a + b + (j - a - b) = j)
    OBVIOUS
  <2> QED
    BY <2>1, <2>2, <2>3, <2>4
<1>26. Complete(d, s, 0) => Complete(d, V, c)
  BY <1>5, <1>13, <1>14, <1>25 DEF Complete
<1> QED
  BY <1>5, <1>7, <1>8, <1>9, <1>19, <1>21, <1>22, <1>24, <1>26

\* The replay brings every signal that is not too old.
LEMMA ReadRecentScreen ==
  ASSUME IInv, ScreenInv, ReadRecent
  PROVE  ScreenInv'
<1>1. /\ daily \in Seq(Keys) /\ pending \in Seq(Sent) /\ stream \in Seq(Sent) /\ cut \in Nat /\ cleared \in Nat
      /\ AllOfDay(daily, Way) /\ Ascending(Way) /\ Screen(daily, rows, Way, 0)
      /\ ~paused => pending = <<>>
      /\ reader => Complete(daily, stream, 0)
      /\ daily' = daily /\ session' = "open" /\ reader' = reader /\ cut' = TooOld /\ paused' = paused
      /\ cleared' = cleared /\ pending' = pending /\ rows' = rows /\ stream' = RecentSignals \o stream
  BY DEF IInv, WayType, ScreenInv, ReadRecent, browserVars
<1>2. PICK R : R = RecentSignals
  OBVIOUS
<1>3. PICK c : c = TooOld
  OBVIOUS
<1>4. /\ c \in Nat /\ R \in Seq(Sent) /\ Len(R) = Len(daily) - c
      /\ \A i \in 1 .. Len(R) : R[i].n = c + i /\ R[i].catchup
  BY <1>1, <1>2, <1>3, RecentIs
<1>5. PICK V : V = pending \o (R \o stream)
  OBVIOUS
<1>6. /\ AllOfDay(daily, V) /\ Ascending(V) /\ LiveToCome(V, 0) \subseteq LiveToCome(Way, 0)
      /\ \A n \in c + 1 .. Len(daily) : Follows(V, 0, n)
      /\ Complete(daily, stream, 0) => Complete(daily, V, c)
  <2>1. AllOfDay(daily, pending \o stream) /\ Ascending(pending \o stream)
    BY <1>1 DEF Way
  <2>2. Replay(daily, pending, R, stream, c)
    BY <1>1, <1>4, <2>1 DEF Replay
  <2> QED
    BY <1>4, <1>5, <2>2, ReplayIs DEF Way
<1>7. Screen(daily, rows, V, 0)
  <2>1. RowsOK(daily, rows) /\ Counted(daily, rows, Way, 0)
    BY <1>1 DEF Screen
  <2>2. Counted(daily, rows, V, 0)
    BY <1>1, <1>6, <2>1, CountedStays
  <2> QED
    BY <2>1, <2>2 DEF Screen
<1>8. Shown(daily, rows, V, 0, c, cleared)
  BY <1>6 DEF Shown
<1>9. Ordered(rows, V, 0, c)
  <2>1. \A r \in DOMAIN rows : rows[r].n \in 1 .. Len(daily)
    BY <1>1 DEF Screen, RowsOK
  <2>2. Len(daily) \in Nat
    BY <1>1, LenProperties
  <2>3. ASSUME NEW r \in DOMAIN rows, rows[r].n > c
        PROVE  Follows(V, 0, rows[r].n)
    <3>1. rows[r].n \in c + 1 .. Len(daily)
      BY <1>4, <2>1, <2>2, <2>3
    <3> QED
      BY <1>6, <3>1
  <2> QED
    BY <2>3 DEF Ordered
<1>10. Way' = V /\ cut' = c
  BY <1>1, <1>2, <1>3, <1>5 DEF Way
<1> QED
  BY <1>1, <1>4, <1>6, <1>7, <1>8, <1>9, <1>10 DEF ScreenInv, UpToDate

\* Neither the rows nor the way to them change.
LEMMA StableScreen ==
  ASSUME IInv, ScreenInv, UNCHANGED <<daily, stream, cut, pending, rows, cleared>>,
         \/ UNCHANGED <<session, reader, paused>>
         \/ UNCHANGED <<session, reader>> /\ paused' = TRUE
         \/ session = "down" /\ session' = "subscribed" /\ paused' = paused
  PROVE  ScreenInv'
<1>1. /\ daily' = daily /\ stream' = stream /\ cut' = cut /\ pending' = pending /\ rows' = rows
      /\ cleared' = cleared /\ Way' = Way
  BY DEF Way
<1>2. CASE UNCHANGED <<session, reader>> /\ (paused' = paused \/ paused' = TRUE)
  BY <1>1, <1>2 DEF ScreenInv
<1>3. CASE session = "down" /\ session' = "subscribed" /\ paused' = paused
  <2>1. stream = <<>>
    BY <1>3 DEF ScreenInv
  <2>2. Complete(daily, stream, 0)
    BY <2>1, NothingComes
  <2> QED
    BY <1>1, <1>3, <2>2 DEF ScreenInv
<1> QED
  BY <1>2, <1>3

\* Every step keeps the invariant of the screen.
LEMMA ScreenNext ==
  ASSUME IInv, ScreenInv, [Next]_vars
  PROVE  ScreenInv'
<1>1. ASSUME NEW k \in Keys, Publish(k) PROVE ScreenInv'
  BY <1>1, PublishScreen
<1>2. CASE ReadRecent
  BY <1>2, ReadRecentScreen
<1>3. CASE Receive
  BY <1>3, ReceiveScreen
<1>4. CASE Drop
  <2>1. /\ reader' = FALSE /\ UNCHANGED <<daily, cut, browserVars>> /\ stream' = <<>> /\ stream \in Seq(Sent)
    BY <1>4 DEF Drop, HangUp, IInv, WayType
  <2>2. PICK none : none = <<>>
    OBVIOUS
  <2>3. Start(stream, none)
    <3>1. none \in Seq(Sent) /\ Len(none) = 0 /\ DOMAIN none = {}
      BY <2>2
    <3>2. Len(stream) \in Nat
      BY <2>1, LenProperties
    <3> QED
      BY <3>1, <3>2 DEF Start
  <2> QED
    BY <2>1, <2>2, <2>3, LostScreen
<1>5. CASE Reload
  BY <1>5, ReloadScreen
<1>6. ASSUME NEW kept \in 0 .. Len(stream), ReaderDies(kept) PROVE ScreenInv'
  <2>1. /\ reader' = FALSE /\ UNCHANGED <<daily, session, cut, browserVars>> /\ session # "down"
        /\ stream' = SubSeq(stream, 1, kept) /\ stream \in Seq(Sent)
    BY <1>6 DEF ReaderDies, IInv, WayType
  <2>2. PICK V : V = SubSeq(stream, 1, kept)
    OBVIOUS
  <2>3. Start(stream, V)
    <3>1. PICK b \in Nat : b = Len(stream)
      BY <2>1, LenProperties
    <3>2. \A j \in 1 .. kept : stream[j] \in Sent
      BY <2>1, <3>1, ElementOfSeq
    <3>3. /\ V \in Seq(Sent) /\ Len(V) = IF 1 <= kept THEN kept - 1 + 1 ELSE 0
          /\ \A j \in 1 .. kept - 1 + 1 : V[j] = stream[1 + j - 1]
      BY <2>2, <3>1, <3>2, SubSeqProperties
    <3>4. Len(V) = kept /\ kept <= b /\ kept \in Nat
      BY <3>1, <3>3
    <3>5. DOMAIN V = 1 .. kept
      BY <3>3, <3>4, LenProperties
    <3>6. \A j \in 1 .. kept : V[j] = stream[j]
      BY <3>3, <3>4
    <3> QED
      BY <3>1, <3>3, <3>4, <3>5, <3>6 DEF Start
  <2>4. stream' = V /\ session' # "down"
    BY <2>1, <2>2
  <2> QED
    BY <2>1, <2>3, <2>4, LostScreen
<1>7. CASE Subscribe
  BY <1>7, StableScreen DEF Subscribe, browserVars
<1>8. CASE Pause
  BY <1>8, StableScreen DEF Pause, serverVars
<1>9. CASE Resume
  BY <1>9, ResumeScreen
<1>10. CASE Clear
  BY <1>10, ClearScreen
<1>11. CASE UNCHANGED vars
  BY <1>11, StableScreen DEF vars, serverVars, browserVars
<1> QED
  BY <1>1, <1>2, <1>3, <1>4, <1>5, <1>6, <1>7, <1>8, <1>9, <1>10, <1>11 DEF Next

\* So it holds in every state.
LEMMA ScreenHolds == Spec => []ScreenInv
<1>1. ASSUME Init
      PROVE  ScreenInv
  <2>1. /\ daily = <<>> /\ session = "down" /\ stream = <<>> /\ pending = <<>> /\ rows = <<>>
        /\ cut = 0 /\ cleared = 0 /\ Way = <<>>
    BY <1>1 DEF Init, Way
  <2>2. PICK none : none = <<>>
    OBVIOUS
  <2>3. none \in Seq(AnyRow) /\ none \in Seq(Sent) /\ Len(none) = 0 /\ DOMAIN none = {}
    BY <2>2
  <2>4. AllOfDay(none, none) /\ Ascending(none)
    BY <2>2, NothingComes
  <2>5. Screen(none, none, none, 0)
    BY <2>3, StreamAssumption DEF Screen, RowsOK, Counted
  <2> QED
    BY <2>1, <2>2, <2>3, <2>4, <2>5 DEF ScreenInv
<1> QED
  BY <1>1, ScreenNext, IInvHolds, PTL DEF Spec

\* The newest signal of a key is one of the key's, and the last.
LEMMA NewestIs ==
  ASSUME daily \in Seq(Keys), NEW k \in ToSet(daily)
  PROVE  Newest(k) \in 1 .. Len(daily) /\ daily[Newest(k)] = k /\ IsLast(daily, Newest(k))
<1>1. PICK l \in Nat : l = Len(daily)
  BY LenProperties
<1> DEFINE all == {n \in 1 .. l : daily[n] = k}
           above == {l - n : n \in all}
<1>2. \E n \in 1 .. l : daily[n] = k
  BY <1>1, LenProperties DEF ToSet
<1>3. above \subseteq Nat /\ above # {}
  BY <1>2
<1>4. PICK x \in above : \A y \in above : x <= y
  <2> HIDE DEF above
  <2> QED
    BY <1>3, LeastOfNats
<1>5. PICK n \in all : x = l - n
  BY <1>4
<1>6. \A m \in all : n >= m
  <2>1. ASSUME NEW m \in all
        PROVE  n >= m
    <3>1. l - m \in above
      OBVIOUS
    <3>2. l - n <= l - m
      BY <1>4, <1>5, <3>1
    <3> QED
      BY <3>2
  <2> QED
    BY <2>1
<1>7. Newest(k) = Max(all)
  BY <1>1 DEF Newest
<1>8. Max(all) \in all /\ \A m \in all : Max(all) >= m
  <2> HIDE DEF all
  <2> QED
    BY <1>6 DEF Max
<1>9. PICK w : w = Newest(k)
  OBVIOUS
<1>10. w \in 1 .. l /\ daily[w] = k /\ \A m \in 1 .. l : daily[m] = k => w >= m
  BY <1>7, <1>8, <1>9
<1>11. IsLast(daily, w)
  <2>1. ASSUME NEW m \in w + 1 .. Len(daily)
        PROVE  daily[m] # daily[w]
    <3>1. m \in 1 .. l /\ ~(w >= m)
      BY <1>1, <1>10
    <3> QED
      BY <1>10, <3>1
  <2> QED
    BY <2>1 DEF IsLast
<1> QED
  BY <1>1, <1>9, <1>10, <1>11

(***************************************************************************)
(* pushSignal, togglePause, clearSignals and restoreSignals over           *)
(* reconnects and reloads: when the browser has handled what the session   *)
(* has for it, the screen shows the newest signal of every key, the newest *)
(* first, unless the list is full of newer ones, and no row has ever       *)
(* counted more than there were.                                           *)
(***************************************************************************)
THEOREM ScreenIsTheSame == Spec => []SameScreen
<1>1. ASSUME IInv, ScreenInv
      PROVE  SameScreen
  <2>1. daily \in Seq(Keys) /\ cut \in Nat /\ cleared \in Nat /\ RowsOK(daily, rows) /\ Counted(daily, rows, Way, 0)
    BY <1>1 DEF IInv, WayType, ScreenInv, Screen
  <2>2. NotCountedTwice
    BY <2>1 DEF NotCountedTwice, Counted, Occurrences
  <2>3. ASSUME Settled, pending = <<>>
        PROVE  RowsCurrent /\ NewestFirst
    <3>1. Way = <<>> /\ session = "open" /\ reader
      BY <2>3 DEF Settled, Way
    <3>2. PICK none : none = <<>>
      OBVIOUS
    <3>3. \A n : ~Follows(none, 0, n)
      <4>1. Len(none) = 0
        BY <3>2
      <4>2. 0 + 1 .. Len(none) = {}
        BY <4>1
      <4> QED
        BY <4>2 DEF Follows
    <3>4. Shown(daily, rows, none, 0, cut, cleared) /\ Ordered(rows, none, 0, cut)
      BY <1>1, <3>1, <3>2 DEF ScreenInv, UpToDate
    <3>5. NewestFirst
      BY <3>3, <3>4 DEF NewestFirst, Ordered
    <3>6. ASSUME NEW k \in ToSet(daily), Newest(k) > cut, Newest(k) > cleared
          PROVE  \/ \E i \in DOMAIN rows : rows[i].key = k /\ rows[i].n = Newest(k)
                 \/ Len(rows) = MaxSignals /\ \A i \in DOMAIN rows : rows[i].n > Newest(k)
      <4>1. PICK n : n = Newest(k)
        OBVIOUS
      <4>2. n \in 1 .. Len(daily) /\ daily[n] = k /\ IsLast(daily, n)
        BY <2>1, <4>1, NewestIs
      <4>3. n \in cut + 1 .. Len(daily)
        <5>1. Len(daily) \in Nat
          BY <2>1, LenProperties
        <5> QED
          BY <2>1, <3>6, <4>1, <4>2, <5>1
      <4>4. \/ \E r \in DOMAIN rows : rows[r].n = n
            \/ Len(rows) = MaxSignals /\ \A r \in DOMAIN rows : rows[r].n > n
        BY <3>3, <3>4, <3>6, <4>1, <4>2, <4>3 DEF Shown
      <4>5. \A r \in DOMAIN rows : rows[r].key = daily[rows[r].n]
        BY <2>1 DEF RowsOK
      <4> QED
        BY <4>1, <4>2, <4>4, <4>5
    <3> QED
      BY <3>5, <3>6 DEF RowsCurrent
  <2> QED
    BY <2>2, <2>3 DEF SameScreen
<1> QED
  BY <1>1, IInvHolds, ScreenHolds, PTL

=============================================================================
