-------------------------- MODULE DailySync_proofs --------------------------
(***************************************************************************)
(* What the daily sync guarantees for every universe of symbols, number of *)
(* overlapping runs, calendar of holidays, history and batch size.         *)
(***************************************************************************)
EXTENDS DailySync, FiniteSetTheorems, TLAPS

LEMMA DayNat == ASSUME NEW t \in Nat PROVE Day(t) \in Nat
BY DEF Day

LEMMA DayNext == ASSUME NEW t \in Nat PROVE Day(t) <= Day(t + 1)
BY DEF Day

\* Two times of one day differ by the close only: a time after the close
\* is not followed by a time before it on the same day.
LEMMA DayAfterClose ==
  ASSUME NEW t \in Nat, NEW now \in Nat, t <= now, AfterClose(t), ~AfterClose(now)
  PROVE  Day(t) < Day(now)
BY DEF Day, AfterClose

LEMMA DayMonotone ==
  ASSUME NEW t \in Nat, NEW now \in Nat, t <= now PROVE Day(t) <= Day(now)
BY DEF Day

LEMMA HistoryStartNat == ASSUME NEW t \in Nat PROVE HistoryStart(t) \in Nat
BY DailyAssumption, DayNat DEF HistoryStart

\* The history only moves forward.
LEMMA HistorySlides ==
  ASSUME NEW t \in Nat, NEW now \in Nat, Day(t) <= Day(now)
  PROVE  HistoryStart(t) <= HistoryStart(now)
BY DailyAssumption, DayNat DEF HistoryStart

\* A bounded set of numbers has a maximum.
LEMMA MaxOfBounded ==
  ASSUME NEW S \in SUBSET Nat, S # {}, NEW hi \in Nat, \A x \in S : x <= hi
  PROVE  Max(S) \in S /\ \A x \in S : x <= Max(S)
<1> DEFINE T == {n \in Nat : hi - n \in S}
<1>1. T \subseteq Nat /\ T # {}
  <2>1. PICK x \in S : TRUE
    OBVIOUS
  <2>2. hi - x \in Nat /\ hi - (hi - x) = x
    OBVIOUS
  <2>3. QED BY <2>1, <2>2
<1>2. \E m \in T : \A n \in T : ~ (<<n, m>> \in OpToRel(<, Nat))
  <2> HIDE DEF T
  <2>1. QED BY <1>1, NatLessThanWellFounded, WFMin
<1>3. PICK m \in T : \A n \in T : ~ (n < m)
  BY <1>1, <1>2 DEF OpToRel
<1>4. ASSUME NEW y \in S PROVE hi - m >= y
  <2>1. hi - y \in T
    OBVIOUS
  <2>2. QED BY <1>3, <2>1
<1>5. hi - m \in S
  BY <1>3
<1>6. \E x \in S : \A y \in S : x >= y
  BY <1>4, <1>5
<1>7. Max(S) \in S /\ \A y \in S : Max(S) >= y
  BY <1>6 DEF Max
<1>8. QED
  BY <1>7

-----------------------------------------------------------------------------
(* Type correctness.                                                       *)

LEMMA ClassifyNeedsBar ==
  ASSUME NEW last \in Ts, NEW now \in Nat
  PROVE  /\ ClassifyDaily(last, now) = "INITIAL" <=> last = NoTs
         /\ ClassifyDaily(last, now) = "FETCH_TODAY" =>
              last \in Nat /\ last = Day(now) - 1 /\ AfterClose(now)
         /\ ClassifyDaily(last, now) \in {"INITIAL", "SKIP", "FETCH_GAP", "FETCH_TODAY"}
BY DayNat DEF ClassifyDaily, Ts

\* FETCH_TODAY asks from the bar the symbol has, as FETCH_GAP does.
LEMMA SinceIs ==
  ASSUME NEW r \in Runs, NEW s \in Symbols, seen[r][s] \in Ts, started[r] \in Nat
  PROVE  Since(r, s) = IF seen[r][s] = NoTs THEN HistoryStart(2 * endDay[r]) ELSE seen[r][s]
BY ClassifyNeedsBar DEF Since, Action

LEMMA SinceNat ==
  ASSUME TypeOK, NEW r \in Runs, NEW s \in Symbols PROVE Since(r, s) \in Nat
<1>1. seen[r][s] \in Ts /\ started[r] \in Nat /\ endDay[r] \in Nat
  BY DEF TypeOK
<1>2. 2 * endDay[r] \in Nat
  BY <1>1
<1>3. QED
  BY <1>1, <1>2, SinceIs, HistoryStartNat DEF Ts

\* The newest session of an answer is one of its sessions.
LEMMA NewestSession ==
  ASSUME TypeOK, NEW r \in Runs, NEW s \in Symbols, NEW top \in {endDay[r], endDay[r] - 1},
         Sessions(r, s, top) # {}
  PROVE  /\ Max(Sessions(r, s, top)) \in Sessions(r, s, top)
         /\ Max(Sessions(r, s, top)) \in Nat
<1>1. Since(r, s) \in Nat /\ endDay[r] \in Nat /\ top \in Int
  BY SinceNat DEF TypeOK
<1>2. Sessions(r, s, top) \in SUBSET Nat /\ \A d \in Sessions(r, s, top) : d <= endDay[r]
  BY <1>1 DEF Sessions
<1>3. QED
  BY <1>1, <1>2, MaxOfBounded

LEMMA TypeInit == Init => TypeOK
BY DEF Init, TypeOK, StoreInit, StoreTypeOK, Ts, Statuses, RunStates, NoneSeen, NoData

LEMMA TypeNext == ASSUME TypeOK, [Next]_vars PROVE TypeOK'
<1> USE DEF TypeOK, StoreTypeOK, GoTo, RunStates
<1>1. CASE Tick
  BY <1>1 DEF Tick, storeVars, runVars
<1>2. ASSUME NEW r \in Runs, RunStep(r) PROVE TypeOK'
  <2>1. CASE StartRun(r)
    BY <2>1 DEF StartRun, storeVars
  <2>2. ASSUME NEW b \in SUBSET Symbols, TakeBatch(r, b) PROVE TypeOK'
    BY <2>2, DayNat DEF TakeBatch, storeVars
  <2>3. CASE FinishRun(r)
    BY <2>3 DEF FinishRun, ForgetPlan, NoneSeen, Ts, storeVars
  <2>4. ASSUME NEW answered \in SUBSET batch[r], NEW top \in {endDay[r] - 1, endDay[r]},
               ReceiveBatch(r, answered, top)
        PROVE  TypeOK'
    <3>1. \A s \in Symbols : Sessions(r, s, top) \in SUBSET Nat
      BY SinceNat DEF Sessions
    <3>2. data' \in [Runs -> [Symbols -> SUBSET Nat]]
      BY <2>4, <3>1 DEF ReceiveBatch
    <3>3. \A s \in Symbols : Sessions(r, s, top) # {} => Max(Sessions(r, s, top)) \in Ts
      BY NewestSession DEF Ts
    <3>4. newest' \in [Runs -> [Symbols -> Ts]]
      <4>1. [s \in Symbols |-> IF s \in answered /\ Sessions(r, s, top) # {}
                               THEN Max(Sessions(r, s, top)) ELSE NoTs] \in [Symbols -> Ts]
        BY <3>3 DEF Ts
      <4>2. QED BY <2>4, <4>1 DEF ReceiveBatch
    <3>5. open' \in [Runs -> Ts]
      BY <2>4, DayNat DEF ReceiveBatch, Ts
    <3>6. QED BY <2>4, <3>2, <3>4, <3>5 DEF ReceiveBatch, storeVars
  <2>5. ASSUME NEW whole \in SUBSET Pending(r), NEW part \in Pending(r),
               NEW cut \in data[r][part], IngestChunk(r, whole, part, cut)
        PROVE  TypeOK'
    <3>1. PICK bars \in [Symbols -> SUBSET Nat] :
            /\ rows' = [s \in Symbols |-> rows[s] \cup bars[s]]
            /\ partial' = [s \in Symbols |->
                 partial[s] \cup ((bars[s] \ rows[s]) \cap {open[r]})]
            /\ data' = [data EXCEPT ![r] = [s \in Symbols |-> @[s] \ bars[s]]]
      <4> DEFINE new == [s \in Symbols |->
                           IF s = part THEN {d \in data[r][s] : d <= cut}
                           ELSE IF s \in whole THEN data[r][s] ELSE {}]
      <4>1. new \in [Symbols -> SUBSET Nat]
        OBVIOUS
      <4>2. QED BY <2>5, <4>1 DEF IngestChunk, InsertBars
    <3>2. QED BY <2>5, <3>1 DEF IngestChunk
  <2>6. CASE RecordState(r)
    <3>1. lastTs' \in [Symbols -> Ts] /\ status' \in [Symbols -> Statuses]
      BY <2>6 DEF RecordState, UpdateState, Coalesce, Statuses
    <3>2. QED
      BY <2>6, <3>1 DEF RecordState, UpdateState, ForgetBatch, NoData, NoneSeen, Ts
  <2>7. CASE PersistFails(r)
    BY <2>7 DEF PersistFails, ForgetBatch, NoData, NoneSeen, Ts, storeVars
  <2>8. CASE MarkError(r)
    <3>1. lastTs' \in [Symbols -> Ts] /\ status' \in [Symbols -> Statuses]
      BY <2>8 DEF MarkError, MarkErrorState, Coalesce, Statuses
    <3>2. QED BY <2>8, <3>1 DEF MarkError, MarkErrorState
  <2>9. CASE RunDies(r)
    BY <2>9 DEF RunDies, ForgetPlan, ForgetBatch, NoData, NoneSeen, Ts, storeVars
  <2>10. QED
    BY <1>2, <2>1, <2>2, <2>3, <2>4, <2>5, <2>6, <2>7, <2>8, <2>9 DEF RunStep
<1>3. CASE Crash
  BY <1>3 DEF Crash, storeVars, NoneSeen, NoData, Ts
<1>4. CASE UNCHANGED vars
  BY <1>4 DEF vars, storeVars, runVars
<1>5. QED
  BY <1>1, <1>2, <1>3, <1>4 DEF Next

\* Every variable of the sync keeps its type.
THEOREM TypeCorrect == Spec => []TypeOK
BY TypeInit, TypeNext, PTL DEF Spec

-----------------------------------------------------------------------------
(* No silent hole.  The invariant adds to HistoryComplete that the bar     *)
(* sync_state names is stored, and what a run in flight relies on: its     *)
(* snapshot of sync_state describes bars that are still stored, and what   *)
(* is stored together with what it has downloaded reaches, without a hole, *)
(* the newest bar it will record.                                          *)

\* The bars hold every session from the start of the history to hi.
Covers(bars, now, hi) == (HistoryStart(now) .. hi) \ Holidays \subseteq bars

StoreInv ==
  \A s \in Symbols :
    /\ \A d \in rows[s] : d <= Day(clock)
    /\ lastTs[s] # NoTs => lastTs[s] \in rows[s] /\ Covers(rows[s], clock, lastTs[s])

\* What is stored for a symbol once r has inserted all it holds.
Inserted(r, s) == rows[s] \cup data[r][s]

\* A run holds symbols, a day to ask for and downloads only where it uses them.
Holds(r) ==
  /\ pc[r] = "idle" => todo[r] = {}
  /\ pc[r] \in {"idle", "next"} => batch[r] = {}
  /\ pc[r] \notin {"await", "persist"} => endDay[r] = 0
  /\ pc[r] # "persist" => /\ \A s \in Symbols : data[r][s] = {} /\ newest[r][s] = NoTs
                          /\ open[r] = NoTs

PlanInv(r) ==
  pc[r] # "idle" =>
    /\ started[r] <= clock /\ endDay[r] <= Day(clock)
    /\ \A s \in Symbols : seen[r][s] # NoTs => Covers(rows[s], clock, seen[r][s])

FetchInv(r) ==
  \A s \in Symbols :
    /\ \A d \in data[r][s] : d <= Day(clock)
    /\ newest[r][s] # NoTs =>
         newest[r][s] \in Inserted(r, s) /\ Covers(Inserted(r, s), clock, newest[r][s])

\* What a run fetches it did not classify as SKIP, and a snapshot it holds of
\* an open session was taken before a close that followed its classification.
ActionInv(r) ==
  /\ \A s \in todo[r] \cup batch[r] : Action(r, s) # "SKIP"
  /\ \A s \in Symbols \ batch[r] : data[r][s] = {}
  /\ open[r] # NoTs /\ AfterClose(started[r]) => open[r] > Day(started[r])

RunInv(r) == Holds(r) /\ PlanInv(r) /\ FetchInv(r) /\ ActionInv(r)

IInv == TypeOK /\ StoreInv /\ \A r \in Runs : RunInv(r)

LEMMA IInvInit == Init => IInv
BY TypeInit, DayNat
DEF Init, StoreInit, NoneSeen, NoData, IInv, StoreInv, RunInv, Holds, PlanInv, FetchInv, ActionInv

\* What is covered stays covered while no bar is removed and time goes on.
LEMMA CoversStable ==
  ASSUME NEW bars, NEW more, bars \subseteq more, NEW now \in Nat, NEW later \in Nat,
         later = now \/ later = now + 1, NEW hi \in Int, Covers(bars, now, hi)
  PROVE  Covers(more, later, hi)
<1>1. HistoryStart(now) \in Nat /\ HistoryStart(later) \in Nat
  BY HistoryStartNat
<1>2. HistoryStart(now) <= HistoryStart(later)
  BY DayNat, DayNext, HistorySlides
<1>3. QED
  BY <1>1, <1>2 DEF Covers

\* A step that keeps sync_state, removes no bar and inserts none of the future
\* keeps StoreInv.
LEMMA StoreInvStable ==
  ASSUME IInv, TypeOK', lastTs' = lastTs,
         \A s \in Symbols : rows[s] \subseteq rows'[s],
         \A s \in Symbols : \A d \in rows'[s] \ rows[s] : d <= Day(clock),
         clock' = clock \/ clock' = clock + 1
  PROVE  StoreInv'
<1> SUFFICES ASSUME NEW s \in Symbols
             PROVE  /\ \A d \in rows'[s] : d <= Day(clock')
                    /\ lastTs[s] # NoTs =>
                         lastTs[s] \in rows'[s] /\ Covers(rows'[s], clock', lastTs[s])
  BY DEF StoreInv
<1>1. clock \in Nat /\ clock' \in Nat
  BY DEF IInv, TypeOK
<1>2. Day(clock) \in Nat /\ Day(clock') \in Nat /\ Day(clock) <= Day(clock')
  BY <1>1, DayNat, DayNext
<1>3. rows'[s] \subseteq Nat /\ \A d \in rows[s] : d <= Day(clock)
  BY DEF IInv, StoreInv, TypeOK, StoreTypeOK
<1>4. \A d \in rows'[s] : d <= Day(clock')
  BY <1>2, <1>3
<1>5. ASSUME lastTs[s] # NoTs
      PROVE  lastTs[s] \in rows'[s] /\ Covers(rows'[s], clock', lastTs[s])
  <2>1. lastTs[s] \in Int /\ lastTs[s] \in rows[s] /\ Covers(rows[s], clock, lastTs[s])
    BY <1>5 DEF IInv, StoreInv, TypeOK, StoreTypeOK, Ts
  <2>2. QED BY <1>1, <2>1, CoversStable
<1>6. QED
  BY <1>4, <1>5

\* A step of others that removes no bar keeps the invariant of a run.
LEMMA RunInvStable ==
  ASSUME IInv, TypeOK', NEW q \in Runs,
         \A s \in Symbols : rows[s] \subseteq rows'[s],
         clock' = clock \/ clock' = clock + 1,
         /\ pc'[q] = pc[q] /\ seen'[q] = seen[q] /\ started'[q] = started[q]
         /\ todo'[q] = todo[q] /\ batch'[q] = batch[q] /\ endDay'[q] = endDay[q]
         /\ data'[q] = data[q] /\ newest'[q] = newest[q] /\ open'[q] = open[q]
  PROVE  RunInv(q)'
<1>1. clock \in Nat /\ clock' \in Nat /\ started[q] \in Nat /\ endDay[q] \in Nat
  BY DEF IInv, TypeOK
<1>2. Day(clock) \in Nat /\ Day(clock') \in Nat /\ Day(clock) <= Day(clock')
  BY <1>1, DayNat, DayNext
<1>3. RunInv(q)
  BY DEF IInv
<1>4. Holds(q)' /\ ActionInv(q)'
  BY <1>3 DEF RunInv, Holds, ActionInv, Action
<1>5. PlanInv(q)'
  <2> SUFFICES ASSUME pc[q] # "idle"
               PROVE  /\ started[q] <= clock' /\ endDay[q] <= Day(clock')
                      /\ \A s \in Symbols :
                           seen[q][s] # NoTs => Covers(rows'[s], clock', seen[q][s])
    BY DEF PlanInv
  <2>1. /\ started[q] <= clock /\ endDay[q] <= Day(clock)
        /\ \A s \in Symbols : seen[q][s] # NoTs => Covers(rows[s], clock, seen[q][s])
    BY <1>3 DEF RunInv, PlanInv
  <2>2. \A s \in Symbols : seen[q][s] # NoTs => seen[q][s] \in Int
    BY DEF IInv, TypeOK, Ts
  <2>3. ASSUME NEW s \in Symbols, seen[q][s] # NoTs
        PROVE  Covers(rows'[s], clock', seen[q][s])
    BY <1>1, <2>1, <2>2, <2>3, CoversStable
  <2>4. QED BY <1>1, <1>2, <2>1, <2>3
<1>6. FetchInv(q)'
  <2> SUFFICES ASSUME NEW s \in Symbols
               PROVE  /\ \A d \in data[q][s] : d <= Day(clock')
                      /\ newest[q][s] # NoTs =>
                           /\ newest[q][s] \in Inserted(q, s)'
                           /\ Covers(Inserted(q, s)', clock', newest[q][s])
    BY DEF FetchInv
  <2>1. /\ \A d \in data[q][s] : d <= Day(clock)
        /\ newest[q][s] # NoTs => /\ newest[q][s] \in Inserted(q, s)
                                  /\ Covers(Inserted(q, s), clock, newest[q][s])
    BY <1>3 DEF RunInv, FetchInv
  <2>2. data[q][s] \subseteq Nat /\ (newest[q][s] # NoTs => newest[q][s] \in Int)
    BY DEF IInv, TypeOK, Ts
  <2>3. Inserted(q, s) \subseteq Inserted(q, s)'
    BY DEF Inserted
  <2>4. newest[q][s] # NoTs => Covers(Inserted(q, s)', clock', newest[q][s])
    BY <1>1, <2>1, <2>2, <2>3, CoversStable
  <2>5. QED BY <1>2, <2>1, <2>2, <2>3, <2>4
<1>7. QED
  BY <1>4, <1>5, <1>6 DEF RunInv

\* The steps that use what a run knows.

LEMMA StartRunKeeps ==
  ASSUME IInv, TypeOK', NEW r \in Runs, StartRun(r) PROVE RunInv(r)'
<1>1. /\ rows' = rows /\ clock' = clock /\ batch' = batch /\ endDay' = endDay
      /\ data' = data /\ newest' = newest /\ open' = open
      /\ pc[r] = "idle" /\ pc'[r] = "next" /\ seen'[r] = lastTs /\ started'[r] = clock
      /\ todo'[r] = {s \in Symbols : ClassifyDaily(lastTs[s], clock) # "SKIP"}
  BY DEF StartRun, GoTo, storeVars, IInv, TypeOK
<1>2. /\ batch[r] = {} /\ endDay[r] = 0 /\ open[r] = NoTs
      /\ \A s \in Symbols : data[r][s] = {} /\ newest[r][s] = NoTs
  BY <1>1 DEF IInv, RunInv, Holds
<1>3. clock \in Nat /\ Day(clock) \in Nat
  BY DayNat DEF IInv, TypeOK
<1>4. Holds(r)' /\ FetchInv(r)'
  BY <1>1, <1>2 DEF Holds, FetchInv
<1>5. PlanInv(r)'
  BY <1>1, <1>2, <1>3 DEF PlanInv, IInv, StoreInv
<1>6. ActionInv(r)'
  BY <1>1, <1>2 DEF ActionInv, Action
<1>7. QED
  BY <1>4, <1>5, <1>6 DEF RunInv

LEMMA TakeBatchKeeps ==
  ASSUME IInv, NEW r \in Runs, NEW b \in SUBSET Symbols, TakeBatch(r, b)
  PROVE  RunInv(r)'
<1>1. /\ rows' = rows /\ clock' = clock /\ seen' = seen /\ started' = started
      /\ data' = data /\ newest' = newest /\ open' = open
      /\ pc[r] = "next" /\ pc'[r] = "await" /\ endDay'[r] = Day(clock)
      /\ todo'[r] = todo[r] \ b /\ batch'[r] = b /\ b \subseteq todo[r]
  BY DEF TakeBatch, GoTo, Slice, Listed, storeVars, IInv, TypeOK
<1>2. RunInv(r) /\ Day(clock) \in Nat
  BY DayNat DEF IInv, TypeOK
<1>3. Holds(r)' /\ ActionInv(r)' /\ FetchInv(r)'
  BY <1>1, <1>2 DEF RunInv, Holds, ActionInv, FetchInv, Action
<1>4. PlanInv(r)'
  BY <1>1, <1>2 DEF RunInv, PlanInv
<1>5. QED
  BY <1>3, <1>4 DEF RunInv

\* An answer continues what is stored: its sessions begin with the last bar of
\* the snapshot, or with the history.
LEMMA AnswerCovers ==
  ASSUME IInv, NEW r \in Runs, NEW s \in Symbols, pc[r] = "await",
         NEW top \in {endDay[r] - 1, endDay[r]}, Sessions(r, s, top) # {}
  PROVE  Covers(rows[s] \cup Sessions(r, s, top), clock, Max(Sessions(r, s, top)))
<1> DEFINE new == Sessions(r, s, top)
<1>1. TypeOK /\ PlanInv(r)
  BY DEF IInv, RunInv
<1>2. /\ clock \in Nat /\ endDay[r] \in Nat /\ 2 * endDay[r] \in Nat
      /\ started[r] \in Nat /\ seen[r][s] \in Ts
  BY <1>1 DEF TypeOK
<1>3. HistoryStart(clock) \in Nat /\ HistoryStart(2 * endDay[r]) \in Nat /\ Since(r, s) \in Nat
  BY <1>1, <1>2, HistoryStartNat, SinceNat
<1>4. Max(new) \in new /\ Max(new) \in Nat
  BY <1>1, NewestSession
<1>5. SUFFICES ASSUME NEW d \in (HistoryStart(clock) .. Max(new)) \ Holidays
               PROVE  d \in rows[s] \cup new
  BY DEF Covers
<1>6. d \in Nat /\ HistoryStart(clock) <= d
  BY <1>3, <1>4
<1>7. CASE d >= Since(r, s)
  <2>1. d <= Max(new) /\ Max(new) <= top /\ top \in Int
    BY <1>2, <1>3, <1>4 DEF Sessions
  <2>2. d \in Since(r, s) .. top
    BY <1>3, <1>4, <1>6, <1>7, <2>1
  <2>3. QED BY <2>2 DEF Sessions
<1>8. CASE d < Since(r, s) /\ seen[r][s] = NoTs
  <2>1. Since(r, s) = HistoryStart(2 * endDay[r])
    BY <1>2, <1>8, SinceIs
  <2>2. Day(2 * endDay[r]) = endDay[r] /\ endDay[r] <= Day(clock)
    BY <1>1, <1>2 DEF Day, PlanInv
  <2>3. HistoryStart(2 * endDay[r]) <= HistoryStart(clock)
    BY <1>2, <2>2, HistorySlides
  <2>4. QED BY <1>3, <1>6, <1>8, <2>1, <2>3
<1>9. CASE d < Since(r, s) /\ seen[r][s] # NoTs
  <2>1. Since(r, s) = seen[r][s] /\ seen[r][s] \in Nat
    BY <1>2, <1>9, SinceIs DEF Ts
  <2>2. Covers(rows[s], clock, seen[r][s])
    BY <1>1, <1>9 DEF PlanInv
  <2>3. d \in HistoryStart(clock) .. seen[r][s]
    BY <1>3, <1>6, <1>9, <2>1
  <2>4. QED BY <2>2, <2>3 DEF Covers
<1>10. QED
  BY <1>3, <1>6, <1>7, <1>8, <1>9

LEMMA ReceiveBatchKeeps ==
  ASSUME IInv, NEW r \in Runs, NEW answered \in SUBSET batch[r],
         NEW top \in {endDay[r] - 1, endDay[r]}, ReceiveBatch(r, answered, top)
  PROVE  RunInv(r)'
<1>1. /\ rows' = rows /\ clock' = clock /\ seen' = seen /\ started' = started
      /\ endDay' = endDay /\ todo' = todo /\ batch' = batch
      /\ pc[r] = "await" /\ pc'[r] = "persist"
      /\ data'[r] = [s \in Symbols |-> IF s \in answered THEN Sessions(r, s, top) ELSE {}]
      /\ newest'[r] = [s \in Symbols |-> IF s \in answered /\ Sessions(r, s, top) # {}
                                       THEN Max(Sessions(r, s, top)) ELSE NoTs]
      /\ open'[r] = IF top = Day(clock) /\ ~AfterClose(clock) THEN top ELSE NoTs
  BY DEF ReceiveBatch, GoTo, storeVars, IInv, TypeOK
<1>2. RunInv(r) /\ TypeOK
  BY DEF IInv
<1>3. /\ clock \in Nat /\ Day(clock) \in Nat /\ endDay[r] \in Nat /\ started[r] \in Nat
      /\ started[r] <= clock /\ endDay[r] <= Day(clock)
  BY <1>1, <1>2, DayNat DEF TypeOK, RunInv, PlanInv
<1>4. Holds(r)'
  BY <1>1, <1>2 DEF RunInv, Holds
<1>5. PlanInv(r)'
  BY <1>1, <1>2 DEF RunInv, PlanInv
<1>6. FetchInv(r)'
  <2> SUFFICES ASSUME NEW s \in Symbols
               PROVE  /\ \A d \in data'[r][s] : d <= Day(clock)
                      /\ newest'[r][s] # NoTs =>
                           /\ newest'[r][s] \in Inserted(r, s)'
                           /\ Covers(Inserted(r, s)', clock, newest'[r][s])
    BY <1>1 DEF FetchInv
  <2>1. CASE s \in answered /\ Sessions(r, s, top) # {}
    <3>1. data'[r][s] = Sessions(r, s, top) /\ newest'[r][s] = Max(Sessions(r, s, top))
      BY <1>1, <2>1
    <3>2. newest'[r][s] \in data'[r][s]
      BY <1>2, <2>1, <3>1, NewestSession
    <3>3. \A d \in Sessions(r, s, top) : d <= Day(clock)
      BY <1>2, <1>3, SinceNat DEF Sessions
    <3>4. Covers(rows[s] \cup Sessions(r, s, top), clock, Max(Sessions(r, s, top)))
      BY <1>1, <2>1, AnswerCovers
    <3>5. QED BY <1>1, <3>1, <3>2, <3>3, <3>4 DEF Inserted
  <2>2. CASE ~(s \in answered /\ Sessions(r, s, top) # {})
    BY <1>1, <2>2
  <2>3. QED BY <2>1, <2>2
<1>7. ActionInv(r)'
  <2>1. \A s \in todo'[r] \cup batch'[r] : Action(r, s)' # "SKIP"
    BY <1>1, <1>2 DEF RunInv, ActionInv, Action
  <2>2. \A s \in Symbols \ batch'[r] : data'[r][s] = {}
    BY <1>1
  <2>3. ASSUME open'[r] # NoTs, AfterClose(started[r]) PROVE open'[r] > Day(started[r])
    <3>1. open'[r] = Day(clock) /\ ~AfterClose(clock)
      BY <1>1, <2>3
    <3>2. Day(started[r]) < Day(clock) /\ Day(started[r]) \in Nat
      BY <1>3, <2>3, <3>1, DayAfterClose, DayNat
    <3>3. QED BY <1>3, <3>1, <3>2
  <2>4. QED BY <1>1, <2>1, <2>2, <2>3 DEF ActionInv
<1>8. QED
  BY <1>4, <1>5, <1>6, <1>7 DEF RunInv

\* A committed chunk moves bars from what is held to what is stored.
LEMMA IngestChunkKeeps ==
  ASSUME IInv, TypeOK', NEW r \in Runs, NEW whole \in SUBSET Pending(r),
         NEW part \in Pending(r), NEW cut \in data[r][part], IngestChunk(r, whole, part, cut)
  PROVE  /\ RunInv(r)'
         /\ \A s \in Symbols : /\ rows[s] \subseteq rows'[s]
                              /\ \A d \in rows'[s] \ rows[s] : d <= Day(clock)
<1> DEFINE bars == [s \in Symbols |-> IF s = part THEN {d \in data[r][s] : d <= cut}
                                     ELSE IF s \in whole THEN data[r][s] ELSE {}]
<1>1. /\ clock' = clock /\ seen' = seen /\ started' = started /\ endDay' = endDay
      /\ todo' = todo /\ batch' = batch /\ newest' = newest /\ open' = open
      /\ pc' = pc /\ pc[r] = "persist"
      /\ rows' = [s \in Symbols |-> rows[s] \cup bars[s]]
      /\ data'[r] = [s \in Symbols |-> data[r][s] \ bars[s]]
  BY DEF IngestChunk, InsertBars, IInv, TypeOK
<1>2. \A s \in Symbols : bars[s] \subseteq data[r][s]
  OBVIOUS
<1> HIDE DEF bars
<1>3. \A s \in Symbols : /\ rows[s] \subseteq rows'[s] /\ data'[r][s] \subseteq data[r][s]
                         /\ rows'[s] \cup data'[r][s] = rows[s] \cup data[r][s]
                         /\ rows'[s] \ rows[s] \subseteq data[r][s]
  BY <1>1, <1>2
<1>4. RunInv(r)
  BY DEF IInv
<1>5. Holds(r)' /\ ActionInv(r)'
  BY <1>1, <1>3, <1>4 DEF RunInv, Holds, ActionInv, Action
<1>6. PlanInv(r)'
  BY <1>1, <1>3, <1>4 DEF RunInv, PlanInv, Covers
<1>7. FetchInv(r)'
  BY <1>1, <1>3, <1>4 DEF RunInv, FetchInv, Inserted
<1>8. QED
  BY <1>3, <1>4, <1>5, <1>6, <1>7 DEF RunInv, FetchInv

\* sync_state is written when everything downloaded is inserted.
LEMMA RecordStateKeeps ==
  ASSUME IInv, NEW r \in Runs, RecordState(r) PROVE StoreInv'
<1>1. /\ pc[r] = "persist" /\ Pending(r) = {} /\ rows' = rows /\ clock' = clock
      /\ lastTs' = [s \in Symbols |-> IF s \in batch[r] THEN Coalesce(newest[r][s], lastTs[s])
                                      ELSE lastTs[s]]
  BY DEF RecordState, UpdateState
<1>2. \A s \in Symbols : Inserted(r, s) = rows[s]
  BY <1>1 DEF Pending, Inserted
<1>3. \A s \in Symbols : newest[r][s] # NoTs =>
        newest[r][s] \in rows[s] /\ Covers(rows[s], clock, newest[r][s])
  BY <1>2 DEF IInv, RunInv, FetchInv
<1>4. QED
  BY <1>1, <1>3 DEF IInv, StoreInv, Coalesce

\* Every step of the sync keeps the invariant.
LEMMA IInvNext == ASSUME IInv, [Next]_vars PROVE IInv'
<1>1. TypeOK /\ TypeOK'
  BY TypeNext DEF IInv
<1>2. ASSUME NEW r \in Runs, RunStep(r)
      PROVE  /\ \A s \in Symbols : rows[s] \subseteq rows'[s]
             /\ clock' = clock
             /\ \A q \in Runs \ {r} :
                  /\ pc'[q] = pc[q] /\ seen'[q] = seen[q] /\ started'[q] = started[q]
                  /\ todo'[q] = todo[q] /\ batch'[q] = batch[q] /\ endDay'[q] = endDay[q]
                  /\ data'[q] = data[q] /\ newest'[q] = newest[q] /\ open'[q] = open[q]
             /\ RunInv(r)'
             /\ StoreInv'
  <2> DEFINE Others == \A q \in Runs \ {r} :
                  /\ pc'[q] = pc[q] /\ seen'[q] = seen[q] /\ started'[q] = started[q]
                  /\ todo'[q] = todo[q] /\ batch'[q] = batch[q] /\ endDay'[q] = endDay[q]
                  /\ data'[q] = data[q] /\ newest'[q] = newest[q] /\ open'[q] = open[q]
             Frame == rows' = rows /\ clock' = clock /\ Others
  <2> USE DEF GoTo
  <2>a. RunInv(r)
    BY DEF IInv
  <2>b. Day(clock) \in Nat
    BY <1>1, DayNat DEF TypeOK
  <2>1. CASE StartRun(r)
    <3>1. Frame /\ lastTs' = lastTs
      BY <1>1, <2>1 DEF StartRun, storeVars, TypeOK
    <3>2. QED BY <1>1, <2>1, <3>1, StartRunKeeps, StoreInvStable
  <2>2. ASSUME NEW b \in SUBSET Symbols, TakeBatch(r, b)
        PROVE  Frame /\ RunInv(r)' /\ StoreInv'
    <3>1. Frame /\ lastTs' = lastTs
      BY <1>1, <2>2 DEF TakeBatch, storeVars, TypeOK
    <3>2. QED BY <1>1, <2>2, <3>1, TakeBatchKeeps, StoreInvStable
  <2>3. CASE FinishRun(r)
    <3>1. /\ Frame /\ lastTs' = lastTs /\ pc[r] = "next" /\ pc'[r] = "idle"
          /\ todo'[r] = {} /\ batch' = batch /\ endDay' = endDay
          /\ data' = data /\ newest' = newest /\ open' = open
      BY <1>1, <2>3 DEF FinishRun, ForgetPlan, storeVars, TypeOK
    <3>2. RunInv(r)'
      BY <2>a, <3>1 DEF RunInv, Holds, PlanInv, FetchInv, ActionInv
    <3>3. QED BY <1>1, <3>1, <3>2, StoreInvStable
  <2>4. ASSUME NEW answered \in SUBSET batch[r], NEW top \in {endDay[r] - 1, endDay[r]},
               ReceiveBatch(r, answered, top)
        PROVE  Frame /\ RunInv(r)' /\ StoreInv'
    <3>1. Frame /\ lastTs' = lastTs
      BY <1>1, <2>4 DEF ReceiveBatch, storeVars, TypeOK
    <3>2. QED BY <1>1, <2>4, <3>1, ReceiveBatchKeeps, StoreInvStable
  <2>5. ASSUME NEW whole \in SUBSET Pending(r), NEW part \in Pending(r),
               NEW cut \in data[r][part], IngestChunk(r, whole, part, cut)
        PROVE  /\ \A s \in Symbols : rows[s] \subseteq rows'[s]
               /\ clock' = clock /\ Others /\ RunInv(r)' /\ StoreInv'
    <3>1. Others /\ clock' = clock /\ lastTs' = lastTs
      BY <1>1, <2>5 DEF IngestChunk, TypeOK
    <3>2. /\ RunInv(r)'
          /\ \A s \in Symbols : /\ rows[s] \subseteq rows'[s]
                               /\ \A d \in rows'[s] \ rows[s] : d <= Day(clock)
      BY <1>1, <2>5, IngestChunkKeeps
    <3>3. QED BY <1>1, <3>1, <3>2, StoreInvStable
  <2>6. CASE RecordState(r)
    <3>1. /\ Frame /\ pc[r] = "persist" /\ pc'[r] = "next" /\ batch'[r] = {}
          /\ seen' = seen /\ started' = started /\ todo' = todo
          /\ endDay'[r] = 0 /\ data'[r] = NoData /\ newest'[r] = NoneSeen /\ open'[r] = NoTs
      BY <1>1, <2>6 DEF RecordState, UpdateState, ForgetBatch, TypeOK
    <3>2. RunInv(r)'
      BY <2>a, <2>b, <3>1
      DEF RunInv, Holds, PlanInv, FetchInv, ActionInv, Action, NoData, NoneSeen
    <3>3. QED BY <2>6, <3>1, <3>2, RecordStateKeeps
  <2>7. CASE PersistFails(r)
    <3>1. /\ Frame /\ lastTs' = lastTs /\ pc[r] = "persist" /\ pc'[r] = "mark" /\ batch' = batch
          /\ seen' = seen /\ started' = started /\ todo' = todo
          /\ endDay'[r] = 0 /\ data'[r] = NoData /\ newest'[r] = NoneSeen /\ open'[r] = NoTs
      BY <1>1, <2>7 DEF PersistFails, ForgetBatch, storeVars, TypeOK
    <3>2. RunInv(r)'
      BY <2>a, <2>b, <3>1
      DEF RunInv, Holds, PlanInv, FetchInv, ActionInv, Action, NoData, NoneSeen
    <3>3. QED BY <1>1, <3>1, <3>2, StoreInvStable
  <2>8. CASE MarkError(r)
    <3>1. /\ Frame /\ pc[r] = "mark" /\ pc'[r] = "next" /\ batch'[r] = {}
          /\ seen' = seen /\ started' = started /\ todo' = todo
          /\ endDay' = endDay /\ data' = data /\ newest' = newest /\ open' = open
      BY <1>1, <2>8 DEF MarkError, MarkErrorState, TypeOK
    <3>2. lastTs' = lastTs
      BY <1>1, <2>8 DEF MarkError, MarkErrorState, Coalesce, TypeOK, StoreTypeOK
    <3>3. RunInv(r)'
      BY <2>a, <2>b, <3>1
      DEF RunInv, Holds, PlanInv, FetchInv, ActionInv, Action, Inserted
    <3>4. QED BY <1>1, <3>1, <3>2, <3>3, StoreInvStable
  <2>9. CASE RunDies(r)
    <3>1. /\ Frame /\ lastTs' = lastTs /\ pc'[r] = "idle" /\ batch'[r] = {} /\ todo'[r] = {}
          /\ endDay'[r] = 0 /\ data'[r] = NoData /\ newest'[r] = NoneSeen /\ open'[r] = NoTs
      BY <1>1, <2>9 DEF RunDies, ForgetPlan, ForgetBatch, storeVars, TypeOK
    <3>2. RunInv(r)'
      BY <3>1 DEF RunInv, Holds, PlanInv, FetchInv, ActionInv, NoData, NoneSeen
    <3>3. QED BY <1>1, <3>1, <3>2, StoreInvStable
  <2>10. QED
    BY <1>2, <2>1, <2>2, <2>3, <2>4, <2>5, <2>6, <2>7, <2>8, <2>9 DEF RunStep
<1>3. ASSUME NEW r \in Runs, RunStep(r) PROVE IInv'
  <2>1. \A q \in Runs \ {r} : RunInv(q)'
    BY <1>1, <1>2, <1>3, RunInvStable
  <2>2. QED BY <1>1, <1>2, <1>3, <2>1 DEF IInv
<1>4. CASE Tick
  <2>1. /\ rows' = rows /\ lastTs' = lastTs /\ clock' = clock + 1
        /\ UNCHANGED <<pc, seen, started, todo, batch, endDay, data, newest, open>>
    BY <1>4 DEF Tick, storeVars, runVars
  <2>2. StoreInv' /\ \A q \in Runs : RunInv(q)'
    BY <1>1, <2>1, StoreInvStable, RunInvStable
  <2>3. QED BY <1>1, <2>2 DEF IInv
<1>5. CASE Crash
  <2>1. StoreInv'
    BY <1>1, <1>5, StoreInvStable DEF Crash, storeVars
  <2>2. \A q \in Runs : RunInv(q)'
    BY <1>5 DEF Crash, RunInv, Holds, PlanInv, FetchInv, ActionInv, NoData, NoneSeen
  <2>3. QED BY <1>1, <2>1, <2>2 DEF IInv
<1>6. CASE UNCHANGED vars
  <2>1. /\ UNCHANGED <<rows, lastTs, clock>>
        /\ UNCHANGED <<pc, seen, started, todo, batch, endDay, data, newest, open>>
    BY <1>6 DEF vars, storeVars, runVars
  <2>2. StoreInv' /\ \A q \in Runs : RunInv(q)'
    BY <1>1, <2>1, StoreInvStable, RunInvStable
  <2>3. QED BY <1>1, <2>2 DEF IInv
<1>7. QED
  BY <1>3, <1>4, <1>5, <1>6 DEF Next

LEMMA IInvHolds == Spec => []IInv
BY IInvInit, IInvNext, PTL DEF Spec

\* No interleaving of overlapping runs, failed writes, empty answers, days that
\* pass during a run and crashes leaves a session unstored below last_data_ts,
\* where no later run would ask for it.
THEOREM NoSilentHole == Spec => []HistoryComplete
<1>1. IInv => HistoryComplete
  BY DEF IInv, StoreInv, HistoryComplete, Covers
<1>2. QED
  BY <1>1, IInvHolds, PTL

\* What the sync skips by sync_state the gap report, which reads the price
\* table, does not list as a gap either.
THEOREM SkipAgrees == Spec => []SkipAgreesWithReport
<1>1. IInv => SkipAgreesWithReport
  <2> SUFFICES ASSUME IInv, NEW s \in Symbols, ClassifyDaily(lastTs[s], clock) = "SKIP"
               PROVE  ClassifyDaily(NewestRow(s), clock) = "SKIP"
    BY DEF SkipAgreesWithReport
  <2>1. clock \in Nat /\ Day(clock) \in Nat /\ lastTs[s] \in Ts /\ rows[s] \in SUBSET Nat
    BY DayNat DEF IInv, TypeOK, StoreTypeOK
  <2>2. lastTs[s] # NoTs /\ lastTs[s] \in Nat
    BY <2>1, ClassifyNeedsBar DEF Ts
  <2>3. lastTs[s] \in rows[s] /\ \A d \in rows[s] : d <= Day(clock)
    BY <2>2 DEF IInv, StoreInv
  <2>4. NewestRow(s) \in rows[s] /\ NewestRow(s) >= lastTs[s]
    BY <2>1, <2>3, MaxOfBounded DEF NewestRow
  <2>5. NewestRow(s) \in Nat /\ NewestRow(s) # NoTs
    BY <2>1, <2>4, NoTsAssumption
  <2>6. QED BY <2>1, <2>2, <2>3, <2>4, <2>5 DEF ClassifyDaily
<1>2. QED
  BY <1>1, IInvHolds, PTL

\* A snapshot of an open session enters the table only with a first or a gap
\* fetch, or by a run that is still at work on the day after it was started.
THEOREM SnapshotsOnlyOfGaps == Spec => OnlyGapsStoreOpenSession
<1> DEFINE Allowed ==
      \A s \in Symbols : partial'[s] # partial[s] =>
        \E r \in Runs : /\ data'[r][s] # data[r][s]
                        /\ \/ Action(r, s) \in {"INITIAL", "FETCH_GAP"}
                           \/ open[r] > Day(started[r])
<1>1. IInv /\ [Next]_vars => [Allowed]_vars
  <2> SUFFICES ASSUME IInv, Next, NEW s \in Symbols, partial'[s] # partial[s]
               PROVE  \E r \in Runs : /\ data'[r][s] # data[r][s]
                                      /\ \/ Action(r, s) \in {"INITIAL", "FETCH_GAP"}
                                         \/ open[r] > Day(started[r])
    OBVIOUS
  <2>1. PICK r \in Runs : \E whole \in SUBSET Pending(r), part \in Pending(r) :
                            \E cut \in data[r][part] : IngestChunk(r, whole, part, cut)
    BY DEF Next, Tick, Crash, RunStep, StartRun, TakeBatch, FinishRun, ReceiveBatch,
           RecordState, PersistFails, MarkError, RunDies
  <2>2. PICK bars : /\ partial' = [q \in Symbols |->
                         partial[q] \cup ((bars[q] \ rows[q]) \cap {open[r]})]
                    /\ data' = [data EXCEPT ![r] = [q \in Symbols |-> @[q] \ bars[q]]]
                    /\ \A q \in Symbols : bars[q] \subseteq data[r][q]
    <3>0. PICK whole \in SUBSET Pending(r), part \in Pending(r) :
            \E cut \in data[r][part] : IngestChunk(r, whole, part, cut)
      BY <2>1
    <3>1. PICK cut \in data[r][part] : IngestChunk(r, whole, part, cut)
      BY <3>0
    <3> DEFINE new == [q \in Symbols |-> IF q = part THEN {d \in data[r][q] : d <= cut}
                                       ELSE IF q \in whole THEN data[r][q] ELSE {}]
    <3>2. \A q \in Symbols : new[q] \subseteq data[r][q]
      OBVIOUS
    <3>3. QED BY <3>1, <3>2 DEF IngestChunk
  <2>3. TypeOK /\ RunInv(r)
    BY DEF IInv
  <2>4. open[r] \in bars[s] /\ open[r] \in data[r][s]
    BY <2>2, <2>3 DEF TypeOK
  <2>5. data'[r][s] # data[r][s]
    BY <2>2, <2>3, <2>4 DEF TypeOK
  <2>6. open[r] # NoTs /\ s \in batch[r]
    BY <2>3, <2>4, NoTsAssumption DEF TypeOK, RunInv, ActionInv
  <2>7. Action(r, s) # "SKIP" /\ (AfterClose(started[r]) => open[r] > Day(started[r]))
    BY <2>3, <2>6 DEF RunInv, ActionInv
  <2>8. Action(r, s) \in {"INITIAL", "FETCH_GAP"} \/ AfterClose(started[r])
    BY <2>3, <2>7, ClassifyNeedsBar DEF Action, TypeOK
  <2>9. QED BY <2>5, <2>7, <2>8
<1>2. QED
  BY <1>1, IInvHolds, PTL DEF Spec, OnlyGapsStoreOpenSession
=============================================================================
