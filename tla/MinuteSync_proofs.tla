-------------------------- MODULE MinuteSync_proofs -------------------------
(***************************************************************************)
(* What the 1-minute sync guarantees for every universe of symbols, number *)
(* of overlapping runs, window, chunk size and budget.                     *)
(***************************************************************************)
EXTENDS MinuteSync, FunctionTheorems, FiniteSetTheorems, TLAPS

LEMMA DayNat == ASSUME NEW t \in Nat PROVE Day(t) \in Nat
BY MinuteAssumption DEF Day

LEMMA DayStartBelow == ASSUME NEW t \in Nat PROVE DayStart(t) \in Nat /\ DayStart(t) <= t
BY MinuteAssumption DEF Day, DayStart

LEMMA DayNext == ASSUME NEW t \in Nat PROVE Day(t) <= Day(t + 1)
BY MinuteAssumption DEF Day

LEMMA WindowStartNat == ASSUME NEW t \in Nat PROVE WindowStart(t) \in Nat
BY MinuteAssumption, DayNat DEF WindowStart

LEMMA WindowSlides ==
  ASSUME NEW t \in Nat PROVE WindowStart(t) <= WindowStart(t + 1)
BY MinuteAssumption, DayNat, DayNext DEF WindowStart

-----------------------------------------------------------------------------
(* Type correctness.                                                       *)

LEMMA FromBarNat ==
  ASSUME NEW last \in Ts, NEW t \in Nat PROVE FromBar(last, t) \in Nat
BY DayStartBelow, WindowStartNat DEF FromBar, Ts

LEMMA BudgetTypeNext == ASSUME TypeOK, MaybeReset PROVE used' \in Nat /\ usedDay' \in Nat
BY DayNat DEF TypeOK, MaybeReset, UsedToday

LEMMA SizeNat == ASSUME NEW S \in SUBSET Symbols PROVE Cardinality(S) \in Nat
BY SymbolsFinite, FS_Subset, FS_CardinalityType

\* The bars a chunk of records reaches are numbers.
LEMMA AfterChunkNat ==
  ASSUME TypeOK, NEW r \in Runs, NEW whole \in SUBSET Unstored(r),
         NEW part \in Unstored(r), NEW cut \in from[r][part] + 1 .. newest[r][part] + 1
  PROVE  AfterChunk(r, whole, part, cut) \in [Symbols -> Nat]
<1>1. \A s \in Unstored(r) : newest[r][s] \in Nat
  BY DEF Unstored, TypeOK, Ts
<1>2. cut \in Nat
  BY <1>1 DEF Unstored, TypeOK
<1>3. QED
  BY <1>1, <1>2 DEF AfterChunk, TypeOK

LEMMA TypeInit == Init => TypeOK
BY DEF Init, TypeOK, StoreInit, StoreTypeOK, Ts, Statuses, RunStates, NoneSeen, NoBars

LEMMA TypeNext == ASSUME TypeOK, [Next]_vars PROVE TypeOK'
<1> USE DEF TypeOK, StoreTypeOK, GoTo, RunStates
<1>1. CASE Tick
  BY <1>1 DEF Tick, storeVars, runVars, planVars, chunkVars
<1>2. ASSUME NEW r \in Runs, RunStep(r) PROVE TypeOK'
  <2>1. CASE StartRun(r)
    BY <2>1, BudgetTypeNext DEF StartRun, storeVars, chunkVars
  <2>2. ASSUME NEW c \in SUBSET Symbols, TakeChunk(r, c) PROVE TypeOK'
    <3>1. [s \in Symbols |-> FromBar(seen[r][s], clock)] \in [Symbols -> Nat]
      BY FromBarNat
    <3>2. ToBar(clock) \in Nat
      BY DayStartBelow, MinuteAssumption DEF ToBar
    <3>3. from' \in [Runs -> [Symbols -> Nat]] /\ upTo' \in [Runs -> Nat]
      BY <2>2, <3>1, <3>2 DEF TakeChunk
    <3>4. newest' \in [Runs -> [Symbols -> Ts]]
      BY <2>2 DEF TakeChunk, NoResults, NoneSeen, Ts
    <3>5. pc' \in [Runs -> RunStates] /\ queue' \in [Runs -> SUBSET Symbols]
      BY <2>2 DEF TakeChunk
    <3>6. /\ initial' \in [Runs -> SUBSET Symbols]
          /\ incremental' \in [Runs -> SUBSET Symbols]
          /\ chunk' \in [Runs -> SUBSET Symbols]
      BY <2>2 DEF TakeChunk
    <3>7. QED BY <2>2, <3>3, <3>4, <3>5, <3>6 DEF TakeChunk, storeVars, budgetVars
  <2>3. CASE FinishRun(r)
    BY <2>3, BudgetTypeNext DEF FinishRun, ForgetPlan, NoneSeen, Ts, storeVars, chunkVars
  <2>4. ASSUME NEW b \in SUBSET Symbols, SendBatch(r, b) PROVE TypeOK'
    BY <2>4, SizeNat, BudgetTypeNext DEF SendBatch, storeVars, planVars
  <2>5. CASE StopEarly(r)
    BY <2>5, BudgetTypeNext DEF StopEarly, storeVars, planVars
  <2>6. ASSUME NEW top \in [flight[r] -> NewestBars(r) \cup {NoTs}], ReceiveBatch(r, top)
        PROVE  TypeOK'
    <3>1. Cardinality(flight[r]) \in Nat
      BY SizeNat
    <3>2. \A s \in Filled(r, top) : top[s] \in Ts
      BY DEF Filled, NewestBars, Ts
    <3>3. [s \in Symbols |-> IF s \in Filled(r, top) THEN top[s] ELSE newest[r][s]] \in [Symbols -> Ts]
      BY <3>2
    <3>4. newest' \in [Runs -> [Symbols -> Ts]] /\ short' \in [Runs -> SUBSET Symbols]
      BY <2>6, <3>3 DEF ReceiveBatch, Filled
    <3>5. served' \in [Symbols -> Ts]
      BY <2>6, <3>2 DEF ReceiveBatch, Filled
    <3>6. QED BY <2>6, <3>1, <3>4, <3>5 DEF ReceiveBatch, storeVars, planVars
  <2>7. ASSUME NEW whole \in SUBSET Symbols, NEW part \in Unstored(r),
               NEW cut \in from[r][part] + 1 .. newest[r][part] + 1,
               IngestChunk(r, whole, part, cut)
        PROVE  TypeOK'
    <3>1. AfterChunk(r, whole, part, cut) \in [Symbols -> Nat]
      BY <2>7, AfterChunkNat DEF IngestChunk
    <3>2. rows' \in [Symbols -> SUBSET Nat]
      BY <2>7, <3>1 DEF IngestChunk, InsertBars
    <3>3. QED BY <2>7, <3>1, <3>2 DEF IngestChunk, planVars, budgetVars
  <2>8. CASE RecordState(r)
    <3>1. lastTs' \in [Symbols -> Ts] /\ status' \in [Symbols -> Statuses]
      BY <2>8 DEF RecordState, UpdateState, Coalesce, Statuses
    <3>2. QED
      BY <2>8, <3>1
      DEF RecordState, UpdateState, ForgetChunk, NoBars, NoneSeen, Ts, planVars, budgetVars
  <2>9. CASE PersistFails(r)
    BY <2>9 DEF PersistFails, ForgetChunk, NoBars, NoneSeen, Ts, storeVars, planVars, budgetVars
  <2>10. CASE MarkError(r)
    <3>1. lastTs' \in [Symbols -> Ts] /\ status' \in [Symbols -> Statuses]
      BY <2>10 DEF MarkError, MarkErrorState, Coalesce, Statuses
    <3>2. QED BY <2>10, <3>1 DEF MarkError, MarkErrorState, planVars, budgetVars
  <2>11. CASE RunDies(r)
    BY <2>11
    DEF RunDies, ForgetPlan, ForgetChunk, NoBars, NoneSeen, Ts, storeVars, budgetVars
  <2>12. QED
    BY <1>2, <2>1, <2>2, <2>3, <2>4, <2>5, <2>6, <2>7, <2>8, <2>9, <2>10, <2>11
    DEF RunStep
<1>3. CASE ResetTruncate
  BY <1>3 DEF ResetTruncate, runVars, planVars, chunkVars, budgetVars
<1>4. CASE ResetDelete
  BY <1>4 DEF ResetDelete, runVars, planVars, chunkVars, budgetVars, Ts, Statuses
<1>5. CASE Crash
  BY <1>5, DayNat DEF Crash, storeVars, NoneSeen, NoBars, Ts
<1>6. CASE UNCHANGED vars
  BY <1>6 DEF vars, storeVars, runVars, planVars, chunkVars, budgetVars
<1>7. QED
  BY <1>1, <1>2, <1>3, <1>4, <1>5, <1>6 DEF Next

\* Every variable of the sync keeps its type.
THEOREM TypeCorrect == Spec => []TypeOK
BY TypeInit, TypeNext, PTL DEF Spec

-----------------------------------------------------------------------------
(* No silent hole.  The invariant adds to HistoryComplete what a run in    *)
(* flight relies on: its snapshot describes bars that are still stored,    *)
(* the bars below from[r][s] are stored down to the request window, and a  *)
(* downloaded interval that is fully inserted contains its newest bar.     *)

\* The bars hold every bar from the request window of the time now up to hi.
Covers(bars, now, hi) == \A t \in Nat : WindowStart(now) <= t /\ t <= hi => t \in bars

StoreInv ==
  resetPc = "idle" =>
    \A s \in Symbols :
      /\ lastTs[s] # NoTs => lastTs[s] \in rows[s] /\ Covers(rows[s], clock, lastTs[s])
      /\ status[s] = "synced" => lastTs[s] # NoTs

ResetAlone == resetPc = "truncated" => \A r \in Runs : ~Active(r)

Fetching(r) == pc[r] \in {"batch", "await", "persist"}

RunInv(r) ==
  Active(r) =>
    \A s \in Symbols :
      /\ seen[r][s] # NoTs => Covers(rows[s], clock, seen[r][s])
      /\ Fetching(r) =>
           /\ Covers(rows[s], clock, from[r][s] - 1)
           /\ newest[r][s] # NoTs /\ newest[r][s] < from[r][s] => newest[r][s] \in rows[s]

IInv == TypeOK /\ StoreInv /\ ResetAlone /\ \A r \in Runs : RunInv(r)

LEMMA IInvInit == Init => IInv
BY TypeInit DEF Init, IInv, StoreInv, ResetAlone, RunInv, StoreInit, Active

\* The window only moves forward: what is covered stays covered while no bar
\* is removed.
LEMMA CoversStable ==
  ASSUME NEW bars, NEW more, bars \subseteq more, NEW now \in Nat, NEW later \in Nat,
         later = now \/ later = now + 1, NEW hi \in Int, Covers(bars, now, hi)
  PROVE  Covers(more, later, hi)
<1>1. WindowStart(now) \in Nat /\ WindowStart(later) \in Nat
  BY WindowStartNat
<1>2. WindowStart(now) <= WindowStart(later)
  BY <1>1, WindowSlides
<1>3. QED
  BY <1>1, <1>2 DEF Covers

\* A request starts at the window, or inside what its snapshot covers.
LEMMA FromBarCovered ==
  ASSUME NEW bars, NEW now \in Nat, NEW last \in Ts,
         last # NoTs => Covers(bars, now, last)
  PROVE  Covers(bars, now, FromBar(last, now) - 1)
<1>1. WindowStart(now) \in Nat
  BY WindowStartNat
<1>2. CASE FromBar(last, now) = WindowStart(now)
  BY <1>1, <1>2 DEF Covers
<1>3. CASE last \in Nat /\ FromBar(last, now) = DayStart(last)
  <2>1. DayStart(last) \in Nat /\ DayStart(last) <= last
    BY <1>3, DayStartBelow
  <2>2. Covers(bars, now, last)
    BY <1>3, NoTsAssumption
  <2>3. QED BY <1>1, <1>3, <2>1, <2>2 DEF Covers
<1>4. QED
  BY <1>2, <1>3 DEF FromBar, Ts

\* Inserting the next bars of a covered symbol covers up to the last of them.
LEMMA CoversInsert ==
  ASSUME NEW bars, NEW now \in Nat, NEW lo \in Nat, NEW hi \in Nat,
         Covers(bars, now, lo - 1)
  PROVE  Covers(bars \cup (lo .. (hi - 1)), now, hi - 1)
BY WindowStartNat DEF Covers

\* A step that keeps sync_state and removes no bar keeps StoreInv.
LEMMA StoreInvStable ==
  ASSUME IInv, TypeOK', UNCHANGED <<lastTs, status, resetPc>>,
         \A s \in Symbols : rows[s] \subseteq rows'[s],
         clock' = clock \/ clock' = clock + 1
  PROVE  StoreInv'
<1> SUFFICES ASSUME resetPc = "idle", NEW s \in Symbols
             PROVE  /\ lastTs[s] # NoTs =>
                         lastTs[s] \in rows'[s] /\ Covers(rows'[s], clock', lastTs[s])
                    /\ status[s] = "synced" => lastTs[s] # NoTs
  BY DEF StoreInv
<1>1. status[s] = "synced" => lastTs[s] # NoTs
  BY DEF IInv, StoreInv
<1>2. ASSUME lastTs[s] # NoTs
      PROVE  lastTs[s] \in rows'[s] /\ Covers(rows'[s], clock', lastTs[s])
  <2>1. lastTs[s] \in Int /\ lastTs[s] \in rows[s] /\ Covers(rows[s], clock, lastTs[s])
    BY <1>2 DEF IInv, StoreInv, TypeOK, StoreTypeOK, Ts
  <2>2. clock \in Nat /\ clock' \in Nat
    BY DEF IInv, TypeOK
  <2>3. Covers(rows'[s], clock', lastTs[s])
    BY <2>1, <2>2, CoversStable
  <2>4. QED BY <2>1, <2>3
<1>3. QED
  BY <1>1, <1>2

\* A step that keeps the snapshot of q, keeps its interval while it fetches and
\* removes no bar keeps RunInv(q).
LEMMA RunInvStable ==
  ASSUME IInv, TypeOK', NEW q \in Runs,
         Active(q)' => Active(q) /\ seen'[q] = seen[q],
         Fetching(q)' => Fetching(q) /\ from'[q] = from[q] /\ newest'[q] = newest[q],
         \A s \in Symbols : rows[s] \subseteq rows'[s],
         clock' = clock \/ clock' = clock + 1
  PROVE  RunInv(q)'
<1> SUFFICES ASSUME Active(q)', NEW s \in Symbols
             PROVE  /\ seen[q][s] # NoTs => Covers(rows'[s], clock', seen[q][s])
                    /\ Fetching(q)' =>
                         /\ Covers(rows'[s], clock', from[q][s] - 1)
                         /\ newest[q][s] # NoTs /\ newest[q][s] < from[q][s]
                              => newest[q][s] \in rows'[s]
  BY DEF RunInv
<1>1. clock \in Nat /\ clock' \in Nat
  BY DEF IInv, TypeOK
<1>2. ASSUME seen[q][s] # NoTs PROVE Covers(rows'[s], clock', seen[q][s])
  <2>1. seen[q][s] \in Int /\ Covers(rows[s], clock, seen[q][s])
    BY <1>2 DEF IInv, TypeOK, Ts, RunInv
  <2>2. QED BY <1>1, <2>1, CoversStable
<1>3. ASSUME Fetching(q)' PROVE Covers(rows'[s], clock', from[q][s] - 1)
  <2>1. from[q][s] - 1 \in Int /\ Covers(rows[s], clock, from[q][s] - 1)
    BY <1>3 DEF IInv, TypeOK, RunInv
  <2>2. QED BY <1>1, <2>1, CoversStable
<1>4. Fetching(q)' /\ newest[q][s] # NoTs /\ newest[q][s] < from[q][s]
        => newest[q][s] \in rows'[s]
  BY DEF IInv, RunInv
<1>5. QED
  BY <1>2, <1>3, <1>4

\* The steps that use what a run knows.

LEMMA StartRunKeeps ==
  ASSUME ResetIsolated, IInv, TypeOK', NEW r \in Runs, StartRun(r) PROVE RunInv(r)'
<1>1. /\ resetPc = "idle" /\ rows' = rows /\ clock' = clock
      /\ pc'[r] = "next" /\ seen'[r] = lastTs
  BY DEF StartRun, GoTo, storeVars, IInv, TypeOK
<1>2. ~ Fetching(r)'
  BY <1>1 DEF Fetching
<1>3. \A s \in Symbols : lastTs[s] # NoTs => Covers(rows[s], clock, lastTs[s])
  BY <1>1 DEF IInv, StoreInv
<1>4. QED
  BY <1>1, <1>2, <1>3 DEF RunInv

LEMMA TakeChunkKeeps ==
  ASSUME IInv, NEW r \in Runs, NEW c \in SUBSET Symbols, TakeChunk(r, c)
  PROVE  RunInv(r)'
<1>1. /\ rows' = rows /\ clock' = clock /\ seen' = seen /\ Active(r)
      /\ from'[r] = [s \in Symbols |-> FromBar(seen[r][s], clock)]
      /\ newest'[r] = NoneSeen
  BY DEF TakeChunk, NoResults, storeVars, IInv, TypeOK, Active
<1>2. \A s \in Symbols : seen[r][s] # NoTs => Covers(rows[s], clock, seen[r][s])
  BY <1>1 DEF IInv, RunInv
<1>3. \A s \in Symbols : Covers(rows[s], clock, FromBar(seen[r][s], clock) - 1)
  BY <1>2, FromBarCovered DEF IInv, TypeOK
<1>4. \A s \in Symbols : newest'[r][s] = NoTs
  BY <1>1 DEF NoneSeen
<1>5. QED
  BY <1>1, <1>2, <1>3, <1>4 DEF RunInv

LEMMA ReceiveBatchKeeps ==
  ASSUME IInv, NEW r \in Runs, NEW top \in [flight[r] -> NewestBars(r) \cup {NoTs}],
         ReceiveBatch(r, top)
  PROVE  RunInv(r)'
<1>1. /\ rows' = rows /\ clock' = clock /\ seen' = seen /\ from' = from
      /\ Active(r) /\ Fetching(r)
      /\ newest'[r] = [s \in Symbols |->
           IF s \in Filled(r, top) THEN top[s] ELSE newest[r][s]]
  BY DEF ReceiveBatch, Filled, storeVars, planVars, IInv, TypeOK, Active, Fetching
<1>2. \A s \in Filled(r, top) : from[r][s] \in Nat /\ top[s] \in Nat /\ from[r][s] <= top[s]
  BY DEF Filled, IInv, TypeOK, NewestBars
<1>3. \A s \in Symbols : newest'[r][s] # NoTs /\ newest'[r][s] < from[r][s]
                           => newest'[r][s] = newest[r][s]
  BY <1>1, <1>2
<1>4. \A s \in Symbols :
        /\ seen[r][s] # NoTs => Covers(rows[s], clock, seen[r][s])
        /\ Covers(rows[s], clock, from[r][s] - 1)
        /\ newest[r][s] # NoTs /\ newest[r][s] < from[r][s] => newest[r][s] \in rows[s]
  BY <1>1 DEF IInv, RunInv
<1>5. QED
  BY <1>1, <1>3, <1>4 DEF RunInv

LEMMA IngestChunkKeeps ==
  ASSUME IInv, TypeOK', NEW r \in Runs,
         NEW whole \in SUBSET Symbols, NEW part \in Unstored(r),
         NEW cut \in from[r][part] + 1 .. newest[r][part] + 1,
         IngestChunk(r, whole, part, cut)
  PROVE  RunInv(r)' /\ \A s \in Symbols : rows[s] \subseteq rows'[s]
<1> DEFINE next == AfterChunk(r, whole, part, cut)
<1>1. /\ clock' = clock /\ seen' = seen /\ newest' = newest /\ pc' = pc
      /\ pc[r] = "persist" /\ whole \subseteq Unstored(r) /\ from'[r] = next
      /\ rows' = [s \in Symbols |-> rows[s] \cup (from[r][s] .. (next[s] - 1))]
  BY DEF IngestChunk, InsertBars, planVars, IInv, TypeOK
<1>2. next \in [Symbols -> Nat]
  BY <1>1, AfterChunkNat DEF IInv
<1>3. \A s \in Symbols :
        /\ seen[r][s] # NoTs => Covers(rows[s], clock, seen[r][s])
        /\ Covers(rows[s], clock, from[r][s] - 1)
        /\ newest[r][s] # NoTs /\ newest[r][s] < from[r][s] => newest[r][s] \in rows[s]
  BY <1>1 DEF IInv, RunInv, Active, Fetching
<1>4. ASSUME NEW s \in Symbols
      PROVE  /\ seen[r][s] # NoTs => Covers(rows'[s], clock, seen[r][s])
             /\ Covers(rows'[s], clock, next[s] - 1)
             /\ newest[r][s] # NoTs /\ newest[r][s] < next[s] => newest[r][s] \in rows'[s]
  <2> HIDE DEF next
  <2>1. from[r][s] \in Nat /\ next[s] \in Nat /\ clock \in Nat /\ seen[r][s] \in Ts
        /\ newest[r][s] \in Ts
    BY <1>2 DEF IInv, TypeOK
  <2>2. rows'[s] = rows[s] \cup (from[r][s] .. (next[s] - 1))
    BY <1>1
  <2>3. Covers(rows'[s], clock, next[s] - 1)
    BY <1>3, <2>1, <2>2, CoversInsert
  <2>4. seen[r][s] # NoTs => Covers(rows'[s], clock, seen[r][s])
    BY <1>3, <2>2 DEF Covers
  <2>5. newest[r][s] # NoTs /\ newest[r][s] < next[s] => newest[r][s] \in rows'[s]
    BY <1>3, <2>1, <2>2 DEF Ts
  <2>6. QED BY <2>3, <2>4, <2>5
<1>5. Active(r) /\ Fetching(r)
  BY <1>1 DEF Active, Fetching
<1>6. RunInv(r)'
  <2> HIDE DEF next
  <2>1. QED BY <1>1, <1>4 DEF RunInv
<1>7. QED
  BY <1>1, <1>6

\* sync_state is written when everything downloaded is inserted.
LEMMA RecordStateKeeps ==
  ASSUME IInv, NEW r \in Runs, RecordState(r) PROVE StoreInv'
<1>1. /\ pc[r] = "persist" /\ Unstored(r) = {} /\ rows' = rows /\ clock' = clock
      /\ lastTs' = [s \in Symbols |-> IF s \in chunk[r] THEN Coalesce(newest[r][s], lastTs[s])
                                      ELSE lastTs[s]]
      /\ status' = [s \in Symbols |-> IF s \notin chunk[r] THEN status[s]
                                      ELSE IF newest[r][s] = NoTs THEN "empty" ELSE "synced"]
  BY DEF RecordState, UpdateState
<1>2. Active(r) /\ Fetching(r) /\ resetPc = "idle"
  BY <1>1 DEF Active, Fetching, IInv, ResetAlone, TypeOK
<1>3. ASSUME NEW s \in Symbols, newest[r][s] # NoTs
      PROVE  newest[r][s] \in rows[s] /\ Covers(rows[s], clock, newest[r][s])
  <2>1. newest[r][s] \in Nat /\ from[r][s] \in Nat /\ newest[r][s] < from[r][s]
    BY <1>1, <1>3 DEF Unstored, IInv, TypeOK, Ts
  <2>2. newest[r][s] \in rows[s] /\ Covers(rows[s], clock, from[r][s] - 1)
    BY <1>2, <1>3, <2>1 DEF IInv, RunInv
  <2>3. QED BY <2>1, <2>2 DEF Covers
<1>4. \A s \in Symbols :
        /\ lastTs[s] # NoTs => lastTs[s] \in rows[s] /\ Covers(rows[s], clock, lastTs[s])
        /\ status[s] = "synced" => lastTs[s] # NoTs
  BY <1>2 DEF IInv, StoreInv
<1>5. QED
  BY <1>1, <1>3, <1>4 DEF StoreInv, Coalesce

\* Every step of the sync keeps the invariant.
LEMMA IInvNext == ASSUME ResetIsolated, IInv, [Next]_vars PROVE IInv'
<1>1. TypeOK'
  BY TypeNext DEF IInv
<1>2. TypeOK
  BY DEF IInv
<1>3. ASSUME NEW r \in Runs, RunStep(r)
      PROVE  /\ \A s \in Symbols : rows[s] \subseteq rows'[s]
             /\ clock' = clock /\ resetPc' = resetPc
             /\ resetPc = "idle" \/ pc' = pc
             /\ \A q \in Runs \ {r} : /\ pc'[q] = pc[q] /\ seen'[q] = seen[q]
                                      /\ from'[q] = from[q] /\ newest'[q] = newest[q]
             /\ RunInv(r)'
             /\ StoreInv'
  <2> DEFINE Others == \A q \in Runs \ {r} :
                         /\ pc'[q] = pc[q] /\ seen'[q] = seen[q]
                         /\ from'[q] = from[q] /\ newest'[q] = newest[q]
             Monotone == \A s \in Symbols : rows[s] \subseteq rows'[s]
             Frame == Monotone /\ Others /\ clock' = clock /\ resetPc' = resetPc
                      /\ (resetPc = "idle" \/ pc' = pc)
  <2> USE DEF GoTo
  <2>a. Active(r) => resetPc = "idle"
    BY <1>2 DEF IInv, ResetAlone, TypeOK
  <2>1. CASE StartRun(r)
    <3>1. Frame /\ UNCHANGED <<lastTs, status, resetPc>>
      BY <1>2, <2>1 DEF StartRun, storeVars, chunkVars, TypeOK
    <3>2. RunInv(r)'
      BY <1>1, <2>1, StartRunKeeps
    <3>3. QED BY <1>1, <3>1, <3>2, StoreInvStable
  <2>2. ASSUME NEW c \in SUBSET Symbols, TakeChunk(r, c)
        PROVE  Frame /\ RunInv(r)' /\ StoreInv'
    <3>1. Frame /\ UNCHANGED <<lastTs, status, resetPc>>
      BY <1>2, <2>2, <2>a DEF TakeChunk, storeVars, TypeOK, Active
    <3>2. RunInv(r)'
      BY <2>2, TakeChunkKeeps
    <3>3. QED BY <1>1, <3>1, <3>2, StoreInvStable
  <2>3. CASE FinishRun(r)
    <3>1. Frame /\ UNCHANGED <<lastTs, status, resetPc>> /\ ~Active(r)'
      BY <1>2, <2>3, <2>a DEF FinishRun, ForgetPlan, storeVars, chunkVars, TypeOK, Active
    <3>2. RunInv(r)'
      BY <3>1 DEF RunInv
    <3>3. QED BY <1>1, <3>1, <3>2, StoreInvStable
  <2>4. ASSUME NEW b \in SUBSET Symbols, SendBatch(r, b)
        PROVE  Frame /\ RunInv(r)' /\ StoreInv'
    <3>1. /\ Frame /\ UNCHANGED <<lastTs, status, resetPc, seen, from, newest>>
          /\ Active(r) /\ Fetching(r)
      BY <1>2, <2>4, <2>a DEF SendBatch, storeVars, planVars, TypeOK, Active, Fetching
    <3>2. RunInv(r)'
      BY <1>1, <3>1, RunInvStable
    <3>3. QED BY <1>1, <3>1, <3>2, StoreInvStable
  <2>5. CASE StopEarly(r)
    <3>1. /\ Frame /\ UNCHANGED <<lastTs, status, resetPc, seen, from, newest>>
          /\ Active(r) /\ Fetching(r)
      BY <1>2, <2>5, <2>a DEF StopEarly, storeVars, planVars, TypeOK, Active, Fetching
    <3>2. RunInv(r)'
      BY <1>1, <3>1, RunInvStable
    <3>3. QED BY <1>1, <3>1, <3>2, StoreInvStable
  <2>6. ASSUME NEW top \in [flight[r] -> NewestBars(r) \cup {NoTs}], ReceiveBatch(r, top)
        PROVE  Frame /\ RunInv(r)' /\ StoreInv'
    <3>1. Frame /\ UNCHANGED <<lastTs, status, resetPc>>
      BY <1>2, <2>6, <2>a DEF ReceiveBatch, storeVars, planVars, TypeOK, Active
    <3>2. RunInv(r)'
      BY <2>6, ReceiveBatchKeeps
    <3>3. QED BY <1>1, <3>1, <3>2, StoreInvStable
  <2>7. ASSUME NEW whole \in SUBSET Symbols, NEW part \in Unstored(r),
               NEW cut \in from[r][part] + 1 .. newest[r][part] + 1,
               IngestChunk(r, whole, part, cut)
        PROVE  Frame /\ RunInv(r)' /\ StoreInv'
    <3>1. Monotone /\ RunInv(r)'
      BY <1>1, <2>7, IngestChunkKeeps
    <3>2. Others /\ clock' = clock /\ pc' = pc /\ UNCHANGED <<lastTs, status, resetPc>>
      BY <1>2, <2>7 DEF IngestChunk, planVars, TypeOK
    <3>3. QED BY <1>1, <3>1, <3>2, StoreInvStable
  <2>8. CASE RecordState(r)
    <3>1. Frame /\ seen' = seen /\ Active(r) /\ ~Fetching(r)'
      BY <1>2, <2>8, <2>a
      DEF RecordState, UpdateState, ForgetChunk, planVars, TypeOK, Active, Fetching
    <3>2. RunInv(r)'
      BY <1>1, <3>1, RunInvStable
    <3>3. QED BY <2>8, <3>1, <3>2, RecordStateKeeps
  <2>9. CASE PersistFails(r)
    <3>1. /\ Frame /\ UNCHANGED <<lastTs, status, resetPc>>
          /\ seen' = seen /\ Active(r) /\ ~Fetching(r)'
      BY <1>2, <2>9, <2>a
      DEF PersistFails, ForgetChunk, storeVars, planVars, TypeOK, Active, Fetching
    <3>2. RunInv(r)'
      BY <1>1, <3>1, RunInvStable
    <3>3. QED BY <1>1, <3>1, <3>2, StoreInvStable
  <2>10. CASE MarkError(r)
    <3>1. /\ Frame /\ seen' = seen /\ Active(r) /\ ~Fetching(r)' /\ rows' = rows
      BY <1>2, <2>10, <2>a
      DEF MarkError, MarkErrorState, planVars, TypeOK, Active, Fetching
    <3>2. RunInv(r)'
      BY <1>1, <3>1, RunInvStable
    <3>3. lastTs' = lastTs /\ \A s \in Symbols : status'[s] = "synced" => status[s] = "synced"
      BY <1>2, <2>10 DEF MarkError, MarkErrorState, Coalesce, TypeOK, StoreTypeOK
    <3>4. StoreInv'
      BY <3>1, <3>3 DEF IInv, StoreInv
    <3>5. QED BY <3>1, <3>2, <3>4
  <2>11. CASE RunDies(r)
    <3>1. Frame /\ UNCHANGED <<lastTs, status, resetPc>> /\ ~Active(r)'
      BY <1>2, <2>11, <2>a
      DEF RunDies, ForgetPlan, ForgetChunk, storeVars, TypeOK, Active
    <3>2. RunInv(r)'
      BY <3>1 DEF RunInv
    <3>3. QED BY <1>1, <3>1, <3>2, StoreInvStable
  <2>12. QED
    BY <1>3, <2>1, <2>2, <2>3, <2>4, <2>5, <2>6, <2>7, <2>8, <2>9, <2>10, <2>11
    DEF RunStep
<1>4. ASSUME NEW r \in Runs, RunStep(r) PROVE IInv'
  <2>1. \A q \in Runs : RunInv(q)'
    BY <1>1, <1>3, <1>4, RunInvStable DEF Active, Fetching
  <2>2. ResetAlone'
    BY <1>3, <1>4, <1>2 DEF IInv, ResetAlone, Active, TypeOK
  <2>3. QED BY <1>1, <1>3, <1>4, <2>1, <2>2 DEF IInv
<1>5. CASE Tick
  <2>1. /\ UNCHANGED <<storeVars, rows, lastTs, status, resetPc, pc, seen, from, newest>>
        /\ clock' = clock + 1
    BY <1>5 DEF Tick, storeVars, runVars, planVars, chunkVars
  <2>2. StoreInv' /\ \A q \in Runs : RunInv(q)'
    BY <1>1, <2>1, StoreInvStable, RunInvStable DEF Active, Fetching
  <2>3. QED BY <1>1, <2>1, <2>2 DEF IInv, ResetAlone, Active
<1>6. CASE ResetTruncate
  BY <1>1, <1>6 DEF ResetTruncate, runVars, IInv, StoreInv, ResetAlone, RunInv, Active
<1>7. CASE ResetDelete
  BY <1>1, <1>7 DEF ResetDelete, runVars, IInv, StoreInv, ResetAlone, RunInv, Active
<1>8. CASE Crash
  <2>1. \A q \in Runs : ~Active(q)'
    BY <1>8 DEF Crash, Active
  <2>2. StoreInv'
    BY <1>1, <1>8, StoreInvStable DEF Crash, storeVars
  <2>3. QED BY <1>1, <2>1, <2>2 DEF IInv, ResetAlone, RunInv
<1>9. CASE UNCHANGED vars
  BY <1>1, <1>9
  DEF vars, storeVars, runVars, planVars, chunkVars, IInv, StoreInv, ResetAlone, RunInv,
      Active, Fetching
<1>10. QED
  BY <1>4, <1>5, <1>6, <1>7, <1>8, <1>9 DEF Next

LEMMA IInvHolds == ASSUME ResetIsolated PROVE Spec => []IInv
BY IInvInit, IInvNext, PTL DEF Spec

\* While POST /sync/reset-1min runs alone, no interleaving of overlapping sync
\* runs, failed writes, exhausted budgets and crashes leaves a hole below
\* last_data_ts that no later run would ask for.
THEOREM NoSilentHole == ASSUME ResetIsolated PROVE Spec => []HistoryComplete
<1>1. IInv => HistoryComplete
  <2> SUFFICES ASSUME IInv, resetPc = "idle", NEW s \in Symbols, lastTs[s] # NoTs,
                      NEW t \in WindowStart(clock) .. lastTs[s]
               PROVE  t \in rows[s]
    BY DEF HistoryComplete
  <2>1. WindowStart(clock) \in Nat /\ lastTs[s] \in Nat
    BY WindowStartNat DEF IInv, TypeOK, StoreTypeOK, Ts
  <2>2. Covers(rows[s], clock, lastTs[s])
    BY DEF IInv, StoreInv
  <2>3. QED BY <2>1, <2>2 DEF Covers
<1>2. QED
  BY <1>1, IInvHolds, PTL

\* Under the same condition the bar sync_state names is always in the price
\* table, and a symbol is "synced" only with such a bar.
THEOREM WatermarkIsStored == ASSUME ResetIsolated PROVE Spec => []WatermarkStored
<1>1. IInv => WatermarkStored
  BY DEF IInv, StoreInv, WatermarkStored
<1>2. QED
  BY <1>1, IInvHolds, PTL

-----------------------------------------------------------------------------
(* The daily quota.  What _budget_ok does not count yet is in flight: at   *)
(* most Rate requests of every run.                                        *)

\* The requests in flight.
InFlight(answering) == {x \in Runs \X Symbols : x[2] \in answering[x[1]]}

\* Runs that await their batch have at most Rate requests in flight, others none;
\* what was sent today is counted or in flight.
QuotaInv ==
  /\ \A r \in Runs : Cardinality(flight[r]) <= Rate
  /\ \A r \in Runs : pc[r] # "await" => flight[r] = {}
  /\ sent <= UsedToday + Cardinality(InFlight(flight))
  /\ usedDay # Day(clock) => sent = 0
  /\ sent <= Budget

LEMMA InFlightFinite ==
  ASSUME NEW f, IsFiniteSet(Runs)
  PROVE  IsFiniteSet(InFlight(f)) /\ Cardinality(InFlight(f)) \in Nat
<1>1. IsFiniteSet(Runs \X Symbols)
  BY SymbolsFinite, FS_Product
<1>2. InFlight(f) \in SUBSET (Runs \X Symbols)
  BY DEF InFlight
<1>3. IsFiniteSet(InFlight(f))
  BY <1>1, <1>2, FS_Subset
<1> QED
  BY <1>3, FS_CardinalityType

\* Every run's requests can be numbered from 1 to Rate.
LEMMA InFlightBound ==
  ASSUME NEW f \in [Runs -> SUBSET Symbols], IsFiniteSet(Runs),
         \A r \in Runs : Cardinality(f[r]) <= Rate
  PROVE  Cardinality(InFlight(f)) <= Cardinality(Runs) * Rate
<1>1. \A r \in Runs : Injection(f[r], 1 .. Rate) # {}
  <2> SUFFICES ASSUME NEW r \in Runs
               PROVE  Injection(f[r], 1 .. Rate) # {}
    OBVIOUS
  <2>1. IsFiniteSet(f[r]) /\ Cardinality(f[r]) \in Nat /\ Cardinality(f[r]) <= Rate
    BY SymbolsFinite, FS_Subset, FS_CardinalityType
  <2>2. ExistsBijection(f[r], 1 .. Cardinality(f[r]))
    BY <2>1, FS_CardinalityType, Fun_ExistsBijSymmetric
  <2>3. PICK g : g \in Bijection(f[r], 1 .. Cardinality(f[r]))
    BY <2>2 DEF ExistsBijection
  <2>4. g \in [f[r] -> 1 .. Cardinality(f[r])] /\ IsInjective(g)
    BY <2>3 DEF Bijection, Injection
  <2>5. 1 .. Cardinality(f[r]) \subseteq 1 .. Rate
    BY <2>1, MinuteAssumption
  <2>6. g \in Injection(f[r], 1 .. Rate)
    BY <2>4, <2>5 DEF Injection
  <2> QED
    BY <2>6
<1> DEFINE g == [r \in Runs |-> CHOOSE i : i \in Injection(f[r], 1 .. Rate)]
           h == [x \in InFlight(f) |-> <<x[1], g[x[1]][x[2]]>>]
<1>2. \A r \in Runs : g[r] \in Injection(f[r], 1 .. Rate)
  BY <1>1
<1>3. h \in Injection(InFlight(f), Runs \X (1 .. Rate))
  <2> HIDE DEF g
  <2>1. ASSUME NEW x \in InFlight(f)
        PROVE  x[1] \in Runs /\ x[2] \in f[x[1]] /\ x = <<x[1], x[2]>> /\ h[x] = <<x[1], g[x[1]][x[2]]>>
    BY DEF InFlight
  <2>2. ASSUME NEW x \in InFlight(f)
        PROVE  g[x[1]][x[2]] \in 1 .. Rate
    BY <1>2, <2>1 DEF Injection
  <2>3. h \in [InFlight(f) -> Runs \X (1 .. Rate)]
    BY <2>1, <2>2
  <2>4. ASSUME NEW x \in InFlight(f), NEW y \in InFlight(f), h[x] = h[y]
        PROVE  x = y
    <3>1. x[1] = y[1] /\ g[x[1]][x[2]] = g[x[1]][y[2]]
      BY <2>1, <2>4
    <3>2. x[2] \in f[x[1]] /\ y[2] \in f[x[1]]
      BY <2>1, <3>1
    <3>3. PICK i : i = g[x[1]]
      OBVIOUS
    <3>4. i \in [f[x[1]] -> 1 .. Rate] /\ IsInjective(i)
      BY <1>2, <2>1, <3>3 DEF Injection
    <3>5. x[2] = y[2]
      BY <3>1, <3>2, <3>3, <3>4 DEF IsInjective
    <3> QED
      BY <2>1, <3>1, <3>5
  <2>5. IsInjective(h)
    BY <2>4 DEF IsInjective
  <2> QED
    BY <2>3, <2>5 DEF Injection
<1>4. IsFiniteSet(1 .. Rate) /\ Cardinality(1 .. Rate) = Rate
  BY FS_Interval, MinuteAssumption
<1>5. IsFiniteSet(Runs \X (1 .. Rate)) /\ Cardinality(Runs \X (1 .. Rate)) = Cardinality(Runs) * Rate
  BY <1>4, FS_Product
<1> HIDE DEF h
<1> QED
  BY <1>3, <1>5, FS_Injection

\* A batch that leaves, or is answered, changes the requests in flight by its size.
LEMMA InFlightGrows ==
  ASSUME NEW f \in [Runs -> SUBSET Symbols], IsFiniteSet(Runs), NEW r \in Runs, f[r] = {},
         NEW b \in SUBSET Symbols
  PROVE  Cardinality(InFlight([f EXCEPT ![r] = b])) = Cardinality(InFlight(f)) + Cardinality(b)
<1> DEFINE g == [f EXCEPT ![r] = b]
<1>1. InFlight(g) = InFlight(f) \union ({r} \X b)
  BY DEF InFlight
<1>2. InFlight(f) \intersect ({r} \X b) = {}
  BY DEF InFlight
<1>3. IsFiniteSet(b) /\ Cardinality(b) \in Nat
  BY SymbolsFinite, FS_Subset, FS_CardinalityType
<1>4. IsFiniteSet({r}) /\ Cardinality({r}) = 1
  BY FS_Singleton
<1>5. IsFiniteSet({r} \X b) /\ Cardinality({r} \X b) = 1 * Cardinality(b)
  BY <1>3, <1>4, FS_Product
<1>6. IsFiniteSet(InFlight(f)) /\ Cardinality(InFlight(f)) \in Nat
  BY InFlightFinite
<1>7. Cardinality({}) = 0
  BY FS_EmptySet
<1>8. Cardinality(InFlight(f) \union ({r} \X b))
        = Cardinality(InFlight(f)) + Cardinality({r} \X b) - Cardinality(InFlight(f) \intersect ({r} \X b))
  BY <1>5, <1>6, FS_Union
<1>9. Cardinality({r} \X b) = Cardinality(b)
  BY <1>3, <1>5
<1>10. Cardinality(InFlight(f) \intersect ({r} \X b)) = 0
  BY <1>2, <1>7
<1>11. Cardinality(InFlight(g)) = Cardinality(InFlight(f)) + Cardinality(b) - 0
  BY <1>1, <1>8, <1>9, <1>10
<1> QED
  BY <1>3, <1>6, <1>11

LEMMA QuotaInit == ASSUME IsFiniteSet(Runs) PROVE Init => QuotaInv
<1> SUFFICES ASSUME Init
             PROVE  QuotaInv
  OBVIOUS
<1>1. flight = [r \in Runs |-> {}] /\ sent = 0 /\ used = 0 /\ usedDay = 0 /\ clock = 0
  BY DEF Init
<1>2. \A r \in Runs : flight[r] = {} /\ Cardinality(flight[r]) = 0
  BY <1>1, FS_EmptySet
<1>3. UsedToday = 0 /\ Cardinality(InFlight(flight)) \in Nat
  BY <1>1, InFlightFinite DEF UsedToday
<1> QED
  BY <1>1, <1>2, <1>3, MinuteAssumption DEF QuotaInv

\* What changes no batch in flight and only lets the count of an old day go.
LEMMA QuotaStable ==
  ASSUME TypeOK, QuotaInv, clock' = clock, sent' = sent, flight' = flight,
         UNCHANGED <<used, usedDay>> \/ MaybeReset,
         \A r \in Runs : pc'[r] = pc[r] \/ pc[r] # "await"
  PROVE  QuotaInv'
<1>1. UsedToday' = UsedToday /\ (usedDay' = usedDay \/ usedDay' = Day(clock'))
  BY DEF UsedToday, MaybeReset
<1> QED
  BY <1>1 DEF QuotaInv, InFlight

LEMMA QuotaNext ==
  ASSUME IsFiniteSet(Runs), Cardinality(Runs) * Rate <= Safety + 1, TypeOK, QuotaInv, [Next]_vars
  PROVE  QuotaInv'
<1> USE DEF GoTo
<1>0. /\ sent \in Nat /\ used \in Nat /\ UsedToday \in Nat /\ clock \in Nat /\ Day(clock) \in Nat
      /\ Cardinality(InFlight(flight)) \in Nat /\ flight \in [Runs -> SUBSET Symbols]
      /\ Rate \in Nat /\ Budget \in Nat /\ Safety \in Nat
  BY DayNat, InFlightFinite, MinuteAssumption DEF TypeOK, UsedToday
<1>1. CASE Tick
  <2>1. clock' = clock + 1 /\ UNCHANGED <<flight, pc, used, usedDay>>
        /\ sent' = IF Day(clock + 1) = Day(clock) THEN sent ELSE 0
    BY <1>1 DEF Tick, runVars, chunkVars
  <2>2. CASE Day(clock + 1) = Day(clock)
    BY <2>1, <2>2 DEF QuotaInv, UsedToday, InFlight
  <2>3. CASE Day(clock + 1) # Day(clock)
    <3>1. sent' = 0 /\ UsedToday' \in Nat
      BY <1>0, <2>1, <2>3 DEF UsedToday
    <3>2. InFlight(flight)' = InFlight(flight)
      BY <2>1 DEF InFlight
    <3> QED
      BY <1>0, <2>1, <3>1, <3>2 DEF QuotaInv
  <2> QED
    BY <2>2, <2>3
<1>2. ASSUME NEW r \in Runs, RunStep(r)
      PROVE  QuotaInv'
  <2>0. pc \in [Runs -> RunStates]
    BY DEF TypeOK
  <2>1. CASE StartRun(r)
    <3>1. \A q \in Runs : pc'[q] = pc[q] \/ pc[q] # "await"
      BY <2>0, <2>1 DEF StartRun, Active
    <3> QED
      BY <2>1, <3>1, QuotaStable DEF StartRun, chunkVars
  <2>2. ASSUME NEW c \in SUBSET Symbols, TakeChunk(r, c)
        PROVE  QuotaInv'
    <3>1. \A q \in Runs : pc'[q] = pc[q] \/ pc[q] # "await"
      BY <2>0, <2>2 DEF TakeChunk
    <3> QED
      BY <2>2, <3>1, QuotaStable DEF TakeChunk, budgetVars
  <2>3. CASE FinishRun(r)
    <3>1. \A q \in Runs : pc'[q] = pc[q] \/ pc[q] # "await"
      BY <2>0, <2>3 DEF FinishRun
    <3> QED
      BY <2>3, <3>1, QuotaStable DEF FinishRun, chunkVars
  <2>4. ASSUME NEW b \in SUBSET Symbols, SendBatch(r, b)
        PROVE  QuotaInv'
    <3>1. /\ UsedToday + Safety < Budget /\ flight' = [flight EXCEPT ![r] = b]
          /\ sent' = sent + Cardinality(b) /\ clock' = clock /\ pc' = [pc EXCEPT ![r] = "await"]
          /\ pc[r] = "batch"
      BY <2>4 DEF SendBatch, BudgetOk
    <3>2. UsedToday' = UsedToday /\ usedDay' = Day(clock')
      BY <2>4 DEF SendBatch, UsedToday, MaybeReset
    <3>3. Cardinality(b) <= Rate /\ Cardinality(b) \in Nat
      BY <1>0, <2>4, SizeNat DEF SendBatch, Slice
    <3>4. flight[r] = {}
      BY <3>1 DEF QuotaInv
    <3>5. Cardinality(InFlight(flight)) + Cardinality(b) <= Cardinality(Runs) * Rate
          /\ Cardinality(InFlight(flight')) = Cardinality(InFlight(flight)) + Cardinality(b)
      <4>1. PICK g : g = [flight EXCEPT ![r] = b]
        OBVIOUS
      <4>2. Cardinality(InFlight(g)) = Cardinality(InFlight(flight)) + Cardinality(b)
        <5>1. flight \in [Runs -> SUBSET Symbols] /\ b \in SUBSET Symbols /\ IsFiniteSet(Runs)
          BY <1>0
        <5>2. Cardinality(InFlight([flight EXCEPT ![r] = b])) = Cardinality(InFlight(flight)) + Cardinality(b)
          BY <3>4, <5>1, InFlightGrows, Zenon
        <5> QED
          BY <4>1, <5>2
      <4>3. g \in [Runs -> SUBSET Symbols] /\ \A q \in Runs : Cardinality(g[q]) <= Rate
        BY <1>0, <3>3, <4>1 DEF QuotaInv
      <4>4. Cardinality(InFlight(g)) <= Cardinality(Runs) * Rate
        BY <4>3, InFlightBound
      <4> QED
        BY <3>1, <4>1, <4>2, <4>4
    <3>6. sent' <= UsedToday' + Cardinality(InFlight(flight'))
      BY <1>0, <3>1, <3>2, <3>3, <3>5 DEF QuotaInv
    <3>7. sent' <= Budget
      <4>1. PICK all : all = Cardinality(Runs) * Rate /\ all <= Safety + 1
        OBVIOUS
      <4>2. Cardinality(Runs) \in Nat /\ all \in Nat
        <5>1. Cardinality(Runs) \in Nat
          BY FS_CardinalityType
        <5> QED
          BY <1>0, <4>1, <5>1
      <4>3. Cardinality(InFlight(flight')) <= all
        BY <3>5, <4>1
      <4> QED
        BY <1>0, <3>1, <3>2, <3>3, <3>5, <3>6, <4>1, <4>2, <4>3
    <3>8. \A q \in Runs : Cardinality(flight'[q]) <= Rate /\ (pc'[q] # "await" => flight'[q] = {})
      BY <1>0, <2>0, <3>1, <3>3 DEF QuotaInv
    <3>9. InFlight(flight)' = InFlight(flight')
      BY DEF InFlight
    <3> QED
      BY <3>2, <3>6, <3>7, <3>8, <3>9 DEF QuotaInv
  <2>5. CASE StopEarly(r)
    <3>1. \A q \in Runs : pc'[q] = pc[q] \/ pc[q] # "await"
      BY <2>0, <2>5 DEF StopEarly
    <3> QED
      BY <2>5, <3>1, QuotaStable DEF StopEarly
  <2>6. ASSUME NEW top \in [flight[r] -> NewestBars(r) \cup {NoTs}], ReceiveBatch(r, top)
        PROVE  QuotaInv'
    <3>1. /\ used' = used + Cardinality(flight[r]) /\ flight' = [flight EXCEPT ![r] = {}]
          /\ clock' = clock /\ usedDay' = usedDay /\ sent' = sent
          /\ pc' = [pc EXCEPT ![r] = IF queue[r] = {} THEN "persist" ELSE "batch"]
      BY <2>6 DEF ReceiveBatch
    <3>2. Cardinality(flight[r]) \in Nat
      BY SizeNat, <1>0
    <3>3. /\ Cardinality(InFlight(flight)) = Cardinality(InFlight(flight')) + Cardinality(flight[r])
          /\ Cardinality(InFlight(flight')) \in Nat
      <4>1. PICK g : g = [flight EXCEPT ![r] = {}]
        OBVIOUS
      <4>2. g \in [Runs -> SUBSET Symbols] /\ g[r] = {} /\ flight = [g EXCEPT ![r] = flight[r]]
            /\ flight[r] \in SUBSET Symbols
        BY <1>0, <4>1
      <4>3. Cardinality(InFlight(flight)) = Cardinality(InFlight(g)) + Cardinality(flight[r])
        BY <4>2, InFlightGrows
      <4>4. Cardinality(InFlight(g)) \in Nat
        BY InFlightFinite
      <4> QED
        BY <3>1, <4>1, <4>3, <4>4
    <3>4. sent' <= UsedToday' + Cardinality(InFlight(flight'))
      <4>1. CASE usedDay = Day(clock)
        <5>1. UsedToday' = UsedToday + Cardinality(flight[r])
          BY <3>1, <4>1 DEF UsedToday
        <5> QED
          BY <1>0, <3>1, <3>2, <3>3, <5>1 DEF QuotaInv
      <4>2. CASE usedDay # Day(clock)
        <5>1. sent' = 0 /\ UsedToday' = 0
          BY <3>1, <4>2 DEF UsedToday, QuotaInv
        <5> QED
          BY <3>3, <5>1
      <4> QED
        BY <4>1, <4>2
    <3>5. \A q \in Runs : Cardinality(flight'[q]) <= Rate /\ (pc'[q] # "await" => flight'[q] = {})
      <4>1. Cardinality({}) = 0
        BY FS_EmptySet
      <4> QED
        BY <1>0, <2>0, <3>1, <4>1 DEF QuotaInv
    <3>6. InFlight(flight)' = InFlight(flight')
      BY DEF InFlight
    <3> QED
      BY <3>1, <3>4, <3>5, <3>6 DEF QuotaInv
  <2>7. ASSUME NEW whole \in SUBSET Symbols, NEW part \in Unstored(r),
               NEW cut \in from[r][part] + 1 .. newest[r][part] + 1,
               IngestChunk(r, whole, part, cut)
        PROVE  QuotaInv'
    BY <2>7, QuotaStable DEF IngestChunk, budgetVars
  <2>8. CASE RecordState(r) \/ PersistFails(r) \/ RunDies(r)
    <3>1. pc[r] # "await" /\ flight' = [flight EXCEPT ![r] = {}] /\ UNCHANGED <<clock, used, usedDay, sent>>
      BY <2>8 DEF RecordState, PersistFails, RunDies, ForgetChunk, budgetVars
    <3>2. flight' = flight
      BY <1>0, <3>1 DEF QuotaInv
    <3>3. \A q \in Runs : pc'[q] = pc[q] \/ pc[q] # "await"
      BY <2>0, <2>8, <3>1 DEF RecordState, PersistFails, RunDies
    <3> QED
      BY <3>1, <3>2, <3>3, QuotaStable
  <2>9. CASE MarkError(r)
    <3>1. \A q \in Runs : pc'[q] = pc[q] \/ pc[q] # "await"
      BY <2>0, <2>9 DEF MarkError
    <3> QED
      BY <2>9, <3>1, QuotaStable DEF MarkError, budgetVars
  <2> QED
    BY <1>2, <2>1, <2>2, <2>3, <2>4, <2>5, <2>6, <2>7, <2>8, <2>9 DEF RunStep
<1>3. CASE ResetTruncate \/ ResetDelete \/ UNCHANGED vars
  <2>1. UNCHANGED <<clock, pc, flight, used, usedDay, sent>>
    BY <1>3 DEF ResetTruncate, ResetDelete, vars, runVars, chunkVars, budgetVars
  <2> QED
    BY <2>1, QuotaStable
<1>4. CASE Crash
  <2>1. flight' = [r \in Runs |-> {}] /\ sent' = 0 /\ used' = 0 /\ usedDay' = Day(clock) /\ clock' = clock
    BY <1>4 DEF Crash
  <2>2. UsedToday' = 0 /\ Cardinality({}) = 0
    BY <2>1, FS_EmptySet DEF UsedToday
  <2>3. \A r \in Runs : flight'[r] = {} /\ Cardinality(flight'[r]) = 0
    BY <2>1, <2>2
  <2>4. InFlight(flight)' = {}
    BY <2>1 DEF InFlight
  <2> QED
    <3>1. \A r \in Runs : Cardinality(flight'[r]) <= Rate
      BY <1>0, <2>3
    <3>2. Cardinality(InFlight(flight)') = 0
      BY <2>2, <2>4
    <3>3. sent' <= UsedToday' + Cardinality(InFlight(flight)') /\ sent' <= Budget
      BY <1>0, <2>1, <2>2, <3>2
    <3> QED
      BY <2>1, <2>3, <3>1, <3>3 DEF QuotaInv
<1>5. \/ Tick \/ \E r \in Runs : RunStep(r)
      \/ ResetTruncate \/ ResetDelete \/ UNCHANGED vars \/ Crash
  BY DEF Next
<1> QED
  BY <1>1, <1>2, <1>3, <1>4, <1>5

(***************************************************************************)
(* _run_batched and _budget_ok: the budget is counted when a batch is      *)
(* answered, so overlapping runs send without knowing of each other; while *)
(* the batches of all of them fit into the reserve (with 2 requests of a   *)
(* batch and a reserve of 100, of fifty runs), a process sends no more     *)
(* requests in a day than the quota.                                       *)
(***************************************************************************)
THEOREM QuotaHeld ==
  ASSUME IsFiniteSet(Runs), Cardinality(Runs) * Rate <= Safety + 1
  PROVE  Spec => []BudgetHeld
<1>1. QuotaInv => BudgetHeld
  BY DEF QuotaInv, BudgetHeld
<1> QED
  BY <1>1, QuotaInit, QuotaNext, TypeCorrect, PTL DEF Spec

-----------------------------------------------------------------------------
(* last_data_ts goes back only when the run that writes it overwrites what *)
(* another one wrote since, or got less from Dhan than had been served:    *)
(* what sync_state, a run's snapshot and its results hold was served once, *)
(* and an answer that is not short reaches the bar the run had found in    *)
(* sync_state when it started.                                             *)

\* The bar last, if any, is not beyond the newest bar served of s.
WasServed(s, last) == last # NoTs => served[s] # NoTs /\ last <= served[s]

ServedFor(r) == \A s \in Symbols : WasServed(s, seen[r][s]) /\ WasServed(s, newest[r][s])

ServedInv ==
  /\ \A s \in Symbols : WasServed(s, lastTs[s])
  /\ \A r \in Runs : ServedFor(r)

LEMMA ServedInit == Init => ServedInv
BY DEF Init, StoreInit, ServedInv, ServedFor, WasServed, NoneSeen

\* served only rises, and a value that stays as it is stays served.
LEMMA ServedRises ==
  ASSUME TypeOK, NEW r \in Runs, NEW top \in [flight[r] -> NewestBars(r) \cup {NoTs}], ReceiveBatch(r, top)
  PROVE  \A s \in Symbols :
           /\ \A last \in Ts : WasServed(s, last) => WasServed(s, last)'
           /\ WasServed(s, newest[r][s])' \/ newest'[r][s] = newest[r][s]
<1> SUFFICES ASSUME NEW s \in Symbols
             PROVE  /\ \A last \in Ts : WasServed(s, last) => WasServed(s, last)'
                    /\ WasServed(s, newest[r][s])' \/ newest'[r][s] = newest[r][s]
  OBVIOUS
<1>1. /\ newest'[r][s] = IF s \in Filled(r, top) THEN top[s] ELSE newest[r][s]
      /\ served'[s] = IF s \in Filled(r, top) /\ (served[s] = NoTs \/ served[s] < top[s])
                      THEN top[s] ELSE served[s]
  BY DEF ReceiveBatch, TypeOK
<1>2. s \in Filled(r, top) => top[s] \in Nat
  BY DEF Filled, NewestBars, TypeOK
<1>3. served[s] # NoTs => served[s] \in Nat
  BY DEF TypeOK, Ts
<1>4. ASSUME NEW last \in Ts, WasServed(s, last)
      PROVE  WasServed(s, last)'
  BY <1>1, <1>2, <1>3, <1>4, NoTsAssumption DEF WasServed, Ts
<1>5. s \in Filled(r, top) => WasServed(s, newest[r][s])'
  BY <1>1, <1>2, <1>3, NoTsAssumption DEF WasServed
<1> QED
  BY <1>1, <1>4, <1>5

LEMMA ServedNext ==
  ASSUME TypeOK, ServedInv, [Next]_vars
  PROVE  ServedInv'
<1> USE DEF GoTo
<1>0. /\ seen \in [Runs -> [Symbols -> Ts]] /\ newest \in [Runs -> [Symbols -> Ts]]
      /\ lastTs \in [Symbols -> Ts]
  BY DEF TypeOK, StoreTypeOK
<1>1. \A s \in Symbols : WasServed(s, lastTs[s]) /\ WasServed(s, NoTs)
  BY DEF ServedInv, WasServed
<1>2. \A q \in Runs, s \in Symbols : WasServed(s, seen[q][s]) /\ WasServed(s, newest[q][s])
  BY DEF ServedInv, ServedFor
<1>3. ASSUME NEW r \in Runs, NEW top \in [flight[r] -> NewestBars(r) \cup {NoTs}], ReceiveBatch(r, top)
      PROVE  ServedInv'
  <2>1. /\ UNCHANGED <<lastTs, seen>> /\ \A q \in Runs \ {r} : newest'[q] = newest[q]
    BY <1>0, <1>3 DEF ReceiveBatch, storeVars, planVars
  <2>2. \A s \in Symbols : \A last \in Ts : WasServed(s, last) => WasServed(s, last)'
    BY <1>3, ServedRises
  <2>3. \A s \in Symbols : WasServed(s, newest[r][s])' \/ newest'[r][s] = newest[r][s]
    BY <1>3, ServedRises
  <2>4. ASSUME NEW s \in Symbols, NEW q \in Runs
        PROVE  WasServed(s, lastTs[s])' /\ WasServed(s, seen[q][s])' /\ WasServed(s, newest[q][s])'
    <3>1. lastTs[s] \in Ts /\ seen[q][s] \in Ts /\ newest[q][s] \in Ts
      BY <1>0
    <3>2. WasServed(s, lastTs[s])' /\ WasServed(s, seen[q][s])'
      BY <1>1, <1>2, <2>1, <2>2, <3>1 DEF WasServed
    <3>3. newest'[q][s] = newest[q][s] => WasServed(s, newest[q][s])'
      BY <1>2, <2>2, <3>1 DEF WasServed
    <3> QED
      BY <2>1, <2>3, <3>2, <3>3
  <2>5. ASSUME NEW s \in Symbols
        PROVE  WasServed(s, lastTs[s])'
    BY <1>3, <2>4
  <2> QED
    BY <2>4, <2>5 DEF ServedInv, ServedFor
<1>4. ASSUME served' = served,
             \A s \in Symbols : WasServed(s, lastTs'[s]),
             \A q \in Runs, s \in Symbols : WasServed(s, seen'[q][s]) /\ WasServed(s, newest'[q][s])
      PROVE  ServedInv'
  BY <1>4 DEF ServedInv, ServedFor, WasServed
<1>5. ASSUME NEW r \in Runs, RunStep(r)
      PROVE  ServedInv'
  <2> DEFINE Kept == \A q \in Runs \ {r} : seen'[q] = seen[q] /\ newest'[q] = newest[q]
  <2>1. CASE StartRun(r)
    <3>1. UNCHANGED <<served, lastTs, newest>> /\ Kept /\ seen'[r] = lastTs
      BY <1>0, <2>1 DEF StartRun, storeVars, chunkVars
    <3> QED
      BY <1>1, <1>2, <1>4, <3>1
  <2>2. ASSUME NEW c \in SUBSET Symbols, TakeChunk(r, c)
        PROVE  ServedInv'
    <3>1. UNCHANGED <<served, lastTs, seen>> /\ Kept /\ newest'[r] = NoneSeen
      BY <1>0, <2>2 DEF TakeChunk, NoResults, storeVars
    <3> QED
      BY <1>1, <1>2, <1>4, <3>1 DEF NoneSeen
  <2>3. CASE FinishRun(r)
    <3>1. UNCHANGED <<served, lastTs, newest>> /\ Kept /\ seen'[r] = NoneSeen
      BY <1>0, <2>3 DEF FinishRun, ForgetPlan, storeVars, chunkVars
    <3> QED
      BY <1>1, <1>2, <1>4, <3>1 DEF NoneSeen
  <2>4. CASE \E b \in SUBSET Symbols : SendBatch(r, b)
    BY <1>1, <1>2, <1>4, <2>4 DEF SendBatch, storeVars, planVars
  <2>5. CASE StopEarly(r)
    BY <1>1, <1>2, <1>4, <2>5 DEF StopEarly, storeVars, planVars
  <2>6. CASE \E whole \in SUBSET Symbols, part \in Unstored(r) :
               \E cut \in from[r][part] + 1 .. newest[r][part] + 1 : IngestChunk(r, whole, part, cut)
    BY <1>1, <1>2, <1>4, <2>6 DEF IngestChunk, planVars
  <2>7. CASE RecordState(r)
    <3>1. UNCHANGED <<served, seen>> /\ Kept /\ newest'[r] = NoneSeen
      BY <1>0, <2>7 DEF RecordState, ForgetChunk, planVars
    <3>2. \A s \in Symbols : lastTs'[s] \in {lastTs[s], newest[r][s]}
      BY <2>7 DEF RecordState, UpdateState, Coalesce
    <3>3. \A s \in Symbols : WasServed(s, lastTs'[s])
      BY <1>1, <1>2, <3>2
    <3> QED
      BY <1>1, <1>2, <1>4, <3>1, <3>3 DEF NoneSeen
  <2>8. CASE PersistFails(r) \/ MarkError(r)
    <3>1. UNCHANGED <<served, seen>> /\ Kept /\ newest'[r] \in {newest[r], NoneSeen}
      BY <1>0, <2>8 DEF PersistFails, MarkError, ForgetChunk, planVars
    <3>2. \A s \in Symbols : lastTs'[s] = lastTs[s]
      BY <1>0, <2>8 DEF PersistFails, MarkError, MarkErrorState, Coalesce, storeVars
    <3> QED
      BY <1>1, <1>2, <1>4, <3>1, <3>2 DEF NoneSeen
  <2>9. CASE RunDies(r)
    <3>1. UNCHANGED <<served, lastTs>> /\ Kept /\ newest'[r] = NoneSeen /\ seen'[r] = NoneSeen
      BY <1>0, <2>9 DEF RunDies, ForgetPlan, ForgetChunk, storeVars
    <3> QED
      BY <1>1, <1>2, <1>4, <3>1 DEF NoneSeen
  <2> QED
    BY <1>3, <1>5, <2>1, <2>2, <2>3, <2>4, <2>5, <2>6, <2>7, <2>8, <2>9 DEF RunStep
<1>6. CASE Tick \/ ResetTruncate \/ UNCHANGED vars
  <2>1. UNCHANGED <<served, lastTs, seen, newest>>
    BY <1>6 DEF Tick, ResetTruncate, vars, storeVars, runVars, planVars, chunkVars
  <2> QED
    BY <1>1, <1>2, <1>4, <2>1
<1>7. CASE ResetDelete
  <2>1. UNCHANGED <<served, seen, newest>> /\ \A s \in Symbols : lastTs'[s] = NoTs
    BY <1>7 DEF ResetDelete, runVars, planVars, chunkVars
  <2> QED
    BY <1>1, <1>2, <1>4, <2>1
<1>8. CASE Crash
  <2>1. UNCHANGED <<served, lastTs>> /\ \A q \in Runs : seen'[q] = NoneSeen /\ newest'[q] = NoneSeen
    BY <1>8 DEF Crash, storeVars
  <2> QED
    BY <1>1, <1>4, <2>1 DEF NoneSeen
<1> QED
  BY <1>5, <1>6, <1>7, <1>8 DEF Next

\* The state of run r with respect to the bars it found.
ReachesFor(r) ==
  /\ queue[r] \union flight[r] \subseteq chunk[r]
  /\ ~Fetching(r) => newest[r] = NoneSeen /\ queue[r] = {} /\ flight[r] = {}
  /\ pc[r] \in {"idle", "next"} => chunk[r] = {}
  /\ \A s \in initial[r] : seen[r][s] = NoTs
  /\ \A s \in incremental[r] \union chunk[r] : seen[r][s] # NoTs => seen[r][s] < clock
  /\ \A s \in chunk[r] : Fetching(r) /\ seen[r][s] # NoTs => seen[r][s] < upTo[r]
  /\ \A s \in Symbols \ short[r] :
       seen[r][s] # NoTs /\ newest[r][s] # NoTs => seen[r][s] <= newest[r][s]

ReachInv == \A r \in Runs : ReachesFor(r)

LEMMA ReachInit == Init => ReachInv
BY DEF Init, ReachInv, ReachesFor, NoneSeen, Fetching

LEMMA DayEnds == ASSUME NEW t \in Nat PROVE t < DayStart(t) + BarsPerDay
BY MinuteAssumption DEF DayStart, Day

\* A run that takes no step is left as it is, while the clock goes on.
LEMMA ReachStable ==
  ASSUME TypeOK, NEW q \in Runs, ReachesFor(q), clock' \in Nat, clock <= clock',
         pc'[q] = pc[q] \/ (Fetching(q) /\ Fetching(q)'),
         queue'[q] \union flight'[q] \subseteq chunk'[q],
         Fetching(q) \/ (queue'[q] = {} /\ flight'[q] = {}),
         chunk'[q] \subseteq chunk[q], initial'[q] \subseteq initial[q], incremental'[q] \subseteq incremental[q],
         seen'[q] = seen[q], upTo'[q] = upTo[q], newest'[q] = newest[q], short'[q] = short[q]
  PROVE  ReachesFor(q)'
<1>1. clock \in Nat /\ \A s \in Symbols : seen[q][s] \in Ts
  BY DEF TypeOK
<1>2. chunk[q] \subseteq Symbols /\ incremental[q] \subseteq Symbols
  BY DEF TypeOK
<1>3. Fetching(q)' = Fetching(q)
  BY DEF Fetching
<1>4. \A s \in Symbols : seen[q][s] # NoTs => seen[q][s] \in Nat
  BY <1>1 DEF Ts
<1>5. /\ queue'[q] \union flight'[q] \subseteq chunk'[q]
      /\ ~Fetching(q)' => newest'[q] = NoneSeen /\ queue'[q] = {} /\ flight'[q] = {}
      /\ pc'[q] \in {"idle", "next"} => chunk'[q] = {}
  BY <1>3 DEF ReachesFor, Fetching
<1>6. /\ \A s \in initial'[q] : seen'[q][s] = NoTs
      /\ \A s \in Symbols \ short'[q] :
           seen'[q][s] # NoTs /\ newest'[q][s] # NoTs => seen'[q][s] <= newest'[q][s]
  BY DEF ReachesFor
<1>7. \A s \in incremental'[q] \union chunk'[q] : seen'[q][s] # NoTs => seen'[q][s] < clock'
  <2> SUFFICES ASSUME NEW s \in incremental'[q] \union chunk'[q], seen'[q][s] # NoTs
               PROVE  seen'[q][s] < clock'
    OBVIOUS
  <2>1. seen[q][s] # NoTs /\ s \in Symbols /\ seen[q][s] < clock
    BY <1>2 DEF ReachesFor
  <2> QED
    BY <1>1, <1>4, <2>1
<1>8. \A s \in chunk'[q] : Fetching(q)' /\ seen'[q][s] # NoTs => seen'[q][s] < upTo'[q]
  BY <1>3 DEF ReachesFor
<1>9. NoneSeen' = NoneSeen
  BY DEF NoneSeen
<1> QED
  BY <1>5, <1>6, <1>7, <1>8, <1>9 DEF ReachesFor

\* A run whose local variables go out of scope.
LEMMA ReachForgotten ==
  ASSUME NEW q \in Runs, queue'[q] = {}, flight'[q] = {}, newest'[q] = NoneSeen,
         ~Fetching(q)', pc'[q] \in {"idle", "next"} => chunk'[q] = {},
         \A s \in initial'[q] : seen'[q][s] = NoTs,
         \A s \in incremental'[q] \union chunk'[q] : seen'[q][s] # NoTs => seen'[q][s] < clock'
  PROVE  ReachesFor(q)'
BY DEF ReachesFor, NoneSeen

LEMMA ReachNext ==
  ASSUME TypeOK, ServedInv, ReachInv, [Next]_vars
  PROVE  ReachInv'
<1> USE DEF GoTo
<1>1. ASSUME NEW r \in Runs, RunStep(r)
      PROVE  /\ ReachesFor(r)' /\ clock' = clock
             /\ \A q \in Runs \ {r} :
                  /\ pc'[q] = pc[q] /\ queue'[q] = queue[q] /\ flight'[q] = flight[q] /\ chunk'[q] = chunk[q]
                  /\ initial'[q] = initial[q] /\ incremental'[q] = incremental[q]
                  /\ seen'[q] = seen[q] /\ upTo'[q] = upTo[q] /\ newest'[q] = newest[q] /\ short'[q] = short[q]
  <2> DEFINE Others ==
        \A q \in Runs \ {r} :
          /\ pc'[q] = pc[q] /\ queue'[q] = queue[q] /\ flight'[q] = flight[q] /\ chunk'[q] = chunk[q]
          /\ initial'[q] = initial[q] /\ incremental'[q] = incremental[q]
          /\ seen'[q] = seen[q] /\ upTo'[q] = upTo[q] /\ newest'[q] = newest[q] /\ short'[q] = short[q]
  <2>a. ReachesFor(r) /\ clock \in Nat
    BY DEF ReachInv, TypeOK
  <2>b. /\ pc \in [Runs -> RunStates] /\ seen \in [Runs -> [Symbols -> Ts]]
        /\ initial \in [Runs -> SUBSET Symbols] /\ incremental \in [Runs -> SUBSET Symbols]
        /\ chunk \in [Runs -> SUBSET Symbols] /\ queue \in [Runs -> SUBSET Symbols]
        /\ flight \in [Runs -> SUBSET Symbols] /\ upTo \in [Runs -> Nat] /\ newest \in [Runs -> [Symbols -> Ts]]
        /\ short \in [Runs -> SUBSET Symbols] /\ lastTs \in [Symbols -> Ts]
    BY DEF TypeOK, StoreTypeOK
  <2>1. CASE StartRun(r)
    <3>1. /\ Others /\ clock' = clock /\ pc'[r] = "next" /\ seen'[r] = lastTs
          /\ initial'[r] = {s \in Symbols : ClassifyMinute(lastTs[s], clock) = "INITIAL"}
          /\ incremental'[r] = {s \in Symbols : ClassifyMinute(lastTs[s], clock) = "FETCH_INCREMENTAL"}
          /\ UNCHANGED chunkVars /\ pc[r] = "idle"
      BY <2>1, <2>b DEF StartRun, chunkVars, Active
    <3>2. /\ newest'[r] = NoneSeen /\ queue'[r] = {} /\ flight'[r] = {} /\ chunk'[r] = {}
          /\ ~Fetching(r)'
      BY <2>a, <3>1 DEF ReachesFor, Fetching, chunkVars
    <3>3. \A s \in initial'[r] : seen'[r][s] = NoTs
      BY <3>1 DEF ClassifyMinute
    <3>4. ASSUME NEW s \in incremental'[r]
          PROVE  seen'[r][s] < clock
      <4>1. s \in Symbols /\ lastTs[s] # NoTs /\ ~(clock - lastTs[s] < SkipBars)
        BY <3>1, <3>4 DEF ClassifyMinute
      <4>2. lastTs[s] \in Nat
        BY <2>b, <4>1 DEF Ts
      <4> QED
        BY <2>a, <3>1, <4>1, <4>2, MinuteAssumption
    <3>5. ReachesFor(r)'
      BY <3>1, <3>2, <3>3, <3>4, ReachForgotten
    <3> QED
      BY <3>1, <3>5
  <2>2. ASSUME NEW c \in SUBSET Symbols, TakeChunk(r, c)
        PROVE  ReachesFor(r)' /\ clock' = clock /\ Others
    <3>1. /\ Others /\ clock' = clock /\ seen' = seen /\ flight' = flight /\ pc[r] = "next"
          /\ pc'[r] \in {"persist", "batch"} /\ queue'[r] \subseteq c /\ chunk'[r] = c
          /\ initial'[r] \subseteq initial[r] /\ incremental'[r] \subseteq incremental[r]
          /\ upTo'[r] = ToBar(clock) /\ newest'[r] = NoneSeen
          /\ c \subseteq initial[r] \/ c \subseteq incremental[r]
      BY <2>2, <2>b DEF TakeChunk, NoResults, Slice
    <3>2. flight[r] = {}
      BY <2>a, <3>1 DEF ReachesFor
    <3>3. \A s \in c : seen[r][s] # NoTs => seen[r][s] < clock /\ seen[r][s] \in Nat
      BY <2>a, <2>b, <3>1 DEF ReachesFor, Ts
    <3>4. ToBar(clock) \in Nat /\ clock < ToBar(clock)
      BY <2>a, DayEnds, DayStartBelow, MinuteAssumption DEF ToBar
    <3>5. \A s \in c : seen[r][s] # NoTs => seen[r][s] < upTo'[r]
      BY <2>a, <3>1, <3>3, <3>4
    <3>6. \A s \in initial'[r] : seen[r][s] = NoTs
      BY <2>a, <3>1 DEF ReachesFor
    <3>7. \A s \in incremental'[r] \union c : seen[r][s] # NoTs => seen[r][s] < clock
      BY <2>a, <3>1, <3>3 DEF ReachesFor
    <3>8. \A s \in Symbols : newest'[r][s] = NoTs
      BY <3>1 DEF NoneSeen
    <3> QED
      BY <3>1, <3>2, <3>5, <3>6, <3>7, <3>8 DEF ReachesFor, Fetching
  <2>3. CASE FinishRun(r)
    <3>1. /\ Others /\ clock' = clock /\ seen'[r] = NoneSeen /\ UNCHANGED chunkVars
          /\ pc[r] = "next" /\ pc'[r] = "idle" /\ initial'[r] = {} /\ incremental'[r] = {}
      BY <2>3, <2>b DEF FinishRun, ForgetPlan, chunkVars
    <3>2. newest'[r] = NoneSeen /\ chunk'[r] = {} /\ queue'[r] = {} /\ flight'[r] = {} /\ ~Fetching(r)'
      BY <2>a, <3>1 DEF ReachesFor, Fetching, chunkVars
    <3>3. ReachesFor(r)'
      BY <3>1, <3>2, ReachForgotten
    <3> QED
      BY <3>1, <3>3
  <2>4. ASSUME NEW b \in SUBSET Symbols, SendBatch(r, b)
        PROVE  ReachesFor(r)' /\ clock' = clock /\ Others
    <3>1. /\ Others /\ UNCHANGED <<clock, seen, initial, incremental, chunk, upTo, newest, short>>
          /\ pc[r] = "batch" /\ pc'[r] = "await" /\ b \subseteq queue[r]
          /\ queue'[r] = queue[r] \ b /\ flight'[r] = b
      BY <2>4, <2>b DEF SendBatch, planVars, Slice
    <3>2. queue'[r] \union flight'[r] \subseteq chunk'[r] /\ Fetching(r) /\ Fetching(r)'
      BY <2>a, <3>1 DEF ReachesFor, Fetching
    <3> QED
      BY <2>a, <3>1, <3>2, ReachStable
  <2>5. CASE StopEarly(r)
    <3>1. /\ Others /\ UNCHANGED <<clock, seen, initial, incremental, chunk, upTo, newest, short, flight>>
          /\ pc[r] = "batch" /\ pc'[r] = "persist" /\ queue'[r] = {}
      BY <2>5, <2>b DEF StopEarly, planVars
    <3>2. queue'[r] \union flight'[r] \subseteq chunk'[r] /\ Fetching(r) /\ Fetching(r)'
      BY <2>a, <3>1 DEF ReachesFor, Fetching
    <3> QED
      BY <2>a, <3>1, <3>2, ReachStable
  <2>6. ASSUME NEW top \in [flight[r] -> NewestBars(r) \cup {NoTs}], ReceiveBatch(r, top)
        PROVE  ReachesFor(r)' /\ clock' = clock /\ Others
    <3>1. /\ Others /\ UNCHANGED <<clock, seen, initial, incremental, chunk, upTo, queue>>
          /\ pc[r] = "await" /\ pc'[r] \in {"persist", "batch"} /\ flight'[r] = {}
          /\ newest'[r] = [s \in Symbols |-> IF s \in Filled(r, top) THEN top[s] ELSE newest[r][s]]
          /\ short'[r] = short[r] \cup {s \in Filled(r, top) : EndsShort(r, s, top[s])}
      BY <2>6, <2>b DEF ReceiveBatch, planVars
    <3>2. \A s \in Filled(r, top) : s \in flight[r] /\ s \in Symbols /\ top[s] \in Nat /\ upTo[r] \in Nat
      BY <2>a, <2>b DEF Filled, NewestBars
    <3>3. ASSUME NEW s \in Filled(r, top), seen[r][s] # NoTs, s \notin short'[r]
          PROVE  seen[r][s] <= top[s]
      <4>1. s \in chunk[r] /\ s \in Symbols /\ Fetching(r)
        BY <2>a, <2>b, <3>1, <3>2 DEF ReachesFor, Fetching
      <4>2. seen[r][s] < upTo[r]
        BY <2>a, <3>3, <4>1 DEF ReachesFor
      <4>3. seen[r][s] \in Nat /\ served[s] \in Nat /\ seen[r][s] <= served[s]
        BY <2>b, <3>3, <4>1 DEF ServedInv, ServedFor, WasServed, TypeOK, Ts
      <4>4. ~(top[s] < served[s] /\ top[s] < upTo[r] - 1)
        BY <3>1, <3>3, <4>3, NoTsAssumption DEF EndsShort
      <4> QED
        BY <3>2, <4>2, <4>3, <4>4
    <3>4. \A s \in Symbols \ short'[r] :
            seen[r][s] # NoTs /\ newest'[r][s] # NoTs => seen[r][s] <= newest'[r][s]
      BY <2>a, <3>1, <3>3 DEF ReachesFor
    <3>5. Fetching(r) /\ Fetching(r)' /\ pc'[r] \notin {"idle", "next"}
      BY <3>1 DEF Fetching
    <3> QED
      BY <2>a, <3>1, <3>4, <3>5 DEF ReachesFor
  <2>7. ASSUME NEW whole \in SUBSET Symbols, NEW part \in Unstored(r),
               NEW cut \in from[r][part] + 1 .. newest[r][part] + 1,
               IngestChunk(r, whole, part, cut)
        PROVE  ReachesFor(r)' /\ clock' = clock /\ Others
    <3>1. UNCHANGED <<clock, pc, seen, initial, incremental, chunk, queue, flight, upTo, newest, short>>
      BY <2>7 DEF IngestChunk, planVars
    <3> QED
      BY <2>a, <3>1 DEF ReachesFor, Fetching
  <2>8. CASE RecordState(r) \/ PersistFails(r) \/ RunDies(r)
    <3>1. /\ Others /\ clock' = clock
          /\ newest'[r] = NoneSeen /\ queue'[r] = {} /\ flight'[r] = {}
          /\ pc'[r] \in {"idle", "next", "mark"} /\ (pc'[r] # "mark" => chunk'[r] = {})
          /\ chunk'[r] \subseteq chunk[r]
          /\ \/ seen' = seen /\ initial' = initial /\ incremental' = incremental
             \/ initial'[r] = {} /\ incremental'[r] = {} /\ chunk'[r] = {}
      BY <2>8, <2>b DEF RecordState, PersistFails, RunDies, ForgetPlan, ForgetChunk, planVars, budgetVars
    <3>2. ~Fetching(r)'
      BY <3>1 DEF Fetching
    <3>3. \A s \in initial'[r] : seen'[r][s] = NoTs
      BY <2>a, <3>1 DEF ReachesFor
    <3>4. \A s \in incremental'[r] \union chunk'[r] : seen'[r][s] # NoTs => seen'[r][s] < clock'
      BY <2>a, <3>1 DEF ReachesFor
    <3>5. ReachesFor(r)'
      BY <3>1, <3>2, <3>3, <3>4, ReachForgotten
    <3> QED
      BY <3>1, <3>5
  <2>9. CASE MarkError(r)
    <3>1. /\ Others /\ UNCHANGED <<clock, seen, initial, incremental, queue, flight, upTo, newest, short>>
          /\ pc[r] = "mark" /\ pc'[r] = "next" /\ chunk'[r] = {}
      BY <2>9, <2>b DEF MarkError, planVars, budgetVars
    <3>2. ~Fetching(r) /\ ~Fetching(r)'
      BY <3>1 DEF Fetching
    <3>3. newest'[r] = NoneSeen /\ queue'[r] = {} /\ flight'[r] = {}
      BY <2>a, <3>1, <3>2 DEF ReachesFor
    <3>4. \A s \in initial'[r] : seen'[r][s] = NoTs
      BY <2>a, <3>1 DEF ReachesFor
    <3>5. \A s \in incremental'[r] \union chunk'[r] : seen'[r][s] # NoTs => seen'[r][s] < clock'
      BY <2>a, <3>1 DEF ReachesFor
    <3>6. ReachesFor(r)'
      BY <3>1, <3>2, <3>3, <3>4, <3>5, ReachForgotten
    <3> QED
      BY <3>1, <3>6
  <2> QED
    BY <1>1, <2>1, <2>2, <2>3, <2>4, <2>5, <2>6, <2>7, <2>8, <2>9 DEF RunStep
<1>2. ASSUME NEW r \in Runs, RunStep(r)
      PROVE  ReachInv'
  <2> SUFFICES ASSUME NEW q \in Runs \ {r}
               PROVE  ReachesFor(q)'
    BY <1>1, <1>2 DEF ReachInv
  <2>1. /\ pc'[q] = pc[q] /\ queue'[q] = queue[q] /\ flight'[q] = flight[q] /\ chunk'[q] = chunk[q]
        /\ initial'[q] = initial[q] /\ incremental'[q] = incremental[q]
        /\ seen'[q] = seen[q] /\ upTo'[q] = upTo[q] /\ newest'[q] = newest[q] /\ short'[q] = short[q]
        /\ clock' = clock
    BY <1>1, <1>2
  <2> QED
    BY <2>1 DEF ReachInv, ReachesFor, Fetching
<1>3. CASE Tick
  <2>1. clock \in Nat /\ clock' = clock + 1 /\ UNCHANGED <<pc, seen, initial, incremental, chunk, queue, flight, upTo, newest, short>>
    BY <1>3 DEF Tick, runVars, planVars, chunkVars, TypeOK
  <2> SUFFICES ASSUME NEW q \in Runs
               PROVE  ReachesFor(q)'
    BY DEF ReachInv
  <2>2. ReachesFor(q)
    BY DEF ReachInv
  <2>3. queue[q] \union flight[q] \subseteq chunk[q] /\ (Fetching(q) \/ (queue[q] = {} /\ flight[q] = {}))
    BY <2>2 DEF ReachesFor
  <2> QED
    BY <2>1, <2>2, <2>3, ReachStable
<1>4. CASE ResetTruncate \/ ResetDelete \/ UNCHANGED vars
  <2>1. UNCHANGED <<clock, pc, seen, initial, incremental, chunk, queue, flight, upTo, newest, short>>
    BY <1>4 DEF ResetTruncate, ResetDelete, vars, runVars, planVars, chunkVars
  <2> QED
    BY <2>1 DEF ReachInv, ReachesFor, Fetching
<1>5. CASE Crash
  <2> SUFFICES ASSUME NEW q \in Runs
               PROVE  ReachesFor(q)'
    BY DEF ReachInv
  <2>1. /\ pc'[q] = "idle" /\ initial'[q] = {} /\ incremental'[q] = {} /\ chunk'[q] = {}
        /\ queue'[q] = {} /\ flight'[q] = {} /\ newest'[q] = NoneSeen
    BY <1>5 DEF Crash
  <2>2. ~Fetching(q)'
    BY <2>1 DEF Fetching
  <2> QED
    BY <2>1, <2>2, ReachForgotten
<1> QED
  BY <1>2, <1>3, <1>4, <1>5 DEF Next

(***************************************************************************)
(* SyncStateWriter.persist overwrites last_data_ts without comparing.  It  *)
(* goes back only when the run that writes it found another value than the *)
(* one it overwrites, a lost update, or when Dhan's answer to that run had *)
(* ended before a bar that it was asked for and Dhan had served before.    *)
(***************************************************************************)
THEOREM GoesBackOnlyExplained == Spec => RegressionExplained
<1> DEFINE Regression ==
      \A s \in Symbols :
        lastTs[s] # NoTs /\ lastTs'[s] # NoTs /\ lastTs'[s] < lastTs[s]
          => \E r \in Runs : pc'[r] # pc[r] /\ (seen[r][s] # lastTs[s] \/ s \in short[r])
<1>1. ASSUME TypeOK, ReachInv, [Next]_vars
      PROVE  Regression
  <2> SUFFICES ASSUME NEW s \in Symbols, lastTs[s] # NoTs, lastTs'[s] # NoTs, lastTs'[s] < lastTs[s]
               PROVE  \E r \in Runs : pc'[r] # pc[r] /\ (seen[r][s] # lastTs[s] \/ s \in short[r])
    OBVIOUS
  <2>1. lastTs \in [Symbols -> Ts] /\ lastTs[s] \in Nat
    BY <1>1 DEF TypeOK, StoreTypeOK, Ts
  <2>2. lastTs'[s] # lastTs[s]
    BY <2>1
  <2>3. PICK r \in Runs : RecordState(r)
    <3>1. lastTs' # lastTs
      BY <2>2
    <3>2. ASSUME NEW r \in Runs, RunStep(r) PROVE RecordState(r) \/ MarkError(r)
      BY <3>1, <3>2 DEF RunStep, StartRun, TakeChunk, FinishRun, SendBatch, StopEarly, ReceiveBatch,
         IngestChunk, PersistFails, RunDies, storeVars
    <3>3. ASSUME NEW r \in Runs, MarkError(r) PROVE FALSE
      BY <1>1, <2>1, <2>2, <3>3 DEF MarkError, MarkErrorState, Coalesce
    <3>4. ~ResetTruncate /\ ~Tick /\ ~Crash
      BY <3>1 DEF ResetTruncate, Tick, Crash, storeVars
    <3>5. ~ResetDelete
      BY <1>1, <2>1 DEF ResetDelete
    <3>6. Next
      BY <1>1, <3>1 DEF vars, storeVars
    <3> QED
      BY <3>2, <3>3, <3>4, <3>5, <3>6 DEF Next
  <2>4. pc[r] = "persist" /\ pc'[r] = "next" /\ s \in chunk[r] /\ newest[r][s] # NoTs /\ lastTs'[s] = newest[r][s]
    BY <1>1, <2>2, <2>3 DEF RecordState, UpdateState, Coalesce, GoTo, TypeOK
  <2>5. seen[r][s] # NoTs /\ s \notin short[r] => seen[r][s] <= newest[r][s]
    BY <1>1, <2>4 DEF ReachInv, ReachesFor
  <2>6. newest[r][s] \in Nat
    BY <1>1, <2>4 DEF TypeOK, Ts
  <2>7. seen[r][s] # lastTs[s] \/ s \in short[r]
    BY <2>1, <2>4, <2>5, <2>6
  <2> QED
    BY <2>4, <2>7
<1>2. TypeOK /\ ReachInv /\ [Next]_vars => [Regression]_vars
  BY <1>1
<1>3. TypeOK /\ ServedInv /\ [Next]_vars => ServedInv'
  BY ServedNext
<1>4. TypeOK /\ ServedInv /\ ReachInv /\ [Next]_vars => ReachInv'
  BY ReachNext
<1> QED
  BY <1>2, <1>3, <1>4, ServedInit, ReachInit, TypeCorrect, PTL DEF Spec, RegressionExplained

=============================================================================
