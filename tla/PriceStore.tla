----------------------------- MODULE PriceStore -----------------------------
(***************************************************************************)
(* The two TimescaleDB tables every price sync of DataSyncService writes:  *)
(* a price table (price_data_daily or price_data_1min) and the rows of     *)
(* sync_state for the same timeframe, with the statements that change      *)
(* them (_price_writes.py, _sync_state_writes.py, sync_state_writer.py).   *)
(*                                                                         *)
(* A bar is named by its time, a natural number; OHLCV values are left     *)
(* out.                                                                    *)
(***************************************************************************)
EXTENDS Integers, FiniteSets

CONSTANTS
  Symbols,  \* the symbols of one sync universe
  NoTs      \* SQL NULL in a timestamp column, None in Python

ASSUME NoTsAssumption == NoTs \notin Nat
ASSUME SymbolsFinite == IsFiniteSet(Symbols)

VARIABLES
  rows,      \* rows[s]: times of the bars stored for s in the price table
  lastTs,    \* lastTs[s]: sync_state.last_data_ts, NoTs when NULL or no row
  status     \* status[s]: sync_state.status, "none" when s has no row

storeVars == <<rows, lastTs, status>>

Statuses == {"none", "synced", "empty", "error"}

Ts == Nat \cup {NoTs}

StoreTypeOK ==
  /\ rows   \in [Symbols -> SUBSET Nat]
  /\ lastTs \in [Symbols -> Ts]
  /\ status \in [Symbols -> Statuses]

StoreInit ==
  /\ rows   = [s \in Symbols |-> {}]
  /\ lastTs = [s \in Symbols |-> NoTs]
  /\ status = [s \in Symbols |-> "none"]

-----------------------------------------------------------------------------

\* A slice of a list, as the batches of symbols are cut: at most n of its members, all of it when it is shorter.
Slice(part, list, n) ==
  /\ part \subseteq list /\ part # {}
  /\ \/ Cardinality(part) = n
     \/ part = list /\ Cardinality(part) < n

\* COALESCE(new, old)
Coalesce(new, old) == IF new = NoTs THEN old ELSE new

\* One committed INSERT .. ON CONFLICT DO NOTHING of the bars bars[s]: a bar that
\* is already stored is kept as it is.
InsertBars(bars) == rows' = [s \in Symbols |-> rows[s] \cup bars[s]]

\* One upsert of sync_state for the symbols of a batch: newest[s] is the time
\* of the newest downloaded bar, NoTs for a symbol without data.
UpdateState(batch, newest) ==
  /\ lastTs' = [s \in Symbols |->
                  IF s \in batch THEN Coalesce(newest[s], lastTs[s]) ELSE lastTs[s]]
  /\ status' = [s \in Symbols |->
                  IF s \notin batch      THEN status[s]
                  ELSE IF newest[s] = NoTs THEN "empty" ELSE "synced"]
  /\ UNCHANGED rows

\* _mark_error: the whole batch becomes "error", last_data_ts is coalesced
\* with NULL and so kept.
MarkErrorState(batch) ==
  /\ lastTs' = [s \in Symbols |->
                  IF s \in batch THEN Coalesce(NoTs, lastTs[s]) ELSE lastTs[s]]
  /\ status' = [s \in Symbols |-> IF s \in batch THEN "error" ELSE status[s]]
  /\ UNCHANGED rows
=============================================================================
