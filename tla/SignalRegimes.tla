---------------------------- MODULE SignalRegimes ---------------------------
(***************************************************************************)
(* The regime that useSignals shows with a signal: regime_update messages  *)
(* change all rows of a symbol at once, signals carry the regime of their  *)
(* time.  The order, the counts and the number of rows are SignalStream's. *)
(*                                                                         *)
(* A kind stands for symbol:signal_type and has at most one row; messages  *)
(* are handled as they come.  The server publishes a changed regime before *)
(* the signals that carry it, so a signal always has one, and that of its  *)
(* symbol; regimeBySymbol, which stands in for one without, is never used. *)
(***************************************************************************)

CONSTANTS
  Regimes,
  None,
  Kinds     \* a set of [symbol, type]

SignalRegimesAssumption == None \notin Regimes

VARIABLES
  market,    \* the regimes the server published last
  connected, paused,
  held,      \* pendingRef: the regime of the first signal held of a kind, or None
  rows,      \* signals: the regime of the row of a kind, or None
  aged,      \* history: kinds whose row was made of a replayed or held signal,
             \* without a regime_update since
  missed     \* history: symbols whose last regime the browser did not hear

signalRegimesVars == <<market, connected, paused, held, rows, aged, missed>>

KindSymbols == {k.symbol : k \in Kinds}

NoRows == [k \in Kinds |-> None]

TypeOK ==
  /\ market \in [KindSymbols -> Regimes \union {None}]
  /\ connected \in BOOLEAN /\ paused \in BOOLEAN
  /\ held \in [Kinds -> Regimes \union {None}] /\ rows \in [Kinds -> Regimes \union {None}]
  /\ aged \subseteq Kinds /\ missed \subseteq KindSymbols

Init ==
  /\ market = [s \in KindSymbols |-> None]
  /\ connected = FALSE /\ paused = FALSE /\ held = NoRows /\ rows = NoRows
  /\ aged = {} /\ missed = {}

-----------------------------------------------------------------------------
\* A row there is keeps its regime, and so does the first of the signals held.
Push(list, k, r) == [list EXCEPT ![k] = IF @ = None THEN r ELSE @]

\* onmessage with a signal; late for one of the replay.
Receive(k, r, late) ==
  IF paused
  THEN held' = Push(held, k, r) /\ UNCHANGED <<rows, aged>>
  ELSE /\ rows' = Push(rows, k, r) /\ UNCHANGED held
       /\ aged' = IF late /\ rows[k] = None THEN aged \union {k} ELSE aged

\* LiveFeedService gives a signal.
Signal(k) ==
  /\ connected /\ market[k.symbol] # None
  /\ Receive(k, market[k.symbol], FALSE)
  /\ UNCHANGED <<market, connected, paused, missed>>

\* A signal of the replay, of whatever regime its symbol had then.
Replay(k, r) ==
  /\ connected /\ market[k.symbol] # None
  /\ Receive(k, r, TRUE)
  /\ UNCHANGED <<market, connected, paused, missed>>

\* Mutant: the rows are left to the next signal.
RegimeNoted(s, r) == UNCHANGED rows

RegimeApplied(s, r) ==
  rows' = [k \in Kinds |-> IF k.symbol = s /\ rows[k] # None THEN r ELSE rows[k]]

\* regime_update, also while paused; none is sent to a browser that comes later.
RegimeUpdate(s, r) ==
  /\ market' = [market EXCEPT ![s] = r]
  /\ IF connected
     THEN /\ RegimeApplied(s, r)
          /\ aged' = {k \in aged : k.symbol # s} /\ missed' = missed \ {s}
     ELSE missed' = missed \union {s} /\ UNCHANGED <<rows, aged>>
  /\ UNCHANGED <<connected, paused, held>>

Connect == ~connected /\ connected' = TRUE /\ UNCHANGED <<market, paused, held, rows, aged, missed>>

Disconnect == connected /\ connected' = FALSE /\ UNCHANGED <<market, paused, held, rows, aged, missed>>

\* The page is loaded again, with the rows of the session's storage.
Reload ==
  /\ connected' = FALSE /\ paused' = FALSE /\ held' = NoRows
  /\ UNCHANGED <<market, rows, aged, missed>>

Pause == ~paused /\ paused' = TRUE /\ UNCHANGED <<market, connected, held, rows, aged, missed>>

Resume ==
  /\ paused /\ paused' = FALSE
  /\ rows' = [k \in Kinds |-> IF rows[k] = None THEN held[k] ELSE rows[k]]
  /\ aged' = aged \union {k \in Kinds : rows[k] = None /\ held[k] # None}
  /\ held' = NoRows
  /\ UNCHANGED <<market, connected, missed>>

Clear ==
  /\ rows' = NoRows /\ held' = NoRows /\ aged' = {}
  /\ UNCHANGED <<market, connected, paused, missed>>

Next ==
  \/ \E k \in Kinds : Signal(k) \/ \E r \in Regimes : Replay(k, r)
  \/ \E s \in KindSymbols, r \in Regimes : RegimeUpdate(s, r)
  \/ Connect \/ Disconnect \/ Reload \/ Pause \/ Resume \/ Clear

Spec == Init /\ [][Next]_signalRegimesVars

-----------------------------------------------------------------------------
(* Properties.                                                             *)

\* A row shows the regime of its symbol now, unless the last update was missed
\* or the row was made of a replayed or held signal since.
RegimeCurrent ==
  \A k \in Kinds : rows[k] # None /\ k \notin aged /\ k.symbol \notin missed => rows[k] = market[k.symbol]
=============================================================================
