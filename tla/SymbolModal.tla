----------------------------- MODULE SymbolModal ----------------------------
(***************************************************************************)
(* The modal of a symbol: what SymbolModal fetches for its details and     *)
(* OptionChainPanel for its option chain.  All tabs are mounted while it   *)
(* is open, and hidden by style; its chart is a DailyChart.                *)
(*                                                                         *)
(* Answers of the chain panel are unguarded: each one, of whatever expiry, *)
(* is applied when it comes, and each one ends the loading.                *)
(***************************************************************************)
EXTENDS ChainAssessment

CONSTANTS
  Symbols,
  Expiries(_),  \* the expiries listed for a symbol
  Chain(_, _),  \* the chain of a symbol's expiry
  MaxAsks       \* bound: requests of the chain panel

\* There is room for the request of the expiries and of a chain.
SymbolModalAssumption ==
  /\ MaxAsks \in Nat \ {0, 1} /\ AtmCount \in Nat
  /\ None \notin Symbols
  /\ \A s \in Symbols : Expiries(s) \in Seq(Range(Expiries(s))) /\ None \notin Range(Expiries(s))
  /\ \A s \in Symbols : \A e \in Range(Expiries(s)) : IsChain(Chain(s, e))

VARIABLES
  symbol,     \* the symbol of the modal, None while it is closed
  tab,
  known,      \* the list has a row of the symbol
  fetchedRow, \* the row shown without one: None, "metrics", or "bare"
  rowAsked,   \* the metrics request is on the way and active
  selected,   \* selectedExp
  chain,      \* the expiry of the chain
  loading, error,
  asks,       \* requests of the panel on the way: [id, expiry], expiry None for the list
  sent,
  crossed     \* history: the last answer was to a request that was not the newest

panelVars == <<selected, chain, loading, error, asks, sent, crossed>>
rowVars   == <<known, fetchedRow, rowAsked>>
symbolModalVars == <<symbol, tab, panelVars, rowVars>>

AllExpiries == UNION {Range(Expiries(s)) : s \in Symbols}

TypeOK ==
  /\ symbol \in Symbols \union {None} /\ tab \in {"details", "chart", "oc"}
  /\ {known, rowAsked, loading, error, crossed} \subseteq BOOLEAN
  /\ fetchedRow \in {None, "metrics", "bare"}
  /\ selected \in AllExpiries \union {None} /\ chain \in AllExpiries \union {None}
  /\ asks \subseteq [id : 1 .. MaxAsks, expiry : AllExpiries \union {None}] /\ sent \in 0 .. MaxAsks

Init ==
  /\ symbol = None /\ tab = "details" /\ known = FALSE /\ fetchedRow = None /\ rowAsked = FALSE
  /\ selected = None /\ chain = None /\ loading = FALSE /\ error = FALSE
  /\ asks = {} /\ sent = 0 /\ crossed = FALSE

-----------------------------------------------------------------------------
(* The modal and its details.                                              *)

\* openModal: the panel asks for the expiries, and without a row in the list
\* the modal asks for the metrics.
Open(s, t) ==
  /\ symbol = None
  /\ symbol' = s /\ tab' = t
  /\ known' \in BOOLEAN /\ rowAsked' = ~known'
  /\ asks' = {[id |-> 1, expiry |-> None]} /\ sent' = 1 /\ loading' = TRUE
  /\ UNCHANGED <<fetchedRow, selected, chain, error, crossed>>

SetTab(t) == symbol # None /\ tab' = t /\ UNCHANGED <<symbol, panelVars, rowVars>>

\* onClose unmounts: no answer finds its component any more.
Close ==
  /\ symbol # None
  /\ symbol' = None /\ tab' = "details" /\ known' = FALSE /\ fetchedRow' = None /\ rowAsked' = FALSE
  /\ selected' = None /\ chain' = None /\ loading' = FALSE /\ error' = FALSE
  /\ asks' = {} /\ sent' = 0 /\ crossed' = FALSE

\* The list loads, and has the row or has it no longer.
RowChanges ==
  /\ symbol # None
  /\ known' = ~known /\ fetchedRow' = None /\ rowAsked' = known
  /\ UNCHANGED <<symbol, tab, panelVars>>

\* The answer is there, or has nothing for the symbol, or never comes.
RowAnswer ==
  /\ rowAsked /\ rowAsked' = FALSE
  /\ fetchedRow' \in {"metrics", "bare"}
  /\ UNCHANGED <<symbol, tab, known, panelVars>>

-----------------------------------------------------------------------------
(* The chain panel.                                                        *)

\* Mutant: the loading of another expiry is not shown.
AskQuietly(e) ==
  /\ selected' = e /\ sent' = sent + 1 /\ asks' = asks \union {[id |-> sent', expiry |-> e]}
  /\ loading' = loading /\ error' = FALSE /\ crossed' = FALSE

\* The effect of selectedExp.
Ask(e) ==
  /\ selected' = e /\ sent' = sent + 1 /\ asks' = asks \union {[id |-> sent', expiry |-> e]}
  /\ loading' = TRUE /\ error' = FALSE /\ crossed' = FALSE

SelectExpiry(e) ==
  /\ symbol # None /\ e \in Range(Expiries(symbol))
  /\ selected \notin {None, e} /\ sent < MaxAsks
  /\ Ask(e)
  /\ UNCHANGED <<symbol, tab, chain, rowVars>>

\* The expiries: the first is selected.  The effect that asks for its chain is
\* not told apart from the answer, during which nothing is shown.
ExpiriesAnswer(r) ==
  /\ r \in asks /\ r.expiry = None
  /\ IF Expiries(symbol) = <<>>
     THEN asks' = asks \ {r} /\ loading' = FALSE /\ UNCHANGED <<selected, sent, error, crossed>>
     ELSE /\ selected' = Head(Expiries(symbol)) /\ sent' = sent + 1
          /\ asks' = (asks \ {r}) \union {[id |-> sent', expiry |-> selected']}
          /\ loading' = TRUE /\ error' = FALSE /\ crossed' = FALSE
  /\ UNCHANGED <<symbol, tab, chain, rowVars>>

ChainAnswer(r) ==
  /\ r \in asks /\ r.expiry # None
  /\ asks' = asks \ {r} /\ chain' = r.expiry /\ loading' = FALSE
  /\ crossed' = (r.id # sent)
  /\ UNCHANGED <<symbol, tab, selected, error, sent, rowVars>>

AskFails(r) ==
  /\ r \in asks /\ asks' = asks \ {r}
  /\ error' = TRUE /\ loading' = FALSE
  /\ crossed' = (r.id # sent)
  /\ UNCHANGED <<symbol, tab, selected, chain, sent, rowVars>>

Next ==
  \/ \E s \in Symbols, t \in {"details", "chart", "oc"} : Open(s, t)
  \/ \E t \in {"details", "chart", "oc"} : SetTab(t)
  \/ Close \/ RowChanges \/ RowAnswer
  \/ \E e \in AllExpiries : SelectExpiry(e)
  \/ \E r \in asks : ExpiriesAnswer(r) \/ ChainAnswer(r) \/ AskFails(r)

Spec == Init /\ [][Next]_symbolModalVars

-----------------------------------------------------------------------------
(* Properties.                                                             *)

Strikes == VisibleStrikes(Chain(symbol, chain))

\* The verdict is shown even over an error, the strikes are not.
VerdictShown == chain # None /\ ~loading

StrikesShown == VerdictShown /\ ~error

\* What the panel shows is of the expiry selected, unless an answer came out of
\* order or, for the verdict alone, the chain of the expiry could not be loaded.
WrongChainOnlyWhenLate ==
  /\ StrikesShown /\ chain # selected => crossed
  /\ VerdictShown /\ chain # selected => crossed \/ error

\* Strikes nobody trades are never called favourable, whatever their
\* volatility, spread and open interest; the money is among the strikes shown.
IlliquidNeverFavourable ==
  VerdictShown /\ Strikes # <<>> =>
    /\ Traded(Strikes) = 0 => AssessChain(Strikes, Chain(symbol, chain).spot) # "Favourable"
    /\ \A s \in Range(Chain(symbol, chain).strikes) :
         \E v \in Range(Strikes) : Distance(v.price, Chain(symbol, chain).spot) <= Distance(s.price, Chain(symbol, chain).spot)
=============================================================================
