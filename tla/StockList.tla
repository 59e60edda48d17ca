------------------------------ MODULE StockList -----------------------------
(***************************************************************************)
(* The stock list of the cockpit: useStockList, the panel that starts its  *)
(* first load, the scroll handlers of the table, card and chart views that *)
(* ask for the next page, and the filter bar.                              *)
(*                                                                         *)
(* A callback sees the loading and hasMore of the last render (drawn); the *)
(* offset is a ref, read and written at once.  Answers come in any order,  *)
(* and each is cut from the rows as the server had just loaded them: every *)
(* GET /screener reads the metrics again, in no order, and puts the live   *)
(* prices of that moment into the rows.                                    *)
(***************************************************************************)
EXTENDS Screener, FiniteSetsExt

CONSTANTS
  Snapshots, \* the rows a request may find at the server: sequences of rows
  PageSize,  \* PAGE_SIZE
  Queries,   \* the queries typed: sets of matching symbols
  PresetKeys,   \* the presets clicked
  Columns,   \* the columns clicked
  MaxSent,   \* bound: requests
  MaxClicks  \* bound: changes of filter and order


VARIABLES
  rows, loading, hasMore, total,
  offset,     \* offsetRef
  fetched,
  active,     \* the list is the panel on the screen
  drawn,      \* loading and hasMore as last rendered
  requests,   \* on the way: [id, kind, at]
  sent,       \* requests so far
  overlapped, \* history: since rows was last replaced by a page answered alone,
              \* a request was sent while another was on the way
  listing,    \* history: the symbols, in order, the last load was answered from
  reordered,  \* history: a page since came from other symbols or another order
  filter, sort,
  clicks

fetchVars == <<rows, loading, hasMore, total, offset, fetched, requests, sent, overlapped,
              listing, reordered>>
viewVars  == <<filter, sort, clicks>>
stockListVars == <<fetchVars, viewVars, active, drawn>>

StockRows(s) == [i \in DOMAIN s |-> Decorated(s[i])]

SymbolsOf(s) == [i \in DOMAIN s |-> s[i].symbol]

Stocks == UNION {Range(StockRows(s)) : s \in Snapshots}

\* A symbol has one row at a time, and the columns of the head have numbers.
StockListAssumption ==
  /\ PageSize \in Nat \ {0} /\ MaxSent \in Nat /\ MaxClicks \in Nat /\ PresetKeys \subseteq Presets
  /\ \A s \in Snapshots :
       /\ s \in Seq(Range(s))
       /\ \A i, j \in DOMAIN s : s[i].symbol = s[j].symbol => i = j
       /\ \A i \in DOMAIN s : Decorated(s[i]).symbol = s[i].symbol
  /\ \A r \in Stocks, col \in Columns \union {"symbol"} : r[col] \in Int \union {None}

Request == [id : 1 .. MaxSent, kind : {"load", "more"}, at : Nat]

TypeOK ==
  /\ rows \in Seq(Stocks) /\ total \in Nat
  /\ {loading, hasMore, fetched, active, overlapped, reordered} \subseteq BOOLEAN
  /\ listing \in {SymbolsOf(s) : s \in Snapshots} \union {<<>>}
  /\ offset \in Nat /\ drawn \in [loading : BOOLEAN, hasMore : BOOLEAN]
  /\ requests \subseteq Request /\ sent \in 0 .. MaxSent /\ clicks \in 0 .. MaxClicks
  /\ filter \in [query : Queries \union {None}, presets : SUBSET PresetKeys, fnoOnly : BOOLEAN]
  /\ sort \in [col : Columns \union {"symbol"}, asc : BOOLEAN]

Init ==
  /\ rows = <<>> /\ total = 0 /\ offset = 0 /\ requests = {} /\ sent = 0 /\ clicks = 0
  /\ loading = FALSE /\ hasMore = FALSE /\ fetched = FALSE /\ active = FALSE /\ overlapped = FALSE
  /\ drawn = [loading |-> FALSE, hasMore |-> FALSE] /\ listing = <<>> /\ reordered = FALSE
  /\ filter = NoFilter /\ sort = [col |-> "symbol", asc |-> TRUE]

-----------------------------------------------------------------------------
(* Requests.                                                               *)

Send(kind, at) ==
  /\ sent < MaxSent
  /\ sent' = sent + 1
  /\ requests' = requests \union {[id |-> sent', kind |-> kind, at |-> at]}
  /\ overlapped' = (overlapped \/ requests # {})
  /\ loading' = TRUE
  /\ UNCHANGED <<rows, hasMore, total, fetched, listing, reordered, viewVars>>

Load == Send("load", 0) /\ offset' = 0

\* The effect of active; what it reads of fetched was current at that render.
Show ==
  /\ ~active /\ active' = TRUE
  /\ IF fetched THEN UNCHANGED <<fetchVars, viewVars>> ELSE Load
  /\ UNCHANGED drawn

Hide == active /\ active' = FALSE /\ UNCHANGED <<fetchVars, viewVars, drawn>>

\* A click is rendered before the next event.
Refresh ==
  /\ active /\ ~drawn.loading
  /\ Load
  /\ drawn' = [drawn EXCEPT !.loading = TRUE]
  /\ UNCHANGED active

\* handleScroll near the end of the list.  Scroll events may outrun a render.
LoadMore ==
  /\ active /\ ~drawn.loading /\ drawn.hasMore
  /\ Send("more", offset)
  /\ UNCHANGED <<offset, active, drawn>>

Render ==
  /\ drawn' = [loading |-> loading, hasMore |-> hasMore]
  /\ drawn' # drawn
  /\ UNCHANGED <<fetchVars, viewVars, active>>

-----------------------------------------------------------------------------
(* Answers.                                                                *)

\* GET /screener: has_more is offset + count < total.
Page(s, at) == SubSeq(StockRows(s), at + 1, Min({at + PageSize, Len(s)}))

\* Mutant: pages are appended as they come.
Concatenated(old, new) == old \o new

\* Map.set puts a row in the place of its symbol's, or appends it.
Merge(old, new) ==
  LET Newer(r) == {n \in Range(new) : n.symbol = r.symbol}
      kept == [i \in DOMAIN old |-> IF Newer(old[i]) = {} THEN old[i] ELSE CHOOSE n \in Newer(old[i]) : TRUE]
  IN kept \o Picked(new, {k \in DOMAIN new : \A i \in DOMAIN old : old[i].symbol # new[k].symbol})

AnswerOk(r, s) ==
  LET page == Page(s, r.at) IN
  /\ r \in requests /\ requests' = requests \ {r}
  /\ total' = Len(s) /\ hasMore' = (r.at + Len(page) < Len(s))
  /\ IF r.kind = "load"
     THEN /\ rows' = page /\ offset' = Len(page) /\ fetched' = TRUE
          /\ overlapped' = (overlapped /\ requests' # {})
          /\ listing' = SymbolsOf(s) /\ reordered' = FALSE
     ELSE /\ rows' = Merge(rows, page) /\ offset' = offset + Len(page)
          /\ reordered' = (reordered \/ SymbolsOf(s) # listing)
          /\ UNCHANGED <<fetched, overlapped, listing>>
  /\ loading' = FALSE
  /\ UNCHANGED <<sent, viewVars, active, drawn>>

\* An error status or a rejected fetch.
AnswerFails(r) ==
  /\ r \in requests /\ requests' = requests \ {r}
  /\ loading' = FALSE
  /\ fetched' = (fetched \/ r.kind = "load")
  /\ UNCHANGED <<rows, hasMore, total, offset, sent, overlapped, listing, reordered, viewVars, active, drawn>>

-----------------------------------------------------------------------------
(* The filter bar and the head of the table.                               *)

Click ==
  /\ active /\ clicks < MaxClicks /\ clicks' = clicks + 1
  /\ UNCHANGED <<fetchVars, active, drawn>>

SetQuery(q) == Click /\ filter' = [filter EXCEPT !.query = q] /\ UNCHANGED sort

SetFnoOnly == Click /\ filter' = [filter EXCEPT !.fnoOnly = ~@] /\ UNCHANGED sort

TogglePreset(p) ==
  /\ Click
  /\ filter' = [filter EXCEPT !.presets = IF p \in @ THEN @ \ {p} ELSE @ \union {p}]
  /\ UNCHANGED sort

ResetFilters == filter # NoFilter /\ Click /\ filter' = NoFilter /\ UNCHANGED sort

SortBy(col) ==
  /\ Click
  /\ sort' = IF sort.col = col THEN [sort EXCEPT !.asc = ~@]
                               ELSE [col |-> col, asc |-> col = "symbol"]
  /\ UNCHANGED filter

Next ==
  \/ Show \/ Hide \/ Refresh \/ LoadMore \/ Render
  \/ \E r \in requests : AnswerFails(r) \/ \E s \in Snapshots : AnswerOk(r, s)
  \/ \E q \in Queries \union {None} : SetQuery(q)
  \/ \E p \in PresetKeys : TogglePreset(p)
  \/ \E col \in Columns \union {"symbol"} : SortBy(col)
  \/ SetFnoOnly \/ ResetFilters

Spec == Init /\ [][Next]_stockListVars

-----------------------------------------------------------------------------
(* Properties.                                                             *)

FilteredRows == SortStockRows(rows, ApplyFilters(rows, filter), sort)

Ordered(shown) ==
  \A i, j \in DOMAIN shown : i < j =>
    LET a == shown[i][sort.col]
        b == shown[j][sort.col]
    IN b # None => a # None /\ (IF sort.asc THEN a <= b ELSE a >= b)

\* The list shows the rows it has that pass the filters, one for a symbol and in
\* order, whatever the pages were cut from.  When it says that there is no more to
\* load it has a row for every symbol of the server, unless requests overlapped (two
\* next pages asked for at one offset, or a load answered behind one, skip a page for
\* good) or a page was cut from other symbols, or the same in another order, than the
\* load's (a symbol that moved over the end of a page is skipped).
EverythingMatchingShown ==
  LET shown == FilteredRows IN
  /\ Range(shown) = {r \in Range(rows) : Passes(r, filter)}
  /\ \A i, j \in DOMAIN shown : shown[i].symbol = shown[j].symbol => i = j
  /\ Ordered(shown)
  /\ requests = {} /\ ~hasMore /\ ~overlapped /\ ~reordered =>
       {r.symbol : r \in Range(rows)} = Range(listing)
=============================================================================
