------------------------------- MODULE Screener ------------------------------
(***************************************************************************)
(* The pure rules of the stock list: the derived columns of a row, the     *)
(* filters and presets of applyFilters, the order of sortStockRows.        *)
(*                                                                         *)
(* Prices are integers, a missing value is None, percentages are in basis  *)
(* points rounded down, which changes no test for a lower bound; a symbol  *)
(* is its alphabetical rank and a stage its number.                        *)
(***************************************************************************)
EXTENDS Integers, Sequences, TLC, Arrangement

CONSTANT None  \* undefined or null

\* current_price ?? prev_day_close
RowPrice(r) == IF r.current # None THEN r.current ELSE r.pdc

PctFromReference(price, reference) ==
  IF price = None \/ reference = None \/ reference = 0
  THEN None ELSE ((price - reference) * 10000) \div reference

\* decorateRows: the columns the list adds to a row of the server.
Decorated(r) ==
  r @@ [display_price |-> RowPrice(r),
        f52h |-> PctFromReference(RowPrice(r), r.week52_high),
        f52l |-> PctFromReference(RowPrice(r), r.week52_low)]

-----------------------------------------------------------------------------
(* Filters.  The list never sets a range: DEFAULT_RANGE lets every row by. *)

Presets == {"near52h", "near52l", "nearpdh", "nearpdl", "camH4x", "camS4x",
            "camH3rej", "camS3rej", "stage2", "stage4", "vcp", "rectBreakout"}

CamPresets == {"camH4x", "camS4x", "camH3rej", "camS3rej"}

\* camLevels, forty times: the factor of the range is 1.1 / 2 or 1.1 / 4.
Cam(r, factor) == 40 * r.pdc + factor * (r.pdh - r.pdl)

\* JavaScript's truth of an optional number.
Given(v) == v # None /\ v # 0

Abs(n) == IF n < 0 THEN -n ELSE n

Near(close, level) == Given(level) /\ close > 0 /\ 1000 * Abs(close - level) < 5 * level

Around(close, level) == 40000 * close >= 995 * level /\ 40000 * close <= 1005 * level

PassesCam(r, close, p) ==
  /\ Given(r.pdh) /\ Given(r.pdl) /\ Given(r.pdc)
  /\ CASE p = "camH4x"   -> 40 * close > Cam(r, 22)
       [] p = "camS4x"   -> 40 * close < Cam(r, -22)
       [] p = "camH3rej" -> Around(close, Cam(r, 11))
       [] p = "camS3rej" -> Around(close, Cam(r, -11))

PassesPreset(r, p) ==
  LET close == IF r.display_price = None THEN 0 ELSE r.display_price IN
  CASE p = "near52h"      -> r.f52h # None /\ r.f52h >= -500
    [] p = "near52l"      -> r.f52l # None /\ r.f52l >= 0 /\ 10 * close <= 11 * r.week52_low
    [] p = "nearpdh"      -> Near(close, r.pdh)
    [] p = "nearpdl"      -> Near(close, r.pdl)
    [] p \in CamPresets   -> PassesCam(r, close, p)
    [] p = "stage2"       -> r.stage = 2
    [] p = "stage4"       -> r.stage = 4
    [] p = "vcp"          -> r.vcp_detected
    [] p = "rectBreakout" -> r.rect_breakout

\* f.query is the set of the symbols that have the text in their name or notes.
Passes(r, f) ==
  /\ f.fnoOnly => r.is_fno
  /\ f.query = None \/ r.symbol \in f.query
  /\ \A p \in f.presets : PassesPreset(r, p)

NoFilter == [query |-> None, presets |-> {}, fnoOnly |-> FALSE]

-----------------------------------------------------------------------------
(* Order.                                                                  *)

\* The comparison of sortStockRows gives less than 0.
Before(a, b, sort) ==
  \/ a[sort.col] # None /\ b[sort.col] = None
  \/ /\ a[sort.col] # None /\ b[sort.col] # None
     /\ IF sort.asc THEN a[sort.col] < b[sort.col] ELSE a[sort.col] > b[sort.col]

\* Where the rows are that pass.
ApplyFilters(rows, f) == {i \in DOMAIN rows : Passes(rows[i], f)}

\* Array.prototype.sort is stable.
Sooner(rows, places, sort) ==
  {p \in places \X places : \/ Before(rows[p[1]], rows[p[2]], sort)
                            \/ ~Before(rows[p[2]], rows[p[1]], sort) /\ p[1] < p[2]}

SortStockRows(rows, places, sort) ==
  LET order == Arranged(places, Sooner(rows, places, sort)) IN [n \in DOMAIN order |-> rows[order[n]]]
=============================================================================
