---------------------------- MODULE MCCockpitViews ---------------------------
(***************************************************************************)
(* Small instances of the views.                                           *)
(***************************************************************************)
EXTENDS CockpitViews

-----------------------------------------------------------------------------
(* The stock list: four rows in pages of two, one of them without prices;  *)
(* the same with another price; and others, in another order.              *)

Row(sym, fno, cur, pdc, hi, lo, st) ==
  [symbol |-> sym, is_fno |-> fno, current |-> cur, pdc |-> pdc, pdh |-> hi, pdl |-> lo,
   week52_high |-> 120, week52_low |-> 50, stage |-> st, vcp_detected |-> fno, rect_breakout |-> FALSE, atr_14 |-> 3]

FourRows == <<Row(3, TRUE, 110, 100, 110, 90, 2), Row(1, FALSE, None, 100, 108, 90, 4),
              Row(4, TRUE, 119, 110, None, 90, 2), Row(2, TRUE, None, None, None, None, None)>>

Ticked == [FourRows EXCEPT ![1].current = 95]

Reloaded == <<FourRows[3], FourRows[1], FourRows[2]>>

ThreeSnapshots == {FourRows, Ticked, Reloaded}

TwoSymbols == {{1, 2}}

-----------------------------------------------------------------------------
(* The chart: sessions from a Friday on, a Sunday among them, over a       *)
(* month's end; and a symbol with a single bar of a single price.          *)

Bar(t, o, h, l, c, v) == [time |-> t, open |-> o, high |-> h, low |-> l, close |-> c, volume |-> v]

FewBars(s, endpoint) ==
  IF s = "a"
  THEN <<Bar(5, 4, 5, 4, 5, 1), Bar(7, 5, 9, 3, 6, 2), Bar(8, 9, 9, 9, 9, 3), Bar(12, 5, 6, 5, 6, 1), Bar(15, 6, 8, 2, 3, 2)>>
  ELSE <<Bar(8, 4, 4, 4, 4, 3)>>

MonthEndsAtTen(d) == IF d < 10 THEN 0 ELSE 10

-----------------------------------------------------------------------------
(* The modal: a calm chain nobody trades, and a traded one; a symbol       *)
(* without options.                                                        *)

Side(iv, bid, ask, oi, volume) == [iv |-> iv, bid |-> bid, ask |-> ask, oi |-> oi, volume |-> volume]

Strike(p, c, u) == [price |-> p, call |-> c, put |-> u]

Quiet(oi) == Side(20, 1000, 1001, oi, 0)

NearAndFar(s) == IF s = "a" THEN <<"near", "far">> ELSE <<>>

TwoChains(s, e) ==
  CASE e = "near" -> [spot |-> 102, strikes |-> <<Strike(100, Quiet(1), Quiet(9)), Strike(104, Quiet(None), Quiet(9)),
                                                  Strike(110, Quiet(0), Quiet(1))>>]
    [] e = "far"  -> [spot |-> 99,  strikes |-> <<Strike(90, Side(30, None, 2, 5, 10), Side(None, 0, 1, 2, None)),
                                                  Strike(100, Side(None, 10, 11, None, 3), Side(50, 10, 10, 3, 1))>>]

-----------------------------------------------------------------------------
(* The signals: two types of one symbol and one of another; a liquid       *)
(* symbol, one that is not, and one the server has no metrics of.          *)

ThreeKinds == {[symbol |-> 1, type |-> "up"], [symbol |-> 1, type |-> "h3"], [symbol |-> 2, type |-> "up"]}

Kind(s, t, p) == [symbol |-> s, type |-> t, price |-> p]

PricedKinds == {Kind(1, "up", 103), Kind(2, "h3", 90), Kind(3, "up", 200)}

TwoCategories == [BREAK |-> {"up"}, CAM |-> {"h3", "h4"}]

Met(adv) == [adv |-> adv, is_fno |-> TRUE, high |-> 250, chg |-> 1]

ThreeMetrics == <<Met(90), Met(10), None>>

All == [category |-> "ALL", subType |-> None, fnoOnly |-> FALSE, minAdv |-> 0, query |-> None]

ThreeFilters == {All, [All EXCEPT !.minAdv = 20], [All EXCEPT !.category = "CAM", !.fnoOnly = TRUE]}

-----------------------------------------------------------------------------
(* The configuration: two settings.                                        *)

BothOne == [a |-> 1, b |-> 1]
=============================================================================
