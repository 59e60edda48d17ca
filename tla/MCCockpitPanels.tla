--------------------------- MODULE MCCockpitPanels ---------------------------
(***************************************************************************)
(* Small instances of the panels.                                          *)
(***************************************************************************)
EXTENDS CockpitPanels

-----------------------------------------------------------------------------
(* The live prices: symbol 1 is liquid, 2 is liquid by a hair, 3 is not, 4 *)
(* has no metrics.                                                         *)

Met(adv, cur, close, prev, chg) ==
  [adv |-> adv, is_fno |-> TRUE, current |-> cur, day_close |-> close, prev |-> prev, high |-> 250, chg |-> chg]

FourMetrics == <<Met(90, None, 104, 100, 400), Met(20, 202, 202, 200, 100), Met(19, 150, 150, 100, 5000), None>>

Sig(s, p) == [symbol |-> s, type |-> "up", price |-> p, time |-> 1, score |-> None]

FourSignals == <<Sig(3, 150), Sig(1, 103), Sig(2, 201), Sig(1, 102)>>

TwoCloses == <<100, 200>>

TwoCategories == [BREAK |-> {"up"}, CAM |-> {"h3", "h4"}]

-----------------------------------------------------------------------------
(* The settings: a view that this version no longer has.                   *)

Choices(f) == CASE f = "view" -> {"live", "stocks", "gone"} [] f = "minAdvCr" -> {"0", "20"} [] f = "theme" -> {"dark", "light"}

DefaultChoice(f) == CASE f = "view" -> "live" [] f = "minAdvCr" -> "0" [] f = "theme" -> "dark"

Offered(f, v) == v # "gone"
=============================================================================
