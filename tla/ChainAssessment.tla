--------------------------- MODULE ChainAssessment --------------------------
(***************************************************************************)
(* The pure part of the option chain panel: the strikes around the money   *)
(* and assessChain's verdict on them.                                      *)
(*                                                                         *)
(* A chain is [spot, strikes]; a strike is [price, call, put], each side   *)
(* [iv, bid, ask, oi, volume], whose values may be None.  Volatilities and *)
(* prices are integers; ratios are compared by cross-multiplication.       *)
(***************************************************************************)
EXTENDS Integers, Sequences, FiniteSetsExt

CONSTANTS
  None,
  AtmCount  \* ATM_COUNT, strikes shown on either side

\* What the panel computes with.
IsChain(c) ==
  /\ c.spot \in Int /\ c.strikes \in Seq(Range(c.strikes))
  /\ \A k \in Range(c.strikes) : k.price \in Int

Distance(a, b) == IF a < b THEN b - a ELSE a - b

\* The place of the strike nearest to the spot price, the first of two.
Atm(strikes, spot) ==
  CHOOSE i \in DOMAIN strikes : \A j \in DOMAIN strikes :
    LET di == Distance(strikes[i].price, spot)
        dj == Distance(strikes[j].price, spot)
    IN di < dj \/ (di = dj /\ i <= j)

VisibleStrikes(chain) ==
  LET atm == Atm(chain.strikes, chain.spot)
      n   == Len(chain.strikes)
  IN IF n = 0 THEN <<>> ELSE SubSeq(chain.strikes, Max({1, atm - AtmCount}), Min({n, atm + AtmCount}))

Sides == {"call", "put"}

OrZero(v) == IF v = None THEN 0 ELSE v

Total(strikes, side, field) ==
  FoldFunction(LAMBDA s, sum : OrZero(s[side][field]) + sum, 0, strikes)

\* The volatilities that count: given and positive.
IvCount(strikes) ==
  Cardinality({x \in (DOMAIN strikes) \X Sides : OrZero(strikes[x[1]][x[2]].iv) > 0})

IvSum(strikes) == Total(strikes, "call", "iv") + Total(strikes, "put", "iv")

IvScore(strikes) ==
  CASE IvCount(strikes) = 0                    -> 0
    [] IvSum(strikes) < 25 * IvCount(strikes)  -> 1
    [] IvSum(strikes) > 40 * IvCount(strikes)  -> -1
    [] OTHER                                   -> 0

Quoted(side) == side.ask # None /\ side.bid # None /\ side.bid > 0

\* The mean of the spreads over the bids of the sides quoted, a fraction.
Spread(atm) ==
  LET Of(side) == [num |-> side.ask - side.bid, den |-> side.bid]
      c == Of(atm.call)
      p == Of(atm.put)
  IN CASE Quoted(atm.call) /\ Quoted(atm.put) -> [num |-> c.num * p.den + p.num * c.den, den |-> 2 * c.den * p.den]
       [] Quoted(atm.call) -> c
       [] Quoted(atm.put)  -> p

SpreadScore(atm) ==
  CASE ~Quoted(atm.call) /\ ~Quoted(atm.put)          -> 0
    [] 100 * Spread(atm).num < Spread(atm).den        -> 1
    [] 100 * Spread(atm).num > 3 * Spread(atm).den    -> -1
    [] OTHER                                          -> 0

\* The put-call ratio of the open interest, the calls' at least 1.
PcrScore(strikes) ==
  LET calls == Total(strikes, "call", "oi")
      puts  == Total(strikes, "put", "oi")
      base  == IF calls = 0 THEN 1 ELSE calls
  IN CASE calls + puts = 0        -> 0
       [] 10 * puts > 12 * base   -> 1
       [] 10 * puts < 7 * base    -> -1
       [] OTHER                   -> 0

Traded(strikes) == Total(strikes, "call", "volume") + Total(strikes, "put", "volume")

\* Mutant: no traded volume costs one point.
MildVolumeScore(strikes) == IF Traded(strikes) = 0 THEN -1 ELSE 0

VolumeScore(strikes) == IF Traded(strikes) = 0 THEN -2 ELSE 0

AssessChain(strikes, spot) ==
  LET score == IvScore(strikes) + SpreadScore(strikes[Atm(strikes, spot)])
                 + PcrScore(strikes) + VolumeScore(strikes)
  IN CASE strikes = <<>> -> "No data"
       [] strikes # <<>> /\ score >= 2 -> "Favourable"
       [] strikes # <<>> /\ score \in {0, 1} -> "Neutral"
       [] OTHER -> "Unfavourable"
=============================================================================
