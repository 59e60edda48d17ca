----------------------------- MODULE Arrangement ----------------------------
(***************************************************************************)
(* The members of a finite set as a sequence, in the order of a relation:  *)
(* SequencesExt's SetToSortSeq, told by counting who stands before whom.   *)
(***************************************************************************)
EXTENDS Naturals, FiniteSets

\* How many of S stand before x.
Ahead(S, R, x) == Cardinality({y \in S : <<y, x>> \in R})

Arranged(S, R) == [n \in 1 .. Cardinality(S) |-> CHOOSE x \in S : Ahead(S, R, x) = n - 1]

\* The elements of a list at some of its places, in their order.
Lower(S) == {p \in S \X S : p[1] < p[2]}

Picked(list, places) == LET order == Arranged(places, Lower(places)) IN [n \in DOMAIN order |-> list[order[n]]]
=============================================================================
