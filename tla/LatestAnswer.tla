----------------------------- MODULE LatestAnswer ---------------------------
(***************************************************************************)
(* What a view that fetches on every change of a selection promises: it    *)
(* shows what was asked for last, or nothing.                              *)
(***************************************************************************)
CONSTANTS Things, Nothing

VARIABLES asked, shown

Init == asked \in Things /\ shown = Nothing

Ask(t) == asked' = t /\ shown' = Nothing

Show == shown = Nothing /\ shown' = asked /\ UNCHANGED asked

Next == Show \/ \E t \in Things : Ask(t)

Spec == Init /\ [][Next]_<<asked, shown>>
=============================================================================
