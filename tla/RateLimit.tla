------------------------------ MODULE RateLimit -----------------------------
(***************************************************************************)
(* What a caller of OptionChainClient may rely on: one request at a time,  *)
(* and a pause of Interval after an answered request before the next.      *)
(***************************************************************************)
EXTENDS Naturals

CONSTANT Interval

VARIABLES
  inFlight,  \* a request is with the server
  quiet      \* time since the last answer, counted up to Interval

vars == <<inFlight, quiet>>

Init == inFlight = FALSE /\ quiet = Interval

Send == ~inFlight /\ quiet = Interval /\ inFlight' = TRUE /\ UNCHANGED quiet

Answered == inFlight /\ inFlight' = FALSE /\ quiet' = 0

Failed == inFlight /\ inFlight' = FALSE /\ UNCHANGED quiet

Wait == quiet < Interval /\ quiet' = quiet + 1 /\ UNCHANGED inFlight

Next == Send \/ Answered \/ Failed \/ Wait

Spec == Init /\ [][Next]_vars
=============================================================================
