---------------------------- MODULE MCMinuteSync ----------------------------
(* Small instances of MinuteSync for TLC.                                   *)
EXTENDS MinuteSync, TLC

\* Symbols and runs are interchangeable model values.
Symmetry == Permutations(Symbols) \cup Permutations(Runs)
=============================================================================
