----------------------------- MODULE MCDailySync ----------------------------
(* Small instances of DailySync for TLC.                                    *)
EXTENDS DailySync, TLC

\* Symbols and runs are interchangeable model values.
Symmetry == Permutations(Symbols) \cup Permutations(Runs)
=============================================================================
