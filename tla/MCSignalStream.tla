--------------------------- MODULE MCSignalStream ---------------------------
(* A small instance of SignalStream for TLC.                                *)
EXTENDS SignalStream
=============================================================================
