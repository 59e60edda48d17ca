---------------------------- MODULE MCOptionChain ---------------------------
(* A small instance of OptionChain for TLC.                                 *)
EXTENDS OptionChain
=============================================================================
