--------------------------- MODULE MCCandlePipeline -------------------------
(* Small instances of CandlePipeline for TLC.                               *)
EXTENDS CandlePipeline
=============================================================================
