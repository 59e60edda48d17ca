-------------------------- MODULE MCFeedConnections -------------------------
(* Small instances of FeedConnections for TLC.                              *)
EXTENDS FeedConnections
=============================================================================
