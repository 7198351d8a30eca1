------------------------------- MODULE MCFeeds -------------------------------
(* Feeds for TLC.                                                           *)
EXTENDS Feeds, TLC

CONSTANTS r1, p1
=============================================================================
