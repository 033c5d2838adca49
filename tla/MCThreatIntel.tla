--------------------------- MODULE MCThreatIntel ---------------------------
(* Two feeds that share a few polls, over two sessions.                     *)
EXTENDS ThreatIntel
=============================================================================
