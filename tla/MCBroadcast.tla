---------------------------- MODULE MCBroadcast ----------------------------
(* Two peers and room for one of them; a filter may drop the events.        *)
EXTENDS Broadcast

MCFilters == {Kinds, {"alert"}}
=============================================================================
