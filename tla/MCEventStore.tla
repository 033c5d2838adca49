--------------------------- MODULE MCEventStore ---------------------------
(* Instance of EventStore for TLC.  The first event refers to an entity,   *)
(* the others do not.                                                      *)
EXTENDS EventStoreInv

MCLinked == {1}
=============================================================================
