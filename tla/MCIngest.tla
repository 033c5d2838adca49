------------------------------ MODULE MCIngest ------------------------------
(* The bounds of the ingest runs are in the cfg files. *)
EXTENDS Ingest
=============================================================================
