------------------------------- MODULE MCLog -------------------------------
(* A small instance of Log for TLC.  No symmetry: the run checks liveness.  *)
EXTENDS Log
=============================================================================
