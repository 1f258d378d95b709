------------------------------ MODULE MCWorkers ------------------------------
(***************************************************************************)
(* Instances of Workers for TLC; the constants are set in the .cfg files.  *)
(***************************************************************************)
EXTENDS Workers
=============================================================================
