------------------------------ MODULE MCLogger ------------------------------
(***************************************************************************)
(* Instances of Logger for TLC; the constants are set in the .cfg files.   *)
(***************************************************************************)
EXTENDS LoggerRefinement
=============================================================================
