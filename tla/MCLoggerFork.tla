---------------------------- MODULE MCLoggerFork ----------------------------
(***************************************************************************)
(* Instances of LoggerFork for TLC: one thread logs, as in the server.     *)
(***************************************************************************)
EXTENDS LoggerFork
=============================================================================
