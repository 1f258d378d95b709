-------------------------- MODULE LoggerRefinement --------------------------
(***************************************************************************)
(* The logger implements LogService.  On disk is what the writing thread   *)
(* flushed; a message waits in the stdio buffer, in the hand of the        *)
(* writing thread or in the queue.                                         *)
(***************************************************************************)
EXTENDS Logger

Waiting == (outbuf \o InFlight) \o Queue

Service == INSTANCE LogService WITH log <- logfile, waiting <- Waiting,
                                    up <- alive

(* Queue, counter, mutex and writing thread of cew_logger.c behave, for a  *)
(* caller, as a log that accepts each message once and writes in the order *)
(* of acceptance; only logger_destroy drops messages.                      *)
ImplementsService == Service!Spec

(* With iBulkWrite = 0, the default (cew_logger.c:25), the writing thread  *)
(* keeps moving what waits to the disk unless logger_destroy drops it.     *)
ImplementsFairService == Service!FairSpec
=============================================================================
