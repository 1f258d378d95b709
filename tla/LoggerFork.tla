----------------------------- MODULE LoggerFork -----------------------------
(***************************************************************************)
(* The logger across fork() (cew_main.c, cew_worker.c, cew_exit.c).  A     *)
(* fork copies the memory of the process and only the calling thread: the  *)
(* image has a queue, a counter, a logfile buffer and a mutex in whatever  *)
(* state the writing thread had left them, and no writing thread.          *)
(*                                                                         *)
(* The model follows one process: at each fork it goes on either as the    *)
(* parent or as the child.  todo is the program text as the logger sees    *)
(* it: the calls the process has still to make.                            *)
(***************************************************************************)
EXTENDS Logger, Functions

CONSTANTS
  Deamonize,       \* the values bDeamonize may have
  iWantedWorkers,  \* the argument of worker_init (4)
  ServeMsgs        \* bound: calls that log, made from inside ev_run

ASSUME ForkAssumption ==
  /\ Deamonize \subseteq BOOLEAN
  /\ iWantedWorkers \in Nat
  /\ ServeMsgs \in Nat

VARIABLES
  role,      \* "main", "daemon" (a main after daemonize) or "worker"
  todo,      \* the calls still to make
  served,    \* calls that log made from inside ev_run
  owed,      \* accepted before the fork, not in the logfile at the fork:
             \* the process that keeps the writing thread will write it
  dangling,  \* LogfileFd was copied between fclose and LogfileFd = NULL
  flushed    \* the logger_flush before the fork saw the counter at zero

forkVars == <<role, todo, served, owed, dangling, flushed>>
allVars == <<vars, forkVars>>

-----------------------------------------------------------------------------

Level == [log_error |-> eERROR, log_info |-> eINFO, log_debug |-> eDEBUG]

(* do_exit; ev_run stands for the event loop, which may run for ever.      *)
do_exit_calls == <<"log_info", "destroy">>

worker_init_calls == <<"log_debug", "flush", "fork", "log_debug", "log_info">>

(* The calls of a loop over the workers.                                   *)
EachWorker(calls) ==
  [n \in 1..(iWantedWorkers * Len(calls)) |-> calls[((n - 1) % Len(calls)) + 1]]

(* Mutant: the flush is hoisted out of the loop of worker_init.            *)
main_calls_flushonce(bDeamonize) ==
  <<"init", "log_error", "log_info">>
    \o (IF bDeamonize THEN <<"daemonize">> ELSE <<>>)
    \o <<"flush">>
    \o EachWorker(<<"log_debug", "fork", "log_debug", "log_info">>)
    \o <<"log_info", "ev_run">> \o do_exit_calls

main_calls(bDeamonize) ==
  <<"init", "log_error", "log_info">>
    \o (IF bDeamonize THEN <<"daemonize">> ELSE <<>>)
    \o EachWorker(worker_init_calls)
    \o <<"log_info", "ev_run">> \o do_exit_calls

(* Mutant: the inherited logger is not destroyed.                          *)
workerp_entry_calls_nodestroy ==
  <<"log_debug", "init", "log_info", "ev_run", "log_info">> \o do_exit_calls

workerp_entry_calls ==
  <<"log_debug", "destroy", "init", "log_info", "ev_run", "log_info">>
    \o do_exit_calls

do_exit_with_errno_calls == <<"log_error">> \o do_exit_calls

ForkInit ==
  /\ Init
  /\ role = "main"
  /\ \E bDeamonize \in Deamonize : todo = main_calls(bDeamonize)
  /\ served = 0 /\ owed = {} /\ dangling = FALSE /\ flushed = FALSE

-----------------------------------------------------------------------------

Calls(c) == alive /\ pc[Main] = "idle" /\ todo # <<>> /\ Head(todo) = c

Return == todo' = Tail(todo) /\ UNCHANGED <<role, served, owed, dangling, flushed>>

log_call ==
  /\ \E c \in DOMAIN Level : Calls(c) /\ log_msg(Main, Level[c])
  /\ Return

flush_call == Calls("flush") /\ logger_flush /\ Return

(* logger_destroy returns at once when the logger is not initialised.      *)
destroy_call ==
  /\ Calls("destroy")
  /\ logger_destroy \/ (~iIsInitDone /\ UNCHANGED vars)
  /\ Return

(* The level is the one of the settings in every process.  main leaves     *)
(* through do_exit_with_errno when logger_init fails, a worker goes on;    *)
(* on an initialised logger the call does nothing (LOG_NOINIT).            *)
init_call ==
  /\ Calls("init")
  /\ \/ logger_init(sCurrLogSettings.iCurrLogLevel)
     \/ iIsInitDone /\ UNCHANGED vars
  /\ todo' = IF role = "main" /\ ~iIsInitDone' THEN do_exit_with_errno_calls
             ELSE Tail(todo)
  /\ UNCHANGED <<role, served, owed, dangling, flushed>>

(* The event loop logs, and ends on a signal.                              *)
ev_run_log ==
  /\ Calls("ev_run")
  /\ served < ServeMsgs
  /\ \E c \in DOMAIN Level : log_msg(Main, Level[c])
  /\ served' = served + 1
  /\ UNCHANGED <<role, todo, owed, dangling, flushed>>

ev_break == Calls("ev_run") /\ Return /\ UNCHANGED vars

-----------------------------------------------------------------------------

(* The child's image of the logger.  What the writing thread had in hand   *)
(* is gone with its stack.                                                 *)
fork_child ==
  /\ wpc' = "none" /\ cancel' = FALSE
  /\ iDataToWrite' = 0 /\ iDataWritten' = 0 /\ LogMessage' = <<>>
  /\ owed' = Range(outbuf \o InFlight \o Queue)
  /\ dangling' = (dangling \/ wpc = "closed")
  /\ flushed' = (MaxLoops >= 0)
  /\ UNCHANGED <<sCurrLogSettings, queueVars, LogfileFd, logfile, flagVars,
                 callerVars, alive, served>>

(* The fork of worker_init, followed as the child.                         *)
fork_worker ==
  /\ Calls("fork")
  /\ fork_child
  /\ role' = "worker"
  /\ todo' = workerp_entry_calls
  /\ UNCHANGED outbuf

(* Followed as the parent.  The fork, or worker_create_ipc_socket after    *)
(* it, may fail: worker_init and then main give up.                        *)
fork_parent ==
  /\ Calls("fork")
  /\ todo' \in {Tail(todo), <<"log_error">> \o do_exit_with_errno_calls}
  /\ UNCHANGED <<vars, role, served, owed, dangling, flushed>>

(* daemonize forks twice, each time as the child (the second fork copies a *)
(* process that has no writing thread any more), and closes every          *)
(* descriptor: what is in the buffer of an open logfile is lost.           *)
daemonize ==
  /\ Calls("daemonize")
  /\ \/ /\ fork_child
        /\ outbuf' = <<>>
        /\ role' = "daemon"
        /\ todo' = Tail(todo)
     \/ /\ todo' = do_exit_with_errno_calls
        /\ UNCHANGED <<vars, role, served, owed, dangling, flushed>>

(* fclose of a FILE that was already freed: undefined, it may abort.       *)
logger_destroy_join_abort ==
  /\ pc[Main] = "join" /\ dangling
  /\ alive' = FALSE
  /\ UNCHANGED <<sCurrLogSettings, queueVars, fileVars, flagVars,
                 writerVars, callerVars, forkVars>>

Call ==
  \/ log_call
  \/ flush_call
  \/ destroy_call
  \/ init_call
  \/ fork_worker
  \/ fork_parent
  \/ daemonize

Finished ==
  /\ ~alive \/ (todo = <<>> /\ pc[Main] = "idle")
  /\ UNCHANGED allVars

ForkNext ==
  \/ Call
  \/ ev_run_log
  \/ ev_break
  \/ alive /\ logger_thread /\ UNCHANGED forkVars
  \/ alive /\ logger_thread_exit /\ UNCHANGED forkVars
  \/ alive /\ log_add_to_queue(Main) /\ UNCHANGED forkVars
  \/ alive /\ MainStep /\ UNCHANGED forkVars
  \/ alive /\ logger_destroy_join_abort
  \/ Finished

(* Both threads run; the event loop need not end.                          *)
ForkSpec ==
  /\ ForkInit /\ [][ForkNext]_allVars
  /\ WF_allVars(Call)
  /\ WF_allVars(alive /\ logger_thread /\ UNCHANGED forkVars)
  /\ WF_allVars(alive /\ MainStep /\ UNCHANGED forkVars)
  /\ WF_allVars(alive /\ log_add_to_queue(Main) /\ UNCHANGED forkVars)
  /\ SF_allVars(alive /\ log_add_to_queue_lock(Main) /\ UNCHANGED forkVars)

-----------------------------------------------------------------------------
(***************************************************************************)
(* Properties.                                                             *)
(***************************************************************************)

(* "flush logger, because after the child forks we lose the pthread"       *)
(* (cew_worker.c:354): when that flush saw the counter at zero, the worker *)
(* inherits nothing half way: no message another process will write too,   *)
(* and no LogfileFd that is already closed.                                *)
FlushedForkIsClean == flushed => owed = {} /\ ~dangling

(* Apart from a daemon, every process gets past its logging to its event   *)
(* loop, though a worker may inherit pLogMutex locked by a thread it does  *)
(* not have: logger_destroy takes it away (cew_logger.c:426) before the    *)
(* worker's first message.                                                 *)
Serving == Calls("ev_run")
ServerServes ==
  (role # "daemon")
    ~> (Serving \/ role = "daemon" \/ ~alive
          \/ (todo = <<>> /\ pc[Main] = "idle"))

Backlog == outbuf \o InFlight \o Queue # <<>>

(* "re-open the logger to get a working logging thread for this process"   *)
(* (cew_worker.c:199): what a serving worker logs gets written.            *)
WorkerLogs ==
  (role = "worker" /\ Serving /\ Backlog)
    ~> (~Backlog \/ ~alive \/ ~iIsInitDone)

(* The same of the daemon: "A separate thread will write the messages"     *)
(* (cew_logger.h:13).                                                      *)
DaemonLogs ==
  (role = "daemon" /\ Backlog)
    ~> (~Backlog \/ ~alive \/ ~iIsInitDone \/ role # "daemon")
=============================================================================
