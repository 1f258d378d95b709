------------------------------- MODULE Logger -------------------------------
(***************************************************************************)
(* The logging system of cewserver (cew_logger.c): callers queue messages  *)
(* under pLogMutex, one writing thread moves them in batches to the        *)
(* logfile.  A step is one access to shared state: everything between a    *)
(* pthread_mutex_lock and its unlock is two steps (take the mutex; use the *)
(* queue and release it), an access outside the mutex is a step of its     *)
(* own.  A message is the pair <<caller, number of the call>>.             *)
(*                                                                         *)
(* Main is the thread that initialises, flushes and destroys the logger;   *)
(* Producers are further threads that only log.  None of them is inside    *)
(* log_msg while Main enters logger_destroy: the server logs from one      *)
(* thread, and the tests join their threads first.                         *)
(***************************************************************************)
EXTENDS Integers, Sequences, FiniteSets

CONSTANTS
  Main, Producers,  \* the calling threads
  Writer,           \* the thread running logger_thread
  NoThread,         \* pLogMutex is free
  QueueSizes,       \* values given to iLoggerQueueSize (50 by default)
  MaxQueueSize,     \* the largest of them
  BulkWrites,       \* values given to iBulkWrite (0 = streaming, the default)
  LogLevels,        \* the levels in use, a subset of eERROR..eDEBUG
  FlushLoops,       \* polls logger_flush makes before it gives up (20)
  MaxMsgs           \* bound: calls that log, per thread

eERROR == 0
eWARNING == 1
eINFO == 2
eDEBUG == 3

ASSUME ThreadsAssumption ==
  /\ Main \notin Producers
  /\ Writer \notin {Main} \union Producers
  /\ NoThread \notin {Main, Writer} \union Producers
  /\ IsFiniteSet(Producers)

ASSUME BoundsAssumption ==
  /\ MaxQueueSize \in Nat
  /\ QueueSizes \subseteq 0..MaxQueueSize
  /\ BulkWrites \subseteq Nat
  /\ LogLevels \subseteq eERROR..eDEBUG
  /\ FlushLoops \in Nat
  /\ MaxMsgs \in Nat

VARIABLES
  sCurrLogSettings,   \* queue size, bulk size and level in force
  iIsInitDone, iShuttingDown, iDoForceFlush,
  pLogMutex,          \* the thread that holds the mutex, or NoThread
  Queue,              \* the STAILQ, head first
  iDataInQueueCount,
  LogfileFd,          \* is the pointer to the open logfile set?
  outbuf,             \* fwritten, still in the stdio buffer
  logfile,            \* the contents of the logfile
  wpc,                \* where logger_thread is; "none": there is no thread
  cancel,             \* pthread_cancel is pending for it
  iDataToWrite, iDataWritten, LogMessage,  \* its local variables
  pc,                 \* where each caller is
  op,                 \* the call Main is in
  MaxLoops,           \* local of logger_flush
  sent,               \* calls of each thread that log, so far
  accepted,           \* history: queued and not freed by logger_destroy
  alive               \* FALSE once the process called exit()

Threads == {Main} \union Producers
Msgs == Threads \X (1..MaxMsgs)
LogSettings == [iLoggerQueueSize : QueueSizes, iBulkWrite : BulkWrites,
                iCurrLogLevel : LogLevels]

queueVars == <<Queue, iDataInQueueCount, pLogMutex, accepted>>
fileVars == <<LogfileFd, outbuf, logfile>>
flagVars == <<iIsInitDone, iShuttingDown, iDoForceFlush>>
writerVars == <<wpc, cancel, iDataToWrite, iDataWritten, LogMessage>>
callerVars == <<pc, op, MaxLoops, sent>>
vars == <<sCurrLogSettings, queueVars, fileVars, flagVars, writerVars,
          callerVars, alive>>

Init ==
  /\ sCurrLogSettings \in LogSettings
  /\ iIsInitDone = FALSE /\ iShuttingDown = FALSE /\ iDoForceFlush = FALSE
  /\ pLogMutex = NoThread
  /\ Queue = <<>> /\ iDataInQueueCount = 0 /\ accepted = <<>>
  /\ LogfileFd = FALSE /\ outbuf = <<>> /\ logfile = <<>>
  /\ wpc = "none" /\ cancel = FALSE
  /\ iDataToWrite = 0 /\ iDataWritten = 0 /\ LogMessage = <<>>
  /\ pc = [t \in Threads |-> "idle"] /\ op = "none" /\ MaxLoops = -1
  /\ sent = [t \in Threads |-> 0]
  /\ alive = TRUE

-----------------------------------------------------------------------------
(***************************************************************************)
(* The writing thread.                                                     *)
(***************************************************************************)

(* Mutants: PTHREAD_CANCEL_DISABLE missing (file I/O cancels too), and     *)
(* PTHREAD_CANCEL_ENABLE missing.                                          *)
CancelPoints_nodisable == {"poll", "open", "write", "close"}
CancelPoints_noenable == {}

(* The cancellation block is the only place where a cancel is acted upon.  *)
CancelPoints == {"poll"}

logger_thread_cancelled ==
  /\ wpc \in CancelPoints
  /\ cancel
  /\ wpc' = "none"
  /\ UNCHANGED <<sCurrLogSettings, queueVars, fileVars, flagVars, cancel,
                 iDataToWrite, iDataWritten, LogMessage, callerVars, alive>>

logger_thread_poll ==
  /\ wpc = "poll"
  /\ ~(cancel /\ "poll" \in CancelPoints)
  /\ wpc' = "trylock"
  /\ UNCHANGED <<sCurrLogSettings, queueVars, fileVars, flagVars, cancel,
                 iDataToWrite, iDataWritten, LogMessage, callerVars, alive>>

(* EBUSY: go back to the cancellation block.                               *)
logger_thread_trylock ==
  /\ wpc = "trylock"
  /\ IF pLogMutex = NoThread
     THEN pLogMutex' = Writer /\ wpc' = "check"
     ELSE wpc' = "poll" /\ UNCHANGED pLogMutex
  /\ UNCHANGED <<sCurrLogSettings, Queue, iDataInQueueCount, accepted,
                 fileVars, flagVars, cancel, iDataToWrite, iDataWritten,
                 LogMessage, callerVars, alive>>

(* Mutants: ">=" for ">"; only forced flushes are written.                 *)
HaveGo_atleast ==
  \/ iDataInQueueCount >= sCurrLogSettings.iBulkWrite
  \/ iDoForceFlush /\ iDataInQueueCount # 0
HaveGo_forced == iDoForceFlush /\ iDataInQueueCount # 0

HaveGo ==
  \/ iDataInQueueCount > sCurrLogSettings.iBulkWrite
  \/ iDoForceFlush /\ iDataInQueueCount # 0

(* Fix the size of the batch, release the mutex.                           *)
logger_thread_check ==
  /\ wpc = "check"
  /\ IF HaveGo
     THEN /\ wpc' = "open"
          /\ iDataToWrite' = iDataInQueueCount
          /\ iDataWritten' = 0
     ELSE wpc' = "poll" /\ UNCHANGED <<iDataToWrite, iDataWritten>>
  /\ pLogMutex' = NoThread
  /\ UNCHANGED <<sCurrLogSettings, Queue, iDataInQueueCount, accepted,
                 fileVars, flagVars, cancel, LogMessage, callerVars, alive>>

logger_thread_open ==
  /\ wpc = "open"
  /\ wpc' = "first"
  /\ LogfileFd' = TRUE
  /\ UNCHANGED <<sCurrLogSettings, queueVars, outbuf, logfile, flagVars,
                 cancel, iDataToWrite, iDataWritten, LogMessage, callerVars,
                 alive>>

(* STAILQ_FIRST and Entry->msg, read without the mutex.  On an empty queue *)
(* the code dereferences NULL: the step is disabled, and WriterFindsEntry  *)
(* says that never happens.                                                *)
logger_thread_first ==
  /\ wpc = "first"
  /\ Queue # <<>>
  /\ wpc' = "lock"
  /\ LogMessage' = Head(Queue)
  /\ UNCHANGED <<sCurrLogSettings, queueVars, fileVars, flagVars, cancel,
                 iDataToWrite, iDataWritten, callerVars, alive>>

logger_thread_lock ==
  /\ wpc = "lock"
  /\ pLogMutex = NoThread
  /\ wpc' = "remove"
  /\ pLogMutex' = Writer
  /\ UNCHANGED <<sCurrLogSettings, Queue, iDataInQueueCount, accepted,
                 fileVars, flagVars, cancel, iDataToWrite, iDataWritten,
                 LogMessage, callerVars, alive>>

(* STAILQ_REMOVE_HEAD, free(Entry), unlock.                                *)
logger_thread_remove ==
  /\ wpc = "remove"
  /\ wpc' = "write"
  /\ Queue' = Tail(Queue)
  /\ pLogMutex' = NoThread
  /\ UNCHANGED <<sCurrLogSettings, iDataInQueueCount, accepted, fileVars,
                 flagVars, cancel, iDataToWrite, iDataWritten, LogMessage,
                 callerVars, alive>>

(* Mutant: the counter follows each message instead of the closed batch.   *)
logger_thread_write_counting ==
  /\ wpc = "write"
  /\ outbuf' = Append(outbuf, LogMessage)
  /\ LogMessage' = <<>>
  /\ iDataInQueueCount' = iDataInQueueCount - 1
  /\ iDataToWrite' = iDataToWrite - 1
  /\ wpc' = IF iDataToWrite' # 0 THEN "first" ELSE "close"
  /\ UNCHANGED <<sCurrLogSettings, Queue, pLogMutex, accepted, iDataWritten,
                 LogfileFd, logfile, flagVars, cancel, callerVars, alive>>

(* fwrite, sdsfree, and the loop condition --iDataToWrite.                 *)
logger_thread_write ==
  /\ wpc = "write"
  /\ outbuf' = Append(outbuf, LogMessage)
  /\ LogMessage' = <<>>
  /\ iDataWritten' = iDataWritten + 1
  /\ iDataToWrite' = iDataToWrite - 1
  /\ wpc' = IF iDataToWrite' # 0 THEN "first" ELSE "close"
  /\ UNCHANGED <<sCurrLogSettings, queueVars, LogfileFd, logfile, flagVars,
                 cancel, callerVars, alive>>

(* fflush, fclose ...                                                      *)
logger_thread_close ==
  /\ wpc = "close"
  /\ wpc' = "closed"
  /\ logfile' = logfile \o outbuf
  /\ outbuf' = <<>>
  /\ UNCHANGED <<sCurrLogSettings, queueVars, LogfileFd, flagVars, cancel,
                 iDataToWrite, iDataWritten, LogMessage, callerVars, alive>>

(* ... and LogfileFd = NULL, which until now points to the freed FILE.     *)
logger_thread_closed ==
  /\ wpc = "closed"
  /\ wpc' = "relock"
  /\ LogfileFd' = FALSE
  /\ UNCHANGED <<sCurrLogSettings, queueVars, outbuf, logfile, flagVars,
                 cancel, iDataToWrite, iDataWritten, LogMessage, callerVars,
                 alive>>

logger_thread_relock ==
  /\ wpc = "relock"
  /\ pLogMutex = NoThread
  /\ wpc' = "update"
  /\ pLogMutex' = Writer
  /\ UNCHANGED <<sCurrLogSettings, Queue, iDataInQueueCount, accepted,
                 fileVars, flagVars, cancel, iDataToWrite, iDataWritten,
                 LogMessage, callerVars, alive>>

(* Mutants: the counter is reset; the batch is counted one too long.       *)
CountAfterBatch_reset == 0
CountAfterBatch_onemore == iDataInQueueCount - (iDataWritten + 1)

CountAfterBatch == iDataInQueueCount - iDataWritten

(* Clear the flush request, account for the whole batch, release.          *)
logger_thread_update ==
  /\ wpc = "update"
  /\ wpc' = "poll"
  /\ iDoForceFlush' = FALSE
  /\ iDataInQueueCount' = CountAfterBatch
  /\ pLogMutex' = NoThread
  /\ UNCHANGED <<sCurrLogSettings, Queue, accepted, fileVars, iIsInitDone,
                 iShuttingDown, cancel, iDataToWrite, iDataWritten,
                 LogMessage, callerVars, alive>>

(* fopen, fwrite, fflush or fclose fails: exit(errno) ends the process,    *)
(* and its stdio buffers go out as far as the file takes them.             *)
logger_thread_exit ==
  /\ wpc \in {"open", "write", "close"}
  /\ alive' = FALSE
  /\ UNCHANGED <<sCurrLogSettings, queueVars, fileVars, flagVars,
                 writerVars, callerVars>>

logger_thread ==
  \/ logger_thread_cancelled
  \/ logger_thread_poll
  \/ logger_thread_trylock
  \/ logger_thread_check
  \/ logger_thread_open
  \/ logger_thread_first
  \/ logger_thread_lock
  \/ logger_thread_remove
  \/ logger_thread_write
  \/ logger_thread_close
  \/ logger_thread_closed
  \/ logger_thread_relock
  \/ logger_thread_update

-----------------------------------------------------------------------------
(***************************************************************************)
(* The callers.                                                            *)
(***************************************************************************)

(* Mutant: iShuttingDown is not tested.                                    *)
is_msg_allowed_always(eType) ==
  /\ iIsInitDone
  /\ sCurrLogSettings.iCurrLogLevel >= eType

(* bTerminateProg is never set by the program, so its test never rejects.  *)
is_msg_allowed(eType) ==
  /\ iIsInitDone
  /\ ~iShuttingDown
  /\ sCurrLogSettings.iCurrLogLevel >= eType

(* Where log_msg returns to: logger_destroy itself logs.                   *)
Caller(t) == IF t = Main /\ op = "destroy" THEN "shutdown" ELSE "idle"

(* A producer may call at any time but between the start of logger_destroy *)
(* and the store to iShuttingDown.                                         *)
log_msg(t, eType) ==
  /\ pc[t] = "idle"
  /\ t \in Producers => op # "destroy" \/ iShuttingDown
  /\ sent[t] < MaxMsgs
  /\ sent' = [sent EXCEPT ![t] = @ + 1]
  /\ pc' = [pc EXCEPT ![t] = IF is_msg_allowed(eType) THEN "room" ELSE "idle"]
  /\ UNCHANGED <<sCurrLogSettings, queueVars, fileVars, flagVars, writerVars,
                 op, MaxLoops, alive>>

(* Mutant: no limit.                                                       *)
HasRoom_always == TRUE

HasRoom == ~(iDataInQueueCount > sCurrLogSettings.iLoggerQueueSize)

(* The queue limit is tested before the mutex is taken.                    *)
log_add_to_queue_room(t) ==
  /\ pc[t] = "room"
  /\ pc' = [pc EXCEPT ![t] =
              IF HasRoom THEN "lock" ELSE Caller(t)]
  /\ UNCHANGED <<sCurrLogSettings, queueVars, fileVars, flagVars, writerVars,
                 op, MaxLoops, sent, alive>>

log_add_to_queue_lock(t) ==
  /\ pc[t] = "lock"
  /\ pLogMutex = NoThread
  /\ pLogMutex' = t
  /\ pc' = [pc EXCEPT ![t] = "insert"]
  /\ UNCHANGED <<sCurrLogSettings, Queue, iDataInQueueCount, accepted,
                 fileVars, flagVars, writerVars, op, MaxLoops, sent, alive>>

(* Mutant: STAILQ_INSERT_HEAD.                                             *)
INSERT_TAIL_head(m) == <<m>> \o Queue

INSERT_TAIL(m) == Append(Queue, m)

(* STAILQ_INSERT_TAIL, iDataInQueueCount++, unlock, return.                *)
log_add_to_queue_insert(t) ==
  /\ pc[t] = "insert"
  /\ Queue' = INSERT_TAIL(<<t, sent[t]>>)
  /\ iDataInQueueCount' = iDataInQueueCount + 1
  /\ accepted' = Append(accepted, <<t, sent[t]>>)
  /\ pLogMutex' = NoThread
  /\ pc' = [pc EXCEPT ![t] = Caller(t)]
  /\ UNCHANGED <<sCurrLogSettings, fileVars, flagVars, writerVars, op,
                 MaxLoops, sent, alive>>

(* logger_flush sets its request without the mutex ...                     *)
logger_flush ==
  /\ pc[Main] = "idle"
  /\ op' = "flush"
  /\ pc' = [pc EXCEPT ![Main] = "flush"]
  /\ iDoForceFlush' = TRUE
  /\ MaxLoops' = FlushLoops
  /\ UNCHANGED <<sCurrLogSettings, queueVars, fileVars, iIsInitDone,
                 iShuttingDown, writerVars, sent, alive>>

(* ... and polls the counter: while (MaxLoops--) leaves -1 behind when it  *)
(* gives up, a value >= 0 when it saw the counter at zero.                 *)
logger_flush_wait ==
  /\ pc[Main] = "flush"
  /\ MaxLoops' = MaxLoops - 1
  /\ IF MaxLoops = 0 \/ iDataInQueueCount = 0
     THEN /\ pc' = [pc EXCEPT ![Main] =
                      IF op = "destroy" THEN "cancel" ELSE "idle"]
          /\ op' = IF op = "destroy" THEN "destroy" ELSE "none"
     ELSE UNCHANGED <<pc, op>>
  /\ UNCHANGED <<sCurrLogSettings, queueVars, fileVars, flagVars, writerVars,
                 sent, alive>>

(* LOG_NOINIT when iIsInitDone.  The test open of the logfile may fail     *)
(* after the level was changed; so may pthread_create, after the queue was *)
(* reset.                                                                  *)
logger_init(Loglevel) ==
  /\ pc[Main] = "idle"
  /\ ~iIsInitDone
  /\ sCurrLogSettings' = [sCurrLogSettings EXCEPT !.iCurrLogLevel = Loglevel]
  /\ \/ UNCHANGED <<Queue, iDataInQueueCount, flagVars, wpc, cancel>>
     \/ /\ Queue' = <<>> /\ iDataInQueueCount' = 0
        /\ iDoForceFlush' = FALSE /\ iShuttingDown' = FALSE
        /\ UNCHANGED <<iIsInitDone, wpc, cancel>>
     \/ /\ Queue' = <<>> /\ iDataInQueueCount' = 0
        /\ iDoForceFlush' = FALSE /\ iShuttingDown' = FALSE
        /\ wpc' = "poll" /\ cancel' = FALSE
        /\ iIsInitDone' = TRUE
  /\ UNCHANGED <<pLogMutex, accepted, fileVars, iDataToWrite, iDataWritten,
                 LogMessage, callerVars, alive>>

(* LOG_NOINIT when not initialised; otherwise it first logs at eDEBUG.     *)
logger_destroy ==
  /\ pc[Main] = "idle"
  /\ iIsInitDone
  /\ \A t \in Producers : pc[t] = "idle"
  /\ sent[Main] < MaxMsgs
  /\ op' = "destroy"
  /\ sent' = [sent EXCEPT ![Main] = @ + 1]
  /\ pc' = [pc EXCEPT ![Main] =
              IF is_msg_allowed(eDEBUG) THEN "room" ELSE "shutdown"]
  /\ UNCHANGED <<sCurrLogSettings, queueVars, fileVars, flagVars, writerVars,
                 MaxLoops, alive>>

(* iShuttingDown = 1, and logger_flush is entered.                         *)
logger_destroy_shutdown ==
  /\ pc[Main] = "shutdown"
  /\ iShuttingDown' = TRUE
  /\ iDoForceFlush' = TRUE
  /\ MaxLoops' = FlushLoops
  /\ pc' = [pc EXCEPT ![Main] = "flush"]
  /\ UNCHANGED <<sCurrLogSettings, queueVars, fileVars, iIsInitDone,
                 writerVars, op, sent, alive>>

logger_destroy_cancel ==
  /\ pc[Main] = "cancel"
  /\ cancel' = (wpc # "none")
  /\ pc' = [pc EXCEPT ![Main] = "join"]
  /\ UNCHANGED <<sCurrLogSettings, queueVars, fileVars, flagVars, wpc,
                 iDataToWrite, iDataWritten, LogMessage, op, MaxLoops, sent,
                 alive>>

(* Mutant: the unlock that is "Not needed" is dropped.                     *)
MutexAfterDestroy_kept == pLogMutex

(* pthread_mutex_unlock, whoever locked the mutex.                         *)
MutexAfterDestroy == NoThread

(* pthread_join, then the clean-up: an open logfile is closed, the mutex   *)
(* unlocked, what is left in the queue freed.                              *)
logger_destroy_join ==
  /\ pc[Main] = "join"
  /\ wpc = "none"
  /\ logfile' = logfile \o outbuf
  /\ outbuf' = <<>>
  /\ LogfileFd' = FALSE
  /\ pLogMutex' = MutexAfterDestroy
  /\ Queue' = <<>>
  /\ iDataInQueueCount' = 0
  /\ accepted' = logfile'
  /\ iIsInitDone' = FALSE
  /\ cancel' = FALSE
  /\ pc' = [pc EXCEPT ![Main] = "idle"]
  /\ op' = "none"
  /\ UNCHANGED <<sCurrLogSettings, iShuttingDown, iDoForceFlush, wpc,
                 iDataToWrite, iDataWritten, LogMessage, MaxLoops, sent,
                 alive>>

(* An unsynchronised copy of the whole struct.                             *)
logger_set(sNewSettings) ==
  /\ pc[Main] = "idle"
  /\ sCurrLogSettings' = sNewSettings
  /\ UNCHANGED <<queueVars, fileVars, flagVars, writerVars, callerVars, alive>>

-----------------------------------------------------------------------------

(* A call in progress takes its next step.                                 *)
log_add_to_queue(t) ==
  \/ log_add_to_queue_room(t)
  \/ log_add_to_queue_lock(t)
  \/ log_add_to_queue_insert(t)

MainStep ==
  \/ logger_flush_wait
  \/ logger_destroy_shutdown
  \/ logger_destroy_cancel
  \/ logger_destroy_join

Exited == ~alive /\ UNCHANGED vars

Next ==
  \/ /\ alive
     /\ \/ logger_thread
        \/ logger_thread_exit
        \/ \E t \in Threads :
             \/ log_add_to_queue(t)
             \/ \E eType \in LogLevels : log_msg(t, eType)
        \/ MainStep
        \/ logger_flush
        \/ \E Loglevel \in LogLevels : logger_init(Loglevel)
        \/ logger_destroy
        \/ \E sNewSettings \in LogSettings : logger_set(sNewSettings)
  \/ Exited

Spec == Init /\ [][Next]_vars

(* The scheduler runs every thread that can take a step; nobody is obliged *)
(* to start a call, and no I/O call is obliged to fail.  A caller blocked   *)
(* on pLogMutex gets it in the end (strong fairness): between two times     *)
(* that the writer holds it there is a usleep or file I/O.                  *)
Fairness ==
  /\ WF_vars(alive /\ logger_thread)
  /\ \A t \in Threads : /\ WF_vars(alive /\ log_add_to_queue(t))
                        /\ SF_vars(alive /\ log_add_to_queue_lock(t))
  /\ WF_vars(alive /\ MainStep)

FairSpec == Spec /\ Fairness

-----------------------------------------------------------------------------
(***************************************************************************)
(* Properties.                                                             *)
(***************************************************************************)
WriterHolds == {"check", "remove", "update"}
FileOpen == {"first", "lock", "remove", "write", "close", "closed"}
InBatch == {"open", "relock", "update"} \union FileOpen

(* The types of the variables of cew_logger.c.                             *)
TypeOK ==
  /\ sCurrLogSettings \in LogSettings
  /\ iIsInitDone \in BOOLEAN /\ iShuttingDown \in BOOLEAN
  /\ iDoForceFlush \in BOOLEAN
  /\ pLogMutex \in Threads \union {Writer, NoThread}
  /\ Queue \in Seq(Msgs) /\ accepted \in Seq(Msgs)
  /\ iDataInQueueCount \in Nat
  /\ LogfileFd \in BOOLEAN /\ outbuf \in Seq(Msgs) /\ logfile \in Seq(Msgs)
  /\ wpc \in {"none", "poll", "trylock", "check"} \union InBatch
  /\ cancel \in BOOLEAN
  /\ iDataToWrite \in Nat /\ iDataWritten \in Nat
  /\ LogMessage \in Msgs \union {<<>>}
  /\ pc \in [Threads -> {"idle", "room", "lock", "insert", "shutdown",
                         "flush", "cancel", "join"}]
  /\ op \in {"none", "flush", "destroy"}
  /\ MaxLoops \in -1..FlushLoops
  /\ sent \in [Threads -> 0..MaxMsgs]
  /\ alive \in BOOLEAN

(* Messages taken off the queue that iDataInQueueCount still counts.       *)
Unaccounted ==
  IF wpc \in InBatch
  THEN iDataWritten + (IF wpc = "write" THEN 1 ELSE 0)
  ELSE 0

(* iDataInQueueCount ("mutex safe", cew_logger.c:49) is the length of the   *)
(* queue plus exactly what the running batch has already taken off it:      *)
(* callers that insert during a batch never make it drift.                  *)
CountMatchesQueue == iDataInQueueCount = Len(Queue) + Unaccounted

(* logger_thread reads STAILQ_FIRST without the mutex (cew_logger.c:122).   *)
(* The queue is never empty there, and the entry it read is still the head  *)
(* when it removes and frees the head under the mutex.                      *)
WriterFindsEntry ==
  /\ wpc = "first" => Queue # <<>>
  /\ wpc \in {"lock", "remove"} => Queue # <<>> /\ LogMessage = Head(Queue)

InFlight == IF wpc = "write" THEN <<LogMessage>> ELSE <<>>

(* Every message log_msg accepted is in exactly one place, and in the order *)
(* of acceptance: logfile, stdio buffer, the writer's hand, queue.          *)
NothingLost == ((logfile \o outbuf) \o InFlight) \o Queue = accepted

(* The test logger_flush makes without the mutex is enough: whenever the    *)
(* counter is zero, all that was accepted has left the stdio buffer.        *)
ZeroCountMeansWritten == iDataInQueueCount = 0 => logfile = accepted

(* "Maximum queue entries" (cew_logger.h:50) is tested outside the mutex    *)
(* and with ">", so it is exceeded, but by no more than one message per     *)
(* thread.                                                                  *)
QueueOverrunBounded ==
  iDataInQueueCount <= MaxQueueSize + Cardinality(Threads)

(* "The thread is only allowed to cancel here" (cew_logger.c:74): when the  *)
(* writer is gone it left no mutex held, no open logfile and no message     *)
(* half way, so the clean-up of logger_destroy finds nothing in use.        *)
WriterGoneAtRest ==
  wpc = "none" => /\ pLogMutex # Writer
                  /\ ~LogfileFd
                  /\ outbuf = <<>>
                  /\ iDataInQueueCount = Len(Queue)

(* logger_destroy frees messages only when its flush ran out of polls: if   *)
(* the flush saw the counter at zero nothing is queued any more when the    *)
(* queue is freed, because iShuttingDown was set first.                     *)
DestroyDropsOnlyAfterTimeout ==
  pc[Main] \in {"cancel", "join"} /\ MaxLoops >= 0 => logfile = accepted

Written(m) == \E i \in 1..Len(logfile) : logfile[i] = m
Queued(m) == \E i \in 1..Len(Queue) : Queue[i] = m

(* In streaming mode the writer gets every queued message to the logfile,   *)
(* unless the process exits or the logger is destroyed first.               *)
QueuedIsWritten ==
  \A m \in Msgs : Queued(m) ~> (Written(m) \/ ~alive \/ ~iIsInitDone)

(* logger_destroy returns: its flush gives up, the writer comes back to its *)
(* cancellation block and pthread_join succeeds.                            *)
DestroyReturns == (op = "destroy") ~> (op = "none" \/ ~alive)

(* "Force a blocking flush of the current message queue to the datafile"    *)
(* (cew_logger.c:327): what is queued when logger_flush is called gets      *)
(* written, sooner or later.                                                *)
FlushIsServed ==
  \A m \in Msgs :
    (op = "flush" /\ MaxLoops = FlushLoops /\ Queued(m))
      ~> (Written(m) \/ ~alive \/ ~iIsInitDone)
=============================================================================
