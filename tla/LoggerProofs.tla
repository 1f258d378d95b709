---------------------------- MODULE LoggerProofs ----------------------------
(***************************************************************************)
(* Proofs about the logger, for any number of producers, any queue sizes,  *)
(* bulk sizes, levels and numbers of messages: what follows from the       *)
(* inductive invariant, and that the logger implements LogService.         *)
(***************************************************************************)
EXTENDS LoggerInvariant, LoggerRefinement

(* The inductive invariant of the logger.                                   *)
THEOREM Invariance == Spec => []IInv
BY InitInv, NextInv, PTL DEF Spec

-----------------------------------------------------------------------------
(***************************************************************************)
(* What follows from it.                                                    *)
(***************************************************************************)

(* The variables of cew_logger.c keep their types; in particular            *)
(* iDataInQueueCount never becomes negative.                                *)
THEOREM TypeCorrect == Spec => []TypeOK
<1>1. IInv => TypeOK
  BY Zenon DEF IInv
<1> QED
  BY <1>1, Invariance, PTL

(* The counter is the queue length plus what the batch took off.            *)
THEOREM CounterCorrect == Spec => []CountMatchesQueue
<1>1. IInv => CountMatchesQueue
  BY Zenon DEF IInv, CounterInv
<1> QED
  BY <1>1, Invariance, PTL

(* The unlocked read of the head never meets an empty or a changed head.    *)
THEOREM HeadReadSafe == Spec => []WriterFindsEntry
<1>1. IInv => WriterFindsEntry
  <2> SUFFICES ASSUME IInv PROVE WriterFindsEntry
    BY Zenon
  <2>1. wpc \in {"first", "lock", "remove"} => Queue # <<>>
    BY DEF IInv, CounterInv, BatchInv, TypeOK
  <2> QED
    BY <2>1, Zenon DEF IInv, CounterInv, BatchInv, WriterFindsEntry
<1> QED
  BY <1>1, Invariance, PTL

(* No accepted message is lost, duplicated or reordered on its way.         *)
THEOREM FifoDelivery == Spec => []NothingLost
<1>1. IInv => NothingLost
  BY Zenon DEF IInv
<1> QED
  BY <1>1, Invariance, PTL

(* A zero counter means that all accepted messages are in the logfile.      *)
LEMMA ZeroCount == IInv => ZeroCountMeansWritten
<1> SUFFICES ASSUME IInv, iDataInQueueCount = 0
             PROVE  logfile = accepted
  BY Zenon DEF ZeroCountMeansWritten
<1> USE DEF IInv, TypeOK
<1>1. Len(Queue) = 0 /\ Unaccounted = 0
  BY LenProperties DEF CounterInv, CountMatchesQueue, Unaccounted
<1>2. Queue = <<>>
  BY <1>1, EmptySeq, Zenon
<1>3. wpc # "write" /\ (wpc \in InBatch => iDataWritten = 0)
  BY <1>1 DEF Unaccounted, InBatch, FileOpen
<1>4. outbuf = <<>>
  BY <1>3, EmptySeq, Zenon DEF ControlInv, FileInv, InBatch
<1>5. ((logfile \o <<>>) \o <<>>) \o <<>> = logfile
  BY ConcatEmptySeq, Zenon
<1> QED
  BY <1>2, <1>3, <1>4, <1>5, Zenon DEF NothingLost, InFlight

(* logger_flush may return as soon as it reads zero, without the mutex.     *)
THEOREM FlushTestSound == Spec => []ZeroCountMeansWritten
BY ZeroCount, Invariance, PTL

(* When the writing thread has ended, nothing it used is left in use.       *)
THEOREM CancelSafe == Spec => []WriterGoneAtRest
<1>1. IInv => WriterGoneAtRest
  BY DEF IInv, TypeOK, ControlInv, MutexInv, FileInv, CounterInv,
     CountMatchesQueue, Unaccounted, InBatch, FileOpen, WriterHolds,
     WriterGoneAtRest
<1> QED
  BY <1>1, Invariance, PTL

(* logger_destroy loses messages only after its flush gave up.              *)
THEOREM DestroyKeepsFlushed == Spec => []DestroyDropsOnlyAfterTimeout
<1>1. IInv => DestroyDropsOnlyAfterTimeout
  BY ZeroCount, Zenon DEF IInv, CounterInv, DestroyInv, ZeroCountMeansWritten,
     DestroyDropsOnlyAfterTimeout
<1> QED
  BY <1>1, Invariance, PTL

-----------------------------------------------------------------------------
(***************************************************************************)
(* The logger implements LogService.                                       *)
(***************************************************************************)

(* A message comes from an earlier call than the one its caller is in.      *)
Older(m) == /\ m[2] <= sent[m[1]]
            /\ pc[m[1]] \in Logging => m[2] < sent[m[1]]

FreshInv == \A k \in 1..Len(accepted) : Older(accepted[k])

(* What was accepted is on disk or waits.                                   *)
LEMMA WaitingFacts ==
  ASSUME IInv
  PROVE  /\ logfile \in Seq(Msgs) /\ outbuf \in Seq(Msgs)
         /\ InFlight \in Seq(Msgs) /\ Queue \in Seq(Msgs)
         /\ Waiting \in Seq(Msgs)
         /\ accepted = logfile \o Waiting
<1>1. /\ logfile \in Seq(Msgs) /\ outbuf \in Seq(Msgs) /\ Queue \in Seq(Msgs)
      /\ InFlight \in Seq(Msgs)
  BY DEF IInv, TypeOK, CounterInv, BatchInv, InFlight
<1>2. Waiting \in Seq(Msgs)
  BY <1>1, ConcatProperties, Zenon DEF Waiting
<1>3. ((logfile \o outbuf) \o InFlight) \o Queue = logfile \o Waiting
  <2> PICK a, b, c, d \in Seq(Msgs) :
         a = logfile /\ b = outbuf /\ c = InFlight /\ d = Queue
    BY <1>1, Zenon
  <2>1. ((a \o b) \o c) \o d = a \o ((b \o c) \o d)
    BY SMTT(30)
  <2> QED
    BY <2>1, Zenon DEF Waiting
<1> QED
  BY <1>1, <1>2, <1>3, Zenon DEF IInv, NothingLost

(* A step that accepts no message and starts no call but by counting it     *)
(* keeps the accepted messages older than the calls.                        *)
LEMMA FreshKept ==
  ASSUME IInv, FreshInv, TypeOK',
         UNCHANGED accepted \/ accepted' = logfile,
         \A t \in Threads :
           \/ sent'[t] = sent[t] /\ (pc'[t] \in Logging => pc[t] \in Logging)
           \/ sent'[t] = sent[t] + 1
  PROVE  FreshInv'
<1>1. ASSUME NEW m \in Msgs, Older(m)
      PROVE  Older(m)'
  <2>1. m[1] \in Threads /\ m[2] \in Nat
    BY BoundsAssumption DEF Msgs
  <2>2. sent[m[1]] \in Nat
    BY <2>1, Types, Zenon DEF IInv, PcTypes
  <2> QED
    BY <1>1, <2>1, <2>2 DEF Older
<1>2. \A k \in 1..Len(accepted) : accepted[k] \in Msgs
  BY ElementOfSeq, Zenon DEF IInv, TypeOK
<1>3. CASE UNCHANGED accepted
  BY <1>1, <1>2, <1>3, Zenon DEF FreshInv
<1>4. CASE accepted' = logfile
  <2>1. \A k \in 1..Len(logfile) : /\ k \in 1..Len(accepted)
                                   /\ accepted[k] = logfile[k]
    BY WaitingFacts, ConcatProperties, LenProperties
  <2> QED
    BY <1>1, <1>2, <1>4, <2>1, Zenon DEF FreshInv
<1> QED
  BY <1>3, <1>4, Zenon

(* Every step does.                                                         *)
LEMMA FreshStep == IInv /\ IInv' /\ FreshInv /\ [Next]_vars => FreshInv'
<1> SUFFICES ASSUME IInv, IInv', FreshInv, [Next]_vars PROVE FreshInv'
  BY Zenon
<1>0. TypeOK' /\ PcTypes
  BY Types, Zenon DEF IInv
<1> USE DEF callerVars, queueVars
<1>1. ASSUME NEW t \in Threads, log_add_to_queue_insert(t)
      PROVE  FreshInv'
  <2>1. /\ accepted \in Seq(Msgs) /\ <<t, sent[t]>> \in Msgs
        /\ accepted' = Append(accepted, <<t, sent[t]>>)
    <3>1. sent[t] >= 1 /\ sent[t] \in 0..MaxMsgs
      BY <1>1, Zenon
         DEF log_add_to_queue_insert, IInv, ControlInv, CallInv, Logging,
         TypeOK
    <3> QED
      BY <1>1, <3>1, BoundsAssumption, SMTT(30)
         DEF log_add_to_queue_insert, IInv, TypeOK, Msgs
  <2>2. ASSUME NEW m \in Msgs, Older(m) \/ m = <<t, sent[t]>>
        PROVE  Older(m)'
    <3>1. m[1] \in Threads /\ m[2] \in Nat
      BY BoundsAssumption DEF Msgs
    <3>2. /\ UNCHANGED sent /\ sent[m[1]] \in Nat
          /\ pc' = [pc EXCEPT ![t] = Caller(t)] /\ Caller(t) \notin Logging
      BY <1>0, <1>1, <3>1, Zenon
         DEF log_add_to_queue_insert, PcTypes, Caller, Logging
    <3>3. \A v \in Threads : pc'[v] = IF v = t THEN Caller(t) ELSE pc[v]
      BY <1>0, <3>2, Zenon DEF PcTypes
    <3> QED
      BY <2>2, <3>1, <3>2, <3>3 DEF Older
  <2>3. /\ Len(accepted') = Len(accepted) + 1
        /\ \A k \in 1..Len(accepted) : accepted'[k] = accepted[k]
        /\ accepted'[Len(accepted) + 1] = <<t, sent[t]>>
        /\ Len(accepted) \in Nat
    BY <2>1, AppendProperties, LenProperties
  <2>4. ASSUME NEW k \in 1..Len(accepted')
        PROVE  Older(accepted[k])'
    <3>1. CASE k \in 1..Len(accepted)
      BY <2>1, <2>2, <2>3, <3>1, ElementOfSeq, Zenon DEF FreshInv
    <3>2. CASE k = Len(accepted) + 1
      BY <2>1, <2>2, <2>3, <3>2, Zenon
    <3> QED
      BY <2>3, <3>1, <3>2
  <2> QED
    BY <2>4, SMTT(30) DEF FreshInv
<1>2. ASSUME NEW t \in Threads, NEW eType \in LogLevels, log_msg(t, eType)
      PROVE  FreshInv'
  BY <1>0, <1>2, FreshKept, Zenon DEF log_msg, PcTypes
<1>3. CASE logger_destroy
  BY <1>0, <1>3, FreshKept, Zenon DEF logger_destroy, PcTypes
<1>4. CASE logger_destroy_join
  <2>1. accepted' = logfile
    BY <1>4, WaitingFacts, ConcatEmptySeq, Zenon DEF logger_destroy_join, IInv,
       ControlInv, FileInv, FileOpen
  <2> QED
    BY <1>0, <1>4, <2>1, FreshKept, SMTT(30)
       DEF logger_destroy_join, PcTypes, Logging
<1>5. CASE \/ UNCHANGED vars \/ logger_thread \/ logger_thread_exit
           \/ (\E Loglevel \in LogLevels : logger_init(Loglevel))
           \/ (\E sNewSettings \in LogSettings : logger_set(sNewSettings))
  <2>1. CASE logger_thread
    BY <2>1, <1>0, FreshKept, Zenon
    DEF logger_thread, logger_thread_cancelled, logger_thread_poll,
       logger_thread_trylock, logger_thread_check, logger_thread_open,
       logger_thread_first, logger_thread_lock, logger_thread_remove,
       logger_thread_write, logger_thread_close, logger_thread_closed,
       logger_thread_relock, logger_thread_update
  <2>2. CASE UNCHANGED vars \/ logger_thread_exit
    BY <2>2, <1>0, FreshKept, Zenon DEF vars, logger_thread_exit
  <2>3. ASSUME NEW Loglevel \in LogLevels, logger_init(Loglevel)
        PROVE  FreshInv'
    BY <2>3, <1>0, FreshKept, Zenon DEF logger_init
  <2>4. ASSUME NEW sNewSettings \in LogSettings, logger_set(sNewSettings)
        PROVE  FreshInv'
    BY <2>4, <1>0, FreshKept, Zenon DEF logger_set
  <2> QED
    BY <1>5, <2>1, <2>2, <2>3, <2>4, SMTT(30)
<1>6. ASSUME NEW t \in Threads,
             log_add_to_queue_room(t) \/ log_add_to_queue_lock(t)
      PROVE  FreshInv'
  BY <1>0, <1>6, FreshKept, Zenon
     DEF log_add_to_queue_room, log_add_to_queue_lock, PcTypes, Caller, Logging
<1>7. CASE \/ logger_flush_wait \/ logger_destroy_shutdown
           \/ logger_destroy_cancel \/ logger_flush
  <2>1. UNCHANGED <<accepted, sent>>
    BY <1>7, Zenon DEF logger_flush_wait, logger_destroy_shutdown,
       logger_destroy_cancel, logger_flush
  <2>2. \E v \in {pc[Main], "idle", "flush", "cancel", "join"} :
          pc' = [pc EXCEPT ![Main] = v]
    BY <1>7, <1>0, Zenon DEF logger_flush_wait, logger_destroy_shutdown,
       logger_destroy_cancel, logger_flush, PcTypes
  <2> QED
    BY <1>0, <2>1, <2>2, FreshKept, Zenon DEF PcTypes, Logging
<1> QED
  BY <1>1, <1>2, <1>3, <1>4, <1>5, <1>6, <1>7, Zenon
     DEF Next, Exited, MainStep, log_add_to_queue

(* A concatenation splits where it was joined.                              *)
LEMMA SplitConcat ==
  ASSUME NEW S, NEW s \in Seq(S), NEW q \in Seq(S)
  PROVE  /\ Len(s \o q) = Len(s) + Len(q)
         /\ SubSeq(s \o q, 1, Len(s)) = s
         /\ SubSeq(s \o q, Len(s) + 1, Len(s \o q)) = q
<1>1. Len(s \o q) = Len(s) + Len(q) /\ Len(s) \in Nat /\ Len(q) \in Nat
  BY ConcatProperties, LenProperties, Zenon
<1>2. SubSeq(s \o q, 1, Len(s)) = s
  BY <1>1, SMT
<1>3. SubSeq(s \o q, Len(s) + 1, Len(s) + Len(q)) = q
  BY <1>1, SMT
<1> QED
  BY <1>1, <1>2, <1>3, Zenon

(* The writing thread leaves what waits alone, but for the flush and the    *)
(* fclose, which put the buffer on disk.                                    *)
LEMMA WriterMaps ==
  ASSUME IInv, alive, logger_thread
  PROVE  Service!Write \/ UNCHANGED <<logfile, Waiting, alive>>
<1>0. alive' = alive
  BY Zenon
     DEF logger_thread, logger_thread_cancelled, logger_thread_poll,
       logger_thread_trylock, logger_thread_check, logger_thread_open,
       logger_thread_first, logger_thread_lock, logger_thread_remove,
       logger_thread_write, logger_thread_close, logger_thread_closed,
       logger_thread_relock, logger_thread_update
<1>1. CASE logger_thread_remove
  <2>1. /\ outbuf \in Seq(Msgs) /\ Queue \in Seq(Msgs) /\ Queue # <<>>
        /\ LogMessage = Head(Queue)
    <3>1. Len(Queue) >= 1
      BY <1>1 DEF logger_thread_remove, IInv, CounterInv, BatchInv, TypeOK
    <3> QED
      BY <1>1, <3>1, EmptyLen
      DEF logger_thread_remove, IInv, CounterInv, BatchInv, TypeOK
  <2>2. Waiting = outbuf \o Queue
    BY <1>1, <2>1, ConcatEmptySeq, Zenon
       DEF logger_thread_remove, Waiting, InFlight
  <2>3. Waiting' = (outbuf \o <<Head(Queue)>>) \o Tail(Queue)
    BY <1>1, <2>1, Zenon DEF logger_thread_remove, fileVars, Waiting, InFlight
  <2>4. (outbuf \o <<Head(Queue)>>) \o Tail(Queue) = outbuf \o Queue
    BY <2>1, MoveHead, Zenon
  <2> QED
    BY <1>0, <1>1, <2>2, <2>3, <2>4, Zenon DEF logger_thread_remove, fileVars
<1>2. CASE logger_thread_write
  <2>1. outbuf \in Seq(Msgs) /\ LogMessage \in Msgs
    BY <1>2, Zenon DEF logger_thread_write, IInv, TypeOK, CounterInv, BatchInv
  <2>2. Append(outbuf, LogMessage) = outbuf \o <<LogMessage>>
    BY <2>1, AppendIsConcat, Zenon
  <2>3. /\ InFlight = <<LogMessage>> /\ InFlight' = <<>>
        /\ outbuf' = Append(outbuf, LogMessage)
        /\ Append(outbuf, LogMessage) \in Seq(Msgs)
    BY <1>2, <2>1, AppendProperties, Zenon DEF logger_thread_write, InFlight
  <2>4. outbuf' \o InFlight' = outbuf \o InFlight
    BY <2>2, <2>3, ConcatEmptySeq, Zenon
  <2> QED
    BY <1>0, <1>2, <2>4, Zenon DEF logger_thread_write, queueVars, Waiting
<1>3. CASE logger_thread_close
  <2>1. /\ outbuf \in Seq(Msgs) /\ Queue \in Seq(Msgs) /\ logfile \in Seq(Msgs)
        /\ InFlight = <<>> /\ InFlight' = <<>> /\ outbuf' = <<>>
        /\ logfile' = logfile \o outbuf /\ Queue' = Queue
    BY <1>3, Zenon DEF logger_thread_close, queueVars, IInv, TypeOK, InFlight
  <2>2. Waiting = outbuf \o Queue /\ Waiting' = Queue
    BY <2>1, ConcatEmptySeq DEF Waiting
  <2>3. CASE outbuf = <<>>
    BY <1>0, <2>1, <2>2, <2>3, ConcatEmptySeq, Zenon
  <2>4. CASE outbuf # <<>>
    <3>1. Len(outbuf) \in 1..Len(Waiting)
      BY <2>1, <2>2, <2>4, SplitConcat, EmptySeq, LenProperties
    <3>2. /\ SubSeq(Waiting, 1, Len(outbuf)) = outbuf
          /\ SubSeq(Waiting, Len(outbuf) + 1, Len(Waiting)) = Queue
      BY <2>1, <2>2, SplitConcat
    <3> QED
      BY <1>0, <2>1, <2>2, <3>1, <3>2, Zenon DEF Service!Write
  <2> QED
    BY <2>3, <2>4, Zenon
<1>4. CASE ~(logger_thread_remove \/ logger_thread_write \/ logger_thread_close)
  <2>1. UNCHANGED <<logfile, outbuf, Queue>> /\ wpc # "write" /\ wpc' # "write"
    BY <1>4, Zenon
       DEF logger_thread, logger_thread_cancelled, logger_thread_poll,
         logger_thread_trylock, logger_thread_check, logger_thread_open,
         logger_thread_first, logger_thread_lock, logger_thread_closed,
         logger_thread_relock, logger_thread_update, queueVars, fileVars,
         CancelPoints
  <2> QED
    BY <1>0, <2>1, Zenon DEF Waiting, InFlight
<1> QED
  BY <1>1, <1>2, <1>3, <1>4, Zenon

(* log_add_to_queue accepts a message that was never accepted before.       *)
LEMMA InsertMaps ==
  ASSUME IInv, FreshInv, alive, NEW t \in Threads, log_add_to_queue_insert(t)
  PROVE  \E m \in Msgs : Service!Accept(m)
<1>1. PICK m \in Msgs : m = <<t, sent[t]>> /\ ~Older(m)
  <2>1. sent[t] >= 1 /\ sent[t] \in 0..MaxMsgs /\ pc[t] \in Logging
    BY Zenon
       DEF log_add_to_queue_insert, IInv, ControlInv, CallInv, Logging, TypeOK
  <2>2. <<t, sent[t]>> \in Msgs
    BY <2>1, BoundsAssumption DEF Msgs
  <2>3. PICK m \in Msgs : m = <<t, sent[t]>>
    BY <2>2, Zenon
  <2>4. m[1] = t /\ m[2] = sent[t] /\ ~(sent[t] < sent[t])
    BY <2>1, <2>3, BoundsAssumption
  <2> QED
    BY <2>1, <2>3, <2>4, SMTT(30) DEF Older
<1>2. \A k \in 1..Len(accepted) : accepted[k] # m
  BY <1>1, Zenon DEF FreshInv
<1>3. /\ logfile \in Seq(Msgs) /\ Waiting \in Seq(Msgs)
      /\ accepted = logfile \o Waiting
  BY WaitingFacts, Zenon
<1>4. ~Service!Occurs(m, logfile) /\ ~Service!Occurs(m, Waiting)
  <2>1. /\ Len(logfile) \in Nat /\ Len(Waiting) \in Nat
        /\ Len(accepted) = Len(logfile) + Len(Waiting)
        /\ \A k \in 1..Len(logfile) : accepted[k] = logfile[k]
    BY <1>3, ConcatProperties, LenProperties
  <2>2. \A k \in 1..Len(Waiting) :
          accepted[Len(logfile) + k] = Waiting[k]
    BY <1>3, <2>1, ConcatProperties
  <2>3. \A k \in 1..Len(Waiting) : Len(logfile) + k \in 1..Len(accepted)
    BY <2>1
  <2>4. \A k \in 1..Len(logfile) : k \in 1..Len(accepted)
    BY <2>1
  <2> QED
    BY <1>2, <2>1, <2>2, <2>3, <2>4, Zenon DEF Service!Occurs
<1>5. Waiting' = Append(Waiting, m)
  <2>1. outbuf \o InFlight \in Seq(Msgs) /\ Queue \in Seq(Msgs)
    BY WaitingFacts, ConcatProperties, Zenon
  <2>2. Waiting' = (outbuf \o InFlight) \o Append(Queue, m)
    BY <1>1, SMTT(30)
       DEF log_add_to_queue_insert, INSERT_TAIL, fileVars, writerVars, Waiting,
         InFlight
  <2> QED
    BY <2>1, <2>2, AppendLast DEF Waiting
<1> QED
  BY <1>4, <1>5, Zenon DEF Service!Accept, log_add_to_queue_insert, fileVars

(* Every step of the logger is a step of the log or none.                   *)
LEMMA ServiceStep ==
  IInv /\ FreshInv /\ [Next]_vars => [Service!Next]_(Service!vars)
<1> SUFFICES ASSUME IInv, FreshInv, [Next]_vars
             PROVE  Service!Next \/ UNCHANGED <<logfile, Waiting, alive>>
  BY Zenon DEF Service!vars
<1> USE DEF fileVars, queueVars, writerVars, Waiting, InFlight
<1>1. CASE UNCHANGED vars
  BY <1>1, Zenon DEF vars
<1>2. CASE alive /\ logger_thread
  BY <1>2, WriterMaps, Zenon DEF Service!Next
<1>3. CASE alive /\ logger_thread_exit
  BY <1>3, Zenon DEF logger_thread_exit, Service!Next, Service!Exit
<1>4. ASSUME alive, NEW t \in Threads, log_add_to_queue(t)
      PROVE  Service!Next \/ UNCHANGED <<logfile, Waiting, alive>>
  BY <1>4, InsertMaps, Zenon
     DEF log_add_to_queue, log_add_to_queue_room, log_add_to_queue_lock,
       Service!Next
<1>5. ASSUME NEW t \in Threads, NEW eType \in LogLevels, log_msg(t, eType)
      PROVE  UNCHANGED <<logfile, Waiting, alive>>
  BY <1>5, Zenon DEF log_msg
<1>6. CASE alive /\ logger_destroy_join
  <2>1. outbuf = <<>> /\ wpc = "none" /\ wpc' = "none"
    BY <1>6, Zenon DEF logger_destroy_join, IInv, ControlInv, FileInv, FileOpen
  <2>2. /\ logfile \in Seq(Msgs) /\ logfile' = logfile \o outbuf
        /\ Waiting' = (<<>> \o <<>>) \o <<>> /\ alive' = alive
    BY <1>6, <2>1, Zenon DEF logger_destroy_join, IInv, TypeOK
  <2>3. <<>> \in Seq(Msgs)
    OBVIOUS
  <2>4. logfile' = logfile /\ Waiting' = <<>>
    BY <2>1, <2>2, <2>3, ConcatEmptySeq, SMTT(30)
  <2> HIDE DEF Waiting
  <2> QED
    BY <1>6, <2>2, <2>4, Zenon DEF Service!Next, Service!Drop
<1>7. CASE \/ logger_flush_wait \/ logger_destroy_shutdown
           \/ logger_destroy_cancel \/ logger_flush \/ logger_destroy
  BY <1>7, Zenon
     DEF logger_flush_wait, logger_destroy_shutdown, logger_destroy_cancel,
       logger_flush, logger_destroy
<1>8. ASSUME NEW Loglevel \in LogLevels, logger_init(Loglevel)
      PROVE  UNCHANGED <<logfile, Waiting, alive>>
  <2>1. Queue = <<>> /\ wpc = "none"
    BY <1>8, Zenon DEF logger_init, IInv, ControlInv, ThreadInv
  <2>2. /\ UNCHANGED <<logfile, outbuf, alive>> /\ Queue' = <<>>
        /\ wpc' \in {"none", "poll"}
    BY <1>8, <2>1, Zenon DEF logger_init
  <2> QED
    BY <2>1, <2>2, Zenon
<1>9. ASSUME NEW sNewSettings \in LogSettings, logger_set(sNewSettings)
      PROVE  UNCHANGED <<logfile, Waiting, alive>>
  BY <1>9, Zenon DEF logger_set
<1> QED
  BY <1>1, <1>2, <1>3, <1>4, <1>5, <1>6, <1>7, <1>8, <1>9, Zenon
     DEF Next, Exited, MainStep

(* The logger of cew_logger.c implements the log that LogService specifies. *)
THEOREM ServiceCorrect == Spec => ImplementsService
<1>1. Init => Service!Init
  BY DEF Init, Service!Init, Waiting, InFlight
<1>2. Init => FreshInv
  BY EmptyLen DEF Init, FreshInv
<1> QED
  BY <1>1, <1>2, FreshStep, ServiceStep, Invariance, PTL
     DEF Spec, ImplementsService, Service!Spec

-----------------------------------------------------------------------------
(***************************************************************************)
(* How far the queue can grow past its limit.                               *)
(***************************************************************************)
INSTANCE FiniteSetTheorems

(* Callers that passed the test of the limit and have not inserted yet.    *)
Admitted == {t \in Threads : pc[t] \in {"lock", "insert"}}

RoomInv ==
  iDataInQueueCount + Cardinality(Admitted)
    <= MaxQueueSize + Cardinality(Threads)

(* The callers are finitely many.                                           *)
LEMMA ThreadsFinite ==
  /\ IsFiniteSet(Threads)
  /\ Cardinality(Threads) \in Nat
  /\ \A S \in SUBSET Threads : /\ IsFiniteSet(S)
                               /\ Cardinality(S) \in Nat
                               /\ Cardinality(S) <= Cardinality(Threads)
<1>1. IsFiniteSet(Threads)
  BY ThreadsAssumption, FS_Singleton, FS_Union, Zenon DEF Threads
<1> QED
  BY <1>1, FS_Subset, FS_CardinalityType, Zenon

(* A step that neither admits a caller nor raises the counter keeps the     *)
(* bound.                                                                   *)
LEMMA RoomKept ==
  ASSUME TypeOK, TypeOK', RoomInv, Admitted' \subseteq Admitted,
         iDataInQueueCount' <= iDataInQueueCount
  PROVE  RoomInv'
<1>1. Admitted \in SUBSET Threads
  BY Zenon DEF Admitted
<1>2. Cardinality(Admitted') <= Cardinality(Admitted)
  BY <1>1, ThreadsFinite, FS_Subset, Zenon
<1>3. Cardinality(Admitted) \in Nat /\ Cardinality(Admitted') \in Nat
  BY <1>1, ThreadsFinite, Zenon
<1>4. iDataInQueueCount \in Nat /\ iDataInQueueCount' \in Nat
  BY Zenon DEF TypeOK
<1> QED
  BY <1>2, <1>3, <1>4, ThreadsFinite, BoundsAssumption DEF RoomInv, Threads

(* The writing thread moves no caller on, and it changes the count of the  *)
(* queue only when it has closed the file.                                 *)
LEMMA WriterFrame ==
  ASSUME logger_thread
  PROVE  UNCHANGED pc /\ (UNCHANGED iDataInQueueCount \/ logger_thread_update)
<1> USE DEF queueVars, callerVars
<1>1. CASE \/ logger_thread_cancelled \/ logger_thread_poll
           \/ logger_thread_trylock \/ logger_thread_check
  BY <1>1, Zenon
     DEF logger_thread_cancelled, logger_thread_poll, logger_thread_trylock,
       logger_thread_check
<1>2. CASE \/ logger_thread_open \/ logger_thread_first
           \/ logger_thread_lock \/ logger_thread_remove
  BY <1>2, Zenon
     DEF logger_thread_open, logger_thread_first, logger_thread_lock,
       logger_thread_remove
<1>3. CASE \/ logger_thread_write \/ logger_thread_close
           \/ logger_thread_closed \/ logger_thread_relock
  BY <1>3, Zenon
     DEF logger_thread_write, logger_thread_close, logger_thread_closed,
       logger_thread_relock
<1>4. CASE logger_thread_update
  BY <1>4, Zenon DEF logger_thread_update
<1> QED
  BY <1>1, <1>2, <1>3, <1>4, Zenon DEF logger_thread

(* Every step keeps the bound: an admitted caller found room, and an        *)
(* insertion raises the counter by one but ends one admission.              *)
LEMMA RoomStep == IInv /\ IInv' /\ RoomInv /\ [Next]_vars => RoomInv'
<1> SUFFICES ASSUME IInv, IInv', RoomInv, [Next]_vars PROVE RoomInv'
  OBVIOUS
<1> USE ThreadsAssumption, BoundsAssumption DEF IInv
<1>0. /\ iDataInQueueCount \in Nat /\ iDataInQueueCount' \in Nat
      /\ pc \in [Threads -> {"idle", "room", "lock", "insert", "shutdown",
                            "flush", "cancel", "join"}]
  BY Zenon DEF TypeOK
<1>1. ASSUME NEW t \in Threads, log_add_to_queue_room(t)
      PROVE  RoomInv'
  <2>1. CASE HasRoom
    <3>0. sCurrLogSettings.iLoggerQueueSize \in 0..MaxQueueSize
      BY Zenon DEF TypeOK, LogSettings
    <3>1. iDataInQueueCount <= MaxQueueSize
      BY <1>0, <2>1, <3>0 DEF HasRoom
    <3>2. Admitted' \in SUBSET Threads
      BY Zenon DEF Admitted
    <3> QED
      BY <1>0, <1>1, <3>1, <3>2, ThreadsFinite
         DEF log_add_to_queue_room, queueVars, RoomInv, Threads
  <2>2. CASE ~HasRoom
    BY <1>0, <1>1, <2>2, RoomKept
       DEF log_add_to_queue_room, queueVars, Admitted, Caller
  <2> QED
    BY <2>1, <2>2, Zenon
<1>2. ASSUME NEW t \in Threads, log_add_to_queue_insert(t)
      PROVE  RoomInv'
  <2>1. t \in Admitted /\ Admitted \in SUBSET Threads
    BY <1>2, Zenon DEF log_add_to_queue_insert, Admitted
  <2>2. Admitted' = Admitted \ {t}
    BY <1>0, <1>2, Zenon DEF log_add_to_queue_insert, Admitted, Caller
  <2>3. Cardinality(Admitted') = Cardinality(Admitted) - 1
    BY <2>1, <2>2, ThreadsFinite, FS_RemoveElement
  <2>4. iDataInQueueCount' = iDataInQueueCount + 1
    BY <1>2, Zenon DEF log_add_to_queue_insert
  <2> QED
    BY <1>0, <2>1, <2>3, <2>4, ThreadsFinite DEF RoomInv, Threads
<1>3. CASE Admitted' \subseteq Admitted /\ iDataInQueueCount' <= iDataInQueueCount
  BY <1>3, RoomKept, Zenon
<1>4. \/ Admitted' \subseteq Admitted /\ iDataInQueueCount' <= iDataInQueueCount
      \/ \E t \in Threads : \/ log_add_to_queue_room(t)
                           \/ log_add_to_queue_insert(t)
  <2> USE <1>0 DEF Admitted, queueVars, callerVars
  <2>1. CASE UNCHANGED vars
    BY <2>1 DEF vars
  <2>2. CASE logger_thread
    <3>1. UNCHANGED pc /\ (UNCHANGED iDataInQueueCount \/ logger_thread_update)
      BY <2>2, WriterFrame, Zenon
    <3>2. iDataWritten \in Nat
      BY Zenon DEF TypeOK
    <3> QED
      BY <3>1, <3>2 DEF logger_thread_update, CountAfterBatch
  <2>3. CASE logger_thread_exit
    BY <2>3 DEF logger_thread_exit
  <2>4. ASSUME NEW t \in Threads, log_add_to_queue_lock(t)
        PROVE  /\ Admitted' \subseteq Admitted
               /\ iDataInQueueCount' <= iDataInQueueCount
    BY <2>4 DEF log_add_to_queue_lock
  <2>5. ASSUME NEW t \in Threads, NEW eType \in LogLevels, log_msg(t, eType)
        PROVE  /\ Admitted' \subseteq Admitted
               /\ iDataInQueueCount' <= iDataInQueueCount
    BY <2>5 DEF log_msg
  <2>6. CASE MainStep \/ logger_flush \/ logger_destroy
    <3>1. CASE logger_destroy_join
      BY <3>1 DEF logger_destroy_join
    <3>2. CASE \/ logger_flush_wait \/ logger_destroy_shutdown
               \/ logger_destroy_cancel \/ logger_flush \/ logger_destroy
      <4>1. CASE logger_flush_wait
        BY <4>1, SMTT(40) DEF logger_flush_wait
      <4>2. CASE logger_destroy_shutdown
        BY <4>2, SMTT(40) DEF logger_destroy_shutdown
      <4>3. CASE logger_destroy_cancel
        BY <4>3, SMTT(40) DEF logger_destroy_cancel
      <4>4. CASE logger_flush
        BY <4>4, SMTT(40) DEF logger_flush
      <4>5. CASE logger_destroy
        BY <4>5, SMTT(40) DEF logger_destroy
      <4> QED
        BY <3>2, <4>1, <4>2, <4>3, <4>4, <4>5, Zenon
    <3> QED
      BY <2>6, <3>1, <3>2, Zenon DEF MainStep
  <2>7. ASSUME NEW Loglevel \in LogLevels, logger_init(Loglevel)
        PROVE  /\ Admitted' \subseteq Admitted
               /\ iDataInQueueCount' <= iDataInQueueCount
    <3>1. UNCHANGED pc /\ (UNCHANGED iDataInQueueCount \/ iDataInQueueCount' = 0)
      BY <2>7, Zenon DEF logger_init
    <3> QED
      BY <3>1
  <2>8. ASSUME NEW sNewSettings \in LogSettings, logger_set(sNewSettings)
        PROVE  /\ Admitted' \subseteq Admitted
               /\ iDataInQueueCount' <= iDataInQueueCount
    BY <2>8 DEF logger_set
  <2> QED
    BY <2>1, <2>2, <2>3, <2>4, <2>5, <2>6, <2>7, <2>8
       DEF Next, Exited, log_add_to_queue
<1> QED
  BY <1>1, <1>2, <1>3, <1>4

(* The unlocked test of the limit lets the queue exceed it by at most one   *)
(* message per calling thread.                                              *)
THEOREM OverrunBounded == Spec => []QueueOverrunBounded
<1>1. Init => RoomInv
  <2> SUFFICES ASSUME Init PROVE RoomInv
    BY Zenon
  <2>1. Admitted = {}
    BY Zenon DEF Init, Admitted
  <2> QED
    BY <2>1, ThreadsFinite, FS_EmptySet, BoundsAssumption DEF Init, RoomInv
<1>2. IInv /\ RoomInv => QueueOverrunBounded
  <2> SUFFICES ASSUME IInv, RoomInv PROVE QueueOverrunBounded
    BY Zenon
  <2>1. Cardinality(Admitted) \in Nat
    BY ThreadsFinite, Zenon DEF Admitted
  <2> QED
    BY <2>1, ThreadsFinite, BoundsAssumption
       DEF RoomInv, QueueOverrunBounded, IInv, TypeOK
<1> QED
  BY <1>1, <1>2, RoomStep, Invariance, PTL DEF Spec
=============================================================================
