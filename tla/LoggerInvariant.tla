-------------------------- MODULE LoggerInvariant ---------------------------
(***************************************************************************)
(* The inductive invariant of the logger, and that every step of the       *)
(* writing thread and of the callers preserves it.  LoggerProofs draws the *)
(* conclusions.                                                            *)
(***************************************************************************)
EXTENDS Logger, SequenceTheorems, TLAPS

-----------------------------------------------------------------------------
(***************************************************************************)
(* The inductive invariant.                                                *)
(***************************************************************************)
Logging == {"room", "lock", "insert"}

(* Who holds pLogMutex is determined by the program counters.              *)
MutexInv ==
  /\ \A t \in Threads : pc[t] = "insert" <=> pLogMutex = t
  /\ wpc \in WriterHolds <=> pLogMutex = Writer

(* The part of the batch still to be written is on the queue.              *)
BatchInv ==
  /\ wpc \in {"open", "first", "lock", "remove"} =>
       iDataToWrite >= 1 /\ iDataToWrite <= Len(Queue)
  /\ wpc = "write" => iDataToWrite >= 1 /\ iDataToWrite <= Len(Queue) + 1
  /\ wpc = "open" => iDataWritten = 0
  /\ wpc \in {"lock", "remove"} => LogMessage = Head(Queue)
  /\ wpc = "write" => LogMessage \in Msgs

(* The logfile is open, and the buffer in use, during the batch only.      *)
FileInv ==
  /\ LogfileFd <=> wpc \in FileOpen
  /\ wpc \in FileOpen \ {"closed"} => Len(outbuf) = iDataWritten
  /\ wpc \notin FileOpen \ {"closed"} => outbuf = <<>>

(* Which calls can be in progress together.                                *)
CallInv ==
  /\ \A t \in Producers : pc[t] \in {"idle"} \union Logging
  /\ \A t \in Threads : pc[t] \in Logging => iIsInitDone /\ sent[t] >= 1
  /\ pc[Main] = "idle" => op = "none"
  /\ pc[Main] \in {"shutdown", "cancel", "join"} => op = "destroy"
  /\ pc[Main] = "flush" => op # "none" /\ MaxLoops >= 0
  /\ op = "flush" => pc[Main] = "flush"
  /\ op = "destroy" => iIsInitDone /\ \A t \in Producers : pc[t] = "idle"
  /\ op = "destroy" /\ pc[Main] \in {"flush", "cancel", "join"} => iShuttingDown

(* The writing thread lives from logger_init to logger_destroy.            *)
ThreadInv ==
  /\ ~iIsInitDone => wpc = "none" /\ Queue = <<>>
  /\ wpc = "none" /\ iIsInitDone => pc[Main] = "join"
  /\ cancel => pc[Main] = "join"

(* If the flush of logger_destroy saw zero, the counter stays at zero.     *)
DestroyInv ==
  pc[Main] \in {"cancel", "join"} /\ MaxLoops >= 0 => iDataInQueueCount = 0

ControlInv == MutexInv /\ FileInv /\ CallInv /\ ThreadInv

CounterInv == BatchInv /\ CountMatchesQueue /\ DestroyInv

IInv == TypeOK /\ ControlInv /\ CounterInv /\ NothingLost

-----------------------------------------------------------------------------
(***************************************************************************)
(* Sequences.                                                              *)
(***************************************************************************)

(* Removing the head of a queue and appending it to what stands before the *)
(* queue leaves the whole sequence as it was: STAILQ_REMOVE_HEAD + fwrite. *)
LEMMA MoveHead ==
  ASSUME NEW S, NEW s \in Seq(S), NEW q \in Seq(S), q # <<>>
  PROVE  (s \o <<Head(q)>>) \o Tail(q) = s \o q
<1>1. Head(q) \in S /\ Tail(q) \in Seq(S)
  BY HeadTailProperties, Zenon
<1>2. <<Head(q)>> \o Tail(q) = q
  BY <1>1, SMT
<1>3. <<Head(q)>> \in Seq(S)
  BY <1>1
<1>4. QED
  BY <1>1, <1>2, <1>3, ConcatAssociative

(* Appending to the last part of a concatenation appends to the whole:     *)
(* STAILQ_INSERT_TAIL.                                                     *)
LEMMA AppendLast ==
  ASSUME NEW S, NEW s \in Seq(S), NEW q \in Seq(S), NEW m \in S
  PROVE  s \o Append(q, m) = Append(s \o q, m)
BY SMT

-----------------------------------------------------------------------------
(***************************************************************************)
(* The invariant is inductive: a lemma for each actor, one case per action. *)
(***************************************************************************)

(* The callers are threads of their own.                                    *)
LEMMA ThreadFacts ==
  /\ Main \in Threads /\ Producers \subseteq Threads /\ Main \notin Producers
  /\ \A t \in Threads : t \in Producers \/ t = Main
  /\ Writer \notin Threads /\ NoThread \notin Threads /\ NoThread # Writer
BY ThreadsAssumption, Zenon DEF Threads

(* The part of the types that the other conjuncts rely on.                  *)
PcTypes ==
  /\ pc \in [Threads -> {"idle", "room", "lock", "insert", "shutdown",
                         "flush", "cancel", "join"}]
  /\ op \in {"none", "flush", "destroy"}
  /\ sent \in [Threads -> Nat]
  /\ MaxLoops \in Int

CountTypes ==
  /\ iDataInQueueCount \in Nat
  /\ iDataToWrite \in Nat /\ iDataWritten \in Nat
  /\ Len(Queue) \in Nat /\ Len(outbuf) \in Nat

(* They follow from TypeOK.                                                 *)
LEMMA Types == TypeOK => CountTypes /\ PcTypes
<1> SUFFICES ASSUME TypeOK PROVE CountTypes /\ PcTypes
  BY Zenon
<1>1. CountTypes
  BY LenProperties, Zenon DEF TypeOK, CountTypes
<1>2. sent \in [Threads -> 0..MaxMsgs] /\ MaxLoops \in -1..FlushLoops
  BY Zenon DEF TypeOK
<1>3. PcTypes
  BY <1>2, BoundsAssumption DEF TypeOK, PcTypes
<1> QED
  BY <1>1, <1>3, Zenon

(* The empty sequence has length 0.                                         *)
LEMMA EmptyLen == Len(<<>>) = 0
BY Zenon

(* Every step of logger_thread preserves the invariant.                     *)
LEMMA WriterStep ==
  IInv /\ logger_thread => IInv'
<1> SUFFICES ASSUME IInv, logger_thread PROVE IInv'
  BY Zenon
<1> USE DEF queueVars, fileVars, flagVars, writerVars, callerVars
<1>inv. /\ TypeOK /\ MutexInv /\ FileInv /\ CallInv /\ ThreadInv
        /\ BatchInv /\ CountMatchesQueue /\ DestroyInv /\ NothingLost
  BY Zenon DEF IInv, ControlInv, CounterInv
<1>types. CountTypes /\ PcTypes
  BY <1>inv, Types, Zenon
<1>1. CASE logger_thread_cancelled
  <2>1. TypeOK'
    BY <1>1, <1>inv DEF logger_thread_cancelled, CancelPoints, TypeOK,
       InBatch, FileOpen
  <2>2. MutexInv' /\ FileInv'
    BY <1>1, <1>inv, <1>types, ThreadFacts, Zenon DEF logger_thread_cancelled,
       CancelPoints, MutexInv, FileInv, WriterHolds, FileOpen, PcTypes,
       CountTypes
  <2>3. CallInv' /\ ThreadInv'
    BY <1>1, <1>inv, <1>types, ThreadFacts, Zenon DEF logger_thread_cancelled,
       CancelPoints, CallInv, ThreadInv, Logging, PcTypes
  <2>4. BatchInv' /\ DestroyInv'
    BY <1>1, <1>inv, <1>types, ThreadFacts, Zenon DEF logger_thread_cancelled,
       CancelPoints, BatchInv, DestroyInv, CountTypes, PcTypes
  <2>5. CountMatchesQueue'
    BY <1>1, <1>inv, <1>types, Zenon DEF logger_thread_cancelled, CancelPoints,
       CountMatchesQueue, Unaccounted, InBatch, FileOpen, CountTypes
  <2>6. NothingLost'
    BY <1>1, <1>inv, Zenon
       DEF logger_thread_cancelled, CancelPoints, NothingLost,
       InFlight
  <2> QED
    BY <2>1, <2>2, <2>3, <2>4, <2>5, <2>6, Zenon
       DEF IInv, ControlInv, CounterInv
<1>2. CASE logger_thread_poll
  <2>1. TypeOK'
    BY <1>2, <1>inv DEF logger_thread_poll, TypeOK, InBatch, FileOpen
  <2>2. MutexInv' /\ FileInv'
    BY <1>2, <1>inv, <1>types, ThreadFacts, Zenon
       DEF logger_thread_poll, MutexInv,
       FileInv, WriterHolds, FileOpen, PcTypes, CountTypes
  <2>3. CallInv' /\ ThreadInv'
    BY <1>2, <1>inv, <1>types, ThreadFacts, Zenon
       DEF logger_thread_poll, CallInv,
       ThreadInv, Logging, PcTypes
  <2>4. BatchInv' /\ DestroyInv'
    BY <1>2, <1>inv, <1>types, ThreadFacts, Zenon
       DEF logger_thread_poll, BatchInv,
       DestroyInv, CountTypes, PcTypes
  <2>5. CountMatchesQueue'
    BY <1>2, <1>inv, <1>types, Zenon DEF logger_thread_poll, CountMatchesQueue,
       Unaccounted, InBatch, FileOpen, CountTypes
  <2>6. NothingLost'
    BY <1>2, <1>inv, Zenon DEF logger_thread_poll, NothingLost, InFlight
  <2> QED
    BY <2>1, <2>2, <2>3, <2>4, <2>5, <2>6 DEF IInv, ControlInv, CounterInv
<1>3. CASE logger_thread_trylock
  <2>1. TypeOK'
    BY <1>3, <1>inv DEF logger_thread_trylock, TypeOK, InBatch, FileOpen
  <2>2. MutexInv' /\ FileInv'
    BY <1>3, <1>inv, <1>types, ThreadFacts, Zenon DEF logger_thread_trylock,
       MutexInv, FileInv, WriterHolds, FileOpen, PcTypes, CountTypes
  <2>3. CallInv' /\ ThreadInv'
    BY <1>3, <1>inv, <1>types, ThreadFacts, Zenon DEF logger_thread_trylock,
       CallInv, ThreadInv, Logging, PcTypes
  <2>4. BatchInv' /\ DestroyInv'
    BY <1>3, <1>inv, <1>types, ThreadFacts, Zenon DEF logger_thread_trylock,
       BatchInv, DestroyInv, CountTypes, PcTypes
  <2>5. CountMatchesQueue'
    BY <1>3, <1>inv, <1>types, Zenon
       DEF logger_thread_trylock, CountMatchesQueue,
       Unaccounted, InBatch, FileOpen, CountTypes
  <2>6. NothingLost'
    BY <1>3, <1>inv, Zenon DEF logger_thread_trylock, NothingLost, InFlight
  <2> QED
    BY <2>1, <2>2, <2>3, <2>4, <2>5, <2>6 DEF IInv, ControlInv, CounterInv
<1>4. CASE logger_thread_check
  <2>1. sCurrLogSettings.iBulkWrite \in Nat
    BY <1>inv, BoundsAssumption, Zenon DEF TypeOK, LogSettings
  <2>2. TypeOK'
    BY <1>4, <1>inv DEF logger_thread_check, TypeOK, InBatch, FileOpen
  <2>3. MutexInv' /\ FileInv'
    BY <1>4, <1>inv, <1>types, ThreadFacts, Zenon
       DEF logger_thread_check, MutexInv,
       FileInv, WriterHolds, FileOpen, PcTypes, CountTypes
  <2>4. CallInv' /\ ThreadInv'
    BY <1>4, <1>inv, <1>types, ThreadFacts, Zenon
       DEF logger_thread_check, CallInv,
       ThreadInv, Logging, PcTypes
  <2>5. BatchInv' /\ DestroyInv'
    BY <1>4, <1>inv, <1>types, <2>1, ThreadFacts DEF logger_thread_check,
       BatchInv, DestroyInv, CountTypes, PcTypes, HaveGo, CountMatchesQueue,
       Unaccounted, InBatch, FileOpen
  <2>6. CountMatchesQueue'
    BY <1>4, <1>inv, <1>types, <2>1 DEF logger_thread_check,
       CountMatchesQueue, Unaccounted, InBatch, FileOpen, CountTypes, HaveGo
  <2>7. NothingLost'
    BY <1>4, <1>inv, Zenon DEF logger_thread_check, NothingLost, InFlight
  <2> QED
    BY <2>2, <2>3, <2>4, <2>5, <2>6, <2>7 DEF IInv, ControlInv, CounterInv
<1>5. CASE logger_thread_open
  <2>1. TypeOK'
    BY <1>5, <1>inv DEF logger_thread_open, TypeOK, InBatch, FileOpen
  <2>2. MutexInv' /\ FileInv'
    BY <1>5, <1>inv, <1>types, EmptyLen, ThreadFacts, Zenon
       DEF logger_thread_open,
       MutexInv, FileInv, WriterHolds, FileOpen, PcTypes, CountTypes,
       BatchInv
  <2>3. CallInv' /\ ThreadInv'
    BY <1>5, <1>inv, <1>types, ThreadFacts, Zenon
       DEF logger_thread_open, CallInv,
       ThreadInv, Logging, PcTypes
  <2>4. BatchInv' /\ DestroyInv'
    BY <1>5, <1>inv, <1>types, ThreadFacts, Zenon
       DEF logger_thread_open, BatchInv,
       DestroyInv, CountTypes, PcTypes
  <2>5. CountMatchesQueue'
    BY <1>5, <1>inv, <1>types, Zenon DEF logger_thread_open, CountMatchesQueue,
       Unaccounted, InBatch, FileOpen, CountTypes
  <2>6. NothingLost'
    BY <1>5, <1>inv, Zenon DEF logger_thread_open, NothingLost, InFlight
  <2> QED
    BY <2>1, <2>2, <2>3, <2>4, <2>5, <2>6 DEF IInv, ControlInv, CounterInv
<1>6. CASE logger_thread_first
  <2>1. Head(Queue) \in Msgs
    BY <1>6, <1>inv, HeadTailProperties, Zenon DEF logger_thread_first, TypeOK
  <2>2. TypeOK'
    BY <1>6, <1>inv, <2>1 DEF logger_thread_first, TypeOK, InBatch, FileOpen
  <2>3. MutexInv' /\ FileInv'
    BY <1>6, <1>inv, <1>types, ThreadFacts, Zenon
       DEF logger_thread_first, MutexInv,
       FileInv, WriterHolds, FileOpen, PcTypes, CountTypes
  <2>4. CallInv' /\ ThreadInv'
    BY <1>6, <1>inv, <1>types, ThreadFacts, Zenon
       DEF logger_thread_first, CallInv,
       ThreadInv, Logging, PcTypes
  <2>5. BatchInv' /\ DestroyInv'
    BY <1>6, <1>inv, <1>types, ThreadFacts, Zenon
       DEF logger_thread_first, BatchInv,
       DestroyInv, CountTypes, PcTypes
  <2>6. CountMatchesQueue'
    BY <1>6, <1>inv, <1>types, Zenon
       DEF logger_thread_first, CountMatchesQueue,
       Unaccounted, InBatch, FileOpen, CountTypes
  <2>7. NothingLost'
    BY <1>6, <1>inv, Zenon DEF logger_thread_first, NothingLost, InFlight
  <2> QED
    BY <2>2, <2>3, <2>4, <2>5, <2>6, <2>7 DEF IInv, ControlInv, CounterInv
<1>7. CASE logger_thread_lock
  <2>1. TypeOK'
    BY <1>7, <1>inv DEF logger_thread_lock, TypeOK, InBatch, FileOpen
  <2>2. MutexInv' /\ FileInv'
    BY <1>7, <1>inv, <1>types, ThreadFacts, Zenon
       DEF logger_thread_lock, MutexInv,
       FileInv, WriterHolds, FileOpen, PcTypes, CountTypes
  <2>3. CallInv' /\ ThreadInv'
    BY <1>7, <1>inv, <1>types, ThreadFacts, Zenon
       DEF logger_thread_lock, CallInv,
       ThreadInv, Logging, PcTypes
  <2>4. BatchInv' /\ DestroyInv'
    BY <1>7, <1>inv, <1>types, ThreadFacts, Zenon
       DEF logger_thread_lock, BatchInv,
       DestroyInv, CountTypes, PcTypes
  <2>5. CountMatchesQueue'
    BY <1>7, <1>inv, <1>types, Zenon DEF logger_thread_lock, CountMatchesQueue,
       Unaccounted, InBatch, FileOpen, CountTypes
  <2>6. NothingLost'
    BY <1>7, <1>inv, Zenon DEF logger_thread_lock, NothingLost, InFlight
  <2> QED
    BY <2>1, <2>2, <2>3, <2>4, <2>5, <2>6 DEF IInv, ControlInv, CounterInv
<1>8. CASE logger_thread_remove
  <2>1. Queue \in Seq(Msgs) /\ logfile \in Seq(Msgs) /\ outbuf \in Seq(Msgs)
    BY <1>inv, Zenon DEF TypeOK
  <2>2. Queue # <<>> /\ LogMessage = Head(Queue)
    BY <1>8, <1>inv, <1>types, EmptyLen DEF logger_thread_remove, BatchInv,
       CountTypes
  <2>3. /\ Head(Queue) \in Msgs /\ Tail(Queue) \in Seq(Msgs)
        /\ Len(Tail(Queue)) = Len(Queue) - 1
    BY <2>1, <2>2, HeadTailProperties, Zenon
  <2>4. logfile \o outbuf \in Seq(Msgs)
    BY <2>1, ConcatProperties, Zenon
  <2>5. (logfile \o outbuf) \o <<>> = logfile \o outbuf
    BY <2>4, ConcatEmptySeq, Zenon
  <2>6. ((logfile \o outbuf) \o <<Head(Queue)>>) \o Tail(Queue)
          = (logfile \o outbuf) \o Queue
    BY <2>1, <2>2, <2>4, MoveHead, Zenon
  <2>7. TypeOK'
    BY <1>8, <1>inv, <2>3 DEF logger_thread_remove, TypeOK, InBatch, FileOpen
  <2>8. MutexInv' /\ FileInv'
    BY <1>8, <1>inv, <1>types, ThreadFacts, Zenon DEF logger_thread_remove,
       MutexInv, FileInv, WriterHolds, FileOpen, PcTypes, CountTypes
  <2>9. CallInv' /\ ThreadInv'
    BY <1>8, <1>inv, <1>types, ThreadFacts, Zenon
       DEF logger_thread_remove, CallInv,
       ThreadInv, Logging, PcTypes
  <2>10. BatchInv' /\ DestroyInv'
    BY <1>8, <1>inv, <1>types, <2>2, <2>3, ThreadFacts DEF
       logger_thread_remove, BatchInv, DestroyInv, CountTypes, PcTypes
  <2>11. CountMatchesQueue'
    BY <1>8, <1>inv, <1>types, <2>3 DEF logger_thread_remove,
       CountMatchesQueue, Unaccounted, InBatch, FileOpen, CountTypes
  <2>12. NothingLost'
    BY <1>8, <1>inv, <2>2, <2>5, <2>6, Zenon
       DEF logger_thread_remove, NothingLost, InFlight
  <2> QED
    BY <2>7, <2>8, <2>9, <2>10, <2>11, <2>12 DEF IInv, ControlInv, CounterInv
<1>9. CASE logger_thread_write
  <2>1. outbuf \in Seq(Msgs) /\ logfile \in Seq(Msgs)
    BY <1>inv, Zenon DEF TypeOK
  <2>2. LogMessage \in Msgs /\ iDataToWrite >= 1
    BY <1>9, <1>inv, Zenon DEF logger_thread_write, BatchInv
  <2>3. /\ Append(outbuf, LogMessage) \in Seq(Msgs)
        /\ Len(Append(outbuf, LogMessage)) = Len(outbuf) + 1
    BY <2>1, <2>2, SMT
  <2>4. /\ logfile \o outbuf \in Seq(Msgs)
        /\ logfile \o Append(outbuf, LogMessage) \in Seq(Msgs)
    BY <2>1, <2>3, ConcatProperties, Zenon
  <2>5. logfile \o Append(outbuf, LogMessage)
          = Append(logfile \o outbuf, LogMessage)
    BY <2>1, <2>2, AppendLast
  <2>6. (logfile \o outbuf) \o <<LogMessage>>
          = Append(logfile \o outbuf, LogMessage)
    BY <2>2, <2>4, SMT
  <2>7. (logfile \o Append(outbuf, LogMessage)) \o <<>>
          = logfile \o Append(outbuf, LogMessage)
    BY <2>4, ConcatEmptySeq, Zenon
  <2>8. iDataToWrite' \in Nat /\ iDataWritten' \in Nat /\ wpc' \in {"first", "close"}
    BY <1>9, <1>types, <2>2 DEF logger_thread_write, CountTypes
  <2>9. TypeOK'
    BY <1>9, <1>inv, <2>3, <2>8 DEF logger_thread_write, TypeOK, InBatch,
       FileOpen
  <2>10. MutexInv' /\ FileInv'
    BY <1>9, <1>inv, <1>types, <2>3, ThreadFacts, Zenon
       DEF logger_thread_write,
       MutexInv, FileInv, WriterHolds, FileOpen, PcTypes, CountTypes
  <2>11. CallInv' /\ ThreadInv'
    BY <1>9, <1>inv, <1>types, ThreadFacts, Zenon
       DEF logger_thread_write, CallInv,
       ThreadInv, Logging, PcTypes
  <2>12. BatchInv' /\ DestroyInv'
    BY <1>9, <1>inv, <1>types, <2>2, ThreadFacts DEF logger_thread_write,
       BatchInv, DestroyInv, CountTypes, PcTypes
  <2>13. CountMatchesQueue'
    BY <1>9, <1>inv, <1>types DEF logger_thread_write, CountMatchesQueue,
       Unaccounted, InBatch, FileOpen, CountTypes
  <2>14. NothingLost'
    BY <1>9, <1>inv, <2>5, <2>6, <2>7, Zenon
       DEF logger_thread_write, NothingLost,
       InFlight
  <2> QED
    BY <2>9, <2>10, <2>11, <2>12, <2>13, <2>14 DEF IInv, ControlInv,
       CounterInv
<1>10. CASE logger_thread_close
  <2>1. outbuf \in Seq(Msgs) /\ logfile \in Seq(Msgs)
    BY <1>inv DEF TypeOK
  <2>2. logfile \o outbuf \in Seq(Msgs) /\ <<>> \in Seq(Msgs)
    BY <2>1, ConcatProperties
  <2>3. (logfile \o outbuf) \o <<>> = logfile \o outbuf
    BY <2>2, ConcatEmptySeq, Zenon
  <2>4. TypeOK'
    BY <1>10, <1>inv, <2>2 DEF logger_thread_close, TypeOK, InBatch, FileOpen
  <2>5. MutexInv' /\ FileInv'
    BY <1>10, <1>inv, <1>types, ThreadFacts, Zenon DEF logger_thread_close,
       MutexInv, FileInv, WriterHolds, FileOpen, PcTypes, CountTypes
  <2>6. CallInv' /\ ThreadInv'
    BY <1>10, <1>inv, <1>types, ThreadFacts, Zenon
       DEF logger_thread_close, CallInv,
       ThreadInv, Logging, PcTypes
  <2>7. BatchInv' /\ DestroyInv'
    BY <1>10, <1>inv, <1>types, ThreadFacts, Zenon DEF logger_thread_close,
       BatchInv, DestroyInv, CountTypes, PcTypes
  <2>8. CountMatchesQueue'
    BY <1>10, <1>inv, <1>types, Zenon
       DEF logger_thread_close, CountMatchesQueue,
       Unaccounted, InBatch, FileOpen, CountTypes
  <2>9. NothingLost'
    BY <1>10, <1>inv, <2>3, Zenon
       DEF logger_thread_close, NothingLost, InFlight
  <2> QED
    BY <2>4, <2>5, <2>6, <2>7, <2>8, <2>9 DEF IInv, ControlInv, CounterInv
<1>11. CASE logger_thread_closed
  <2>1. TypeOK'
    <3>1. wpc' \in InBatch
      BY <1>11, Zenon DEF logger_thread_closed, InBatch
    <3> QED
      BY <1>11, <1>inv, <3>1, ZenonT(30) DEF logger_thread_closed, TypeOK
  <2>2. MutexInv' /\ FileInv'
    BY <1>11, <1>inv, <1>types, ThreadFacts, Zenon DEF logger_thread_closed,
       MutexInv, FileInv, WriterHolds, FileOpen, PcTypes, CountTypes
  <2>3. CallInv' /\ ThreadInv'
    BY <1>11, <1>inv, <1>types, ThreadFacts, Zenon DEF logger_thread_closed,
       CallInv, ThreadInv, Logging, PcTypes
  <2>4. BatchInv' /\ DestroyInv'
    BY <1>11, <1>inv, <1>types, ThreadFacts, Zenon DEF logger_thread_closed,
       BatchInv, DestroyInv, CountTypes, PcTypes
  <2>5. CountMatchesQueue'
    BY <1>11, <1>inv, <1>types, Zenon
       DEF logger_thread_closed, CountMatchesQueue,
       Unaccounted, InBatch, FileOpen, CountTypes
  <2>6. NothingLost'
    BY <1>11, <1>inv, Zenon DEF logger_thread_closed, NothingLost, InFlight
  <2> QED
    BY <2>1, <2>2, <2>3, <2>4, <2>5, <2>6 DEF IInv, ControlInv, CounterInv
<1>12. CASE logger_thread_relock
  <2>1. TypeOK'
    BY <1>12, <1>inv DEF logger_thread_relock, TypeOK, InBatch, FileOpen
  <2>2. MutexInv' /\ FileInv'
    BY <1>12, <1>inv, <1>types, ThreadFacts, Zenon DEF logger_thread_relock,
       MutexInv, FileInv, WriterHolds, FileOpen, PcTypes, CountTypes
  <2>3. CallInv' /\ ThreadInv'
    BY <1>12, <1>inv, <1>types, ThreadFacts, Zenon DEF logger_thread_relock,
       CallInv, ThreadInv, Logging, PcTypes
  <2>4. BatchInv' /\ DestroyInv'
    BY <1>12, <1>inv, <1>types, ThreadFacts, Zenon DEF logger_thread_relock,
       BatchInv, DestroyInv, CountTypes, PcTypes
  <2>5. CountMatchesQueue'
    BY <1>12, <1>inv, <1>types, Zenon
       DEF logger_thread_relock, CountMatchesQueue,
       Unaccounted, InBatch, FileOpen, CountTypes
  <2>6. NothingLost'
    BY <1>12, <1>inv, Zenon DEF logger_thread_relock, NothingLost, InFlight
  <2> QED
    BY <2>1, <2>2, <2>3, <2>4, <2>5, <2>6 DEF IInv, ControlInv, CounterInv
<1>13. CASE logger_thread_update
  <2>1. /\ iDataInQueueCount - iDataWritten = Len(Queue)
        /\ Len(Queue) <= iDataInQueueCount
    BY <1>13, <1>inv, <1>types DEF logger_thread_update, CountMatchesQueue,
       Unaccounted, InBatch, CountTypes
  <2>2. TypeOK'
    BY <1>13, <1>inv, <1>types, <2>1, Zenon
       DEF logger_thread_update, CountAfterBatch, TypeOK, InBatch, FileOpen,
         CountTypes
  <2>3. MutexInv' /\ FileInv'
    BY <1>13, <1>inv, <1>types, ThreadFacts, Zenon DEF logger_thread_update,
       CountAfterBatch, MutexInv, FileInv, WriterHolds, FileOpen, PcTypes,
       CountTypes
  <2>4. CallInv' /\ ThreadInv'
    BY <1>13, <1>inv, <1>types, ThreadFacts, Zenon DEF logger_thread_update,
       CountAfterBatch, CallInv, ThreadInv, Logging, PcTypes
  <2>5. BatchInv' /\ DestroyInv'
    BY <1>13, <1>inv, <1>types, <2>1, ThreadFacts DEF logger_thread_update,
       CountAfterBatch, BatchInv, DestroyInv, CountTypes, PcTypes
  <2>6. CountMatchesQueue'
    BY <1>13, <1>inv, <1>types, <2>1 DEF logger_thread_update,
       CountAfterBatch, CountMatchesQueue, Unaccounted, InBatch, FileOpen,
       CountTypes
  <2>7. NothingLost'
    BY <1>13, <1>inv, Zenon
       DEF logger_thread_update, CountAfterBatch, NothingLost,
       InFlight
  <2> QED
    BY <2>2, <2>3, <2>4, <2>5, <2>6, <2>7 DEF IInv, ControlInv, CounterInv
<1> QED
  BY <1>1, <1>2, <1>3, <1>4, <1>5, <1>6, <1>7, <1>8, <1>9, <1>10, <1>11,
     <1>12, <1>13, Zenon DEF logger_thread

(* exit() in the writing thread.                                            *)
LEMMA ExitStep ==
  IInv /\ logger_thread_exit => IInv'
<1> SUFFICES ASSUME IInv, logger_thread_exit PROVE IInv'
  OBVIOUS
<1> USE DEF queueVars, fileVars, flagVars, writerVars, callerVars
<1>inv. /\ TypeOK /\ MutexInv /\ FileInv /\ CallInv /\ ThreadInv
        /\ BatchInv /\ CountMatchesQueue /\ DestroyInv /\ NothingLost
  BY DEF IInv, ControlInv, CounterInv
<1>types. CountTypes /\ PcTypes
  BY <1>inv, Types
<1>1. CASE logger_thread_exit
  <2>1. TypeOK'
    BY <1>1, <1>inv, Zenon DEF logger_thread_exit, TypeOK
  <2>2. MutexInv' /\ FileInv'
    BY <1>1, <1>inv, <1>types, ThreadFacts DEF logger_thread_exit, MutexInv,
       FileInv, WriterHolds, FileOpen, PcTypes, CountTypes
  <2>3. CallInv' /\ ThreadInv'
    BY <1>1, <1>inv, <1>types, ThreadFacts DEF logger_thread_exit, CallInv,
       ThreadInv, Logging, PcTypes
  <2>4. BatchInv' /\ DestroyInv'
    BY <1>1, <1>inv, <1>types, ThreadFacts, Zenon
       DEF logger_thread_exit, BatchInv,
       DestroyInv, CountTypes, PcTypes
  <2>5. CountMatchesQueue'
    BY <1>1, <1>inv, <1>types, Zenon DEF logger_thread_exit, CountMatchesQueue,
       Unaccounted, InBatch, FileOpen, CountTypes
  <2>6. NothingLost'
    BY <1>1, <1>inv, Zenon DEF logger_thread_exit, NothingLost, InFlight
  <2> QED
    BY <2>1, <2>2, <2>3, <2>4, <2>5, <2>6 DEF IInv, ControlInv, CounterInv
<1> QED
  BY <1>1, SMTT(30)

(* Every step of a call of log_msg once it was allowed in.                  *)
LEMMA LogStep ==
  ASSUME NEW t \in Threads
  PROVE  IInv /\ log_add_to_queue(t) => IInv'
<1> SUFFICES ASSUME IInv, log_add_to_queue(t) PROVE IInv'
  BY Zenon
<1> USE DEF queueVars, fileVars, flagVars, writerVars, callerVars
<1>inv. /\ TypeOK /\ MutexInv /\ FileInv /\ CallInv /\ ThreadInv
        /\ BatchInv /\ CountMatchesQueue /\ DestroyInv /\ NothingLost
  BY Zenon DEF IInv, ControlInv, CounterInv
<1>types. CountTypes /\ PcTypes
  BY <1>inv, Types, Zenon
<1>1. CASE log_add_to_queue_room(t)
  <2>1. TypeOK'
    BY <1>1, <1>inv DEF log_add_to_queue_room, Caller, TypeOK
  <2>2. MutexInv' /\ FileInv'
    BY <1>1, <1>inv, <1>types, ThreadFacts, Zenon
       DEF log_add_to_queue_room, Caller,
       MutexInv, FileInv, WriterHolds, FileOpen, PcTypes, CountTypes
  <2>3. CallInv' /\ ThreadInv'
    BY <1>1, <1>inv, <1>types, ThreadFacts, Zenon
       DEF log_add_to_queue_room, Caller,
       CallInv, ThreadInv, Logging, PcTypes
  <2>4. BatchInv' /\ DestroyInv'
    BY <1>1, <1>inv, <1>types, ThreadFacts, Zenon
       DEF log_add_to_queue_room, Caller,
       BatchInv, DestroyInv, CountTypes, PcTypes
  <2>5. CountMatchesQueue'
    BY <1>1, <1>inv, <1>types, Zenon DEF log_add_to_queue_room, Caller,
       CountMatchesQueue, Unaccounted, InBatch, FileOpen, CountTypes
  <2>6. NothingLost'
    BY <1>1, <1>inv, SMTT(30)
       DEF log_add_to_queue_room, Caller, NothingLost, InFlight
  <2> QED
    BY <2>1, <2>2, <2>3, <2>4, <2>5, <2>6, Zenon
       DEF IInv, ControlInv, CounterInv
<1>2. CASE log_add_to_queue_lock(t)
  <2>1. TypeOK'
    BY <1>2, <1>inv, ThreadFacts DEF log_add_to_queue_lock, TypeOK
  <2>2. MutexInv' /\ FileInv'
    BY <1>2, <1>inv, <1>types, ThreadFacts, Zenon DEF log_add_to_queue_lock,
       MutexInv, FileInv, WriterHolds, FileOpen, PcTypes, CountTypes
  <2>3. CallInv' /\ ThreadInv'
    BY <1>2, <1>inv, <1>types, ThreadFacts, Zenon DEF log_add_to_queue_lock,
       CallInv, ThreadInv, Logging, PcTypes
  <2>4. BatchInv' /\ DestroyInv'
    BY <1>2, <1>inv, <1>types, ThreadFacts, Zenon DEF log_add_to_queue_lock,
       BatchInv, DestroyInv, CountTypes, PcTypes
  <2>5. CountMatchesQueue'
    BY <1>2, <1>inv, <1>types, Zenon
       DEF log_add_to_queue_lock, CountMatchesQueue,
       Unaccounted, InBatch, FileOpen, CountTypes
  <2>6. NothingLost'
    BY <1>2, <1>inv, SMTT(30) DEF log_add_to_queue_lock, NothingLost, InFlight
  <2> QED
    BY <2>1, <2>2, <2>3, <2>4, <2>5, <2>6 DEF IInv, ControlInv, CounterInv
<1>3. CASE log_add_to_queue_insert(t)
  <2>1. /\ Queue \in Seq(Msgs) /\ accepted \in Seq(Msgs)
        /\ logfile \in Seq(Msgs) /\ outbuf \in Seq(Msgs)
    BY <1>inv, Zenon DEF TypeOK
  <2>2. <<t, sent[t]>> \in Msgs
    BY <1>3, <1>inv DEF log_add_to_queue_insert, TypeOK, CallInv, Logging,
       Msgs
  <2>3. /\ Append(Queue, <<t, sent[t]>>) \in Seq(Msgs)
        /\ Append(accepted, <<t, sent[t]>>) \in Seq(Msgs)
        /\ Len(Append(Queue, <<t, sent[t]>>)) = Len(Queue) + 1
        /\ Queue # <<>> => Head(Append(Queue, <<t, sent[t]>>)) = Head(Queue)
    BY <2>1, <2>2, SMT
  <2>4. InFlight \in Seq(Msgs)
    BY <1>inv DEF InFlight, BatchInv
  <2>5. (logfile \o outbuf) \o InFlight \in Seq(Msgs)
    BY <2>1, <2>4, ConcatProperties, Zenon
  <2>6. ((logfile \o outbuf) \o InFlight) \o Append(Queue, <<t, sent[t]>>)
          = Append(((logfile \o outbuf) \o InFlight) \o Queue, <<t, sent[t]>>)
    <3>1. \A s \in Seq(Msgs) : s \o Append(Queue, <<t, sent[t]>>)
                                  = Append(s \o Queue, <<t, sent[t]>>)
      BY <2>1, <2>2, AppendLast
    <3> QED
      BY <2>5, <3>1, Zenon
  <2>7. TypeOK'
    BY <1>3, <1>inv, <2>3, <1>types DEF log_add_to_queue_insert, INSERT_TAIL,
       Caller, TypeOK, CountTypes
  <2>8. MutexInv' /\ FileInv'
    BY <1>3, <1>inv, <1>types, ThreadFacts, SMTT(30)
       DEF log_add_to_queue_insert, INSERT_TAIL, Caller, MutexInv, FileInv,
         WriterHolds, FileOpen, PcTypes, CountTypes
  <2>9. CallInv' /\ ThreadInv'
    BY <1>3, <1>inv, <1>types, ThreadFacts, SMTT(30)
       DEF log_add_to_queue_insert, INSERT_TAIL, Caller, CallInv, ThreadInv,
         Logging, PcTypes
  <2>10. BatchInv' /\ DestroyInv'
    BY <1>3, <1>inv, <1>types, <2>3, EmptyLen, ThreadFacts DEF
       log_add_to_queue_insert, INSERT_TAIL, Caller, BatchInv, DestroyInv,
       CountTypes, PcTypes, CallInv
  <2>11. CountMatchesQueue'
    <3>1. Unaccounted' = Unaccounted /\ Unaccounted \in Nat
      BY <1>3, <1>types DEF log_add_to_queue_insert, Unaccounted, CountTypes
    <3>2. Len(Queue') = Len(Queue) + 1
      BY <1>3, <2>3, SMTT(30) DEF log_add_to_queue_insert, INSERT_TAIL
    <3> QED
      BY <1>3, <1>inv, <1>types, <3>1, <3>2
         DEF log_add_to_queue_insert, CountMatchesQueue, CountTypes
  <2>12. NothingLost'
    BY <1>3, <1>inv, <2>6, Zenon
       DEF log_add_to_queue_insert, INSERT_TAIL, Caller, NothingLost, InFlight
  <2> QED
    BY <2>7, <2>8, <2>9, <2>10, <2>11, <2>12 DEF IInv, ControlInv, CounterInv
<1> QED
  BY <1>1, <1>2, <1>3, Zenon DEF log_add_to_queue

(* And the call itself.                                                     *)
LEMMA LogCallStep ==
  ASSUME NEW t \in Threads, NEW eType
  PROVE  IInv /\ log_msg(t, eType) => IInv'
<1> SUFFICES ASSUME IInv, log_msg(t, eType) PROVE IInv'
  BY Zenon
<1> USE DEF queueVars, fileVars, flagVars, writerVars, callerVars
<1>inv. /\ TypeOK /\ MutexInv /\ FileInv /\ CallInv /\ ThreadInv
        /\ BatchInv /\ CountMatchesQueue /\ DestroyInv /\ NothingLost
  BY Zenon DEF IInv, ControlInv, CounterInv
<1>types. CountTypes /\ PcTypes
  BY <1>inv, Types, Zenon
<1>1. CASE log_msg(t, eType)
  <2>1. sent' \in [Threads -> 0..MaxMsgs]
    BY <1>1, <1>inv, BoundsAssumption, SMTT(30) DEF log_msg, TypeOK
  <2>2. TypeOK'
    BY <1>1, <1>inv, <2>1, SMTT(30) DEF log_msg, TypeOK
  <2>3. MutexInv' /\ FileInv'
    BY <1>1, <1>inv, <1>types, ThreadFacts, SMTT(30)
       DEF log_msg, MutexInv, FileInv, WriterHolds, FileOpen, PcTypes,
         CountTypes
  <2>4. CallInv' /\ ThreadInv'
    BY <1>1, <1>inv, <1>types, ThreadFacts, SMTT(30)
       DEF log_msg, CallInv, ThreadInv, Logging, PcTypes, is_msg_allowed
  <2>5. BatchInv' /\ DestroyInv'
    BY <1>1, <1>inv, <1>types, ThreadFacts, SMTT(30)
       DEF log_msg, BatchInv, DestroyInv, CountTypes, PcTypes
  <2>6. CountMatchesQueue'
    BY <1>1, <1>inv, <1>types, SMTT(30)
       DEF log_msg, CountMatchesQueue, Unaccounted, InBatch, FileOpen,
         CountTypes
  <2>7. NothingLost'
    BY <1>1, <1>inv, Zenon DEF log_msg, NothingLost, InFlight
  <2> QED
    BY <2>2, <2>3, <2>4, <2>5, <2>6, <2>7, Zenon
       DEF IInv, ControlInv, CounterInv
<1> QED
  BY <1>1, Zenon

(* The steps of logger_flush and logger_destroy.                            *)
LEMMA MainCallStep ==
  IInv /\ MainStep => IInv'
<1> SUFFICES ASSUME IInv, MainStep PROVE IInv'
  OBVIOUS
<1> USE DEF queueVars, fileVars, flagVars, writerVars, callerVars
<1>inv. /\ TypeOK /\ MutexInv /\ FileInv /\ CallInv /\ ThreadInv
        /\ BatchInv /\ CountMatchesQueue /\ DestroyInv /\ NothingLost
  BY DEF IInv, ControlInv, CounterInv
<1>types. CountTypes /\ PcTypes
  BY <1>inv, Types
<1>1. CASE logger_flush_wait
  <2>1. MaxLoops >= 0 /\ op # "none"
    BY <1>1, <1>inv, Zenon DEF logger_flush_wait, CallInv
  <2>2. TypeOK'
    BY <1>1, <1>inv, <2>1, ThreadFacts, BoundsAssumption DEF
       logger_flush_wait, TypeOK
  <2>3. MutexInv' /\ FileInv'
    BY <1>1, <1>inv, <1>types, ThreadFacts, Zenon
       DEF logger_flush_wait, MutexInv,
       FileInv, WriterHolds, FileOpen, PcTypes, CountTypes
  <2>4. CallInv' /\ ThreadInv'
    BY <1>1, <1>inv, <1>types, ThreadFacts DEF logger_flush_wait, CallInv,
       ThreadInv, Logging, PcTypes
  <2>5. BatchInv' /\ DestroyInv'
    BY <1>1, <1>inv, <1>types, <2>1, ThreadFacts DEF logger_flush_wait,
       BatchInv, DestroyInv, CountTypes, PcTypes
  <2>6. CountMatchesQueue'
    BY <1>1, <1>inv, <1>types, Zenon DEF logger_flush_wait, CountMatchesQueue,
       Unaccounted, InBatch, FileOpen, CountTypes
  <2>7. NothingLost'
    BY <1>1, <1>inv, Zenon DEF logger_flush_wait, NothingLost, InFlight
  <2> QED
    BY <2>2, <2>3, <2>4, <2>5, <2>6, <2>7 DEF IInv, ControlInv, CounterInv
<1>2. CASE logger_destroy_shutdown
  <2>1. TypeOK'
    BY <1>2, <1>inv, ThreadFacts, BoundsAssumption DEF
       logger_destroy_shutdown, TypeOK
  <2>2. MutexInv' /\ FileInv'
    BY <1>2, <1>inv, <1>types, ThreadFacts, Zenon DEF logger_destroy_shutdown,
       MutexInv, FileInv, WriterHolds, FileOpen, PcTypes, CountTypes
  <2>3. CallInv' /\ ThreadInv'
    BY <1>2, <1>inv, <1>types, BoundsAssumption, ThreadFacts DEF
       logger_destroy_shutdown, CallInv, ThreadInv, Logging, PcTypes
  <2>4. BatchInv' /\ DestroyInv'
    BY <1>2, <1>inv, <1>types, ThreadFacts, Zenon DEF logger_destroy_shutdown,
       BatchInv, DestroyInv, CountTypes, PcTypes
  <2>5. CountMatchesQueue'
    BY <1>2, <1>inv, <1>types, Zenon
       DEF logger_destroy_shutdown, CountMatchesQueue,
       Unaccounted, InBatch, FileOpen, CountTypes
  <2>6. NothingLost'
    BY <1>2, <1>inv, Zenon DEF logger_destroy_shutdown, NothingLost, InFlight
  <2> QED
    BY <2>1, <2>2, <2>3, <2>4, <2>5, <2>6 DEF IInv, ControlInv, CounterInv
<1>3. CASE logger_destroy_cancel
  <2>1. TypeOK'
    BY <1>3, <1>inv, ThreadFacts DEF logger_destroy_cancel, TypeOK
  <2>2. MutexInv' /\ FileInv'
    BY <1>3, <1>inv, <1>types, ThreadFacts, Zenon DEF logger_destroy_cancel,
       MutexInv, FileInv, WriterHolds, FileOpen, PcTypes, CountTypes
  <2>3. CallInv' /\ ThreadInv'
    BY <1>3, <1>inv, <1>types, ThreadFacts, Zenon DEF logger_destroy_cancel,
       CallInv, ThreadInv, Logging, PcTypes
  <2>4. BatchInv' /\ DestroyInv'
    BY <1>3, <1>inv, <1>types, ThreadFacts, Zenon DEF logger_destroy_cancel,
       BatchInv, DestroyInv, CountTypes, PcTypes
  <2>5. CountMatchesQueue'
    BY <1>3, <1>inv, <1>types, Zenon
       DEF logger_destroy_cancel, CountMatchesQueue,
       Unaccounted, InBatch, FileOpen, CountTypes
  <2>6. NothingLost'
    BY <1>3, <1>inv, Zenon DEF logger_destroy_cancel, NothingLost, InFlight
  <2> QED
    BY <2>1, <2>2, <2>3, <2>4, <2>5, <2>6 DEF IInv, ControlInv, CounterInv
<1>4. CASE logger_destroy_join
  <2>1. outbuf = <<>> /\ logfile \in Seq(Msgs) /\ <<>> \in Seq(Msgs)
    BY <1>4, <1>inv, Zenon DEF logger_destroy_join, FileInv, FileOpen, TypeOK
  <2>2. logfile \o <<>> = logfile
    BY <2>1, ConcatEmptySeq, Zenon
  <2>3. logfile' = logfile /\ accepted' = logfile
    BY <1>4, <2>1, <2>2, Zenon DEF logger_destroy_join
  <2>4. TypeOK'
    BY <1>4, <1>inv, <2>1, <2>3, ThreadFacts, Zenon
       DEF logger_destroy_join, MutexAfterDestroy, TypeOK
  <2>5. MutexInv' /\ FileInv'
    BY <1>4, <1>inv, <1>types, ThreadFacts, Zenon DEF logger_destroy_join,
       MutexAfterDestroy, MutexInv, FileInv, CallInv, WriterHolds, FileOpen,
       PcTypes
  <2>6. CallInv' /\ ThreadInv'
    BY <1>4, <1>inv, <1>types, ThreadFacts, Zenon DEF logger_destroy_join,
       MutexAfterDestroy, CallInv, ThreadInv, Logging, PcTypes
  <2>7. BatchInv' /\ DestroyInv'
    BY <1>4, <1>inv, <1>types, ThreadFacts, Zenon DEF logger_destroy_join,
       MutexAfterDestroy, BatchInv, DestroyInv, CountTypes, PcTypes
  <2>8. CountMatchesQueue'
    BY <1>4, <1>inv, <1>types, EmptyLen DEF logger_destroy_join,
       MutexAfterDestroy, CountMatchesQueue, Unaccounted, InBatch, FileOpen,
       CountTypes
  <2>9. NothingLost'
    BY <1>4, <1>inv, <2>2, <2>3, Zenon
       DEF logger_destroy_join, MutexAfterDestroy,
       NothingLost, InFlight
  <2> QED
    BY <2>4, <2>5, <2>6, <2>7, <2>8, <2>9 DEF IInv, ControlInv, CounterInv
<1> QED
  BY <1>1, <1>2, <1>3, <1>4, Zenon DEF MainStep

(* logger_flush and logger_destroy are called.                              *)
LEMMA CallStep ==
  IInv /\ (logger_flush \/ logger_destroy) => IInv'
<1> SUFFICES ASSUME IInv, (logger_flush \/ logger_destroy) PROVE IInv'
  BY Zenon
<1> USE DEF queueVars, fileVars, flagVars, writerVars, callerVars
<1>inv. /\ TypeOK /\ MutexInv /\ FileInv /\ CallInv /\ ThreadInv
        /\ BatchInv /\ CountMatchesQueue /\ DestroyInv /\ NothingLost
  BY Zenon DEF IInv, ControlInv, CounterInv
<1>types. CountTypes /\ PcTypes
  BY <1>inv, Types, Zenon
<1>1. CASE logger_flush
  <2>1. TypeOK'
    BY <1>1, <1>inv, ThreadFacts, BoundsAssumption DEF logger_flush, TypeOK
  <2>2. MutexInv' /\ FileInv'
    BY <1>1, <1>inv, <1>types, ThreadFacts, Zenon DEF logger_flush, MutexInv,
       FileInv, WriterHolds, FileOpen, PcTypes, CountTypes
  <2>3. CallInv' /\ ThreadInv'
    BY <1>1, <1>inv, <1>types, BoundsAssumption, ThreadFacts DEF
       logger_flush, CallInv, ThreadInv, Logging, PcTypes
  <2>4. BatchInv' /\ DestroyInv'
    BY <1>1, <1>inv, <1>types, ThreadFacts, Zenon DEF logger_flush, BatchInv,
       DestroyInv, CountTypes, PcTypes
  <2>5. CountMatchesQueue'
    BY <1>1, <1>inv, <1>types, Zenon DEF logger_flush, CountMatchesQueue,
       Unaccounted, InBatch, FileOpen, CountTypes
  <2>6. NothingLost'
    BY <1>1, <1>inv, Zenon DEF logger_flush, NothingLost, InFlight
  <2> QED
    BY <2>1, <2>2, <2>3, <2>4, <2>5, <2>6, Zenon
       DEF IInv, ControlInv, CounterInv
<1>2. CASE logger_destroy
  <2>1. sent' \in [Threads -> 0..MaxMsgs]
    BY <1>2, <1>inv, ThreadFacts, BoundsAssumption DEF logger_destroy, TypeOK
  <2>2. TypeOK'
    BY <1>2, <1>inv, <2>1, ThreadFacts DEF logger_destroy, TypeOK
  <2>3. MutexInv' /\ FileInv'
    BY <1>2, <1>inv, <1>types, ThreadFacts, Zenon DEF logger_destroy, MutexInv,
       FileInv, WriterHolds, FileOpen, PcTypes, CountTypes
  <2>4. CallInv' /\ ThreadInv'
    <3>1. CallInv'
      BY <1>2, <1>inv, <1>types, ThreadFacts
         DEF logger_destroy, CallInv, Logging, PcTypes
    <3>2. ThreadInv'
      BY <1>2, <1>inv, <1>types, ThreadFacts, Zenon
         DEF logger_destroy, ThreadInv, PcTypes
    <3> QED
      BY <3>1, <3>2, Zenon
  <2>5. BatchInv' /\ DestroyInv'
    BY <1>2, <1>inv, <1>types, ThreadFacts, Zenon DEF logger_destroy, BatchInv,
       DestroyInv, CountTypes, PcTypes
  <2>6. CountMatchesQueue'
    BY <1>2, <1>inv, <1>types, Zenon DEF logger_destroy, CountMatchesQueue,
       Unaccounted, InBatch, FileOpen, CountTypes
  <2>7. NothingLost'
    BY <1>2, <1>inv, Zenon DEF logger_destroy, NothingLost, InFlight
  <2> QED
    BY <2>2, <2>3, <2>4, <2>5, <2>6, <2>7 DEF IInv, ControlInv, CounterInv
<1> QED
  BY <1>1, <1>2, Zenon

(* logger_init, with its two failures.                                      *)
LEMMA InitStep ==
  ASSUME NEW Loglevel \in LogLevels
  PROVE  IInv /\ logger_init(Loglevel) => IInv'
<1> SUFFICES ASSUME IInv, logger_init(Loglevel) PROVE IInv'
  BY Zenon
<1> USE DEF queueVars, fileVars, flagVars, writerVars, callerVars
<1>inv. /\ TypeOK /\ MutexInv /\ FileInv /\ CallInv /\ ThreadInv
        /\ BatchInv /\ CountMatchesQueue /\ DestroyInv /\ NothingLost
  BY Zenon DEF IInv, ControlInv, CounterInv
<1>types. CountTypes /\ PcTypes
  BY <1>inv, Types, Zenon
<1>1. CASE logger_init(Loglevel)
  <2>1. sCurrLogSettings' \in LogSettings
    BY <1>1, <1>inv, Zenon DEF logger_init, TypeOK, LogSettings
  <2>2. wpc = "none" /\ Queue = <<>>
    BY <1>1, <1>inv, Zenon DEF logger_init, ThreadInv
  <2>3. <<>> \in Seq(Msgs) /\ 0 \in Nat
    BY SMT
  <2>4. iDataInQueueCount = 0
    BY <1>inv, <2>2, EmptyLen DEF CountMatchesQueue, Unaccounted, InBatch,
       FileOpen
  <2>5. TypeOK'
    <3>1. /\ Queue' \in Seq(Msgs) /\ iDataInQueueCount' \in Nat
          /\ wpc' = wpc \/ wpc' = "poll"
      BY <1>1, <1>inv, <2>3, Zenon DEF logger_init, TypeOK
    <3>2. /\ iIsInitDone' \in BOOLEAN /\ iShuttingDown' \in BOOLEAN
          /\ iDoForceFlush' \in BOOLEAN /\ cancel' \in BOOLEAN
      BY <1>1, <1>inv, ZenonT(30), Zenon DEF logger_init, TypeOK
    <3>3. /\ UNCHANGED <<pLogMutex, accepted, fileVars, iDataToWrite>>
          /\ UNCHANGED <<iDataWritten, LogMessage, callerVars, alive>>
      BY <1>1, Zenon DEF logger_init
    <3> QED
      BY <1>inv, <2>1, <3>1, <3>2, <3>3, ZenonT(30), Zenon DEF TypeOK
  <2>6. MutexInv' /\ FileInv'
    BY <1>1, <1>inv, <1>types, <2>2, ThreadFacts DEF logger_init, MutexInv,
       FileInv, WriterHolds, FileOpen, PcTypes, CountTypes
  <2>7. CallInv' /\ ThreadInv'
    BY <1>1, <1>inv, <1>types, <2>2, ThreadFacts DEF logger_init, CallInv,
       ThreadInv, Logging, PcTypes
  <2>8. BatchInv' /\ DestroyInv'
    BY <1>1, <1>inv, <1>types, <2>2, ThreadFacts, Zenon
       DEF logger_init, BatchInv,
       DestroyInv, CountTypes, PcTypes
  <2>9. CountMatchesQueue'
    BY <1>1, <1>inv, <1>types, <2>2, <2>4, EmptyLen, Zenon DEF logger_init,
       CountMatchesQueue, Unaccounted, InBatch, FileOpen, CountTypes
  <2>10. NothingLost'
    BY <1>1, <1>inv, <2>2, Zenon DEF logger_init, NothingLost, InFlight
  <2> QED
    BY <2>5, <2>6, <2>7, <2>8, <2>9, <2>10, Zenon
       DEF IInv, ControlInv, CounterInv
<1> QED
  BY <1>1, Zenon

(* logger_set.                                                              *)
LEMMA SetStep ==
  ASSUME NEW sNewSettings \in LogSettings
  PROVE  IInv /\ logger_set(sNewSettings) => IInv'
<1> SUFFICES ASSUME IInv, logger_set(sNewSettings) PROVE IInv'
  OBVIOUS
<1> USE DEF queueVars, fileVars, flagVars, writerVars, callerVars
<1>inv. /\ TypeOK /\ MutexInv /\ FileInv /\ CallInv /\ ThreadInv
        /\ BatchInv /\ CountMatchesQueue /\ DestroyInv /\ NothingLost
  BY DEF IInv, ControlInv, CounterInv
<1>types. CountTypes /\ PcTypes
  BY <1>inv, Types
<1>1. CASE logger_set(sNewSettings)
  <2>1. TypeOK'
    BY <1>1, <1>inv DEF logger_set, TypeOK
  <2>2. MutexInv' /\ FileInv'
    BY <1>1, <1>inv, <1>types, ThreadFacts DEF logger_set, MutexInv, FileInv,
       WriterHolds, FileOpen, PcTypes, CountTypes
  <2>3. CallInv' /\ ThreadInv'
    BY <1>1, <1>inv, <1>types, ThreadFacts DEF logger_set, CallInv,
       ThreadInv, Logging, PcTypes
  <2>4. BatchInv' /\ DestroyInv'
    BY <1>1, <1>inv, <1>types, ThreadFacts, Zenon DEF logger_set, BatchInv,
       DestroyInv, CountTypes, PcTypes
  <2>5. CountMatchesQueue'
    BY <1>1, <1>inv, <1>types, Zenon
       DEF logger_set, CountMatchesQueue, Unaccounted,
       InBatch, FileOpen, CountTypes
  <2>6. NothingLost'
    BY <1>1, <1>inv, Zenon DEF logger_set, NothingLost, InFlight
  <2> QED
    BY <2>1, <2>2, <2>3, <2>4, <2>5, <2>6 DEF IInv, ControlInv, CounterInv
<1> QED
  BY <1>1, Zenon

-----------------------------------------------------------------------------

(* The invariant holds initially.                                           *)
LEMMA InitInv == Init => IInv
<1> SUFFICES ASSUME Init PROVE IInv
  BY Zenon
<1> USE ThreadsAssumption, BoundsAssumption
    DEF Init, InBatch, FileOpen, WriterHolds
<1>1. TypeOK
  <2>1. MaxLoops \in -1..FlushLoops /\ sent \in [Threads -> 0..MaxMsgs]
    OBVIOUS
  <2>2. <<>> \in Seq(Msgs) /\ 0 \in Nat
    OBVIOUS
  <2> QED
    BY <2>1, <2>2, Zenon DEF TypeOK
<1>2. ControlInv
  BY Zenon
     DEF ControlInv, MutexInv, FileInv, CallInv, ThreadInv, Logging, Threads
<1>3. CounterInv
  BY DEF CounterInv, BatchInv, CountMatchesQueue, Unaccounted, DestroyInv,
     Threads
<1>4. NothingLost
  BY DEF NothingLost, InFlight
<1> QED
  BY <1>1, <1>2, <1>3, <1>4, Zenon DEF IInv

(* A step that changes nothing preserves it.                                *)
LEMMA StutterInv == IInv /\ UNCHANGED vars => IInv'
<1> SUFFICES ASSUME IInv, UNCHANGED vars PROVE IInv'
  BY Zenon
<1> USE DEF IInv, vars, queueVars, fileVars, flagVars, writerVars, callerVars
<1>1. TypeOK'
  BY DEF TypeOK
<1>2. ControlInv'
  BY Zenon DEF ControlInv, MutexInv, FileInv, CallInv, ThreadInv
<1>3. CounterInv'
  BY Zenon DEF CounterInv, BatchInv, CountMatchesQueue, Unaccounted, DestroyInv
<1>4. NothingLost'
  BY Zenon DEF NothingLost, InFlight
<1> QED
  BY <1>1, <1>2, <1>3, <1>4, Zenon

(* Every step of the logger preserves it.                                   *)
LEMMA NextInv == IInv /\ [Next]_vars => IInv'
<1> SUFFICES ASSUME IInv, [Next]_vars PROVE IInv'
  BY Zenon
<1>1. CASE UNCHANGED vars
  BY <1>1, StutterInv, Zenon
<1>2. CASE logger_thread
  BY <1>2, WriterStep, Zenon
<1>3. CASE logger_thread_exit
  BY <1>3, ExitStep
<1>4. ASSUME NEW t \in Threads, log_add_to_queue(t)
      PROVE  IInv'
  BY <1>4, LogStep, Zenon
<1>5. ASSUME NEW t \in Threads, NEW eType \in LogLevels, log_msg(t, eType)
      PROVE  IInv'
  BY <1>5, LogCallStep, Zenon
<1>6. CASE MainStep
  BY <1>6, MainCallStep
<1>7. CASE logger_flush \/ logger_destroy
  BY <1>7, CallStep, Zenon
<1>8. ASSUME NEW Loglevel \in LogLevels, logger_init(Loglevel)
      PROVE  IInv'
  BY <1>8, InitStep, Zenon
<1>9. ASSUME NEW sNewSettings \in LogSettings, logger_set(sNewSettings)
      PROVE  IInv'
  BY <1>9, SetStep
<1> QED
  BY <1>1, <1>2, <1>3, <1>4, <1>5, <1>6, <1>7, <1>8, <1>9, Zenon
     DEF Next, Exited
=============================================================================
