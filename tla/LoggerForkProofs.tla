-------------------------- MODULE LoggerForkProofs --------------------------
(***************************************************************************)
(* A fork after a flush that saw the counter at zero is clean, whatever    *)
(* the program logs before it and however the writing thread is scheduled. *)
(* A process that may still fork is the server (role "main"), for which    *)
(* the inductive invariant of the logger holds, or a daemon, which has no  *)
(* writing thread.                                                         *)
(***************************************************************************)
EXTENDS LoggerInvariant, LoggerFork

-----------------------------------------------------------------------------
(***************************************************************************)
(* The inductive invariant.                                                *)
(***************************************************************************)

(* The calls that never come after a call.                                  *)
Never(c) ==
  CASE c = "daemonize" -> {"init", "daemonize"}
    [] c \in {"flush", "fork"} -> {"init", "daemonize"}
    [] c = "destroy" -> {"fork", "daemonize"}
    [] OTHER -> {}

Has(calls, c) == \E k \in 1..Len(calls) : calls[k] = c

Ordered(calls) ==
  \A j, k \in 1..Len(calls) : j < k => calls[k] \notin Never(calls[j])

(* Between a flush and the fork that follows it there is no other call.     *)
FlushedForks(calls) ==
  \A k \in 2..Len(calls) : calls[k] = "fork" => calls[k - 1] = "flush"

CallNames == {"init", "log_error", "log_info", "log_debug", "daemonize",
              "flush", "fork", "ev_run", "destroy"}

TodoInv ==
  /\ todo \in Seq(CallNames)
  /\ role \in {"main", "daemon", "worker"}
  /\ role # "worker" => Ordered(todo) /\ FlushedForks(todo)
  /\ role = "daemon" => ~Has(todo, "init") /\ ~Has(todo, "daemonize")
  /\ role = "worker" => ~Has(todo, "fork") /\ ~Has(todo, "daemonize")

(* A batch that is being closed wrote something.                            *)
WrittenInv ==
  wpc \in {"close", "closed", "relock", "update"} => iDataWritten >= 1

MainInv ==
  /\ IInv /\ WrittenInv
  /\ owed = {} /\ ~dangling /\ ~flushed
  /\ Has(todo, "daemonize") => MaxLoops = -1 /\ pc[Main] # "flush"
  /\ Has(todo, "daemonize") \/ Has(todo, "fork") => op # "destroy"

DaemonInv ==
  /\ wpc = "none" /\ outbuf = <<>>
  /\ iDataInQueueCount \in Nat /\ Len(Queue) <= iDataInQueueCount
  /\ Queue \in Seq(Msgs)
  /\ dangling => iDataInQueueCount >= 1
  /\ pc \in [Threads -> {"idle", "room", "lock", "insert", "flush"}]
  /\ op # "destroy"
  /\ sent \in [Threads -> 0..MaxMsgs]
  /\ pc[Main] \in Logging => sent[Main] >= 1
  /\ MaxLoops \in Int /\ (pc[Main] = "flush" => MaxLoops >= 0)

(* The flush before a fork that is next saw zero, or is not done.           *)
AtFork ==
  todo # <<>> /\ Head(todo) = "fork" =>
    /\ pc[Main] \in {"idle", "flush"}
    /\ pc[Main] = "idle" /\ MaxLoops >= 0 => iDataInQueueCount = 0

ForkInv ==
  /\ TodoInv
  /\ role = "main" => MainInv
  /\ role = "daemon" => ~flushed /\ (Has(todo, "fork") => DaemonInv)
  /\ role # "worker" => AtFork
  /\ FlushedForkIsClean

-----------------------------------------------------------------------------

(* A program text of which every fork comes right after a flush.            *)
Text(s, A) ==
  /\ s \in Seq(CallNames) /\ Ordered(s) /\ FlushedForks(s)
  /\ \A k \in 1..Len(s) : s[k] \in A /\ (k = 1 => s[k] # "fork")

MayFollow(B, A) == \A c \in A, d \in B : d \notin Never(c)

(* A text may be followed by another one.                                   *)
LEMMA TextConcat ==
  ASSUME NEW A, NEW B, NEW s, NEW q, Text(s, A), Text(q, B), MayFollow(B, A)
  PROVE  /\ Text(s \o q, A \union B)
         /\ s # <<>> => s \o q # <<>> /\ Head(s \o q) = Head(s)
<1>0. s \in Seq(CallNames) /\ q \in Seq(CallNames)
  BY Zenon DEF Text
<1>1. /\ s \o q \in Seq(CallNames) /\ Len(s) \in Nat /\ Len(q) \in Nat
      /\ Len(s \o q) = Len(s) + Len(q)
      /\ \A k \in 1..(Len(s) + Len(q)) :
           (s \o q)[k] = IF k <= Len(s) THEN s[k] ELSE q[k - Len(s)]
  BY <1>0, ConcatProperties, LenProperties, SMTT(30)
<1>2. ASSUME NEW j \in 1..Len(s \o q), NEW k \in 1..Len(s \o q), j < k
      PROVE  (s \o q)[k] \notin Never((s \o q)[j])
  <2>1. CASE k <= Len(s)
    BY <1>1, <1>2, <2>1 DEF Text, Ordered
  <2>2. CASE j > Len(s)
    <3>1. j - Len(s) \in 1..Len(q) /\ k - Len(s) \in 1..Len(q) /\ j - Len(s) < k - Len(s)
      BY <1>1, <1>2, <2>2
    <3>2. (s \o q)[j] = q[j - Len(s)] /\ (s \o q)[k] = q[k - Len(s)]
      BY <1>1, <1>2, <2>2
    <3>3. q[k - Len(s)] \notin Never(q[j - Len(s)])
      BY <3>1, Zenon DEF Text, Ordered
    <3> QED
      BY <3>2, <3>3, Zenon
  <2>3. CASE j <= Len(s) /\ k > Len(s)
    <3>1. j \in 1..Len(s) /\ k - Len(s) \in 1..Len(q)
      BY <1>1, <2>3
    <3>2. s[j] \in A /\ q[k - Len(s)] \in B
      BY <3>1, Zenon DEF Text
    <3> QED
      BY <1>1, <1>2, <2>3, <3>2, SMTT(30) DEF MayFollow
  <2> QED
    BY <1>1, <2>1, <2>2, <2>3, SMTT(30)
<1>3. ASSUME NEW k \in 2..Len(s \o q), (s \o q)[k] = "fork"
      PROVE  (s \o q)[k - 1] = "flush"
  <2>1. CASE k <= Len(s)
    BY <1>1, <1>3, <2>1 DEF Text, FlushedForks
  <2>2. CASE k = Len(s) + 1
    <3>1. 1 \in 1..Len(q) /\ q[1] = "fork"
      BY <1>1, <1>3, <2>2
    <3> QED
      BY <3>1, Zenon DEF Text
  <2>3. CASE k > Len(s) + 1
    <3>1. k - Len(s) \in 2..Len(q) /\ q[k - Len(s)] = "fork"
      BY <1>1, <1>3, <2>3
    <3> QED
      BY <1>1, <2>3, <3>1 DEF Text, FlushedForks
  <2> QED
    BY <1>1, <2>1, <2>2, <2>3
<1>4. ASSUME NEW k \in 1..Len(s \o q)
      PROVE  (s \o q)[k] \in A \union B /\ (k = 1 => (s \o q)[k] # "fork")
  <2>1. CASE k <= Len(s)
    <3>1. k \in 1..Len(s) /\ (s \o q)[k] = s[k]
      BY <1>1, <2>1
    <3> QED
      BY <3>1, Zenon DEF Text
  <2>2. CASE ~(k <= Len(s))
    <3>1. /\ k - Len(s) \in 1..Len(q) /\ (s \o q)[k] = q[k - Len(s)]
          /\ k = 1 => k - Len(s) = 1
      BY <1>1, <2>2
    <3> QED
      BY <3>1, Zenon DEF Text
  <2> QED
    BY <2>1, <2>2, Zenon
<1>5. Text(s \o q, A \union B)
  BY <1>1, <1>2, <1>3, <1>4, SMTT(30) DEF Text, Ordered, FlushedForks
<1>6. s # <<>> => s \o q # <<>> /\ Head(s \o q) = Head(s)
  <2> SUFFICES ASSUME s # <<>> PROVE s \o q # <<>> /\ Head(s \o q) = Head(s)
    BY Zenon
  <2>1. Len(s) >= 1
    BY <1>0, <1>1, EmptySeq
  <2> QED
    BY <1>0, <1>1, <2>1, EmptyLen
<1> QED
  BY <1>5, <1>6, Zenon

(* The loop of worker_init flushes before every fork.                       *)
LEMMA LoopText ==
  Text(EachWorker(worker_init_calls), {"log_debug", "flush", "fork", "log_info"})
<1> DEFINE loop == EachWorker(worker_init_calls)
           n == 5 * iWantedWorkers
<1>1. n \in Nat /\ loop = [k \in 1..n |-> worker_init_calls[((k - 1) % 5) + 1]]
  <2>1. Len(worker_init_calls) = 5
    BY Zenon DEF worker_init_calls
  <2>2. iWantedWorkers * 5 = n /\ n \in Nat
    BY ForkAssumption
  <2> QED
    BY <2>1, <2>2, Zenon DEF EachWorker
<1> HIDE DEF n, loop
<1>2. ASSUME NEW k \in 1..n
      PROVE  loop[k] = CASE (k - 1) % 5 = 0 -> "log_debug"
                         [] (k - 1) % 5 = 1 -> "flush"
                         [] (k - 1) % 5 = 2 -> "fork"
                         [] (k - 1) % 5 = 3 -> "log_debug"
                         [] (k - 1) % 5 = 4 -> "log_info"
  <2>1. (k - 1) % 5 \in {0, 1, 2, 3, 4}
    BY <1>1
  <2> QED
    BY <1>1, <2>1 DEF worker_init_calls
<1>3. \A k \in 1..n : (k - 1) % 5 \in {0, 1, 2, 3, 4}
  BY <1>1
<1>4. \A k \in 1..n : loop[k] \in {"log_debug", "flush", "fork", "log_info"}
  BY <1>2, <1>3, Zenon
<1>5. loop \in Seq(CallNames) /\ Len(loop) = n
  BY <1>1, <1>4 DEF CallNames
<1>6. Ordered(loop)
  BY <1>4, <1>5, Zenon DEF Ordered, Never
<1>7. FlushedForks(loop)
  <2> SUFFICES ASSUME NEW k \in 2..n, loop[k] = "fork" PROVE loop[k - 1] = "flush"
    BY <1>5, Zenon DEF FlushedForks
  <2>1. k \in 1..n /\ k - 1 \in 1..n
    BY <1>1
  <2>2. (k - 1) % 5 = 2
    BY <1>2, <1>3, <2>1, Zenon
  <2>3. ((k - 1) - 1) % 5 = 1
    BY <2>1, <2>2, <1>1
  <2> QED
    BY <1>2, <2>1, <2>3
<1>8. \A k \in 1..n : k = 1 => loop[k] # "fork"
  <2>1. 1 \in 1..n => loop[1] = "log_debug"
    BY <1>2, SMTT(30)
  <2> QED
    BY <2>1, Zenon
<1> QED
  BY <1>4, <1>5, <1>6, <1>7, <1>8, Zenon DEF loop, Text

(* So does main, which may become a daemon before and exits after.          *)
LEMMA MainText ==
  ASSUME NEW bDeamonize \in BOOLEAN
  PROVE  /\ Text(main_calls(bDeamonize), CallNames)
         /\ main_calls(bDeamonize) # <<>>
         /\ Head(main_calls(bDeamonize)) = "init"
<1> DEFINE start == <<"init", "log_error", "log_info">>
           daemon == IF bDeamonize THEN <<"daemonize">> ELSE <<>>
           loop == EachWorker(worker_init_calls)
           serve == <<"log_info", "ev_run">>
           exit == <<"log_info", "destroy">>
           S == {"init", "log_error", "log_info"}
           D == {"daemonize"}
           L == {"log_debug", "flush", "fork", "log_info"}
           R == {"log_info", "ev_run"}
           E == {"log_info", "destroy"}
<1>1. main_calls(bDeamonize) = (((start \o daemon) \o loop) \o serve) \o exit
  BY Zenon DEF main_calls, do_exit_calls
<1>2. Text(start, S) /\ start # <<>> /\ Head(start) = "init"
  BY DEF Text, CallNames, Ordered, FlushedForks, Never
<1>3. Text(daemon, D)
  <2>1. CASE bDeamonize
    BY <2>1 DEF Text, CallNames, Ordered, FlushedForks
  <2>2. CASE ~bDeamonize
    BY <2>2 DEF Text, CallNames, Ordered, FlushedForks
  <2> QED
    BY <2>1, <2>2, Zenon
<1>4. Text(loop, L)
  BY LoopText, Zenon
<1>5. Text(serve, R)
  BY DEF Text, CallNames, Ordered, FlushedForks, Never
<1>6. Text(exit, E)
  BY DEF Text, CallNames, Ordered, FlushedForks, Never
<1>n. /\ MayFollow(D, S) /\ MayFollow(L, S \union D)
      /\ MayFollow(R, (S \union D) \union L)
      /\ MayFollow(E, ((S \union D) \union L) \union R)
  BY Zenon DEF MayFollow, Never
<1>11. (((S \union D) \union L) \union R) \union E \subseteq CallNames
  BY Zenon DEF CallNames
<1> HIDE DEF start, daemon, loop, serve, exit, S, D, L, R, E
<1>7. PICK a : /\ a = start \o daemon /\ Text(a, S \union D)
               /\ a # <<>> /\ Head(a) = "init"
  <2>1. Text(start \o daemon, S \union D)
    BY <1>2, <1>3, <1>n, TextConcat, Zenon
  <2>2. start \o daemon # <<>> /\ Head(start \o daemon) = Head(start)
    BY <1>2, <1>3, <1>n, TextConcat
  <2> QED
    BY <1>2, <2>1, <2>2, Zenon
<1>8. PICK b : /\ b = a \o loop /\ Text(b, (S \union D) \union L)
               /\ b # <<>> /\ Head(b) = "init"
  <2>1. Text(a \o loop, (S \union D) \union L)
    BY <1>7, <1>4, <1>n, TextConcat, Zenon
  <2>2. a \o loop # <<>> /\ Head(a \o loop) = Head(a)
    BY <1>7, <1>4, <1>n, TextConcat
  <2> QED
    BY <1>7, <2>1, <2>2, Zenon
<1>9. PICK c : /\ c = b \o serve /\ Text(c, ((S \union D) \union L) \union R)
               /\ c # <<>> /\ Head(c) = "init"
  <2>1. Text(b \o serve, ((S \union D) \union L) \union R)
    BY <1>8, <1>5, <1>n, TextConcat, Zenon
  <2>2. b \o serve # <<>> /\ Head(b \o serve) = Head(b)
    BY <1>8, <1>5, <1>n, TextConcat
  <2> QED
    BY <1>8, <2>1, <2>2, Zenon
<1>10. PICK d : /\ d = c \o exit /\ Text(d, (((S \union D) \union L) \union R) \union E)
               /\ d # <<>> /\ Head(d) = "init"
  <2>1. Text(c \o exit, (((S \union D) \union L) \union R) \union E)
    BY <1>9, <1>6, <1>n, TextConcat, Zenon
  <2>2. c \o exit # <<>> /\ Head(c \o exit) = Head(c)
    BY <1>9, <1>6, <1>n, TextConcat
  <2> QED
    BY <1>9, <2>1, <2>2, Zenon
<1>12. Text(d, CallNames)
  BY <1>10, <1>11, Zenon DEF Text
<1> QED
  BY <1>1, <1>7, <1>8, <1>9, <1>10, <1>12, SMTT(30)

(* What is left of a text after its first call.                             *)
LEMMA TailText ==
  ASSUME NEW s \in Seq(CallNames), s # <<>>
  PROVE  /\ Tail(s) \in Seq(CallNames) /\ Head(s) \in CallNames
         /\ Has(s, Head(s))
         /\ \A c \in CallNames : Has(Tail(s), c) => Has(s, c)
         /\ Ordered(s) => /\ Ordered(Tail(s))
                          /\ \A c \in Never(Head(s)) : ~Has(Tail(s), c)
         /\ FlushedForks(s) => /\ FlushedForks(Tail(s))
                               /\ Tail(s) # <<>> /\ Head(Tail(s)) = "fork"
                                    => Head(s) = "flush"
<1>1. /\ Tail(s) \in Seq(CallNames) /\ Head(s) \in CallNames /\ Head(s) = s[1]
      /\ Len(s) \in Nat /\ Len(s) >= 1 /\ Len(Tail(s)) = Len(s) - 1
      /\ \A k \in 1..Len(Tail(s)) : Tail(s)[k] = s[k + 1]
  BY HeadTailProperties, LenProperties, EmptySeq
<1>2. \A k \in 1..Len(Tail(s)) : k + 1 \in 1..Len(s) /\ 1 < k + 1
  BY <1>1
<1>3. Has(s, Head(s)) /\ \A c \in CallNames : Has(Tail(s), c) => Has(s, c)
  BY <1>1, <1>2 DEF Has
<1>4. ASSUME Ordered(s)
      PROVE  Ordered(Tail(s)) /\ \A c \in Never(Head(s)) : ~Has(Tail(s), c)
  <2>1. Ordered(Tail(s))
    BY <1>1, <1>2, <1>4 DEF Ordered
  <2>2. \A k \in 1..Len(Tail(s)) : Tail(s)[k] \notin Never(s[1])
    BY <1>1, <1>2, <1>4 DEF Ordered
  <2> QED
    BY <1>1, <2>1, <2>2, Zenon DEF Has
<1>5. ASSUME FlushedForks(s)
      PROVE  /\ FlushedForks(Tail(s))
             /\ Tail(s) # <<>> /\ Head(Tail(s)) = "fork" => Head(s) = "flush"
  <2>1. FlushedForks(Tail(s))
    <3> SUFFICES ASSUME NEW k \in 2..Len(Tail(s)), Tail(s)[k] = "fork"
                 PROVE  Tail(s)[k - 1] = "flush"
      BY Zenon DEF FlushedForks
    <3>1. k + 1 \in 2..Len(s) /\ s[k + 1] = "fork" /\ (k + 1) - 1 = k
      BY <1>1
    <3>2. s[k] = "flush"
      BY <1>5, <3>1, Zenon DEF FlushedForks
    <3> QED
      BY <1>1, <3>2
  <2>2. ASSUME Tail(s) # <<>>, Head(Tail(s)) = "fork"
        PROVE  Head(s) = "flush"
    <3>1. Len(Tail(s)) >= 1 /\ Tail(s)[1] = "fork"
      BY <1>1, <2>2, HeadTailProperties, LenProperties, EmptySeq
    <3>2. 2 \in 2..Len(s) /\ s[2] = "fork"
      BY <1>1, <3>1
    <3>3. s[2 - 1] = "flush"
      BY <1>5, <3>2, Zenon DEF FlushedForks
    <3> QED
      BY <1>1, <3>3
  <2> QED
    BY <2>1, <2>2, Zenon
<1> QED
  BY <1>1, <1>3, <1>4, <1>5, Zenon

(* The calls made on the way out.                                           *)
ExitCalls == {do_exit_with_errno_calls, <<"log_error">> \o do_exit_with_errno_calls}

(* They are texts without a fork.                                           *)
LEMMA ExitText ==
  \A s \in ExitCalls :
    /\ s \in Seq(CallNames) /\ Ordered(s) /\ FlushedForks(s)
    /\ \A c \in {"init", "daemonize", "fork"} : ~Has(s, c)
    /\ s # <<>> /\ Head(s) # "fork"
<1> DEFINE a == <<"log_error">>
           b == <<"log_info", "destroy">>
           X == {"log_error", "log_info", "destroy"}
<1>1. do_exit_with_errno_calls = a \o b /\ ExitCalls = {a \o b, a \o (a \o b)}
  BY Zenon DEF ExitCalls, do_exit_with_errno_calls, do_exit_calls
<1>2. Text(a, {"log_error"}) /\ a # <<>> /\ Head(a) = "log_error"
  BY DEF Text, CallNames, Ordered, FlushedForks
<1>3. Text(b, {"log_info", "destroy"})
  BY DEF Text, CallNames, Ordered, FlushedForks, Never
<1>4. /\ MayFollow({"log_info", "destroy"}, {"log_error"}) /\ MayFollow(X, {"log_error"})
      /\ {"log_error"} \union {"log_info", "destroy"} = X
      /\ {"log_error"} \union X = X
  BY Zenon DEF MayFollow, Never
<1> HIDE DEF a, b, X
<1>5. Text(a \o b, X)
  BY <1>2, <1>3, <1>4, TextConcat, Zenon
<1>6. a \o b # <<>> /\ Head(a \o b) = "log_error"
  BY <1>2, <1>3, <1>4, TextConcat
<1>7. PICK e : e = a \o b /\ Text(e, X) /\ e # <<>> /\ Head(e) = "log_error"
  BY <1>5, <1>6, Zenon
<1>8. Text(a \o e, X)
  BY <1>2, <1>4, <1>7, TextConcat, Zenon
<1>9. a \o e # <<>> /\ Head(a \o e) = "log_error"
  BY <1>2, <1>4, <1>7, TextConcat
<1>10. ASSUME NEW s, Text(s, X), NEW c \in {"init", "daemonize", "fork"}
       PROVE  ~Has(s, c)
  BY <1>10, Zenon DEF Text, Has, X
<1> QED
  BY <1>1, <1>7, <1>8, <1>9, <1>10, Zenon DEF Text

(* A worker does not fork.                                                  *)
LEMMA WorkerText ==
  /\ workerp_entry_calls \in Seq(CallNames)
  /\ ~Has(workerp_entry_calls, "fork") /\ ~Has(workerp_entry_calls, "daemonize")
<1> DEFINE a == <<"log_debug", "destroy", "init", "log_info", "ev_run", "log_info">>
           b == <<"log_info", "destroy">>
<1>1. workerp_entry_calls = a \o b
  BY Zenon DEF workerp_entry_calls, do_exit_calls
<1>2. /\ a \in Seq(CallNames) /\ b \in Seq(CallNames)
      /\ \A k \in 1..Len(a) : a[k] \notin {"fork", "daemonize"}
      /\ \A k \in 1..Len(b) : b[k] \notin {"fork", "daemonize"}
  BY DEF CallNames
<1> HIDE DEF a, b
<1>3. \A k \in 1..Len(a \o b) : (a \o b)[k] \notin {"fork", "daemonize"}
  BY <1>2, ConcatProperties, LenProperties
<1>4. a \o b \in Seq(CallNames)
  BY <1>2, ConcatProperties, Zenon
<1> QED
  BY <1>1, <1>3, <1>4, Zenon DEF Has

(* What a call that returns, or an exit, does to the text that is left.     *)
LEMMA TodoKept ==
  ASSUME TodoInv, UNCHANGED role,
         \/ UNCHANGED todo
         \/ todo # <<>> /\ todo' = Tail(todo)
         \/ todo' \in ExitCalls
  PROVE  /\ TodoInv'
         /\ \A c \in {"init", "daemonize", "fork"} : Has(todo', c) => Has(todo, c)
<1>1. CASE UNCHANGED todo
  BY <1>1, Zenon DEF TodoInv
<1>2. CASE todo # <<>> /\ todo' = Tail(todo)
  BY <1>2, TailText, Zenon DEF TodoInv, CallNames
<1>3. CASE todo' \in ExitCalls
  BY <1>3, ExitText, SMTT(30) DEF TodoInv
<1> QED
  BY <1>1, <1>2, <1>3, Zenon

-----------------------------------------------------------------------------
(***************************************************************************)
(* ForkInv is inductive.                                                    *)
(***************************************************************************)

(* A step of the logger as the program takes it.                            *)
LoggerMove ==
  \/ UNCHANGED vars
  \/ logger_thread
  \/ logger_thread_exit
  \/ log_add_to_queue(Main)
  \/ MainStep
  \/ logger_flush
  \/ logger_destroy
  \/ \E eType \in eERROR..eDEBUG : log_msg(Main, eType)
  \/ \E Loglevel \in LogLevels : logger_init(Loglevel)

(* It preserves the invariant of the logger, and a batch that is closed has *)
(* been written to.                                                         *)
LEMMA MoveInv == IInv /\ WrittenInv /\ LoggerMove => IInv' /\ WrittenInv'
<1> SUFFICES ASSUME IInv, WrittenInv, LoggerMove PROVE IInv' /\ WrittenInv'
  BY Zenon
<1>0. Main \in Threads
  BY Zenon DEF Threads
<1> USE DEF writerVars, vars
<1>1. CASE UNCHANGED vars
  BY <1>1, StutterInv, Zenon DEF WrittenInv
<1>2. CASE logger_thread
  <2>1. iDataWritten \in Nat
    BY Zenon DEF IInv, TypeOK
  <2>2. WrittenInv'
    <3>1. CASE \/ logger_thread_cancelled \/ logger_thread_poll
               \/ logger_thread_trylock \/ logger_thread_check
      BY <3>1, Zenon
         DEF WrittenInv, logger_thread_cancelled, logger_thread_poll,
         logger_thread_trylock, logger_thread_check
    <3>2. CASE logger_thread_open \/ logger_thread_first \/ logger_thread_lock
      BY <3>2, Zenon
         DEF WrittenInv, logger_thread_open, logger_thread_first,
         logger_thread_lock
    <3>3. CASE logger_thread_remove \/ logger_thread_write
      BY <2>1, <3>3 DEF WrittenInv, logger_thread_remove, logger_thread_write
    <3>4. CASE \/ logger_thread_close \/ logger_thread_closed
               \/ logger_thread_relock \/ logger_thread_update
      BY <3>4, Zenon
         DEF WrittenInv, logger_thread_close, logger_thread_closed,
         logger_thread_relock, logger_thread_update
    <3> QED
      BY <1>2, <3>1, <3>2, <3>3, <3>4, Zenon DEF logger_thread
  <2> QED
    BY <1>2, <2>2, WriterStep, Zenon
<1>3. CASE logger_thread_exit
  BY <1>3, ExitStep, SMTT(30) DEF WrittenInv, logger_thread_exit
<1>4. CASE log_add_to_queue(Main)
  BY <1>0, <1>4, LogStep, ZenonT(30), Zenon
     DEF WrittenInv, log_add_to_queue, log_add_to_queue_room,
       log_add_to_queue_lock, log_add_to_queue_insert
<1>5. CASE MainStep
  BY <1>5, MainCallStep, ZenonT(30), Zenon
     DEF WrittenInv, MainStep, logger_flush_wait, logger_destroy_shutdown,
       logger_destroy_cancel, logger_destroy_join
<1>6. CASE logger_flush \/ logger_destroy
  BY <1>6, CallStep, SMTT(30) DEF WrittenInv, logger_flush, logger_destroy
<1>7. ASSUME NEW eType \in eERROR..eDEBUG, log_msg(Main, eType)
      PROVE  IInv' /\ WrittenInv'
  BY <1>0, <1>7, LogCallStep, Zenon DEF WrittenInv, log_msg
<1>8. ASSUME NEW Loglevel \in LogLevels, logger_init(Loglevel)
      PROVE  IInv' /\ WrittenInv'
  <2>1. wpc' \in {"none", "poll"}
    BY <1>8, Zenon DEF logger_init, IInv, ControlInv, ThreadInv
  <2> QED
    BY <1>8, <2>1, InitStep, Zenon DEF WrittenInv
<1> QED
  BY <1>1, <1>2, <1>3, <1>4, <1>5, <1>6, <1>7, <1>8, SMTT(30) DEF LoggerMove

(* The server, by any step of the logger of which the text allows it.       *)
LEMMA MainMove ==
  ASSUME ForkInv, role = "main", LoggerMove,
         UNCHANGED <<role, owed, dangling, flushed>>,
         \/ UNCHANGED todo
         \/ todo # <<>> /\ todo' = Tail(todo)
         \/ todo' \in ExitCalls,
         Has(todo', "daemonize") => MaxLoops' = -1 /\ pc'[Main] # "flush",
         Has(todo', "daemonize") \/ Has(todo', "fork") => op' # "destroy",
         AtFork'
  PROVE  ForkInv'
<1>1. TodoInv'
  BY TodoKept, Zenon DEF ForkInv
<1>2. IInv' /\ WrittenInv'
  BY MoveInv, Zenon DEF ForkInv, MainInv
<1> QED
  BY <1>1, <1>2, Zenon DEF ForkInv, MainInv, FlushedForkIsClean

(* The server while it is inside a call, or waits for the writing thread.   *)
LEMMA MainInside ==
  ASSUME ForkInv, role = "main", UNCHANGED forkVars,
         \/ logger_thread \/ logger_thread_exit
         \/ log_add_to_queue(Main) \/ MainStep
  PROVE  ForkInv'
<1> USE DEF forkVars
<1>0. /\ IInv /\ IInv' /\ AtFork /\ TypeOK' /\ PcTypes /\ CountTypes
      /\ Main \in Threads
  BY MoveInv, Types, SMTT(30) DEF LoggerMove, ForkInv, MainInv, IInv, Threads
<1>1. /\ Has(todo, "daemonize") => MaxLoops = -1 /\ pc[Main] # "flush"
      /\ Has(todo, "daemonize") \/ Has(todo, "fork") => op # "destroy"
      /\ todo \in Seq(CallNames)
      /\ todo # <<>> /\ Head(todo) = "fork" => Has(todo, "fork")
  BY TailText, Zenon DEF ForkInv, MainInv, TodoInv
<1>2. CASE logger_thread \/ logger_thread_exit
  <2>1. UNCHANGED callerVars
    BY <1>2, ZenonT(30), Zenon
       DEF logger_thread, logger_thread_cancelled, logger_thread_poll,
         logger_thread_trylock, logger_thread_check, logger_thread_open,
         logger_thread_first, logger_thread_lock, logger_thread_remove,
         logger_thread_write, logger_thread_close, logger_thread_closed,
         logger_thread_relock, logger_thread_update, logger_thread_exit
  <2>2. UNCHANGED iDataInQueueCount \/ logger_thread_update
    BY <1>2, Zenon
       DEF logger_thread, logger_thread_cancelled, logger_thread_poll,
         logger_thread_trylock, logger_thread_check, logger_thread_open,
         logger_thread_first, logger_thread_lock, logger_thread_remove,
         logger_thread_write, logger_thread_close, logger_thread_closed,
         logger_thread_relock, logger_thread_exit, queueVars
  <2>3. iDataInQueueCount = 0 => iDataInQueueCount' = 0
    <3>1. iDataInQueueCount' \in Nat /\ iDataInQueueCount \in Nat /\ iDataWritten \in Nat
      BY <1>0, Zenon DEF TypeOK, CountTypes
    <3> QED
      BY <2>2, <3>1, SMTT(30) DEF logger_thread_update, CountAfterBatch
  <2>4. AtFork'
    BY <1>0, <2>1, <2>3, SMTT(30) DEF AtFork, callerVars
  <2> QED
    BY <1>1, <1>2, <2>1, <2>4, MainMove, SMTT(30) DEF LoggerMove, callerVars
<1>3. CASE log_add_to_queue(Main)
  <2>1. /\ UNCHANGED <<MaxLoops, op>> /\ pc[Main] \in Logging
        /\ pc'[Main] # "flush"
    BY <1>0, <1>3, SMTT(30)
       DEF log_add_to_queue, log_add_to_queue_room, log_add_to_queue_lock,
         log_add_to_queue_insert, Caller, Logging, PcTypes
  <2>2. AtFork'
    BY <1>0, <2>1, ZenonT(30), Zenon DEF AtFork, Logging
  <2> QED
    BY <1>1, <1>3, <2>1, <2>2, MainMove, SMTT(30) DEF LoggerMove
<1>4. CASE logger_flush_wait
  <2>1. /\ pc[Main] = "flush" /\ MaxLoops' = MaxLoops - 1 /\ MaxLoops \in Int
        /\ UNCHANGED iDataInQueueCount /\ op' \in {op, "none"}
        /\ op # "destroy" => /\ pc'[Main] \in {"idle", "flush"}
                             /\ pc'[Main] = "idle" =>
                                  MaxLoops = 0 \/ iDataInQueueCount = 0
    BY <1>0, <1>4, SMTT(30) DEF logger_flush_wait, queueVars, PcTypes
  <2>2. AtFork'
    BY <1>1, <2>1, SMTT(30) DEF AtFork
  <2> QED
    BY <1>1, <1>4, <2>1, <2>2, MainMove, ZenonT(30), Zenon
       DEF LoggerMove, MainStep
<1>5. CASE MainStep /\ ~logger_flush_wait
  <2>1. op = "destroy"
    BY <1>0, <1>5, Zenon
       DEF MainStep, logger_destroy_shutdown, logger_destroy_cancel,
         logger_destroy_join, IInv, ControlInv, CallInv
  <2>2. AtFork'
    BY <1>1, <2>1, SMTT(30) DEF AtFork
  <2> QED
    BY <1>1, <1>5, <2>1, <2>2, MainMove, SMTT(30) DEF LoggerMove
<1> QED
  BY <1>2, <1>3, <1>4, <1>5, SMTT(30)

(* The server when it makes a call.                                         *)
LEMMA MainCalls ==
  ASSUME ForkInv, role = "main",
         \/ log_call \/ flush_call \/ destroy_call \/ init_call
         \/ ev_run_log \/ ev_break \/ fork_parent
  PROVE  ForkInv'
<1>0. /\ IInv /\ PcTypes /\ Main \in Threads /\ pc[Main] = "idle" /\ op = "none"
      /\ todo # <<>> /\ todo \in Seq(CallNames) /\ Ordered(todo) /\ FlushedForks(todo)
      /\ Has(todo, "daemonize") => MaxLoops = -1
  BY Types, Zenon
     DEF ForkInv, MainInv, TodoInv, IInv, ControlInv, CallInv, Threads, Calls,
       log_call, flush_call, destroy_call, init_call, ev_run_log, ev_break,
       fork_parent
<1>1. /\ \A c \in CallNames : Has(Tail(todo), c) => Has(todo, c)
      /\ \A c \in Never(Head(todo)) : ~Has(Tail(todo), c)
      /\ Tail(todo) # <<>> /\ Head(Tail(todo)) = "fork" => Head(todo) = "flush"
      /\ Tail(todo) # <<>> /\ Head(Tail(todo)) = "fork" => Has(Tail(todo), "fork")
      /\ Tail(todo) \in Seq(CallNames)
  BY <1>0, TailText, Zenon
<1>2. /\ "daemonize" \in CallNames /\ "fork" \in CallNames
      /\ \A s \in ExitCalls : /\ ~Has(s, "fork") /\ ~Has(s, "daemonize")
                              /\ Head(s) # "fork"
  BY ExitText, Zenon DEF CallNames
<1>3. CASE log_call
  <2>1. PICK c \in DOMAIN Level : Calls(c) /\ log_msg(Main, Level[c])
    BY <1>3, Zenon DEF log_call
  <2>2. Level[c] \in eERROR..eDEBUG /\ c # "flush"
    BY DEF Level, eERROR, eINFO, eDEBUG
  <2>3. UNCHANGED <<MaxLoops, op>> /\ pc'[Main] \in {"room", "idle"}
    BY <1>0, <2>1, Zenon DEF log_msg, PcTypes
  <2>4. Head(todo) = c /\ todo' = Tail(todo) /\ UNCHANGED <<role, owed, dangling, flushed>>
    BY <1>3, <2>1, Zenon DEF log_call, Calls, Return
  <2>5. AtFork'
    BY <1>1, <2>2, <2>4, Zenon DEF AtFork
  <2>6. LoggerMove
    BY <2>1, <2>2, SMTT(30) DEF LoggerMove
  <2> QED
    BY <1>0, <1>1, <1>2, <2>3, <2>4, <2>5, <2>6, MainMove, Zenon
<1>4. CASE flush_call
  <2>1. /\ Head(todo) = "flush" /\ todo' = Tail(todo) /\ op' = "flush"
        /\ UNCHANGED <<role, owed, dangling, flushed>> /\ pc'[Main] = "flush"
    BY <1>0, <1>4, Zenon DEF flush_call, logger_flush, Calls, Return, PcTypes
  <2>2. ~Has(todo', "daemonize")
    BY <1>1, <2>1, Zenon DEF Never
  <2>3. AtFork'
    BY <2>1, SMTT(30) DEF AtFork
  <2> QED
    BY <1>0, <1>4, <2>1, <2>2, <2>3, MainMove, SMTT(30)
       DEF flush_call, LoggerMove
<1>5. CASE destroy_call
  <2>1. /\ Head(todo) = "destroy" /\ todo' = Tail(todo)
        /\ UNCHANGED <<role, owed, dangling, flushed>>
    BY <1>5, Zenon DEF destroy_call, Calls, Return
  <2>2. ~Has(todo', "daemonize") /\ ~Has(todo', "fork")
    BY <1>1, <2>1, Zenon DEF Never
  <2>3. AtFork'
    BY <1>1, <2>1, SMTT(30) DEF AtFork
  <2> QED
    BY <1>0, <1>5, <2>1, <2>2, <2>3, MainMove, SMTT(30)
       DEF destroy_call, LoggerMove
<1>6. CASE init_call
  <2>1. /\ Head(todo) = "init" /\ todo' \in {Tail(todo), do_exit_with_errno_calls}
        /\ UNCHANGED <<role, owed, dangling, flushed, MaxLoops, pc, op>>
    BY <1>6, ZenonT(30), Zenon
       DEF init_call, Calls, logger_init, vars, callerVars
  <2>2. AtFork'
    BY <1>1, <1>2, <2>1, Zenon DEF AtFork, ExitCalls
  <2>3. LoggerMove
    <3>1. sCurrLogSettings.iCurrLogLevel \in LogLevels
      BY <1>0, Zenon DEF IInv, TypeOK, LogSettings
    <3> QED
      BY <1>6, <3>1, Zenon DEF init_call, LoggerMove
  <2> QED
    BY <1>0, <1>1, <1>2, <2>1, <2>2, <2>3, MainMove, Zenon DEF ExitCalls
<1>7. CASE ev_run_log
  <2>1. PICK c \in DOMAIN Level : log_msg(Main, Level[c])
    BY <1>7, Zenon DEF ev_run_log
  <2>2. Level[c] \in eERROR..eDEBUG
    BY DEF Level, eERROR, eINFO, eDEBUG
  <2>3. UNCHANGED <<MaxLoops, op>> /\ pc'[Main] \in {"room", "idle"}
    BY <1>0, <2>1, Zenon DEF log_msg, PcTypes
  <2>4. Head(todo) = "ev_run" /\ UNCHANGED <<todo, role, owed, dangling, flushed>>
    BY <1>7, Zenon DEF ev_run_log, Calls
  <2>5. AtFork'
    BY <2>4, Zenon DEF AtFork
  <2>6. LoggerMove
    BY <2>1, <2>2, SMTT(30) DEF LoggerMove
  <2> QED
    BY <1>0, <2>3, <2>4, <2>5, <2>6, MainMove, SMTT(30)
<1>8. CASE ev_break \/ fork_parent
  <2>1. /\ Head(todo) # "flush" /\ todo' \in {Tail(todo)} \union ExitCalls
        /\ UNCHANGED <<role, owed, dangling, flushed>>
        /\ UNCHANGED vars
    BY <1>8, Zenon DEF ev_break, fork_parent, Calls, Return, ExitCalls, vars
  <2>2. AtFork'
    BY <1>1, <1>2, <2>1, Zenon DEF AtFork
  <2>3. UNCHANGED <<MaxLoops, pc, op>>
    BY <2>1, Zenon DEF vars, callerVars
  <2> QED
    BY <1>0, <1>1, <1>2, <2>1, <2>2, <2>3, MainMove, ZenonT(30), Zenon
       DEF LoggerMove
<1> QED
  BY <1>3, <1>4, <1>5, <1>6, <1>7, <1>8, SMTT(30)

(* A counter at zero leaves nothing on the way to the logfile.              *)
LEMMA NothingOwed ==
  ASSUME IInv, WrittenInv, iDataInQueueCount = 0
  PROVE  Range(outbuf \o InFlight \o Queue) = {} /\ wpc # "closed"
<1>1. Len(Queue) = 0 /\ Unaccounted = 0
  BY LenProperties DEF IInv, TypeOK, CounterInv, CountMatchesQueue, Unaccounted
<1>2. Queue = <<>>
  BY <1>1, EmptySeq, Zenon DEF IInv, TypeOK
<1>3. wpc # "write" /\ (wpc \in InBatch => iDataWritten = 0)
  BY <1>1 DEF Unaccounted, InBatch, FileOpen, IInv, TypeOK
<1>4. outbuf = <<>>
  BY <1>3, EmptySeq, Zenon DEF IInv, TypeOK, ControlInv, FileInv, InBatch
<1>5. outbuf \o InFlight \o Queue = <<>>
  BY <1>2, <1>3, <1>4 DEF InFlight
<1> QED
  BY <1>3, <1>5, SMTT(30) DEF Range, WrittenInv, InBatch, FileOpen

(* What a child keeps in mind of the fork.                                  *)
LEMMA ForkChild ==
  ASSUME fork_child
  PROVE  /\ flushed' <=> MaxLoops >= 0
         /\ dangling' <=> dangling \/ wpc = "closed"
BY Zenon DEF fork_child

(* The fork of worker_init, followed as the worker.                         *)
LEMMA ForkWorker ==
  ASSUME ForkInv, fork_worker
  PROVE  ForkInv'
<1>1. /\ todo \in Seq(CallNames) /\ todo # <<>> /\ Head(todo) = "fork"
      /\ pc[Main] = "idle" /\ Has(todo, "fork")
  BY TailText, Zenon DEF fork_worker, Calls, ForkInv, TodoInv
<1>2. TodoInv'
  BY WorkerText, Zenon DEF fork_worker, TodoInv
<1>3. flushed' => iDataInQueueCount = 0
  BY <1>1, Zenon DEF ForkInv, TodoInv, AtFork, fork_worker, fork_child
<1>4. FlushedForkIsClean'
  <2>1. CASE role = "main"
    BY <1>3, <2>1, NothingOwed, Zenon
    DEF ForkInv, MainInv, fork_worker, fork_child, FlushedForkIsClean
  <2>2. CASE role = "daemon"
    <3>1. DaemonInv
      BY <1>1, <2>2, Zenon DEF ForkInv
    <3>2. ASSUME flushed' PROVE ~dangling /\ outbuf \o InFlight \o Queue = <<>>
      <4>1. Len(Queue) = 0 /\ ~dangling
        BY <1>3, <3>1, <3>2, LenProperties DEF DaemonInv
      <4>2. Queue = <<>>
        BY <3>1, <4>1, EmptySeq, Zenon DEF DaemonInv
      <4> QED
        BY <3>1, <4>1, <4>2 DEF DaemonInv, InFlight
    <3>3. flushed' => ~dangling'
      BY <3>1, <3>2, ForkChild, SMTT(30) DEF fork_worker, DaemonInv
    <3>4. flushed' => owed' = {}
      BY <3>2 DEF fork_worker, fork_child, Range
    <3> QED
      BY <3>3, <3>4, Zenon DEF FlushedForkIsClean
  <2> QED
    BY <1>1, <2>1, <2>2, Zenon DEF ForkInv, TodoInv
<1> QED
  BY <1>2, <1>4, Zenon DEF ForkInv, fork_worker

(* daemonize, as the daemon or after a fork that failed.                    *)
LEMMA Daemonize ==
  ASSUME ForkInv, daemonize
  PROVE  ForkInv'
<1>1. /\ todo \in Seq(CallNames) /\ todo # <<>> /\ Head(todo) = "daemonize"
      /\ pc[Main] = "idle" /\ Has(todo, "daemonize") /\ role = "main"
      /\ Ordered(todo) /\ FlushedForks(todo)
  BY TailText, Zenon DEF daemonize, Calls, ForkInv, TodoInv
<1>2. MaxLoops = -1 /\ op # "destroy" /\ IInv /\ WrittenInv /\ ~dangling /\ PcTypes
  BY <1>1, Types, SMTT(30) DEF ForkInv, MainInv, IInv
<1>3. CASE todo' = do_exit_with_errno_calls
           /\ UNCHANGED <<vars, role, served, owed, dangling, flushed>>
  <2>1. AtFork' /\ ~Has(todo', "fork") /\ ~Has(todo', "daemonize") /\ todo' \in ExitCalls
    BY <1>3, ExitText, Zenon DEF AtFork, ExitCalls
  <2> QED
    BY <1>1, <1>3, <2>1, MainMove, Zenon DEF LoggerMove
<1>4. CASE /\ fork_child /\ outbuf' = <<>> /\ role' = "daemon"
           /\ todo' = Tail(todo)
  <2>1. /\ Tail(todo) \in Seq(CallNames) /\ Ordered(Tail(todo))
        /\ FlushedForks(Tail(todo))
        /\ ~Has(Tail(todo), "init") /\ ~Has(Tail(todo), "daemonize")
        /\ ~(Tail(todo) # <<>> /\ Head(Tail(todo)) = "fork")
    BY <1>1, TailText, Zenon DEF Never
  <2>2. TodoInv' /\ AtFork'
    BY <1>4, <2>1, Zenon DEF TodoInv, AtFork
  <2>3. ~flushed'
    <3>1. ~(-1 >= 0)
      OBVIOUS
    <3> QED
      BY <1>2, <1>4, <3>1, ForkChild, Zenon
  <2>4. DaemonInv'
    <3>1. UNCHANGED <<queueVars, callerVars>> /\ wpc' = "none"
      BY <1>4, Zenon DEF fork_child
    <3>2. iDataInQueueCount \in Nat /\ Len(Queue) <= iDataInQueueCount
      BY <1>2, LenProperties DEF IInv, TypeOK, CounterInv, CountMatchesQueue,
         Unaccounted
    <3>3. dangling' => iDataInQueueCount >= 1
      <4>1. dangling' => wpc = "closed"
        BY <1>2, <1>4, ForkChild, Zenon
      <4>2. wpc = "closed" => iDataInQueueCount >= 1
        BY <1>2, <3>2, LenProperties, SMTT(30)
           DEF IInv, TypeOK, CounterInv, CountMatchesQueue, Unaccounted,
             WrittenInv, InBatch, FileOpen
      <4> QED
        BY <4>1, <4>2, Zenon
    <3>4. /\ pc \in [Threads -> {"idle", "room", "lock", "insert", "flush"}]
          /\ Queue \in Seq(Msgs) /\ sent \in [Threads -> 0..MaxMsgs]
          /\ MaxLoops \in Int
      <4>1. \A t \in Threads : pc[t] \in {"idle", "room", "lock", "insert", "flush"}
        BY <1>1, <1>2, ThreadFacts, Zenon
           DEF IInv, ControlInv, CallInv, Logging
      <4> QED
        BY <1>2, <4>1, SMTT(30) DEF IInv, TypeOK
    <3> QED
      BY <1>1, <1>2, <1>4, <3>1, <3>2, <3>3, <3>4, SMTT(30)
      DEF DaemonInv, queueVars, callerVars, Logging
  <2> QED
    BY <1>4, <2>2, <2>3, <2>4, Zenon DEF ForkInv, FlushedForkIsClean
<1> QED
  BY <1>3, <1>4, Zenon DEF daemonize

(* A worker never forks again.                                              *)
LEMMA WorkerSteps ==
  ASSUME ForkInv, role = "worker", UNCHANGED <<role, owed, dangling, flushed>>,
         \/ UNCHANGED todo
         \/ todo # <<>> /\ todo' = Tail(todo)
         \/ todo' \in ExitCalls
  PROVE  ForkInv'
BY TodoKept, Zenon DEF ForkInv, FlushedForkIsClean

(* The daemon, by any step of which the text allows it.                     *)
LEMMA DaemonMove ==
  ASSUME ForkInv, role = "daemon",
         UNCHANGED <<role, owed, dangling, flushed>>,
         \/ UNCHANGED todo
         \/ todo # <<>> /\ todo' = Tail(todo)
         \/ todo' \in ExitCalls,
         Has(todo', "fork") => DaemonInv',
         AtFork'
  PROVE  ForkInv'
<1>1. TodoInv'
  BY TodoKept, Zenon DEF ForkInv
<1> QED
  BY <1>1, Zenon DEF ForkInv, FlushedForkIsClean

(* The daemon inside a call.  It has no writing thread; its counter never   *)
(* goes down before it destroys its logger.                                 *)
LEMMA DaemonInside ==
  ASSUME ForkInv, role = "daemon", UNCHANGED forkVars,
         \/ logger_thread \/ logger_thread_exit
         \/ log_add_to_queue(Main) \/ MainStep \/ UNCHANGED vars
         \/ logger_destroy_join_abort
  PROVE  ForkInv'
<1> USE DEF forkVars
<1>0. /\ todo \in Seq(CallNames) /\ AtFork
      /\ todo # <<>> /\ Head(todo) = "fork" => Has(todo, "fork")
      /\ Has(todo, "fork") => DaemonInv
  BY TailText, SMTT(30) DEF ForkInv, TodoInv
<1>1. CASE ~Has(todo, "fork")
  BY <1>0, <1>1, DaemonMove, SMTT(30) DEF AtFork
<1>2. CASE DaemonInv
  <2>0. Main \in Threads /\ Main \notin Producers
    BY ThreadFacts, SMTT(30)
  <2>1. ~logger_thread /\ ~logger_thread_exit
    BY <1>2, Zenon
       DEF DaemonInv, logger_thread, logger_thread_cancelled,
         logger_thread_poll, logger_thread_trylock, logger_thread_check,
         logger_thread_open, logger_thread_first, logger_thread_lock,
         logger_thread_remove, logger_thread_write, logger_thread_close,
         logger_thread_closed, logger_thread_relock, logger_thread_update,
         logger_thread_exit, CancelPoints
  <2>2. CASE log_add_to_queue_room(Main) \/ log_add_to_queue_lock(Main)
    <3>1. /\ UNCHANGED <<wpc, outbuf, iDataInQueueCount, Queue, op, sent, MaxLoops>>
          /\ pc[Main] \in Logging
          /\ \E v \in {"idle", "lock", "insert"} : pc' = [pc EXCEPT ![Main] = v]
      BY <1>2, <2>2, SMTT(30)
         DEF DaemonInv, log_add_to_queue_room, log_add_to_queue_lock, Caller,
           Logging, queueVars, fileVars, writerVars
    <3>2. DaemonInv'
      BY <1>2, <2>0, <3>1, SMTT(30) DEF DaemonInv, Logging
    <3>3. AtFork'
      BY <1>0, <3>1, SMTT(30) DEF AtFork, Logging
    <3> QED
      BY <3>2, <3>3, DaemonMove, SMTT(30)
  <2>3. CASE log_add_to_queue_insert(Main)
    <3>1. /\ UNCHANGED <<wpc, outbuf, op, sent, MaxLoops>> /\ pc[Main] \in Logging
          /\ pc' = [pc EXCEPT ![Main] = "idle"]
          /\ iDataInQueueCount' = iDataInQueueCount + 1
          /\ Queue' = Append(Queue, <<Main, sent[Main]>>)
      BY <1>2, <2>3, SMTT(30)
         DEF DaemonInv, log_add_to_queue_insert, INSERT_TAIL, Caller, Logging,
           fileVars, writerVars
    <3>2. <<Main, sent[Main]>> \in Msgs
      BY <1>2, <2>0, <3>1, BoundsAssumption, SMTT(30) DEF DaemonInv, Msgs
    <3>3. Queue' \in Seq(Msgs) /\ Len(Queue') = Len(Queue) + 1 /\ Len(Queue) \in Nat
      BY <1>2, <3>1, <3>2, AppendProperties, LenProperties, SMTT(30)
         DEF DaemonInv
    <3>4. DaemonInv'
      BY <1>2, <2>0, <3>1, <3>3, SMTT(30) DEF DaemonInv, Logging
    <3>5. AtFork'
      BY <1>0, <3>1, SMTT(30) DEF AtFork, Logging
    <3> QED
      BY <3>4, <3>5, DaemonMove, Zenon
  <2>4. CASE logger_flush_wait
    <3>1. /\ UNCHANGED <<wpc, outbuf, iDataInQueueCount, Queue, sent>>
          /\ pc[Main] = "flush" /\ MaxLoops' = MaxLoops - 1 /\ op' # "destroy"
          /\ \/ UNCHANGED pc /\ MaxLoops # 0
             \/ /\ pc' = [pc EXCEPT ![Main] = "idle"]
                /\ MaxLoops = 0 \/ iDataInQueueCount = 0
      BY <1>2, <2>4, SMTT(30)
         DEF DaemonInv, logger_flush_wait, queueVars, fileVars, writerVars
    <3>2. DaemonInv'
      BY <1>2, <2>0, <3>1, SMTT(30) DEF DaemonInv, Logging
    <3>3. AtFork'
      BY <1>2, <2>0, <3>1, SMTT(30) DEF AtFork, DaemonInv
    <3> QED
      BY <3>2, <3>3, DaemonMove
  <2>5. ~(logger_destroy_shutdown \/ logger_destroy_cancel \/ logger_destroy_join)
    BY <1>2, <2>0, SMTT(30)
       DEF DaemonInv, logger_destroy_shutdown, logger_destroy_cancel,
         logger_destroy_join
  <2>6. CASE UNCHANGED vars \/ logger_destroy_join_abort
    <3>1. UNCHANGED <<wpc, outbuf, iDataInQueueCount, Queue, op, sent, MaxLoops, pc>>
      BY <2>6, Zenon DEF vars, logger_destroy_join_abort, queueVars, fileVars,
         writerVars, callerVars
    <3> QED
      BY <1>0, <1>2, <3>1, DaemonMove, SMTT(30) DEF DaemonInv, AtFork
  <2> QED
    BY <2>1, <2>2, <2>3, <2>4, <2>5, <2>6, SMTT(30)
       DEF log_add_to_queue, MainStep
<1> QED
  BY <1>0, <1>1, <1>2, SMTT(30)

(* The daemon when it makes a call.                                         *)
LEMMA DaemonCalls ==
  ASSUME ForkInv, role = "daemon",
         \/ log_call \/ flush_call \/ destroy_call \/ init_call
         \/ ev_run_log \/ ev_break \/ fork_parent
  PROVE  ForkInv'
<1>0. /\ pc[Main] = "idle" /\ ~Has(todo, "init")
      /\ todo # <<>> /\ todo \in Seq(CallNames) /\ Ordered(todo) /\ FlushedForks(todo)
      /\ Has(todo, "fork") => DaemonInv
      /\ Main \in Threads
  BY ThreadFacts, Zenon
     DEF ForkInv, TodoInv, Calls, log_call, flush_call, destroy_call,
     init_call, ev_run_log, ev_break, fork_parent
<1>1. /\ \A c \in CallNames : Has(Tail(todo), c) => Has(todo, c)
      /\ \A c \in Never(Head(todo)) : ~Has(Tail(todo), c)
      /\ Tail(todo) # <<>> /\ Head(Tail(todo)) = "fork" => Head(todo) = "flush"
      /\ Has(todo, Head(todo))
  BY <1>0, TailText, Zenon
<1>2. /\ "fork" \in CallNames
      /\ \A s \in ExitCalls : ~Has(s, "fork") /\ Head(s) # "fork"
  BY ExitText, SMTT(30) DEF CallNames
<1>3. CASE log_call \/ ev_run_log
  <2>1. PICK c \in DOMAIN Level : log_msg(Main, Level[c])
    BY <1>3, Zenon DEF log_call, ev_run_log
  <2>2. /\ Head(todo) \notin {"flush", "fork"} /\ todo' \in {todo, Tail(todo)}
        /\ UNCHANGED <<role, owed, dangling, flushed>>
        /\ UNCHANGED todo => Head(todo) = "ev_run"
    BY <1>3 DEF log_call, ev_run_log, Calls, Return, Level
  <2>3. DaemonInv => DaemonInv'
    <3> SUFFICES ASSUME DaemonInv PROVE DaemonInv'
      BY Zenon
    <3>1. /\ UNCHANGED <<wpc, outbuf, iDataInQueueCount, Queue, op, MaxLoops>>
          /\ sent[Main] < MaxMsgs /\ sent' = [sent EXCEPT ![Main] = @ + 1]
          /\ \E v \in {"room", "idle"} : pc' = [pc EXCEPT ![Main] = v]
      BY <2>1, Zenon DEF log_msg, queueVars, fileVars, writerVars
    <3>2. sent' \in [Threads -> 0..MaxMsgs] /\ sent'[Main] >= 1
      BY <1>0, <3>1, BoundsAssumption DEF DaemonInv
    <3> QED
      BY <1>0, <2>2, <3>1, <3>2, Zenon DEF DaemonInv, Logging
  <2>4. AtFork'
    BY <1>1, <2>2, ZenonT(30), Zenon DEF AtFork
  <2> QED
    BY <1>0, <1>1, <1>2, <2>2, <2>3, <2>4, DaemonMove, ZenonT(30), Zenon
<1>4. CASE flush_call
  <2>1. /\ todo' = Tail(todo) /\ UNCHANGED <<role, owed, dangling, flushed>>
        /\ pc' = [pc EXCEPT ![Main] = "flush"] /\ MaxLoops' = FlushLoops
        /\ op' = "flush" /\ UNCHANGED <<wpc, outbuf, iDataInQueueCount, Queue, sent>>
    BY <1>4, SMTT(30)
       DEF flush_call, logger_flush, Return, queueVars, fileVars, writerVars
  <2>2. DaemonInv => DaemonInv' /\ pc'[Main] = "flush"
    BY <1>0, <2>1, BoundsAssumption, SMTT(30) DEF DaemonInv, Logging
  <2>3. Tail(todo) # <<>> /\ Head(Tail(todo)) = "fork" => Has(Tail(todo), "fork")
    BY <1>0, TailText, Zenon
  <2>4. AtFork'
    BY <1>0, <1>1, <1>2, <2>1, <2>2, <2>3, SMTT(30) DEF AtFork
  <2> QED
    BY <1>0, <1>1, <1>2, <2>1, <2>2, <2>4, DaemonMove, SMTT(30)
<1>5. CASE destroy_call
  <2>1. /\ Head(todo) = "destroy" /\ todo' = Tail(todo)
        /\ UNCHANGED <<role, owed, dangling, flushed>>
    BY <1>5, Zenon DEF destroy_call, Calls, Return
  <2>2. ~Has(todo', "fork")
    BY <1>1, <2>1, SMTT(30) DEF Never
  <2>3. AtFork'
    BY <1>1, <2>1, SMTT(30) DEF AtFork
  <2> QED
    BY <1>0, <2>1, <2>2, <2>3, DaemonMove, SMTT(30)
<1>6. ~init_call
  BY <1>0, <1>1, SMTT(30) DEF init_call, Calls
<1>7. CASE ev_break \/ fork_parent
  <2>1. /\ Head(todo) # "flush" /\ todo' \in {Tail(todo)} \union ExitCalls
        /\ UNCHANGED <<role, owed, dangling, flushed>>
        /\ UNCHANGED <<wpc, outbuf, iDataInQueueCount, Queue, op, sent, MaxLoops, pc>>
    BY <1>7, Zenon
       DEF ev_break, fork_parent, Calls, Return, ExitCalls, vars, queueVars,
         fileVars, writerVars, callerVars
  <2>2. AtFork'
    BY <1>1, <1>2, <2>1, Zenon DEF AtFork
  <2>3. DaemonInv => DaemonInv'
    BY <2>1, Zenon DEF DaemonInv
  <2> QED
    BY <1>0, <1>1, <1>2, <2>1, <2>2, <2>3, DaemonMove, Zenon
<1> QED
  BY <1>3, <1>4, <1>5, <1>6, <1>7, SMTT(30)

(* A step that changes nothing preserves ForkInv.                           *)
LEMMA ForkStutter == ForkInv /\ UNCHANGED allVars => ForkInv'
<1> SUFFICES ASSUME ForkInv, UNCHANGED allVars PROVE ForkInv'
  BY Zenon
<1>1. UNCHANGED vars /\ UNCHANGED forkVars /\ UNCHANGED <<pc, op, MaxLoops, iDataInQueueCount>>
  BY Zenon DEF allVars, vars, callerVars, queueVars
<1>2. CASE role = "main"
  <2>1. AtFork'
    BY <1>1, <1>2, Zenon DEF ForkInv, AtFork, forkVars
  <2> QED
    BY <1>1, <1>2, <2>1, MainMove, ZenonT(30), Zenon
       DEF ForkInv, MainInv, LoggerMove, forkVars
<1>3. CASE role = "daemon"
  BY <1>1, <1>3, DaemonInside, SMTT(30)
<1>4. CASE role = "worker"
  BY <1>1, <1>4, WorkerSteps, SMTT(30) DEF forkVars
<1> QED
  BY <1>2, <1>3, <1>4, Zenon DEF ForkInv, TodoInv

(* Every step of the process preserves it.                                  *)
LEMMA ForkStep == ForkInv /\ [ForkNext]_allVars => ForkInv'
<1> SUFFICES ASSUME ForkInv, [ForkNext]_allVars PROVE ForkInv'
  BY Zenon
<1>0. role \in {"main", "daemon", "worker"}
  BY Zenon DEF ForkInv, TodoInv
<1>1. CASE UNCHANGED allVars
  BY <1>1, ForkStutter, Zenon
<1>2. CASE fork_worker
  BY <1>2, ForkWorker, Zenon
<1>3. CASE daemonize
  BY <1>3, Daemonize, Zenon
<1>4. CASE \/ log_call \/ flush_call \/ destroy_call \/ init_call
           \/ ev_run_log \/ ev_break \/ fork_parent
  <2>1. /\ UNCHANGED <<role, owed, dangling, flushed>>
        /\ \/ UNCHANGED todo
           \/ todo # <<>> /\ todo' = Tail(todo)
           \/ todo' \in ExitCalls
    <3>1. CASE log_call \/ flush_call
      BY <3>1, Zenon DEF log_call, flush_call, Calls, Return
    <3>2. CASE destroy_call \/ init_call
      BY <3>2 DEF destroy_call, init_call, Calls, Return, ExitCalls
    <3>3. CASE ev_run_log \/ ev_break \/ fork_parent
      BY <3>3, Zenon
         DEF ev_run_log, ev_break, fork_parent, Calls, Return, ExitCalls
    <3> QED
      BY <1>4, <3>1, <3>2, <3>3, Zenon
  <2> QED
    BY <1>0, <1>4, <2>1, MainCalls, DaemonCalls, WorkerSteps, SMTT(30)
<1>5. CASE /\ UNCHANGED forkVars
           /\ \/ logger_thread \/ logger_thread_exit
              \/ log_add_to_queue(Main) \/ MainStep
  BY <1>0, <1>5, MainInside, DaemonInside, WorkerSteps, SMTT(30) DEF forkVars
<1>6. CASE logger_destroy_join_abort
  <2>1. UNCHANGED forkVars /\ dangling
    BY <1>6, Zenon DEF logger_destroy_join_abort
  <2>2. role # "main"
    BY <2>1, Zenon DEF ForkInv, MainInv
  <2> QED
    BY <1>0, <1>6, <2>1, <2>2, DaemonInside, WorkerSteps, SMTT(30) DEF forkVars
<1> QED
  BY <1>1, <1>2, <1>3, <1>4, <1>5, <1>6, SMTT(30) DEF ForkNext, Call, Finished

(* When the logger_flush of worker_init saw the counter at zero, the worker *)
(* inherits nothing that another process will write too, and no freed FILE: *)
(* for any number of workers, daemonised or not.                            *)
THEOREM ForkCorrect == ForkSpec => []FlushedForkIsClean
<1>1. ForkInit => ForkInv
  <2> SUFFICES ASSUME ForkInit PROVE ForkInv
    BY Zenon
  <2>1. PICK bDeamonize \in BOOLEAN : todo = main_calls(bDeamonize)
    BY ForkAssumption, Zenon DEF ForkInit
  <2>2. /\ todo \in Seq(CallNames) /\ Ordered(todo) /\ FlushedForks(todo)
        /\ todo # <<>> /\ Head(todo) = "init"
    BY <2>1, MainText, SMTT(30) DEF Text
  <2>3. TodoInv /\ AtFork
    BY <2>2, Zenon DEF ForkInit, TodoInv, AtFork
  <2>4. IInv /\ Init
    BY InitInv, Zenon DEF ForkInit
  <2>5. MaxLoops = -1 /\ pc[Main] = "idle" /\ op = "none" /\ wpc = "none"
    BY <2>4, ThreadFacts, Zenon DEF Init
  <2> QED
    BY <2>3, <2>4, <2>5, Zenon
       DEF ForkInit, ForkInv, MainInv, WrittenInv, FlushedForkIsClean
<1>2. ForkInv => FlushedForkIsClean
  BY Zenon DEF ForkInv
<1> QED
  BY <1>1, <1>2, ForkStep, PTL DEF ForkSpec
=============================================================================
