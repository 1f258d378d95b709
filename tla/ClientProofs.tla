---------------------------- MODULE ClientProofs ----------------------------
(***************************************************************************)
(* What the invariant of ClientInvariant gives, for any number of clients  *)
(* and descriptors: no stale event, descriptors owned and accounted for,   *)
(* answers that fit, and the worker as its master sees it.                 *)
(***************************************************************************)
EXTENDS ClientInvariant

USE DEF Nobody, NoFd, loopVars, peerVars, clientVars, masterVars

(* What the peers, the clock, the master and SIGINT do, and the callback   *)
(* of the signal, leaves table and clients alone.                          *)
LEMMA AroundInv ==
  ASSUME IInv,
         \/ master_ends \/ sigint \/ workerp_callback_exitsig
         \/ \E c \in Clients : timer_expires(c) \/ peer_sends(c) \/ peer_ends(c)
  PROVE  IInv'
<1> USE DEF master_ends, sigint, workerp_callback_exitsig, timer_expires,
            peer_sends, peer_ends
<1>1. UNCHANGED <<pc, fd, iWorkerIPCfd, LogfileFd, clientVars, io, timer, ipc, cur>>
  BY Zenon
<1>2. TypeOK'
  <2>1. faults' \in 0..MaxFaults
    BY ClientAssumption DEF IInv, TypeOK, Fault
  <2>2. /\ data' \subseteq Clients /\ due' \subseteq timer
        /\ peer' \in [Clients -> {"open", "eof", "reset", "spent"}]
    BY Zenon DEF IInv, TypeOK
  <2>3. /\ pending' \subseteq pending
        /\ master' \in BOOLEAN /\ sig' \in BOOLEAN /\ done' \in BOOLEAN
    BY Zenon DEF IInv, TypeOK, ev_break
  <2> QED
    BY <1>1, <2>1, <2>2, <2>3, Zenon DEF IInv, TypeOK
<1>3. TableInv'
  BY <1>1, TableKept, Zenon DEF IInv
<1>4. NoStaleEvent'
  <2>1. pending' \subseteq pending
    BY Zenon
  <2>2. \A c \in Clients : Readable(c) => Readable(c)'
    BY Zenon DEF IInv, TypeOK, Readable
  <2> QED
    BY <1>1, <2>1, <2>2, Zenon DEF IInv, EventInv, NoStaleEvent
<1>5. LoopInv'
  BY <1>1 DEF IInv, EventInv, LoopInv, Invoked, Starting, Closing
<1>6. QueueInv'
  BY <1>1, Zenon DEF IInv, EventInv, QueueInv
<1> QED
  BY <1>2, <1>3, <1>4, <1>5, <1>6, Zenon DEF IInv, EventInv

(* The master sends a client that the worker has not had.                  *)
LEMMA ArriveInv ==
  ASSUME IInv, NEW c \in Clients, send_fd_to_worker(c)
  PROVE  IInv'
<1> USE DEF send_fd_to_worker
<1>1. ipc \in Seq(Clients) /\ ipc' = Append(ipc, c)
  BY Zenon DEF IInv, TypeOK
<1>2. /\ ipc' \in Seq(Clients) /\ Len(ipc) \in Nat
      /\ DOMAIN ipc' = DOMAIN ipc \union {Len(ipc) + 1}
      /\ ipc'[Len(ipc) + 1] = c
      /\ \A n \in DOMAIN ipc : ipc'[n] = ipc[n]
  BY <1>1
<1>3. /\ st'[c] = "ipc" /\ \A d \in Clients \ {c} : st'[d] = st[d]
      /\ st' \in [Clients -> {"away", "ipc", "live", "freed", "leaked", "lost"}]
  BY Zenon DEF IInv, TypeOK
<1>4. TypeOK'
  BY <1>2, <1>3, Zenon DEF IInv, TypeOK
<1>5. OwnsDescriptor' /\ StartInv'
  BY <1>3 DEF IInv, TableInv, OwnsDescriptor, StartInv
<1>6. HeldInv'
  BY <1>3 DEF IInv, TableInv, HeldInv, Held
<1>7. NoStaleEvent' /\ LoopInv'
  BY <1>3 DEF IInv, TypeOK, EventInv, NoStaleEvent, LoopInv, Readable
<1>8. QueueInv'
  <2>1. \A n \in DOMAIN ipc : st[ipc[n]] = "ipc" /\ ipc[n] \in Clients \ {c}
    BY <1>1 DEF IInv, EventInv, QueueInv
  <2>2. \A n \in DOMAIN ipc' : st'[ipc'[n]] = "ipc"
    BY <1>2, <1>3, <2>1
  <2>3. \A m, n \in DOMAIN ipc' : ipc'[m] = ipc'[n] => m = n
    BY <1>2, <2>1 DEF IInv, EventInv, QueueInv
  <2>4. \A d \in shut' : st'[d] = "freed"
    BY <1>3, Zenon DEF IInv, TypeOK, EventInv, QueueInv
  <2> QED
    BY <1>3, <2>2, <2>3, <2>4, SMTT(30)
       DEF IInv, EventInv, QueueInv, Starting, Closing
<1> QED
  BY <1>4, <1>5, <1>6, <1>7, <1>8, Zenon DEF IInv, TableInv, EventInv

(* Every step keeps the invariant.                                         *)
LEMMA NextInv == ASSUME IInv, [Next]_vars PROVE IInv'
<1>1. CASE UNCHANGED vars
  BY <1>1, TableKept DEF vars, IInv, TypeOK, EventInv, NoStaleEvent, LoopInv,
     QueueInv, Readable
<1>2. CASE ProcessEnds
  BY <1>2, EndsInv, Zenon
<1>3. CASE Next /\ ~ProcessEnds
  <2>1. CASE WorkerStep
    <3>1. CASE \E c \in Clients :
                 client_callback_timeout(c) \/ client_callback_serve(c)
      BY <3>1, TimeoutInv, ServeEndInv, RequestInv, Zenon
         DEF client_callback_serve
    <3> QED
      BY <1>3, <2>1, <3>1, CloseInv, ConnectInv, LoopOpenInv, PollInv, IpcInv,
         AroundInv, Zenon DEF WorkerStep, workerp_entry_exit
  <2>2. CASE \E c \in Clients : \/ timer_expires(c) \/ send_fd_to_worker(c)
                                \/ peer_sends(c) \/ peer_ends(c)
    BY <2>2, AroundInv, ArriveInv, Zenon
  <2> QED
    BY <1>3, <2>1, <2>2, SendInv, LogOpenInv, LogCloseInv, AroundInv, Zenon
    DEF Next, killed
<1> QED
  BY <1>1, <1>2, <1>3, Zenon

(* The invariant holds in every state of the worker.                       *)
LEMMA Invariant == Spec => []IInv
BY InitInv, NextInv, PTL DEF Spec

-----------------------------------------------------------------------------
(***************************************************************************)
(* The theorems.                                                           *)
(***************************************************************************)

(* The types of the worker's state.                                        *)
THEOREM TypeCorrect == Spec => []TypeOK
BY Invariant, PTL DEF IInv

(* An event that is collected or due belongs to a client that is still     *)
(* allocated, and a read event to one that can be read: no callback of     *)
(* cew_client.c works on a freed client.                                   *)
THEOREM EventsFresh == Spec => []NoStaleEvent
BY Invariant, PTL DEF IInv, EventInv

(* Logfile, IPC socket and clients never share a descriptor nor use a      *)
(* closed one, although workerp_entry closes descriptor 0 twice.           *)
THEOREM DescriptorsOwned == Spec => []OwnsDescriptor
BY Invariant, PTL DEF IInv, TableInv

(* http_handle_client_request answers every request as AnswerFits says,    *)
(* whether or not the file could be opened.                                *)
LEMMA AnswerCorrect ==
  ASSUME NEW req \in Requests, NEW opened \in BOOLEAN
  PROVE  AnswerFits(req, http_handle_client_request(req, opened))
<1>1. /\ req.name \in Names /\ req.whole \in BOOLEAN /\ req.get \in BOOLEAN
      /\ FileName(req) = IF req.name = NoName THEN IndexName
                         ELSE Lower[req.name]
  BY HttpAssumption, Zenon DEF Requests, FileName
<1> QED
  BY <1>1, Zenon
     DEF AnswerFits, http_handle_client_request, http_parse_request,
       http_check_access_file, OpensFile, NoAnswer, http_404

(* What is about to be sent fits what was read.                            *)
THEOREM AnswersCorrect == Spec => []AnswerFollowsRequest
<1>1. AnswerFollowsRequest
  BY AnswerCorrect, Zenon DEF AnswerFollowsRequest
<1> QED
  BY <1>1, PTL

-----------------------------------------------------------------------------
(***************************************************************************)
(* The worker implements WorkerClients.                                    *)
(***************************************************************************)
Serving == {c \in Clients : st[c] = "live" /\ pc # "ended"}
Gone == {c \in Clients : st[c] \in {"freed", "leaked", "lost"}}

(* Steps that move no client are stutters of WorkerClients.                *)
LEMMA RoutingStutters ==
  ASSUME UNCHANGED <<st, ipc, iWorkerIPCfd>>, pc # "ended", pc' # "ended"
  PROVE  UNCHANGED Routing!vars
BY Zenon DEF Routing!vars

(* The end of the worker, whatever ends it.                                *)
LEMMA RoutingEnd ==
  ASSUME ProcessEnds, pc # "ended"
  PROVE  Routing!End
BY Zenon DEF ProcessEnds, Routing!End

(* client_deregister lets its client go, and no other.                     *)
LEMMA RoutingLetGo ==
  ASSUME IInv, NEW c \in Clients, st[c] = "live", pc \in {"run", "send"},
         st' = [st EXCEPT ![c] = "freed"], pc' = "run",
         UNCHANGED <<iWorkerIPCfd, ipc>>
  PROVE  Routing!LetGo(c)
<1>1. iWorkerIPCfd # NoFd
  BY Zenon DEF IInv, TableInv, StartInv, Closing
<1>2. Serving' = Serving \ {c} /\ Gone' = Gone \union {c} /\ c \in Serving
  BY Zenon DEF IInv, TypeOK, Serving, Gone
<1> QED
  BY <1>1, <1>2, Zenon DEF Routing!LetGo, Serving, Gone

(* A client that is received is served, or is gone at once.                *)
LEMMA RoutingTake ==
  ASSUME IInv, workerp_ipc_callback, ipc # <<>>
  PROVE  Routing!Take
<1>1. PICK c \in Clients : c = Head(ipc) /\ st[c] = "ipc"
  BY IpcRest, Zenon
<1>2. iWorkerIPCfd # NoFd /\ pc = "run"
  BY Zenon DEF IInv, TableInv, StartInv, Closing, workerp_ipc_callback, Invoked
<1>3. \E s \in {"live", "leaked", "lost"} : st' = [st EXCEPT ![c] = s]
  BY <1>1, Zenon DEF workerp_ipc_callback, client_register_ev
<1>4. \/ Serving' = Serving \union {c} /\ Gone' = Gone
      \/ Gone' = Gone \union {c} /\ Serving' = Serving
  <2>1. /\ \A d \in Clients \ {c} : st'[d] = st[d]
        /\ st'[c] \in {"live", "leaked", "lost"}
    BY <1>3, Zenon DEF IInv, TypeOK
  <2>2. pc' = "run"
    BY <1>2, Zenon DEF workerp_ipc_callback
  <2>3. CASE st'[c] = "live"
    BY <1>1, <1>2, <2>1, <2>2, <2>3, Zenon DEF Serving, Gone
  <2>4. CASE st'[c] # "live"
    BY <1>1, <1>2, <2>1, <2>2, <2>4, Zenon DEF Serving, Gone
  <2> QED
    BY <2>3, <2>4, Zenon
<1>5. ipc' = Tail(ipc) /\ UNCHANGED <<pc, iWorkerIPCfd>>
  BY Zenon DEF workerp_ipc_callback, Received
<1> QED
  BY <1>1, <1>2, <1>4, <1>5, Zenon DEF Routing!Take, Serving, Gone

(* A client the master sends is new to the worker.                         *)
LEMMA RoutingArrive ==
  ASSUME IInv, NEW c \in Clients, send_fd_to_worker(c)
  PROVE  Routing!Arrive(c)
<1> USE DEF send_fd_to_worker
<1>1. iWorkerIPCfd # NoFd
  BY Zenon DEF IInv, TableInv, StartInv, Closing
<1>2. Serving' = Serving /\ Gone' = Gone /\ c \notin Serving \union Gone
  BY Zenon DEF IInv, TypeOK, Serving, Gone
<1>3. c \notin Routing!Queued
  BY Zenon DEF IInv, EventInv, QueueInv, Routing!Queued
<1> QED
  BY <1>1, <1>2, <1>3, Zenon DEF Routing!Arrive, Serving, Gone

(* A callback of a client lets it go, ends the worker or moves no client.  *)
LEMMA RoutingServe ==
  ASSUME IInv, NEW c \in Clients,
         client_callback_timeout(c) \/ client_callback_serve(c)
  PROVE  [Routing!Next]_Routing!vars
<1>1. st[c] = "live" /\ pc = "run"
  BY InvokedLive, Zenon
     DEF EventsOf, client_callback_timeout, client_callback_serve,
     serve_error, serve_eof, serve_request
<1>2. \/ /\ st' = [st EXCEPT ![c] = "freed"]
         /\ UNCHANGED <<pc, iWorkerIPCfd, ipc>>
      \/ ProcessEnds
      \/ UNCHANGED <<st, ipc, iWorkerIPCfd>> /\ pc' # "ended"
  <2>1. CASE client_callback_timeout(c) \/ serve_eof(c)
    BY <2>1, Zenon DEF client_callback_timeout, serve_eof, client_deregister
  <2>2. CASE serve_error(c)
    BY <1>1, <2>2, Zenon DEF serve_error
  <2>3. CASE serve_request(c)
    BY <2>3, Zenon DEF serve_request, client_deregister
  <2> QED
    BY <2>1, <2>2, <2>3, Zenon DEF client_callback_serve
<1> QED
  BY <1>1, <1>2, RoutingLetGo, RoutingEnd, RoutingStutters, SMTT(30)
     DEF Routing!Next

(* Nothing happens in a worker that has ended.                             *)
LEMMA EndedStays == ASSUME IInv, Next PROVE pc # "ended"
<1>1. CASE WorkerStep
  BY <1>1, Zenon
     DEF WorkerStep, workerp_entry_close, workerp_connect_ipc_socket,
       workerp_entry_loop, workerp_entry_exit, ev_poll, workerp_ipc_callback,
       workerp_callback_exitsig, client_callback_timeout,
       client_callback_serve, serve_error, serve_eof, serve_request, Invoked
<1>2. CASE logger_thread_close
  BY <1>2, Zenon DEF logger_thread_close, IInv, EventInv, LoopInv
<1> QED
  BY <1>1, <1>2, SMTT(30)
     DEF Next, send_returns, logger_thread_open, HasLogged, master_ends,
       sigint, killed, timer_expires, send_fd_to_worker, peer_sends, peer_ends

(* Every step of the worker is one of WorkerClients, or a stutter.         *)
LEMMA RoutingStep ==
  ASSUME IInv, [Next]_vars
  PROVE  [Routing!Next]_Routing!vars
<1>1. CASE UNCHANGED vars
  BY <1>1, Zenon DEF vars, Routing!vars
<1>2. CASE Next /\ ProcessEnds
  BY <1>2, EndedStays, RoutingEnd, Zenon DEF Routing!Next
<1>3. CASE WorkerStep /\ ~ProcessEnds
  <2>1. CASE workerp_entry_close \/ workerp_entry_loop \/ ev_poll
             \/ workerp_callback_exitsig
    BY <2>1, RoutingStutters, Zenon
       DEF workerp_entry_close, workerp_entry_loop, ev_poll,
       workerp_callback_exitsig, Invoked
  <2>2. CASE workerp_connect_ipc_socket
    <3>1. Free # {}
      <4>1. 0 \in DOMAIN fd /\ 1 \in DOMAIN fd
        BY ClientAssumption DEF IInv, TypeOK
      <4> QED
        BY <2>2, <4>1
        DEF IInv, TableInv, StartInv, Free, workerp_connect_ipc_socket
    <3>2. Min(Free) # NoFd /\ iWorkerIPCfd = NoFd
      BY <2>2, <3>1, OpenedOne
      DEF IInv, TableInv, StartInv, workerp_connect_ipc_socket
    <3> QED
      BY <1>3, <2>2, <3>2, SMTT(30)
      DEF workerp_connect_ipc_socket, Routing!Next, Routing!Connect
  <2>3. CASE workerp_ipc_callback
    BY <2>3, RoutingTake, RoutingStutters, Zenon
    DEF workerp_ipc_callback, Invoked, Routing!Next
  <2> QED
    BY <1>3, <2>1, <2>2, <2>3, RoutingServe, SMTT(30)
       DEF WorkerStep, workerp_entry_exit
<1>4. CASE send_returns /\ ~ProcessEnds
  <2>1. PICK c \in Clients : c = cur /\ st[c] = "live"
    BY <1>4, Zenon DEF IInv, TypeOK, EventInv, LoopInv, send_returns
  <2>2. Routing!LetGo(c)
    BY <1>4, <2>1, RoutingLetGo, Zenon DEF send_returns, client_deregister
  <2> QED
    BY <2>2, Zenon DEF Routing!Next
<1>5. CASE \E c \in Clients : send_fd_to_worker(c)
  BY <1>5, RoutingArrive, SMTT(30) DEF Routing!Next
<1>6. CASE /\ \/ logger_thread_open \/ logger_thread_close
              \/ master_ends \/ sigint
              \/ \E c \in Clients : timer_expires(c) \/ peer_sends(c) \/ peer_ends(c)
           /\ Next /\ ~ProcessEnds
  BY <1>6, EndedStays, RoutingStutters, Zenon DEF logger_thread_open,
     logger_thread_close, master_ends, sigint, timer_expires, peer_sends, peer_ends
<1> QED
  BY <1>1, <1>2, <1>3, <1>4, <1>5, <1>6, Zenon DEF Next, killed

(* Through timeouts, errors, resets and a full descriptor table the worker *)
(* takes each client once, in order, and lets it go once: what Workers     *)
(* takes a worker to do.                                                   *)
THEOREM RoutingCorrect == Spec => ImplementsRouting
<1>1. ASSUME Init PROVE Routing!Init
  BY <1>1, Zenon DEF Init, Routing!Init
<1> QED
  BY <1>1, Invariant, RoutingStep, PTL
     DEF Spec, ImplementsRouting, Routing!Spec

-----------------------------------------------------------------------------
(***************************************************************************)
(* The descriptors of the clients.                                         *)
(***************************************************************************)
INSTANCE FiniteSetTheorems

(* Which clients cost the worker a descriptor.                             *)
THEOREM AccountsCorrect == Spec => []DescriptorsAccounted
<1>1. IInv => DescriptorsAccounted
  <2> SUFFICES ASSUME IInv, pc # "ended", NEW c \in Clients
               PROVE  /\ st[c] \in {"live", "leaked"} => Cardinality(Held(c)) = 1
                      /\ st[c] \in {"away", "ipc", "lost"} => Held(c) = {}
                      /\ st[c] = "freed" =>
                           Held(c) = IF c \in shut THEN {} ELSE {0}
    BY Zenon DEF DescriptorsAccounted, Held
  <2>1. ASSUME NEW n, Held(c) = {n} PROVE Cardinality(Held(c)) = 1
    BY <2>1, FS_Singleton, Zenon
  <2> QED
    BY <2>1, Zenon DEF IInv, TableInv, HeldInv
<1> QED
  BY <1>1, Invariant, PTL
=============================================================================
