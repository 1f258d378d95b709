------------------------------- MODULE Client -------------------------------
(***************************************************************************)
(* One worker process from the closes in workerp_entry on: its event loop, *)
(* its clients and its table of descriptors (cew_client.c, the workerp_    *)
(* functions of cew_worker.c, the writing thread's use of its file).       *)
(*                                                                         *)
(* A step of the worker is one callback of the event loop.  The table      *)
(* holds descriptor 0 and the ones that are free at the fork; the others   *)
(* stay in use as long as the process.  A new descriptor is the lowest     *)
(* free one.  The master keeps a descriptor of every client open, so a     *)
(* connection ends by shutdown() only.                                     *)
(***************************************************************************)
EXTENDS Http, Integers, Sequences, FiniteSets, FiniteSetsExt

CONSTANTS
  Clients,
  Limit,    \* RLIMIT_NOFILE, less the descriptors outside the table
  MaxFaults \* bound: resets, SIGINTs and the end of the master

(* Room for the logfile, the IPC socket, the two of libev and a client; a  *)
(* client is none of the other users of a descriptor.                      *)
ASSUME ClientAssumption ==
  /\ Limit \in Nat /\ Limit > 4 /\ MaxFaults \in Nat
  /\ Clients \intersect {"nobody", "free", "std", "log", "ipc", "ev", "www"} = {}

VARIABLES
  pc,            \* where workerp_entry is; "send": in a send that blocks
  fd,            \* who uses each descriptor
  iWorkerIPCfd,
  LogfileFd,     \* of the writing thread
  st,            \* each client: "away", "ipc" (in the IPC socket), "live",
                 \* "freed", "leaked" (not registered), "lost" (not received)
  iSockfd,       \* of each live client
  data,          \* clients of which something has arrived and is unread
  peer,          \* "open", "eof", "reset", "spent" (recv told of the reset)
  shut,          \* clients whose connection was shut down
  io, timer,     \* clients with an active watcher
  due,           \* clients whose timer ran out
  pending,       \* events collected and not handled
  ipc,           \* the IPC socket
  master,        \* the master is there
  sig,           \* a SIGINT is caught and not collected
  done,          \* ev_break was called
  cur,           \* the client of a send that blocks
  faults         \* how many so far

loopVars == <<io, timer, due, pending>>
peerVars == <<data, peer>>
clientVars == <<st, iSockfd, shut>>
masterVars == <<ipc, master, sig>>
vars == <<pc, fd, iWorkerIPCfd, LogfileFd, clientVars, peerVars, loopVars,
          masterVars, done, cur, faults>>

Nobody == "nobody"
NoFd == -1

Init ==
  /\ pc = "close1"
  /\ fd = [n \in 0..(Limit - 1) |-> IF n = 0 THEN "std" ELSE "free"]
  /\ iWorkerIPCfd = NoFd /\ LogfileFd = NoFd
  /\ st = [c \in Clients |-> "away"]
  /\ iSockfd = [c \in Clients |-> NoFd]
  /\ peer = [c \in Clients |-> "open"]
  /\ data = {} /\ shut = {} /\ io = {} /\ timer = {} /\ due = {} /\ pending = {}
  /\ ipc = <<>> /\ master = TRUE /\ sig = FALSE
  /\ done = FALSE /\ cur = Nobody /\ faults = 0

Free == {n \in DOMAIN fd : fd[n] = "free"}
Fault == faults < MaxFaults /\ faults' = faults + 1
Opened(user) == [fd EXCEPT ![Min(Free)] = user]

(* The kernel closes what is open, also in the IPC socket; nothing is shut *)
(* down.                                                                   *)
ProcessEnds ==
  /\ pc' = "ended"
  /\ fd' = [n \in DOMAIN fd |-> "free"]
  /\ LogfileFd' = NoFd /\ iWorkerIPCfd' = NoFd
  /\ io' = {} /\ timer' = {} /\ due' = {} /\ pending' = {}
  /\ data' = {} /\ peer' = [c \in Clients |-> "open"]
  /\ iSockfd' = [c \in Clients |-> NoFd]
  /\ ipc' = <<>> /\ sig' = FALSE /\ done' = FALSE /\ cur' = Nobody
  /\ UNCHANGED <<st, shut, master, faults>>

-----------------------------------------------------------------------------
(***************************************************************************)
(* workerp_entry.                                                          *)
(***************************************************************************)

(* iMasterIPCAccept and iMasterIPCfd in a worker: the master sets them     *)
(* after the fork, and the entry was cleared before it.                    *)
iMasterIPC == 0

workerp_entry_close ==
  /\ pc \in {"close1", "close2"}
  /\ fd' = [fd EXCEPT ![iMasterIPC] = "free"]
  /\ pc' = IF pc = "close1" THEN "close2" ELSE "socket"
  /\ UNCHANGED <<iWorkerIPCfd, LogfileFd, clientVars, peerVars, loopVars,
                 masterVars, done, cur, faults>>

workerp_connect_ipc_socket ==
  /\ pc = "socket"
  /\ \/ /\ iWorkerIPCfd' = Min(Free)
        /\ fd' = Opened("ipc")
        /\ pc' = "loop"
        /\ UNCHANGED <<LogfileFd, clientVars, peerVars, loopVars, masterVars,
                       done, cur, faults>>
     \/ ProcessEnds

(* ev_default_loop and ev_signal_start open a descriptor each.             *)
workerp_entry_loop ==
  /\ pc \in {"loop", "signal"}
  /\ fd' = Opened("ev")
  /\ pc' = IF pc = "loop" THEN "signal" ELSE "run"
  /\ UNCHANGED <<iWorkerIPCfd, LogfileFd, clientVars, peerVars, loopVars,
                 masterVars, done, cur, faults>>

(* ev_run returns: do_exit.                                                *)
workerp_entry_exit ==
  /\ pc = "run" /\ done /\ pending = {}
  /\ ProcessEnds

-----------------------------------------------------------------------------
(***************************************************************************)
(* The writing thread opens its file for each batch.                       *)
(***************************************************************************)

(* Mutant: something is logged before the closes.                          *)
HasLogged_early == pc # "ended"

(* The first message after logger_init comes after the closes.             *)
HasLogged == pc \notin {"close1", "close2", "ended"}

logger_thread_open ==
  /\ HasLogged
  /\ LogfileFd = NoFd
  /\ \/ /\ Free # {}
        /\ LogfileFd' = Min(Free)
        /\ fd' = Opened("log")
        /\ UNCHANGED <<pc, iWorkerIPCfd, clientVars, peerVars, loopVars,
                       masterVars, done, cur, faults>>
     \/ Free = {} /\ ProcessEnds

logger_thread_close ==
  /\ LogfileFd # NoFd
  /\ fd' = [fd EXCEPT ![LogfileFd] = "free"]
  /\ LogfileFd' = NoFd
  /\ UNCHANGED <<pc, iWorkerIPCfd, clientVars, peerVars, loopVars, masterVars,
                 done, cur, faults>>

-----------------------------------------------------------------------------
(***************************************************************************)
(* libev: ev_run collects what is ready, then invokes the callbacks, the   *)
(* signal's first, then the timers', then those of descriptors.            *)
(***************************************************************************)
Readable(c) == c \in data \/ peer[c] # "open"

Collected ==
  UNION {{<<"io", c>> : c \in {d \in io : Readable(d)}},
         {<<"timer", c>> : c \in due},
         IF ipc # <<>> \/ ~master THEN {<<"ipc">>} ELSE {},
         IF sig THEN {<<"sigint">>} ELSE {}}

ev_poll ==
  /\ pc = "run" /\ ~done /\ pending = {}
  /\ Collected # {}
  /\ pending' = Collected
  /\ due' = {} /\ sig' = FALSE
  /\ UNCHANGED <<pc, fd, iWorkerIPCfd, LogfileFd, clientVars, peerVars, io,
                 timer, ipc, master, done, cur, faults>>

(* The callback of event e is invoked.                                     *)
Invoked(e) ==
  /\ pc = "run"
  /\ e \in pending
  /\ e[1] # "sigint" => <<"sigint">> \notin pending
  /\ e[1] \notin {"sigint", "timer"} => \A f \in pending : f[1] # "timer"

(* Time passes; it makes no difference when, between two polls.            *)
timer_expires(c) ==
  /\ pc = "run" /\ pending = {}
  /\ c \in timer \ due
  /\ due' = due \union {c}
  /\ UNCHANGED <<pc, fd, iWorkerIPCfd, LogfileFd, clientVars, peerVars, io,
                 timer, pending, masterVars, done, cur, faults>>

-----------------------------------------------------------------------------
(***************************************************************************)
(* cew_client.c.                                                           *)
(***************************************************************************)

EventsOf(c) == {<<"io", c>>, <<"timer", c>>}

(* Mutant: the timer is not stopped.                                       *)
StopWatchers_timer(c) ==
  /\ io' = io \ {c}
  /\ pending' = pending \ {<<"io", c>>}
  /\ UNCHANGED <<timer, due>>

(* ev_timer_stop, ev_io_stop: both drop a pending event of the watcher.    *)
StopWatchers(c) ==
  /\ timer' = timer \ {c} /\ due' = due \ {c}
  /\ io' = io \ {c}
  /\ pending' = pending \ EventsOf(c)

(* Mutant: shutdown() without close().                                     *)
CloseSocket_noclose(c, table) ==
  /\ data' = data \ {c} /\ peer' = [peer EXCEPT ![c] = "eof"]
  /\ fd' = table
  /\ shut' = IF iSockfd[c] # 0 THEN shut \union {c} ELSE shut

(* shutdown, read what is left, close; none of it for descriptor 0.        *)
CloseSocket(c, table) ==
  IF iSockfd[c] # 0
  THEN /\ shut' = shut \union {c}
       /\ data' = data \ {c} /\ peer' = [peer EXCEPT ![c] = "eof"]
       /\ fd' = [table EXCEPT ![iSockfd[c]] = "free"]
  ELSE fd' = table /\ UNCHANGED <<shut, peerVars>>

(* Mutant: iSockfd is not reset.                                           *)
client_deregister_noreset(c, table) ==
  /\ StopWatchers(c)
  /\ CloseSocket(c, table)
  /\ st' = [st EXCEPT ![c] = "freed"]
  /\ UNCHANGED iSockfd

(* Here table is the descriptor table at the call.                         *)
client_deregister(c, table) ==
  /\ StopWatchers(c)
  /\ CloseSocket(c, table)
  /\ iSockfd' = [iSockfd EXCEPT ![c] = NoFd]
  /\ st' = [st EXCEPT ![c] = "freed"]

client_callback_timeout(c) ==
  /\ Invoked(<<"timer", c>>)
  /\ client_deregister(c, fd)
  /\ UNCHANGED <<pc, iWorkerIPCfd, LogfileFd, masterVars, done, cur, faults>>

(* recv returned -1: the watcher stays.                                    *)
serve_error(c) ==
  /\ Invoked(<<"io", c>>)
  /\ c \notin data /\ peer[c] = "reset"
  /\ peer' = [peer EXCEPT ![c] = "spent"]
  /\ pending' = pending \ {<<"io", c>>}
  /\ UNCHANGED <<pc, fd, iWorkerIPCfd, LogfileFd, clientVars, data, io, timer,
                 due, masterVars, done, cur, faults>>

(* recv returned 0.                                                        *)
serve_eof(c) ==
  /\ Invoked(<<"io", c>>)
  /\ c \notin data /\ peer[c] \in {"eof", "spent"}
  /\ client_deregister(c, fd)
  /\ UNCHANGED <<pc, iWorkerIPCfd, LogfileFd, masterVars, done, cur, faults>>

(* recv returned data: http_handle_client_request opens the file (and      *)
(* never closes it) and sends the answer.  send returns and the client is  *)
(* deregistered; or it waits for the peer to read; or it raises SIGPIPE.   *)
serve_request(c) ==
  /\ Invoked(<<"io", c>>)
  /\ c \in data
  /\ \E req \in Requests, opened \in BOOLEAN :
       /\ opened => OpensFile(req) /\ Free # {}
       /\ LET table == IF opened THEN Opened("www") ELSE fd
              answer == http_handle_client_request(req, opened) IN
          \/ /\ client_deregister(c, table)
             /\ UNCHANGED <<pc, iWorkerIPCfd, LogfileFd, masterVars, done,
                            cur, faults>>
          \/ /\ answer.content # NoName /\ peer[c] # "reset"
             /\ pc' = "send" /\ cur' = c
             /\ fd' = table
             /\ data' = data \ {c}
             /\ due' = due \ {c}
             /\ pending' = pending \ EventsOf(c)
             /\ UNCHANGED <<iWorkerIPCfd, LogfileFd, clientVars, peer, io,
                            timer, masterVars, done, faults>>
          \/ peer[c] = "reset" /\ ProcessEnds

client_callback_serve(c) == serve_error(c) \/ serve_eof(c) \/ serve_request(c)

(* A send that waited returns.                                             *)
send_returns ==
  /\ pc = "send"
  /\ \/ /\ client_deregister(cur, fd)
        /\ pc' = "run" /\ cur' = Nobody
        /\ UNCHANGED <<iWorkerIPCfd, LogfileFd, masterVars, done, faults>>
     \/ peer[cur] = "reset" /\ ProcessEnds

(* Mutant: the timer is not started.                                       *)
StartWatchers_notimer(c) == io' = io \union {c} /\ UNCHANGED timer

StartWatchers(c) == io' = io \union {c} /\ timer' = timer \union {c}

(* getpeername fails when the connection was reset: the descriptor and the *)
(* memory are left behind.                                                 *)
client_register_ev(c) ==
  \/ /\ peer[c] # "reset"
     /\ st' = [st EXCEPT ![c] = "live"]
     /\ iSockfd' = [iSockfd EXCEPT ![c] = Min(Free)]
     /\ StartWatchers(c)
  \/ /\ peer[c] = "reset"
     /\ st' = [st EXCEPT ![c] = "leaked"]
     /\ UNCHANGED <<iSockfd, io, timer>>

(* Mutant: MSG_PEEK, the message stays.                                    *)
Received_peek == ipc

(* The IPC socket after recvmsg.                                           *)
Received == Tail(ipc)

(* recvmsg installs the descriptor, or drops it when none is free; without *)
(* a master it returns 0.                                                  *)
workerp_ipc_callback ==
  /\ Invoked(<<"ipc">>)
  /\ pending' = pending \ {<<"ipc">>}
  /\ \/ /\ ipc # <<>> /\ Free # {}
        /\ fd' = Opened(Head(ipc))
        /\ client_register_ev(Head(ipc))
        /\ ipc' = Received
     \/ /\ ipc # <<>> /\ Free = {}
        /\ st' = [st EXCEPT ![Head(ipc)] = "lost"]
        /\ ipc' = Received
        /\ UNCHANGED <<fd, iSockfd, io, timer>>
     \/ ipc = <<>> /\ UNCHANGED <<fd, st, iSockfd, io, timer, ipc>>
  /\ UNCHANGED <<pc, iWorkerIPCfd, LogfileFd, shut, peerVars, due, master, sig,
                 done, cur, faults>>

(* Mutant: the loop is not broken.                                         *)
ev_break_not == UNCHANGED done

(* The callbacks that are pending are still invoked.                       *)
ev_break == done' = TRUE

workerp_callback_exitsig ==
  /\ Invoked(<<"sigint">>)
  /\ pending' = pending \ {<<"sigint">>}
  /\ ev_break
  /\ UNCHANGED <<pc, fd, iWorkerIPCfd, LogfileFd, clientVars, peerVars, io,
                 timer, due, masterVars, cur, faults>>
-----------------------------------------------------------------------------
(***************************************************************************)
(* The peers, the master and signals.                                      *)
(***************************************************************************)

peer_sends(c) ==
  /\ st[c] \in {"ipc", "live"} /\ pc # "ended"
  /\ peer[c] = "open"
  /\ c \notin data
  /\ data' = data \union {c}
  /\ UNCHANGED <<pc, fd, iWorkerIPCfd, LogfileFd, clientVars, peer, loopVars,
                 masterVars, done, cur, faults>>

peer_ends(c) ==
  /\ st[c] \in {"ipc", "live"} /\ pc # "ended"
  /\ \/ /\ peer[c] = "open" /\ peer' = [peer EXCEPT ![c] = "eof"]
        /\ UNCHANGED faults
     \/ /\ peer[c] \in {"open", "eof"} /\ peer' = [peer EXCEPT ![c] = "reset"]
        /\ Fault
  /\ UNCHANGED <<pc, fd, iWorkerIPCfd, LogfileFd, clientVars, data, loopVars,
                 masterVars, done, cur>>

(* send_fd_to_worker in the master.                                        *)
send_fd_to_worker(c) ==
  /\ master /\ pc \in {"loop", "signal", "run", "send"}
  /\ st[c] = "away"
  /\ st' = [st EXCEPT ![c] = "ipc"]
  /\ ipc' = Append(ipc, c)
  /\ UNCHANGED <<pc, fd, iWorkerIPCfd, LogfileFd, iSockfd, shut, peerVars,
                 loopVars, master, sig, done, cur, faults>>

master_ends ==
  /\ master /\ pc # "ended"
  /\ master' = FALSE
  /\ Fault
  /\ UNCHANGED <<pc, fd, iWorkerIPCfd, LogfileFd, clientVars, peerVars,
                 loopVars, ipc, sig, done, cur>>

(* SIGINT is caught from ev_signal_start on and restarts a send.           *)
sigint ==
  /\ pc \in {"run", "send"} /\ ~sig /\ ~done
  /\ sig' = TRUE
  /\ Fault
  /\ UNCHANGED <<pc, fd, iWorkerIPCfd, LogfileFd, clientVars, peerVars,
                 loopVars, ipc, master, done, cur>>

(* SIGTERM, SIGKILL, or SIGINT before that.                                *)
killed ==
  /\ pc # "ended"
  /\ ProcessEnds

-----------------------------------------------------------------------------

WorkerStep ==
  \/ workerp_entry_close
  \/ workerp_connect_ipc_socket
  \/ workerp_entry_loop
  \/ workerp_entry_exit
  \/ ev_poll
  \/ workerp_ipc_callback
  \/ workerp_callback_exitsig
  \/ \E c \in Clients : client_callback_timeout(c) \/ client_callback_serve(c)

Next ==
  \/ WorkerStep
  \/ send_returns
  \/ logger_thread_open \/ logger_thread_close
  \/ master_ends \/ sigint \/ killed
  \/ \E c \in Clients : \/ timer_expires(c) \/ send_fd_to_worker(c)
                        \/ peer_sends(c) \/ peer_ends(c)

(* The worker runs and time passes, so that a timer has run out by the     *)
(* time of some poll, however many there are.  A peer need not read: only  *)
(* a reset is sure to end a send that waits.                               *)
Spec ==
  /\ Init /\ [][Next]_vars
  /\ WF_vars(WorkerStep)
  /\ WF_vars(pc = "send" /\ peer[cur] = "reset" /\ send_returns)
  /\ \A c \in Clients : SF_vars(timer_expires(c))

-----------------------------------------------------------------------------
(***************************************************************************)
(* Properties.                                                             *)
(***************************************************************************)
(* The types of the worker's state.                                        *)
TypeOK ==
  /\ pc \in {"close1", "close2", "socket", "loop", "signal", "run", "send",
             "ended"}
  /\ fd \in [0..(Limit - 1) ->
             {"free", "std", "log", "ipc", "ev", "www"} \union Clients]
  /\ iWorkerIPCfd \in NoFd..(Limit - 1) /\ LogfileFd \in NoFd..(Limit - 1)
  /\ st \in [Clients -> {"away", "ipc", "live", "freed", "leaked", "lost"}]
  /\ iSockfd \in [Clients -> NoFd..(Limit - 1)]
  /\ peer \in [Clients -> {"open", "eof", "reset", "spent"}]
  /\ data \subseteq Clients /\ shut \subseteq Clients /\ io \subseteq Clients
  /\ timer \subseteq Clients /\ due \subseteq timer
  /\ pending \subseteq {<<"ipc">>, <<"sigint">>} \union UNION {EventsOf(c) : c \in Clients}
  /\ ipc \in Seq(Clients)
  /\ master \in BOOLEAN /\ sig \in BOOLEAN /\ done \in BOOLEAN
  /\ cur \in Clients \union {Nobody}
  /\ faults \in 0..MaxFaults
  /\ \A c \in Clients : iSockfd[c] # NoFd <=> st[c] = "live" /\ pc # "ended"
  /\ pc = "send" <=> cur # Nobody

(* A callback gets its client from the address of the watcher              *)
(* (cew_client.c:61, 71), and recv blocks when there is nothing to read:   *)
(* an event that is collected or due belongs to a client that is still     *)
(* allocated, however the callbacks before it ended, and a read event to   *)
(* one that can be read.                                                   *)
NoStaleEvent ==
  /\ \A c \in io \union timer : st[c] = "live"
  /\ \A c \in Clients : EventsOf(c) \intersect pending # {} => st[c] = "live"
  /\ \A c \in Clients : <<"io", c>> \in pending => Readable(c)

(* The numbers the code keeps name what it believes, although workerp_entry *)
(* closes descriptor 0 twice (cew_worker.c:205-208) while the writing      *)
(* thread opens its file: logfile, IPC socket and clients never share a    *)
(* descriptor nor use a closed one.                                        *)
OwnsDescriptor ==
  /\ LogfileFd # NoFd => fd[LogfileFd] = "log"
  /\ iWorkerIPCfd # NoFd => fd[iWorkerIPCfd] = "ipc"
  /\ \A c \in Clients : st[c] = "live" /\ pc # "ended" =>
       fd[iSockfd[c]] = c

(* Which clients cost the worker a descriptor: the live ones, those whose  *)
(* registration failed (cew_client.c:107), and one that was on descriptor  *)
(* 0 when it was deregistered (cew_client.c:40), which is then not shut    *)
(* down either.  Every other client is shut down when its memory is freed. *)
DescriptorsAccounted ==
  pc # "ended" => \A c \in Clients :
    LET held == {n \in DOMAIN fd : fd[n] = c} IN
    /\ st[c] \in {"live", "leaked"} => Cardinality(held) = 1
    /\ st[c] \in {"away", "ipc", "lost"} => held = {}
    /\ st[c] = "freed" => held = IF c \in shut THEN {} ELSE {0}

(* "First shutdown the socket, this will send and end to the client ...    *)
(* Without a shutdown, the client still things its connected, and waits    *)
(* for data." (cew_client.c:34-38): a deregistered client is shut down.    *)
DeregisterEndsConnection == \A c \in Clients : st[c] = "freed" => c \in shut

(* What is about to be sent fits what was read (cew_http.c:140), whatever  *)
(* has arrived and whether or not a descriptor is left for the file: 404   *)
(* exactly for a well-formed request for a file that is not there; content *)
(* only of the file asked for, names compared in lower case and the empty  *)
(* name being index.html; nothing for a request line cut by its arrival in *)
(* parts.                                                                  *)
AnswerFollowsRequest ==
  \A c \in data : <<"io", c>> \in pending =>
    \A req \in Requests, opened \in BOOLEAN :
      (opened => OpensFile(req) /\ Free # {}) =>
        AnswerFits(req, http_handle_client_request(req, opened))

(* Unless a send waits for ever for its peer to read, each client passed   *)
(* to the worker is deregistered, lost or left behind, or the worker ends: *)
(* by an answer, by the peer, or by the timer, however busy the loop is    *)
(* kept by the other clients or a master that is gone.                     *)
ClientReleased ==
  []<>(pc # "send") =>
    \A c \in Clients :
      (st[c] = "ipc") ~> (pc = "ended" \/ st[c] \in {"freed", "leaked", "lost"})

(* The worker as the master sees it.                                       *)
Routing == INSTANCE WorkerClients WITH
  phase <- IF pc = "ended" THEN "ended"
           ELSE IF iWorkerIPCfd = NoFd THEN "starting" ELSE "up",
  serving <- {c \in Clients : st[c] = "live" /\ pc # "ended"},
  gone <- {c \in Clients : st[c] \in {"freed", "leaked", "lost"}}

(* Through timeouts, errors, resets and a full descriptor table the worker *)
(* does what Workers takes a worker to do (cew_worker.c:170): each client  *)
(* is taken once, in order, and let go once.                               *)
ImplementsRouting == Routing!Spec

(* A worker in its event loop ends on SIGINT, with the same exception.     *)
SigintEnds == []<>(pc # "send") => (sig ~> (pc = "ended"))
=============================================================================
