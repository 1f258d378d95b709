------------------------------ MODULE Workers ------------------------------
(***************************************************************************)
(* The processes of cewserver (cew_main.c, cew_worker.c, cew_socket.c,     *)
(* cew_exit.c): the master forks its workers one after the other, meets    *)
(* each at a unix socket, hands accepted clients to them in turn, and      *)
(* stops them.  A worker is a copy of the master made by fork(): its       *)
(* gWorkerAdmin names itself and every worker forked before it.            *)
(*                                                                         *)
(* Processes are numbered: Master is -1, worker i is i.  A step is one     *)
(* system call another process can observe.  The server's own work for a   *)
(* client, logging and libev are not modelled here.                        *)
(***************************************************************************)
EXTENDS Integers, Sequences, FiniteSets, FiniteSetsExt

CONSTANTS
  iWantedWorkers,  \* the argument of worker_init (4)
  UintRange,       \* the number of values of uint32_t (2^32)
  IPCMax,          \* descriptors that fit in an IPC socket
  MaxClients,      \* bound: clients that connect
  MaxSignals,      \* bound: signals from outside
  MaxFaults        \* bound: system calls that fail

ASSUME WorkersAssumption ==
  /\ iWantedWorkers \in Nat \ {0}
  /\ UintRange \in Nat \ {0} /\ UintRange > iWantedWorkers
  /\ IPCMax \in Nat \ {0}
  /\ MaxClients \in Nat /\ MaxSignals \in Nat /\ MaxFaults \in Nat

Master == -1
Workers == 0..(iWantedWorkers - 1)
Processes == {Master} \union Workers
NoClient == 0

Startup == {"fork", "bind", "listen", "accept", "setup"}

VARIABLES
  mpc,            \* where the master is
  i,              \* the loop variable of worker_init
  uiCurrWorkers,
  psWorker,       \* the non-NULL entries of gWorkerAdmin in each process
  wpc,            \* where each worker is
  IPCFile,        \* "none", "bound" or "listening"
  conn,           \* IPC connection: "none", "pending" (in the backlog), "open"
  term,           \* a SIGTERM sent by worker_destroy is on its way
  NextWorker,     \* the static of worker_route_client
  iSockfd,        \* the client the master holds in socket_accept_client
  ipc,            \* clients on their way to each worker
  serving,        \* clients registered in each worker
  routed,         \* history: clients each worker was chosen for
  handled,        \* history: clients a worker deregistered or could not register
  unrecorded,     \* history: workers whose entry a failed worker_init freed
  clients, signals, faults  \* how many so far

startVars == <<i, uiCurrWorkers, conn, unrecorded>>
clientVars == <<NextWorker, iSockfd, ipc, serving, routed, handled, clients>>
vars == <<mpc, startVars, psWorker, wpc, IPCFile, term, clientVars, signals,
          faults>>

(* static uint32_t NextWorker = -1.                                        *)
Init ==
  /\ mpc = "fork" /\ i = 0 /\ uiCurrWorkers = 0
  /\ psWorker = [p \in Processes |-> {}]
  /\ wpc = [w \in Workers |-> "none"]
  /\ IPCFile = [w \in Workers |-> "none"]
  /\ conn = [w \in Workers |-> "none"]
  /\ term = [w \in Workers |-> FALSE]
  /\ NextWorker = UintRange - 1
  /\ iSockfd = NoClient
  /\ ipc = [w \in Workers |-> <<>>]
  /\ serving = [w \in Workers |-> {}]
  /\ routed = [w \in Workers |-> 0]
  /\ unrecorded = {} /\ handled = {}
  /\ clients = 0 /\ signals = 0 /\ faults = 0

Running(w) == wpc[w] \notin {"none", "killed", "exited"}

(* A system call fails.                                                    *)
Fault == faults < MaxFaults /\ faults' = faults + 1

-----------------------------------------------------------------------------
(***************************************************************************)
(* worker_init: the master starts worker i.                                *)
(***************************************************************************)

(* Mutant: entries are allocated one iteration ahead.                      *)
ForkedEntries_ahead == psWorker[Master] \union ({i, i + 1} \intersect Workers)

(* gWorkerAdmin at the fork of worker i.                                   *)
ForkedEntries == psWorker[Master] \union {i}

worker_init_fork ==
  /\ mpc = "fork"
  /\ \/ /\ psWorker' = [psWorker EXCEPT ![Master] = ForkedEntries,
                                        ![i] = ForkedEntries]
        /\ wpc' = [wpc EXCEPT ![i] = "entry"]
        /\ mpc' = "bind"
        /\ UNCHANGED faults
     \/ /\ Fault
        /\ mpc' = "exit"
        /\ UNCHANGED <<psWorker, wpc>>
  /\ UNCHANGED <<startVars, IPCFile, term, clientVars, signals>>

(* Mutant: main ignores the failure of worker_init.                        *)
exit_free_worker_ignored ==
  /\ Fault
  /\ psWorker' = [psWorker EXCEPT ![Master] = @ \ {i}]
  /\ unrecorded' = unrecorded \union {i}
  /\ mpc' = "setup"

(* worker_create_ipc_socket failed: the entry of the worker is freed, and  *)
(* main leaves through do_exit_with_errno.                                 *)
exit_free_worker ==
  /\ Fault
  /\ psWorker' = [psWorker EXCEPT ![Master] = @ \ {i}]
  /\ unrecorded' = unrecorded \union {i}
  /\ mpc' = "exit"

(* socket, the IPC folder, unlink of a leftover, bind: the file appears.   *)
worker_create_ipc_socket_bind ==
  /\ mpc = "bind"
  /\ \/ /\ IPCFile' = [IPCFile EXCEPT ![i] = "bound"]
        /\ mpc' = "listen"
        /\ UNCHANGED <<psWorker, unrecorded, faults>>
     \/ exit_free_worker /\ UNCHANGED IPCFile
  /\ UNCHANGED <<i, uiCurrWorkers, conn, wpc, term, clientVars, signals>>

(* chmod, listen.                                                          *)
worker_create_ipc_socket_listen ==
  /\ mpc = "listen"
  /\ \/ /\ IPCFile' = [IPCFile EXCEPT ![i] =
                         IF @ = "bound" THEN "listening" ELSE @]
        /\ mpc' = "accept"
        /\ UNCHANGED <<psWorker, unrecorded, faults>>
     \/ exit_free_worker /\ UNCHANGED IPCFile
  /\ UNCHANGED <<i, uiCurrWorkers, conn, wpc, term, clientVars, signals>>

(* The master ends without clean-up: nobody listens at IPCFile[i] then.    *)
Gone ==
  /\ mpc' = "gone"
  /\ IPCFile' = [w \in Workers |-> IF w = i /\ IPCFile[w] = "listening"
                                   THEN "bound" ELSE IPCFile[w]]

(* Mutant: "<=" for "<" in the loop of worker_init.                        *)
MoreWorkers_onemore(n) == n <= iWantedWorkers

MoreWorkers(n) == n < iWantedWorkers

(* accept blocks until worker i has connected; uiCurrWorkers++.  When      *)
(* accept fails the process calls exit() and cleans nothing up.            *)
worker_create_ipc_socket_accept ==
  /\ mpc = "accept"
  /\ \/ /\ conn[i] = "pending"
        /\ conn' = [conn EXCEPT ![i] = "open"]
        /\ uiCurrWorkers' = uiCurrWorkers + 1
        /\ i' = i + 1
        /\ mpc' = IF MoreWorkers(i') THEN "fork" ELSE "setup"
        /\ UNCHANGED <<IPCFile, faults>>
     \/ Fault /\ Gone /\ UNCHANGED <<conn, uiCurrWorkers, i>>
  /\ UNCHANGED <<unrecorded, psWorker, wpc, term, clientVars, signals>>

(* socket_setup, and the watchers of main.                                 *)
socket_setup ==
  /\ mpc = "setup"
  /\ \/ mpc' = "run" /\ UNCHANGED faults
     \/ Fault /\ mpc' = "exit"
  /\ UNCHANGED <<startVars, psWorker, wpc, IPCFile, term, clientVars, signals>>

-----------------------------------------------------------------------------
(***************************************************************************)
(* workerp_entry: worker w.                                                *)
(***************************************************************************)

(* Logger, close, chdir; then access() until the IPC file exists.          *)
workerp_entry(w) ==
  /\ wpc[w] = "entry"
  /\ \/ wpc' = [wpc EXCEPT ![w] = "wait"] /\ UNCHANGED faults
     \/ Fault /\ wpc' = [wpc EXCEPT ![w] = "exit"]
  /\ UNCHANGED <<mpc, startVars, psWorker, IPCFile, term, clientVars, signals>>

(* Mutant: the condition of the loop is inverted.                          *)
workerp_connect_ipc_socket_wait_inverted(w) ==
  /\ wpc[w] = "wait"
  /\ IPCFile[w] = "none"
  /\ wpc' = [wpc EXCEPT ![w] = "connect"]
  /\ UNCHANGED <<mpc, startVars, psWorker, IPCFile, term, clientVars, signals,
                 faults>>

workerp_connect_ipc_socket_wait(w) ==
  /\ wpc[w] = "wait"
  /\ IPCFile[w] # "none"
  /\ wpc' = [wpc EXCEPT ![w] = "connect"]
  /\ UNCHANGED <<mpc, startVars, psWorker, IPCFile, term, clientVars, signals,
                 faults>>

(* socket, connect, fcntl.  connect is refused by a socket that does not   *)
(* listen yet (ECONNREFUSED), and when the file is gone again (ENOENT).    *)
workerp_connect_ipc_socket(w) ==
  /\ wpc[w] = "connect"
  /\ \/ /\ IPCFile[w] = "listening"
        /\ conn' = [conn EXCEPT ![w] = "pending"]
        /\ wpc' = [wpc EXCEPT ![w] = "run"]
        /\ UNCHANGED faults
     \/ /\ IPCFile[w] # "listening"
        /\ wpc' = [wpc EXCEPT ![w] = "exit"]
        /\ UNCHANGED <<conn, faults>>
     \/ /\ Fault
        /\ wpc' = [wpc EXCEPT ![w] = "exit"]
        /\ UNCHANGED conn
  /\ UNCHANGED <<mpc, i, uiCurrWorkers, unrecorded, psWorker, IPCFile, term,
                 clientVars, signals>>

-----------------------------------------------------------------------------
(***************************************************************************)
(* Clients.                                                                *)
(***************************************************************************)

(* Mutant: the counter starts at 0 instead of -1, in effect.               *)
NextInTurn_second == ((NextWorker + 2) % UintRange) % uiCurrWorkers

(* (NextWorker + 1) % uiCurrWorkers in uint32_t.                           *)
NextInTurn == ((NextWorker + 1) % UintRange) % uiCurrWorkers

(* accept (a failed accept only logs) and the choice of the worker.        *)
socket_accept_client ==
  /\ mpc = "run"
  /\ clients < MaxClients
  /\ clients' = clients + 1
  /\ iSockfd' = clients + 1
  /\ NextWorker' = NextInTurn
  /\ routed' = [routed EXCEPT ![NextWorker'] = @ + 1]
  /\ mpc' = "send"
  /\ UNCHANGED <<startVars, psWorker, wpc, IPCFile, term, ipc, serving,
                 handled, signals, faults>>

(* Worker w holds its end of the IPC connection.                           *)
Connected(w) == wpc[w] \in {"run", "exit"} /\ w \in psWorker[w]

(* Mutant: a full socket drops the client (MSG_DONTWAIT).                  *)
send_fd_to_worker_drop ==
  /\ mpc = "send"
  /\ ipc' = IF Connected(NextWorker) /\ Len(ipc[NextWorker]) < IPCMax
            THEN [ipc EXCEPT ![NextWorker] = Append(@, iSockfd)] ELSE ipc
  /\ iSockfd' = NoClient
  /\ mpc' = "run"
  /\ UNCHANGED <<startVars, psWorker, wpc, IPCFile, term, NextWorker, serving,
                 routed, handled, clients, signals, faults>>

(* sendmsg blocks while the socket is full and fails when the worker is    *)
(* gone; either way the master goes back to its loop.                      *)
send_fd_to_worker ==
  /\ mpc = "send"
  /\ Connected(NextWorker) => Len(ipc[NextWorker]) < IPCMax
  /\ ipc' = IF Connected(NextWorker)
            THEN [ipc EXCEPT ![NextWorker] = Append(@, iSockfd)] ELSE ipc
  /\ iSockfd' = NoClient
  /\ mpc' = "run"
  /\ UNCHANGED <<startVars, psWorker, wpc, IPCFile, term, NextWorker, serving,
                 routed, handled, clients, signals, faults>>

(* The descriptor at the head of the IPC socket.                           *)
receive_fd_from_worker(w) == Head(ipc[w])

(* Mutant: ev_io_start of the IPC watcher is missing.                      *)
workerp_ipc_callback_notstarted(w) == FALSE

(* Mutant: the message stays in the socket (MSG_PEEK).                     *)
workerp_ipc_callback_peek(w) ==
  /\ wpc[w] = "run"
  /\ ipc[w] # <<>>
  /\ serving' = [serving EXCEPT ![w] = @ \union {receive_fd_from_worker(w)}]
  /\ UNCHANGED <<mpc, startVars, psWorker, wpc, IPCFile, term, NextWorker,
                 iSockfd, ipc, routed, handled, clients, signals, faults>>

(* recvmsg, client_register_ev, which may fail.                            *)
workerp_ipc_callback(w) ==
  /\ wpc[w] = "run"
  /\ ipc[w] # <<>>
  /\ ipc' = [ipc EXCEPT ![w] = Tail(@)]
  /\ \/ /\ serving' = [serving EXCEPT ![w] = @ \union {receive_fd_from_worker(w)}]
        /\ UNCHANGED <<handled, faults>>
     \/ /\ Fault
        /\ handled' = handled \union {receive_fd_from_worker(w)}
        /\ UNCHANGED serving
  /\ UNCHANGED <<mpc, startVars, psWorker, wpc, IPCFile, term, NextWorker,
                 iSockfd, routed, clients, signals>>

(* The worker is done with a client (client_deregister).                   *)
client_deregister(w) ==
  /\ wpc[w] = "run"
  /\ \E c \in serving[w] : /\ serving' = [serving EXCEPT ![w] = @ \ {c}]
                            /\ handled' = handled \union {c}
  /\ UNCHANGED <<mpc, startVars, psWorker, wpc, IPCFile, term, NextWorker,
                 iSockfd, ipc, routed, clients, signals, faults>>

-----------------------------------------------------------------------------
(***************************************************************************)
(* Signals and the end of a process.                                       *)
(***************************************************************************)
(* SIGINT or SIGTERM to the master: its handlers exist only once the event *)
(* loop is set up.  SIGKILL ends it anywhere.                              *)
callback_exitsig ==
  /\ signals < MaxSignals
  /\ signals' = signals + 1
  /\ \/ mpc = "run" /\ mpc' = "exit" /\ UNCHANGED IPCFile
     \/ mpc \notin {"done", "gone"} /\ Gone
  /\ UNCHANGED <<startVars, psWorker, wpc, term, clientVars, faults>>

(* SIGINT to a worker in its event loop; SIGKILL, SIGTERM, or a SIGINT     *)
(* before the handler exists.                                              *)
workerp_callback_exitsig(w) ==
  /\ signals < MaxSignals
  /\ signals' = signals + 1
  /\ \/ wpc[w] = "run" /\ wpc' = [wpc EXCEPT ![w] = "exit"]
     \/ Running(w) /\ wpc' = [wpc EXCEPT ![w] = "killed"]
  /\ UNCHANGED <<mpc, startVars, psWorker, IPCFile, term, clientVars, faults>>

(* SIGTERM of worker_destroy arrives: a worker has no handler for it.      *)
terminate(w) ==
  /\ term[w]
  /\ Running(w)
  /\ wpc' = [wpc EXCEPT ![w] = "killed"]
  /\ term' = [term EXCEPT ![w] = FALSE]
  /\ UNCHANGED <<mpc, startVars, psWorker, IPCFile, clientVars, signals,
                 faults>>

(* The entry worker_destroy is at, in process p.                           *)
Entry(p) == Min(psWorker[p])

(* Mutant: no signal is sent.                                              *)
kill_nosignal(k) == UNCHANGED term

(* kill() succeeds on a zombie too, and then has no effect.                *)
kill(k) == term' = [term EXCEPT ![k] = Running(k)]

(* Mutant: the master does not wait for the worker.                        *)
Waited_nowait(k) == TRUE

(* waitpid returns in the master.                                          *)
Waited(k) == ~Running(k)

(* worker_destroy in the master: SIGTERM, waitpid, and then unlink and     *)
(* free, for each entry.                                                   *)
worker_destroy_kill ==
  /\ mpc = "exit"
  /\ psWorker[Master] # {}
  /\ kill(Entry(Master))
  /\ mpc' = "waitpid"
  /\ UNCHANGED <<startVars, psWorker, wpc, IPCFile, clientVars, signals,
                 faults>>

worker_destroy_wait ==
  /\ mpc = "waitpid"
  /\ Waited(Entry(Master))
  /\ IPCFile' = [IPCFile EXCEPT ![Entry(Master)] = "none"]
  /\ psWorker' = [psWorker EXCEPT ![Master] = @ \ {Entry(Master)}]
  /\ mpc' = "exit"
  /\ UNCHANGED <<startVars, wpc, term, clientVars, signals, faults>>

exit_cleanup ==
  /\ mpc = "exit"
  /\ psWorker[Master] = {}
  /\ mpc' = "done"
  /\ UNCHANGED <<startVars, psWorker, wpc, IPCFile, term, clientVars, signals,
                 faults>>

(* worker_destroy in worker w: its own entry (iMe) costs it the IPC socket; *)
(* for the entries it inherited it does what the master does, except that  *)
(* waitpid fails at once: they are not its children.                       *)
worker_destroy(w) ==
  /\ wpc[w] = "exit"
  /\ psWorker[w] # {}
  /\ psWorker' = [psWorker EXCEPT ![w] = @ \ {Entry(w)}]
  /\ IF Entry(w) = w
     THEN UNCHANGED <<term, IPCFile>>
     ELSE /\ kill(Entry(w))
          /\ IPCFile' = [IPCFile EXCEPT ![Entry(w)] = "none"]
  /\ UNCHANGED <<mpc, startVars, wpc, clientVars, signals, faults>>

do_exit(w) ==
  /\ wpc[w] = "exit"
  /\ psWorker[w] = {}
  /\ wpc' = [wpc EXCEPT ![w] = "exited"]
  /\ UNCHANGED <<mpc, startVars, psWorker, IPCFile, term, clientVars, signals,
                 faults>>

-----------------------------------------------------------------------------

MasterStep ==
  \/ worker_init_fork
  \/ worker_create_ipc_socket_bind
  \/ worker_create_ipc_socket_listen
  \/ worker_create_ipc_socket_accept
  \/ socket_setup
  \/ send_fd_to_worker
  \/ worker_destroy_kill
  \/ worker_destroy_wait
  \/ exit_cleanup

WorkerStep(w) ==
  \/ workerp_entry(w)
  \/ workerp_connect_ipc_socket_wait(w)
  \/ workerp_connect_ipc_socket(w)
  \/ workerp_ipc_callback(w)
  \/ worker_destroy(w)
  \/ do_exit(w)

Next ==
  \/ MasterStep
  \/ socket_accept_client
  \/ callback_exitsig
  \/ \E w \in Workers :
       \/ WorkerStep(w)
       \/ terminate(w)
       \/ client_deregister(w)
       \/ workerp_callback_exitsig(w)

(* Every process runs and signals arrive; clients, signals from outside,   *)
(* the end of a client's connection and failing system calls are not owed: *)
(* a blocked accept() does not end by a failure.                           *)
Spec ==
  /\ Init /\ [][Next]_vars
  /\ WF_vars(MasterStep /\ UNCHANGED faults)
  /\ \A w \in Workers : /\ WF_vars(WorkerStep(w) /\ UNCHANGED faults)
                         /\ WF_vars(terminate(w))

-----------------------------------------------------------------------------
(***************************************************************************)
(* Properties.                                                             *)
(***************************************************************************)
(* The types of the process state, as in tsWorkerAdmin and tsWorkerStruct. *)
TypeOK ==
  /\ mpc \in Startup \union {"run", "send", "exit", "waitpid", "done", "gone"}
  /\ i \in 0..iWantedWorkers
  /\ uiCurrWorkers \in 0..iWantedWorkers
  /\ psWorker \in [Processes -> SUBSET Workers]
  /\ wpc \in [Workers -> {"none", "entry", "wait", "connect", "run", "exit",
                          "exited", "killed"}]
  /\ IPCFile \in [Workers -> {"none", "bound", "listening"}]
  /\ conn \in [Workers -> {"none", "pending", "open"}]
  /\ term \in [Workers -> BOOLEAN]
  /\ NextWorker \in 0..(UintRange - 1)
  /\ iSockfd \in 0..MaxClients
  /\ ipc \in [Workers -> Seq(1..MaxClients)]
  /\ serving \in [Workers -> SUBSET (1..MaxClients)]
  /\ routed \in [Workers -> 0..MaxClients]
  /\ handled \subseteq 1..MaxClients /\ unrecorded \subseteq Workers
  /\ clients \in 0..MaxClients
  /\ signals \in 0..MaxSignals /\ faults \in 0..MaxFaults

(* Whatever failed or was signalled before: when the master has gone       *)
(* through exit_cleanup, every worker process has ended and every IPC file *)
(* is removed, but for a worker whose entry a failed worker_init freed     *)
(* (cew_worker.c:380-390).                                                 *)
CleanExit ==
  mpc = "done" => \A w \in Workers \ unrecorded :
                    ~Running(w) /\ IPCFile[w] = "none"

(* worker_route_client indexes psWorker with a number modulo uiCurrWorkers *)
(* (cew_worker.c:312): a serving master has met all its workers, whatever  *)
(* they did since, so the entry is never NULL and the modulus never 0.     *)
RouteHasEntry ==
  mpc \in {"run", "send"} =>
    /\ uiCurrWorkers = iWantedWorkers
    /\ psWorker[Master] = Workers
    /\ \A w \in Workers : conn[w] = "open"

(* A worker that exits unlinks the IPC files of the workers it inherited   *)
(* (cew_worker.c:460).  It never takes away the one at which the master is *)
(* waiting for another worker.                                             *)
MeetingPointStays == mpc = "accept" => IPCFile[i] = "listening"

(* "simple round robbin" (cew_worker.c:311): the first worker first, and   *)
(* the numbers of clients sent to any two workers differ by at most one.   *)
RoundRobin ==
  \A v, w \in Workers :
    v < w => routed[w] <= routed[v] /\ routed[v] <= routed[w] + 1

(* Where client c is.                                                      *)
Places(c) ==
  UNION {IF iSockfd = c THEN {<<"master">>} ELSE {},
         UNION {{<<"ipc", w, n>> : n \in {n \in DOMAIN ipc[w] : ipc[w][n] = c}} :
                  w \in Workers},
         {<<"serving", w>> : w \in {w \in Workers : c \in serving[w]}},
         IF c \in handled THEN {<<"handled">>} ELSE {}}

(* An accepted client is in one place, which is the master or the worker   *)
(* whose turn it was, until it is handled.  A worker that ended stays in   *)
(* the round robin (cew_worker.c:313), and its clients are lost: but no    *)
(* other ones, whichever processes fail, are signalled or signal others.   *)
ClientsAccounted ==
  \A c \in 1..clients :
    LET w == (c - 1) % iWantedWorkers
    IN /\ Cardinality(Places(c)) <= 1
       /\ Places(c) = {} => wpc[w] \in {"exit", "exited", "killed"}
       /\ \A p \in Places(c) : p[1] \in {"ipc", "serving"} => p[2] = w

(* Worker w to its clients.                                                *)
Up(w) == wpc[w] \in {"run", "exit"} /\ conn[w] # "none"
Routing(w) == INSTANCE WorkerClients WITH
  Clients <- 1..MaxClients,
  phase <- IF Up(w) THEN "up"
           ELSE IF wpc[w] \in {"exit", "exited", "killed"} THEN "ended"
           ELSE "starting",
  ipc <- IF Up(w) THEN ipc[w] ELSE <<>>,
  serving <- IF Up(w) THEN serving[w] ELSE {},
  gone <- {c \in handled : (c - 1) % iWantedWorkers = w}

(* Each worker takes the clients the master sends it in order and once,    *)
(* and lets each go once (cew_worker.c:170), whatever else happens; one    *)
(* that ended gets no more.  (That is, Routing(w)!Spec for each w.)        *)
ImplementsRouting ==
  /\ \A w \in Workers : Routing(w)!Init
  /\ [][\A w \in Workers : Routing(w)!Next \/ UNCHANGED Routing(w)!vars]_vars

(* worker_init comes to an end unless worker i ends before the master has  *)
(* met it: then the master waits in accept() for ever.  The end of any     *)
(* other worker does not matter.                                           *)
StartupEnds ==
  (mpc \in Startup)
    ~> (mpc \notin Startup \/ (i \in Workers /\ wpc[i] \in {"exited", "killed"}))

(* exit_cleanup comes to an end: waitpid returns for each worker.          *)
ExitEnds == (mpc \in {"exit", "waitpid"}) ~> (mpc \in {"done", "gone"})

(* The blocking sendmsg inside an event callback of the master always      *)
(* returns: the worker reads, or it ends and the call fails.               *)
SendReturns == (mpc = "send") ~> (mpc # "send")

(* "Wait for the master to finish setting-up the file socket"              *)
(* (cew_worker.c:128), and the test worker_happy_init expects worker_init  *)
(* to return: with no fault and no signal the master comes to serve.       *)
WorkerInitReturns == <>(mpc = "run")

(* "Only the main process may kill workers, not the workers themselfs"     *)
(* (cew_worker.c:416): a SIGTERM is sent by the master only.               *)
OnlyMasterKills ==
  [][\A w \in Workers : ~term[w] /\ term'[w] => mpc = "exit" /\ mpc' = "waitpid"]_vars
=============================================================================
