---------------------------- MODULE WorkersProofs ----------------------------
(***************************************************************************)
(* What the invariant of WorkersInvariant gives, for any number of workers *)
(* and clients: the meeting point, the round robin, a clean exit, and that *)
(* no client is duplicated, misdirected or lost by a worker that runs.     *)
(***************************************************************************)
EXTENDS WorkersInvariant

USE DEF Master, NoClient, startVars, clientVars

(* The master passes its client on, or finds the worker gone.              *)
LEMMA SendInv == ASSUME IInv, send_fd_to_worker PROVE IInv'
<1> USE DEF send_fd_to_worker
<1>1. /\ clients \in Nat \ {0} /\ iSockfd = clients /\ clients \in 1..MaxClients
      /\ iSockfd \notin handled
  BY WorkersAssumption DEF IInv, TypeOK, PlaceInv
<1>2. PICK v \in Workers : v = NextWorker /\ v = Turn(clients)
  BY <1>1, Turns, Zenon DEF IInv, RoundInv
<1>3. conn[v] = "open" /\ wpc[v] \in {"run", "exit", "exited", "killed"}
  BY Zenon DEF IInv, StartInv, Serving, AdminInv
<1>4. RoundInv' /\ ProcInv'
  BY ProcKept, Zenon DEF IInv, RoundInv
<1>5. CASE Connected(v)
  <2>1. ipc' = [ipc EXCEPT ![v] = Append(@, clients)]
    BY <1>1, <1>2, <1>5, Zenon
  <2>2. \A w \in Workers \ {v} : ipc'[w] = ipc[w]
    BY <2>1, Zenon DEF IInv, TypeOK
  <2>3. /\ ipc'[v] \in Seq(1..MaxClients)
        /\ DOMAIN ipc'[v] = DOMAIN ipc[v] \union {Len(ipc[v]) + 1}
        /\ Len(ipc[v]) + 1 \notin DOMAIN ipc[v]
        /\ ipc'[v][Len(ipc[v]) + 1] = clients
        /\ \A n \in DOMAIN ipc[v] : ipc'[v][n] = ipc[v][n]
    <3>1. ipc'[v] = Append(ipc[v], clients)
      BY <2>1, Zenon DEF IInv, TypeOK
    <3>2. ipc[v] \in Seq(1..MaxClients)
      BY IpcType, Zenon DEF IInv
    <3>3. /\ Append(ipc[v], clients) \in Seq(1..MaxClients)
          /\ DOMAIN Append(ipc[v], clients) = DOMAIN ipc[v] \union {Len(ipc[v]) + 1}
          /\ Len(ipc[v]) + 1 \notin DOMAIN ipc[v]
          /\ Append(ipc[v], clients)[Len(ipc[v]) + 1] = clients
          /\ \A n \in DOMAIN ipc[v] : Append(ipc[v], clients)[n] = ipc[v][n]
      BY <1>1, <3>2, SeqFacts
    <3> QED
      BY <3>1, <3>3, Zenon
  <2>4. TypeOK'
    <3>1. ipc' \in [Workers -> Seq(1..MaxClients)]
      BY <2>1, <2>3, Zenon DEF IInv, TypeOK
    <3> QED
      BY <3>1, WorkersAssumption, SMTT(30) DEF IInv, TypeOK
  <2>5. PlaceInv'
    <3>1. \A w \in Workers : \A c \in serving[w] : c # clients
      BY <1>1, Zenon DEF IInv, PlaceInv
    <3>2. \A w \in Workers : \A n \in DOMAIN ipc[w] : ipc[w][n] # clients
      BY <1>1, Zenon DEF IInv, PlaceInv
    <3>3. \A w \in Workers : \A n \in DOMAIN ipc[w] : ipc[w][n] # 0
      BY IpcType DEF IInv
    <3>4. \A w \in Workers : \A c \in serving[w] : c # 0
      BY DEF IInv, TypeOK
    <3>5. ASSUME NEW w \in Workers
          PROVE  /\ conn'[w] = "none" => ipc'[w] = <<>> /\ serving'[w] = {}
                 /\ \A c \in serving'[w] : /\ c <= clients' /\ Turn(c) = w
                                           /\ c \notin handled' /\ c # iSockfd'
      BY <1>3, <2>2, <3>4, Zenon DEF IInv, PlaceInv
    <3>6. ASSUME NEW w \in Workers, NEW n \in DOMAIN ipc'[w]
          PROVE  /\ ipc'[w][n] <= clients' /\ Turn(ipc'[w][n]) = w
                 /\ ipc'[w][n] \notin handled' \union serving'[w] \union {iSockfd'}
      <4>1. CASE w = v /\ n = Len(ipc[v]) + 1
        BY <1>1, <1>2, <2>3, <3>1, <4>1
      <4>2. CASE ~(w = v /\ n = Len(ipc[v]) + 1)
        BY <2>2, <2>3, <3>3, <4>2 DEF IInv, PlaceInv
      <4> QED
        BY <4>1, <4>2, Zenon
    <3>7. ASSUME NEW w \in Workers, NEW m \in DOMAIN ipc'[w],
                 NEW n \in DOMAIN ipc'[w], ipc'[w][m] = ipc'[w][n]
          PROVE  m = n
      BY <2>2, <2>3, <3>2, <3>7 DEF IInv, PlaceInv
    <3> QED
      BY <3>5, <3>6, <3>7, Zenon DEF IInv, PlaceInv
  <2>6. LostInv'
    <3>1. \A w \in Workers : \A n \in DOMAIN ipc[w] :
            n \in DOMAIN ipc'[w] /\ ipc'[w][n] = ipc[w][n]
      BY <2>2, <2>3, Zenon
    <3> QED
      BY <1>1, <2>3, <3>1 DEF IInv, LostInv
  <2> QED
    BY <1>4, <2>4, <2>5, <2>6, Together, Zenon DEF PassInv
<1>6. CASE ~Connected(v)
  <2>1. UNCHANGED ipc
    BY <1>2, <1>6, Zenon
  <2>2. wpc[v] \in Ended
    BY <1>3, <1>6, Zenon DEF Connected, Ended, IInv, AdminInv
  <2>3. TypeOK'
    <3>1. 0 \in 0..MaxClients
      BY WorkersAssumption
    <3> QED
      BY <2>1, <3>1, Zenon DEF IInv, TypeOK
  <2>4. PlaceInv'
    <3>1. \A w \in Workers : \A n \in DOMAIN ipc[w] : ipc[w][n] # 0
      BY IpcType DEF IInv
    <3>2. \A w \in Workers : \A c \in serving[w] : c # 0
      BY DEF IInv, TypeOK
    <3> QED
      BY <2>1, <3>1, <3>2, Zenon DEF IInv, PlaceInv
  <2>5. LostInv'
    BY <1>1, <1>2, <2>1, <2>2, Zenon DEF IInv, LostInv, Ended
  <2> QED
    BY <1>4, <2>3, <2>4, <2>5, Together DEF PassInv
<1> QED
  BY <1>5, <1>6, Zenon

(* The IPC socket after a message was read.                                *)
LEMMA IpcRest ==
  ASSUME IInv, NEW w \in Workers, ipc[w] # <<>>
  PROVE  LET c == Head(ipc[w]) t == Tail(ipc[w]) IN
         /\ c \in 1..MaxClients /\ c <= clients /\ Turn(c) = w
         /\ c \notin handled \union serving[w] \union {iSockfd}
         /\ t \in Seq(1..MaxClients)
         /\ \A n \in DOMAIN t : /\ n + 1 \in DOMAIN ipc[w] /\ n \in Nat
                                /\ t[n] = ipc[w][n + 1] /\ t[n] # c
         /\ \A n \in DOMAIN ipc[w] : ipc[w][n] = c \/ \E m \in DOMAIN t : t[m] = ipc[w][n]
<1>1. /\ ipc[w] \in Seq(1..MaxClients) /\ DOMAIN ipc[w] = 1..Len(ipc[w])
      /\ \A n \in DOMAIN ipc[w] : ipc[w][n] \in 1..MaxClients
  BY IpcType, Zenon DEF IInv
<1>2. Len(ipc[w]) \in Nat \ {0} /\ Head(ipc[w]) = ipc[w][1]
  BY <1>1, RestFacts, Zenon
<1>3. 1 \in DOMAIN ipc[w]
  BY <1>1, <1>2
<1>4. /\ Tail(ipc[w]) \in Seq(1..MaxClients)
      /\ Len(Tail(ipc[w])) = Len(ipc[w]) - 1
      /\ \A n \in 1..(Len(ipc[w]) - 1) : Tail(ipc[w])[n] = ipc[w][n + 1]
  BY <1>1, RestFacts, Zenon
<1>5. DOMAIN Tail(ipc[w]) = 1..(Len(ipc[w]) - 1)
  BY <1>4, SeqFacts, Zenon
<1>6. \A n \in DOMAIN Tail(ipc[w]) :
        n + 1 \in DOMAIN ipc[w] /\ n \in Nat /\ Tail(ipc[w])[n] = ipc[w][n + 1]
  BY <1>1, <1>2, <1>4, <1>5
<1>7. \A n \in DOMAIN ipc[w] : n = 1 \/ (n - 1 \in DOMAIN Tail(ipc[w]) /\ (n - 1) + 1 = n)
  BY <1>1, <1>2, <1>5
<1>8. \A m, n \in DOMAIN ipc[w] : ipc[w][m] = ipc[w][n] => m = n
  BY Zenon DEF IInv, PlaceInv
<1>9. \A n \in DOMAIN Tail(ipc[w]) : Tail(ipc[w])[n] # Head(ipc[w])
  BY <1>2, <1>3, <1>6, <1>8
<1>10. \A n \in DOMAIN ipc[w] : \/ ipc[w][n] = Head(ipc[w])
                                \/ \E m \in DOMAIN Tail(ipc[w]) : Tail(ipc[w])[m] = ipc[w][n]
  BY <1>2, <1>6, <1>7, Zenon
<1>11. /\ ipc[w][1] <= clients /\ Turn(ipc[w][1]) = w
       /\ ipc[w][1] \notin handled \union serving[w] \union {iSockfd}
  BY <1>3, Zenon DEF IInv, PlaceInv
<1>12. ipc[w][1] \in 1..MaxClients
  BY <1>1, <1>3, Zenon
<1> QED
  BY <1>2, <1>4, <1>6, <1>9, <1>10, <1>11, <1>12, Zenon

(* A worker takes the next client from its IPC socket.                     *)
LEMMA TakeInv ==
  ASSUME IInv, NEW w \in Workers, workerp_ipc_callback(w)
  PROVE  IInv'
<1> USE DEF workerp_ipc_callback, receive_fd_from_worker
<1>1. PICK c \in 1..MaxClients, t \in Seq(1..MaxClients) :
        /\ c = Head(ipc[w]) /\ t = Tail(ipc[w]) /\ c <= clients /\ Turn(c) = w
        /\ c \notin handled \union serving[w] \union {iSockfd}
        /\ \A n \in DOMAIN t : /\ n + 1 \in DOMAIN ipc[w] /\ n \in Nat
                               /\ t[n] = ipc[w][n + 1] /\ t[n] # c
        /\ \A n \in DOMAIN ipc[w] : ipc[w][n] = c \/ \E m \in DOMAIN t : t[m] = ipc[w][n]
  BY IpcRest, Zenon
<1>2. ipc'[w] = t /\ \A v \in Workers \ {w} : ipc'[v] = ipc[v]
  BY <1>1 DEF IInv, TypeOK
<1>3. /\ \/ serving'[w] = serving[w] \union {c} /\ handled' = handled
         \/ serving'[w] = serving[w] /\ handled' = handled \union {c}
      /\ \A v \in Workers \ {w} : serving'[v] = serving[v]
      /\ serving' \in [Workers -> SUBSET (1..MaxClients)]
  <2>1. serving \in [Workers -> SUBSET (1..MaxClients)] /\ c = Head(ipc[w])
    BY <1>1, Zenon DEF IInv, TypeOK
  <2>2. CASE /\ serving' = [serving EXCEPT ![w] = @ \union {c}]
             /\ UNCHANGED handled
    BY <2>1, <2>2, Zenon
  <2>3. CASE UNCHANGED serving /\ handled' = handled \union {c}
    BY <2>1, <2>3, Zenon
  <2> QED
    BY <2>1, <2>2, <2>3, Zenon
<1>4. TypeOK'
  <2>1. ipc' \in [Workers -> Seq(1..MaxClients)]
    BY <1>1, Zenon DEF IInv, TypeOK
  <2>2. faults' \in 0..MaxFaults
    BY WorkersAssumption DEF IInv, TypeOK, Fault
  <2>3. handled' \subseteq 1..MaxClients
    BY <1>3, Zenon DEF IInv, TypeOK
  <2> QED
    BY <1>3, <2>1, <2>2, <2>3, SMTT(30) DEF IInv, TypeOK
<1>5. RoundInv' /\ ProcInv'
  BY ProcKept, Zenon DEF IInv, RoundInv
<1>6. ASSUME NEW v \in Workers \ {w}
      PROVE  /\ c \notin serving[v]
             /\ \A n \in DOMAIN ipc[v] : ipc[v][n] # c
  BY <1>1 DEF IInv, PlaceInv
<1>7. PlaceInv'
  <2>1. conn[w] # "none"
    BY Zenon DEF IInv, AdminInv
  <2>2. ASSUME NEW v \in Workers
        PROVE  /\ conn'[v] = "none" => ipc'[v] = <<>> /\ serving'[v] = {}
               /\ \A d \in serving'[v] : /\ d <= clients' /\ Turn(d) = v
                                         /\ d \notin handled' /\ d # iSockfd'
    BY <1>1, <1>2, <1>3, <1>6, <2>1, SMTT(30) DEF IInv, PlaceInv
  <2>3. ASSUME NEW v \in Workers, NEW n \in DOMAIN ipc'[v]
        PROVE  /\ ipc'[v][n] <= clients' /\ Turn(ipc'[v][n]) = v
               /\ ipc'[v][n] \notin handled' \union serving'[v] \union {iSockfd'}
    <3>1. PICK m \in DOMAIN ipc[v] : ipc'[v][n] = ipc[v][m] /\ ipc[v][m] # c
      <4>1. CASE v = w
        <5>1. n \in DOMAIN t /\ ipc'[v][n] = t[n]
          BY <1>2, <4>1, Zenon
        <5> QED
          BY <1>1, <4>1, <5>1
      <4>2. CASE v # w
        BY <1>2, <1>6, <4>2, Zenon
      <4> QED
        BY <4>1, <4>2, Zenon
    <3>2. /\ ipc[v][m] <= clients /\ Turn(ipc[v][m]) = v
          /\ ipc[v][m] \notin handled \union serving[v] \union {iSockfd}
      BY Zenon DEF IInv, PlaceInv
    <3>3. ipc[v][m] \notin handled' \union serving'[v]
      BY <1>3, <3>1, <3>2, Zenon
    <3> QED
      BY <3>1, <3>2, <3>3, Zenon
  <2>4. ASSUME NEW v \in Workers, NEW m \in DOMAIN ipc'[v],
               NEW n \in DOMAIN ipc'[v], ipc'[v][m] = ipc'[v][n]
        PROVE  m = n
    BY <1>1, <1>2, <2>4, SMTT(30) DEF IInv, PlaceInv
  <2>5. /\ \A d \in handled' : d <= clients'
        /\ iSockfd' # NoClient => iSockfd' = clients' /\ iSockfd' \notin handled'
    BY <1>1, <1>3, Zenon DEF IInv, PlaceInv
  <2> QED
    BY <2>2, <2>3, <2>4, <2>5, Zenon DEF IInv, PlaceInv
<1>8. LostInv'
  <2>1. c \in handled' \/ c \in serving'[w]
    BY <1>3, Zenon
  <2>2. \A v \in Workers : serving[v] \subseteq serving'[v]
    BY <1>3, Zenon
  <2>3. \A v \in Workers : \A n \in DOMAIN ipc[v] :
          ipc[v][n] = c \/ \E m \in DOMAIN ipc'[v] : ipc'[v][m] = ipc[v][n]
    BY <1>1, <1>2
  <2> QED
    BY <1>3, <2>1, <2>2, <2>3 DEF IInv, LostInv
<1> QED
  BY <1>4, <1>5, <1>7, <1>8, Together, Zenon DEF PassInv

(* A worker is done with a client.                                         *)
LEMMA LetGoInv ==
  ASSUME IInv, NEW w \in Workers, client_deregister(w)
  PROVE  IInv'
<1> USE DEF client_deregister
<1>1. PICK c \in serving[w] : /\ serving' = [serving EXCEPT ![w] = @ \ {c}]
                              /\ handled' = handled \union {c}
  BY Zenon
<1>2. /\ serving'[w] = serving[w] \ {c}
      /\ \A v \in Workers \ {w} : serving'[v] = serving[v]
      /\ serving' \in [Workers -> SUBSET (1..MaxClients)]
      /\ c \in 1..MaxClients
  BY <1>1, Zenon DEF IInv, TypeOK
<1>3. TypeOK'
  BY <1>1, <1>2, SMTT(30) DEF IInv, TypeOK
<1>4. RoundInv' /\ ProcInv'
  BY ProcKept, Zenon DEF IInv, RoundInv
<1>5. /\ c <= clients /\ Turn(c) = w /\ c # iSockfd
      /\ \A n \in DOMAIN ipc[w] : ipc[w][n] # c
      /\ \A v \in Workers \ {w} :
           c \notin serving[v] /\ \A n \in DOMAIN ipc[v] : ipc[v][n] # c
  BY <1>1 DEF IInv, PlaceInv
<1>6. PlaceInv'
  BY <1>1, <1>2, <1>5, SMTT(30) DEF IInv, PlaceInv
<1>7. LostInv'
  BY <1>1, <1>2 DEF IInv, LostInv
<1> QED
  BY <1>3, <1>4, <1>6, <1>7, Together, Zenon DEF PassInv

(* Every step keeps the invariant.                                         *)
LEMMA NextInv == ASSUME IInv, [Next]_vars PROVE IInv'
<1>1. CASE UNCHANGED vars
  <2>1. TypeOK'
    BY <1>1, Zenon DEF vars, IInv, TypeOK
  <2>2. ProcInv'
    BY <1>1, ProcKept, Zenon DEF vars
  <2>3. PassInv'
    BY <1>1, PassKept, Zenon DEF vars
  <2> QED
    BY <2>1, <2>2, <2>3, Together, Zenon
<1>2. CASE MasterStep
  BY <1>2, ForkInv, BindInv, AcceptInv, MasterInv, WaitInv, SendInv, Zenon
     DEF MasterStep
<1>3. ASSUME NEW w \in Workers,
             WorkerStep(w) \/ terminate(w) \/ client_deregister(w)
               \/ workerp_callback_exitsig(w)
      PROVE  IInv'
  BY <1>3, WorkerInv, DestroyInv, TakeInv, LetGoInv, Zenon DEF WorkerStep
<1> QED
  BY <1>1, <1>2, <1>3, AcceptClientInv, SignalInv, Zenon DEF Next

(* The invariant holds in every state of the processes.                    *)
LEMMA Invariant == Spec => []IInv
BY InitInv, NextInv, PTL DEF Spec

-----------------------------------------------------------------------------
(***************************************************************************)
(* The theorems.                                                           *)
(***************************************************************************)

(* The types of the process state.                                         *)
THEOREM TypeCorrect == Spec => []TypeOK
BY Invariant, PTL DEF IInv

(* When the master has gone through exit_cleanup, every worker process has *)
(* ended and every IPC file is removed, but for a worker whose entry a     *)
(* failed worker_init freed.                                               *)
THEOREM ExitCorrect == Spec => []CleanExit
<1>1. IInv => CleanExit
  BY Zenon DEF IInv, StartInv, CleanInv, CleanExit
<1> QED
  BY <1>1, Invariant, PTL

(* worker_route_client finds an entry, and never divides by 0.             *)
THEOREM RouteCorrect == Spec => []RouteHasEntry
<1>1. IInv => RouteHasEntry
  BY Zenon DEF IInv, StartInv, Serving, RouteHasEntry
<1> QED
  BY <1>1, Invariant, PTL

(* No worker that exits takes away the IPC file at which the master waits  *)
(* for another.                                                            *)
THEOREM MeetingPointCorrect == Spec => []MeetingPointStays
<1>1. IInv => MeetingPointStays
  BY Zenon DEF IInv, StartInv, MeetingPointStays
<1> QED
  BY <1>1, Invariant, PTL

(* The numbers of clients sent to any two workers differ by at most one,   *)
(* from the first client on, where NextWorker + 1 wraps to 0.              *)
THEOREM RoundRobinCorrect == Spec => []RoundRobin
<1>1. RoundInv => RoundRobin
  BY Numbers DEF RoundInv, RoundRobin
<1>2. IInv => RoundInv
  BY Zenon DEF IInv
<1> QED
  BY <1>1, <1>2, Invariant, PTL

-----------------------------------------------------------------------------
(***************************************************************************)
(* Every worker implements WorkerClients.                                  *)
(***************************************************************************)
Routed(w) == Routing(w)!Next \/ UNCHANGED Routing(w)!vars

(* What every step does to the state of a worker that moves no client.     *)
Moved(w) ==
  /\ UNCHANGED <<ipc, serving, handled>>
  /\ conn'[w] = "none" => conn[w] = "none"
  /\ conn[w] = "none" /\ conn'[w] # "none" => wpc[w] = "connect"
  /\ wpc[w] \in Ended => wpc'[w] \in Ended
  /\ wpc[w] \in {"exited", "killed"} => wpc'[w] = wpc[w]

(* Such a step connects the worker, ends it, or is a stutter.              *)
LEMMA RoutedMove ==
  ASSUME IInv, IInv', NEW w \in Workers, Moved(w)
  PROVE  Routed(w)
<1> USE DEF Moved, Ended
<1>1. /\ conn[w] # "none" => wpc[w] \in {"run", "exit", "exited", "killed"}
      /\ conn'[w] # "none" => wpc'[w] \in {"run", "exit", "exited", "killed"}
      /\ conn[w] = "none" => ipc[w] = <<>> /\ serving[w] = {}
  BY Zenon DEF IInv, AdminInv, PlaceInv
<1>2. CASE Up(w) /\ Up(w)'
  BY <1>2, Zenon DEF Routed, Routing!vars
<1>3. CASE ~Up(w) /\ Up(w)'
  <2>1. wpc[w] = "connect" /\ conn[w] = "none"
    BY <1>1, <1>3, Zenon DEF Up
  <2>2. Routing(w)!Connect
    BY <1>1, <1>3, <2>1, Zenon DEF Routing!Connect
  <2> QED
    BY <2>2, Zenon DEF Routed, Routing!Next
<1>4. CASE ~Up(w)' /\ wpc'[w] \notin {"exit", "exited", "killed"}
  <2>1. ~Up(w) /\ wpc[w] \notin {"exit", "exited", "killed"}
    BY <1>1, <1>4, Zenon DEF Up
  <2> QED
    BY <1>4, <2>1, Zenon DEF Routed, Routing!vars
<1>5. CASE ~Up(w)' /\ wpc'[w] \in {"exit", "exited", "killed"}
  <2>1. CASE ~Up(w) /\ wpc[w] \in {"exit", "exited", "killed"}
    BY <1>5, <2>1, Zenon DEF Routed, Routing!vars
  <2>2. CASE Up(w) \/ wpc[w] \notin {"exit", "exited", "killed"}
    <3>1. Routing(w)!End
      BY <1>5, <2>2, Zenon DEF Routing!End
    <3> QED
      BY <3>1, Zenon DEF Routed, Routing!Next
  <2> QED
    BY <2>1, <2>2, Zenon
<1> QED
  BY <1>2, <1>3, <1>4, <1>5, Zenon

(* Two ways in which a step moves no client: it leaves the processes alone *)
(* but for the connections of running workers, or it moves one worker on.  *)
LEMMA MovedOf ==
  ASSUME NEW v \in Workers, UNCHANGED <<ipc, serving, handled>>
  PROVE  /\ UNCHANGED <<conn, wpc>> => Moved(v)
         /\ \A w \in Workers :
              (/\ conn' = conn
               /\ \A x \in Workers \ {w} : wpc'[x] = wpc[x]
               /\ wpc[w] \notin {"exited", "killed"}
               /\ wpc[w] \in Ended => wpc'[w] \in Ended) => Moved(v)
BY Zenon DEF Moved, Ended

(* The steps of the master that move no client.                            *)
LEMMA MasterMoves ==
  ASSUME IInv, NEW v \in Workers,
         \/ UNCHANGED vars \/ socket_accept_client \/ callback_exitsig
         \/ worker_init_fork \/ worker_create_ipc_socket_bind
         \/ worker_create_ipc_socket_listen \/ worker_create_ipc_socket_accept
         \/ socket_setup \/ worker_destroy_kill \/ worker_destroy_wait
         \/ exit_cleanup
  PROVE  Moved(v)
<1>1. CASE worker_init_fork
  <2>1. i \in Workers /\ wpc[i] = "none"
    BY <1>1, Numbers DEF worker_init_fork, IInv, StartInv
  <2>2. \A x \in Workers \ {i} : wpc'[x] = wpc[x]
    <3>1. wpc = [x \in Workers |-> wpc[x]]
      BY Zenon DEF IInv, TypeOK
    <3> QED
      BY <1>1, <3>1, Zenon DEF worker_init_fork
  <2>3. UNCHANGED <<conn, ipc, serving, handled>>
    BY <1>1, Zenon DEF worker_init_fork
  <2> QED
    BY <2>1, <2>2, <2>3, MovedOf, Zenon DEF Ended
<1>2. CASE worker_create_ipc_socket_accept
  <2>1. conn = [x \in Workers |-> conn[x]]
    BY Zenon DEF IInv, TypeOK
  <2>2. UNCHANGED <<wpc, ipc, serving, handled>>
    BY <1>2, Zenon DEF worker_create_ipc_socket_accept
  <2>3. conn'[v] = conn[v] \/ (conn[v] = "pending" /\ conn'[v] = "open")
    BY <1>2, <2>1, Zenon DEF worker_create_ipc_socket_accept
  <2> QED
    BY <2>2, <2>3, Zenon DEF Moved
<1>3. CASE UNCHANGED vars
  BY <1>3, MovedOf, Zenon DEF vars
<1>4. CASE socket_accept_client
  BY <1>4, MovedOf, Zenon DEF socket_accept_client
<1>5. CASE callback_exitsig \/ socket_setup
  BY <1>5, MovedOf, Zenon DEF callback_exitsig, socket_setup
<1>6. CASE worker_create_ipc_socket_bind \/ worker_create_ipc_socket_listen
  BY <1>6, MovedOf, Zenon
  DEF worker_create_ipc_socket_bind, worker_create_ipc_socket_listen
<1>7. CASE worker_destroy_kill
  BY <1>7, MovedOf, Zenon DEF worker_destroy_kill
<1>8. CASE worker_destroy_wait
  BY <1>8, MovedOf, Zenon DEF worker_destroy_wait
<1>9. CASE exit_cleanup
  BY <1>9, MovedOf, Zenon DEF exit_cleanup
<1> QED
  BY <1>1, <1>2, <1>3, <1>4, <1>5, <1>6, <1>7, <1>8, <1>9, Zenon

(* The same of the steps of a worker.                                      *)
LEMMA WorkerMoves ==
  ASSUME IInv, NEW v \in Workers, NEW w \in Workers,
         \/ workerp_entry(w) \/ workerp_connect_ipc_socket_wait(w)
         \/ workerp_connect_ipc_socket(w) \/ worker_destroy(w) \/ do_exit(w)
         \/ terminate(w) \/ workerp_callback_exitsig(w)
  PROVE  Moved(v)
<1>1. /\ wpc = [x \in Workers |-> wpc[x]]
      /\ conn = [x \in Workers |-> conn[x]]
  BY Zenon DEF IInv, TypeOK
<1>2. CASE workerp_connect_ipc_socket(w)
  <2>1. wpc[w] = "connect" /\ UNCHANGED <<ipc, serving, handled>>
    BY <1>2, Zenon DEF workerp_connect_ipc_socket
  <2>2. /\ v # w => wpc'[v] = wpc[v] /\ conn'[v] = conn[v]
        /\ v = w => conn'[v] = conn[v] \/ conn'[v] = "pending"
    BY <1>1, <1>2, Zenon DEF workerp_connect_ipc_socket
  <2> QED
    BY <2>1, <2>2, Zenon DEF Moved, Ended
<1>3. CASE terminate(w)
  <2>1. UNCHANGED <<conn, ipc, serving, handled>>
    BY <1>3, Zenon DEF terminate
  <2>2. /\ \A x \in Workers \ {w} : wpc'[x] = wpc[x]
        /\ wpc[w] \notin {"exited", "killed"} /\ wpc'[w] = "killed"
    BY <1>1, <1>3, Zenon DEF terminate, Running
  <2> QED
    BY <2>1, <2>2, MovedOf, Zenon DEF Ended
<1>4. CASE workerp_callback_exitsig(w)
  <2>1. UNCHANGED <<conn, ipc, serving, handled>>
    BY <1>4, Zenon DEF workerp_callback_exitsig
  <2>2. /\ \A x \in Workers \ {w} : wpc'[x] = wpc[x]
        /\ wpc[w] \notin {"exited", "killed"} /\ wpc'[w] \in {"exit", "killed"}
    BY <1>1, <1>4, Zenon DEF workerp_callback_exitsig, Running
  <2> QED
    BY <2>1, <2>2, MovedOf, Zenon DEF Ended
<1>5. CASE workerp_entry(w) \/ workerp_connect_ipc_socket_wait(w)
  <2>1. \E x : wpc' = [wpc EXCEPT ![w] = x]
    BY <1>5, Zenon DEF workerp_entry, workerp_connect_ipc_socket_wait
  <2>2. /\ wpc[w] \in {"entry", "wait"}
        /\ UNCHANGED <<conn, ipc, serving, handled>>
    BY <1>5, Zenon DEF workerp_entry, workerp_connect_ipc_socket_wait
  <2>3. \A x \in Workers \ {w} : wpc'[x] = wpc[x]
    BY <1>1, <2>1, Zenon
  <2> QED
    BY <2>2, <2>3, MovedOf, Zenon DEF Ended
<1>6. CASE do_exit(w)
  <2>1. wpc[w] = "exit" /\ UNCHANGED <<conn, ipc, serving, handled>>
    BY <1>6, Zenon DEF do_exit
  <2>2. (\A x \in Workers \ {w} : wpc'[x] = wpc[x]) /\ wpc'[w] = "exited"
    BY <1>1, <1>6, Zenon DEF do_exit
  <2> QED
    BY <2>1, <2>2, MovedOf, Zenon DEF Ended
<1>7. CASE worker_destroy(w)
  BY <1>7, MovedOf, Zenon DEF worker_destroy
<1> QED
  BY <1>2, <1>3, <1>4, <1>5, <1>6, <1>7, Zenon

(* A step that leaves a worker and its clients alone.                      *)
LEMMA RoutedOther ==
  ASSUME NEW v \in Workers, UNCHANGED <<conn, wpc>>,
         ipc'[v] = ipc[v], serving'[v] = serving[v],
         {c \in handled' : Turn(c) = v} = {c \in handled : Turn(c) = v}
  PROVE  Routed(v)
BY Zenon DEF Routed, Routing!vars, Up, Turn

(* The master passes a client on: to the worker whose turn it is it is     *)
(* new, and to the others nothing happens.                                 *)
LEMMA RoutedArrive ==
  ASSUME IInv, NEW v \in Workers, send_fd_to_worker
  PROVE  Routed(v)
<1>1. clients \in 1..MaxClients /\ iSockfd = clients /\ iSockfd \notin handled
  <2>1. mpc = "send"
    BY Zenon DEF send_fd_to_worker
  <2> QED
    BY <2>1, WorkersAssumption DEF IInv, TypeOK, PlaceInv
<1>2. PICK w \in Workers : w = NextWorker
  <2>1. NextWorker = Turn(clients) /\ clients \in Nat \ {0}
    BY <1>1, WorkersAssumption DEF IInv, RoundInv
  <2> QED
    BY <2>1, Turns, Zenon
<1>3. /\ ipc' = IF Connected(w) THEN [ipc EXCEPT ![w] = Append(@, iSockfd)]
                ELSE ipc
      /\ UNCHANGED <<conn, wpc, serving, handled>>
  BY <1>2, Zenon DEF send_fd_to_worker
<1>4. ipc = [x \in Workers |-> ipc[x]]
  BY Zenon DEF IInv, TypeOK
<1>5. CASE v = w /\ Connected(v)
  <2>1. Up(v) /\ Up(v)'
    <3>1. mpc = "send"
      BY Zenon DEF send_fd_to_worker
    <3>2. conn[v] # "none"
      BY <3>1, Zenon DEF IInv, StartInv, Serving
    <3> QED
      BY <1>3, <1>5, <3>2, Zenon DEF Up, Connected
  <2>2. ipc'[v] = Append(ipc[v], clients)
    BY <1>1, <1>3, <1>4, <1>5, Zenon
  <2>3. /\ clients \notin serving[v]
        /\ \A n \in DOMAIN ipc[v] : ipc[v][n] # clients
    BY <1>1, Zenon DEF IInv, PlaceInv
  <2>4. Routing(v)!Arrive(clients)
    BY <1>1, <1>3, <2>1, <2>2, <2>3, Zenon DEF Routing!Arrive, Routing!Queued
  <2> QED
    BY <1>1, <2>4, Zenon DEF Routed, Routing!Next
<1>6. CASE ~(v = w /\ Connected(v))
  <2>1. ipc'[v] = ipc[v]
    BY <1>3, <1>4, <1>6, Zenon
  <2> QED
    BY <1>3, <2>1, RoutedOther, Zenon
<1> QED
  BY <1>5, <1>6, Zenon

(* A worker takes a client, which is its own, from its IPC socket.         *)
LEMMA RoutedTake ==
  ASSUME IInv, NEW v \in Workers, NEW w \in Workers, workerp_ipc_callback(w)
  PROVE  Routed(v)
<1> USE DEF workerp_ipc_callback, receive_fd_from_worker
<1>1. PICK c : c = Head(ipc[w]) /\ Turn(c) = w
  BY IpcRest, Zenon
<1>2. \/ serving' = [serving EXCEPT ![w] = @ \union {c}] /\ handled' = handled
      \/ serving' = serving /\ handled' = handled \union {c}
  BY <1>1, SMTT(30)
<1>3. CASE v = w
  <2>1. Up(v) /\ Up(v)'
    BY <1>3, Zenon DEF Up, IInv, AdminInv
  <2>2. ipc'[v] = Tail(ipc[v]) /\ ipc[v] # <<>>
    BY <1>3, SMTT(30) DEF IInv, TypeOK
  <2>3. \/ /\ serving'[v] = serving[v] \union {c}
           /\ {d \in handled' : Turn(d) = v} = {d \in handled : Turn(d) = v}
        \/ /\ serving'[v] = serving[v]
           /\ {d \in handled' : Turn(d) = v} = {d \in handled : Turn(d) = v} \union {c}
    BY <1>1, <1>2, <1>3, SMTT(30) DEF IInv, TypeOK
  <2>4. Routing(v)!Take
    BY <1>1, <1>3, <2>1, <2>2, <2>3, SMTT(30) DEF Routing!Take, Turn
  <2> QED
    BY <2>4, Zenon DEF Routed, Routing!Next
<1>4. CASE v # w
  <2>1. ipc'[v] = ipc[v] /\ serving'[v] = serving[v]
    BY <1>2, <1>4, SMTT(30) DEF IInv, TypeOK
  <2>2. {d \in handled' : Turn(d) = v} = {d \in handled : Turn(d) = v}
    BY <1>1, <1>2, <1>4, SMTT(30)
  <2> QED
    BY <2>1, <2>2, RoutedOther, SMTT(30)
<1> QED
  BY <1>3, <1>4, SMTT(30)

(* A worker lets go a client it serves.                                    *)
LEMMA RoutedLetGo ==
  ASSUME IInv, NEW v \in Workers, NEW w \in Workers, client_deregister(w)
  PROVE  Routed(v)
<1> USE DEF client_deregister
<1>1. PICK c \in serving[w] : /\ serving' = [serving EXCEPT ![w] = @ \ {c}]
                              /\ handled' = handled \union {c}
  BY Zenon
<1>2. Turn(c) = w /\ c \in 1..MaxClients
  BY Zenon DEF IInv, TypeOK, PlaceInv
<1>3. CASE v = w
  <2>1. Up(v) /\ Up(v)'
    BY <1>3, Zenon DEF Up, IInv, AdminInv
  <2>2. /\ serving'[v] = serving[v] \ {c} /\ c \in serving[v]
        /\ {d \in handled' : Turn(d) = v} = {d \in handled : Turn(d) = v} \union {c}
    BY <1>1, <1>2, <1>3, SMTT(30) DEF IInv, TypeOK
  <2>3. Routing(v)!LetGo(c)
    BY <2>1, <2>2, SMTT(30) DEF Routing!LetGo, Turn
  <2> QED
    BY <1>2, <2>3, Zenon DEF Routed, Routing!Next
<1>4. CASE v # w
  <2>1. serving'[v] = serving[v]
    BY <1>1, <1>4, SMTT(30) DEF IInv, TypeOK
  <2>2. {d \in handled' : Turn(d) = v} = {d \in handled : Turn(d) = v}
    BY <1>1, <1>2, <1>4, Zenon
  <2> QED
    BY <2>1, <2>2, RoutedOther, SMTT(30)
<1> QED
  BY <1>3, <1>4, SMTT(30)

(* Each worker takes the clients the master sends it in order and once,    *)
(* and lets each go once; one that ended gets no more.                     *)
THEOREM RoutingCorrect == Spec => ImplementsRouting
<1>1. ASSUME Init, NEW w \in Workers PROVE Routing(w)!Init
  BY <1>1, Zenon DEF Init, Routing!Init, Up
<1>2. ASSUME IInv, IInv', [Next]_vars, NEW v \in Workers PROVE Routed(v)
  <2>1. CASE MasterStep
    BY <1>2, <2>1, MasterMoves, RoutedMove, RoutedArrive, SMTT(30)
       DEF MasterStep
  <2>2. ASSUME NEW w \in Workers,
               WorkerStep(w) \/ terminate(w) \/ client_deregister(w)
                 \/ workerp_callback_exitsig(w)
        PROVE  Routed(v)
    BY <1>2, <2>2, WorkerMoves, RoutedMove, RoutedTake, RoutedLetGo, SMTT(30)
       DEF WorkerStep
  <2>3. CASE UNCHANGED vars \/ socket_accept_client \/ callback_exitsig
    BY <1>2, <2>3, MasterMoves, RoutedMove, Zenon
  <2> QED
    BY <1>2, <2>1, <2>2, <2>3, Zenon DEF Next
<1>3. IInv /\ IInv' /\ [Next]_vars =>
        [\A w \in Workers : Routing(w)!Next \/ UNCHANGED Routing(w)!vars]_vars
  BY <1>2, Zenon DEF Routed
<1>4. Init => \A w \in Workers : Routing(w)!Init
  BY <1>1, Zenon
<1> QED
  BY <1>3, <1>4, Invariant, PTL DEF Spec, ImplementsRouting

-----------------------------------------------------------------------------
(***************************************************************************)
(* Where the clients are.                                                  *)
(***************************************************************************)
INSTANCE FiniteSetTheorems

(* What Places(c) is.                                                      *)
LEMMA InPlaces ==
  ASSUME NEW c, NEW p
  PROVE  p \in Places(c) <=>
           \/ iSockfd = c /\ p = <<"master">>
           \/ \E w \in Workers : \E n \in DOMAIN ipc[w] :
                ipc[w][n] = c /\ p = <<"ipc", w, n>>
           \/ \E w \in Workers : c \in serving[w] /\ p = <<"serving", w>>
           \/ c \in handled /\ p = <<"handled">>
BY DEF Places

(* A client is in at most one place, and that is the master or the worker  *)
(* whose turn it was.                                                      *)
LEMMA OnePlace ==
  ASSUME IInv, NEW c \in 1..clients
  PROVE  \/ Places(c) = {}
         \/ Places(c) = {<<"master">>} \/ Places(c) = {<<"handled">>}
         \/ Places(c) = {<<"serving", Turn(c)>>}
         \/ \E n : Places(c) = {<<"ipc", Turn(c), n>>}
<1>1. Turn(c) \in Workers
  BY Turns DEF IInv, TypeOK
<1>2. \A p : p \in Places(c) <=>
        \/ iSockfd = c /\ p = <<"master">>
        \/ \E w \in Workers : \E n \in DOMAIN ipc[w] :
             ipc[w][n] = c /\ p = <<"ipc", w, n>>
        \/ \E w \in Workers : c \in serving[w] /\ p = <<"serving", w>>
        \/ c \in handled /\ p = <<"handled">>
  BY InPlaces, Zenon
<1>3. iSockfd = c => c \notin handled
  BY DEF IInv, PlaceInv
<1>4. \A w \in Workers : c \in serving[w] => w = Turn(c) /\ c \notin handled \union {iSockfd}
  BY Zenon DEF IInv, PlaceInv
<1>5. \A w \in Workers : \A n \in DOMAIN ipc[w] : ipc[w][n] = c =>
        /\ w = Turn(c) /\ c \notin handled \union {iSockfd} \union serving[w]
        /\ \A m \in DOMAIN ipc[w] : ipc[w][m] = c => m = n
  BY DEF IInv, PlaceInv
<1>6. CASE iSockfd = c
  BY <1>2, <1>3, <1>4, <1>5, <1>6
<1>7. CASE c \in handled
  BY <1>2, <1>3, <1>4, <1>5, <1>7, Zenon
<1>8. CASE c \in serving[Turn(c)]
  BY <1>1, <1>2, <1>4, <1>5, <1>8
<1>9. CASE \E n \in DOMAIN ipc[Turn(c)] : ipc[Turn(c)][n] = c
  <2>1. PICK n \in DOMAIN ipc[Turn(c)] : ipc[Turn(c)][n] = c
    BY <1>9, Zenon
  <2>2. \A p : p \in Places(c) <=> p = <<"ipc", Turn(c), n>>
    BY <1>1, <1>2, <1>4, <1>5, <2>1, SMTT(30)
  <2> QED
    BY <2>2
<1>10. CASE /\ iSockfd # c /\ c \notin handled /\ c \notin serving[Turn(c)]
            /\ \A n \in DOMAIN ipc[Turn(c)] : ipc[Turn(c)][n] # c
  BY <1>2, <1>4, <1>5, <1>10
<1> QED
  BY <1>6, <1>7, <1>8, <1>9, <1>10, Zenon

(* An accepted client is in one place, which is the master or the worker   *)
(* whose turn it was, until it is handled or its worker ends.              *)
THEOREM ClientsCorrect == Spec => []ClientsAccounted
<1>1. ASSUME IInv, NEW c \in 1..clients
      PROVE  /\ Cardinality(Places(c)) <= 1
             /\ Places(c) = {} => wpc[Turn(c)] \in {"exit", "exited", "killed"}
             /\ \A p \in Places(c) : p[1] \in {"ipc", "serving"} => p[2] = Turn(c)
  <2>1. Cardinality(Places(c)) <= 1
    <3>1. Places(c) = {} \/ \E x : Places(c) = {x}
      BY <1>1, OnePlace, Zenon
    <3> QED
      BY <3>1, FS_EmptySet, FS_Singleton
  <2>2. Places(c) = {} => wpc[Turn(c)] \in {"exit", "exited", "killed"}
    <3> SUFFICES ASSUME Places(c) = {}
                 PROVE  wpc[Turn(c)] \in {"exit", "exited", "killed"}
      BY Zenon
    <3>1. c # iSockfd /\ c \notin handled
      BY InPlaces, Zenon
    <3>2. ASSUME NEW w \in Workers PROVE c \notin serving[w]
      BY InPlaces, Zenon
    <3>3. ASSUME NEW w \in Workers, NEW n \in DOMAIN ipc[w] PROVE ipc[w][n] # c
      BY InPlaces, ZenonT(30), Zenon
    <3> QED
      BY <1>1, <3>1, <3>2, <3>3, Zenon DEF IInv, LostInv
  <2>3. \A p \in Places(c) : p[1] \in {"ipc", "serving"} => p[2] = Turn(c)
    BY <1>1, OnePlace
  <2> QED
    BY <2>1, <2>2, <2>3, Zenon
<1>2. IInv => ClientsAccounted
  BY <1>1, Zenon DEF ClientsAccounted, Turn
<1> QED
  BY <1>2, Invariant, PTL
=============================================================================
