-------------------------- MODULE ClientInvariant --------------------------
(***************************************************************************)
(* The inductive invariant of Client: which clients and events there are,  *)
(* and who uses each descriptor.  ClientProofs draws the conclusions.      *)
(***************************************************************************)
EXTENDS Client, WellFoundedInduction, TLAPS

-----------------------------------------------------------------------------
(***************************************************************************)
(* The inductive invariant.                                                *)
(***************************************************************************)
Closing == {"close1", "close2"}
Starting == Closing \union {"socket", "loop", "signal"}

Held(c) == {n \in DOMAIN fd : fd[n] = c}

(* DescriptorsAccounted, with the descriptors named.                       *)
HeldInv ==
  pc # "ended" => \A c \in Clients :
    /\ st[c] = "live" => Held(c) = {iSockfd[c]}
    /\ st[c] = "leaked" => \E n \in DOMAIN fd : Held(c) = {n}
    /\ st[c] \in {"away", "ipc", "lost"} => Held(c) = {}
    /\ st[c] = "freed" => Held(c) = IF c \in shut THEN {} ELSE {0}

(* Until the event loop runs, the table holds what workerp_entry opened.   *)
StartInv ==
  /\ pc \in Closing => LogfileFd = NoFd /\ fd[0] \in {"std", "free"}
  /\ pc \in Closing => \A n \in DOMAIN fd \ {0} : fd[n] = "free"
  /\ pc = "socket" => \A n \in DOMAIN fd \ {LogfileFd} : fd[n] = "free"
  /\ pc = "loop" =>
       \A n \in DOMAIN fd \ {LogfileFd, iWorkerIPCfd} : fd[n] = "free"
  /\ pc = "signal" => \E e \in DOMAIN fd :
       \A n \in DOMAIN fd \ {LogfileFd, iWorkerIPCfd, e} : fd[n] = "free"
  /\ pc \in Closing \union {"socket"} <=> iWorkerIPCfd = NoFd /\ pc # "ended"

(* Where the clients are while the worker starts, and in the IPC socket.   *)
QueueInv ==
  /\ pc \in Closing \union {"socket"} => \A c \in Clients : st[c] = "away"
  /\ pc \in Starting => \A c \in Clients : st[c] \in {"away", "ipc"}
  /\ \A n \in DOMAIN ipc : st[ipc[n]] = "ipc"
  /\ \A m, n \in DOMAIN ipc : ipc[m] = ipc[n] => m = n
  /\ \A c \in shut : st[c] = "freed"

(* Events wait only while the event loop runs, and the client of a send    *)
(* that blocks is not deregistered.                                        *)
LoopInv ==
  /\ pc \in Starting => io = {} /\ timer = {} /\ pending = {} /\ ~done
  /\ pc = "send" => st[cur] = "live"
  /\ pc = "ended" => io = {} /\ timer = {} /\ pending = {} /\ LogfileFd = NoFd

TableInv == OwnsDescriptor /\ HeldInv /\ StartInv

EventInv == NoStaleEvent /\ LoopInv /\ QueueInv

IInv == TypeOK /\ TableInv /\ EventInv

USE DEF Nobody, NoFd, loopVars, peerVars, clientVars, masterVars

-----------------------------------------------------------------------------
(***************************************************************************)
(* The table of descriptors.                                               *)
(***************************************************************************)

(* A set of numbers that is not empty has a least one, which Min returns:  *)
(* open, socket and recvmsg take the lowest descriptor that is free.       *)
LEMMA MinOfNats ==
  ASSUME NEW S \in SUBSET Nat, S # {}
  PROVE  Min(S) \in S
<1> DEFINE R == {ss \in Nat \X Nat : ss[1] < ss[2]}
<1>1. IsWellFoundedOn(R, Nat)
  BY NatLessThanWellFounded, Zenon DEF OpToRel
<1>2. PICK x \in S : \A y \in S : ~(<<y, x>> \in R)
  BY <1>1, WFMin, Zenon
<1>3. \A a, b \in Nat : a < b => <<a, b>> \in R
  BY Zenon
<1> HIDE DEF R
<1>4. \A y \in S : ~(y < x)
  BY <1>2, <1>3, Zenon
<1>5. \E m \in S : \A y \in S : m <= y
  BY <1>4
<1> QED
  BY <1>5, Zenon DEF Min

(* A client is none of the other users of a descriptor.                    *)
LEMMA NoMarker ==
  ASSUME NEW c \in Clients
  PROVE  c \notin {"nobody", "free", "std", "log", "ipc", "ev", "www"}
BY ClientAssumption, Zenon

(* Opening a descriptor takes one that is free and leaves the others.      *)
LEMMA OpenedOne ==
  ASSUME TypeOK, Free # {},
         NEW user \in {"log", "ipc", "ev", "www"} \union Clients
  PROVE  /\ Min(Free) \in 0..(Limit - 1)
         /\ fd[Min(Free)] = "free"
         /\ Opened(user) \in [0..(Limit - 1) ->
              {"free", "std", "log", "ipc", "ev", "www"} \union Clients]
         /\ Opened(user)[Min(Free)] = user
         /\ \A n \in 0..(Limit - 1) \ {Min(Free)} : Opened(user)[n] = fd[n]
<1>1. fd \in [0..(Limit - 1) ->
              {"free", "std", "log", "ipc", "ev", "www"} \union Clients]
  BY Zenon DEF TypeOK
<1>2. Free \in SUBSET Nat
  BY <1>1, ClientAssumption DEF Free
<1>3. Min(Free) \in Free
  BY <1>2, MinOfNats, Zenon
<1>4. Min(Free) \in 0..(Limit - 1) /\ fd[Min(Free)] = "free"
  BY <1>1, <1>3, Zenon DEF Free
<1> QED
  BY <1>1, <1>4, Zenon DEF Opened

-----------------------------------------------------------------------------
(***************************************************************************)
(* Every step keeps the invariant.                                         *)
(***************************************************************************)

(* workerp_entry starts with the standard input open and no client.        *)
LEMMA InitInv == ASSUME Init PROVE IInv
<1>1. TypeOK
  <2>1. fd \in [0..(Limit - 1) ->
               {"free", "std", "log", "ipc", "ev", "www"} \union Clients]
    BY Zenon DEF Init
  <2>2. -1 \in -1..(Limit - 1) /\ 0 \in 0..MaxFaults
    BY ClientAssumption
  <2>3. ipc \in Seq(Clients)
    BY DEF Init
  <2> QED
    BY <2>1, <2>2, <2>3, Zenon DEF Init, TypeOK
<1>2. EventInv
  BY DEF Init, EventInv, NoStaleEvent, LoopInv, QueueInv, Starting, Closing,
         EventsOf
<1>3. OwnsDescriptor /\ StartInv
  BY ClientAssumption DEF Init, OwnsDescriptor, StartInv, Closing
<1>4. HeldInv
  BY NoMarker, Zenon DEF Init, HeldInv, Held
<1> QED
  BY <1>1, <1>2, <1>3, <1>4, Zenon DEF IInv, TableInv

(* The end of the process leaves nothing open and nothing to be invoked.   *)
LEMMA EndsInv == ASSUME IInv, ProcessEnds PROVE IInv'
<1>1. TypeOK'
  <2>1. -1 \in -1..(Limit - 1)
    BY ClientAssumption
  <2>2. ipc' \in Seq(Clients)
    BY DEF ProcessEnds
  <2> QED
    BY <2>1, <2>2, Zenon DEF IInv, ProcessEnds, TypeOK
<1>2. TableInv'
  BY Zenon
     DEF ProcessEnds, TableInv, OwnsDescriptor, HeldInv, StartInv, Closing
<1>3. NoStaleEvent' /\ LoopInv'
  BY Zenon DEF ProcessEnds, NoStaleEvent, LoopInv, Starting, Closing
<1>4. QueueInv'
  BY DEF IInv, EventInv, ProcessEnds, QueueInv, Starting, Closing
<1> QED
  BY <1>1, <1>2, <1>3, <1>4, Zenon DEF IInv, EventInv

(* A step that changes no descriptor of a client keeps the accounts.       *)
LEMMA HeldKept ==
  ASSUME HeldInv, pc # "ended", UNCHANGED clientVars, DOMAIN fd' = DOMAIN fd,
         \A c \in Clients, n \in DOMAIN fd : fd'[n] = c <=> fd[n] = c
  PROVE  HeldInv'
<1>1. \A c \in Clients : Held(c)' = Held(c)
  BY Zenon DEF Held
<1> QED
  BY <1>1 DEF HeldInv

(* A step that leaves clients, watchers and the IPC socket alone and stays *)
(* on its side of the start of the event loop keeps EventInv.              *)
LEMMA EventKept ==
  ASSUME IInv, pc # "ended", pc' # "ended",
         UNCHANGED <<clientVars, peerVars, loopVars, masterVars, done, cur>>,
         pc' \in Starting => pc \in Starting,
         pc' \in Closing \union {"socket"} => pc \in Closing \union {"socket"},
         pc' = "send" => pc = "send"
  PROVE  EventInv'
BY Zenon DEF IInv, EventInv, NoStaleEvent, LoopInv, QueueInv, Readable

(* Neither close of descriptor 0 meets the logfile: nothing was logged.    *)
LEMMA CloseInv == ASSUME IInv, workerp_entry_close PROVE IInv'
<1>1. TypeOK'
  BY Zenon DEF IInv, TypeOK, workerp_entry_close, iMasterIPC
<1>2. HeldInv'
  <2>1. \A c \in Clients, n \in DOMAIN fd : fd'[n] = c <=> fd[n] = c
    BY NoMarker, Zenon DEF IInv, TypeOK, TableInv, StartInv, Closing,
       workerp_entry_close, iMasterIPC
  <2> QED
    BY <2>1, HeldKept, Zenon DEF IInv, TypeOK, TableInv, workerp_entry_close
<1>3. OwnsDescriptor' /\ StartInv'
  BY DEF IInv, TypeOK, TableInv, OwnsDescriptor, StartInv, EventInv, QueueInv,
     Closing, workerp_entry_close, iMasterIPC
<1>4. EventInv'
  BY EventKept, Zenon DEF workerp_entry_close, Starting, Closing
<1> QED
  BY <1>1, <1>2, <1>3, <1>4, Zenon DEF IInv, TableInv

(* Opening the logfile, the IPC socket or a descriptor of libev takes none *)
(* of a client, and none of another.                                       *)
LEMMA OpenInv ==
  ASSUME IInv, pc # "ended", Free # {}, NEW user \in {"log", "ipc", "ev"},
         fd' = Opened(user), UNCHANGED clientVars
  PROVE  /\ fd' \in [0..(Limit - 1) ->
                {"free", "std", "log", "ipc", "ev", "www"} \union Clients]
         /\ HeldInv'
         /\ LogfileFd # NoFd => fd'[LogfileFd] = "log"
         /\ iWorkerIPCfd # NoFd => fd'[iWorkerIPCfd] = "ipc"
         /\ \A c \in Clients : st[c] = "live" => fd'[iSockfd[c]] = c
<1>1. \A c \in Clients, n \in DOMAIN fd : fd'[n] = c <=> fd[n] = c
  BY OpenedOne, NoMarker DEF IInv, TypeOK
<1>2. HeldInv'
  BY <1>1, HeldKept, OpenedOne, Zenon DEF IInv, TypeOK, TableInv
<1>3. \A n \in DOMAIN fd : fd[n] # "free" => fd'[n] = fd[n]
  BY OpenedOne, Zenon DEF IInv, TypeOK
<1>4. \A n \in NoFd..(Limit - 1) : n # NoFd => n \in DOMAIN fd
  BY ClientAssumption DEF IInv, TypeOK
<1>5. /\ LogfileFd # NoFd => fd'[LogfileFd] = "log"
      /\ iWorkerIPCfd # NoFd => fd'[iWorkerIPCfd] = "ipc"
  BY <1>3, <1>4, Zenon DEF IInv, TypeOK, TableInv, OwnsDescriptor
<1>6. ASSUME NEW c \in Clients, st[c] = "live"
      PROVE  fd'[iSockfd[c]] = c
  BY <1>3, <1>4, <1>6, NoMarker, Zenon
     DEF IInv, TypeOK, TableInv, OwnsDescriptor
<1> QED
  BY <1>2, <1>5, <1>6, OpenedOne, Zenon DEF IInv

(* The IPC socket gets a descriptor while at most the logfile has one.     *)
LEMMA ConnectInv ==
  ASSUME IInv, workerp_connect_ipc_socket, ~ProcessEnds
  PROVE  IInv'
<1> USE DEF workerp_connect_ipc_socket
<1>1. 0 \in DOMAIN fd /\ 1 \in DOMAIN fd
  BY ClientAssumption DEF IInv, TypeOK
<1>2. Free # {}
  BY <1>1 DEF IInv, TableInv, StartInv, Free
<1>3. TypeOK'
  BY <1>2, OpenInv, OpenedOne, SMTT(30) DEF IInv, TypeOK
<1>4. HeldInv'
  BY <1>2, OpenInv, Zenon
<1>5. OwnsDescriptor'
  BY <1>2, OpenInv, OpenedOne DEF IInv, OwnsDescriptor
<1>6. StartInv'
  <2>1. \A n \in DOMAIN fd \ {LogfileFd, Min(Free)} : fd'[n] = "free"
    BY <1>2, OpenedOne DEF IInv, TypeOK, TableInv, StartInv
  <2>2. Min(Free) # NoFd /\ DOMAIN fd' = DOMAIN fd
    BY <1>2, OpenedOne DEF IInv, TypeOK
  <2> QED
    BY <2>1, <2>2, Zenon DEF StartInv, Closing
<1>7. EventInv'
  BY EventKept, Zenon DEF Starting, Closing
<1> QED
  BY <1>3, <1>4, <1>5, <1>6, <1>7, Zenon DEF IInv, TableInv

(* The event loop and its signal watcher find a descriptor free.           *)
LEMMA LoopOpenInv == ASSUME IInv, workerp_entry_loop PROVE IInv'
<1> USE DEF workerp_entry_loop
<1>1. {0, 1, 2, 3} \subseteq DOMAIN fd
  BY ClientAssumption DEF IInv, TypeOK
<1>2. Free # {}
  BY <1>1 DEF IInv, TableInv, StartInv, Free
<1>3. TypeOK'
  BY <1>2, OpenInv, Zenon DEF IInv, TypeOK
<1>4. HeldInv'
  BY <1>2, OpenInv, Zenon
<1>5. OwnsDescriptor'
  BY <1>2, OpenInv, Zenon DEF OwnsDescriptor
<1>6. StartInv'
  <2>1. ASSUME pc = "loop"
        PROVE  \A n \in DOMAIN fd \ {LogfileFd, iWorkerIPCfd, Min(Free)} :
                 fd'[n] = "free"
    BY <1>2, <2>1, OpenedOne DEF IInv, TypeOK, TableInv, StartInv
  <2>2. Min(Free) \in DOMAIN fd /\ DOMAIN fd' = DOMAIN fd
    BY <1>2, OpenedOne, Zenon DEF IInv, TypeOK
  <2>3. iWorkerIPCfd # NoFd
    BY Zenon DEF IInv, TableInv, StartInv, Closing
  <2> QED
    BY <2>1, <2>2, <2>3, Zenon DEF StartInv, Closing
<1>7. EventInv'
  BY EventKept, Zenon DEF Starting, Closing
<1> QED
  BY <1>3, <1>4, <1>5, <1>6, <1>7, Zenon DEF IInv, TableInv

(* The writing thread opens its file on a descriptor nobody uses ...       *)
LEMMA LogOpenInv ==
  ASSUME IInv, logger_thread_open, ~ProcessEnds
  PROVE  IInv'
<1> USE DEF logger_thread_open, HasLogged
<1>1. Free # {} /\ pc # "ended"
  BY Zenon
<1>2. TypeOK'
  BY <1>1, OpenInv, OpenedOne DEF IInv, TypeOK
<1>3. HeldInv'
  BY <1>1, OpenInv, Zenon
<1>4. OwnsDescriptor'
  BY <1>1, OpenInv, OpenedOne DEF IInv, OwnsDescriptor
<1>5. StartInv'
  <2>1. \A n \in DOMAIN fd : n # LogfileFd' => fd'[n] = fd[n] /\ n # LogfileFd
    BY <1>1, OpenedOne DEF IInv, TypeOK
  <2>2. DOMAIN fd' = DOMAIN fd
    BY <1>1, OpenedOne DEF IInv, TypeOK
  <2> QED
    BY <2>1, <2>2, Zenon DEF IInv, TableInv, StartInv, Closing
<1>6. EventInv'
  BY EventKept, Zenon
<1> QED
  BY <1>2, <1>3, <1>4, <1>5, <1>6, Zenon DEF IInv, TableInv

(* ... and closes only that.                                               *)
LEMMA LogCloseInv == ASSUME IInv, logger_thread_close PROVE IInv'
<1> USE DEF logger_thread_close
<1>1. LogfileFd \in DOMAIN fd /\ fd[LogfileFd] = "log"
  BY ClientAssumption DEF IInv, TypeOK, TableInv, OwnsDescriptor
<1>2. pc # "ended" /\ pc \notin Closing
  BY Zenon DEF IInv, EventInv, LoopInv, TableInv, StartInv
<1>3. TypeOK'
  BY <1>1, ClientAssumption DEF IInv, TypeOK
<1>4. /\ DOMAIN fd' = DOMAIN fd /\ fd'[LogfileFd] = "free"
      /\ \A n \in DOMAIN fd \ {LogfileFd} : fd'[n] = fd[n]
  BY <1>1, Zenon DEF IInv, TypeOK
<1>5. HeldInv'
  <2>1. \A c \in Clients, n \in DOMAIN fd : fd'[n] = c <=> fd[n] = c
    BY <1>1, <1>4, NoMarker, Zenon
  <2> QED
    BY <1>2, <1>4, <2>1, HeldKept, Zenon DEF IInv, TableInv
<1>6. OwnsDescriptor'
  <2>1. \A n \in NoFd..(Limit - 1) : n # NoFd => n \in DOMAIN fd
    BY ClientAssumption DEF IInv, TypeOK
  <2> QED
    BY <1>1, <1>2, <1>4, <2>1, NoMarker
       DEF IInv, TypeOK, TableInv, OwnsDescriptor
<1>7. StartInv'
  BY <1>1, <1>2, <1>4 DEF IInv, TableInv, StartInv
<1>8. EventInv'
  BY <1>2, EventKept, Zenon
<1> QED
  BY <1>3, <1>5, <1>6, <1>7, <1>8, Zenon DEF IInv, TableInv

(* client_deregister gives back the client's descriptor, watchers and      *)
(* events, and nothing of another client.  The table at the call may hold  *)
(* one descriptor more than the last, for the file that was sent.          *)
LEMMA DeregisterInv ==
  ASSUME IInv, NEW c \in Clients, st[c] = "live", pc \in {"run", "send"},
         NEW table \in [0..(Limit - 1) ->
               {"free", "std", "log", "ipc", "ev", "www"} \union Clients],
         \A n \in DOMAIN fd : fd[n] # "free" => table[n] = fd[n],
         \A n \in DOMAIN fd : fd[n] = "free" => table[n] \notin Clients,
         client_deregister(c, table), pc' = "run", cur' = Nobody,
         UNCHANGED <<iWorkerIPCfd, LogfileFd, masterVars, done, faults>>
  PROVE  IInv'
<1> USE DEF client_deregister
<1>1. iSockfd[c] \in DOMAIN fd /\ fd[iSockfd[c]] = c
  BY ClientAssumption DEF IInv, TypeOK, TableInv, OwnsDescriptor
<1>0. fd' = IF iSockfd[c] = 0 THEN table
                              ELSE [table EXCEPT ![iSockfd[c]] = "free"]
  BY Zenon DEF CloseSocket
<1>2. /\ DOMAIN fd' = DOMAIN fd /\ DOMAIN table = DOMAIN fd
      /\ \A n \in DOMAIN fd : n # iSockfd[c] => fd'[n] = table[n]
      /\ fd'[iSockfd[c]] = IF iSockfd[c] = 0 THEN c ELSE "free"
  <2>1. DOMAIN table = DOMAIN fd /\ table[iSockfd[c]] = c
    BY <1>1, NoMarker, Zenon DEF IInv, TypeOK
  <2> QED
    BY <1>0, <1>1, <2>1, Zenon
<1>3. /\ c \notin shut
      /\ shut' = IF iSockfd[c] = 0 THEN shut ELSE shut \union {c}
  BY Zenon DEF IInv, EventInv, QueueInv, CloseSocket
<1>4. TypeOK'
  <2>1. fd' \in [0..(Limit - 1) ->
               {"free", "std", "log", "ipc", "ev", "www"} \union Clients]
    BY <1>0, Zenon
  <2>2. /\ timer' \subseteq timer /\ due' \subseteq timer' /\ io' \subseteq io
        /\ pending' \subseteq pending
    BY Zenon DEF IInv, TypeOK, StopWatchers
  <2>3. /\ data' \subseteq data
        /\ peer' \in [Clients -> {"open", "eof", "reset", "spent"}]
    BY ZenonT(30) DEF IInv, TypeOK, CloseSocket
  <2>4. -1 \in -1..(Limit - 1)
    BY ClientAssumption
  <2> QED
    BY <1>3, <2>1, <2>2, <2>3, <2>4, ZenonT(30) DEF IInv, TypeOK
<1>5. HeldInv'
  <2>1. \A d \in Clients \ {c} : Held(d)' = Held(d)
    BY <1>1, <1>2, NoMarker DEF Held
  <2>2. Held(c) = {iSockfd[c]}
    BY Zenon DEF IInv, TableInv, HeldInv
  <2>3. Held(c)' = IF iSockfd[c] = 0 THEN {0} ELSE {}
    BY <1>1, <1>2, <2>2, NoMarker DEF Held
  <2>4. \A d \in Clients \ {c} : /\ st'[d] = st[d] /\ iSockfd'[d] = iSockfd[d]
                                 /\ d \in shut' <=> d \in shut
    BY <1>3, Zenon DEF IInv, TypeOK
  <2>5. st'[c] = "freed"
    BY Zenon DEF IInv, TypeOK
  <2> QED
    BY <1>2, <1>3, <2>1, <2>3, <2>4, <2>5 DEF IInv, TableInv, HeldInv
<1>6. OwnsDescriptor'
  <2>1. \A n \in NoFd..(Limit - 1) : n # NoFd => n \in DOMAIN fd
    BY ClientAssumption DEF IInv, TypeOK
  <2>2. \A n \in DOMAIN fd : fd[n] \notin {"free", c} => fd'[n] = fd[n]
    BY <1>1, <1>2, Zenon
  <2>3. /\ LogfileFd' # NoFd => fd'[LogfileFd'] = "log"
        /\ iWorkerIPCfd' # NoFd => fd'[iWorkerIPCfd'] = "ipc"
    BY <2>1, <2>2, NoMarker, Zenon DEF IInv, TypeOK, TableInv, OwnsDescriptor
  <2>4. ASSUME NEW d \in Clients, st'[d] = "live"
        PROVE  fd'[iSockfd'[d]] = d
    BY <2>1, <2>2, <2>4, NoMarker, SMTT(30)
       DEF IInv, TypeOK, TableInv, OwnsDescriptor
  <2> QED
    BY <2>3, <2>4, Zenon DEF OwnsDescriptor
<1>7. StartInv'
  BY Zenon DEF IInv, TableInv, StartInv, Closing
<1>8. NoStaleEvent'
  BY DEF IInv, TypeOK, EventInv, NoStaleEvent, StopWatchers, CloseSocket,
     EventsOf, Readable
<1>9. LoopInv' /\ QueueInv'
  BY <1>3 DEF IInv, TypeOK, EventInv, LoopInv, QueueInv, Starting, Closing
<1> QED
  BY <1>4, <1>5, <1>6, <1>7, <1>8, <1>9, Zenon DEF IInv, TableInv, EventInv

(* A callback of a client runs in the event loop and for a live client.    *)
LEMMA InvokedLive ==
  ASSUME IInv, NEW c \in Clients, NEW e \in EventsOf(c), Invoked(e)
  PROVE  st[c] = "live" /\ pc = "run" /\ cur = Nobody
BY Zenon DEF IInv, TypeOK, EventInv, NoStaleEvent, Invoked

(* The timer of a client runs out.                                         *)
LEMMA TimeoutInv ==
  ASSUME IInv, NEW c \in Clients, client_callback_timeout(c)
  PROVE  IInv'
<1>1. st[c] = "live" /\ pc = "run" /\ cur = Nobody
  BY InvokedLive, Zenon DEF client_callback_timeout, EventsOf
<1>2. \A n \in DOMAIN fd : fd[n] = "free" => fd[n] \notin Clients
  BY NoMarker, Zenon
<1> QED
  BY <1>1, <1>2, DeregisterInv, Zenon DEF IInv, TypeOK, client_callback_timeout

(* A step that leaves the table and what uses it alone keeps TableInv.     *)
LEMMA TableKept ==
  ASSUME TableInv,
         UNCHANGED <<pc, fd, iWorkerIPCfd, LogfileFd, clientVars>>
  PROVE  TableInv'
BY DEF TableInv, OwnsDescriptor, HeldInv, Held, StartInv

(* A read that fails, or that finds the end.                               *)
LEMMA ServeEndInv ==
  ASSUME IInv, NEW c \in Clients, serve_error(c) \/ serve_eof(c)
  PROVE  IInv'
<1>1. CASE serve_error(c)
  <2> USE <1>1 DEF serve_error
  <2>1. TypeOK'
    BY Zenon DEF IInv, TypeOK
  <2>2. TableInv'
    BY TableKept, SMTT(30) DEF IInv
  <2>3. EventInv'
    BY SMTT(30)
    DEF IInv, TypeOK, EventInv, NoStaleEvent, LoopInv, QueueInv, Readable
  <2> QED
    BY <2>1, <2>2, <2>3, Zenon DEF IInv
<1>2. CASE serve_eof(c)
  <2>1. st[c] = "live" /\ pc = "run" /\ cur = Nobody
    BY <1>2, InvokedLive, Zenon DEF serve_eof, EventsOf
  <2>2. \A n \in DOMAIN fd : fd[n] = "free" => fd[n] \notin Clients
    BY NoMarker, Zenon
  <2> QED
    BY <1>2, <2>1, <2>2, DeregisterInv, Zenon DEF IInv, TypeOK, serve_eof
<1> QED
  BY <1>1, <1>2, Zenon

(* A request: the file takes a descriptor of its own, then the client is   *)
(* deregistered, or waits in send.                                         *)
LEMMA RequestInv ==
  ASSUME IInv, NEW c \in Clients, serve_request(c)
  PROVE  IInv'
<1>1. st[c] = "live" /\ pc = "run" /\ cur = Nobody
  BY InvokedLive, Zenon DEF serve_request, EventsOf
<1>2. PICK req \in Requests, opened \in BOOLEAN :
       /\ opened => OpensFile(req) /\ Free # {}
       /\ LET table == IF opened THEN Opened("www") ELSE fd
              answer == http_handle_client_request(req, opened) IN
          \/ /\ client_deregister(c, table)
             /\ UNCHANGED <<pc, iWorkerIPCfd, LogfileFd, masterVars, done,
                            cur, faults>>
          \/ /\ answer.content # NoName /\ peer[c] # "reset"
             /\ pc' = "send" /\ cur' = c
             /\ fd' = table
             /\ data' = data \ {c}
             /\ due' = due \ {c}
             /\ pending' = pending \ EventsOf(c)
             /\ UNCHANGED <<iWorkerIPCfd, LogfileFd, clientVars, peer, io,
                            timer, masterVars, done, faults>>
          \/ peer[c] = "reset" /\ ProcessEnds
  BY Zenon DEF serve_request
<1> DEFINE table == IF opened THEN Opened("www") ELSE fd
<1>3. /\ table \in [0..(Limit - 1) ->
               {"free", "std", "log", "ipc", "ev", "www"} \union Clients]
      /\ \A n \in DOMAIN fd : fd[n] # "free" => table[n] = fd[n]
      /\ \A n \in DOMAIN fd : fd[n] = "free" => table[n] \notin Clients
  <2>1. CASE opened
    BY <1>2, <2>1, OpenedOne, NoMarker, SMTT(30) DEF IInv, TypeOK
  <2>2. CASE ~opened
    BY <2>2, NoMarker, Zenon DEF IInv, TypeOK
  <2> QED
    BY <2>1, <2>2, Zenon
<1> HIDE DEF table
<1>4. CASE /\ client_deregister(c, table)
           /\ UNCHANGED <<pc, iWorkerIPCfd, LogfileFd, masterVars, done, cur,
                          faults>>
  BY <1>1, <1>3, <1>4, DeregisterInv, Zenon
<1>5. CASE /\ pc' = "send" /\ cur' = c /\ fd' = table
           /\ data' = data \ {c} /\ due' = due \ {c}
           /\ pending' = pending \ EventsOf(c)
           /\ UNCHANGED <<iWorkerIPCfd, LogfileFd, clientVars, peer, io,
                          timer, masterVars, done, faults>>
  <2>1. TypeOK'
    BY <1>1, <1>3, <1>5, NoMarker, Zenon DEF IInv, TypeOK
  <2>2. HeldInv'
    <3>1. \A d \in Clients, n \in DOMAIN fd : fd'[n] = d <=> fd[n] = d
      BY <1>3, <1>5, NoMarker, Zenon
    <3>2. DOMAIN fd' = DOMAIN fd
      BY <1>3, <1>5, Zenon DEF IInv, TypeOK
    <3> QED
      BY <1>1, <1>5, <3>1, <3>2, HeldKept, Zenon DEF IInv, TableInv
  <2>3. OwnsDescriptor'
    <3>1. \A n \in NoFd..(Limit - 1) : n # NoFd => n \in DOMAIN fd
      BY ClientAssumption DEF IInv, TypeOK
    <3>2. \A n \in DOMAIN fd : fd[n] # "free" => fd'[n] = fd[n]
      BY <1>3, <1>5, Zenon
    <3>3. /\ LogfileFd' # NoFd => fd'[LogfileFd'] = "log"
          /\ iWorkerIPCfd' # NoFd => fd'[iWorkerIPCfd'] = "ipc"
      BY <1>5, <3>1, <3>2, Zenon DEF IInv, TypeOK, TableInv, OwnsDescriptor
    <3>4. ASSUME NEW d \in Clients, st'[d] = "live", pc' # "ended"
          PROVE  fd'[iSockfd'[d]] = d
      <4>1. fd[iSockfd[d]] = d /\ d # "free"
        BY <1>1, <1>5, <3>4, NoMarker, Zenon DEF IInv, TableInv, OwnsDescriptor
      <4>2. iSockfd[d] \in DOMAIN fd
        BY <1>1, <1>5, <3>1, <3>4, Zenon DEF IInv, TypeOK
      <4> QED
        BY <1>5, <3>2, <4>1, <4>2, Zenon
    <3> QED
      BY <3>3, <3>4, Zenon DEF OwnsDescriptor
  <2>4. StartInv'
    BY <1>1, <1>5, Zenon DEF IInv, TableInv, StartInv, Closing
  <2>5. NoStaleEvent'
    BY <1>5, Zenon DEF IInv, TypeOK, EventInv, NoStaleEvent, Readable, EventsOf
  <2>6. LoopInv' /\ QueueInv'
    BY <1>1, <1>5, SMTT(30)
       DEF IInv, EventInv, LoopInv, QueueInv, Starting, Closing
  <2> QED
    BY <2>1, <2>2, <2>3, <2>4, <2>5, <2>6, Zenon DEF IInv, TableInv, EventInv
<1> QED
  BY <1>2, <1>4, <1>5, EndsInv, Zenon DEF table

(* A send that waited returns.                                             *)
LEMMA SendInv ==
  ASSUME IInv, send_returns, ~ProcessEnds
  PROVE  IInv'
<1>1. PICK c \in Clients : c = cur /\ st[c] = "live"
  BY Zenon DEF IInv, TypeOK, EventInv, LoopInv, send_returns
<1>2. \A n \in DOMAIN fd : fd[n] = "free" => fd[n] \notin Clients
  BY NoMarker, Zenon
<1> QED
  BY <1>1, <1>2, DeregisterInv, Zenon DEF IInv, TypeOK, send_returns

(* What libev collects belongs to active watchers, a read to a client that *)
(* can be read.                                                            *)
LEMMA PollInv == ASSUME IInv, ev_poll PROVE IInv'
<1> USE DEF ev_poll
<1>1. \A c \in Clients : <<"io", c>> \in Collected => c \in io /\ Readable(c)
  BY DEF Collected
<1>2. \A c \in Clients : <<"timer", c>> \in Collected => c \in due
  BY DEF Collected
<1>3. Collected \subseteq {<<"ipc">>, <<"sigint">>}
                          \union UNION {EventsOf(c) : c \in Clients}
  BY DEF IInv, TypeOK, Collected, EventsOf
<1>4. TypeOK'
  BY <1>3, Zenon DEF IInv, TypeOK
<1>5. TableInv'
  BY TableKept, Zenon DEF IInv
<1>6. NoStaleEvent'
  BY <1>1, <1>2, Zenon
     DEF IInv, TypeOK, EventInv, NoStaleEvent, EventsOf, Readable
<1>7. LoopInv' /\ QueueInv'
  BY Zenon DEF IInv, EventInv, LoopInv, QueueInv, Starting, Closing
<1> QED
  BY <1>4, <1>5, <1>6, <1>7, ZenonT(30) DEF IInv, EventInv

(* The IPC socket after a message was read: the rest, without its client.  *)
LEMMA IpcRest ==
  ASSUME IInv, ipc # <<>>
  PROVE  /\ Head(ipc) \in Clients /\ st[Head(ipc)] = "ipc"
         /\ Tail(ipc) \in Seq(Clients)
         /\ \A n \in DOMAIN Tail(ipc) : /\ Tail(ipc)[n] # Head(ipc)
                                        /\ st[Tail(ipc)[n]] = "ipc"
         /\ \A m, n \in DOMAIN Tail(ipc) : Tail(ipc)[m] = Tail(ipc)[n] => m = n
<1>1. ipc \in Seq(Clients) /\ Len(ipc) \in Nat \ {0}
  BY DEF IInv, TypeOK
<1>2. 1 \in DOMAIN ipc /\ Head(ipc) = ipc[1]
  BY <1>1
<1>3. /\ Tail(ipc) \in Seq(Clients)
      /\ \A n \in DOMAIN Tail(ipc) : /\ n \in Nat /\ n + 1 \in DOMAIN ipc
                                     /\ Tail(ipc)[n] = ipc[n + 1] /\ n + 1 # 1
  BY <1>1
<1>4. Head(ipc) \in Clients
  BY <1>1, <1>2
<1>5. \A m, n \in DOMAIN ipc : ipc[m] = ipc[n] => m = n
  BY Zenon DEF IInv, EventInv, QueueInv
<1>6. \A n \in DOMAIN ipc : st[ipc[n]] = "ipc"
  BY Zenon DEF IInv, EventInv, QueueInv
<1>7. \A m, n \in DOMAIN Tail(ipc) : Tail(ipc)[m] = Tail(ipc)[n] => m = n
  BY <1>3, <1>5
<1> QED
  BY <1>2, <1>3, <1>4, <1>5, <1>6, <1>7

(* A client is received: registered, left behind, or lost.                 *)
LEMMA IpcInv == ASSUME IInv, workerp_ipc_callback PROVE IInv'
<1>1. CASE ipc = <<>>
  <2> USE DEF workerp_ipc_callback
  <2>1. TypeOK'
    BY <1>1, Zenon DEF IInv, TypeOK
  <2>2. TableInv'
    BY <1>1, TableKept, Zenon DEF IInv
  <2>3. EventInv'
    BY <1>1 DEF IInv, EventInv, NoStaleEvent, LoopInv, QueueInv, Readable,
       Invoked, Starting, Closing
  <2> QED
    BY <2>1, <2>2, <2>3, Zenon DEF IInv
<1>2. CASE ipc # <<>>
  <2>0. PICK c \in Clients : c = Head(ipc)
    BY <1>2, IpcRest, Zenon
  <2>1. /\ UNCHANGED <<pc, iWorkerIPCfd, LogfileFd, shut, peerVars, due, master,
                      sig, done, cur, faults>>
        /\ pending' \subseteq pending /\ ipc' = Tail(ipc) /\ pc = "run"
    BY <1>2, Zenon DEF workerp_ipc_callback, Received, Invoked
  <2>2. /\ Free # {} => fd' = Opened(c) /\ client_register_ev(c)
        /\ Free = {} => /\ st' = [st EXCEPT ![c] = "lost"]
                        /\ UNCHANGED <<fd, iSockfd, io, timer>>
    BY <1>2, <2>0, Zenon DEF workerp_ipc_callback
  <2>3. \E s \in {"live", "leaked", "lost"} : st' = [st EXCEPT ![c] = s]
    BY <2>2, Zenon DEF client_register_ev
  <2>4. /\ \A d \in Clients \ {c} : st'[d] = st[d]
        /\ st'[c] \in {"live", "leaked", "lost"} /\ st[c] = "ipc"
    <3>1. st = [d \in Clients |-> st[d]]
      BY Zenon DEF IInv, TypeOK
    <3>2. st[c] = "ipc"
      BY <1>2, <2>0, IpcRest, Zenon
    <3> QED
      BY <2>3, <3>1, <3>2, Zenon
  <2>5. QueueInv'
    <3>1. /\ \A n \in DOMAIN ipc' : ipc'[n] \in Clients \ {c} /\ st[ipc'[n]] = "ipc"
          /\ \A m, n \in DOMAIN ipc' : ipc'[m] = ipc'[n] => m = n
      <4>1. /\ Tail(ipc) \in Seq(Clients)
            /\ \A n \in DOMAIN Tail(ipc) : /\ Tail(ipc)[n] # c
                                           /\ st[Tail(ipc)[n]] = "ipc"
            /\ \A m, n \in DOMAIN Tail(ipc) : Tail(ipc)[m] = Tail(ipc)[n] => m = n
        BY <1>2, <2>0, IpcRest, Zenon
      <4> QED
        BY <2>1, <4>1
    <3>2. \A d \in shut' : st'[d] = "freed"
      BY <2>1, <2>4, Zenon DEF IInv, TypeOK, EventInv, QueueInv
    <3> QED
      BY <2>1, <2>4, <3>1, <3>2, Zenon DEF QueueInv, Starting, Closing
  <2>6. /\ io' \subseteq io \union {c} /\ timer' \subseteq timer \union {c}
        /\ io' # io \/ timer' # timer => st'[c] = "live"
        /\ timer \subseteq timer'
    <3>1. st = [d \in Clients |-> st[d]]
      BY DEF IInv, TypeOK
    <3> QED
      BY <2>2, <3>1, Zenon DEF client_register_ev, StartWatchers
  <2>7. /\ st' \in [Clients -> {"away", "ipc", "live", "freed", "leaked", "lost"}]
         /\ ipc' \in Seq(Clients)
    BY <1>2, <2>1, <2>3, IpcRest DEF IInv, TypeOK
  <2>8. /\ io' \subseteq Clients /\ timer' \subseteq Clients
         /\ due' \subseteq timer' /\ pending' \subseteq pending
    BY <2>1, <2>6, Zenon DEF IInv, TypeOK
  <2>9. NoStaleEvent'
    BY <2>1, <2>4, <2>6, ZenonT(30)
       DEF IInv, TypeOK, EventInv, NoStaleEvent, Readable
  <2>10. LoopInv'
    BY <2>1, Zenon DEF LoopInv, Starting, Closing
  <2>11. CASE Free # {}
    <3>0. PICK n : n = Min(Free)
      BY Zenon
    <3>1. /\ n \in DOMAIN fd /\ fd[n] = "free" /\ fd'[n] = c
          /\ fd' \in [0..(Limit - 1) ->
               {"free", "std", "log", "ipc", "ev", "www"} \union Clients]
          /\ \A m \in DOMAIN fd \ {n} : fd'[m] = fd[m]
      <4>1. fd' = Opened(c)
        BY <2>2, <2>11, Zenon
      <4>2. /\ n \in 0..(Limit - 1) /\ fd[n] = "free" /\ fd'[n] = c
            /\ fd' \in [0..(Limit - 1) ->
                 {"free", "std", "log", "ipc", "ev", "www"} \union Clients]
            /\ \A m \in 0..(Limit - 1) \ {n} : fd'[m] = fd[m]
        BY <2>11, <3>0, <4>1, OpenedOne, ZenonT(30), Zenon DEF IInv
      <4>3. DOMAIN fd = 0..(Limit - 1)
        BY Zenon DEF IInv, TypeOK
      <4> QED
        BY <4>2, <4>3, Zenon
    <3>2. /\ st'[c] = "live" => iSockfd' = [iSockfd EXCEPT ![c] = n]
          /\ st'[c] # "live" => iSockfd' = iSockfd
          /\ st'[c] # "lost"
      <4>1. st = [d \in Clients |-> st[d]]
        BY DEF IInv, TypeOK
      <4> QED
        BY <2>2, <2>11, <3>0, <4>1, Zenon DEF client_register_ev
    <3>3. TypeOK'
      <4>1. n \in NoFd..(Limit - 1) /\ n # NoFd
        BY <3>1, ClientAssumption DEF IInv, TypeOK
      <4>2. iSockfd' \in [Clients -> NoFd..(Limit - 1)]
        BY <3>2, <4>1, Zenon DEF IInv, TypeOK
      <4>3. \A d \in Clients : iSockfd'[d] # NoFd <=> st'[d] = "live" /\ pc' # "ended"
        BY <2>1, <2>4, <3>2, <4>1, Zenon DEF IInv, TypeOK
      <4> QED
        BY <2>1, <2>7, <2>8, <3>1, <4>2, <4>3, Zenon DEF IInv, TypeOK
    <3>4. HeldInv'
      <4>1. Held(c) = {}
        BY <2>1, <2>4, Zenon DEF IInv, TableInv, HeldInv
      <4>0. DOMAIN fd' = DOMAIN fd
        BY <3>1, Zenon DEF IInv, TypeOK
      <4>2. Held(c)' = {n}
        BY <3>1, <4>0, <4>1, NoMarker, Zenon DEF Held
      <4>3. \A d \in Clients \ {c} : Held(d)' = Held(d)
        BY <3>1, <4>0, NoMarker, Zenon DEF Held
      <4>4. \A d \in Clients \ {c} : iSockfd'[d] = iSockfd[d]
        BY <3>2, Zenon DEF IInv, TypeOK
      <4>5. st'[c] = "live" => iSockfd'[c] = n
        BY <3>2, Zenon DEF IInv, TypeOK
      <4>6. n \in DOMAIN fd' /\ DOMAIN fd' = DOMAIN fd
        BY <3>1, <4>0, Zenon
      <4>7. HeldInv
        BY Zenon DEF IInv, TableInv
      <4> QED
        BY <2>1, <2>4, <3>2, <4>2, <4>3, <4>4, <4>5, <4>6, <4>7 DEF HeldInv
    <3>5. OwnsDescriptor'
      <4>1. \A m \in NoFd..(Limit - 1) : m # NoFd => m \in DOMAIN fd
        BY ClientAssumption DEF IInv, TypeOK
      <4>2. \A m \in DOMAIN fd : fd[m] # "free" => fd'[m] = fd[m]
        BY <3>1, SMTT(30)
      <4>3. \A d \in Clients : st'[d] = "live" => fd'[iSockfd'[d]] = d
        <5>1. CASE st'[c] = "live"
          <6>1. iSockfd'[c] = n /\ \A d \in Clients \ {c} : iSockfd'[d] = iSockfd[d]
            BY <3>2, <5>1, Zenon DEF IInv, TypeOK
          <6> QED
            BY <2>1, <2>4, <3>1, <4>1, <4>2, <6>1, NoMarker
            DEF IInv, TypeOK, TableInv, OwnsDescriptor
        <5>2. CASE st'[c] # "live"
          BY <2>1, <2>4, <3>2, <4>1, <4>2, <5>2, NoMarker
          DEF IInv, TypeOK, TableInv, OwnsDescriptor
        <5> QED
          BY <5>1, <5>2, Zenon
      <4> QED
        BY <2>1, <4>1, <4>2, <4>3, Zenon
           DEF IInv, TypeOK, TableInv, OwnsDescriptor
    <3>6. StartInv'
      BY <2>1, Zenon DEF IInv, TableInv, StartInv, Closing
    <3> QED
      BY <2>5, <2>9, <2>10, <3>3, <3>4, <3>5, <3>6, Zenon
         DEF IInv, TableInv, EventInv
  <2>12. CASE Free = {}
    <3>1. st' = [st EXCEPT ![c] = "lost"] /\ UNCHANGED <<fd, iSockfd, io, timer>>
      BY <2>2, <2>12, Zenon
    <3>2. TypeOK'
      <4>1. \A d \in Clients : iSockfd'[d] # NoFd <=> st'[d] = "live" /\ pc' # "ended"
        BY <2>1, <2>4, <3>1, Zenon DEF IInv, TypeOK
      <4> QED
        BY <2>1, <2>7, <2>8, <3>1, <4>1, Zenon DEF IInv, TypeOK
    <3>3. st'[c] = "lost"
      BY <3>1, Zenon DEF IInv, TypeOK
    <3>4. OwnsDescriptor'
      BY <2>1, <2>4, <3>1, <3>3, Zenon DEF IInv, TableInv, OwnsDescriptor
    <3>5. HeldInv'
      <4>1. HeldInv
        BY DEF IInv, TableInv
      <4> QED
        BY <2>1, <2>4, <3>1, <3>3, <4>1 DEF HeldInv, Held
    <3>6. StartInv'
      BY <2>1, <3>1, Zenon DEF IInv, TableInv, StartInv
    <3> QED
      BY <2>5, <2>9, <2>10, <3>2, <3>4, <3>5, <3>6, Zenon
         DEF IInv, TableInv, EventInv
  <2> QED
    BY <2>11, <2>12, Zenon
<1> QED
  BY <1>1, <1>2, Zenon
=============================================================================
