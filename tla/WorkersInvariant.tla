-------------------------- MODULE WorkersInvariant --------------------------
(***************************************************************************)
(* The inductive invariant of Workers: how far the start of the workers    *)
(* is, what each process has in gWorkerAdmin, whose turn it is, and where  *)
(* the clients are.  WorkersProofs draws the conclusions.                  *)
(***************************************************************************)
EXTENDS Workers, WellFoundedInduction, TLAPS

-----------------------------------------------------------------------------
(***************************************************************************)
(* The inductive invariant.                                                *)
(***************************************************************************)
Meeting == {"bind", "listen", "accept"}
Serving == {"setup", "run", "send"}

(* How far worker_init is.                                                 *)
StartInv ==
  /\ mpc \in {"fork"} \union Meeting => i \in Workers /\ uiCurrWorkers = i
  /\ mpc = "fork" => psWorker[Master] = 0..(i - 1)
  /\ mpc \in Meeting => psWorker[Master] = 0..i
  /\ mpc \in Serving => /\ uiCurrWorkers = iWantedWorkers
                        /\ psWorker[Master] = Workers
  /\ mpc = "fork" => \A w \in Workers : w >= i => wpc[w] = "none"
  /\ mpc \in Meeting => \A w \in Workers : w > i => wpc[w] = "none"
  /\ mpc \in {"fork"} \union Meeting => \A w \in 0..(i - 1) : conn[w] = "open"
  /\ mpc \in Serving => \A w \in Workers : conn[w] = "open"
  /\ mpc = "listen" => IPCFile[i] = "bound"
  /\ mpc = "accept" => IPCFile[i] = "listening"
  /\ mpc = "waitpid" => psWorker[Master] # {}
  /\ mpc = "done" => psWorker[Master] = {}

(* What a worker has of gWorkerAdmin, and of the connection.               *)
AdminInv == \A w \in Workers :
  /\ psWorker[w] \subseteq 0..w
  /\ wpc[w] \in {"entry", "wait", "connect", "run"} => w \in psWorker[w]
  /\ wpc[w] = "run" => conn[w] # "none"
  /\ conn[w] # "none" => wpc[w] \in {"run", "exit", "exited", "killed"}

(* A worker the master has no entry of has ended, and its file is gone.    *)
CleanInv == \A w \in Workers :
  \/ w \in psWorker[Master] \union unrecorded
  \/ ~Running(w) /\ IPCFile[w] = "none"

(* The worker whose turn it was when client c was accepted.                *)
Turn(c) == (c - 1) % iWantedWorkers

(* k full rounds and r clients more.                                       *)
RoundInv == \E k \in Nat, r \in Workers :
  /\ clients = k * iWantedWorkers + r
  /\ \A w \in Workers : routed[w] = IF w < r THEN k + 1 ELSE k
  /\ NextWorker = IF clients = 0 THEN UintRange - 1
                  ELSE IF r = 0 THEN iWantedWorkers - 1 ELSE r - 1
  /\ clients # 0 => NextWorker = Turn(clients)

(* A client is in one place, and it is the right one.                      *)
PlaceInv ==
  /\ mpc = "send" => iSockfd # NoClient
  /\ mpc \notin {"send", "gone"} => iSockfd = NoClient
  /\ iSockfd # NoClient => iSockfd = clients /\ iSockfd \notin handled
  /\ \A c \in handled : c <= clients
  /\ \A w \in Workers :
       /\ conn[w] = "none" => ipc[w] = <<>> /\ serving[w] = {}
       /\ \A c \in serving[w] : /\ c <= clients /\ Turn(c) = w
                                /\ c \notin handled /\ c # iSockfd
       /\ \A n \in DOMAIN ipc[w] :
            /\ ipc[w][n] <= clients /\ Turn(ipc[w][n]) = w
            /\ ipc[w][n] \notin handled \union serving[w] \union {iSockfd}
       /\ \A m, n \in DOMAIN ipc[w] : ipc[w][m] = ipc[w][n] => m = n

(* A client that is in none is one of a worker that ended.                 *)
LostInv == \A c \in 1..clients :
  \/ c = iSockfd \/ c \in handled
  \/ \E w \in Workers : c \in serving[w]
  \/ \E w \in Workers : \E n \in DOMAIN ipc[w] : ipc[w][n] = c
  \/ wpc[Turn(c)] \in {"exit", "exited", "killed"}

IInv ==
  /\ TypeOK /\ StartInv /\ AdminInv /\ CleanInv
  /\ RoundInv /\ PlaceInv /\ LostInv

USE DEF Master, NoClient, startVars, clientVars

-----------------------------------------------------------------------------
(***************************************************************************)
(* Facts about the operators.                                              *)
(***************************************************************************)

(* The numbers of the processes.                                           *)
LEMMA Numbers ==
  /\ iWantedWorkers \in Nat \ {0}
  /\ \A w \in Workers : w \in Nat /\ w < iWantedWorkers /\ w # Master
  /\ \A n \in Nat : n < iWantedWorkers => n \in Workers
  /\ Processes = {Master} \union Workers
BY WorkersAssumption DEF Workers, Processes

(* A set of numbers that is not empty has a least one, which Min returns.  *)
LEMMA MinOfNats ==
  ASSUME NEW S \in SUBSET Nat, S # {}
  PROVE  Min(S) \in S
<1> DEFINE R == {ss \in Nat \X Nat : ss[1] < ss[2]}
<1>1. IsWellFoundedOn(R, Nat)
  BY NatLessThanWellFounded, Zenon DEF OpToRel
<1>2. PICK x \in S : \A y \in S : ~(<<y, x>> \in R)
  BY <1>1, WFMin, Zenon
<1>3. \A a, b \in Nat : a < b => <<a, b>> \in R
  BY Zenon
<1> HIDE DEF R
<1>4. \A y \in S : ~(y < x)
  BY <1>2, <1>3, Zenon
<1>5. \E m \in S : \A y \in S : m <= y
  BY <1>4
<1> QED
  BY <1>5, Zenon DEF Min

(* worker_destroy is at an entry that exists.                              *)
LEMMA EntryExists ==
  ASSUME TypeOK, NEW p \in Processes, psWorker[p] # {}
  PROVE  Entry(p) \in psWorker[p] /\ Entry(p) \in Workers
<1>1. psWorker[p] \in SUBSET Workers /\ Workers \subseteq Nat
  BY Numbers, Zenon DEF TypeOK
<1>2. Min(psWorker[p]) \in psWorker[p]
  BY <1>1, MinOfNats, Zenon
<1> QED
  BY <1>1, <1>2, Zenon DEF Entry

(* What is left of a sequence without its head.                            *)
LEMMA RestFacts ==
  ASSUME NEW S, NEW s \in Seq(S), s # <<>>
  PROVE  /\ Len(s) \in Nat \ {0} /\ Head(s) = s[1]
         /\ Tail(s) \in Seq(S) /\ Len(Tail(s)) = Len(s) - 1
         /\ \A n \in 1..(Len(s) - 1) : Tail(s)[n] = s[n + 1]
<1>1. Len(s) \in Nat \ {0} /\ Head(s) = s[1]
  BY SMT
<1>2. Tail(s) \in Seq(S) /\ Len(Tail(s)) = Len(s) - 1
  BY <1>1, SMT
<1>3. \A n \in 1..(Len(s) - 1) : Tail(s)[n] = s[n + 1]
  BY <1>1, SMT
<1> QED
  BY <1>1, <1>2, <1>3, Zenon

(* A sequence, and one with an element more.                               *)
LEMMA SeqFacts ==
  ASSUME NEW S, NEW s \in Seq(S)
  PROVE  /\ Len(s) \in Nat /\ DOMAIN s = 1..Len(s)
         /\ \A n \in DOMAIN s : s[n] \in S
         /\ \A x \in S :
              /\ Append(s, x) \in Seq(S)
              /\ DOMAIN Append(s, x) = DOMAIN s \union {Len(s) + 1}
              /\ Len(s) + 1 \notin DOMAIN s
              /\ Append(s, x)[Len(s) + 1] = x
              /\ \A n \in DOMAIN s : Append(s, x)[n] = s[n]
<1>1. Len(s) \in Nat /\ DOMAIN s = 1..Len(s)
  OBVIOUS
<1>2. \A n \in DOMAIN s : s[n] \in S
  OBVIOUS
<1> QED
  BY <1>1, <1>2

(* The IPC socket of a worker holds numbers of clients.                    *)
LEMMA IpcType ==
  ASSUME TypeOK, NEW w \in Workers
  PROVE  /\ ipc[w] \in Seq(1..MaxClients) /\ Len(ipc[w]) \in Nat
         /\ DOMAIN ipc[w] = 1..Len(ipc[w])
         /\ \A n \in DOMAIN ipc[w] : ipc[w][n] \in 1..MaxClients
<1>1. ipc[w] \in Seq(1..MaxClients)
  BY Zenon DEF TypeOK
<1> QED
  BY <1>1, SeqFacts, Zenon

(* A client's turn is a worker's, and after k rounds and r clients it is   *)
(* worker r's.                                                             *)
LEMMA Turns ==
  /\ \A c \in Nat \ {0} : Turn(c) \in Workers
  /\ \A k \in Nat, r \in Workers, c \in Nat :
       c = k * iWantedWorkers + r + 1 => Turn(c) = r
<1>1. ASSUME NEW c \in Nat \ {0} PROVE Turn(c) \in Workers
  <2>1. c - 1 \in Nat
    OBVIOUS
  <2>2. (c - 1) % iWantedWorkers \in 0..(iWantedWorkers - 1)
    BY <2>1, Numbers
  <2> QED
    BY <2>2, Zenon DEF Turn, Workers
<1>2. ASSUME NEW k \in Nat, NEW r \in Workers, NEW c \in Nat,
             c = k * iWantedWorkers + r + 1
      PROVE  Turn(c) = r
  <2>1. r \in 0..(iWantedWorkers - 1)
    BY Zenon DEF Workers
  <2>2. (k * iWantedWorkers + r) % iWantedWorkers = r
    BY <2>1, Numbers
  <2>3. k * iWantedWorkers + r \in Nat
    BY <2>1, Numbers
  <2>4. c - 1 = k * iWantedWorkers + r
    BY <1>2, <2>3
  <2> QED
    BY <2>2, <2>4, Zenon DEF Turn
<1> QED
  BY <1>1, <1>2, Zenon

(* (NextWorker + 1) % uiCurrWorkers in uint32_t, the first time and then.  *)
LEMMA NextInTurnIs ==
  ASSUME NEW k \in Nat, NEW r \in Workers, uiCurrWorkers = iWantedWorkers,
         clients \in Nat, clients = k * iWantedWorkers + r,
         NextWorker = IF clients = 0 THEN UintRange - 1
                      ELSE IF r = 0 THEN iWantedWorkers - 1 ELSE r - 1
  PROVE  NextInTurn = r
<1>1. UintRange \in Nat \ {0} /\ UintRange > iWantedWorkers
  BY WorkersAssumption, Zenon
<1>2. CASE clients = 0
  <2>1. r = 0
    <3>1. k * iWantedWorkers \in Nat
      BY Numbers
    <3> QED
      BY <1>2, <3>1, Numbers
  <2>2. NextWorker + 1 = UintRange
    BY <1>1, <1>2
  <2>3. UintRange % UintRange = 0 /\ 0 % iWantedWorkers = 0
    BY <1>1, Numbers
  <2> QED
    BY <2>1, <2>2, <2>3, Zenon DEF NextInTurn
<1>3. CASE clients # 0 /\ r = 0
  <2>1. NextWorker + 1 = iWantedWorkers
    BY <1>3, Numbers
  <2>2. iWantedWorkers % UintRange = iWantedWorkers
    BY <1>1, Numbers
  <2>3. iWantedWorkers % iWantedWorkers = 0
    BY Numbers
  <2> QED
    BY <1>3, <2>1, <2>2, <2>3, Zenon DEF NextInTurn
<1>4. CASE clients # 0 /\ r # 0
  <2>1. NextWorker + 1 = r /\ r \in Nat /\ r < iWantedWorkers
    BY <1>4, Numbers
  <2>2. r % UintRange = r
    BY <1>1, <2>1, Numbers
  <2>3. r % iWantedWorkers = r
    BY <2>1, Numbers
  <2> QED
    BY <2>1, <2>2, <2>3, Zenon DEF NextInTurn
<1> QED
  BY <1>2, <1>3, <1>4, Zenon

-----------------------------------------------------------------------------
(***************************************************************************)
(* Every step keeps the invariant.                                         *)
(***************************************************************************)
ProcInv == StartInv /\ AdminInv /\ CleanInv
PassInv == RoundInv /\ PlaceInv /\ LostInv

Ended == {"exit", "exited", "killed"}

(* Before the first fork there is one process, and no client.              *)
LEMMA InitInv == ASSUME Init PROVE IInv
<1> USE DEF Init
<1>1. TypeOK
  <2>1. /\ psWorker \in [Processes -> SUBSET Workers]
        /\ ipc \in [Workers -> Seq(1..MaxClients)]
    OBVIOUS
  <2>2. /\ 0 \in 0..iWantedWorkers /\ UintRange - 1 \in 0..(UintRange - 1)
        /\ 0 \in 0..MaxClients /\ 0 \in 0..MaxSignals /\ 0 \in 0..MaxFaults
    BY WorkersAssumption
  <2> QED
    BY <2>1, <2>2, Zenon DEF TypeOK, Startup
<1>2. StartInv
  BY Numbers DEF StartInv, Meeting, Serving
<1>3. AdminInv /\ CleanInv
  BY Numbers, Zenon DEF AdminInv, CleanInv, Running
<1>4. RoundInv
  <2>1. 0 \in Workers /\ 0 = 0 * iWantedWorkers + 0
    BY Numbers
  <2>2. \A w \in Workers : ~(w < 0)
    BY Numbers
  <2> QED
    BY <2>1, <2>2, Zenon DEF RoundInv
<1>5. PlaceInv /\ LostInv
  BY DEF PlaceInv, LostInv
<1> QED
  BY <1>1, <1>2, <1>3, <1>4, <1>5, Zenon DEF IInv

(* A step that moves no client: connections are not undone and a worker    *)
(* that ended stays so.                                                    *)
LEMMA PassKept ==
  ASSUME IInv, UNCHANGED clientVars,
         mpc' = "send" => mpc = "send",
         mpc' \notin {"send", "gone"} => mpc \notin {"send", "gone"},
         \A w \in Workers : conn'[w] = "none" => conn[w] = "none",
         \A w \in Workers : wpc[w] \in Ended => wpc'[w] \in Ended
  PROVE  PassInv'
<1>1. RoundInv'
  BY Zenon DEF IInv, RoundInv
<1>2. PlaceInv'
  BY Zenon DEF IInv, PlaceInv
<1>3. \A c \in 1..clients : Turn(c) \in Workers
  BY Turns DEF IInv, TypeOK
<1>4. LostInv'
  BY <1>3, Zenon DEF IInv, LostInv, Ended
<1> QED
  BY <1>1, <1>2, <1>4, Zenon DEF PassInv

(* The parts put together.                                                 *)
LEMMA Together == ASSUME TypeOK', ProcInv', PassInv' PROVE IInv'
BY Zenon DEF IInv, ProcInv, PassInv

(* fork: the worker inherits the entries of those before it.               *)
LEMMA ForkInv == ASSUME IInv, worker_init_fork PROVE IInv'
<1> USE DEF worker_init_fork
<1>1. /\ i \in Workers /\ i \in Nat /\ wpc[i] = "none" /\ i # Master
      /\ psWorker[Master] = 0..(i - 1) /\ ForkedEntries = 0..i
      /\ 0..i \subseteq Workers
  BY Numbers DEF IInv, StartInv, ForkedEntries, Workers
<1>2. CASE mpc' = "bind"
  <2>1. /\ psWorker' = [psWorker EXCEPT ![Master] = 0..i, ![i] = 0..i]
        /\ wpc' = [wpc EXCEPT ![i] = "entry"] /\ UNCHANGED faults
    BY <1>1, <1>2, Zenon
  <2>2. /\ psWorker'[Master] = 0..i /\ psWorker'[i] = 0..i
        /\ \A w \in Workers \ {i} : psWorker'[w] = psWorker[w]
        /\ psWorker' \in [Processes -> SUBSET Workers]
    BY <1>1, <2>1, Numbers, SMTT(30) DEF IInv, TypeOK
  <2>3. wpc'[i] = "entry" /\ \A w \in Workers \ {i} : wpc'[w] = wpc[w]
    BY <1>1, <2>1, Zenon DEF IInv, TypeOK
  <2>4. TypeOK'
    BY <1>2, <2>1, <2>2, Zenon DEF IInv, TypeOK, Startup
  <2>5. StartInv'
    BY <1>1, <1>2, <2>2, <2>3, Numbers DEF IInv, StartInv, Meeting, Serving
  <2>6. AdminInv'
    BY <1>1, <2>2, <2>3, Numbers DEF IInv, AdminInv
  <2>7. CleanInv'
    BY <1>1, <2>2, <2>3, Numbers DEF IInv, CleanInv, Running
  <2>8. PassInv'
    BY <1>1, <1>2, <2>3, PassKept, Zenon DEF Ended
  <2> QED
    BY <2>4, <2>5, <2>6, <2>7, <2>8, Together, Zenon DEF ProcInv
<1>3. CASE mpc' # "bind"
  <2>1. Fault /\ mpc' = "exit" /\ UNCHANGED <<psWorker, wpc>>
    BY <1>3, Zenon
  <2>2. TypeOK'
    BY <2>1, WorkersAssumption DEF IInv, TypeOK, Fault
  <2>3. StartInv'
    BY <2>1, Zenon DEF StartInv, Meeting, Serving
  <2>4. AdminInv' /\ CleanInv'
    BY <2>1, Zenon DEF IInv, AdminInv, CleanInv, Running
  <2>5. PassInv'
    BY <2>1, PassKept, Zenon
  <2> QED
    BY <2>2, <2>3, <2>4, <2>5, Together, Zenon DEF ProcInv
<1> QED
  BY <1>2, <1>3, Zenon

(* A master that does not meet the worker gives up its entry.              *)
LEMMA FreeInv ==
  ASSUME IInv, exit_free_worker, mpc \in Meeting,
         UNCHANGED <<i, uiCurrWorkers, conn, wpc, term, clientVars, signals, IPCFile>>
  PROVE  IInv'
<1> USE DEF exit_free_worker
<1>1. i \in Workers
  BY Zenon DEF IInv, StartInv, Meeting
<1>2. /\ psWorker'[Master] = psWorker[Master] \ {i}
      /\ \A w \in Workers : psWorker'[w] = psWorker[w]
      /\ psWorker' \in [Processes -> SUBSET Workers]
  BY Numbers, Zenon DEF IInv, TypeOK
<1>3. TypeOK'
  BY <1>1, <1>2, WorkersAssumption DEF IInv, TypeOK, Fault
<1>4. StartInv'
  BY Zenon DEF StartInv, Meeting, Serving
<1>5. AdminInv' /\ CleanInv'
  BY <1>2, Zenon DEF IInv, AdminInv, CleanInv, Running
<1>6. PassInv'
  BY PassKept, Zenon DEF Meeting
<1> QED
  BY <1>3, <1>4, <1>5, <1>6, Together, Zenon DEF ProcInv

(* The meeting point: it appears, and then listens.                        *)
LEMMA BindInv ==
  ASSUME IInv, worker_create_ipc_socket_bind \/ worker_create_ipc_socket_listen
  PROVE  IInv'
<1> USE DEF worker_create_ipc_socket_bind, worker_create_ipc_socket_listen
<1>1. CASE exit_free_worker /\ UNCHANGED IPCFile
  BY <1>1, FreeInv, Zenon DEF Meeting
<1>2. CASE UNCHANGED <<psWorker, unrecorded, faults>>
  <2>1. /\ i \in Workers /\ psWorker[Master] = 0..i /\ i \in Nat
        /\ mpc = "listen" => IPCFile[i] = "bound"
    BY Numbers, Zenon DEF IInv, StartInv, Meeting
  <2>2. \/ mpc = "bind" /\ mpc' = "listen" /\ IPCFile' = [IPCFile EXCEPT ![i] = "bound"]
        \/ mpc = "listen" /\ mpc' = "accept" /\ IPCFile' = [IPCFile EXCEPT ![i] = "listening"]
    BY <1>2, <2>1 DEF exit_free_worker, Fault, IInv, TypeOK
  <2>3. TypeOK'
    BY <1>2, <2>1, <2>2, Zenon DEF IInv, TypeOK, Startup
  <2>4. StartInv'
    BY <1>2, <2>1, <2>2, SMTT(30) DEF IInv, TypeOK, StartInv, Meeting, Serving
  <2>5. AdminInv'
    BY <1>2, Zenon DEF IInv, AdminInv
  <2>6. CleanInv'
    BY <1>2, <2>1, <2>2 DEF IInv, TypeOK, CleanInv, Running
  <2>7. PassInv'
    BY <2>2, PassKept, Zenon
  <2> QED
    BY <2>3, <2>4, <2>5, <2>6, <2>7, Together, Zenon DEF ProcInv
<1> QED
  BY <1>1, <1>2, Zenon

(* The master ends without clean-up.                                       *)
LEMMA GoneInv ==
  ASSUME IInv, Gone,
         signals' \in 0..MaxSignals, faults' \in 0..MaxFaults,
         UNCHANGED <<startVars, psWorker, wpc, term, clientVars>>
  PROVE  IInv'
<1> USE DEF Gone
<1>1. TypeOK'
  <2>1. IPCFile' \in [Workers -> {"none", "bound", "listening"}]
    BY Zenon DEF IInv, TypeOK
  <2> QED
    BY <2>1, Zenon DEF IInv, TypeOK
<1>2. StartInv'
  BY Zenon DEF StartInv, Meeting, Serving
<1>3. AdminInv' /\ CleanInv'
  BY Zenon DEF IInv, AdminInv, CleanInv, Running
<1>4. PassInv'
  BY PassKept, Zenon
<1> QED
  BY <1>1, <1>2, <1>3, <1>4, Together, Zenon DEF ProcInv

(* The master meets worker i: only its own connect ends the wait.          *)
LEMMA AcceptInv == ASSUME IInv, worker_create_ipc_socket_accept PROVE IInv'
<1> USE DEF worker_create_ipc_socket_accept
<1>1. CASE Fault /\ Gone /\ UNCHANGED <<conn, uiCurrWorkers, i>>
  <2>1. signals' \in 0..MaxSignals /\ faults' \in 0..MaxFaults
    BY <1>1, WorkersAssumption DEF IInv, TypeOK, Fault
  <2> QED
    BY <1>1, <2>1, GoneInv, Zenon
<1>2. CASE UNCHANGED faults
  <2>1. /\ i \in Workers /\ i \in Nat /\ i < iWantedWorkers
        /\ psWorker[Master] = 0..i /\ uiCurrWorkers = i
    BY Numbers, Zenon DEF IInv, StartInv, Meeting
  <2>2. /\ conn[i] = "pending" /\ conn' = [conn EXCEPT ![i] = "open"]
        /\ uiCurrWorkers' = i + 1 /\ i' = i + 1 /\ UNCHANGED IPCFile
        /\ mpc' = IF i + 1 < iWantedWorkers THEN "fork" ELSE "setup"
    BY <1>2, <2>1 DEF Fault, IInv, TypeOK, MoreWorkers
  <2>3. conn'[i] = "open" /\ \A w \in Workers \ {i} : conn'[w] = conn[w]
    BY <2>1, <2>2, Zenon DEF IInv, TypeOK
  <2>4. TypeOK'
    <3>1. i + 1 \in 0..iWantedWorkers /\ mpc' \in Startup
      BY <2>1, <2>2, Numbers DEF Startup
    <3>2. conn' \in [Workers -> {"none", "pending", "open"}]
      BY <2>2, Zenon DEF IInv, TypeOK
    <3> QED
      BY <1>2, <2>2, <3>1, <3>2, Zenon DEF IInv, TypeOK
  <2>5. StartInv'
    <3>1. CASE i + 1 < iWantedWorkers
      <4>1. i + 1 \in Workers /\ mpc' = "fork" /\ (i + 1) - 1 = i
        BY <2>1, <2>2, <3>1, Numbers
      <4>2. \A w \in 0..i : conn'[w] = "open"
        BY <2>1, <2>3, Numbers DEF IInv, StartInv, Meeting
      <4>3. \A w \in Workers : w >= i + 1 => wpc[w] = "none"
        BY <2>1, Numbers DEF IInv, StartInv, Meeting
      <4> QED
        BY <2>1, <2>2, <4>1, <4>2, <4>3, Zenon DEF StartInv, Meeting, Serving
    <3>2. CASE ~(i + 1 < iWantedWorkers)
      <4>1. i + 1 = iWantedWorkers /\ 0..i = Workers /\ mpc' = "setup"
        BY <2>1, <2>2, <3>2, Numbers DEF Workers
      <4>2. \A w \in Workers : conn'[w] = "open"
        BY <2>1, <2>3, <4>1, Numbers DEF IInv, StartInv, Meeting
      <4> QED
        BY <2>1, <2>2, <4>1, <4>2, Zenon DEF StartInv, Meeting, Serving
    <3> QED
      BY <3>1, <3>2, Zenon
  <2>6. AdminInv' /\ CleanInv'
    BY <2>2, <2>3, Zenon DEF IInv, AdminInv, CleanInv, Running
  <2>7. PassInv'
    BY <2>2, <2>3, PassKept, Zenon
  <2> QED
    BY <2>4, <2>5, <2>6, <2>7, Together, Zenon DEF ProcInv
<1> QED
  BY <1>1, <1>2, Zenon

(* The master comes to serve, or goes through exit_cleanup.                *)
LEMMA MasterInv ==
  ASSUME IInv, socket_setup \/ worker_destroy_kill \/ exit_cleanup
  PROVE  IInv'
<1> USE DEF socket_setup, worker_destroy_kill, exit_cleanup
<1>1. UNCHANGED <<startVars, psWorker, wpc, IPCFile, clientVars, signals>>
  BY Zenon
<1>2. TypeOK'
  <2>1. faults' \in 0..MaxFaults
    BY WorkersAssumption DEF IInv, TypeOK, Fault
  <2>2. term' \in [Workers -> BOOLEAN]
    BY Zenon DEF IInv, TypeOK, kill, Running
  <2>3. mpc' \in {"run", "exit", "waitpid", "done"}
    BY Zenon
  <2> HIDE DEF socket_setup, worker_destroy_kill, exit_cleanup
  <2> QED
    BY <1>1, <2>1, <2>2, <2>3 DEF IInv, TypeOK
<1>3. StartInv'
  BY <1>1, Zenon DEF IInv, StartInv, Meeting, Serving
<1>4. AdminInv' /\ CleanInv'
  BY <1>1, Zenon DEF IInv, AdminInv, CleanInv, Running
<1>5. PassInv'
  BY <1>1, PassKept, Zenon
<1> QED
  BY <1>2, <1>3, <1>4, <1>5, Together, Zenon DEF ProcInv

(* A worker that was waited for leaves neither entry nor file.             *)
LEMMA WaitInv == ASSUME IInv, worker_destroy_wait PROVE IInv'
<1> USE DEF worker_destroy_wait
<1>1. PICK k \in Workers : k = Entry(Master) /\ ~Running(k)
  BY EntryExists, Numbers, Zenon DEF IInv, StartInv, Waited
<1>2. /\ psWorker'[Master] = psWorker[Master] \ {k}
      /\ \A w \in Workers : psWorker'[w] = psWorker[w]
      /\ psWorker' \in [Processes -> SUBSET Workers]
  BY <1>1, Numbers, Zenon DEF IInv, TypeOK
<1>3. /\ IPCFile'[k] = "none"
      /\ \A w \in Workers \ {k} : IPCFile'[w] = IPCFile[w]
      /\ IPCFile' \in [Workers -> {"none", "bound", "listening"}]
  BY <1>1, Zenon DEF IInv, TypeOK
<1>4. TypeOK'
  BY <1>2, <1>3, SMTT(30) DEF IInv, TypeOK
<1>5. StartInv'
  BY Zenon DEF StartInv, Meeting, Serving
<1>6. AdminInv' /\ CleanInv'
  BY <1>1, <1>2, <1>3, Zenon DEF IInv, AdminInv, CleanInv, Running
<1>7. PassInv'
  BY PassKept, Zenon
<1> QED
  BY <1>4, <1>5, <1>6, <1>7, Together, Zenon DEF ProcInv

(* A signal to the master.                                                 *)
LEMMA SignalInv == ASSUME IInv, callback_exitsig PROVE IInv'
<1> USE DEF callback_exitsig
<1>1. signals' \in 0..MaxSignals /\ faults' \in 0..MaxFaults
  BY WorkersAssumption DEF IInv, TypeOK
<1>2. CASE Gone
  BY <1>1, <1>2, GoneInv, Zenon
<1>3. CASE mpc = "run" /\ mpc' = "exit" /\ UNCHANGED IPCFile
  <2>1. TypeOK'
    BY <1>1, <1>3, Zenon DEF IInv, TypeOK
  <2>2. StartInv'
    BY <1>3, Zenon DEF StartInv, Meeting, Serving
  <2>3. AdminInv' /\ CleanInv'
    BY <1>3, Zenon DEF IInv, AdminInv, CleanInv, Running
  <2>4. PassInv'
    BY <1>3, PassKept, Zenon
  <2> QED
    BY <2>1, <2>2, <2>3, <2>4, Together, Zenon DEF ProcInv
<1> QED
  BY <1>2, <1>3, Zenon

(* A step of worker w that moves it from where it runs, with its entries.  *)
LEMMA MoveInv ==
  ASSUME IInv, NEW w \in Workers, Running(w),
         NEW x \in {"wait", "connect", "run", "exit", "exited", "killed"},
         wpc' = [wpc EXCEPT ![w] = x],
         x \in {"wait", "connect"} => wpc[w] \in {"entry", "wait"},
         x = "run" => wpc[w] = "connect" /\ conn'[w] = "pending",
         wpc[w] \in Ended => x \in Ended,
         conn' = conn \/ (x = "run" /\ conn' = [conn EXCEPT ![w] = "pending"]),
         term' \in [Workers -> BOOLEAN],
         signals' \in 0..MaxSignals, faults' \in 0..MaxFaults,
         UNCHANGED <<mpc, i, uiCurrWorkers, unrecorded, psWorker, IPCFile,
                     clientVars>>
  PROVE  IInv'
<1>1. wpc'[w] = x /\ \A v \in Workers \ {w} : wpc'[v] = wpc[v]
  BY Zenon DEF IInv, TypeOK
<1>2. /\ \A v \in Workers \ {w} : conn'[v] = conn[v]
      /\ conn'[w] # "none" <=> conn[w] # "none" \/ x = "run"
      /\ conn'[w] # conn[w] => wpc[w] = "connect"
  BY Zenon DEF IInv, TypeOK
<1>3. TypeOK'
  BY ZenonT(30) DEF IInv, TypeOK
<1>4. wpc[w] # "none"
  BY Zenon DEF Running
<1>5. conn[w] = "open" => conn'[w] = "open"
  BY <1>2, Zenon DEF IInv, AdminInv
<1>6. StartInv'
  BY <1>1, <1>2, <1>4, <1>5, Numbers DEF IInv, StartInv
<1>7. AdminInv'
  BY <1>1, <1>2, Zenon DEF IInv, AdminInv, Ended
<1>8. CleanInv'
  BY <1>1, Zenon DEF IInv, CleanInv, Running
<1>9. PassInv'
  BY <1>1, <1>2, PassKept, Zenon
<1> QED
  BY <1>3, <1>6, <1>7, <1>8, <1>9, Together, Zenon DEF ProcInv

(* The steps of a worker that end in another place of workerp_entry.       *)
LEMMA WorkerInv ==
  ASSUME IInv, NEW w \in Workers,
         \/ workerp_entry(w) \/ workerp_connect_ipc_socket_wait(w)
         \/ workerp_connect_ipc_socket(w) \/ do_exit(w) \/ terminate(w)
         \/ workerp_callback_exitsig(w)
  PROVE  IInv'
<1>1. signals' \in 0..MaxSignals /\ faults' \in 0..MaxFaults
  <2>1. signals' = signals \/ (signals < MaxSignals /\ signals' = signals + 1)
    BY Zenon
       DEF workerp_entry, terminate, do_exit, workerp_connect_ipc_socket_wait,
       workerp_connect_ipc_socket, workerp_callback_exitsig
  <2>2. faults' = faults \/ Fault
    BY Zenon
       DEF workerp_entry, terminate, do_exit, workerp_connect_ipc_socket_wait,
       workerp_connect_ipc_socket, workerp_callback_exitsig
  <2> QED
    BY <2>1, <2>2, WorkersAssumption DEF IInv, TypeOK, Fault
<1>2. term' \in [Workers -> BOOLEAN]
  BY Zenon
     DEF IInv, TypeOK, workerp_entry, terminate, do_exit,
       workerp_connect_ipc_socket_wait, workerp_connect_ipc_socket,
       workerp_callback_exitsig
<1>3. CASE workerp_entry(w)
  BY <1>1, <1>2, <1>3, MoveInv, Zenon DEF workerp_entry, Running, Ended
<1>4. CASE workerp_connect_ipc_socket_wait(w)
  BY <1>1, <1>2, <1>4, MoveInv, Zenon
     DEF workerp_connect_ipc_socket_wait, Running, Ended
<1>5. CASE workerp_connect_ipc_socket(w)
  <2>1. CASE wpc' = [wpc EXCEPT ![w] = "exit"] /\ UNCHANGED conn
    BY <1>1, <1>2, <1>5, <2>1, MoveInv, Zenon
    DEF workerp_connect_ipc_socket, Running, Ended
  <2>2. CASE /\ wpc' = [wpc EXCEPT ![w] = "run"]
             /\ conn' = [conn EXCEPT ![w] = "pending"]
    <3>1. conn'[w] = "pending"
      BY <2>2, Zenon DEF IInv, TypeOK
    <3> QED
      BY <1>1, <1>2, <1>5, <2>2, <3>1, MoveInv, Zenon
      DEF workerp_connect_ipc_socket, Running, Ended
  <2> QED
    BY <1>5, <2>1, <2>2, Zenon DEF workerp_connect_ipc_socket
<1>6. CASE do_exit(w)
  BY <1>1, <1>2, <1>6, MoveInv, Zenon DEF do_exit, Running, Ended
<1>7. CASE terminate(w)
  BY <1>1, <1>2, <1>7, MoveInv, Zenon DEF terminate, Ended
<1>8. CASE workerp_callback_exitsig(w)
  BY <1>1, <1>2, <1>8, MoveInv, Zenon
     DEF workerp_callback_exitsig, Running, Ended
<1> QED
  BY <1>3, <1>4, <1>5, <1>6, <1>7, <1>8, Zenon

(* A worker that exits unlinks the files of workers before it: never of    *)
(* the one the master waits for, which was forked last.                    *)
LEMMA DestroyInv ==
  ASSUME IInv, NEW w \in Workers, worker_destroy(w)
  PROVE  IInv'
<1> USE DEF worker_destroy
<1>1. PICK k \in Workers : k = Entry(w) /\ k \in psWorker[w] /\ k <= w
  BY EntryExists, Numbers DEF IInv, AdminInv
<1>2. /\ psWorker'[Master] = psWorker[Master]
      /\ psWorker'[w] = psWorker[w] \ {k}
      /\ \A v \in Workers \ {w} : psWorker'[v] = psWorker[v]
      /\ psWorker' \in [Processes -> SUBSET Workers]
  <2>1. psWorker \in [Processes -> SUBSET Workers]
    BY DEF IInv, TypeOK
  <2>2. Master # w /\ Master \in Processes /\ Workers \subseteq Processes
    BY Numbers
  <2>3. psWorker' = [psWorker EXCEPT ![w] = psWorker[w] \ {k}]
    BY <1>1
  <2> QED
    BY <2>1, <2>2, <2>3
<1>3. /\ \A v \in Workers :
           IPCFile'[v] = IPCFile[v] \/ (IPCFile'[v] = "none" /\ v = k /\ k # w)
      /\ IPCFile' \in [Workers -> {"none", "bound", "listening"}]
  BY <1>1, Zenon DEF IInv, TypeOK
<1>4. term' \in [Workers -> BOOLEAN]
  BY Zenon DEF IInv, TypeOK, kill, Running
<1>5. TypeOK'
  BY <1>2, <1>3, <1>4, SMTT(30) DEF IInv, TypeOK
<1>6. mpc \in Meeting => i \in Workers /\ IPCFile'[i] = IPCFile[i]
  BY <1>1, <1>3, Numbers, SMTT(30) DEF IInv, StartInv
<1>7. StartInv'
  BY <1>2, <1>6, Zenon DEF IInv, StartInv, Meeting
<1>8. AdminInv' /\ CleanInv'
  BY <1>2, <1>3, Zenon DEF IInv, AdminInv, CleanInv, Running
<1>9. PassInv'
  BY PassKept, Zenon
<1> QED
  BY <1>5, <1>7, <1>8, <1>9, Together, Zenon DEF ProcInv

(* A step that moves clients only.                                         *)
LEMMA ProcKept ==
  ASSUME IInv, UNCHANGED <<startVars, psWorker, wpc, IPCFile>>,
         mpc' = mpc \/ {mpc, mpc'} \subseteq {"run", "send"}
  PROVE  ProcInv'
<1>1. StartInv'
  BY Zenon DEF IInv, StartInv, Meeting, Serving
<1>2. AdminInv' /\ CleanInv'
  BY Zenon DEF IInv, AdminInv, CleanInv, Running
<1> QED
  BY <1>1, <1>2, Zenon DEF ProcInv

(* A client is accepted and a worker chosen: the next in turn.             *)
LEMMA AcceptClientInv == ASSUME IInv, socket_accept_client PROVE IInv'
<1> USE DEF socket_accept_client
<1>1. PICK k \in Nat, r \in Workers :
        /\ clients = k * iWantedWorkers + r
        /\ \A w \in Workers : routed[w] = IF w < r THEN k + 1 ELSE k
        /\ NextWorker = IF clients = 0 THEN UintRange - 1
                        ELSE IF r = 0 THEN iWantedWorkers - 1 ELSE r - 1
  BY Zenon DEF IInv, RoundInv
<1>2. clients \in Nat /\ clients' = clients + 1 /\ clients' \in 0..MaxClients
  BY WorkersAssumption DEF IInv, TypeOK
<1>3. NextWorker' = r
  BY <1>1, <1>2, NextInTurnIs, Zenon DEF IInv, StartInv, Serving
<1>4. routed'[r] = k + 1 /\ \A w \in Workers \ {r} : routed'[w] = routed[w]
  <2>1. routed' = [routed EXCEPT ![r] = @ + 1] /\ routed \in [Workers -> 0..MaxClients]
    BY <1>3, Zenon DEF IInv, TypeOK
  <2>2. routed[r] = k
    BY <1>1, Numbers
  <2> QED
    BY <2>1, <2>2, Zenon
<1>5. Turn(clients') = r
  BY <1>1, <1>2, Turns
<1>6. k * iWantedWorkers \in Nat /\ k <= k * iWantedWorkers /\ r \in Nat
  BY Numbers
<1>7. TypeOK'
  <2>1. k + 1 \in 0..MaxClients
    BY <1>1, <1>2, <1>6, WorkersAssumption
  <2>2. routed' \in [Workers -> 0..MaxClients]
    BY <1>1, <1>3, <1>4, <2>1, Zenon DEF IInv, TypeOK
  <2>3. r \in 0..(UintRange - 1)
    BY WorkersAssumption, Numbers
  <2> QED
    BY <1>2, <1>3, <2>2, <2>3, Zenon DEF IInv, TypeOK
<1>8. RoundInv'
  <2>1. CASE r + 1 < iWantedWorkers
    <3>1. r + 1 \in Workers
      BY <2>1, Numbers
    <3>2. /\ clients' = k * iWantedWorkers + (r + 1)
          /\ NextWorker' = (r + 1) - 1 /\ r + 1 # 0 /\ clients' # 0
      BY <1>1, <1>2, <1>3, <1>6
    <3>3. \A w \in Workers : routed'[w] = IF w < r + 1 THEN k + 1 ELSE k
      BY <1>1, <1>4, <1>6, Numbers
    <3> QED
      BY <1>3, <1>5, <3>1, <3>2, <3>3, Zenon DEF RoundInv
  <2>2. CASE ~(r + 1 < iWantedWorkers)
    <3>1. r = iWantedWorkers - 1 /\ 0 \in Workers /\ k + 1 \in Nat
      BY <2>2, Numbers
    <3>2. (k + 1) * iWantedWorkers = k * iWantedWorkers + iWantedWorkers
      BY Numbers
    <3>3. /\ clients' = (k + 1) * iWantedWorkers + 0
          /\ \A w \in Workers : routed'[w] = IF w < 0 THEN (k + 1) + 1 ELSE k + 1
          /\ NextWorker' = iWantedWorkers - 1 /\ clients' # 0
      BY <1>1, <1>2, <1>3, <1>4, <1>6, <3>1, <3>2, Numbers, SMTT(30)
    <3> QED
      BY <1>3, <1>5, <3>1, <3>3, Zenon DEF RoundInv
  <2> QED
    BY <2>1, <2>2, Zenon
<1>9. PlaceInv'
  <2>1. /\ iSockfd' = clients + 1 /\ mpc' = "send"
        /\ UNCHANGED <<conn, ipc, serving, handled>>
    BY Zenon
  <2>2. \A c \in handled : c <= clients /\ c \in Nat
    BY SMTT(30) DEF IInv, TypeOK, PlaceInv
  <2>3. ASSUME NEW w \in Workers
        PROVE  /\ \A c \in serving[w] : c <= clients /\ c \in Nat
               /\ \A n \in DOMAIN ipc[w] : ipc[w][n] <= clients /\ ipc[w][n] \in Nat
    <3>1. serving[w] \subseteq 1..MaxClients /\ ipc[w] \in Seq(1..MaxClients)
      BY Zenon DEF IInv, TypeOK
    <3>2. \A n \in DOMAIN ipc[w] : ipc[w][n] \in 1..MaxClients
      BY IpcType, Zenon DEF IInv
    <3> QED
      BY <3>1, <3>2, WorkersAssumption, SMTT(30) DEF IInv, PlaceInv
  <2>4. \A c \in Nat : c <= clients => c <= clients' /\ c # clients'
    BY <1>2
  <2> QED
    BY <1>2, <2>1, <2>2, <2>3, <2>4, SMTT(30) DEF IInv, PlaceInv
<1>10. LostInv'
  BY <1>2, SMTT(30) DEF IInv, LostInv, PlaceInv
<1> QED
  BY <1>7, <1>8, <1>9, <1>10, ProcKept, Together, Zenon DEF PassInv
=============================================================================
