--------------------------- MODULE WorkerClients ---------------------------
(***************************************************************************)
(* What a worker is to its clients, whoever looks at it: clients come in   *)
(* through the IPC socket and are taken out in that order, each at most    *)
(* once; one that is taken is served and then let go, or dropped at once;  *)
(* when the worker ends it has none.                                       *)
(***************************************************************************)
EXTENDS Sequences

CONSTANT Clients

VARIABLES
  phase,    \* "starting", "up", "ended"
  ipc,      \* clients in the IPC socket
  serving,  \* clients that are served
  gone      \* clients that were let go or dropped

vars == <<phase, ipc, serving, gone>>

Queued == {ipc[n] : n \in DOMAIN ipc}

Init == phase = "starting" /\ ipc = <<>> /\ serving = {} /\ gone = {}

Connect ==
  /\ phase = "starting"
  /\ phase' = "up"
  /\ UNCHANGED <<ipc, serving, gone>>

Arrive(c) ==
  /\ phase = "up"
  /\ c \notin Queued \union serving \union gone
  /\ ipc' = Append(ipc, c)
  /\ UNCHANGED <<phase, serving, gone>>

Take ==
  /\ phase = "up" /\ ipc # <<>>
  /\ ipc' = Tail(ipc)
  /\ \/ serving' = serving \union {Head(ipc)} /\ UNCHANGED gone
     \/ gone' = gone \union {Head(ipc)} /\ UNCHANGED serving
  /\ UNCHANGED phase

LetGo(c) ==
  /\ phase = "up"
  /\ c \in serving
  /\ serving' = serving \ {c}
  /\ gone' = gone \union {c}
  /\ UNCHANGED <<phase, ipc>>

End ==
  /\ phase # "ended"
  /\ phase' = "ended"
  /\ ipc' = <<>> /\ serving' = {}
  /\ UNCHANGED gone

Next == Connect \/ Take \/ End \/ \E c \in Clients : Arrive(c) \/ LetGo(c)

Spec == Init /\ [][Next]_vars
=============================================================================
