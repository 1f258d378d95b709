----------------------------- MODULE LogService -----------------------------
(***************************************************************************)
(* What the logger (cew_logger.c) promises its callers, with no threads,   *)
(* no mutex and no counter: a message that was accepted waits, and waiting *)
(* messages go to the log oldest first, some at a time.  Only a destroy    *)
(* may drop messages, and then all that wait.                              *)
(***************************************************************************)
EXTENDS Naturals, Sequences

CONSTANT Msgs

VARIABLES
  log,      \* what is on disk
  waiting,  \* accepted and not on disk
  up        \* FALSE once the process ended

vars == <<log, waiting, up>>

Init == log = <<>> /\ waiting = <<>> /\ up = TRUE

Occurs(m, s) == \E k \in 1..Len(s) : s[k] = m

(* No message is accepted twice.                                           *)
Accept(m) ==
  /\ up
  /\ ~Occurs(m, log) /\ ~Occurs(m, waiting)
  /\ waiting' = Append(waiting, m)
  /\ UNCHANGED <<log, up>>

Write ==
  /\ up
  /\ \E n \in 1..Len(waiting) :
       /\ log' = log \o SubSeq(waiting, 1, n)
       /\ waiting' = SubSeq(waiting, n + 1, Len(waiting))
  /\ UNCHANGED up

Drop ==
  /\ up
  /\ waiting # <<>>
  /\ waiting' = <<>>
  /\ UNCHANGED <<log, up>>

Exit == up /\ up' = FALSE /\ UNCHANGED <<log, waiting>>

Next == (\E m \in Msgs : Accept(m)) \/ Write \/ Drop \/ Exit

Spec == Init /\ [][Next]_vars

(* In streaming mode messages do not wait for ever.                        *)
FairSpec == Spec /\ WF_vars(Write \/ Drop)
=============================================================================
