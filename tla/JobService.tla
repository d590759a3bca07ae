----------------------------- MODULE JobService -----------------------------
(***************************************************************************)
(* What the inbound queue promises to the monitors: "One global inbound    *)
(* queue worker processes jobs in order" (README of the repository). Jobs  *)
(* wait in one line, one of them runs at a time, and after the close no    *)
(* job joins the line but those in it are still served, unless the process *)
(* dies. There is no channel, no buffer and no goroutine here.             *)
(***************************************************************************)
EXTENDS Sequences

CONSTANT Jobs

VARIABLES
    waiting,    \* the line
    running,    \* the job that runs, if any
    phase       \* "open", "closed" or "dead"

vars == <<waiting, running, phase>>

Init ==
    /\ waiting = <<>>
    /\ running = {}
    /\ phase = "open"

\* A job joins the line.
Accept(job) ==
    /\ phase = "open"
    /\ waiting' = Append(waiting, job)
    /\ UNCHANGED <<running, phase>>

\* The first in the line is served when nothing else is.
Begin ==
    /\ phase # "dead"
    /\ running = {} /\ waiting # <<>>
    /\ running' = {Head(waiting)}
    /\ waiting' = Tail(waiting)
    /\ UNCHANGED phase

End ==
    /\ phase # "dead"
    /\ running # {}
    /\ running' = {}
    /\ UNCHANGED <<waiting, phase>>

\* The close may kill the process (a job about to join the line), and so may
\* a job that comes too late.
Close ==
    /\ phase = "open"
    /\ phase' \in {"closed", "dead"}
    /\ UNCHANGED <<waiting, running>>

Die ==
    /\ phase = "closed"
    /\ phase' = "dead"
    /\ UNCHANGED <<waiting, running>>

Next == (\E job \in Jobs : Accept(job)) \/ Begin \/ End \/ Close \/ Die

Spec == Init /\ [][Next]_vars
=============================================================================
