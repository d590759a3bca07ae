---------------------------- MODULE InboundQueue ----------------------------
(***************************************************************************)
(* The inbound job queue (internal/weixin/queue.go): every monitor puts    *)
(* jobs into one buffered channel, a single worker, started by the first   *)
(* enqueue, takes them out, and Shutdown closes the channel.               *)
(*                                                                         *)
(* enqueue reads the channel under qm.mu but sends after unlocking. The    *)
(* channel is Go's: a send to a full one parks the sender, a receive moves *)
(* the first parked sender's job into the buffer, and a send on a closed   *)
(* one, or closing it over a parked sender, panics and ends the process.   *)
(***************************************************************************)
EXTENDS Naturals, Sequences

CONSTANTS
    Monitors,   \* goroutines that enqueue
    Cap,        \* capacity of the channel (64 in the code)
    MaxJobs,    \* bound on the jobs of one monitor
    NoJob       \* nil

ASSUME QueueAssumption ==
    /\ Cap \in Nat \ {0}
    /\ MaxJobs \in Nat

VARIABLES
    open,           \* qm.jobs # nil
    closed,         \* the channel is closed
    buf,            \* jobs in the channel's buffer
    parked,         \* jobs of the senders blocked on it, in order
    workerStarted,
    worker,         \* worker started by a monitor: "none", "ready", "busy", "exited"
    current,        \* the job a busy worker processes
    pc,             \* monitor: "idle", "sending" or "parked"
    count,          \* jobs the monitor has handed to enqueue
    panicked,       \* monitors that sent on the closed channel
    arrived,        \* ghost: jobs in the order they reached the channel
    done,           \* ghost: jobs in the order their processing ended
    inFlight        \* ghost: monitors inside enqueue's send when it was closed

chanVars == <<open, closed, buf, parked>>
workVars == <<workerStarted, worker, current, done>>
vars == <<open, closed, buf, parked, workerStarted, worker, current, pc, count,
          panicked, arrived, done, inFlight>>

Jobs == [by : Monitors, n : 1 .. MaxJobs]

\* The job a monitor is enqueueing.
JobOf(m) == [by |-> m, n |-> count[m]]

\* An unrecovered panic ends the whole process.
Crashed == panicked # {}

Init ==
    /\ open = TRUE
    /\ closed = FALSE
    /\ buf = <<>>
    /\ parked = <<>>
    /\ workerStarted = FALSE
    /\ worker = [m \in Monitors |-> "none"]
    /\ current = [m \in Monitors |-> NoJob]
    /\ pc = [m \in Monitors |-> "idle"]
    /\ count = [m \in Monitors |-> 0]
    /\ panicked = {}
    /\ arrived = <<>>
    /\ done = <<>>
    /\ inFlight = {}

-----------------------------------------------------------------------------
(* Faulty variants, used only to show that the properties can fail *)

\* workerStarted is never set: every enqueue starts a worker.
EnqueueStartsWorker(m) ==
    /\ ~Crashed /\ open /\ pc[m] = "idle" /\ count[m] < MaxJobs
    /\ count' = [count EXCEPT ![m] = @ + 1]
    /\ pc' = [pc EXCEPT ![m] = "sending"]
    /\ worker' = [worker EXCEPT ![m] = IF @ = "none" THEN "ready" ELSE @]
    /\ UNCHANGED <<workerStarted, current, done, panicked, arrived, inFlight, chanVars>>

\* A buffer without a bound.
SendUnbounded(m) ==
    /\ ~Crashed /\ pc[m] = "sending" /\ ~closed
    /\ buf' = Append(buf, JobOf(m))
    /\ arrived' = Append(arrived, JobOf(m))
    /\ pc' = [pc EXCEPT ![m] = "idle"]
    /\ UNCHANGED <<open, closed, parked, workVars, count, panicked, inFlight>>

\* A job that failed is put back for another try.
FinishRetries(m) ==
    /\ ~Crashed /\ worker[m] = "busy"
    /\ done' = Append(done, current[m])
    /\ \/ buf' = buf
       \/ Len(buf) < Cap /\ buf' = Append(buf, current[m])
    /\ worker' = [worker EXCEPT ![m] = "ready"]
    /\ UNCHANGED <<workerStarted, current, open, closed, parked, pc, count, panicked,
                   arrived, inFlight>>

\* The worker stops at the close and leaves the buffer behind.
WorkerExitsAtClose(m) ==
    /\ ~Crashed /\ worker[m] = "ready" /\ closed
    /\ worker' = [worker EXCEPT ![m] = "exited"]
    /\ UNCHANGED <<workerStarted, current, done, chanVars, pc, count, panicked,
                   arrived, inFlight>>

\* The channel is closed but the field keeps it.
ShutdownKeepsField ==
    /\ ~Crashed /\ open /\ ~closed
    /\ closed' = TRUE
    /\ inFlight' = {m \in Monitors : pc[m] # "idle"}
    /\ panicked' = {m \in Monitors : pc[m] = "parked"}
    /\ UNCHANGED <<open, buf, parked, workVars, pc, count, arrived>>

-----------------------------------------------------------------------------
(* enqueue *)

\* After Shutdown the job is dropped without a trace.
EnqueueDropped(m) ==
    /\ ~Crashed
    /\ pc[m] = "idle" /\ count[m] < MaxJobs
    /\ ~open
    /\ count' = [count EXCEPT ![m] = @ + 1]
    /\ UNCHANGED <<chanVars, workVars, pc, panicked, arrived, inFlight>>

\* The section under qm.mu: the worker is started once, the channel captured.
Enqueue(m) ==
    /\ ~Crashed
    /\ pc[m] = "idle" /\ count[m] < MaxJobs
    /\ open
    /\ count' = [count EXCEPT ![m] = @ + 1]
    /\ pc' = [pc EXCEPT ![m] = "sending"]
    /\ workerStarted' = TRUE
    /\ worker' = IF workerStarted THEN worker ELSE [worker EXCEPT ![m] = "ready"]
    /\ UNCHANGED <<current, done, panicked, arrived, inFlight, chanVars>>

\* ch <- job with room in the buffer.
Send(m) ==
    /\ ~Crashed
    /\ pc[m] = "sending"
    /\ ~closed
    /\ Len(buf) < Cap
    /\ buf' = Append(buf, JobOf(m))
    /\ arrived' = Append(arrived, JobOf(m))
    /\ pc' = [pc EXCEPT ![m] = "idle"]
    /\ UNCHANGED <<open, closed, parked, workVars, count, panicked, inFlight>>

\* ch <- job on a full buffer: the monitor stops polling until there is room.
Park(m) ==
    /\ ~Crashed
    /\ pc[m] = "sending"
    /\ ~closed
    /\ Len(buf) = Cap
    /\ parked' = Append(parked, JobOf(m))
    /\ arrived' = Append(arrived, JobOf(m))
    /\ pc' = [pc EXCEPT ![m] = "parked"]
    /\ UNCHANGED <<open, closed, buf, workVars, count, panicked, inFlight>>

\* ch <- job after the channel was closed.
SendPanics(m) ==
    /\ ~Crashed
    /\ pc[m] = "sending"
    /\ closed
    /\ panicked' = panicked \cup {m}
    /\ UNCHANGED <<chanVars, workVars, pc, count, arrived, inFlight>>

-----------------------------------------------------------------------------
(* runWorker; m names the worker that monitor m started *)

TakeJob(m) ==
    /\ ~Crashed
    /\ worker[m] = "ready"
    /\ buf # <<>>
    /\ worker' = [worker EXCEPT ![m] = "busy"]
    /\ current' = [current EXCEPT ![m] = Head(buf)]
    /\ UNCHANGED <<open, closed, workerStarted, done, count, panicked, arrived, inFlight>>

Receive(m) ==
    /\ TakeJob(m)
    /\ parked = <<>>
    /\ buf' = Tail(buf)
    /\ UNCHANGED <<parked, pc>>

\* The first blocked sender's job takes the free slot and its enqueue returns.
ReceiveAndUnpark(m) ==
    /\ TakeJob(m)
    /\ parked # <<>>
    /\ buf' = Append(Tail(buf), Head(parked))
    /\ parked' = Tail(parked)
    /\ pc' = [pc EXCEPT ![Head(parked).by] = "idle"]

\* processJob returns: the agent run and the reply are over, or have failed.
Finish(m) ==
    /\ ~Crashed
    /\ worker[m] = "busy"
    /\ done' = Append(done, current[m])
    /\ worker' = [worker EXCEPT ![m] = "ready"]
    /\ UNCHANGED <<workerStarted, current, chanVars, pc, count, panicked, arrived, inFlight>>

\* The range over the channel ends when it is closed and empty.
WorkerExit(m) ==
    /\ ~Crashed
    /\ worker[m] = "ready"
    /\ closed /\ buf = <<>>
    /\ worker' = [worker EXCEPT ![m] = "exited"]
    /\ UNCHANGED <<workerStarted, current, done, chanVars, pc, count, panicked,
                   arrived, inFlight>>

\* close(qm.jobs) under qm.mu wakes every parked sender into a panic.
Shutdown ==
    /\ ~Crashed
    /\ open
    /\ open' = FALSE
    /\ closed' = TRUE
    /\ workerStarted' = FALSE
    /\ inFlight' = {m \in Monitors : pc[m] # "idle"}
    /\ panicked' = {m \in Monitors : pc[m] = "parked"}
    /\ UNCHANGED <<buf, parked, worker, current, done, pc, count, arrived>>

\* The process is gone, or nothing more is asked of the queue.
Quiescent ==
    /\ \/ Crashed
       \/ /\ \A m \in Monitors : pc[m] = "idle" /\ count[m] = MaxJobs
          /\ \A m \in Monitors : worker[m] \in {"none", "exited"}
    /\ UNCHANGED vars

MonitorStep(m) ==
    EnqueueDropped(m) \/ Enqueue(m) \/ Send(m) \/ Park(m) \/ SendPanics(m)

WorkerStep(m) == Receive(m) \/ ReceiveAndUnpark(m) \/ Finish(m) \/ WorkerExit(m)

Next ==
    \/ \E m \in Monitors : MonitorStep(m) \/ WorkerStep(m)
    \/ Shutdown
    \/ Quiescent

\* The Go scheduler runs every goroutine that can run; processJob returns
\* because the host answers RunAgent. Messages and Shutdown may never come.
Fairness ==
    \A m \in Monitors :
        /\ WF_vars(Send(m) \/ Park(m) \/ SendPanics(m))
        /\ WF_vars(Receive(m) \/ ReceiveAndUnpark(m))
        /\ WF_vars(Finish(m))

Spec == Init /\ [][Next]_vars

FairSpec == Spec /\ Fairness

-----------------------------------------------------------------------------
(* Properties *)

\* Every variable has its type, the buffer respects the capacity, and a
\* sending monitor and a busy worker have a job in hand.
TypeOK ==
    /\ open \in BOOLEAN
    /\ closed \in BOOLEAN
    /\ buf \in Seq(Jobs) /\ Len(buf) <= Cap
    /\ parked \in Seq(Jobs)
    /\ workerStarted \in BOOLEAN
    /\ worker \in [Monitors -> {"none", "ready", "busy", "exited"}]
    /\ current \in [Monitors -> Jobs \cup {NoJob}]
    /\ pc \in [Monitors -> {"idle", "sending", "parked"}]
    /\ count \in [Monitors -> 0 .. MaxJobs]
    /\ \A m \in Monitors : pc[m] = "sending" => JobOf(m) \in Jobs
    /\ \A m \in Monitors : worker[m] = "busy" => current[m] \in Jobs
    /\ panicked \subseteq Monitors
    /\ arrived \in Seq(Jobs)
    /\ done \in Seq(Jobs)
    /\ inFlight \subseteq Monitors

\* At most one worker goroutine ever exists, whichever monitor enqueues first
\* and although Shutdown resets workerStarted: agent runs never overlap.
OneWorker ==
    \A m, n \in Monitors : worker[m] # "none" /\ worker[n] # "none" => m = n

Running == {current[m] : m \in {n \in Monitors : worker[n] = "busy"}}

\* Jobs are processed one after the other in the order they reached the
\* channel, none lost and none twice: what arrived is what was processed,
\* the running job, the buffer and the blocked senders, in that order.
ProcessedInOrder ==
    \E running \in {<<>>} \cup {<<j>> : j \in Running} :
        /\ (running = <<>>) <=> (Running = {})
        /\ arrived = done \o running \o buf \o parked

Phase == IF Crashed THEN "dead" ELSE IF closed THEN "closed" ELSE "open"

Service == INSTANCE JobService
    WITH waiting <- buf \o parked, running <- Running, phase <- Phase

\* The channel, its blocked senders and the worker together are one line that
\* one server works off: a job that found the buffer full stands behind the
\* buffered ones and before every later one, and no two jobs run at a time.
ImplementsService == Service!Spec

\* The agent finishes two messages of one bot in the order the bot polled
\* them, even when some had to wait for room in the buffer.
OrderOfOneBot ==
    \A i, j \in DOMAIN done :
        done[i].by = done[j].by /\ i < j => done[i].n < done[j].n

\* Only an enqueue that had passed the nil check when Shutdown closed the
\* channel can panic: one that comes later is dropped.
PanicOnlyInFlight == panicked \subseteq inFlight

\* A job handed to enqueue while the queue was open is processed, through a
\* full buffer and through Shutdown, unless the process dies.
EveryJobIsProcessed ==
    \A m \in Monitors, n \in 1 .. MaxJobs :
        (count[m] = n /\ pc[m] = "sending")
            ~> (Crashed \/ \E i \in DOMAIN done : done[i] = [by |-> m, n |-> n])
=============================================================================
