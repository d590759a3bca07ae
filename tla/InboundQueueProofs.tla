-------------------------- MODULE InboundQueueProofs --------------------------
(***************************************************************************)
(* Proofs about InboundQueue for any number of monitors, any capacity and  *)
(* any number of jobs.                                                     *)
(***************************************************************************)
EXTENDS InboundQueue, SequenceTheorems, TLAPS

USE QueueAssumption DEF QueueAssumption

(* Every variable keeps its type; the buffer never exceeds the capacity.    *)
THEOREM TypeCorrect == Spec => []TypeOK
<1>1. Init => TypeOK
  <2> SUFFICES ASSUME Init PROVE TypeOK
    OBVIOUS
  <2>1. <<>> \in Seq(Jobs) /\ Len(<<>>) <= Cap
    BY EmptySeq
  <2>2. /\ current \in [Monitors -> Jobs \cup {NoJob}]
        /\ count \in [Monitors -> 0 .. MaxJobs]
    BY DEF Init
  <2>3. /\ pc \in [Monitors -> {"idle", "sending", "parked"}]
        /\ \A m \in Monitors : pc[m] = "sending" => JobOf(m) \in Jobs
    BY DEF Init
  <2>4. /\ worker \in [Monitors -> {"none", "ready", "busy", "exited"}]
        /\ \A m \in Monitors : worker[m] = "busy" => current[m] \in Jobs
    BY DEF Init
  <2>5. QED
    BY <2>1, <2>2, <2>3, <2>4 DEF Init, TypeOK
<1>2. TypeOK /\ [Next]_vars => TypeOK'
  <2> SUFFICES ASSUME TypeOK, [Next]_vars PROVE TypeOK'
    OBVIOUS
  <2> USE DEF TypeOK, chanVars, workVars
  <2>1. ASSUME NEW m \in Monitors, MonitorStep(m) PROVE TypeOK'
    <3>0. ASSUME NEW n \in Monitors, NEW i \in 1 .. MaxJobs
          PROVE  [by |-> n, n |-> i] \in Jobs
      BY DEF Jobs
    <3>1. CASE EnqueueDropped(m)
      <4>1. count' \in [Monitors -> 0 .. MaxJobs] /\ pc[m] # "sending"
        BY <3>1 DEF EnqueueDropped
      <4>2. \A n \in Monitors : n # m => JobOf(n)' = JobOf(n)
        BY <3>1 DEF EnqueueDropped, JobOf
      <4>3. QED
        BY <3>1, <4>1, <4>2 DEF EnqueueDropped
    <3>2. CASE Enqueue(m)
      <4>1. count' \in [Monitors -> 0 .. MaxJobs] /\ count'[m] \in 1 .. MaxJobs
        BY <3>2 DEF Enqueue
      <4>2. \A n \in Monitors : n # m => JobOf(n)' = JobOf(n)
        BY <3>2 DEF Enqueue, JobOf
      <4>3. JobOf(m)' \in Jobs
        BY <3>0, <4>1 DEF JobOf
      <4>4. QED
        BY <3>2, <4>1, <4>2, <4>3 DEF Enqueue
    <3>3. CASE Send(m)
      <4>1. JobOf(m) \in Jobs /\ \A n \in Monitors : JobOf(n)' = JobOf(n)
        BY <3>3 DEF Send, JobOf
      <4>2. buf' \in Seq(Jobs) /\ Len(buf') <= Cap /\ arrived' \in Seq(Jobs)
        BY <3>3, <4>1, AppendProperties DEF Send
      <4>3. QED
        BY <3>3, <4>1, <4>2 DEF Send
    <3>4. CASE Park(m)
      <4>1. JobOf(m) \in Jobs /\ \A n \in Monitors : JobOf(n)' = JobOf(n)
        BY <3>4 DEF Park, JobOf
      <4>2. parked' \in Seq(Jobs) /\ arrived' \in Seq(Jobs)
        BY <3>4, <4>1, AppendProperties DEF Park
      <4>3. QED
        BY <3>4, <4>1, <4>2 DEF Park
    <3>5. CASE SendPanics(m)
      <4>1. \A n \in Monitors : JobOf(n)' = JobOf(n)
        BY <3>5 DEF SendPanics, JobOf
      <4>2. QED
        BY <3>5, <4>1 DEF SendPanics
    <3>6. QED
      BY <2>1, <3>1, <3>2, <3>3, <3>4, <3>5 DEF MonitorStep
  <2>2. ASSUME NEW m \in Monitors, WorkerStep(m) PROVE TypeOK'
    <3>0. count' = count => \A n \in Monitors : JobOf(n)' = JobOf(n)
      BY DEF JobOf
    <3>1. CASE Receive(m) \/ ReceiveAndUnpark(m)
      <4>1. Head(buf) \in Jobs /\ Tail(buf) \in Seq(Jobs) /\ Len(Tail(buf)) = Len(buf) - 1
        BY <3>1, HeadTailProperties DEF Receive, ReceiveAndUnpark, TakeJob
      <4>2. /\ buf' \in Seq(Jobs) /\ Len(buf') <= Cap
            /\ parked' \in Seq(Jobs)
            /\ pc' \in [Monitors -> {"idle", "sending", "parked"}]
            /\ \A n \in Monitors : pc'[n] = "sending" => pc[n] = "sending"
        <5>1. CASE Receive(m)
          BY <4>1, <5>1 DEF Receive
        <5>2. CASE ReceiveAndUnpark(m)
          <6>1. Head(parked) \in Jobs /\ Tail(parked) \in Seq(Jobs)
            BY <5>2, HeadTailProperties DEF ReceiveAndUnpark
          <6>2. Append(Tail(buf), Head(parked)) \in Seq(Jobs)
                /\ Len(Append(Tail(buf), Head(parked))) = Len(Tail(buf)) + 1
            BY <4>1, <6>1, AppendProperties
          <6>3. /\ pc' \in [Monitors -> {"idle", "sending", "parked"}]
                /\ \A n \in Monitors : pc'[n] = "sending" => pc[n] = "sending"
            BY <5>2 DEF ReceiveAndUnpark
          <6>4. QED
            BY <4>1, <5>2, <6>1, <6>2, <6>3 DEF ReceiveAndUnpark
        <5>3. QED
          BY <3>1, <5>1, <5>2
      <4>3. TakeJob(m)
        BY <3>1 DEF Receive, ReceiveAndUnpark
      <4>4. /\ worker' \in [Monitors -> {"none", "ready", "busy", "exited"}]
            /\ current' \in [Monitors -> Jobs \cup {NoJob}]
            /\ \A n \in Monitors : worker'[n] = "busy" => current'[n] \in Jobs
        BY <4>1, <4>3 DEF TakeJob
      <4>5. QED
        BY <3>0, <4>2, <4>3, <4>4 DEF TakeJob
    <3>2. CASE Finish(m)
      <4>1. done' \in Seq(Jobs)
        BY <3>2, AppendProperties DEF Finish
      <4>2. QED
        BY <3>0, <3>2, <4>1 DEF Finish
    <3>3. CASE WorkerExit(m)
      BY <3>0, <3>3 DEF WorkerExit
    <3>4. QED
      BY <2>2, <3>1, <3>2, <3>3 DEF WorkerStep
  <2>3. CASE Shutdown
    BY <2>3 DEF Shutdown, JobOf
  <2>4. CASE UNCHANGED vars
    BY <2>4 DEF vars, JobOf
  <2>5. QED
    BY <2>1, <2>2, <2>3, <2>4 DEF Next, Quiescent
<1>3. QED
  BY <1>1, <1>2, PTL DEF Spec

(* While the queue is open the flag tells whether a worker exists, and a    *)
(* closed queue is never opened again: this is what makes the reset of the  *)
(* flag in Shutdown harmless.                                               *)
WorkerInv ==
    /\ OneWorker
    /\ open /\ ~workerStarted => \A m \in Monitors : worker[m] = "none"

\* The worker's part always holds.
LEMMA WorkerInvHolds == Spec => []WorkerInv
<1>1. Init => WorkerInv
  BY DEF Init, WorkerInv, OneWorker
<1>2. TypeOK /\ WorkerInv /\ [Next]_vars => WorkerInv'
  <2> SUFFICES ASSUME TypeOK, WorkerInv, [Next]_vars PROVE WorkerInv'
    OBVIOUS
  <2> USE DEF TypeOK, WorkerInv, OneWorker, chanVars, workVars
  <2>1. ASSUME NEW m \in Monitors, MonitorStep(m) PROVE WorkerInv'
    <3>1. CASE Enqueue(m)
      BY <3>1 DEF Enqueue
    <3>2. CASE EnqueueDropped(m) \/ Send(m) \/ Park(m) \/ SendPanics(m)
      BY <3>2 DEF EnqueueDropped, Send, Park, SendPanics
    <3>3. QED
      BY <2>1, <3>1, <3>2 DEF MonitorStep
  <2>2. ASSUME NEW m \in Monitors, WorkerStep(m) PROVE WorkerInv'
    <3>1. worker[m] # "none" /\ UNCHANGED <<open, workerStarted>>
      BY <2>2 DEF WorkerStep, Receive, ReceiveAndUnpark, TakeJob, Finish, WorkerExit
    <3>2. \A n \in Monitors : worker'[n] # "none" => worker[n] # "none"
      BY <2>2 DEF WorkerStep, Receive, ReceiveAndUnpark, TakeJob, Finish, WorkerExit
    <3>3. QED
      BY <3>1, <3>2
  <2>3. CASE Shutdown \/ UNCHANGED vars
    BY <2>3 DEF Shutdown, vars
  <2>4. QED
    BY <2>1, <2>2, <2>3 DEF Next, Quiescent
<1>3. QED
  BY <1>1, <1>2, TypeCorrect, PTL DEF Spec

(* Two workers never exist.                                                 *)
THEOREM OneWorkerHolds == Spec => []OneWorker
<1>1. WorkerInv => OneWorker
  BY DEF WorkerInv
<1>2. QED
  BY <1>1, WorkerInvHolds, PTL

(* Who may still send once the channel is closed.                           *)
CloseInv ==
    /\ PanicOnlyInFlight
    /\ closed <=> ~open
    /\ closed => \A m \in Monitors : pc[m] # "idle" => m \in inFlight

\* A closed queue only meets monitors that were sending when it was closed.
LEMMA CloseInvHolds == Spec => []CloseInv
<1>1. Init => CloseInv
  BY DEF Init, CloseInv, PanicOnlyInFlight
<1>2. TypeOK /\ CloseInv /\ [Next]_vars => CloseInv'
  <2> SUFFICES ASSUME TypeOK, CloseInv, [Next]_vars PROVE CloseInv'
    OBVIOUS
  <2> USE DEF TypeOK, CloseInv, PanicOnlyInFlight, chanVars, workVars
  <2>1. ASSUME NEW m \in Monitors, MonitorStep(m) PROVE CloseInv'
    BY <2>1 DEF MonitorStep, EnqueueDropped, Enqueue, Send, Park, SendPanics
  <2>2. ASSUME NEW m \in Monitors, WorkerStep(m) PROVE CloseInv'
    <3>1. CASE Receive(m) \/ ReceiveAndUnpark(m)
      <4>1. \A n \in Monitors : pc'[n] # "idle" => pc[n] # "idle"
        BY <3>1 DEF Receive, ReceiveAndUnpark
      <4>2. QED
        BY <3>1, <4>1 DEF Receive, ReceiveAndUnpark, TakeJob
    <3>2. CASE Finish(m) \/ WorkerExit(m)
      BY <3>2 DEF Finish, WorkerExit
    <3>3. QED
      BY <2>2, <3>1, <3>2 DEF WorkerStep
  <2>3. CASE Shutdown \/ UNCHANGED vars
    BY <2>3 DEF Shutdown, vars, Crashed
  <2>4. QED
    BY <2>1, <2>2, <2>3 DEF Next, Quiescent
<1>3. QED
  BY <1>1, <1>2, TypeCorrect, PTL DEF Spec

(* Only a send that was already under way at the close can panic.           *)
THEOREM PanicOnlyInFlightHolds == Spec => []PanicOnlyInFlight
<1>1. CloseInv => PanicOnlyInFlight
  BY DEF CloseInv
<1>2. QED
  BY <1>1, CloseInvHolds, PTL

(* Senders wait only for a full buffer, and what has arrived is accounted   *)
(* for in order.                                                            *)
OrderInv ==
    /\ ProcessedInOrder
    /\ parked # <<>> => Len(buf) = Cap

\* A sequence is its head followed by its tail.
LEMMA HeadThenTail ==
    ASSUME NEW S, NEW s \in Seq(S), s # <<>>
    PROVE  /\ s = <<Head(s)>> \o Tail(s)
           /\ Head(s) \in S /\ Tail(s) \in Seq(S) /\ <<Head(s)>> \in Seq(S)
  BY HeadTailProperties, ConcatProperties, SeqEqual

\* One element makes a sequence that is not empty.
LEMMA OneElementSeq == ASSUME NEW S, NEW e \in S PROVE <<e>> \in Seq(S) /\ <<e>> # <<>>
  OBVIOUS

(* Taking the head of a sequence moves it behind the one before it.         *)
LEMMA MoveHead ==
    ASSUME NEW S, NEW s \in Seq(S), NEW t \in Seq(S), t # <<>>
    PROVE  s \o t = (s \o <<Head(t)>>) \o Tail(t)
<1>1. t = <<Head(t)>> \o Tail(t)
  BY HeadThenTail
<1>2. <<Head(t)>> \in Seq(S) /\ Tail(t) \in Seq(S)
  BY HeadThenTail
<1>3. s \o (<<Head(t)>> \o Tail(t)) = (s \o <<Head(t)>>) \o Tail(t)
  BY <1>2, ConcatAssociative
<1>4. QED
  BY <1>1, <1>3

(* The refill of the buffer from the first blocked sender.                  *)
LEMMA MoveHeadIntoBuffer ==
    ASSUME NEW S, NEW s \in Seq(S), NEW t \in Seq(S), NEW u \in Seq(S), u # <<>>
    PROVE  (s \o t) \o u = (s \o (t \o <<Head(u)>>)) \o Tail(u)
<1>1. s \o t \in Seq(S) /\ <<Head(u)>> \in Seq(S)
  BY ConcatProperties, HeadThenTail
<1>2. (s \o t) \o u = ((s \o t) \o <<Head(u)>>) \o Tail(u)
  BY <1>1, MoveHead
<1>3. (s \o t) \o <<Head(u)>> = s \o (t \o <<Head(u)>>)
  BY <1>1, ConcatAssociative
<1>4. QED
  BY <1>2, <1>3

(* The backlog behind a finished prefix: done, running, buffered, blocked.  *)
LEMMA OrderStep ==
    ASSUME TypeOK, WorkerInv, OneWorker, OrderInv, [Next]_vars
    PROVE  OrderInv'
<1> USE DEF chanVars, workVars
<1>0. PICK running \in {<<>>} \cup {<<j>> : j \in Running} :
        /\ (running = <<>>) <=> (Running = {})
        /\ arrived = done \o running \o buf \o parked
  BY DEF OrderInv, ProcessedInOrder
<1>1. Running \subseteq Jobs /\ running \in Seq(Jobs)
  <2>1. Running \subseteq Jobs
    BY DEF TypeOK, Running
  <2>2. CASE running = <<>>
    BY <2>1, <2>2, EmptySeq
  <2>3. CASE running \in {<<j>> : j \in Running}
    BY <2>1, <2>3, OneElementSeq
  <2>4. QED
    BY <2>1, <2>2, <2>3
<1>2. ASSUME UNCHANGED <<done, buf, parked, arrived>>, Running' = Running
      PROVE  OrderInv'
  BY <1>2 DEF OrderInv, ProcessedInOrder
<1>3. worker' = worker /\ current' = current => Running' = Running
  BY DEF Running
<1>4. ASSUME NEW m \in Monitors, EnqueueDropped(m) \/ Enqueue(m) \/ SendPanics(m)
      PROVE  OrderInv'
  <2>1. Running' = Running
    <3>1. CASE EnqueueDropped(m) \/ SendPanics(m)
      BY <1>3, <3>1 DEF EnqueueDropped, SendPanics
    <3>2. CASE Enqueue(m)
      <4>1. current' = current
        BY <3>2 DEF Enqueue
      <4>2. \A n \in Monitors : worker'[n] = "busy" <=> worker[n] = "busy"
        BY <3>2 DEF Enqueue, TypeOK, WorkerInv
      <4>3. QED
        BY <4>1, <4>2 DEF Running
    <3>3. QED
      BY <1>4, <3>1, <3>2
  <2>2. QED
    BY <1>2, <1>4, <2>1 DEF EnqueueDropped, Enqueue, SendPanics
<1>5. ASSUME NEW m \in Monitors, Send(m) PROVE OrderInv'
  <2>1. parked = <<>> /\ JobOf(m) \in Jobs
    BY <1>5 DEF Send, OrderInv, TypeOK
  <2>2. done \o running \in Seq(Jobs)
    BY <1>1, ConcatProperties DEF TypeOK
  <2>3. arrived = (done \o running) \o buf
    BY <1>0, <2>1, <2>2, ConcatProperties, ConcatEmptySeq DEF TypeOK
  <2>4. arrived' = (done \o running) \o Append(buf, JobOf(m))
    <3>1. arrived' = arrived \o <<JobOf(m)>> /\ Append(buf, JobOf(m)) = buf \o <<JobOf(m)>>
      BY <1>5, <2>1, AppendIsConcat DEF Send, TypeOK
    <3>2. buf \in Seq(Jobs) /\ <<JobOf(m)>> \in Seq(Jobs)
      BY <2>1, OneElementSeq DEF TypeOK
    <3>3. ((done \o running) \o buf) \o <<JobOf(m)>>
            = (done \o running) \o (buf \o <<JobOf(m)>>)
      <4> DEFINE front == done \o running
                 last  == <<JobOf(m)>>
      <4>1. front \in Seq(Jobs) /\ buf \in Seq(Jobs) /\ last \in Seq(Jobs)
        BY <2>2, <3>2
      <4> HIDE DEF front, last
      <4>2. (front \o buf) \o last = front \o (buf \o last)
        BY <4>1, ConcatAssociative
      <4>3. QED
        BY <4>2 DEF front, last
    <3>4. QED
      BY <2>3, <3>1, <3>3
  <2>5. arrived' = done \o running \o buf' \o parked'
    BY <1>5, <2>1, <2>2, <2>4, ConcatProperties, ConcatEmptySeq, AppendProperties
    DEF Send, TypeOK
  <2>6. Running' = Running
    BY <1>3, <1>5 DEF Send
  <2>7. QED
    BY <1>0, <1>5, <2>1, <2>5, <2>6 DEF Send, OrderInv, ProcessedInOrder
<1>6. ASSUME NEW m \in Monitors, Park(m) PROVE OrderInv'
  <2>1. JobOf(m) \in Jobs
    BY <1>6 DEF Park, TypeOK
  <2>2. done \o running \o buf \in Seq(Jobs)
    BY <1>1, ConcatProperties DEF TypeOK
  <2>3. arrived' = (done \o running \o buf) \o Append(parked, JobOf(m))
    <3>1. arrived' = arrived \o <<JobOf(m)>>
          /\ Append(parked, JobOf(m)) = parked \o <<JobOf(m)>>
      BY <1>6, <2>1, AppendIsConcat DEF Park, TypeOK
    <3>2. parked \in Seq(Jobs) /\ <<JobOf(m)>> \in Seq(Jobs)
      BY <2>1, OneElementSeq DEF TypeOK
    <3>3. ((done \o running \o buf) \o parked) \o <<JobOf(m)>>
            = (done \o running \o buf) \o (parked \o <<JobOf(m)>>)
      <4> DEFINE front == done \o running \o buf
                 last  == <<JobOf(m)>>
      <4>1. front \in Seq(Jobs) /\ parked \in Seq(Jobs) /\ last \in Seq(Jobs)
        BY <2>2, <3>2
      <4> HIDE DEF front, last
      <4>2. (front \o parked) \o last = front \o (parked \o last)
        BY <4>1, ConcatAssociative
      <4>3. QED
        BY <4>2 DEF front, last
    <3>4. QED
      BY <1>0, <3>1, <3>3
  <2>4. Running' = Running
    BY <1>3, <1>6 DEF Park
  <2>5. QED
    BY <1>0, <1>6, <2>3, <2>4 DEF Park, OrderInv, ProcessedInOrder
<1>7. ASSUME NEW m \in Monitors, TakeJob(m)
      PROVE  Running = {} /\ running = <<>> /\ Running' = {Head(buf)}
  <2>1. Running = {}
    <3>1. \A n \in Monitors : worker[n] # "busy"
      BY <1>7 DEF TakeJob, OneWorker
    <3>2. QED
      BY <3>1 DEF Running
  <2>2. \A n \in Monitors : worker'[n] = "busy" <=> n = m
    BY <1>7 DEF TakeJob, OneWorker, TypeOK
  <2>3. current'[m] = Head(buf)
    BY <1>7 DEF TakeJob, TypeOK
  <2>4. QED
    BY <1>0, <2>1, <2>2, <2>3 DEF Running
<1>8. ASSUME NEW m \in Monitors, Receive(m) PROVE OrderInv'
  <2>1. TakeJob(m) /\ buf # <<>> /\ parked = <<>> /\ buf' = Tail(buf)
        /\ UNCHANGED <<parked, done, arrived>>
    BY <1>8 DEF Receive, TakeJob
  <2>2. arrived = done \o buf
    <3>1. done \o <<>> = done /\ (done \o buf) \o <<>> = done \o buf
      BY ConcatProperties, ConcatEmptySeq DEF TypeOK
    <3>2. QED
      BY <1>0, <1>7, <2>1, <3>1
  <2>3. arrived = (done \o <<Head(buf)>>) \o Tail(buf)
    BY <2>1, <2>2, MoveHead DEF TypeOK
  <2>4. arrived' = done' \o <<Head(buf)>> \o buf' \o parked'
    BY <2>1, <2>3, HeadThenTail, ConcatProperties, ConcatEmptySeq DEF TypeOK
  <2>5. Running' = {Head(buf)} /\ <<Head(buf)>> # <<>>
    BY <1>7, <2>1
  <2>6. QED
    BY <2>1, <2>4, <2>5 DEF OrderInv, ProcessedInOrder
<1>9. ASSUME NEW m \in Monitors, ReceiveAndUnpark(m) PROVE OrderInv'
  <2>1. TakeJob(m) /\ buf # <<>> /\ parked # <<>>
        /\ buf' = Append(Tail(buf), Head(parked)) /\ parked' = Tail(parked)
        /\ UNCHANGED <<done, arrived>>
    BY <1>9 DEF ReceiveAndUnpark, TakeJob
  <2>2. arrived = (done \o buf) \o parked
    <3>1. done \o <<>> = done
      BY ConcatEmptySeq DEF TypeOK
    <3>2. QED
      BY <1>0, <1>7, <2>1, <3>1
  <2>3. done \o buf = (done \o <<Head(buf)>>) \o Tail(buf)
    BY <2>1, MoveHead DEF TypeOK
  <2>4. Head(parked) \in Jobs /\ Tail(buf) \in Seq(Jobs) /\ <<Head(buf)>> \in Seq(Jobs)
    BY <2>1, HeadThenTail DEF TypeOK
  <2>5. done \o <<Head(buf)>> \in Seq(Jobs) /\ parked \in Seq(Jobs)
    BY <2>4, ConcatProperties DEF TypeOK
  <2>6. arrived = ((done \o <<Head(buf)>>) \o buf') \o parked'
    <3>1. arrived = ((done \o <<Head(buf)>>) \o Tail(buf)) \o parked
      BY <2>2, <2>3
    <3>2. buf' = Tail(buf) \o <<Head(parked)>>
      BY <2>1, <2>4, AppendIsConcat
    <3>3. ((done \o <<Head(buf)>>) \o Tail(buf)) \o parked
            = ((done \o <<Head(buf)>>) \o (Tail(buf) \o <<Head(parked)>>)) \o Tail(parked)
      <4> DEFINE front == done \o <<Head(buf)>>
                 rest == Tail(buf)
      <4>1. front \in Seq(Jobs) /\ rest \in Seq(Jobs) /\ parked \in Seq(Jobs)
        BY <2>4, <2>5
      <4> HIDE DEF front, rest
      <4>2. (front \o rest) \o parked
              = (front \o (rest \o <<Head(parked)>>)) \o Tail(parked)
        BY <2>1, <4>1, MoveHeadIntoBuffer, SMTT(20)
      <4>3. QED
        BY <4>2 DEF front, rest
    <3>4. QED
      BY <2>1, <3>1, <3>2, <3>3
  <2>7. Running' = {Head(buf)} /\ <<Head(buf)>> # <<>>
    BY <1>7, <2>1
  <2>8. Len(buf') = Cap
    BY <2>1, <2>4, AppendProperties, HeadTailProperties DEF OrderInv, TypeOK
  <2>9. QED
    BY <2>1, <2>6, <2>7, <2>8 DEF OrderInv, ProcessedInOrder
<1>10. ASSUME NEW m \in Monitors, Finish(m) PROVE OrderInv'
  <2>1. Running = {current[m]} /\ current[m] \in Jobs
    <3>1. {n \in Monitors : worker[n] = "busy"} = {m}
      BY <1>10 DEF Finish, OneWorker
    <3>2. QED
      BY <1>10, <3>1 DEF Running, Finish, TypeOK
  <2>2. running = <<current[m]>>
    BY <1>0, <2>1
  <2>3. done' = done \o running
    BY <1>10, <2>1, <2>2, AppendIsConcat DEF Finish, TypeOK
  <2>4. Running' = {}
    <3>1. \A n \in Monitors : worker'[n] # "busy"
      BY <1>10 DEF Finish, OneWorker, TypeOK
    <3>2. QED
      BY <3>1 DEF Running
  <2>5. done' \o <<>> = done'
    BY <1>1, <2>3, ConcatProperties, ConcatEmptySeq DEF TypeOK
  <2>6. QED
    BY <1>0, <1>10, <2>3, <2>4, <2>5 DEF Finish, OrderInv, ProcessedInOrder
<1>11. ASSUME NEW m \in Monitors, WorkerExit(m) PROVE OrderInv'
  <2>1. Running' = Running
    BY <1>11 DEF WorkerExit, Running, TypeOK
  <2>2. QED
    BY <1>2, <1>11, <2>1 DEF WorkerExit
<1>12. CASE Shutdown \/ UNCHANGED vars
  BY <1>2, <1>3, <1>12 DEF Shutdown, vars
<1>13. QED
  BY <1>4, <1>5, <1>6, <1>8, <1>9, <1>10, <1>11, <1>12
  DEF Next, MonitorStep, WorkerStep, Quiescent

\* The order of one monitor's jobs always holds.
LEMMA OrderInvHolds == Spec => []OrderInv
<1>1. Init => OrderInv
  BY EmptySeq, ConcatEmptySeq DEF Init, OrderInv, ProcessedInOrder, Running
<1>2. QED
  BY <1>1, OrderStep, WorkerInvHolds, OneWorkerHolds, TypeCorrect, PTL DEF Spec

(* Jobs are processed one at a time in the order they reached the channel,  *)
(* none lost and none processed twice, whatever the capacity.               *)
THEOREM ProcessedInOrderHolds == Spec => []ProcessedInOrder
<1>1. OrderInv => ProcessedInOrder
  BY DEF OrderInv
<1>2. QED
  BY <1>1, OrderInvHolds, PTL

-----------------------------------------------------------------------------
(* The line that the buffer and the blocked senders form.                   *)

(* The jobs of one monitor reach the channel in the order it polled them,   *)
(* and one it is still sending comes after those that did.                  *)
ArrivalInv ==
    /\ \A i, j \in DOMAIN arrived :
         arrived[i].by = arrived[j].by /\ i < j => arrived[i].n < arrived[j].n
    /\ \A i \in DOMAIN arrived : arrived[i].n <= count[arrived[i].by]
    /\ \A i \in DOMAIN arrived :
         pc[arrived[i].by] = "sending" => arrived[i].n < count[arrived[i].by]

\* The parts of an arrived job.
LEMMA ArrivedType ==
    ASSUME TypeOK, NEW i \in DOMAIN arrived
    PROVE  /\ arrived[i].by \in Monitors /\ arrived[i].n \in Nat
           /\ count[arrived[i].by] \in Nat
<1>1. arrived[i] \in Jobs
  BY DEF TypeOK
<1>2. arrived[i].by \in Monitors /\ arrived[i].n \in 1 .. MaxJobs
  BY <1>1 DEF Jobs
<1>3. \A k \in Monitors : count[k] \in 0 .. MaxJobs
  BY DEF TypeOK
<1>4. QED
  BY <1>2, <1>3

\* What reaches the channel is the job its monitor is sending.
LEMMA ArrivalAppended ==
    ASSUME TypeOK, ArrivalInv, NEW m \in Monitors, pc[m] = "sending",
           arrived' = Append(arrived, JobOf(m)), count' = count,
           pc' \in [Monitors -> {"idle", "sending", "parked"}], pc'[m] # "sending",
           \A k \in Monitors : k # m => pc'[k] = pc[k]
    PROVE  ArrivalInv'
<1> DEFINE new == Len(arrived) + 1
<1>1. /\ JobOf(m) \in Jobs /\ arrived \in Seq(Jobs)
      /\ JobOf(m).by = m /\ JobOf(m).n = count[m]
  BY DEF TypeOK, JobOf
<1>2. /\ DOMAIN arrived' = DOMAIN arrived \cup {new}
      /\ DOMAIN arrived = 1 .. Len(arrived) /\ Len(arrived) \in Nat
      /\ arrived'[new] = JobOf(m)
      /\ \A i \in DOMAIN arrived : arrived'[i] = arrived[i]
  BY <1>1, AppendProperties
<1>3. \A i \in DOMAIN arrived :
        /\ arrived[i].by \in Monitors /\ arrived[i].n \in Nat
        /\ count[arrived[i].by] \in Nat
  BY ArrivedType
<1>4. \A i \in DOMAIN arrived : arrived[i].by = m => arrived[i].n < count[m]
  BY <1>3 DEF ArrivalInv
<1>5. \A i, j \in DOMAIN arrived' :
        arrived'[i].by = arrived'[j].by /\ i < j => arrived'[i].n < arrived'[j].n
  BY <1>1, <1>2, <1>3, <1>4 DEF ArrivalInv
<1>6. \A i \in DOMAIN arrived' : arrived'[i].n <= count'[arrived'[i].by]
  BY <1>1, <1>2, <1>3 DEF ArrivalInv, TypeOK
<1>7. \A i \in DOMAIN arrived' :
        pc'[arrived'[i].by] = "sending" => arrived'[i].n < count'[arrived'[i].by]
  <2>1. \A i \in DOMAIN arrived : arrived[i].by # m => pc'[arrived[i].by] = pc[arrived[i].by]
    BY <1>3
  <2>2. QED
    BY <1>1, <1>2, <1>3, <2>1, SMTT(20) DEF ArrivalInv
<1>8. QED
  BY <1>5, <1>6, <1>7 DEF ArrivalInv

\* Every other step leaves what arrived alone, counts on, and brings a monitor
\* to a send only with a job of its own.
LEMMA ArrivalKept ==
    ASSUME TypeOK, TypeOK', ArrivalInv, arrived' = arrived,
           \A k \in Monitors :
               /\ count[k] <= count'[k]
               /\ pc'[k] = "sending" => pc[k] = "sending" \/ count[k] < count'[k]
    PROVE  ArrivalInv'
<1>1. \A i \in DOMAIN arrived :
        /\ arrived[i].by \in Monitors /\ arrived[i].n \in Nat
        /\ count[arrived[i].by] \in Nat /\ count'[arrived[i].by] \in Nat
  <2>1. \A k \in Monitors : count'[k] \in Nat
    BY DEF TypeOK
  <2>2. QED
    BY <2>1, ArrivedType
<1>2. QED
  BY <1>1 DEF ArrivalInv

\* The order in which jobs arrived always holds.
LEMMA ArrivalInvHolds == Spec => []ArrivalInv
<1>1. Init => ArrivalInv
  BY DEF Init, ArrivalInv
<1>2. TypeOK /\ TypeOK' /\ ArrivalInv /\ [Next]_vars => ArrivalInv'
  <2> SUFFICES ASSUME TypeOK, TypeOK', ArrivalInv, [Next]_vars PROVE ArrivalInv'
    OBVIOUS
  <2>0. \A k \in Monitors : count[k] \in Nat
    BY DEF TypeOK
  <2>1. ASSUME NEW m \in Monitors, Send(m) \/ Park(m) PROVE ArrivalInv'
    BY <2>1, ArrivalAppended DEF Send, Park, TypeOK
  <2>2. ASSUME NEW m \in Monitors, EnqueueDropped(m) \/ Enqueue(m) PROVE ArrivalInv'
    <3>1. /\ arrived' = arrived
          /\ count' = [count EXCEPT ![m] = @ + 1]
          /\ \A k \in Monitors : k # m => pc'[k] = pc[k]
      BY <2>2 DEF EnqueueDropped, Enqueue, TypeOK
    <3>2. QED
      BY <2>0, <3>1, ArrivalKept, SMTT(20) DEF TypeOK
  <2>3. ASSUME NEW m \in Monitors, SendPanics(m) \/ Finish(m) \/ WorkerExit(m)
        PROVE  ArrivalInv'
    BY <2>0, <2>3, ArrivalKept DEF SendPanics, Finish, WorkerExit
  <2>4. ASSUME NEW m \in Monitors, Receive(m) \/ ReceiveAndUnpark(m) PROVE ArrivalInv'
    <3>1. /\ arrived' = arrived /\ count' = count
          /\ \A k \in Monitors : pc'[k] = "sending" => pc[k] = "sending"
      BY <2>4, SMTT(20) DEF Receive, ReceiveAndUnpark, TakeJob, TypeOK
    <3>2. QED
      BY <2>0, <3>1, ArrivalKept
  <2>5. CASE Shutdown \/ UNCHANGED vars
    BY <2>0, <2>5, ArrivalKept DEF Shutdown, vars
  <2>6. QED
    BY <2>1, <2>2, <2>3, <2>4, <2>5 DEF Next, MonitorStep, WorkerStep, Quiescent
<1>3. QED
  BY <1>1, <1>2, TypeCorrect, PTL DEF Spec

\* Two parts of a line.
Join(s, t) == s \o t

\* Joining parts of a line does not depend on where one starts.
LEMMA JoinAssociates ==
    ASSUME NEW S, NEW s \in Seq(S), NEW t \in Seq(S), NEW u \in Seq(S)
    PROVE  Join(s, t) \in Seq(S) /\ Join(Join(s, t), u) = Join(s, Join(t, u))
<1>1. Join(s, t) \in Seq(S)
  BY DEF Join
<1>2. Join(Join(s, t), u) = Join(s, Join(t, u))
  BY DEF Join
<1>3. QED
  BY <1>1, <1>2

\* Of four parts of a line, the first is followed by the other three.
LEMMA FirstOfFour ==
    ASSUME NEW S, NEW a \in Seq(S), NEW b \in Seq(S), NEW c \in Seq(S), NEW d \in Seq(S)
    PROVE  /\ Join(Join(b, c), d) \in Seq(S)
           /\ Join(Join(Join(a, b), c), d) = Join(a, Join(Join(b, c), d))
<1>1. Join(b, c) \in Seq(S) /\ Join(Join(a, b), c) = Join(a, Join(b, c))
  BY JoinAssociates
<1>2. /\ Join(Join(b, c), d) \in Seq(S)
      /\ Join(Join(a, Join(b, c)), d) = Join(a, Join(Join(b, c), d))
  BY <1>1, JoinAssociates
<1>3. QED
  BY <1>1, <1>2

(* The agent finishes the messages of one bot in the order the bot polled   *)
(* them, however many monitors contend for a full channel.                  *)
THEOREM OrderOfOneBotHolds == Spec => []OrderOfOneBot
<1>1. TypeOK /\ ProcessedInOrder /\ ArrivalInv => OrderOfOneBot
  <2> SUFFICES ASSUME TypeOK, ProcessedInOrder, ArrivalInv PROVE OrderOfOneBot
    OBVIOUS
  <2>1. PICK running \in {<<>>} \cup {<<j>> : j \in Running} :
          arrived = done \o running \o buf \o parked
    BY DEF ProcessedInOrder
  <2>2. running \in Seq(Jobs)
    <3>1. Running \subseteq Jobs
      BY DEF TypeOK, Running
    <3>2. QED
      BY <2>1, <3>1, EmptySeq, OneElementSeq
  <2> DEFINE rest == running \o buf \o parked
  <2>3. rest \in Seq(Jobs) /\ arrived = done \o rest
    <3>1. /\ done \in Seq(Jobs) /\ running \in Seq(Jobs)
          /\ buf \in Seq(Jobs) /\ parked \in Seq(Jobs)
      BY <2>2 DEF TypeOK
    <3>2. arrived = Join(Join(Join(done, running), buf), parked)
      BY <2>1 DEF Join
    <3>3. rest = Join(Join(running, buf), parked)
      BY DEF Join
    <3> HIDE DEF rest
    <3>4. rest \in Seq(Jobs) /\ arrived = Join(done, rest)
      BY <3>1, <3>2, <3>3, FirstOfFour
    <3>5. QED
      BY <3>4 DEF Join
  <2> HIDE DEF rest
  <2>4. \A i \in DOMAIN done : i \in DOMAIN arrived /\ arrived[i] = done[i]
    BY <2>3, ConcatProperties DEF TypeOK
  <2>5. QED
    BY <2>4 DEF OrderOfOneBot, ArrivalInv
<1>2. QED
  BY <1>1, TypeCorrect, ProcessedInOrderHolds, ArrivalInvHolds, PTL

\* Appending to the second part appends to the whole.
LEMMA JoinEnd ==
    ASSUME NEW S, NEW s \in Seq(S), NEW t \in Seq(S), NEW e \in S
    PROVE  s \o Append(t, e) = Append(s \o t, e)
<1>1. Append(t, e) = t \o <<e>> /\ <<e>> \in Seq(S)
  BY AppendIsConcat, OneElementSeq
<1>2. s \o t \in Seq(S)
  BY ConcatProperties
<1>3. Append(s \o t, e) = (s \o t) \o <<e>>
  BY <1>2, AppendIsConcat
<1>4. (s \o t) \o <<e>> = s \o (t \o <<e>>)
  BY <1>1, ConcatAssociative
<1>5. QED
  BY <1>1, <1>3, <1>4

\* The head of the first part is the head of the whole.
LEMMA HeadOfLine ==
    ASSUME NEW S, NEW s \in Seq(S), NEW t \in Seq(S), s # <<>>
    PROVE  /\ s \o t # <<>>
           /\ Head(s \o t) = Head(s)
           /\ Tail(s \o t) = Tail(s) \o t
<1>1. /\ s \o t \in Seq(S) /\ Len(s \o t) = Len(s) + Len(t)
      /\ \A i \in 1 .. Len(s) + Len(t) :
           (s \o t)[i] = IF i <= Len(s) THEN s[i] ELSE t[i - Len(s)]
  BY ConcatProperties
<1>2. /\ Len(s) \in Nat \ {0} /\ Len(t) \in Nat
      /\ Tail(s) \in Seq(S) /\ Len(Tail(s)) = Len(s) - 1
  BY HeadTailProperties, EmptySeq
<1>3. s \o t # <<>> /\ Head(s \o t) = Head(s)
  BY <1>1, <1>2
<1>4. /\ Tail(s \o t) \in Seq(S) /\ Len(Tail(s \o t)) = Len(s) + Len(t) - 1
      /\ \A i \in 1 .. Len(s) + Len(t) - 1 : Tail(s \o t)[i] = (s \o t)[i + 1]
  BY <1>1, <1>2, <1>3, HeadTailProperties
<1>5. /\ Tail(s) \o t \in Seq(S) /\ Len(Tail(s) \o t) = Len(s) + Len(t) - 1
      /\ \A i \in 1 .. Len(s) + Len(t) - 1 :
           (Tail(s) \o t)[i] = IF i <= Len(s) - 1 THEN Tail(s)[i] ELSE t[i - (Len(s) - 1)]
  BY <1>2, ConcatProperties
<1>6. \A i \in 1 .. Len(s) - 1 : Tail(s)[i] = s[i + 1]
  BY <1>2, HeadTailProperties
<1>7. ASSUME NEW i \in 1 .. Len(s) + Len(t) - 1
      PROVE  Tail(s \o t)[i] = (Tail(s) \o t)[i]
  <2>1. Tail(s \o t)[i] = IF i + 1 <= Len(s) THEN s[i + 1] ELSE t[i + 1 - Len(s)]
    BY <1>1, <1>2, <1>4
  <2>2. CASE i + 1 <= Len(s)
    BY <1>2, <1>5, <1>6, <2>1, <2>2
  <2>3. CASE ~(i + 1 <= Len(s))
    BY <1>2, <1>5, <2>1, <2>3
  <2>4. QED
    BY <2>2, <2>3
<1>8. Tail(s \o t) = Tail(s) \o t
  BY <1>4, <1>5, <1>7, SeqEqual
<1>9. QED
  BY <1>3, <1>8

(* A receive starts the next job, and only when none runs.                  *)
LEMMA TakeJobRuns ==
    ASSUME TypeOK, OneWorker, NEW m \in Monitors, TakeJob(m)
    PROVE  Running = {} /\ Running' = {Head(buf)} /\ Phase' = Phase /\ Phase # "dead"
<1>1. Running = {}
  <2>1. \A n \in Monitors : worker[n] # "busy"
    BY DEF TakeJob, OneWorker
  <2>2. QED
    BY <2>1 DEF Running
<1>2. \A n \in Monitors : worker'[n] = "busy" <=> n = m
  BY DEF TakeJob, OneWorker, TypeOK
<1>3. current'[m] = Head(buf)
  BY DEF TakeJob, TypeOK
<1>4. Phase' = Phase /\ Phase # "dead"
  BY DEF TakeJob, Phase, Crashed
<1>5. QED
  BY <1>1, <1>2, <1>3, <1>4 DEF Running

(* The channel, the blocked senders and the worker implement the one line   *)
(* with one server that the README of the repository promises.              *)
THEOREM ServiceImplemented == Spec => ImplementsService
<1> DEFINE Line == buf \o parked
<1>1. Init => Service!Init
  BY ConcatEmptySeq, EmptySeq DEF Init, Service!Init, Running, Phase, Crashed
<1>2. TypeOK /\ WorkerInv /\ OrderInv /\ CloseInv /\ [Next]_vars
        => [Service!Next]_(Service!vars)
  <2> SUFFICES ASSUME TypeOK, WorkerInv, OrderInv, CloseInv, [Next]_vars
               PROVE  Service!Next \/ UNCHANGED <<Line, Running, Phase>>
    BY DEF Service!vars
  <2> OneWorker
    BY DEF WorkerInv
  <2>0. buf \in Seq(Jobs) /\ parked \in Seq(Jobs)
    BY DEF TypeOK
  <2>1. ASSUME UNCHANGED <<worker, current>> PROVE Running' = Running
    BY <2>1 DEF Running
  <2>2. ASSUME NEW m \in Monitors, EnqueueDropped(m) PROVE UNCHANGED <<Line, Running, Phase>>
    BY <2>1, <2>2 DEF EnqueueDropped, chanVars, workVars, Phase, Crashed
  <2>3. ASSUME NEW m \in Monitors, Enqueue(m) PROVE UNCHANGED <<Line, Running, Phase>>
    <3>1. \A n \in Monitors : worker'[n] = "busy" <=> worker[n] = "busy"
      <4>1. CASE workerStarted
        BY <2>3, <4>1 DEF Enqueue
      <4>2. CASE ~workerStarted
        BY <2>3, <4>2 DEF Enqueue, TypeOK, WorkerInv
      <4>3. QED
        BY <4>1, <4>2
    <3>2. QED
      BY <2>3, <3>1 DEF Enqueue, chanVars, Running, Phase, Crashed
  <2>4. ASSUME NEW m \in Monitors, Send(m) PROVE Service!Accept(JobOf(m)) /\ JobOf(m) \in Jobs
    <3>1. JobOf(m) \in Jobs
      BY <2>4 DEF Send, TypeOK
    <3>2. parked = <<>>
      BY <2>4 DEF Send, OrderInv, TypeOK
    <3>3. Append(buf, JobOf(m)) \in Seq(Jobs)
      BY <2>0, <3>1, AppendProperties
    <3>4. Line' = Append(Line, JobOf(m))
      BY <2>0, <2>4, <3>2, <3>3, ConcatEmptySeq DEF Send
    <3>5. Running' = Running /\ Phase = "open" /\ Phase' = Phase
      BY <2>1, <2>4 DEF Send, workVars, Phase, Crashed
    <3>6. QED
      BY <3>1, <3>4, <3>5 DEF Service!Accept
  <2>5. ASSUME NEW m \in Monitors, Park(m) PROVE Service!Accept(JobOf(m)) /\ JobOf(m) \in Jobs
    <3>1. JobOf(m) \in Jobs
      BY <2>5 DEF Park, TypeOK
    <3>2. Line' = Append(Line, JobOf(m))
      BY <2>0, <2>5, <3>1, JoinEnd DEF Park
    <3>3. Running' = Running /\ Phase = "open" /\ Phase' = Phase
      BY <2>1, <2>5 DEF Park, workVars, Phase, Crashed
    <3>4. QED
      BY <3>1, <3>2, <3>3 DEF Service!Accept
  <2>6. ASSUME NEW m \in Monitors, SendPanics(m)
        PROVE  Service!Die
    <3>1. Phase = "closed" /\ Phase' = "dead"
      BY <2>6 DEF SendPanics, Phase, Crashed
    <3>2. QED
      BY <2>1, <2>6, <3>1 DEF SendPanics, chanVars, workVars, Service!Die
  <2>7. ASSUME NEW m \in Monitors, Receive(m) PROVE Service!Begin
    <3>1. TakeJob(m) /\ buf # <<>> /\ Line' = Tail(buf) \o parked
      BY <2>7 DEF Receive, TakeJob
    <3>2. QED
      BY <2>0, <3>1, TakeJobRuns, HeadOfLine DEF Service!Begin
  <2>8. ASSUME NEW m \in Monitors, ReceiveAndUnpark(m) PROVE Service!Begin
    <3>1. TakeJob(m) /\ buf # <<>> /\ parked # <<>>
      BY <2>8 DEF ReceiveAndUnpark, TakeJob
    <3>2. Tail(buf) \in Seq(Jobs) /\ Head(parked) \in Jobs /\ Tail(parked) \in Seq(Jobs)
      BY <2>0, <3>1, HeadThenTail
    <3>3. Append(Tail(buf), Head(parked)) \o Tail(parked) = Tail(buf) \o parked
      <4>1. Append(Tail(buf), Head(parked)) = Tail(buf) \o <<Head(parked)>>
        BY <3>2, AppendIsConcat
      <4>2. Tail(buf) \o parked = (Tail(buf) \o <<Head(parked)>>) \o Tail(parked)
        BY <2>0, <3>1, <3>2, MoveHead
      <4>3. QED
        BY <4>1, <4>2
    <3>4. Line' = Tail(buf) \o parked
      BY <2>8, <3>3 DEF ReceiveAndUnpark
    <3>5. QED
      BY <2>0, <3>1, <3>4, TakeJobRuns, HeadOfLine DEF Service!Begin
  <2>9. ASSUME NEW m \in Monitors, Finish(m) PROVE Service!End
    <3>1. Running # {}
      BY <2>9 DEF Finish, Running
    <3>2. \A n \in Monitors : worker'[n] # "busy"
      BY <2>9 DEF Finish, OneWorker, TypeOK
    <3>3. Running' = {}
      BY <3>2 DEF Running
    <3>4. Phase # "dead" /\ Phase' = Phase
      BY <2>9 DEF Finish, chanVars, Phase, Crashed
    <3>5. QED
      BY <2>9, <3>1, <3>3, <3>4 DEF Finish, chanVars, Service!End
  <2>10. ASSUME NEW m \in Monitors, WorkerExit(m) PROVE UNCHANGED <<Line, Running, Phase>>
    <3>1. Running' = Running
      BY <2>10 DEF WorkerExit, Running, TypeOK
    <3>2. QED
      BY <2>10, <3>1 DEF WorkerExit, chanVars, Phase, Crashed
  <2>11. CASE Shutdown
    <3>1. Phase = "open" /\ Phase' \in {"closed", "dead"}
      BY <2>11 DEF Shutdown, Phase, Crashed, CloseInv
    <3>2. QED
      BY <2>1, <2>11, <3>1 DEF Shutdown, Service!Close, Service!Next
  <2>12. CASE UNCHANGED vars
    BY <2>1, <2>12 DEF vars, Phase, Crashed
  <2>13. QED
    <3>1. CASE \E m \in Monitors : MonitorStep(m)
      BY <2>2, <2>3, <2>4, <2>5, <2>6, <3>1 DEF MonitorStep, Service!Next
    <3>2. CASE \E m \in Monitors : WorkerStep(m)
      BY <2>7, <2>8, <2>9, <2>10, <3>2 DEF WorkerStep, Service!Next
    <3>3. QED
      BY <2>11, <2>12, <3>1, <3>2 DEF Next, Quiescent
<1>3. QED
  BY <1>1, <1>2, TypeCorrect, WorkerInvHolds, OrderInvHolds, CloseInvHolds, PTL
  DEF Spec, ImplementsService, Service!Spec
=============================================================================
