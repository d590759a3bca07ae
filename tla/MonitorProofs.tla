----------------------------- MODULE MonitorProofs -----------------------------
(***************************************************************************)
(* Proofs about Monitor for any number of messages, runs and crashes, any  *)
(* messages without an id and any limit of failures.                       *)
(***************************************************************************)
EXTENDS Monitor, TLAPS

USE MonitorAssumption DEF MonitorAssumption

-----------------------------------------------------------------------------
(* TypeOK and places *)

\* What a monitor's place says of its cursors; Init has cancelled every run
\* but the latest, and has not started any later one.
PlaceOf(r) ==
    /\ r > run => pc[r] = "none"
    /\ pc[r] = "none" => r > run
    /\ r < run => r \in cancelled
    /\ pc[r] \in {"none", "load", "stopped"} => buf[r] = 0
    /\ pc[r] \in {"save", "write"} => done[r] = buf[r] /\ done[r] <= next[r]
    /\ pc[r] = "write" => next[r] # 0
    /\ pc[r] = "handle" => done[r] <= next[r]

Places ==
    /\ initing => run < MaxRuns
    /\ \A r \in Runs : PlaceOf(r)

\* Cursors and run numbers are naturals within the feed and the runs there are.
LEMMA Numbers ==
  ASSUME TypeOK, NEW r \in Runs
  PROVE  /\ feed \in Nat /\ feed <= MaxMsgs
         /\ disk \in Nat /\ disk <= feed
         /\ run \in Nat /\ run <= MaxRuns /\ r \in Nat /\ r >= 1 /\ r <= MaxRuns
         /\ buf[r] \in Nat /\ buf[r] <= feed
         /\ next[r] \in Nat /\ next[r] <= feed
         /\ done[r] \in Nat /\ done[r] <= feed
BY DEF TypeOK, Cursors, Runs

\* A message in hand lies between what the run has done and what it polls next.
LEMMA InHandMsgs ==
  ASSUME TypeOK, NEW r \in Runs, NEW n \in InHand(r)
  PROVE  /\ n \in Msgs /\ pc[r] \in Holds
         /\ done[r] < n /\ n <= next[r]
BY Numbers DEF InHand, Msgs

(* The message a monitor handles is one the gateway has. *)
LEMMA HandledMessage ==
  ASSUME TypeOK, NEW r \in Runs, Handle(r)
  PROVE  /\ done[r] + 1 \in Msgs /\ done[r] + 1 \in 0 .. feed
         /\ handled' \in [Msgs -> 0 .. Often]
<1> DEFINE n == done[r] + 1
<1>1. n \in Msgs /\ n \in 0 .. feed
  BY Numbers DEF Handle, Msgs
<1>2. handled \in [Msgs -> 0 .. Often]
  BY DEF TypeOK
<1>3. handled' = handled \/ handled' = Count(n)
  BY DEF Handle
<1> HIDE DEF n
<1>4. (IF handled[n] = Often THEN Often ELSE handled[n] + 1) \in 0 .. Often
  BY <1>1, <1>2 DEF Often
<1>5. handled' \in [Msgs -> 0 .. Often]
  BY <1>2, <1>3, <1>4 DEF Count
<1>6. QED
  BY <1>1, <1>5 DEF n

\* A crash loses messages only.
LEMMA CrashLoses ==
  ASSUME TypeOK, Crash PROVE lost' \subseteq Msgs
<1> DEFINE L == {n \in UNION {InHand(r) : r \in Runs} : n <= disk}
<1>1. lost' = lost \cup L
  BY DEF Crash
<1>2. \A r \in Runs : \A n \in InHand(r) : n \in Msgs
  BY InHandMsgs
<1>3. L \subseteq Msgs
  BY <1>2
<1>4. QED
  BY <1>1, <1>3 DEF TypeOK

\* The count of failed polls stays below the limit that resets it.
LEMMA FailuresBelowLimit ==
  ASSUME TypeOK, NEW r \in Runs,
         PollFails(r) \/ failures' = [failures EXCEPT ![r] = 0]
  PROVE  failures' \in [Runs -> 0 .. maxConsecutiveFailures - 1]
<1> DEFINE F == 0 .. maxConsecutiveFailures - 1
<1>1. failures \in [Runs -> F] /\ 0 \in F
  BY DEF TypeOK
<1>2. CASE failures' = [failures EXCEPT ![r] = 0]
  BY <1>1, <1>2
<1>3. CASE PollFails(r) /\ ~(failures[r] + 1 >= maxConsecutiveFailures)
  <2>1. failures[r] + 1 \in F
    BY <1>1, <1>3
  <2>2. failures' = [failures EXCEPT ![r] = failures[r] + 1]
    BY <1>3 DEF PollFails
  <2>3. QED
    BY <1>1, <2>1, <2>2
<1>4. QED
  BY <1>2, <1>3 DEF PollFails

\* Every step leaves the variables their types.
LEMMA TypesInductive ==
  ASSUME TypeOK, Places, Next PROVE TypeOK'
<1> USE DEF Msgs, Cursors, Runs, Waits, Holds, TypeOK, Places, PlaceOf
<1>0. 0 \in 0 .. feed /\ 0 \in 0 .. maxConsecutiveFailures - 1
  OBVIOUS
<1>1. CASE Arrive
  <2>1. feed' \in Cursors /\ 0 .. feed \subseteq 0 .. feed'
    BY <1>1 DEF Arrive
  <2>2. QED
    BY <1>1, <2>1 DEF Arrive, procVars, ghostVars
<1>2. CASE SwapDedup
  BY <1>2 DEF SwapDedup, ghostVars
<1>3. CASE StartRun
  <2>1. run' \in 0 .. MaxRuns /\ run + 1 \in Runs /\ cancelled' \subseteq 1 .. run'
    <3>1. run \in Nat /\ run < MaxRuns /\ run' = run + 1
      BY <1>3 DEF StartRun
    <3>2. cancelled \subseteq 1 .. run /\ cancelled' = cancelled \cup ({run} \ {0})
      BY <1>3 DEF StartRun
    <3> HIDE DEF TypeOK, Places, PlaceOf
    <3>3. 1 .. run \subseteq 1 .. run + 1 /\ {run} \ {0} \subseteq 1 .. run + 1
      BY <3>1
    <3>4. run + 1 \in 0 .. MaxRuns /\ run + 1 \in 1 .. MaxRuns
      BY <3>1, MonitorAssumption DEF MonitorAssumption
    <3>5. QED
      BY <3>1, <3>2, <3>3, <3>4
  <2>2. pc' \in [Runs -> {"none", "load", "loop", "poll", "stopped"} \cup Waits \cup Holds]
    BY <1>3, <2>1 DEF StartRun, Goto
  <2>3. QED
    BY <1>3, <2>1, <2>2 DEF StartRun, ghostVars
<1>4. CASE Shutdown
  <2>1. cancelled' \subseteq 1 .. run'
    BY <1>4 DEF Shutdown
  <2>2. QED
    BY <1>4, <2>1 DEF Shutdown, ghostVars
<1>5. CASE Crash
  <2>1. crashes' \in 0 .. MaxCrashes /\ cancelled' \subseteq 1 .. run'
    BY <1>5 DEF Crash
  <2>2. lost' \subseteq Msgs /\ seen' \subseteq WithId \cap Msgs
    BY <1>5, CrashLoses DEF Crash
  <2>3. faults' \subseteq {"torn", "overlap", "unsaved", "cursorless"}
    BY <1>5 DEF Crash
  <2>4. pc' \in [Runs -> {"none", "load", "loop", "poll", "stopped"} \cup Waits \cup Holds]
    BY <1>5 DEF Crash
  <2>5. QED
    BY <1>0, <1>5, <2>1, <2>2, <2>3, <2>4 DEF Crash
<1>6. CASE Restart
  BY <1>6 DEF Restart, ghostVars
<1>7. ASSUME NEW r \in Runs, Load(r) PROVE TypeOK'
  BY <1>7 DEF Load, Goto, procVars, ghostVars
<1>8. ASSUME NEW r \in Runs, Stop(r) PROVE TypeOK'
  <2>1. failures' \in [Runs -> 0 .. maxConsecutiveFailures - 1]
    BY <1>8, FailuresBelowLimit DEF Stop, Return
  <2>2. pc' \in [Runs -> {"none", "load", "loop", "poll", "stopped"} \cup Waits \cup Holds]
    BY <1>8 DEF Stop, Goto, Return
  <2>3. QED
    BY <1>0, <1>8, <2>1, <2>2 DEF Stop, Return, procVars, ghostVars
<1>9. ASSUME NEW r \in Runs, BeginPoll(r) PROVE TypeOK'
  BY <1>9 DEF BeginPoll, Goto, procVars, ghostVars
<1>10. ASSUME NEW r \in Runs, PollCancelled(r) PROVE TypeOK'
  <2>1. failures' \in [Runs -> 0 .. maxConsecutiveFailures - 1]
    BY <1>10, FailuresBelowLimit DEF PollCancelled, Return
  <2>2. pc' \in [Runs -> {"none", "load", "loop", "poll", "stopped"} \cup Waits \cup Holds]
    BY <1>10 DEF PollCancelled, Goto, Return
  <2>3. QED
    BY <1>0, <1>10, <2>1, <2>2 DEF PollCancelled, Return, procVars, ghostVars
<1>11. ASSUME NEW r \in Runs, PollEmpty(r) PROVE TypeOK'
  <2>1. failures' \in [Runs -> 0 .. maxConsecutiveFailures - 1]
    BY <1>11, FailuresBelowLimit DEF PollEmpty
  <2>2. pc' \in [Runs -> {"none", "load", "loop", "poll", "stopped"} \cup Waits \cup Holds]
    BY <1>11 DEF PollEmpty, Goto
  <2>3. QED
    BY <1>0, <1>11, <2>1, <2>2 DEF PollEmpty, Return, procVars, ghostVars
<1>12. ASSUME NEW r \in Runs, PollFails(r) PROVE TypeOK'
  <2>1. failures' \in [Runs -> 0 .. maxConsecutiveFailures - 1]
    BY <1>12, FailuresBelowLimit
  <2>2. pc' \in [Runs -> {"none", "load", "loop", "poll", "stopped"} \cup Waits \cup Holds]
    BY <1>12 DEF PollFails, Goto
  <2>3. QED
    BY <1>12, <2>1, <2>2 DEF PollFails, procVars, ghostVars
<1>13. ASSUME NEW r \in Runs, SessionExpired(r) PROVE TypeOK'
  <2>1. failures' \in [Runs -> 0 .. maxConsecutiveFailures - 1]
    BY <1>13, FailuresBelowLimit DEF SessionExpired
  <2>2. pc' \in [Runs -> {"none", "load", "loop", "poll", "stopped"} \cup Waits \cup Holds]
    BY <1>13 DEF SessionExpired, Goto
  <2>3. QED
    BY <1>13, <2>1, <2>2 DEF SessionExpired, procVars, ghostVars
<1>14. ASSUME NEW r \in Runs, Resume(r) PROVE TypeOK'
  BY <1>14 DEF Resume, Goto, procVars, ghostVars
<1>15. ASSUME NEW r \in Runs, Truncate(r) PROVE TypeOK'
  <2>1. disk' \in 0 .. feed' /\ faults' \subseteq {"torn", "overlap", "unsaved", "cursorless"}
    BY <1>0, <1>15 DEF Truncate
  <2>2. pc' \in [Runs -> {"none", "load", "loop", "poll", "stopped"} \cup Waits \cup Holds]
    BY <1>15 DEF Truncate, Goto
  <2>3. QED
    BY <1>15, <2>1, <2>2 DEF Truncate, procVars
<1>16. ASSUME NEW r \in Runs, Write(r) PROVE TypeOK'
  BY <1>16 DEF Write, Goto, procVars, ghostVars
<1>17. ASSUME NEW r \in Runs, SaveFails(r) PROVE TypeOK'
  BY <1>17 DEF SaveFails, Goto, procVars, ghostVars
<1>18. ASSUME NEW r \in Runs, Handle(r) PROVE TypeOK'
  <2> DEFINE n == done[r] + 1
  <2>1. n \in 0 .. feed /\ n \in Msgs /\ handled' \in [Msgs -> 0 .. Often]
    BY <1>18, HandledMessage
  <2>2. seen' \subseteq WithId \cap Msgs
    BY <1>18, <2>1 DEF Handle
  <2>3. done' \in [Runs -> 0 .. feed]
    BY <1>18, <2>1 DEF Handle
  <2>4. QED
    BY <1>18, <2>1, <2>2, <2>3 DEF Handle, procVars
<1>19. ASSUME NEW r \in Runs, AllHandled(r) PROVE TypeOK'
  BY <1>0, <1>19 DEF AllHandled, Goto, procVars, ghostVars
<1>20. ASSUME NEW r \in Runs, NEW k \in Cursors, PollAnswered(r, k) PROVE TypeOK'
  <2>1. k \in 0 .. feed /\ buf[r] \in 0 .. feed
    BY <1>20 DEF PollAnswered
  <2>2. failures' \in [Runs -> 0 .. maxConsecutiveFailures - 1]
    BY <1>20, FailuresBelowLimit DEF PollAnswered
  <2>3. pc' \in [Runs -> {"none", "load", "loop", "poll", "stopped"} \cup Waits \cup Holds]
    BY <1>20 DEF PollAnswered, Goto
  <2>4. next' \in [Runs -> 0 .. feed] /\ done' \in [Runs -> 0 .. feed]
    BY <1>20, <2>1 DEF PollAnswered
  <2>5. QED
    BY <1>20, <2>2, <2>3, <2>4 DEF PollAnswered, procVars, ghostVars
<1>21. CASE Quiescent
  BY <1>21 DEF Quiescent, vars, procVars, ghostVars
<1>22. ASSUME NEW r \in Runs, NEW k \in Cursors, PollWithoutCursor(r, k) PROVE TypeOK'
  <2>1. k \in 0 .. feed /\ buf[r] \in 0 .. feed
    BY <1>22 DEF PollWithoutCursor
  <2>2. failures' \in [Runs -> 0 .. maxConsecutiveFailures - 1]
    BY <1>22, FailuresBelowLimit DEF PollWithoutCursor
  <2>3. pc' \in [Runs -> {"none", "load", "loop", "poll", "stopped"} \cup Waits \cup Holds]
    BY <1>22 DEF PollWithoutCursor, Goto
  <2>4. next' \in [Runs -> 0 .. feed] /\ done' \in [Runs -> 0 .. feed]
    BY <1>22, <2>1 DEF PollWithoutCursor
  <2>5. QED
    BY <1>22, <2>2, <2>3, <2>4 DEF PollWithoutCursor, procVars
<1>23. QED
  BY <1>1, <1>2, <1>3, <1>4, <1>5, <1>6, <1>7, <1>8, <1>9, <1>10, <1>11, <1>12, <1>13, <1>14, <1>15, <1>16, <1>17, <1>18, <1>19, <1>20, <1>21, <1>22
  DEF Next, RunStep, PollStep, SaveStep

\* Every step leaves the counters fit for where each run stands.
LEMMA PlacesInductive ==
  ASSUME TypeOK, Places, Next PROVE Places'
<1> USE DEF Runs, Waits, Holds, TypeOK, Places, PlaceOf
<1>1. CASE Arrive
  BY <1>1 DEF Arrive, procVars, ghostVars
<1>2. CASE SwapDedup
  BY <1>2 DEF SwapDedup, ghostVars
<1>3. CASE StartRun
  <2>1. run' = run + 1 /\ run + 1 \in Runs /\ initing' = FALSE
    BY <1>3 DEF StartRun
  <2>2. \A r \in Runs : pc'[r] = IF r = run + 1 THEN "load" ELSE pc[r]
    BY <1>3 DEF StartRun, Goto
  <2>3. \A r \in Runs : r < run + 1 => r \in cancelled'
    <3>1. run \in Nat /\ cancelled' = cancelled \cup ({run} \ {0})
      BY <1>3 DEF StartRun
    <3>2. \A r \in Runs : r < run => r \in cancelled
      OBVIOUS
    <3> HIDE DEF TypeOK, Places, PlaceOf
    <3>3. ASSUME NEW r \in Runs, r < run + 1 PROVE r < run \/ (r = run /\ r # 0)
      BY <3>1, <3>3
    <3>4. QED
      BY <3>1, <3>2, <3>3
  <2>4. UNCHANGED <<buf, next, done>>
    BY <1>3 DEF StartRun
  <2>5. ASSUME NEW r \in Runs PROVE PlaceOf(r)'
    <3>1. run \in Nat /\ r \in Nat
      BY <1>3
    <3>2. CASE r = run + 1
      BY <2>1, <2>2, <2>3, <2>4, <3>1, <3>2
    <3>3. CASE r # run + 1
      <4>1. pc'[r] = pc[r] /\ (r > run + 1 <=> r > run)
        <5> HIDE DEF TypeOK, Places, PlaceOf
        <5>1. QED
          BY <2>2, <3>1, <3>3
      <4>2. QED
        BY <2>1, <2>3, <2>4, <4>1
    <3>4. QED
      BY <3>2, <3>3
  <2>6. QED
    BY <2>1, <2>5
<1>4. CASE Shutdown
  BY <1>4 DEF Shutdown, ghostVars
<1>5. CASE Crash
  BY <1>5 DEF Crash, InHand
<1>6. CASE Restart
  BY <1>6 DEF Restart, ghostVars
<1>7. ASSUME NEW r \in Runs, Load(r) PROVE Places'
  BY <1>7 DEF Load, Goto, procVars, ghostVars
<1>8. ASSUME NEW r \in Runs, Stop(r) PROVE Places'
  BY <1>8 DEF Stop, Goto, Return, procVars, ghostVars
<1>9. ASSUME NEW r \in Runs, BeginPoll(r) PROVE Places'
  BY <1>9 DEF BeginPoll, Goto, procVars, ghostVars
<1>10. ASSUME NEW r \in Runs, PollCancelled(r) PROVE Places'
  BY <1>10 DEF PollCancelled, Goto, Return, procVars, ghostVars
<1>11. ASSUME NEW r \in Runs, PollEmpty(r) PROVE Places'
  BY <1>11 DEF PollEmpty, Goto, procVars, ghostVars
<1>12. ASSUME NEW r \in Runs, PollFails(r) PROVE Places'
  <2>1. PICK place \in {"backoff", "retry"} : Goto(r, place)
    BY <1>12 DEF PollFails
  <2>2. pc[r] = "poll" /\ UNCHANGED <<procVars, buf, next, done>>
    BY <1>12 DEF PollFails
  <2>3. QED
    BY <2>1, <2>2 DEF Goto, procVars
<1>13. ASSUME NEW r \in Runs, SessionExpired(r) PROVE Places'
  BY <1>13 DEF SessionExpired, Goto, procVars, ghostVars
<1>14. ASSUME NEW r \in Runs, Resume(r) PROVE Places'
  BY <1>14 DEF Resume, Goto, procVars, ghostVars
<1>15. ASSUME NEW r \in Runs, Truncate(r) PROVE Places'
  BY <1>15 DEF Truncate, Goto, procVars, ghostVars
<1>16. ASSUME NEW r \in Runs, Write(r) PROVE Places'
  BY <1>16 DEF Write, Goto, procVars, ghostVars
<1>17. ASSUME NEW r \in Runs, SaveFails(r) PROVE Places'
  BY <1>17 DEF SaveFails, Goto, procVars, ghostVars
<1>18. ASSUME NEW r \in Runs, Handle(r) PROVE Places'
  BY <1>18 DEF Handle, Goto, procVars, ghostVars
<1>19. ASSUME NEW r \in Runs, AllHandled(r) PROVE Places'
  BY <1>19 DEF AllHandled, Goto, procVars, ghostVars
<1>20. ASSUME NEW r \in Runs, NEW k \in Cursors, PollAnswered(r, k) PROVE Places'
  BY <1>20, SMTT(20) DEF PollAnswered, Goto, procVars, ghostVars
<1>21. CASE Quiescent
  BY <1>21 DEF Quiescent, vars, procVars, ghostVars
<1>22. ASSUME NEW r \in Runs, NEW k \in Cursors, PollWithoutCursor(r, k) PROVE Places'
  <2>1. UNCHANGED <<procVars, buf>>
    BY <1>22 DEF PollWithoutCursor
  <2>2. pc[r] = "poll" /\ pc'[r] = "handle" /\ done'[r] <= next'[r]
    BY <1>22 DEF PollWithoutCursor, Goto
  <2>3. \A q \in Runs : q # r => pc'[q] = pc[q] /\ next'[q] = next[q] /\ done'[q] = done[q]
    BY <1>22 DEF PollWithoutCursor, Goto
  <2>4. QED
    BY <2>1, <2>2, <2>3 DEF procVars
<1>23. QED
  BY <1>1, <1>2, <1>3, <1>4, <1>5, <1>6, <1>7, <1>8, <1>9, <1>10, <1>11, <1>12, <1>13, <1>14, <1>15, <1>16, <1>17, <1>18, <1>19, <1>20, <1>21, <1>22
  DEF Next, RunStep, PollStep, SaveStep

\* So types and places always hold.
LEMMA TypesHold == Spec => [](TypeOK /\ Places)
<1>1. Init => TypeOK /\ Places
  <2> SUFFICES ASSUME Init PROVE TypeOK /\ Places
    OBVIOUS
  <2>1. /\ feed \in Cursors /\ disk \in 0 .. feed /\ 0 \in 0 .. feed
        /\ run \in 0 .. MaxRuns /\ crashes \in 0 .. MaxCrashes
        /\ 0 \in 0 .. maxConsecutiveFailures - 1
    BY DEF Init, Cursors
  <2>2. TypeOK
    <3>1. /\ pc \in [Runs -> {"none", "load", "loop", "poll", "stopped"} \cup Waits \cup Holds]
          /\ failures \in [Runs -> 0 .. maxConsecutiveFailures - 1]
          /\ handled \in [Msgs -> 0 .. Often]
      BY <2>1 DEF Init, Often
    <3>2. buf \in [Runs -> 0 .. feed] /\ next \in [Runs -> 0 .. feed] /\ done \in [Runs -> 0 .. feed]
      BY <2>1 DEF Init
    <3>3. /\ up \in BOOLEAN /\ initing \in BOOLEAN /\ shutdownDone \in BOOLEAN
          /\ cancelled = {} /\ seen = {} /\ lost = {} /\ faults = {}
      BY DEF Init
    <3>4. QED
      BY <2>1, <3>1, <3>2, <3>3 DEF TypeOK
  <2>3. Places
    BY DEF Init, Places, PlaceOf, Runs
  <2>4. QED
    BY <2>2, <2>3
<1>2. TypeOK /\ Places /\ [Next]_vars => (TypeOK /\ Places)'
  <2>1. CASE UNCHANGED vars
    BY <2>1 DEF vars, procVars, ghostVars, TypeOK, Places, PlaceOf
  <2>2. QED
    BY <2>1, TypesInductive, PlacesInductive
<1>3. QED
  BY <1>1, <1>2, PTL DEF Spec

(* Every variable has its type: cursors stay within what the gateway has,  *)
(* and a failure count below its limit (monitorLoop).                      *)
THEOREM TypeCorrect == Spec => []TypeOK
BY TypesHold, PTL

-----------------------------------------------------------------------------
(* Nothing skipped *)

SkipInv ==
    /\ NothingSkipped
    /\ \A n \in seen : handled[n] > 0

(* What the steps that handle, save or lose nothing have in common. *)
LEMMA QuietStep ==
  ASSUME TypeOK, SkipInv,
         UNCHANGED <<disk, next, done, handled, lost>>, seen' \subseteq seen,
         \A r \in Runs : pc'[r] \in Holds <=> pc[r] \in Holds,
         \A r \in Runs : pc'[r] \notin {"none", "stopped"} =>
            \/ buf'[r] \in {0, disk}
            \/ buf'[r] = buf[r] /\ pc[r] \notin {"none", "stopped"}
  PROVE  SkipInv'
<1>1. \A n : Accounted(n)' <=> Accounted(n)
  BY DEF Accounted, InHand
<1>2. \A n \in 1 .. disk' : Accounted(n)'
  BY <1>1 DEF SkipInv, NothingSkipped
<1>3. ASSUME NEW r \in Runs, pc'[r] \notin {"none", "stopped"}, NEW n \in 1 .. buf'[r]
      PROVE  Accounted(n)'
  BY <1>1, <1>3 DEF SkipInv, NothingSkipped
<1>4. QED
  BY <1>2, <1>3 DEF SkipInv, NothingSkipped

\* Goto moves one run.
LEMMA Moved ==
  ASSUME TypeOK, NEW r \in Runs, NEW place, Goto(r, place)
  PROVE  /\ \A q \in Runs : q # r => pc'[q] = pc[q]
         /\ pc'[r] = place
BY DEF TypeOK, Goto

\* A step that touches neither the disk nor a message leaves nothing skipped.
LEMMA QuietMove ==
  ASSUME TypeOK, SkipInv, NEW r \in Runs, NEW place, Goto(r, place),
         pc[r] \in {"load", "loop", "poll"} \cup Waits,
         place \in {"loop", "poll", "stopped"} \cup Waits,
         UNCHANGED <<disk, next, done, handled, lost, seen>>,
         \/ buf' = buf
         \/ buf' = [buf EXCEPT ![r] = 0]
         \/ buf' = [buf EXCEPT ![r] = disk]
  PROVE  SkipInv'
<1> USE DEF Waits, Holds
<1>1. \A q \in Runs : pc'[q] \in Holds <=> pc[q] \in Holds
  BY Moved
<1>2. buf'[r] \in {0, disk, buf[r]} /\ \A q \in Runs : q # r => buf'[q] = buf[q]
  BY DEF TypeOK
<1>3. \A q \in Runs : pc'[q] \notin {"none", "stopped"} =>
        \/ buf'[q] \in {0, disk}
        \/ buf'[q] = buf[q] /\ pc[q] \notin {"none", "stopped"}
  BY <1>2, Moved
<1>4. QED
  BY <1>1, <1>3, QuietStep

\* Every step leaves nothing skipped.
LEMMA SkipInvInductive ==
  ASSUME TypeOK, Places, SkipInv, Next PROVE SkipInv'
<1> USE DEF Waits, Holds
<1>1. CASE Arrive
  BY <1>1, QuietStep DEF Arrive, ghostVars
<1>2. CASE SwapDedup
  BY <1>2, QuietStep DEF SwapDedup, ghostVars
<1>3. CASE StartRun
  <2>1. pc \in [Runs -> {"none", "load", "loop", "poll", "stopped"} \cup Waits \cup Holds]
    BY DEF TypeOK
  <2>2. run + 1 \in Runs /\ pc[run + 1] = "none" /\ buf[run + 1] = 0
    <3>1. run \in Nat /\ run < MaxRuns
      BY <1>3 DEF TypeOK, Places, StartRun
    <3>2. QED
      BY <3>1 DEF Places, PlaceOf, Runs
  <2>3. pc' = [pc EXCEPT ![run + 1] = "load"]
    BY <1>3 DEF StartRun, Goto
  <2>4. \A r \in Runs : pc'[r] \in Holds <=> pc[r] \in Holds
    BY <2>1, <2>2, <2>3
  <2>5. \A r \in Runs : buf'[r] = 0 \/ (pc'[r] = pc[r] /\ buf'[r] = buf[r])
    BY <1>3, <2>1, <2>2, <2>3 DEF StartRun
  <2>6. QED
    BY <1>3, <2>4, <2>5, QuietStep DEF StartRun, ghostVars
<1>4. CASE Shutdown
  BY <1>4, QuietStep DEF Shutdown, ghostVars
<1>5. CASE Crash
  <2>1. \A r \in Runs : pc'[r] \in {"none", "stopped"} /\ InHand(r)' = {}
    BY <1>5 DEF Crash, InHand
  <2>2. ASSUME NEW n \in 1 .. disk PROVE Accounted(n)'
    <3>1. Accounted(n) /\ n <= disk
      BY DEF SkipInv, NothingSkipped, TypeOK
    <3>2. ASSUME NEW r \in Runs, n \in InHand(r) PROVE n \in lost'
      BY <1>5, <3>1, <3>2 DEF Crash
    <3>3. handled' = handled /\ lost \subseteq lost'
      BY <1>5 DEF Crash
    <3>4. QED
      BY <3>1, <3>2, <3>3 DEF Accounted
  <2>3. disk' = disk /\ seen' = {}
    BY <1>5 DEF Crash
  <2>4. QED
    BY <2>1, <2>2, <2>3 DEF SkipInv, NothingSkipped
<1>6. CASE Restart
  BY <1>6, QuietStep DEF Restart, ghostVars
<1>7. ASSUME NEW r \in Runs, Load(r) PROVE SkipInv'
  BY <1>7, QuietMove DEF Load, procVars, ghostVars
<1>8. ASSUME NEW r \in Runs, Stop(r) PROVE SkipInv'
  BY <1>8, QuietMove DEF Stop, Return, procVars, ghostVars
<1>9. ASSUME NEW r \in Runs, BeginPoll(r) PROVE SkipInv'
  BY <1>9, QuietMove DEF BeginPoll, procVars, ghostVars
<1>10. ASSUME NEW r \in Runs, PollCancelled(r) PROVE SkipInv'
  BY <1>10, QuietMove DEF PollCancelled, Return, procVars, ghostVars
<1>11. ASSUME NEW r \in Runs, PollEmpty(r) PROVE SkipInv'
  BY <1>11, QuietMove DEF PollEmpty, procVars, ghostVars
<1>12. ASSUME NEW r \in Runs, PollFails(r) PROVE SkipInv'
  BY <1>12, QuietMove DEF PollFails, procVars, ghostVars
<1>13. ASSUME NEW r \in Runs, SessionExpired(r) PROVE SkipInv'
  BY <1>13, QuietMove DEF SessionExpired, procVars, ghostVars
<1>14. ASSUME NEW r \in Runs, Resume(r) PROVE SkipInv'
  BY <1>14, QuietMove DEF Resume, procVars, ghostVars
<1>15. ASSUME NEW r \in Runs, Truncate(r) PROVE SkipInv'
  <2>1. pc[r] = "save" /\ pc'[r] = "write" /\ \A q \in Runs : q # r => pc'[q] = pc[q]
    BY <1>15, Moved DEF Truncate
  <2>2. \A n : Accounted(n)' <=> Accounted(n)
    BY <1>15, <2>1 DEF Truncate, Accounted, InHand
  <2>3. QED
    BY <1>15, <2>1, <2>2 DEF Truncate, SkipInv, NothingSkipped
<1>16. ASSUME NEW r \in Runs, Write(r) \/ SaveFails(r) PROVE SkipInv'
  <2>1. /\ pc[r] \in {"save", "write"} /\ pc'[r] = "handle" /\ buf'[r] = next[r]
        /\ \A q \in Runs : q # r => pc'[q] = pc[q] /\ buf'[q] = buf[q]
    BY <1>16, Moved DEF Write, SaveFails, TypeOK
  <2>2. UNCHANGED <<seen, next, done, handled, lost>> /\ disk' \in {disk, next[r]}
    BY <1>16 DEF Write, SaveFails
  <2>3. \A n : Accounted(n)' <=> Accounted(n)
    BY <2>1, <2>2 DEF Accounted, InHand
  <2>4. pc[r] \in {"save", "write"} /\ done[r] = buf[r]
    BY <1>16 DEF Write, SaveFails, Places, PlaceOf
  <2>5. ASSUME NEW n \in 1 .. next[r] PROVE Accounted(n)
    <3>1. n \in Nat /\ n >= 1 /\ n <= next[r] /\ next[r] \in Nat /\ buf[r] \in Nat
      BY Numbers
    <3>2. CASE n <= buf[r]
      <4>1. n \in 1 .. buf[r]
        BY <3>1, <3>2
      <4>2. QED
        BY <2>4, <4>1 DEF SkipInv, NothingSkipped
    <3>3. CASE ~(n <= buf[r])
      <4>1. n \in InHand(r)
        BY <2>4, <3>1, <3>3 DEF InHand
      <4>2. QED
        BY <4>1 DEF Accounted
    <3>4. QED
      BY <3>2, <3>3
  <2>6. QED
    BY <2>1, <2>2, <2>3, <2>5 DEF SkipInv, NothingSkipped
<1>17. ASSUME NEW r \in Runs, Handle(r) PROVE SkipInv'
  <2> DEFINE m == done[r] + 1
  <2>1. m \in Msgs /\ handled \in [Msgs -> 0 .. Often]
    BY <1>17, HandledMessage DEF TypeOK
  <2>2. handled'[m] > 0 /\ \A n \in Msgs : handled[n] > 0 => handled'[n] > 0
    <3>1. CASE m \in seen
      BY <1>17, <3>1 DEF Handle, SkipInv
    <3>2. CASE m \notin seen
      <4>1. handled' = Count(m)
        BY <1>17, <3>2 DEF Handle
      <4> HIDE DEF m
      <4>2. QED
        BY <2>1, <4>1 DEF Count, Often
    <3>3. QED
      BY <3>1, <3>2
  <2>3. ASSUME NEW q \in Runs, NEW n \in InHand(q), n # m PROVE n \in InHand(q)'
    <3>1. n \in Nat /\ pc[q] \in Holds /\ done[q] < n /\ n <= next[q]
      BY InHandMsgs DEF Msgs
    <3>2. pc' = pc /\ next' = next /\ done' = [done EXCEPT ![r] = m]
      BY <1>17 DEF Handle
    <3>3. done \in [Runs -> 0 .. feed]
      BY DEF TypeOK
    <3>4. done'[q] \in Nat /\ done'[q] < n /\ next[q] \in Nat
      BY <2>3, <3>1, <3>2, <3>3, Numbers
    <3>5. QED
      BY <3>1, <3>2, <3>4 DEF InHand
  <2>4. ASSUME NEW n \in Msgs, Accounted(n) PROVE Accounted(n)'
    <3>1. lost' = lost
      BY <1>17 DEF Handle
    <3>2. CASE n = m
      BY <2>2, <3>2 DEF Accounted
    <3>3. CASE n # m
      BY <2>2, <2>3, <2>4, <3>1, <3>3 DEF Accounted
    <3>4. QED
      BY <3>2, <3>3
  <2>5. 1 .. disk \subseteq Msgs /\ \A q \in Runs : 1 .. buf[q] \subseteq Msgs
    BY Numbers DEF Msgs
  <2>6. UNCHANGED <<disk, pc, buf>> /\ seen' \subseteq seen \cup {m}
    BY <1>17 DEF Handle
  <2>7. \A n \in seen' : n \in Msgs /\ handled'[n] > 0
    BY <2>1, <2>2, <2>6 DEF SkipInv, TypeOK
  <2>8. QED
    BY <2>4, <2>5, <2>6, <2>7 DEF SkipInv, NothingSkipped
<1>18. ASSUME NEW r \in Runs, AllHandled(r) PROVE SkipInv'
  <2>1. ASSUME NEW q \in Runs PROVE InHand(q)' = InHand(q)
    <3>1. CASE q # r
      BY <1>18, <3>1 DEF AllHandled, Goto, InHand, TypeOK
    <3>2. CASE q = r
      <4>1. InHand(r) = {}
        BY <1>18, Numbers DEF AllHandled, InHand
      <4>2. InHand(r)' = {}
        BY <1>18 DEF AllHandled, Goto, InHand, TypeOK
      <4>3. QED
        BY <3>2, <4>1, <4>2
    <3>3. QED
      BY <3>1, <3>2
  <2>2. \A n : Accounted(n)' <=> Accounted(n)
    BY <1>18, <2>1 DEF AllHandled, ghostVars, Accounted
  <2>3. pc[r] = "handle" /\ \A q \in Runs : q # r => pc'[q] = pc[q]
    BY <1>18, Moved DEF AllHandled
  <2>4. QED
    BY <1>18, <2>2, <2>3 DEF AllHandled, ghostVars, SkipInv, NothingSkipped
<1>19. ASSUME NEW r \in Runs, NEW k \in Cursors, PollAnswered(r, k) PROVE SkipInv'
  <2>1. \A q \in Runs : q # r => pc'[q] = pc[q] /\ InHand(q)' = InHand(q)
    BY <1>19 DEF PollAnswered, Goto, InHand, TypeOK
  <2>2. InHand(r) = {} /\ pc[r] = "poll"
    BY <1>19 DEF PollAnswered, InHand
  <2>3. \A n : Accounted(n) => Accounted(n)'
    BY <1>19, <2>1, <2>2 DEF PollAnswered, ghostVars, Accounted
  <2>4. QED
    BY <1>19, <2>1, <2>2, <2>3 DEF PollAnswered, ghostVars, SkipInv, NothingSkipped
<1>20. CASE Quiescent
  BY <1>20 DEF Quiescent, vars, procVars, ghostVars, SkipInv, NothingSkipped, Accounted, InHand
<1>21. ASSUME NEW r \in Runs, NEW k \in Cursors, PollWithoutCursor(r, k) PROVE SkipInv'
  <2>1. \A q \in Runs : q # r => pc'[q] = pc[q] /\ InHand(q)' = InHand(q)
    BY <1>21 DEF PollWithoutCursor, Goto, InHand, TypeOK
  <2>2. InHand(r) = {} /\ pc[r] = "poll"
    BY <1>21 DEF PollWithoutCursor, InHand
  <2>3. \A n : Accounted(n) => Accounted(n)'
    BY <1>21, <2>1, <2>2 DEF PollWithoutCursor, Accounted
  <2>4. QED
    BY <1>21, <2>1, <2>2, <2>3 DEF PollWithoutCursor, SkipInv, NothingSkipped
<1>22. QED
  BY <1>1, <1>2, <1>3, <1>4, <1>5, <1>6, <1>7, <1>8, <1>9, <1>10, <1>11, <1>12, <1>13, <1>14, <1>15, <1>16, <1>17, <1>18, <1>19, <1>20, <1>21
  DEF Next, RunStep, PollStep, SaveStep

(* No cursor, on disk or in a monitor, covers a message that was neither   *)
(* handled nor lost in a crash nor is in the hands of a monitor            *)
(* (monitorLoop saves the cursor before it handles what the cursor covers, *)
(* and finishes the batch when its run is cancelled).                      *)
THEOREM NothingSkippedHolds == Spec => []NothingSkipped
<1>1. Init => SkipInv
  BY DEF Init, SkipInv, NothingSkipped, Runs
<1>2. TypeOK /\ Places /\ SkipInv /\ [Next]_vars => SkipInv'
  <2>1. CASE UNCHANGED vars
    BY <2>1 DEF vars, procVars, ghostVars, SkipInv, NothingSkipped, Accounted, InHand
  <2>2. QED
    BY <2>1, SkipInvInductive
<1>3. SkipInv => NothingSkipped
  BY DEF SkipInv
<1>4. QED
  BY <1>1, <1>2, <1>3, TypesHold, PTL DEF Spec

-----------------------------------------------------------------------------
(* At most once *)

\* The end of what the cursor file covers or has covered: a writer has emptied
\* it, and its monitor knows what it held.
CoveredUpTo(c) ==
    /\ \A n \in Msgs : handled[n] > 0 => n <= c
    /\ \A r \in Runs : pc[r] = "handle" => next[r] <= c

\* Whoever writes the file is alone at it, and no later run has read it.
WriterAlone ==
    \A w \in Runs : pc[w] = "write" =>
        /\ \A r \in Runs : r > w => pc[r] \in {"none", "load"}
        /\ \A r \in Runs : r < w => pc[r] # "write"
        /\ CoveredUpTo(done[w])

FileCovers == (\A r \in Runs : pc[r] # "write") => CoveredUpTo(disk)

\* The run in force has the cursor of the file.
CursorCurrent ==
    \A r \in Runs :
        /\ r = run /\ r \notin cancelled
        /\ pc[r] \in {"loop", "poll", "save", "handle"} \cup Waits
        => buf[r] = disk

\* What a monitor still has to handle nobody has handled, and no two
\* monitors have the same message to handle.
Fresh ==
    /\ \A r \in Runs : pc[r] = "handle" => \A n \in done[r] + 1 .. next[r] : handled[n] = 0
    /\ \A q, r \in Runs : q # r /\ pc[q] = "handle" /\ pc[r] = "handle" =>
         next[q] <= done[r] \/ next[r] <= done[q] \/ done[q] = next[q] \/ done[r] = next[r]

FileOwned == WriterAlone /\ FileCovers /\ CursorCurrent /\ Fresh

OnceInv == faults = {} => AtMostOnce /\ FileOwned

(* A monitor that moves on without saving or handling anything. *)
LEMMA IdleStep ==
  ASSUME TypeOK, FileOwned, NEW r \in Runs, NEW place, Goto(r, place),
         pc[r] \in {"loop", "poll", "handle"} \cup Waits,
         place \in {"loop", "poll", "save", "stopped"} \cup Waits,
         UNCHANGED <<disk, run, cancelled, handled>>,
         \A q \in Runs : q # r =>
            buf'[q] = buf[q] /\ next'[q] = next[q] /\ done'[q] = done[q],
         place = "stopped" \/ buf'[r] = buf[r]
  PROVE  FileOwned'
<1> USE DEF Waits
<1>1. pc'[r] = place /\ \A q \in Runs : q # r => pc'[q] = pc[q]
  BY Moved
<1>2. \A c : CoveredUpTo(c) => (CoveredUpTo(c))'
  BY <1>1 DEF CoveredUpTo
<1>3. WriterAlone'
  <2> SUFFICES ASSUME NEW w \in Runs, pc'[w] = "write"
               PROVE  /\ \A q \in Runs : q > w => pc'[q] \in {"none", "load"}
                      /\ \A q \in Runs : q < w => pc'[q] # "write"
                      /\ (CoveredUpTo(done[w]))'
    BY DEF WriterAlone
  <2>1. w # r /\ pc[w] = "write" /\ done'[w] = done[w]
    BY <1>1
  <2>2. ~(r > w)
    BY <2>1 DEF FileOwned, WriterAlone
  <2>3. CoveredUpTo(done[w])
    BY <2>1 DEF FileOwned, WriterAlone
  <2>4. (CoveredUpTo(done[w]))'
    BY <1>1, <2>1, <2>3 DEF CoveredUpTo
  <2>5. QED
    BY <1>1, <2>1, <2>2, <2>4 DEF FileOwned, WriterAlone
<1>4. FileCovers'
  BY <1>1 DEF FileOwned, FileCovers, CoveredUpTo
<1>5. CursorCurrent'
  BY <1>1 DEF FileOwned, CursorCurrent
<1>6. Fresh'
  BY <1>1 DEF FileOwned, Fresh
<1>7. QED
  BY <1>3, <1>4, <1>5, <1>6 DEF FileOwned

\* Without faults, each message stays handled at most once, and the cursor file
\* with the run that may write it.
LEMMA OnceInvInductive ==
  ASSUME TypeOK, Places, faults' = {}, OnceInv, Next PROVE AtMostOnce' /\ FileOwned'
<1> USE DEF Waits
<1>1. faults = {} /\ FileOwned /\ \A n \in Msgs : handled[n] <= 1
  <2>1. faults \subseteq faults'
    BY DEF Next, Arrive, SwapDedup, StartRun, Shutdown, Crash, Restart, RunStep, Load, Stop,
           BeginPoll, PollStep, PollCancelled, PollAnswered, PollWithoutCursor,
           PollEmpty, PollFails,
           SessionExpired, Resume, SaveStep, Truncate, Write, SaveFails, Handle, AllHandled,
           Quiescent, vars, procVars, ghostVars
  <2>2. QED
    BY <2>1 DEF OnceInv, AtMostOnce
<1>2. UNCHANGED handled => AtMostOnce'
  BY <1>1 DEF AtMostOnce
<1>3. CASE Arrive \/ SwapDedup \/ Shutdown \/ Restart \/ Quiescent
  <2>1. /\ UNCHANGED <<disk, run, pc, buf, next, done, handled>>
        /\ cancelled \subseteq cancelled'
    BY <1>3 DEF Arrive, SwapDedup, Shutdown, Restart, Quiescent, vars, procVars, ghostVars
  <2>2. FileOwned'
    BY <1>1, <2>1 DEF FileOwned, WriterAlone, FileCovers, CursorCurrent, Fresh, CoveredUpTo
  <2>3. QED
    BY <1>2, <2>1, <2>2
<1>4. CASE StartRun
  <2>1. /\ run \in Nat /\ run + 1 \in Runs /\ run' = run + 1
        /\ UNCHANGED <<disk, buf, next, done, handled>>
    BY <1>4 DEF StartRun, ghostVars, TypeOK, Places, Runs
  <2>2. /\ pc[run + 1] = "none" /\ pc'[run + 1] = "load"
        /\ \A r \in Runs : r # run + 1 => pc'[r] = pc[r]
    BY <1>4, <2>1, Moved DEF StartRun, Places, PlaceOf
  <2>3. \A c : CoveredUpTo(c) => (CoveredUpTo(c))'
    BY <2>1, <2>2 DEF CoveredUpTo
  <2>4. WriterAlone'
    <3> SUFFICES ASSUME NEW w \in Runs, pc'[w] = "write"
                 PROVE  /\ \A q \in Runs : q > w => pc'[q] \in {"none", "load"}
                        /\ \A q \in Runs : q < w => pc'[q] # "write"
                        /\ (CoveredUpTo(done[w]))'
      BY DEF WriterAlone
    <3>1. pc[w] = "write" /\ CoveredUpTo(done[w])
      BY <1>1, <2>2 DEF FileOwned, WriterAlone
    <3>2. (CoveredUpTo(done[w]))'
      BY <2>1, <2>2, <3>1 DEF CoveredUpTo
    <3>3. QED
      BY <1>1, <2>2, <3>1, <3>2 DEF FileOwned, WriterAlone
  <2>5. FileCovers'
    BY <1>1, <2>1, <2>2 DEF FileOwned, FileCovers, CoveredUpTo
  <2>6. CursorCurrent'
    BY <1>1, <2>1, <2>2 DEF CursorCurrent
  <2>7. Fresh'
    BY <1>1, <2>1, <2>2 DEF FileOwned, Fresh
  <2>8. QED
    BY <1>2, <2>1, <2>4, <2>5, <2>6, <2>7 DEF FileOwned
<1>5. CASE Crash
  <2>1. \A r \in Runs : pc[r] # "write" /\ pc'[r] \in {"none", "stopped"}
    BY <1>5 DEF Crash
  <2>2. UNCHANGED <<disk, handled>>
    BY <1>5 DEF Crash
  <2>3. FileOwned'
    BY <1>1, <2>1, <2>2 DEF FileOwned, WriterAlone, FileCovers, CursorCurrent, Fresh, CoveredUpTo
  <2>4. QED
    BY <1>2, <2>2, <2>3
<1>6. ASSUME NEW r \in Runs, Load(r) PROVE AtMostOnce' /\ FileOwned'
  <2>1. /\ UNCHANGED <<disk, run, cancelled, next, done, handled>>
        /\ buf' = [buf EXCEPT ![r] = disk]
        /\ \A q \in Runs : pc[q] # "write"
    BY <1>1, <1>6 DEF Load, procVars
  <2>2. /\ pc[r] = "load" /\ pc'[r] = "loop"
        /\ \A q \in Runs : q # r => pc'[q] = pc[q]
    BY <1>6, Moved DEF Load
  <2>3. WriterAlone' /\ FileCovers'
    BY <1>1, <2>1, <2>2 DEF FileOwned, WriterAlone, FileCovers, CoveredUpTo
  <2>4. CursorCurrent'
    BY <1>1, <2>1, <2>2 DEF FileOwned, CursorCurrent, TypeOK
  <2>5. Fresh'
    BY <1>1, <2>1, <2>2 DEF FileOwned, Fresh
  <2>6. QED
    BY <1>2, <2>1, <2>3, <2>4, <2>5 DEF FileOwned
<1>7. ASSUME NEW r \in Runs, Stop(r) PROVE AtMostOnce' /\ FileOwned'
  BY <1>1, <1>2, <1>7, IdleStep DEF Stop, Return, procVars, ghostVars, TypeOK
<1>8. ASSUME NEW r \in Runs, BeginPoll(r) PROVE AtMostOnce' /\ FileOwned'
  BY <1>1, <1>2, <1>8, IdleStep DEF BeginPoll, procVars, ghostVars, TypeOK
<1>9. ASSUME NEW r \in Runs, PollCancelled(r) PROVE AtMostOnce' /\ FileOwned'
  BY <1>1, <1>2, <1>9, IdleStep DEF PollCancelled, Return, procVars, ghostVars, TypeOK
<1>10. ASSUME NEW r \in Runs, PollEmpty(r) PROVE AtMostOnce' /\ FileOwned'
  BY <1>1, <1>2, <1>10, IdleStep DEF PollEmpty, procVars, ghostVars, TypeOK
<1>11. ASSUME NEW r \in Runs, PollFails(r) PROVE AtMostOnce' /\ FileOwned'
  BY <1>1, <1>2, <1>11, IdleStep DEF PollFails, procVars, ghostVars, TypeOK
<1>12. ASSUME NEW r \in Runs, SessionExpired(r) PROVE AtMostOnce' /\ FileOwned'
  BY <1>1, <1>2, <1>12, IdleStep DEF SessionExpired, procVars, ghostVars, TypeOK
<1>13. ASSUME NEW r \in Runs, Resume(r) PROVE AtMostOnce' /\ FileOwned'
  BY <1>1, <1>2, <1>13, IdleStep DEF Resume, procVars, ghostVars, TypeOK
<1>14. ASSUME NEW r \in Runs, AllHandled(r) PROVE AtMostOnce' /\ FileOwned'
  BY <1>1, <1>2, <1>14, IdleStep DEF AllHandled, procVars, ghostVars, TypeOK
<1>15. ASSUME NEW r \in Runs, NEW k \in Cursors, PollAnswered(r, k) PROVE AtMostOnce' /\ FileOwned'
  BY <1>1, <1>2, <1>15, IdleStep DEF PollAnswered, procVars, ghostVars, TypeOK
<1>16. ASSUME NEW r \in Runs, r \notin cancelled, pc[r] \in {"save", "write"}
      PROVE  r = run /\ \A q \in Runs : q # r => pc[q] # "write" /\ q # run
  <2>1. r = run
    BY <1>16, Numbers DEF Places, PlaceOf
  <2>2. ASSUME NEW q \in Runs, q # r, pc[q] = "write" PROVE FALSE
    <3>1. q < r
      <4>1. ~(q > run)
        BY <2>2 DEF Places, PlaceOf
      <4>2. QED
        BY <2>1, <2>2, <4>1, Numbers
    <3>2. QED
      BY <1>1, <1>16, <2>2, <3>1 DEF FileOwned, WriterAlone, Runs
  <2>3. QED
    BY <2>1, <2>2
<1>17. ASSUME NEW r \in Runs, Truncate(r) PROVE AtMostOnce' /\ FileOwned'
  <2>1. /\ r \notin cancelled /\ disk' = 0
        /\ UNCHANGED <<run, cancelled, buf, next, done, handled>>
    BY <1>1, <1>17 DEF Truncate, procVars
  <2>2. /\ pc[r] = "save" /\ pc'[r] = "write"
        /\ \A q \in Runs : q # r => pc'[q] = pc[q]
    BY <1>17, Moved DEF Truncate
  <2>3. r = run /\ \A q \in Runs : q # r => pc'[q] # "write" /\ q # run
    BY <1>16, <2>1, <2>2
  <2>4. CoveredUpTo(done[r])
    <3>1. CoveredUpTo(disk)
      BY <1>1, <2>2, <2>3 DEF FileOwned, FileCovers
    <3>2. done[r] = disk
      BY <1>1, <2>1, <2>2, <2>3 DEF FileOwned, CursorCurrent, Places, PlaceOf
    <3>3. QED
      BY <3>1, <3>2
  <2>5. (CoveredUpTo(done[r]))'
    BY <2>1, <2>2, <2>4 DEF CoveredUpTo
  <2>6. \A q \in Runs : q > r => pc'[q] \in {"none", "load"}
    BY <2>2, <2>3 DEF Places, PlaceOf, Runs
  <2>7. WriterAlone'
    BY <2>3, <2>5, <2>6 DEF WriterAlone
  <2>8. FileCovers'
    BY <2>2 DEF FileCovers
  <2>9. CursorCurrent'
    BY <2>1, <2>2, <2>3 DEF CursorCurrent
  <2>10. Fresh'
    BY <1>1, <2>1, <2>2 DEF FileOwned, Fresh
  <2>11. QED
    BY <1>2, <2>1, <2>7, <2>8, <2>9, <2>10 DEF FileOwned
<1>18. ASSUME NEW r \in Runs, Write(r) PROVE AtMostOnce' /\ FileOwned'
  <2>1. /\ r \notin cancelled /\ disk' = next[r]
        /\ buf' = [buf EXCEPT ![r] = next[r]]
        /\ UNCHANGED <<run, cancelled, next, done, handled>>
    BY <1>1, <1>18 DEF Write, procVars
  <2>2. /\ pc[r] = "write" /\ pc'[r] = "handle"
        /\ \A q \in Runs : q # r => pc'[q] = pc[q]
    BY <1>18, Moved DEF Write
  <2>3. r = run /\ \A q \in Runs : q # r => pc'[q] # "write" /\ q # run
    BY <1>16, <2>1, <2>2
  <2>4. CoveredUpTo(done[r])
    BY <1>1, <2>2 DEF FileOwned, WriterAlone
  <2>5. done[r] \in Nat /\ next[r] \in Nat /\ done[r] <= next[r]
    BY <2>2, Numbers DEF Places, PlaceOf
  <2>6. (CoveredUpTo(disk))'
    <3>1. ASSUME NEW n \in Msgs, handled'[n] > 0 PROVE n <= disk'
      BY <2>1, <2>4, <2>5, <3>1 DEF CoveredUpTo, Msgs
    <3>2. ASSUME NEW q \in Runs, pc'[q] = "handle" PROVE next'[q] <= disk'
      <4>1. next[q] \in Nat
        BY Numbers
      <4>2. QED
        BY <2>1, <2>2, <2>4, <2>5, <3>2, <4>1 DEF CoveredUpTo
    <3>3. QED
      BY <3>1, <3>2 DEF CoveredUpTo
  <2>7. WriterAlone'
    BY <2>2, <2>3 DEF WriterAlone
  <2>8. CursorCurrent'
    BY <2>1, <2>3 DEF CursorCurrent, TypeOK
  <2>9. Fresh'
    <3>1. ASSUME NEW n \in done[r] + 1 .. next[r] PROVE handled[n] = 0
      <4>1. n \in Msgs /\ n > done[r]
        BY <2>5, Numbers DEF Msgs
      <4>2. ~(handled[n] > 0)
        BY <2>4, <2>5, <4>1 DEF CoveredUpTo, Msgs
      <4>3. QED
        BY <4>1, <4>2 DEF TypeOK
    <3>2. \A q \in Runs : q # r /\ pc[q] = "handle" => next[q] <= done[r]
      BY <2>4 DEF CoveredUpTo
    <3>3. QED
      BY <1>1, <2>1, <2>2, <3>1, <3>2 DEF FileOwned, Fresh
  <2>10. QED
    BY <1>2, <2>1, <2>6, <2>7, <2>8, <2>9 DEF FileOwned, FileCovers
<1>19. ASSUME NEW r \in Runs, SaveFails(r) PROVE AtMostOnce' /\ FileOwned'
  <2>1. /\ next[r] = 0
        /\ buf' = [buf EXCEPT ![r] = next[r]]
        /\ UNCHANGED <<disk, run, cancelled, next, done, handled>>
    BY <1>1, <1>19 DEF SaveFails, procVars
  <2>2. /\ pc[r] = "save" /\ pc'[r] = "handle"
        /\ \A q \in Runs : q # r => pc'[q] = pc[q]
    BY <1>19, <2>1, Moved DEF SaveFails, Places, PlaceOf
  <2>3. done[r] = 0 /\ buf[r] = 0 /\ buf' = buf
    <3>1. done[r] = buf[r] /\ done[r] <= 0 /\ done[r] \in Nat
      BY <2>1, <2>2, Numbers DEF Places, PlaceOf
    <3>2. QED
      BY <2>1, <3>1 DEF TypeOK
  <2>4. ASSUME NEW c \in Nat, CoveredUpTo(c) PROVE (CoveredUpTo(c))'
    BY <2>1, <2>2, <2>4 DEF CoveredUpTo
  <2>5. WriterAlone'
    <3> SUFFICES ASSUME NEW w \in Runs, pc'[w] = "write"
                 PROVE  /\ \A q \in Runs : q > w => pc'[q] \in {"none", "load"}
                        /\ \A q \in Runs : q < w => pc'[q] # "write"
                        /\ (CoveredUpTo(done[w]))'
      BY DEF WriterAlone
    <3>1. w # r /\ pc[w] = "write" /\ CoveredUpTo(done[w]) /\ ~(r > w)
      BY <1>1, <2>2 DEF FileOwned, WriterAlone
    <3>2. done[w] \in Nat
      BY Numbers
    <3>3. (CoveredUpTo(done[w]))'
      BY <2>1, <2>2, <3>1, <3>2 DEF CoveredUpTo
    <3>4. QED
      BY <1>1, <2>2, <3>1, <3>3 DEF FileOwned, WriterAlone
  <2>6. FileCovers'
    <3>1. ASSUME \A q \in Runs : pc'[q] # "write" PROVE (CoveredUpTo(disk))'
      <4>1. \A q \in Runs : pc[q] # "write"
        BY <2>2, <3>1
      <4>2. CoveredUpTo(disk) /\ disk \in Nat
        BY <1>1, <4>1, Numbers DEF FileOwned, FileCovers
      <4>3. QED
        BY <2>1, <2>2, <4>2 DEF CoveredUpTo
    <3>2. QED
      BY <3>1 DEF FileCovers
  <2>7. CursorCurrent'
    BY <1>1, <2>1, <2>2, <2>3 DEF FileOwned, CursorCurrent
  <2>8. Fresh'
    <3>1. \A n \in done[r] + 1 .. next[r] : handled[n] = 0
      BY <2>1, <2>3
    <3>2. QED
      BY <1>1, <2>1, <2>2, <2>3, <3>1 DEF FileOwned, Fresh
  <2>9. QED
    BY <1>2, <2>1, <2>5, <2>6, <2>7, <2>8 DEF FileOwned
<1>20. ASSUME NEW r \in Runs, Handle(r) PROVE AtMostOnce' /\ FileOwned'
  <2>0. PICK m \in Msgs : m = done[r] + 1
    BY <1>20, HandledMessage
  <2>1. /\ UNCHANGED <<disk, run, cancelled, pc, buf, next>>
        /\ done' = [done EXCEPT ![r] = m]
        /\ handled' = handled \/ handled' = Count(m)
        /\ pc[r] = "handle" /\ done[r] < next[r]
    BY <1>20, <2>0 DEF Handle, procVars
  <2>2. m \in Nat /\ done[r] \in Nat /\ next[r] \in Nat /\ done[r] < m /\ m <= next[r]
    BY <2>0, <2>1, Numbers DEF Msgs
  <2>3. handled[m] = 0
    <3>1. m \in done[r] + 1 .. next[r]
      BY <2>0, <2>2
    <3>2. QED
      BY <1>1, <2>1, <3>1 DEF FileOwned, Fresh
  <2>4. \A n \in Msgs : n # m => handled'[n] = handled[n]
    BY <2>1 DEF TypeOK, Count
  <2>5. handled'[m] <= 1
    BY <2>1, <2>3 DEF TypeOK, Count, Often
  <2>6. AtMostOnce'
    BY <1>1, <2>4, <2>5 DEF AtMostOnce
  <2>7. ASSUME NEW c \in Nat, CoveredUpTo(c)
        PROVE  /\ \A n \in Msgs : handled'[n] > 0 => n <= c
               /\ \A q \in Runs : pc'[q] = "handle" => next'[q] <= c
    <3>1. m <= c
      BY <2>1, <2>2, <2>7 DEF CoveredUpTo
    <3>2. QED
      BY <2>1, <2>4, <2>7, <3>1 DEF CoveredUpTo
  <2>8. WriterAlone'
    <3> SUFFICES ASSUME NEW w \in Runs, pc'[w] = "write"
                 PROVE  /\ \A q \in Runs : q > w => pc'[q] \in {"none", "load"}
                        /\ \A q \in Runs : q < w => pc'[q] # "write"
                        /\ (CoveredUpTo(done[w]))'
      BY DEF WriterAlone
    <3>1. w # r /\ pc[w] = "write" /\ CoveredUpTo(done[w]) /\ done[w] \in Nat
      BY <1>1, <2>1, Numbers DEF FileOwned, WriterAlone
    <3>2. done'[w] = done[w]
      BY <2>1, <3>1 DEF TypeOK
    <3>3. (CoveredUpTo(done[w]))'
      BY <2>7, <3>1, <3>2 DEF CoveredUpTo
    <3>4. QED
      BY <1>1, <2>1, <3>1, <3>3 DEF FileOwned, WriterAlone
  <2>9. FileCovers'
    <3>1. ASSUME \A q \in Runs : pc'[q] # "write" PROVE (CoveredUpTo(disk))'
      <4>1. CoveredUpTo(disk) /\ disk \in Nat
        BY <1>1, <2>1, <3>1, Numbers DEF FileOwned, FileCovers
      <4>2. QED
        BY <2>1, <2>7, <4>1 DEF CoveredUpTo
    <3>2. QED
      BY <3>1 DEF FileCovers
  <2>10. CursorCurrent'
    BY <1>1, <2>1 DEF FileOwned, CursorCurrent
  <2>11. \A q \in Runs : q # r => done'[q] = done[q]
    BY <2>1 DEF TypeOK
  <2>12. done'[r] = m
    BY <2>1 DEF TypeOK
  <2>13. ASSUME NEW q \in Runs, pc[q] = "handle", NEW n \in done'[q] + 1 .. next[q]
         PROVE  handled'[n] = 0
    <3>1. next[q] \in Nat /\ done[q] \in Nat /\ next[q] <= feed /\ feed <= MaxMsgs /\ feed \in Nat
      BY Numbers
    <3>2. n \in Msgs /\ n \in done[q] + 1 .. next[q] /\ n # m
      <4>1. CASE q = r
        BY <2>2, <2>12, <3>1, <4>1 DEF Msgs
      <4>2. CASE q # r
        <5>1. done'[q] = done[q]
          BY <2>11, <4>2
        <5>2. n \in Nat /\ done[q] < n /\ n <= next[q]
          BY <3>1, <5>1
        <5>3. next[q] <= done[r] \/ next[r] <= done[q] \/ done[q] = next[q] \/ done[r] = next[r]
          BY <1>1, <2>1, <2>13, <4>2 DEF FileOwned, Fresh
        <5>4. n # m
          BY <2>2, <3>1, <5>2, <5>3
        <5>5. QED
          BY <3>1, <5>2, <5>4 DEF Msgs
      <4>3. QED
        BY <4>1, <4>2
    <3>3. handled[n] = 0
      BY <1>1, <2>13, <3>2 DEF FileOwned, Fresh
    <3>4. QED
      BY <2>4, <3>2, <3>3
  <2>14. ASSUME NEW p \in Runs, NEW q \in Runs, p # q, pc[p] = "handle", pc[q] = "handle"
         PROVE  next[p] <= done'[q] \/ next[q] <= done'[p]
                \/ done'[p] = next[p] \/ done'[q] = next[q]
    <3>1. next[p] <= done[q] \/ next[q] <= done[p] \/ done[p] = next[p] \/ done[q] = next[q]
      BY <1>1, <2>14 DEF FileOwned, Fresh
    <3>2. next[p] \in Nat /\ next[q] \in Nat /\ done[p] \in Nat /\ done[q] \in Nat
      BY Numbers
    <3>3. CASE p = r
      BY <2>2, <2>11, <2>12, <2>14, <3>1, <3>2, <3>3
    <3>4. CASE q = r
      BY <2>2, <2>11, <2>12, <2>14, <3>1, <3>2, <3>4
    <3>5. CASE p # r /\ q # r
      BY <2>11, <3>1, <3>5
    <3>6. QED
      BY <3>3, <3>4, <3>5
  <2>15. Fresh'
    BY <2>1, <2>13, <2>14 DEF Fresh
  <2>16. QED
    BY <2>6, <2>8, <2>9, <2>10, <2>15 DEF FileOwned
<1>21. ASSUME NEW r \in Runs, NEW k \in Cursors, PollWithoutCursor(r, k) PROVE FALSE
  BY <1>21 DEF PollWithoutCursor
<1>22. QED
  BY <1>3, <1>4, <1>5, <1>6, <1>7, <1>8, <1>9, <1>10, <1>11, <1>12, <1>13, <1>14, <1>15,
     <1>17, <1>18, <1>19, <1>20, <1>21
  DEF Next, RunStep, PollStep, SaveStep

(* As long as every answer with messages brought a cursor, and every one   *)
(* was saved, whole, by the run in force, no message is handled twice,     *)
(* with or without an id, whatever crashes and replacements of the run     *)
(* come between: the cursor is saved before the messages it covers are     *)
(* handled (monitorLoop, saveSyncBuf).                                     *)
THEOREM AtMostOnceHolds == Spec => []AtMostOnce
<1>1. Init => OnceInv
  BY DEF Init, OnceInv, AtMostOnce, FileOwned, WriterAlone, FileCovers, CursorCurrent, Fresh,
         CoveredUpTo
<1>2. TypeOK /\ Places /\ OnceInv /\ [Next]_vars => OnceInv'
  <2>1. CASE UNCHANGED vars
    BY <2>1 DEF vars, procVars, ghostVars, OnceInv, AtMostOnce, FileOwned, WriterAlone,
                FileCovers, CursorCurrent, Fresh, CoveredUpTo
  <2>2. QED
    BY <2>1, OnceInvInductive DEF OnceInv
<1>3. OnceInv => AtMostOnce
  BY DEF OnceInv, AtMostOnce
<1>4. QED
  BY <1>1, <1>2, <1>3, TypesHold, PTL DEF Spec
=============================================================================
