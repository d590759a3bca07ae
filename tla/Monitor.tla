------------------------------- MODULE Monitor -------------------------------
(***************************************************************************)
(* The long-poll loop of one bot (monitorLoop, internal/weixin/monitor.go) *)
(* with its cursor file (syncbuf.go), across Init, Shutdown and crashes of *)
(* the process. Init cancels the monitor it replaces without waiting for   *)
(* it, so two of them may be at work on one file.                          *)
(*                                                                         *)
(* The gateway's messages are 1, 2, ... and a cursor is the number of the  *)
(* last one it covers; 0 is an empty or missing file, on which the gateway *)
(* starts over. Handling a message is one step here: what it does is the   *)
(* subject of module Inbound.                                              *)
(***************************************************************************)
EXTENDS Naturals, FiniteSets

CONSTANTS
    WithId,      \* messages that carry an id, hence are deduplicated
    maxConsecutiveFailures,
    MaxMsgs,     \* bound on the messages
    MaxRuns,     \* bound on the calls of Init
    MaxCrashes   \* bound on the crashes

ASSUME MonitorAssumption ==
    /\ maxConsecutiveFailures \in Nat \ {0}
    /\ MaxMsgs \in Nat /\ MaxRuns \in Nat /\ MaxCrashes \in Nat

VARIABLES
    feed,        \* messages the gateway has
    disk,        \* the cursor file
    crashes,
    up,          \* the process runs
    initing,     \* Init is between the swap of p.dedup and its run
    run,         \* calls of Init so far; a run is its number
    cancelled,   \* runs whose context is cancelled
    shutdownDone,
    seen,        \* p.dedup, within its TTL
    pc,          \* monitor of a run
    buf,         \* its cursor
    next,        \* cursor of the response it holds
    done,        \* last message of that response it has handled
    failures,    \* `consecutive`
    handled,     \* ghost: times a message was handled, Often standing for more
    lost,        \* ghost: covered by the file but unhandled at a crash
    faults       \* ghost: why a cursor may not be the one it should be

procVars == <<crashes, up, initing, run, cancelled, shutdownDone>>
ghostVars == <<handled, lost, faults>>
vars == <<feed, disk, procVars, seen, pc, buf, next, done, failures, ghostVars>>

Msgs == 1 .. MaxMsgs
Cursors == 0 .. MaxMsgs
Runs == 1 .. MaxRuns

\* More than once.
Often == 2

\* A message was handled once more.
Count(n) == [handled EXCEPT ![n] = IF @ = Often THEN Often ELSE @ + 1]

Waits == {"retry", "backoff", "pause"}
Holds == {"save", "write", "handle"}

\* Messages of its response a monitor has not handled yet.
InHand(r) == IF pc[r] \in Holds THEN done[r] + 1 .. next[r] ELSE {}

Goto(r, place) == pc' = [pc EXCEPT ![r] = place]

\* The goroutine returns; its locals go with it.
Return(r) ==
    /\ Goto(r, "stopped")
    /\ buf' = [buf EXCEPT ![r] = 0]
    /\ failures' = [failures EXCEPT ![r] = 0]

Init ==
    /\ feed = 0 /\ disk = 0 /\ crashes = 0
    /\ up = TRUE /\ initing = FALSE
    /\ run = 0 /\ cancelled = {} /\ shutdownDone = FALSE
    /\ seen = {}
    /\ pc = [r \in Runs |-> "none"]
    /\ buf = [r \in Runs |-> 0]
    /\ next = [r \in Runs |-> 0]
    /\ done = [r \in Runs |-> 0]
    /\ failures = [r \in Runs |-> 0]
    /\ handled = [n \in Msgs |-> 0]
    /\ lost = {}
    /\ faults = {}

-----------------------------------------------------------------------------
(* Faulty variants, used only to show that the properties can fail *)

\* The counter is not reset when the long wait begins.
PollFailsKeepsCount(r) ==
    /\ pc[r] = "poll"
    /\ failures' = [failures EXCEPT ![r] = @ + 1]
    /\ Goto(r, IF failures[r] + 1 >= maxConsecutiveFailures THEN "backoff" ELSE "retry")
    /\ UNCHANGED <<feed, disk, procVars, seen, buf, next, done, ghostVars>>

\* The loop over the messages gives up when the run is cancelled.
StopMidway(r) ==
    /\ pc[r] \in {"loop", "handle"}
    /\ r \in cancelled
    /\ Goto(r, "stopped")
    /\ UNCHANGED <<feed, disk, procVars, seen, buf, next, done, failures, ghostVars>>

\* The file is written after the messages were handled.
HandleBeforeSaving(r) ==
    /\ pc[r] \in {"save", "handle"}
    /\ done[r] < next[r]
    /\ LET n == done[r] + 1
       IN  /\ done' = [done EXCEPT ![r] = n]
           /\ handled' = IF n \in seen THEN handled ELSE Count(n)
           /\ seen' = IF n \in WithId THEN seen \cup {n} ELSE seen
    /\ UNCHANGED <<feed, disk, procVars, pc, buf, next, failures, lost, faults>>

\* A session that expired ends the monitor.
SessionExpiredForGood(r) ==
    /\ pc[r] = "poll"
    /\ Goto(r, "stopped")
    /\ UNCHANGED <<feed, disk, procVars, seen, buf, next, done, failures, ghostVars>>

-----------------------------------------------------------------------------
(* The gateway, the host and the machine *)

\* A user sends a message.
Arrive ==
    /\ feed < MaxMsgs
    /\ feed' = feed + 1
    /\ UNCHANGED <<disk, procVars, seen, pc, buf, next, done, failures, ghostVars>>

\* Init up to p.dedup: the monitor under way uses the new one from here on.
SwapDedup ==
    /\ up /\ ~initing /\ run < MaxRuns
    /\ initing' = TRUE
    /\ seen' = {}
    /\ UNCHANGED <<feed, disk, crashes, up, run, cancelled, shutdownDone, pc, buf, next,
                   done, failures, ghostVars>>

\* The rest of Init: cancel the run it replaces and start a monitor.
StartRun ==
    /\ up /\ initing
    /\ initing' = FALSE
    /\ run' = run + 1
    /\ cancelled' = cancelled \cup ({run} \ {0})
    /\ Goto(run + 1, "load")
    /\ UNCHANGED <<feed, disk, crashes, up, shutdownDone, seen, buf, next, done, failures,
                   ghostVars>>

\* Works once in the life of the process.
Shutdown ==
    /\ up /\ ~shutdownDone
    /\ shutdownDone' = TRUE
    /\ cancelled' = cancelled \cup ({run} \ {0})
    /\ UNCHANGED <<feed, disk, crashes, up, initing, run, seen, pc, buf, next, done,
                   failures, ghostVars>>

\* Everything but the file is gone.
Crash ==
    /\ up /\ crashes < MaxCrashes
    /\ up' = FALSE
    /\ crashes' = crashes + 1
    /\ initing' = FALSE
    /\ cancelled' = cancelled \cup 1 .. run
    /\ shutdownDone' = FALSE
    /\ lost' = lost \cup {n \in UNION {InHand(r) : r \in Runs} : n <= disk}
    /\ faults' = IF \E r \in Runs : pc[r] = "write" THEN faults \cup {"torn"} ELSE faults
    /\ pc' = [r \in Runs |-> IF r <= run THEN "stopped" ELSE "none"]
    /\ seen' = {}
    /\ buf' = [r \in Runs |-> 0] /\ failures' = [r \in Runs |-> 0]
    /\ next' = [r \in Runs |-> 0] /\ done' = [r \in Runs |-> 0]
    /\ UNCHANGED <<feed, disk, run, handled>>

Restart ==
    /\ ~up
    /\ up' = TRUE
    /\ UNCHANGED <<feed, disk, crashes, initing, run, cancelled, shutdownDone, seen, pc, buf,
                   next, done, failures, ghostVars>>

-----------------------------------------------------------------------------
(* monitorLoop *)

\* A file another monitor is writing reads as empty.
Load(r) ==
    /\ pc[r] = "load"
    /\ buf' = [buf EXCEPT ![r] = disk]
    /\ faults' = IF \E q \in Runs : pc[q] = "write" THEN faults \cup {"torn"} ELSE faults
    /\ Goto(r, "loop")
    /\ UNCHANGED <<feed, disk, procVars, seen, next, done, failures, handled, lost>>

\* The top of the loop, or a wait, finds the context cancelled.
Stop(r) ==
    /\ pc[r] \in {"loop"} \cup Waits
    /\ r \in cancelled
    /\ Return(r)
    /\ UNCHANGED <<feed, disk, procVars, seen, next, done, ghostVars>>

BeginPoll(r) ==
    /\ pc[r] = "loop"
    /\ r \notin cancelled
    /\ Goto(r, "poll")
    /\ UNCHANGED <<feed, disk, procVars, seen, buf, next, done, failures, ghostVars>>

\* The request ends with the run.
PollCancelled(r) ==
    /\ pc[r] = "poll"
    /\ r \in cancelled
    /\ Return(r)
    /\ UNCHANGED <<feed, disk, procVars, seen, next, done, ghostVars>>

\* The response covers the messages up to k; with none of them new it is
\* what a poll that timed out is turned into. It may come just before the
\* cancellation.
PollAnswered(r, k) ==
    /\ pc[r] = "poll"
    /\ k \in buf[r] .. feed
    /\ next' = [next EXCEPT ![r] = k]
    /\ done' = [done EXCEPT ![r] = buf[r]]
    /\ failures' = [failures EXCEPT ![r] = 0]
    /\ Goto(r, "save")
    /\ UNCHANGED <<feed, disk, procVars, seen, buf, ghostVars>>

\* Messages without a cursor, of which nothing is saved: they come again.
PollWithoutCursor(r, k) ==
    /\ pc[r] = "poll"
    /\ k \in buf[r] + 1 .. feed
    /\ next' = [next EXCEPT ![r] = k]
    /\ done' = [done EXCEPT ![r] = buf[r]]
    /\ failures' = [failures EXCEPT ![r] = 0]
    /\ faults' = faults \cup {"cursorless"}
    /\ Goto(r, "handle")
    /\ UNCHANGED <<feed, disk, procVars, seen, buf, handled, lost>>

\* No messages and no cursor: nothing to save.
PollEmpty(r) ==
    /\ pc[r] = "poll"
    /\ failures' = [failures EXCEPT ![r] = 0]
    /\ Goto(r, "loop")
    /\ UNCHANGED <<feed, disk, procVars, seen, buf, next, done, ghostVars>>

\* A transport error or an error code.
PollFails(r) ==
    /\ pc[r] = "poll"
    /\ IF failures[r] + 1 >= maxConsecutiveFailures
       THEN failures' = [failures EXCEPT ![r] = 0] /\ Goto(r, "backoff")
       ELSE failures' = [failures EXCEPT ![r] = @ + 1] /\ Goto(r, "retry")
    /\ UNCHANGED <<feed, disk, procVars, seen, buf, next, done, ghostVars>>

\* The session expired: a pause of an hour.
SessionExpired(r) ==
    /\ pc[r] = "poll"
    /\ failures' = [failures EXCEPT ![r] = 0]
    /\ Goto(r, "pause")
    /\ UNCHANGED <<feed, disk, procVars, seen, buf, next, done, ghostVars>>

Resume(r) ==
    /\ pc[r] \in Waits
    /\ Goto(r, "loop")
    /\ UNCHANGED <<feed, disk, procVars, seen, buf, next, done, failures, ghostVars>>

\* os.WriteFile empties the file first; an empty cursor is not saved at all.
\* A cancelled run may turn the cursor back.
Truncate(r) ==
    /\ pc[r] = "save"
    /\ next[r] # 0
    /\ disk' = 0
    /\ faults' = IF r \in cancelled THEN faults \cup {"overlap"} ELSE faults
    /\ Goto(r, "write")
    /\ UNCHANGED <<feed, procVars, seen, buf, next, done, failures, handled, lost>>

Write(r) ==
    /\ pc[r] = "write"
    /\ disk' = next[r]
    /\ buf' = [buf EXCEPT ![r] = next[r]]
    /\ faults' = IF r \in cancelled THEN faults \cup {"overlap"} ELSE faults
    /\ Goto(r, "handle")
    /\ UNCHANGED <<feed, procVars, seen, next, done, failures, handled, lost>>

\* Nothing to save, or the directory or the file cannot be written, of which
\* nobody hears.
SaveFails(r) ==
    /\ pc[r] \in {"save", "write"}
    /\ buf' = [buf EXCEPT ![r] = next[r]]
    /\ faults' = IF next[r] = 0 THEN faults ELSE faults \cup {"unsaved"}
    /\ Goto(r, "handle")
    /\ UNCHANGED <<feed, disk, procVars, seen, next, done, failures, handled, lost>>

\* handleInboundMessage, also when the run has been cancelled meanwhile.
Handle(r) ==
    /\ pc[r] = "handle"
    /\ done[r] < next[r]
    /\ LET n == done[r] + 1
       IN  /\ done' = [done EXCEPT ![r] = n]
           /\ handled' = IF n \in seen THEN handled ELSE Count(n)
           /\ seen' = IF n \in WithId THEN seen \cup {n} ELSE seen
    /\ UNCHANGED <<feed, disk, procVars, pc, buf, next, failures, lost, faults>>

AllHandled(r) ==
    /\ pc[r] = "handle"
    /\ done[r] = next[r]
    /\ next' = [next EXCEPT ![r] = 0]
    /\ done' = [done EXCEPT ![r] = 0]
    /\ Goto(r, "loop")
    /\ UNCHANGED <<feed, disk, procVars, seen, buf, failures, ghostVars>>

\* Shut down, or out of runs: nothing more happens.
Quiescent ==
    /\ up /\ ~initing
    /\ \A r \in Runs : pc[r] \in {"none", "stopped"}
    /\ UNCHANGED vars

PollStep(r) ==
    \/ PollCancelled(r)
    \/ (\E k \in Cursors : PollAnswered(r, k) \/ PollWithoutCursor(r, k))
    \/ PollEmpty(r) \/ PollFails(r) \/ SessionExpired(r)

SaveStep(r) == Truncate(r) \/ Write(r) \/ SaveFails(r)

RunStep(r) ==
    \/ Load(r) \/ Stop(r) \/ BeginPoll(r) \/ PollStep(r) \/ Resume(r)
    \/ SaveStep(r) \/ Handle(r) \/ AllHandled(r)

Next ==
    \/ Arrive \/ SwapDedup \/ StartRun \/ Shutdown \/ Crash \/ Restart
    \/ \E r \in Runs : RunStep(r)
    \/ Quiescent

\* The loop goes on, its waits end, and a gateway that is polled again and
\* again answers some time with what it has. A process that went down is
\* started again, and a started process initialised.
Fairness ==
    /\ WF_vars(Restart)
    /\ WF_vars(SwapDedup /\ (run = 0 \/ run \in cancelled) /\ ~shutdownDone)
    /\ WF_vars(StartRun)
    /\ \A r \in Runs :
        /\ WF_vars(RunStep(r))
        /\ SF_vars(PollAnswered(r, feed))

Spec == Init /\ [][Next]_vars

FairSpec == Spec /\ Fairness

-----------------------------------------------------------------------------
(* Properties *)

\* Every variable has its type; a failure count stays below the limit, and no
\* cursor goes past what the gateway has.
TypeOK ==
    /\ feed \in Cursors /\ disk \in 0 .. feed
    /\ crashes \in 0 .. MaxCrashes
    /\ up \in BOOLEAN /\ initing \in BOOLEAN /\ shutdownDone \in BOOLEAN
    /\ run \in 0 .. MaxRuns /\ cancelled \subseteq 1 .. run
    /\ seen \subseteq WithId \cap Msgs
    /\ pc \in [Runs -> {"none", "load", "loop", "poll", "stopped"} \cup Waits \cup Holds]
    /\ buf \in [Runs -> 0 .. feed]
    /\ next \in [Runs -> 0 .. feed]
    /\ done \in [Runs -> 0 .. feed]
    /\ failures \in [Runs -> 0 .. maxConsecutiveFailures - 1]
    /\ handled \in [Msgs -> 0 .. Often]
    /\ lost \subseteq Msgs
    /\ faults \subseteq {"torn", "overlap", "unsaved", "cursorless"}

\* Handled, in the hands of a monitor, or lost with the process.
Accounted(n) ==
    handled[n] > 0 \/ n \in lost \/ \E r \in Runs : n \in InHand(r)

\* No cursor, on disk or in a monitor, ever covers a message that is not
\* accounted for: the only messages that are skipped are those whose cursor
\* was saved and whose handling a crash cut short. Cancelling a run, however
\* many monitors share the file, loses none.
NothingSkipped ==
    /\ \A n \in 1 .. disk : Accounted(n)
    /\ \A r \in Runs : pc[r] \notin {"none", "stopped"} =>
         \A n \in 1 .. buf[r] : Accounted(n)

\* As long as every answer with messages brought a cursor, and every cursor
\* was saved, whole, by a run in force, no message is handled twice, with or
\* without an id, whatever crashes and replacements of the run come between.
AtMostOnce == faults = {} => \A n \in Msgs : handled[n] <= 1

\* A message that reached the gateway is handled, through failed polls,
\* expired sessions, crashes and replaced runs, unless a crash lost it or the
\* host shut the plugin down. (A model out of runs cannot start another.)
EveryMessageIsHandled ==
    \A n \in Msgs :
        feed >= n ~>
            \/ handled[n] > 0 \/ n \in lost
            \/ shutdownDone
            \/ (run = MaxRuns /\ run \in cancelled)
=============================================================================
