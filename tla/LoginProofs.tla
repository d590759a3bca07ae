----------------------------- MODULE LoginProofs -----------------------------
(***************************************************************************)
(* Proofs about Login for any waits, timeouts and number of refreshes.     *)
(***************************************************************************)
EXTENDS Login, TLAPS

USE LoginAssumption DEF LoginAssumption, Codes, Waiting, Ended

\* How many codes there are, place by place.
Counted ==
    /\ at = "fetch" => issued = qrRefresh /\ qrRefresh <= maxQRRefresh
    /\ at \in {"check", "poll", "sleep"} => issued = qrRefresh + 1
    /\ qr = issued

Counts == TypeOK /\ Counted

(* Types, and the number of codes: the count of refreshes is one behind the *)
(* codes issued except while another is fetched.                            *)
THEOREM CountsHold == Spec => []Counts
<1> USE DEF Counts, TypeOK, Counted
<1>1. Init => Counts
  <2> SUFFICES ASSUME Init PROVE Counts
    OBVIOUS
  <2>1. PICK w \in Waits : wait = IF w < MinWait THEN DefaultWait ELSE w
    BY DEF Init
  <2>2. wait \in Nat \ {0}
    BY <2>1
  <2>3. status \in [Codes -> {"wait", "scaned", "confirmed", "expired"}]
    BY DEF Init
  <2>4. issued \in 0 .. maxQRRefresh + 1 /\ shown \subseteq 1 .. issued
    BY DEF Init
  <2>5. now \in Nat /\ deadline \in Nat /\ until \in Nat /\ interrupted \in BOOLEAN
    BY <2>2 DEF Init
  <2>6. /\ at = "fetch" /\ file = "old"
        /\ qr = 0 /\ issued = 0 /\ onScreen = 0 /\ qrRefresh = 0
    BY DEF Init
  <2>7. QED
    BY <2>2, <2>3, <2>4, <2>5, <2>6
<1>2. Counts /\ [Next]_vars => Counts'
  <2> SUFFICES ASSUME Counts, [Next]_vars PROVE Counts'
    OBVIOUS
  <2> USE DEF clockVars, codeVars, Goto, WaitAt
  <2>1. CASE Tick
    BY <2>1 DEF Tick
  <2>2. CASE Interrupt \/ Kill
    BY <2>2 DEF Interrupt, Kill
  <2>3. ASSUME NEW c \in Codes, Scan(c) \/ Confirm(c) \/ Expire(c) PROVE Counts'
    BY <2>3 DEF Scan, Confirm, Expire
  <2>4. ASSUME NEW image \in BOOLEAN, Fetched(image) PROVE Counts'
    <3>1. issued' = issued + 1 /\ qr' = issued' /\ issued' \in 1 .. maxQRRefresh + 1
      BY <2>4 DEF Fetched
    <3>2. onScreen' \in 0 .. issued' /\ shown' \subseteq 1 .. issued'
      <4>1. onScreen \in Nat /\ onScreen <= issued /\ issued \in Nat
        OBVIOUS
      <4>2. onScreen' = issued + 1 \/ onScreen' = onScreen
        BY <2>4 DEF Fetched
      <4>3. shown' \subseteq shown \cup {issued + 1}
        BY <2>4 DEF Fetched
      <4>4. shown \cup {issued + 1} \subseteq 1 .. issued + 1
        BY <4>1
      <4>5. QED
        BY <3>1, <4>1, <4>2, <4>3, <4>4
    <3>3. at' \in {"check", "sleep"}
      BY <2>4 DEF Fetched
    <3>4. until' \in Nat
      <4>1. until' = until \/ until' = now + pollErrBackoff
        BY <2>4 DEF Fetched
      <4>2. QED
        BY <4>1
    <3>5. UNCHANGED <<clockVars, interrupted, qrRefresh, status, file>>
      BY <2>4 DEF Fetched
    <3>6. issued' = qrRefresh' + 1
      BY <2>4, <3>1, <3>5 DEF Fetched
    <3>7. QED
      BY <3>1, <3>2, <3>3, <3>4, <3>5, <3>6
  <2>5. CASE RequestFails \/ TimedOut \/ Interrupted
    BY <2>5 DEF RequestFails, TimedOut, Interrupted
  <2>6. CASE Check \/ NotYet \/ Wake
    <3>1. CASE Check
      BY <3>1 DEF Check
    <3>2. CASE NotYet
      BY <3>2 DEF NotYet
    <3>3. CASE Wake
      BY <3>3 DEF Wake
    <3>4. QED
      BY <2>6, <3>1, <3>2, <3>3
  <2>7. CASE Refresh \/ ExpiredTooOften
    <3>1. issued = qrRefresh + 1
      BY <2>7 DEF Refresh, ExpiredTooOften
    <3>2. CASE Refresh
      BY <3>1, <3>2 DEF Refresh
    <3>3. CASE ExpiredTooOften
      BY <3>1, <3>3 DEF ExpiredTooOften
    <3>4. QED
      BY <2>7, <3>2, <3>3
  <2>8. CASE Incomplete \/ Confirmed
    BY <2>8 DEF Incomplete, Confirmed
  <2>9. CASE TruncateFile \/ WriteFile \/ WriteFails
    BY <2>9 DEF TruncateFile, WriteFile, WriteFails
  <2>10. CASE UNCHANGED vars
    BY <2>10 DEF vars
  <2>11. QED
    BY <2>1, <2>2, <2>3, <2>4, <2>5, <2>6, <2>7, <2>8, <2>9, <2>10
       DEF Next, LoopStep, Quiescent
<1>3. QED
  BY <1>1, <1>2, PTL DEF Spec

(* Every variable keeps its type; no more codes are fetched than the limit  *)
(* permits, and the login gives up only when all are used.                  *)
COROLLARY TypeCorrect == Spec => []TypeOK
BY CountsHold, PTL DEF Counts

\* Until when the program may be where it is.
Timed ==
    /\ deadline = wait
    /\ at \in Waiting => now <= until
    /\ at = "poll" => until < wait + qrPollTimeout
    /\ at = "fetch" => until < wait + qrPollTimeout + FetchTimeout
    /\ at = "sleep" => until < wait + Overrun

(* The login ends in time: only the top of the loop looks at the clock, and *)
(* between two looks at it there are at most a poll, a fetch and a sleep.   *)
THEOREM EndsInTimeHolds == Spec => []EndsInTime
<1> USE DEF Timed, EndsInTime, Overrun
<1>1. Counts /\ Init => Timed /\ EndsInTime
  BY DEF Init, Counts, TypeOK
<1>2. Counts /\ Timed /\ EndsInTime /\ [Next]_vars => Timed' /\ EndsInTime'
  <2> SUFFICES ASSUME Counts, Timed, EndsInTime, [Next]_vars
               PROVE  Timed' /\ EndsInTime'
    OBVIOUS
  <2> USE DEF Counts, TypeOK, clockVars, Goto, WaitAt
  <2>1. CASE Tick
    BY <2>1 DEF Tick
  <2>2. CASE Interrupt \/ Kill
    BY <2>2 DEF Interrupt, Kill
  <2>3. ASSUME NEW c \in Codes, Scan(c) \/ Confirm(c) \/ Expire(c)
        PROVE  Timed' /\ EndsInTime'
    BY <2>3 DEF Scan, Confirm, Expire
  <2>4. ASSUME NEW image \in BOOLEAN, Fetched(image) PROVE Timed' /\ EndsInTime'
    BY <2>4 DEF Fetched
  <2>5. CASE RequestFails \/ TimedOut \/ Interrupted
    BY <2>5 DEF RequestFails, TimedOut, Interrupted
  <2>6. CASE Check \/ NotYet \/ Wake
    BY <2>6 DEF Check, NotYet, Wake
  <2>7. CASE Refresh \/ ExpiredTooOften
    BY <2>7 DEF Refresh, ExpiredTooOften
  <2>8. CASE Incomplete \/ Confirmed
    BY <2>8 DEF Incomplete, Confirmed
  <2>9. CASE TruncateFile \/ WriteFile \/ WriteFails
    BY <2>9 DEF TruncateFile, WriteFile, WriteFails
  <2>10. CASE UNCHANGED vars
    BY <2>10 DEF vars
  <2>11. QED
    BY <2>1, <2>2, <2>3, <2>4, <2>5, <2>6, <2>7, <2>8, <2>9, <2>10
       DEF Next, LoopStep, Quiescent
<1>3. QED
  BY <1>1, <1>2, CountsHold, PTL DEF Spec

\* What is on the screen, and what it takes to be confirmed.
Screened ==
    /\ qr = onScreen \/ qr \notin shown
    /\ \A c \in Codes : status[c] \in {"scaned", "confirmed"} => c \in shown

\* The code polled for was confirmed before the file is touched.
FileInv ==
    /\ at \in {"confirmed", "write"} => qr \in Codes /\ status[qr] = "confirmed"
    /\ file # "old" =>
         /\ qr \in Codes /\ status[qr] = "confirmed"
         /\ at \in {"write", "done", "unwritten", "killed"}

(* A scan is not missed, and no file is touched without a confirmation of a *)
(* code that was on the screen.                                             *)
LEMMA ShownCodesCount == Spec => [](Screened /\ FileInv)
<1> USE DEF Screened, FileInv
<1>1. Init => Screened /\ FileInv
  BY DEF Init
<1>2. Counts /\ Screened /\ FileInv /\ [Next]_vars => (Screened /\ FileInv)'
  <2> SUFFICES ASSUME Counts, Screened, FileInv, [Next]_vars
               PROVE  (Screened /\ FileInv)'
    OBVIOUS
  <2> USE DEF Counts, TypeOK, Counted, codeVars, Goto, WaitAt
  <2>1. CASE Tick
    BY <2>1 DEF Tick
  <2>2. CASE Interrupt \/ Kill
    BY <2>2 DEF Interrupt, Kill
  <2>3. ASSUME NEW c \in Codes, Scan(c) \/ Confirm(c) \/ Expire(c)
        PROVE  (Screened /\ FileInv)'
    BY <2>3 DEF Scan, Confirm, Expire
  <2>4. ASSUME NEW image \in BOOLEAN, Fetched(image) PROVE (Screened /\ FileInv)'
    BY <2>4 DEF Fetched
  <2>5. CASE RequestFails \/ TimedOut \/ Interrupted
    BY <2>5 DEF RequestFails, TimedOut, Interrupted
  <2>6. CASE Check \/ NotYet \/ Wake
    BY <2>6 DEF Check, NotYet, Wake
  <2>7. CASE Refresh \/ ExpiredTooOften
    BY <2>7 DEF Refresh, ExpiredTooOften
  <2>8. CASE Incomplete \/ Confirmed
    BY <2>8 DEF Incomplete, Confirmed
  <2>9. CASE TruncateFile \/ WriteFile \/ WriteFails
    BY <2>9 DEF TruncateFile, WriteFile, WriteFails
  <2>10. CASE UNCHANGED vars
    BY <2>10 DEF vars
  <2>11. QED
    BY <2>1, <2>2, <2>3, <2>4, <2>5, <2>6, <2>7, <2>8, <2>9, <2>10
       DEF Next, LoopStep, Quiescent
<1>3. QED
  BY <1>1, <1>2, CountsHold, PTL DEF Spec

(* The code the user sees is the one polled for, unless it has no image.    *)
THEOREM PollsWhatIsShownHolds == Spec => []PollsWhatIsShown
<1>1. Screened => PollsWhatIsShown
  BY DEF Screened, PollsWhatIsShown
<1>2. QED
  BY <1>1, ShownCodesCount, PTL

(* A login that fails, is interrupted or killed before the user confirmed   *)
(* leaves the credentials file alone.                                       *)
THEOREM FailedLoginKeepsFileHolds == Spec => []FailedLoginKeepsFile
<1>1. Screened /\ FileInv => FailedLoginKeepsFile
  BY DEF Screened, FileInv, FailedLoginKeepsFile
<1>2. QED
  BY <1>1, ShownCodesCount, PTL
=============================================================================
