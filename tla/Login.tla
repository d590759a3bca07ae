-------------------------------- MODULE Login --------------------------------
(***************************************************************************)
(* dmr-weixin-login (internal/weixinlogin/login.go and its main): fetch a  *)
(* QR code, poll until the user has confirmed it on the phone, fetch       *)
(* another when it expires, and write the credentials file. Codes are      *)
(* 1, 2, ... in the order they are issued.                                 *)
(*                                                                         *)
(* Time passes only where the program waits: in a request, at most until   *)
(* its timeout, and in a sleep, which an interrupt does not cut short.     *)
(***************************************************************************)
EXTENDS Naturals

CONSTANTS
    Waits,          \* values of -wait
    MinWait,        \* a shorter one counts as the default (30 s)
    DefaultWait,    \* 8 min
    qrPollTimeout,  \* 35 s
    FetchTimeout,   \* the client's (40 s)
    pollErrBackoff, \* 1 s
    maxQRRefresh

ASSUME LoginAssumption ==
    /\ Waits \subseteq Nat /\ MinWait \in Nat \ {0} /\ DefaultWait \in Nat \ {0}
    /\ qrPollTimeout \in Nat /\ pollErrBackoff \in Nat \ {0}
    /\ FetchTimeout \in Nat
    /\ maxQRRefresh \in Nat

VARIABLES
    now,
    wait,        \* how long the login may take
    deadline,
    at,          \* where the program is
    until,       \* when its request times out or its sleep ends
    interrupted, \* the context is cancelled
    qr,          \* the code polled for, 0 before the first
    qrRefresh,
    issued,      \* codes the gateway has issued
    onScreen,    \* the last code that was shown, 0 before the first
    shown,       \* codes that were shown
    status,      \* code |-> what the gateway says of it
    file         \* the credentials file: as it was, empty, or the new one

clockVars == <<now, wait, deadline>>
codeVars == <<qr, qrRefresh, issued, onScreen, shown>>
vars == <<clockVars, at, until, interrupted, codeVars, status, file>>

Codes == 1 .. maxQRRefresh + 1
Waiting == {"fetch", "poll", "sleep"}
Ended == {"failed", "interrupted", "timeout", "expired", "unwritten", "done", "killed"}

Init ==
    /\ now = 0
    /\ \E w \in Waits : wait = IF w < MinWait THEN DefaultWait ELSE w
    /\ deadline = wait
    /\ at = "fetch" /\ until = FetchTimeout
    /\ interrupted = FALSE
    /\ qr = 0 /\ qrRefresh = 0 /\ issued = 0
    /\ onScreen = 0 /\ shown = {}
    /\ status = [c \in Codes |-> "wait"]
    /\ file = "old"

\* Go on to a wait of the given length.
WaitAt(place, length) == at' = place /\ until' = now + length

\* Go on without waiting.
Goto(place) == at' = place /\ UNCHANGED until

-----------------------------------------------------------------------------
(* Faulty variants, used only to show that the properties can fail *)

\* The limit is compared before the count goes up.
RefreshOnceMore ==
    /\ at = "poll" /\ status[qr] = "expired"
    /\ qrRefresh <= maxQRRefresh
    /\ qrRefresh' = qrRefresh + 1
    /\ WaitAt("fetch", FetchTimeout)
    /\ UNCHANGED <<clockVars, interrupted, qr, issued, onScreen, shown, status, file>>

\* The time starts anew with every code.
RefreshRestartsClock ==
    /\ at = "poll" /\ status[qr] = "expired"
    /\ qrRefresh < maxQRRefresh
    /\ qrRefresh' = qrRefresh + 1
    /\ deadline' = now + wait
    /\ WaitAt("fetch", FetchTimeout)
    /\ UNCHANGED <<now, wait, interrupted, qr, issued, onScreen, shown, status, file>>

\* := in the loop declares another qr, which the poll does not see.
FetchedShadowed(image) ==
    /\ at = "fetch" /\ issued <= maxQRRefresh
    /\ issued' = issued + 1
    /\ qr' = IF issued = 0 THEN 1 ELSE qr
    /\ IF image THEN onScreen' = issued + 1 /\ shown' = shown \cup {issued + 1}
                ELSE UNCHANGED <<onScreen, shown>>
    /\ IF issued = 0 THEN Goto("check") ELSE WaitAt("sleep", pollErrBackoff)
    /\ UNCHANGED <<clockVars, interrupted, qrRefresh, status, file>>

\* The file is created before the login, to see whether it can be written.
CheckCreatesFile ==
    /\ at = "check" /\ now < deadline /\ ~interrupted
    /\ file' = "empty"
    /\ WaitAt("poll", qrPollTimeout)
    /\ UNCHANGED <<clockVars, interrupted, codeVars, status>>

-----------------------------------------------------------------------------
(* Time, the user and the gateway *)

Tick ==
    /\ at \in Waiting /\ now < until
    /\ now' = now + 1
    /\ UNCHANGED <<wait, deadline, at, until, interrupted, codeVars, status, file>>

\* The user scans a code he was shown, which need not be the latest.
Scan(c) ==
    /\ c \in shown /\ status[c] = "wait" /\ at \notin Ended
    /\ status' = [status EXCEPT ![c] = "scaned"]
    /\ UNCHANGED <<clockVars, at, until, interrupted, codeVars, file>>

Confirm(c) ==
    /\ status[c] = "scaned" /\ at \notin Ended
    /\ status' = [status EXCEPT ![c] = "confirmed"]
    /\ UNCHANGED <<clockVars, at, until, interrupted, codeVars, file>>

Expire(c) ==
    /\ c <= issued /\ status[c] \in {"wait", "scaned"} /\ at \notin Ended
    /\ status' = [status EXCEPT ![c] = "expired"]
    /\ UNCHANGED <<clockVars, at, until, interrupted, codeVars, file>>

\* Ctrl-C cancels the context; nothing else happens at once.
Interrupt ==
    /\ ~interrupted /\ at \notin Ended
    /\ interrupted' = TRUE
    /\ UNCHANGED <<clockVars, at, until, codeVars, status, file>>

\* The machine may stop the program for good.
Kill ==
    /\ at \notin Ended
    /\ Goto("killed")
    /\ UNCHANGED <<clockVars, interrupted, codeVars, status, file>>

-----------------------------------------------------------------------------
(* Run *)

\* fetchQRCode answers a code; without an image URL it is not shown.
Fetched(image) ==
    /\ at = "fetch"
    /\ issued' = issued + 1
    /\ qr' = issued + 1
    /\ IF image THEN onScreen' = issued + 1 /\ shown' = shown \cup {issued + 1}
                ELSE UNCHANGED <<onScreen, shown>>
    /\ IF issued = 0 THEN Goto("check") ELSE WaitAt("sleep", pollErrBackoff)
    /\ UNCHANGED <<clockVars, interrupted, qrRefresh, status, file>>

\* Any error ends the login: of the first code, of a later one, of a poll
\* (pollQRStatus takes only a timeout before the answer's head for "wait").
RequestFails ==
    /\ at \in {"fetch", "poll"}
    /\ Goto("failed")
    /\ UNCHANGED <<clockVars, interrupted, codeVars, status, file>>

\* The top of the loop looks at the clock before the context.
TimedOut ==
    /\ at = "check" /\ now >= deadline
    /\ Goto("timeout")
    /\ UNCHANGED <<clockVars, interrupted, codeVars, status, file>>

Interrupted ==
    /\ at = "check" /\ now < deadline /\ interrupted
    /\ Goto("interrupted")
    /\ UNCHANGED <<clockVars, interrupted, codeVars, status, file>>

Check ==
    /\ at = "check" /\ now < deadline /\ ~interrupted
    /\ WaitAt("poll", qrPollTimeout)
    /\ UNCHANGED <<clockVars, interrupted, codeVars, status, file>>

\* "wait", "scaned", an unknown status, or the timeout of the poll.
NotYet ==
    /\ at = "poll"
    /\ status[qr] \in {"wait", "scaned"} \/ now = until
    /\ WaitAt("sleep", pollErrBackoff)
    /\ UNCHANGED <<clockVars, interrupted, codeVars, status, file>>

Wake ==
    /\ at = "sleep" /\ now = until
    /\ Goto("check")
    /\ UNCHANGED <<clockVars, interrupted, codeVars, status, file>>

\* "expired": the count goes up and is then compared.
Refresh ==
    /\ at = "poll" /\ status[qr] = "expired"
    /\ qrRefresh + 1 <= maxQRRefresh
    /\ qrRefresh' = qrRefresh + 1
    /\ WaitAt("fetch", FetchTimeout)
    /\ UNCHANGED <<clockVars, interrupted, qr, issued, onScreen, shown, status, file>>

ExpiredTooOften ==
    /\ at = "poll" /\ status[qr] = "expired"
    /\ qrRefresh + 1 > maxQRRefresh
    /\ qrRefresh' = qrRefresh + 1
    /\ Goto("expired")
    /\ UNCHANGED <<clockVars, interrupted, qr, issued, onScreen, shown, status, file>>

\* "confirmed", without the bot's id or token: an error.
Incomplete ==
    /\ at = "poll" /\ status[qr] = "confirmed"
    /\ Goto("failed")
    /\ UNCHANGED <<clockVars, interrupted, codeVars, status, file>>

Confirmed ==
    /\ at = "poll" /\ status[qr] = "confirmed"
    /\ Goto("confirmed")
    /\ UNCHANGED <<clockVars, interrupted, codeVars, status, file>>

-----------------------------------------------------------------------------
(* main writes the file: os.WriteFile empties it first *)

TruncateFile ==
    /\ at = "confirmed"
    /\ file' = "empty"
    /\ Goto("write")
    /\ UNCHANGED <<clockVars, interrupted, codeVars, status>>

WriteFile ==
    /\ at = "write"
    /\ file' = "new"
    /\ Goto("done")
    /\ UNCHANGED <<clockVars, interrupted, codeVars, status>>

\* The directory or the file cannot be made, or the file not written.
WriteFails ==
    /\ at \in {"confirmed", "write"}
    /\ Goto("unwritten")
    /\ UNCHANGED <<clockVars, interrupted, codeVars, status, file>>

Quiescent == at \in Ended /\ UNCHANGED vars

LoopStep ==
    \/ (\E image \in BOOLEAN : Fetched(image)) \/ RequestFails
    \/ TimedOut \/ Interrupted \/ Check \/ NotYet \/ Wake
    \/ Refresh \/ ExpiredTooOften \/ Incomplete \/ Confirmed

Next ==
    \/ Tick \/ Interrupt \/ Kill
    \/ \E c \in Codes : Scan(c) \/ Confirm(c) \/ Expire(c)
    \/ LoopStep
    \/ TruncateFile \/ WriteFile \/ WriteFails
    \/ Quiescent

Spec == Init /\ [][Next]_vars

-----------------------------------------------------------------------------
(* Properties *)

\* Every variable has its type; there are no more codes than refreshes permit,
\* and all of them are used before the program gives up.
TypeOK ==
    /\ now \in Nat /\ wait \in Nat \ {0} /\ deadline \in Nat /\ until \in Nat
    /\ at \in Waiting \cup Ended \cup {"check", "confirmed", "write"}
    /\ interrupted \in BOOLEAN
    /\ issued \in 0 .. maxQRRefresh + 1 /\ qr \in 0 .. issued
    /\ onScreen \in 0 .. issued /\ shown \subseteq 1 .. issued
    /\ qrRefresh \in 0 .. maxQRRefresh + 1
    /\ at \in {"check", "poll", "sleep"} => qr > 0
    /\ at = "expired" => issued = maxQRRefresh + 1
    /\ status \in [Codes -> {"wait", "scaned", "confirmed", "expired"}]
    /\ file \in {"old", "empty", "new"}

\* What a round begun just before the deadline may still take: a poll that
\* ends with an expired code, the request for another and a sleep.
Overrun == qrPollTimeout + FetchTimeout + pollErrBackoff

\* The login takes no longer than its time and one round: no refresh,
\* no slow gateway and no run of timeouts puts the end off further.
EndsInTime == now < wait + Overrun

\* The code that is polled for is the one the user last saw, through all
\* refreshes, unless the newest came without an image: a scan is not missed
\* because another code is watched.
PollsWhatIsShown == at = "poll" => qr = onScreen \/ qr \notin shown

\* The credentials of before stay in place unless the user has confirmed a
\* code he was shown.
FailedLoginKeepsFile ==
    file # "old" => qr \in shown /\ status[qr] = "confirmed"
=============================================================================
