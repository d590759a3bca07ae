--------------------------- MODULE ApprovalService ---------------------------
(***************************************************************************)
(* What the approval service promises the host and the user: at most one   *)
(* question is open in a conversation, and a question is granted only by a *)
(* text the user sent in that conversation while it was open. How          *)
(* questions are stored, who sees the texts and what ends the wait is left *)
(* to the implementation (module Approver).                                *)
(***************************************************************************)
EXTENDS ApprovalReply

CONSTANTS Requests, Keys, NoKey, KeyOf, BatchN, Contents

VARIABLES
    status,    \* [Requests -> {"new", "open", "closed"}]
    answer,    \* the reply returned to the host
    offered    \* texts the user sent while the request was open

vars == <<status, answer, offered>>

Init ==
    /\ status = [r \in Requests |-> "new"]
    /\ answer = [r \in Requests |-> DeniedReply]
    /\ offered = [r \in Requests |-> {}]

\* Denied without asking the user.
Reject(r) ==
    /\ status[r] = "new"
    /\ status' = [status EXCEPT ![r] = "closed"]
    /\ UNCHANGED <<answer, offered>>

Open(r) ==
    /\ status[r] = "new"
    /\ KeyOf[r] \in Keys
    /\ \A s \in Requests : KeyOf[s] = KeyOf[r] => status[s] # "open"
    /\ status' = [status EXCEPT ![r] = "open"]
    /\ UNCHANGED <<answer, offered>>

Offer(r, c) ==
    /\ status[r] = "open"
    /\ offered' = [offered EXCEPT ![r] = @ \cup {c}]
    /\ UNCHANGED <<status, answer>>

Close(r) ==
    /\ status[r] = "open"
    /\ status' = [status EXCEPT ![r] = "closed"]
    /\ \E v \in {DeniedReply} \cup {ReadAs(c, BatchN[r]) : c \in offered[r]} :
         answer' = [answer EXCEPT ![r] = v]
    /\ UNCHANGED offered

Next ==
    \E r \in Requests :
        Reject(r) \/ Open(r) \/ Close(r) \/ \E c \in Contents : Offer(r, c)

Spec == Init /\ [][Next]_vars
=============================================================================
