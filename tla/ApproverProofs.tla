--------------------------- MODULE ApproverProofs ---------------------------
(***************************************************************************)
(* Proofs about Approver for any set of requests, conversations, monitors  *)
(* and texts: its types, the ownership of the wait map's entries, that     *)
(* only a text sent in answer to a request can grant it, and that no wait  *)
(* is left on a run nothing can end.                                       *)
(***************************************************************************)
EXTENDS Approver, TLAPS

USE ApproverAssumption DEF ApproverAssumption

(* No step reads a reply that the two parsers cannot make. *)
LEMMA ReadAsIsReply ==
    ASSUME NEW c \in Contents, NEW r \in Requests
    PROVE  ReadAs(c, BatchN[r]) \in Replies
  BY DEF Replies

(* Every variable keeps its type; in particular a channel holds at most     *)
(* one reply, so the send of tryResolveApproval never needs a second slot.  *)
THEOREM TypeCorrect == Spec => []TypeOK
<1>1. Init => TypeOK
  <2> SUFFICES ASSUME Init PROVE TypeOK
    OBVIOUS
  <2>1. DeniedReply \in Replies
    BY DEF Replies
  <2>2. ch \in [Requests -> {<<>>} \cup {<<v>> : v \in Replies}]
    BY DEF Init
  <2>3. wait \in [Keys -> Requests \cup {None}]
    BY DEF Init
  <2>4. pc \in [Requests -> ActivePlaces \cup {"idle", "done"}]
    BY DEF Init
  <2>5. ctxOf \in [Requests -> 0 .. MaxRuns] /\ runCtx \in 0 .. MaxRuns
    BY DEF Init
  <2>6. verdict \in [Requests -> Replies]
    BY <2>1 DEF Init
  <2>7. held \in [Monitors -> {None} \cup [entry : Requests, content : Contents]]
    BY DEF Init
  <2>8. QED
    BY <2>2, <2>3, <2>4, <2>5, <2>6, <2>7 DEF Init, TypeOK
<1>2. TypeOK /\ [Next]_vars => TypeOK'
  <2> SUFFICES ASSUME TypeOK, [Next]_vars PROVE TypeOK'
    OBVIOUS
  <2>1. ASSUME NEW r \in Requests, RequestStep(r) PROVE TypeOK'
    <3> USE <2>1 DEF TypeOK, ActivePlaces, runVars, Deny
    <3>0. DeniedReply \in Replies
      BY DEF Replies
    <3>1. CASE RejectUnroutable(r)
      BY <3>0, <3>1 DEF RejectUnroutable
    <3>2. CASE RejectBusy(r)
      BY <3>0, <3>2 DEF RejectBusy
    <3>3. CASE Register(r)
      BY <3>3 DEF Register, Unroutable
    <3>4. CASE ReadRunCtx(r)
      BY <3>4 DEF ReadRunCtx
    <3>5. CASE PromptFails(r) \/ Timeout(r) \/ RunEnds(r)
      <4>1. pc' = [pc EXCEPT ![r] = "leaving"] /\ verdict' = [verdict EXCEPT ![r] = DeniedReply]
        BY <3>5 DEF PromptFails, Timeout, RunEnds
      <4>2. UNCHANGED <<wait, ch, ctxOf, held, offered>> /\ UNCHANGED runVars
        BY <3>5 DEF PromptFails, Timeout, RunEnds
      <4>3. QED
        BY <3>0, <4>1, <4>2
    <3>9. CASE PromptSent(r)
      BY <3>9 DEF PromptSent
    <3>6. CASE ReceiveReply(r)
      <4>1. PICK v \in Replies : ch[r] = <<v>>
        BY <3>6 DEF ReceiveReply
      <4>2. Head(ch[r]) \in Replies /\ Tail(ch[r]) = <<>>
        BY <4>1
      <4>3. QED
        BY <3>6, <4>2 DEF ReceiveReply
    <3>7. CASE Leave(r)
      BY <3>7 DEF Leave
    <3>8. QED
      BY <2>1, <3>1, <3>2, <3>3, <3>4, <3>5, <3>6, <3>7, <3>9 DEF RequestStep
  <2>2. ASSUME NEW m \in Monitors, NEW k \in Keys, NEW c \in Contents,
               Lookup(m, k, c)
        PROVE  TypeOK'
    BY <2>2 DEF Lookup, TypeOK, reqVars, runVars
  <2>3. ASSUME NEW m \in Monitors, Deliver(m) PROVE TypeOK'
    <3>1. held[m].entry \in Requests /\ held[m].content \in Contents
      BY <2>3 DEF Deliver, TypeOK
    <3>2. ReadAs(held[m].content, BatchN[held[m].entry]) \in Replies
      BY <3>1, ReadAsIsReply
    <3>3. ch' \in [Requests -> {<<>>} \cup {<<v>> : v \in Replies}]
      BY <2>3, <3>1, <3>2 DEF Deliver, TypeOK
    <3>4. QED
      BY <2>3, <3>3 DEF Deliver, TypeOK, reqVars, runVars
  <2>4. CASE InitRun
    BY <2>4 DEF InitRun, TypeOK, reqVars
  <2>8. CASE InitBots
    BY <2>8 DEF InitBots, TypeOK, reqVars
  <2>5. CASE Shutdown
    BY <2>5 DEF Shutdown, TypeOK, reqVars
  <2>6. CASE UNCHANGED vars
    BY <2>6 DEF vars, reqVars, runVars, TypeOK
  <2>7. QED
    BY <2>1, <2>2, <2>3, <2>4, <2>5, <2>6, <2>8 DEF Next, MonitorStep, Quiescent
<1>3. QED
  BY <1>1, <1>2, PTL DEF Spec

(* The entries of the wait map are exactly those of the handlers at work:   *)
(* Leave deletes by key, which is safe only because Register refuses a      *)
(* conversation that has an entry.                                          *)
LEMMA OwnershipStep ==
    ASSUME TypeOK, EntryIsOwned, [Next]_vars
    PROVE  EntryIsOwned'
<1> USE DEF EntryIsOwned, TypeOK, Active, ActivePlaces, runVars, reqVars, Deny
<1>1. ASSUME NEW r \in Requests, RequestStep(r) PROVE EntryIsOwned'
  <2>1. CASE RejectUnroutable(r) \/ RejectBusy(r)
    BY <2>1 DEF RejectUnroutable, RejectBusy
  <2>2. CASE Register(r)
    BY <2>2 DEF Register, Unroutable
  <2>3. CASE ReadRunCtx(r) \/ PromptFails(r) \/ PromptSent(r)
    BY <2>3 DEF ReadRunCtx, PromptFails, PromptSent
  <2>4. CASE ReceiveReply(r) \/ Timeout(r) \/ RunEnds(r)
    <3>1. pc[r] = "waiting" /\ pc' = [pc EXCEPT ![r] = "leaving"] /\ wait' = wait
      BY <2>4 DEF ReceiveReply, Timeout, RunEnds
    <3>2. QED
      BY <3>1
  <2>5. CASE Leave(r)
    \* No other handler shares the key that is deleted.
    <3>1. Active(r) /\ KeyOf[r] \in Keys /\ wait[KeyOf[r]] = r
      BY <2>5 DEF Leave
    <3>2. \A s \in Requests : Active(s)' <=> Active(s) /\ s # r
      BY <2>5 DEF Leave
    <3>3. \A k \in Keys : wait'[k] = IF k = KeyOf[r] THEN None ELSE wait[k]
      BY <2>5 DEF Leave
    <3>4. QED
      BY <3>1, <3>2, <3>3
  <2>6. QED
    BY <1>1, <2>1, <2>2, <2>3, <2>4, <2>5 DEF RequestStep
<1>2. ASSUME NEW m \in Monitors, MonitorStep(m) PROVE EntryIsOwned'
  BY <1>2 DEF MonitorStep, Lookup, Deliver
<1>3. CASE InitBots \/ InitRun \/ Shutdown
  BY <1>3 DEF InitBots, InitRun, Shutdown
<1>4. CASE UNCHANGED vars
  BY <1>4 DEF vars
<1>5. QED
  BY <1>1, <1>2, <1>3, <1>4 DEF Next, Quiescent

(* No handler leaves an entry behind and none removes another's.            *)
THEOREM OwnershipHolds == Spec => []EntryIsOwned
<1>1. Init => EntryIsOwned
  BY DEF Init, EntryIsOwned, Active, ActivePlaces
<1>2. QED
  BY <1>1, OwnershipStep, TypeCorrect, PTL DEF Spec

(* Two handlers are never at work in one conversation.                      *)
THEOREM OneOpenPerConversation ==
    Spec => [](\A r, s \in Requests :
                  Active(r) /\ Active(s) /\ KeyOf[r] = KeyOf[s] => r = s)
<1>1. EntryIsOwned =>
        \A r, s \in Requests :
            Active(r) /\ Active(s) /\ KeyOf[r] = KeyOf[s] => r = s
  BY DEF EntryIsOwned
<1>2. QED
  BY <1>1, OwnershipHolds, PTL

(* Where a reply comes from at every place it passes: the monitor's hands,  *)
(* the channel, the handler's result.                                       *)
Provenance ==
    /\ \A m \in Monitors :
         held[m] # None => held[m].content \in offered[held[m].entry]
    /\ \A r \in Requests :
         ch[r] = <<>> \/ \E c \in offered[r] : ch[r] = <<ReadAs(c, BatchN[r])>>
    /\ GenuineApproval

\* Every step leaves each decision traceable to a reply.
LEMMA ProvenanceStep ==
    ASSUME TypeOK, Provenance, [Next]_vars
    PROVE  Provenance'
<1> USE DEF Provenance, GenuineApproval, TypeOK, runVars, reqVars, Deny
<1>1. ASSUME NEW r \in Requests, RequestStep(r) PROVE Provenance'
  <2>1. CASE ReceiveReply(r)
    <3>1. PICK c \in offered[r] : ch[r] = <<ReadAs(c, BatchN[r])>>
      BY <2>1 DEF ReceiveReply
    <3>2. Head(ch[r]) = ReadAs(c, BatchN[r]) /\ Tail(ch[r]) = <<>>
      BY <3>1
    <3>3. QED
      BY <2>1, <3>2 DEF ReceiveReply
  <2>2. CASE ~ReceiveReply(r)
    BY <1>1, <2>2 DEF RequestStep, RejectUnroutable, RejectBusy, Register,
       ReadRunCtx, PromptFails, PromptSent, Timeout, RunEnds, Leave
  <2>3. QED
    BY <2>1, <2>2
<1>2. ASSUME NEW m \in Monitors, NEW k \in Keys, NEW c \in Contents,
             Lookup(m, k, c)
      PROVE  Provenance'
  <2>1. wait[k] \in Requests
    BY <1>2 DEF Lookup
  <2>2. \A r \in Requests : offered[r] \subseteq offered'[r]
    BY <1>2, <2>1 DEF Lookup
  <2>3. \A n \in Monitors :
          held'[n] # None => held'[n].content \in offered'[held'[n].entry]
    BY <1>2, <2>1, <2>2 DEF Lookup
  <2>4. QED
    BY <1>2, <2>2, <2>3 DEF Lookup
<1>3. ASSUME NEW m \in Monitors, Deliver(m) PROVE Provenance'
  <2> DEFINE r == held[m].entry
  <2>1. r \in Requests /\ held[m].content \in offered[r]
    BY <1>3 DEF Deliver
  <2>2. \A s \in Requests :
          \/ ch'[s] = ch[s]
          \/ s = r /\ ch'[s] = <<ReadAs(held[m].content, BatchN[s])>>
    BY <1>3, <2>1 DEF Deliver
  <2>3. QED
    BY <1>3, <2>1, <2>2 DEF Deliver
<1>4. CASE InitBots \/ InitRun \/ Shutdown \/ UNCHANGED vars
  BY <1>4 DEF InitBots, InitRun, Shutdown, vars
<1>5. QED
  BY <1>1, <1>2, <1>3, <1>4 DEF Next, MonitorStep, Quiescent

(* A request is granted only by a text that was looked up while it was      *)
(* registered, read the way it asks.                                        *)
THEOREM GenuineHolds == Spec => []GenuineApproval
<1>1. Init => Provenance
  BY DEF Init, Provenance, GenuineApproval
<1>2. Provenance => GenuineApproval
  BY DEF Provenance
<1>3. QED
  BY <1>1, <1>2, ProvenanceStep, TypeCorrect, PTL DEF Spec

(* p.cancel ends the run in force until it is used up, and every run before *)
(* it has been ended: Init cancels what it replaces, Shutdown what there is. *)
RunInv ==
    /\ cancelSet => runCtx # 0
    /\ \A n \in 1 .. runCtx : n \in ended \/ (n = runCtx /\ cancelSet)
    /\ \A r \in Requests : ctxOf[r] <= runCtx

\* Every step leaves every run ended or in reach of p.cancel.
LEMMA RunStep ==
    ASSUME TypeOK, RunInv, [Next]_vars
    PROVE  RunInv'
<1> USE DEF RunInv, TypeOK
<1>1. ASSUME NEW r \in Requests, RequestStep(r) PROVE RunInv'
  <2>1. CASE ReadRunCtx(r)
    BY <2>1 DEF ReadRunCtx, runVars
  <2>2. CASE ~ReadRunCtx(r)
    <3>1. UNCHANGED <<ctxOf, runVars>>
      BY <1>1, <2>2 DEF RequestStep, RejectUnroutable, RejectBusy, Register, PromptFails,
         PromptSent, ReceiveReply, Timeout, RunEnds, Leave
    <3>2. QED
      BY <3>1 DEF runVars
  <2>3. QED
    BY <2>1, <2>2
<1>2. ASSUME NEW m \in Monitors, MonitorStep(m) PROVE RunInv'
  BY <1>2 DEF MonitorStep, Lookup, Deliver, reqVars, runVars
<1>3. CASE InitBots
  BY <1>3 DEF InitBots, reqVars
<1>4. CASE InitRun
  BY <1>4 DEF InitRun, reqVars
<1>5. CASE Shutdown
  BY <1>5 DEF Shutdown, reqVars
<1>6. CASE UNCHANGED vars
  BY <1>6 DEF vars, reqVars, runVars
<1>7. QED
  BY <1>1, <1>2, <1>3, <1>4, <1>5, <1>6 DEF Next, Quiescent

(* A handler that read a run, whichever it was, has had its wait ended or   *)
(* can still be ended by p.cancel (waitApproval, Init, Shutdown).           *)
THEOREM WaitIsCancellableHolds == Spec => []WaitIsCancellable
<1>1. Init => RunInv
  BY DEF Init, RunInv
<1>2. TypeOK /\ RunInv => WaitIsCancellable
  BY DEF TypeOK, RunInv, WaitIsCancellable
<1>3. QED
  BY <1>1, <1>2, RunStep, TypeCorrect, PTL DEF Spec

(* Both modules read replies with the operators of ApprovalReply.           *)
LEMMA SameDenied == Service!DeniedReply = DeniedReply
  BY DEF DeniedReply, Service!DeniedReply, Reply, Service!Reply,
     choiceDenied, Service!choiceDenied

\* The abstract service reads a reply as the approver does.
LEMMA SameReading ==
    ASSUME NEW c, NEW n
    PROVE  Service!ReadAs(c, n) = ReadAs(c, n)
<1>1. Service!WordChoice(c.word) = WordChoice(c.word)
  BY DEF WordChoice, Service!WordChoice,
     choiceDenied, choiceApprovedOnce, choiceApprovedSess, choiceApprovedAlways,
     Service!choiceDenied, Service!choiceApprovedOnce,
     Service!choiceApprovedSess, Service!choiceApprovedAlways
<1>2. Service!ValidIndices(c.fields, n) = ValidIndices(c.fields, n)
  BY DEF ValidIndices, Service!ValidIndices
<1>3. Service!parseApprovalIndices(c.fields) = parseApprovalIndices(c.fields)
  BY DEF parseApprovalIndices, Service!parseApprovalIndices
<1>4. QED
  BY <1>1, <1>2, <1>3
  DEF ReadAs, parseApprovalChoice, parseBatchApprovalChoice, Reply, choiceApprovedOnce,
      Service!ReadAs, Service!parseApprovalChoice, Service!parseBatchApprovalChoice,
      Service!Reply, Service!choiceApprovedOnce

(* The approver implements the abstract service, in which only the answers, *)
(* the open questions and the texts offered to them are visible: a lookup   *)
(* of a monitor is an offer, and the deferred delete closes the question.   *)
THEOREM ServiceImplemented == Spec => ImplementsService
<1>1. Init => Service!Init
  <2> SUFFICES ASSUME Init PROVE Service!Init
    OBVIOUS
  <2>1. Status = [r \in Requests |-> "new"]
    BY DEF Init, Status
  <2>2. Answer = [r \in Requests |-> DeniedReply]
    BY DEF Init, Answer
  <2>3. QED
    BY <2>1, <2>2, SameDenied DEF Init, Service!Init
<1>2. TypeOK /\ EntryIsOwned /\ GenuineApproval /\ [Next]_vars
        => [Service!Next]_Service!vars
  <2> SUFFICES ASSUME TypeOK, EntryIsOwned, GenuineApproval, [Next]_vars
               PROVE  [Service!Next]_Service!vars
    OBVIOUS
  <2> USE DEF TypeOK, ActivePlaces, Status, Answer, reqVars, runVars, Service!vars
  <2>0. \A r \in Requests : Status[r] = "open" <=> Active(r)
    BY DEF Active
  <2>1. ASSUME NEW r \in Requests, RejectUnroutable(r) \/ RejectBusy(r)
        PROVE  Service!Reject(r)
    <3>1. Status[r] = "new" /\ offered' = offered
      BY <2>1 DEF RejectUnroutable, RejectBusy
    <3>2. Status' = [Status EXCEPT ![r] = "closed"]
      BY <2>1 DEF RejectUnroutable, RejectBusy
    <3>3. Answer' = Answer
      BY <2>1 DEF RejectUnroutable, RejectBusy, Deny
    <3>4. QED
      BY <3>1, <3>2, <3>3 DEF Service!Reject
  <2>2. ASSUME NEW r \in Requests, Register(r) PROVE Service!Open(r)
    <3>1. Status[r] = "new" /\ KeyOf[r] \in Keys /\ offered' = offered
      BY <2>2 DEF Register, Unroutable
    <3>2. \A s \in Requests : KeyOf[s] = KeyOf[r] => Status[s] # "open"
      <4> HIDE DEF Status
      <4>1. wait[KeyOf[r]] = None
        BY <2>2 DEF Register
      <4>2. QED
        BY <2>0, <3>1, <4>1 DEF EntryIsOwned
    <3>3. Status' = [Status EXCEPT ![r] = "open"] /\ Answer' = Answer
      BY <2>2 DEF Register
    <3>4. QED
      BY <3>1, <3>2, <3>3 DEF Service!Open
  <2>3. ASSUME NEW r \in Requests,
               \/ ReadRunCtx(r) \/ PromptFails(r) \/ PromptSent(r)
               \/ ReceiveReply(r) \/ Timeout(r) \/ RunEnds(r)
        PROVE  UNCHANGED Service!vars
    <3>1. Status' = Status
      BY <2>3 DEF ReadRunCtx, PromptFails, PromptSent, ReceiveReply, Timeout, RunEnds
    <3>2. Answer' = Answer
      BY <2>3
      DEF ReadRunCtx, PromptFails, PromptSent, ReceiveReply, Timeout, RunEnds, Deny
    <3>3. QED
      BY <2>3, <3>1, <3>2
      DEF ReadRunCtx, PromptFails, PromptSent, ReceiveReply, Timeout, RunEnds
  <2>4. ASSUME NEW r \in Requests, Leave(r) PROVE Service!Close(r)
    <3>1. Status[r] = "open" /\ offered' = offered
      BY <2>4 DEF Leave
    <3>2. Status' = [Status EXCEPT ![r] = "closed"]
      BY <2>4 DEF Leave
    <3>3. Answer' = [Answer EXCEPT ![r] = verdict[r]]
      BY <2>4 DEF Leave
    <3>4. verdict[r] \in {Service!DeniedReply}
                           \cup {Service!ReadAs(c, BatchN[r]) : c \in offered[r]}
      BY SameDenied, SameReading DEF GenuineApproval
    <3>5. QED
      BY <3>1, <3>2, <3>3, <3>4 DEF Service!Close
  <2>5. ASSUME NEW m \in Monitors, NEW k \in Keys, NEW c \in Contents,
               Lookup(m, k, c)
        PROVE  wait[k] \in Requests /\ Service!Offer(wait[k], c)
    <3>1. wait[k] \in Requests
      BY <2>5 DEF Lookup
    <3>2. Status[wait[k]] = "open"
      BY <2>0, <3>1 DEF EntryIsOwned
    <3>3. QED
      BY <2>5, <3>1, <3>2 DEF Lookup, Service!Offer
  <2>6. CASE (\E m \in Monitors : Deliver(m)) \/ InitBots \/ InitRun \/ Shutdown
    BY <2>6 DEF Deliver, InitBots, InitRun, Shutdown
  <2>7. CASE UNCHANGED vars
    BY <2>7 DEF vars
  <2>8. QED
    <3>1. CASE \E r \in Requests : RequestStep(r)
      BY <2>1, <2>2, <2>3, <2>4, <3>1 DEF RequestStep, Service!Next
    <3>2. CASE \E m \in Monitors : MonitorStep(m)
      BY <2>5, <2>6, <3>2 DEF MonitorStep, Service!Next
    <3>3. QED
      BY <2>6, <2>7, <3>1, <3>2 DEF Next, Quiescent
<1>3. QED
  BY <1>1, <1>2, TypeCorrect, OwnershipHolds, GenuineHolds, PTL
  DEF Spec, ImplementsService, Service!Spec
=============================================================================
