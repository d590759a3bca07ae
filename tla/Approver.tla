------------------------------ MODULE Approver ------------------------------
(***************************************************************************)
(* Chat approvals (internal/weixin/approver.go). The host calls            *)
(* RequestApproval or RequestBatchApproval, each call on a goroutine of    *)
(* its own; the handler registers the conversation in the `wait` map,      *)
(* sends the prompt and waits for a reply, the timer or the end of the     *)
(* run. Monitor goroutines, one per bot, resolve replies from the chat.    *)
(*                                                                         *)
(* Two locks are visible in the grain of the actions: the map is read and  *)
(* written under a.mu, but a monitor sends the parsed reply to the channel *)
(* of the entry after unlocking, so anything can happen in between.        *)
(***************************************************************************)
EXTENDS ApprovalReply, FiniteSets

CONSTANTS
    Requests,    \* calls of the host that ask for an approval
    Keys,        \* approvalWaitKey: one per conversation of a bot
    NoKey,       \* key of a tape that names no conversation of a bot
    KeyOf,       \* [Requests -> Keys \cup {NoKey}]
    BatchN,      \* [Requests -> Nat]: commands of a batch, 0 for a single one
    Monitors,    \* monitor goroutines
    Contents,    \* texts a user may send
    None,        \* nil
    MaxRuns      \* bound on the calls of Init the model makes

ASSUME ApproverAssumption ==
    /\ KeyOf \in [Requests -> Keys \cup {NoKey}]
    /\ BatchN \in [Requests -> Nat]
    /\ NoKey \notin Keys
    /\ None \notin Requests
    /\ MaxRuns \in Nat

VARIABLES
    wait,        \* a.wait: conversation -> registered request, or None
    ch,          \* the request's channel, capacity 1
    pc,          \* where the request's handler is
    ctxOf,       \* run whose context the handler waits on; 0: Background
    verdict,     \* what the handler returns
    held,        \* what a monitor carries from the map lookup to the send
    botsSet,     \* p.bots is not empty
    runCtx,      \* p.runCtx, as the number of the Init call that made it
    ended,       \* runs whose context is cancelled
    cancelSet,   \* p.cancel # nil
    shutdownDone,\* the sync.Once of Shutdown has run
    offered      \* ghost: texts looked up while the request was registered

reqVars == <<wait, pc, ctxOf, verdict>>
runVars == <<botsSet, runCtx, ended, cancelSet, shutdownDone>>
vars == <<reqVars, ch, held, runVars, offered>>

Replies == {ReadAs(c, BatchN[r]) : c \in Contents, r \in Requests} \cup {DeniedReply}

(* Places between Register and Leave, where the handler owns its entry. *)
ActivePlaces == {"registered", "sending", "waiting", "leaving"}

Init ==
    /\ wait = [k \in Keys |-> None]
    /\ ch = [r \in Requests |-> <<>>]
    /\ pc = [r \in Requests |-> "idle"]
    /\ ctxOf = [r \in Requests |-> 0]
    /\ verdict = [r \in Requests |-> DeniedReply]
    /\ held = [m \in Monitors |-> None]
    /\ botsSet = FALSE
    /\ runCtx = 0
    /\ ended = {}
    /\ cancelSet = FALSE
    /\ shutdownDone = FALSE
    /\ offered = [r \in Requests |-> {}]

\* approvalReply{choice: choiceDenied}
Deny(r) == verdict' = [verdict EXCEPT ![r] = DeniedReply]

-----------------------------------------------------------------------------
(* Faulty variants of actions below, used only to show that the properties  *)
(* can fail; Next uses none of them.                                        *)

\* No look at who is registered.
RegisterOverPending(r) ==
    /\ pc[r] = "idle"
    /\ KeyOf[r] # NoKey /\ botsSet
    /\ wait' = [wait EXCEPT ![KeyOf[r]] = r]
    /\ pc' = [pc EXCEPT ![r] = "registered"]
    /\ UNCHANGED <<ch, ctxOf, verdict, held, offered>> /\ UNCHANGED runVars

\* An early return placed before the deferred delete.
PromptFailsWithoutCleanup(r) ==
    /\ pc[r] = "sending"
    /\ pc' = [pc EXCEPT ![r] = "done"]
    /\ Deny(r)
    /\ UNCHANGED <<wait, ch, ctxOf, held, offered>> /\ UNCHANGED runVars

\* A wait without a timer.
TimeoutNever(r) == pc[r] = "waiting" /\ pc[r] = "leaving" /\ UNCHANGED vars

\* The map is read again at the send instead of keeping the entry.
DeliverToCurrentEntry(m) ==
    /\ held[m] # None
    /\ LET r == wait[KeyOf[held[m].entry]]
       IN  ch' = IF r # None /\ ch[r] = <<>>
                 THEN [ch EXCEPT ![r] = <<ReadAs(held[m].content, BatchN[r])>>]
                 ELSE ch
    /\ held' = [held EXCEPT ![m] = None]
    /\ UNCHANGED <<runVars, offered>> /\ UNCHANGED reqVars

\* A send without the `default:` of the select.
DeliverBlocking(m) ==
    /\ held[m] # None
    /\ LET r == held[m].entry
       IN  /\ ch[r] = <<>>
           /\ ch' = [ch EXCEPT ![r] = <<ReadAs(held[m].content, BatchN[r])>>]
    /\ held' = [held EXCEPT ![m] = None]
    /\ UNCHANGED <<runVars, offered>> /\ UNCHANGED reqVars

\* A channel of any capacity.
DeliverUnbounded(m) ==
    /\ held[m] # None
    /\ LET r == held[m].entry
       IN  ch' = [ch EXCEPT ![r] = Append(@, ReadAs(held[m].content, BatchN[r]))]
    /\ held' = [held EXCEPT ![m] = None]
    /\ UNCHANGED <<runVars, offered>> /\ UNCHANGED reqVars

\* The run it replaces goes on.
InitRunBeside ==
    /\ botsSet /\ runCtx < MaxRuns
    /\ runCtx' = runCtx + 1
    /\ cancelSet' = TRUE
    /\ UNCHANGED <<botsSet, ended, shutdownDone, ch, held, offered>> /\ UNCHANGED reqVars

-----------------------------------------------------------------------------
(* The handler of one request *)

\* The tape is not a conversation of a bot; before Init there is no bot at all.
Unroutable(r) == KeyOf[r] = NoKey \/ ~botsSet

RejectUnroutable(r) ==
    /\ pc[r] = "idle"
    /\ Unroutable(r)
    /\ pc' = [pc EXCEPT ![r] = "done"]
    /\ Deny(r)
    /\ UNCHANGED <<wait, ch, ctxOf, held, offered>> /\ UNCHANGED runVars

\* Another request is pending in the conversation: denied at once.
RejectBusy(r) ==
    /\ pc[r] = "idle"
    /\ ~Unroutable(r)
    /\ wait[KeyOf[r]] # None
    /\ pc' = [pc EXCEPT ![r] = "done"]
    /\ Deny(r)
    /\ UNCHANGED <<wait, ch, ctxOf, held, offered>> /\ UNCHANGED runVars

Register(r) ==
    /\ pc[r] = "idle"
    /\ ~Unroutable(r)
    /\ wait[KeyOf[r]] = None
    /\ wait' = [wait EXCEPT ![KeyOf[r]] = r]
    /\ pc' = [pc EXCEPT ![r] = "registered"]
    /\ UNCHANGED <<ch, ctxOf, verdict, held, offered>> /\ UNCHANGED runVars

\* p.runCtx is read without runMu, after the entry is visible to monitors;
\* during the first Init it may be nil still.
ReadRunCtx(r) ==
    /\ pc[r] = "registered"
    /\ ctxOf' = [ctxOf EXCEPT ![r] = runCtx]
    /\ pc' = [pc EXCEPT ![r] = "sending"]
    /\ UNCHANGED <<wait, ch, verdict, held, offered>> /\ UNCHANGED runVars

\* No context token for the peer, or the gateway refused the prompt.
PromptFails(r) ==
    /\ pc[r] = "sending"
    /\ pc' = [pc EXCEPT ![r] = "leaving"]
    /\ Deny(r)
    /\ UNCHANGED <<wait, ch, ctxOf, held, offered>> /\ UNCHANGED runVars

\* With a token, which a monitor of some run has stored.
PromptSent(r) ==
    /\ pc[r] = "sending"
    /\ runCtx # 0
    /\ pc' = [pc EXCEPT ![r] = "waiting"]
    /\ UNCHANGED <<wait, ch, ctxOf, verdict, held, offered>> /\ UNCHANGED runVars

ReceiveReply(r) ==
    /\ pc[r] = "waiting"
    /\ ch[r] # <<>>
    /\ verdict' = [verdict EXCEPT ![r] = Head(ch[r])]
    /\ ch' = [ch EXCEPT ![r] = Tail(ch[r])]
    /\ pc' = [pc EXCEPT ![r] = "leaving"]
    /\ UNCHANGED <<wait, ctxOf, held, offered>> /\ UNCHANGED runVars

\* The select may take the timer even when a reply is ready.
Timeout(r) ==
    /\ pc[r] = "waiting"
    /\ pc' = [pc EXCEPT ![r] = "leaving"]
    /\ Deny(r)
    /\ UNCHANGED <<wait, ch, ctxOf, held, offered>> /\ UNCHANGED runVars

RunEnds(r) ==
    /\ pc[r] = "waiting"
    /\ ctxOf[r] \in ended
    /\ pc' = [pc EXCEPT ![r] = "leaving"]
    /\ Deny(r)
    /\ UNCHANGED <<wait, ch, ctxOf, held, offered>> /\ UNCHANGED runVars

\* The deferred delete removes the key, whoever is registered under it.
Leave(r) ==
    /\ pc[r] = "leaving"
    /\ wait' = [wait EXCEPT ![KeyOf[r]] = None]
    /\ pc' = [pc EXCEPT ![r] = "done"]
    /\ UNCHANGED <<ch, ctxOf, verdict, held, offered>> /\ UNCHANGED runVars

-----------------------------------------------------------------------------
(* tryResolveApproval, on a monitor goroutine *)

\* An entry is found and the lock released; with no entry the message is
\* handled as an ordinary one and nothing changes here.
Lookup(m, k, c) ==
    /\ runCtx # 0
    /\ held[m] = None
    /\ wait[k] # None
    /\ held' = [held EXCEPT ![m] = [entry |-> wait[k], content |-> c]]
    /\ offered' = [offered EXCEPT ![wait[k]] = @ \cup {c}]
    /\ UNCHANGED <<ch, runVars>> /\ UNCHANGED reqVars

\* The channel of the entry found earlier; a second reply is dropped.
Deliver(m) ==
    /\ held[m] # None
    /\ LET r == held[m].entry
           reply == ReadAs(held[m].content, BatchN[r])
       IN  ch' = IF ch[r] = <<>> THEN [ch EXCEPT ![r] = <<reply>>] ELSE ch
    /\ held' = [held EXCEPT ![m] = None]
    /\ UNCHANGED <<runVars, offered>> /\ UNCHANGED reqVars

-----------------------------------------------------------------------------
(* The plugin's run: Init cancels the run it replaces, Shutdown works once *)

\* The first Init: its bots can be reached before its run is there.
InitBots ==
    /\ ~botsSet
    /\ botsSet' = TRUE
    /\ UNCHANGED <<runCtx, ended, cancelSet, shutdownDone, ch, held, offered>>
    /\ UNCHANGED reqVars

InitRun ==
    /\ botsSet /\ runCtx < MaxRuns
    /\ ended' = IF cancelSet THEN ended \cup {runCtx} ELSE ended
    /\ runCtx' = runCtx + 1
    /\ cancelSet' = TRUE
    /\ UNCHANGED <<botsSet, shutdownDone, ch, held, offered>> /\ UNCHANGED reqVars

Shutdown ==
    /\ ~shutdownDone
    /\ ended' = IF cancelSet THEN ended \cup {runCtx} ELSE ended
    /\ cancelSet' = FALSE
    /\ shutdownDone' = TRUE
    /\ UNCHANGED <<botsSet, runCtx, ch, held, offered>> /\ UNCHANGED reqVars

\* Every request is answered and every monitor idle: the host may ask nothing more.
Quiescent ==
    /\ \A r \in Requests : pc[r] = "done"
    /\ \A m \in Monitors : held[m] = None
    /\ UNCHANGED vars

RequestStep(r) ==
    \/ RejectUnroutable(r) \/ RejectBusy(r) \/ Register(r) \/ ReadRunCtx(r)
    \/ PromptFails(r) \/ PromptSent(r) \/ ReceiveReply(r) \/ Timeout(r)
    \/ RunEnds(r) \/ Leave(r)

MonitorStep(m) ==
    \/ \E k \in Keys, c \in Contents : Lookup(m, k, c)
    \/ Deliver(m)

Next ==
    \/ \E r \in Requests : RequestStep(r)
    \/ \E m \in Monitors : MonitorStep(m)
    \/ InitBots
    \/ InitRun
    \/ Shutdown
    \/ Quiescent

\* A handler that has started runs on; its HTTP calls have a timeout and its
\* timer fires. Nothing obliges the host to ask or a user to answer.
Fairness ==
    /\ \A r \in Requests :
        /\ WF_vars(ReadRunCtx(r))
        /\ WF_vars(PromptFails(r) \/ PromptSent(r))
        /\ WF_vars(Timeout(r))
        /\ WF_vars(Leave(r))
    /\ \A m \in Monitors : WF_vars(Deliver(m))

Spec == Init /\ [][Next]_vars

FairSpec == Spec /\ Fairness

-----------------------------------------------------------------------------
(* Properties *)

\* Every variable has its type; a channel never holds more than its capacity.
TypeOK ==
    /\ wait \in [Keys -> Requests \cup {None}]
    /\ ch \in [Requests -> {<<>>} \cup {<<v>> : v \in Replies}]
    /\ pc \in [Requests -> ActivePlaces \cup {"idle", "done"}]
    /\ ctxOf \in [Requests -> 0 .. MaxRuns]
    /\ verdict \in [Requests -> Replies]
    /\ held \in [Monitors -> {None} \cup [entry : Requests, content : Contents]]
    /\ botsSet \in BOOLEAN
    /\ runCtx \in 0 .. MaxRuns
    /\ ended \subseteq 0 .. MaxRuns
    /\ cancelSet \in BOOLEAN
    /\ shutdownDone \in BOOLEAN
    /\ offered \in [Requests -> SUBSET Contents]

Active(r) == pc[r] \in ActivePlaces

\* Although the deferred delete is by key and not by owner, the entry of a
\* conversation is always that of the one handler at work on it: no entry is
\* left behind by a handler that returned (every later approval would be
\* denied as busy), and none is removed under the feet of another.
EntryIsOwned ==
    /\ \A r \in Requests : Active(r) => KeyOf[r] \in Keys
    /\ \A k \in Keys, r \in Requests :
         wait[k] = r <=> Active(r) /\ KeyOf[r] = k

\* A request is granted only by a text that arrived in its own conversation
\* while it was the registered one, read the way this request asks (a batch
\* of N by its own N): a reply carried across the unlock never answers a
\* later request, however the monitors and handlers interleave.
GenuineApproval ==
    \A r \in Requests :
        verdict[r] = DeniedReply
        \/ \E c \in offered[r] : verdict[r] = ReadAs(c, BatchN[r])

\* Whatever run a handler read while Inits and a Shutdown went on, its wait has
\* been ended or p.cancel can still end it: no handler is left on a run that
\* was replaced and is out of reach. Only one that found no run, during the
\* first Init, has nothing but its timer.
WaitIsCancellable ==
    \A r \in Requests :
        pc[r] \in {"sending", "waiting"} =>
            ctxOf[r] = 0 \/ ctxOf[r] \in ended \/ (ctxOf[r] = runCtx /\ cancelSet)

\* Every handler that registers returns an answer to the host, whether the
\* user answers or not: the host's tool call is never stuck for ever.
EveryRequestAnswered ==
    \A r \in Requests : pc[r] = "registered" ~> pc[r] = "done"

\* Resolving a reply never blocks the monitor, which polls for all the bot's
\* conversations, even when the request is gone or was answered already.
MonitorNeverBlocks ==
    \A m \in Monitors : held[m] # None ~> held[m] = None

\* What the host sees of a request, with the map, channels and runs hidden.
Status == [r \in Requests |-> CASE pc[r] = "idle" -> "new"
                                [] pc[r] = "done" -> "closed"
                                [] OTHER          -> "open"]

Answer == [r \in Requests |-> IF pc[r] = "done" THEN verdict[r] ELSE DeniedReply]

Service == INSTANCE ApprovalService WITH status <- Status, answer <- Answer

\* What the host may rely on: the approver implements ApprovalService.
ImplementsService == Service!Spec
=============================================================================
