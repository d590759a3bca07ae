------------------------------ MODULE Outbound ------------------------------
(***************************************************************************)
(* What one bot sends: the worker's replies and the approver's prompts     *)
(* (internal/weixin/reply.go), and the tools weixinSendText and            *)
(* weixinSendFile (send_text_tool.go, send_file_tool.go, media_upload.go,  *)
(* cdn_upload.go), each a send of its own, all at once, through the calls  *)
(* of gateway_client.go. A text leaves in chunks, a file is uploaded and   *)
(* then leaves as an optional caption and a medium; every message is       *)
(* wrapped in calls that switch the user's typing indicator on and off.    *)
(*                                                                         *)
(* A call to the gateway may fail before or after it had its effect, or    *)
(* have it after the caller gave it up; once the context of its send has   *)
(* ended it is not made at all.                                            *)
(***************************************************************************)
EXTENDS Naturals, Sequences

CONSTANTS
    Peers,          \* users
    Senders,        \* sends, each in a goroutine of its own
    Requests,       \* what may be sent
    ChunkRunes,     \* runes of a chunk, maxWeixinChunkRunes (4000)
    MaxChunks,      \* texts are cut after so many chunks (20)
    ApprovalRunes,  \* prompts are cut earlier (12000)
    CutMark,        \* runes of the mark put after a cut text (14)
    MaxAttempts,    \* uploadMaxRetries (3)
    CdnBase         \* whether cdn_base_url is configured

Kinds == {"reply", "approval", "text", "file"}

\* inside: called in a run of this user's conversation; own: the run's message
\* had a token; size: runes of the text or caption; remote: the file is a URL.
RequestType ==
    [kind : Kinds, peer : Peers, inside : BOOLEAN, own : BOOLEAN, size : Nat, remote : BOOLEAN]

ASSUME OutboundAssumption ==
    /\ Requests \subseteq RequestType
    /\ ChunkRunes \in Nat \ {0} /\ MaxChunks \in Nat \ {0}
    /\ ApprovalRunes \in Nat /\ CutMark \in Nat
    /\ MaxAttempts \in Nat \ {0}
    /\ CdnBase \in BOOLEAN

VARIABLES
    live,       \* p.runCtx has not ended
    tokens,     \* users the bot has a context token of
    tickets,    \* users the bot has a typing ticket of
    pc,         \* where a send is
    req,        \* what it sends
    dead,       \* its context has ended
    armed,      \* it found a context token
    total,      \* what it has to send: runes of a text, items of a file
    off,        \* how much of that the gateway acknowledged
    ticket,     \* whether it read a ticket for the message at hand
    posted,     \* whether the gateway acknowledged the message at hand
    tries,      \* uploads tried
    late,       \* calls given up that may still have their effect
    typing,     \* the indicator of a user, as the gateway shows it
    stopFailed, \* ghost: the latest call to switch it off failed
    stray,      \* ghost: one to switch it on came late, after which none to
                \* switch it off had an effect
    got,        \* ghost: parts of a send that reached the user, <<from, to>>
    uploaded    \* ghost: the file of a send is on the CDN

sendVars == <<pc, req, dead, armed, total, off, ticket, posted, tries>>
gatewayVars == <<late, typing, stopFailed, stray, got, uploaded>>
vars == <<live, tokens, tickets, sendVars, gatewayVars>>

\* The value of req before a send begins.
NoRequest == [kind |-> "none"]

Init ==
    /\ live = TRUE
    /\ tokens = {} /\ tickets = {}
    /\ pc = [s \in Senders |-> "new"]
    /\ req = [s \in Senders |-> NoRequest]
    /\ dead = [s \in Senders |-> FALSE]
    /\ armed = [s \in Senders |-> FALSE]
    /\ total = [s \in Senders |-> 0]
    /\ off = [s \in Senders |-> 0]
    /\ ticket = [s \in Senders |-> FALSE]
    /\ posted = [s \in Senders |-> FALSE]
    /\ tries = [s \in Senders |-> 0]
    /\ late = {} /\ typing = {} /\ stopFailed = {} /\ stray = {}
    /\ got = [s \in Senders |-> <<>>]
    /\ uploaded = [s \in Senders |-> FALSE]

Ended == {"ok", "failed"}

\* How a call to the gateway may end for a send: `reached` when it has its
\* effect at once, `late` when it may have it after its failure.
Outcomes(s) ==
    {o \in [reached : BOOLEAN, ok : BOOLEAN, late : BOOLEAN] :
        /\ o.ok => o.reached
        /\ o.late => ~o.reached
        /\ dead[s] => ~o.reached /\ ~o.late}

\* The call a send makes about the message at hand.
CallOf(s, what) == [what |-> what, by |-> s, at |-> off[s]]

\* The first part of a send, the end of the part at hand, and the part.
First(s) == IF req[s].kind = "file" /\ req[s].size = 0 THEN 1 ELSE 0
Step(s) == IF req[s].kind = "file" THEN 1 ELSE ChunkRunes
PartEnd(s, from) == IF from + Step(s) > total[s] THEN total[s] ELSE from + Step(s)
PartFrom(s, from) == <<from, PartEnd(s, from)>>
Part(s) == PartFrom(s, off[s])

-----------------------------------------------------------------------------
(* Faulty variants, used only to show that the properties can fail *)

\* An error of a message is ignored.
ProceedRegardless(s, ok) ==
    /\ off' = [off EXCEPT ![s] = PartEnd(s, off[s])]
    /\ pc' = [pc EXCEPT ![s] = IF PartEnd(s, off[s]) < total[s] THEN "part" ELSE "ok"]

-----------------------------------------------------------------------------
(* Steps shared by actions *)

\* A try of the upload, before its outcome.
UploadStep(s) ==
    /\ pc[s] = "cdn"
    /\ tries' = [tries EXCEPT ![s] = @ + 1]
    /\ UNCHANGED <<live, tokens, tickets, req, dead, armed, total, off, ticket, posted,
                   late, typing, stopFailed, stray, got>>

\* A call that was given up may be answered later.
GiveUp(s, what, o) == late' = IF o.late THEN late \cup {CallOf(s, what)} ELSE late

PostEffect(s, o) ==
    /\ GiveUp(s, "post", o)
    /\ got' = IF o.reached THEN [got EXCEPT ![s] = Append(@, Part(s))] ELSE got
    /\ posted' = [posted EXCEPT ![s] = o.ok]

\* After a message: the next part, the end, or an error that ends the send.
Proceed(s, ok) ==
    /\ off' = IF ok THEN [off EXCEPT ![s] = PartEnd(s, off[s])] ELSE off
    /\ pc' = [pc EXCEPT ![s] = IF ~ok THEN "failed"
                               ELSE IF PartEnd(s, off[s]) < total[s] THEN "part" ELSE "ok"]

-----------------------------------------------------------------------------
(* More faulty variants *)

\* One upload too many.
UploadFailsOnceMore(s) ==
    /\ UploadStep(s)
    /\ pc' = [pc EXCEPT ![s] = IF tries[s] < MaxAttempts THEN "cdn" ELSE "failed"]
    /\ UNCHANGED uploaded

\* The caption leaves before the upload.
CaptionFirst(s) ==
    /\ pc[s] = "resolve" /\ req[s].kind = "file"
    /\ armed' = [armed EXCEPT ![s] = req[s].peer \in tokens]
    /\ total' = [total EXCEPT ![s] = 2]
    /\ off' = [off EXCEPT ![s] = First(s)]
    /\ pc' = [pc EXCEPT ![s] = IF First(s) = 0 THEN "part" ELSE "url"]
    /\ UNCHANGED <<live, tokens, tickets, req, dead, ticket, posted, tries, gatewayVars>>

\* A message that failed is posted again.
PostRetries(s) ==
    /\ pc[s] = "post"
    /\ \E o \in Outcomes(s) :
           /\ PostEffect(s, o)
           /\ IF ~o.ok THEN UNCHANGED <<pc, off>> ELSE Proceed(s, o.ok)
    /\ UNCHANGED <<live, tokens, tickets, req, dead, armed, total, ticket, tries,
                   typing, stopFailed, stray, uploaded>>

\* An error of the message returns before the indicator is switched off.
PostReturnsEarly(s) ==
    /\ pc[s] = "post"
    /\ \E o \in Outcomes(s) :
           /\ PostEffect(s, o)
           /\ IF ticket[s] /\ o.ok THEN pc' = [pc EXCEPT ![s] = "stop"] /\ UNCHANGED off
                                   ELSE Proceed(s, o.ok)
    /\ UNCHANGED <<live, tokens, tickets, req, dead, armed, total, ticket, tries,
                   typing, stopFailed, stray, uploaded>>

-----------------------------------------------------------------------------
(* The plugin and the monitors around the sends *)

\* Shutdown, or an Init that replaces the run: tools and prompts under way hold
\* the context that ends, replies have one that never does.
EndRun(again) ==
    /\ live' = again
    /\ dead' = [s \in Senders |-> dead[s] \/ (pc[s] \notin Ended \cup {"new"}
                                              /\ req[s].kind # "reply")]
    /\ UNCHANGED <<tokens, tickets, pc, req, armed, total, off, ticket, posted, tries,
                   gatewayVars>>

LearnToken(p) ==
    /\ p \notin tokens
    /\ tokens' = tokens \cup {p}
    /\ UNCHANGED <<live, tickets, sendVars, gatewayVars>>

LearnTicket(p) ==
    /\ p \notin tickets
    /\ tickets' = tickets \cup {p}
    /\ UNCHANGED <<live, tokens, sendVars, gatewayVars>>

-----------------------------------------------------------------------------
(* What is sent, and with which token *)

Begin(s, r) ==
    /\ pc[s] = "new"
    /\ req' = [req EXCEPT ![s] = r]
    /\ dead' = [dead EXCEPT ![s] = r.kind # "reply" /\ ~live]
    /\ pc' = [pc EXCEPT ![s] = IF r.kind = "file" /\ r.remote THEN "fetch" ELSE "resolve"]
    /\ UNCHANGED <<live, tokens, tickets, armed, total, off, ticket, posted, tries, gatewayVars>>

\* downloadRemoteFile, before anything else is looked at.
Fetch(s, ok) ==
    /\ pc[s] = "fetch"
    /\ dead[s] => ~ok
    /\ pc' = [pc EXCEPT ![s] = IF ok THEN "resolve" ELSE "failed"]
    /\ UNCHANGED <<live, tokens, tickets, req, dead, armed, total, off, ticket, posted, tries,
                   gatewayVars>>

\* truncateRunes: a text over the limit is cut there and marked.
Cut(n, limit) == IF n > limit THEN limit + CutMark ELSE n

\* Runes left of a text before the markup is stripped.
CutText(r) ==
    LET n == IF r.kind = "approval" THEN Cut(r.size, ApprovalRunes) ELSE r.size
    IN  Cut(n, ChunkRunes * MaxChunks)

Tokened(s) == req[s].own \/ req[s].peer \in tokens

\* A text of which left runes remain without its markup: nothing is left of
\* some. A reply puts its token in the cache.
ResolveText(s, left) ==
    /\ pc[s] = "resolve" /\ req[s].kind # "file"
    /\ armed' = [armed EXCEPT ![s] = Tokened(s)]
    /\ IF Tokened(s)
       THEN /\ left \in 0 .. CutText(req[s])
            /\ total' = [total EXCEPT ![s] = left]
            /\ pc' = [pc EXCEPT ![s] = IF left = 0 THEN "ok" ELSE "part"]
            /\ tokens' = IF req[s].kind = "reply" THEN tokens \cup {req[s].peer} ELSE tokens
       ELSE /\ pc' = [pc EXCEPT ![s] = "failed"]
            /\ UNCHANGED <<total, tokens>>
    /\ UNCHANGED <<live, tickets, req, dead, off, ticket, posted, tries, gatewayVars>>

\* Inside a run a file goes on without a token, and fails after the upload.
ResolveFile(s) ==
    /\ pc[s] = "resolve" /\ req[s].kind = "file"
    /\ armed' = [armed EXCEPT ![s] = Tokened(s)]
    /\ total' = [total EXCEPT ![s] = 2]
    /\ off' = [off EXCEPT ![s] = First(s)]
    /\ pc' = [pc EXCEPT ![s] = IF req[s].inside \/ Tokened(s) THEN "url" ELSE "failed"]
    /\ UNCHANGED <<live, tokens, tickets, req, dead, ticket, posted, tries, gatewayVars>>

-----------------------------------------------------------------------------
(* The upload *)

\* getuploadurl answers a URL, a parameter for one, or neither, or fails. A file
\* that cannot be read, which ends the send as well, is "none" too.
AskUploadUrl(s, answer) ==
    /\ pc[s] = "url"
    /\ dead[s] => answer = "none"
    /\ LET usable == answer = "full" \/ (answer = "param" /\ CdnBase)
       IN  pc' = [pc EXCEPT ![s] = IF usable THEN "cdn" ELSE "failed"]
    /\ UNCHANGED <<live, tokens, tickets, req, dead, armed, total, off, ticket, posted, tries,
                   gatewayVars>>

UploadDone(s) ==
    /\ UploadStep(s)
    /\ ~dead[s]
    /\ uploaded' = [uploaded EXCEPT ![s] = TRUE]
    /\ pc' = [pc EXCEPT ![s] = IF armed[s] THEN "part" ELSE "failed"]

\* No answer, one whose body cannot be read (whatever its status), a server
\* error, or no parameter in it: tried again at once, though the file may
\* have been stored.
UploadFails(s) ==
    /\ UploadStep(s)
    /\ pc' = [pc EXCEPT ![s] = IF tries[s] + 1 < MaxAttempts THEN "cdn" ELSE "failed"]
    /\ UNCHANGED uploaded

\* A client error is final when its body could be read.
UploadRefused(s) ==
    /\ UploadStep(s)
    /\ ~dead[s]
    /\ pc' = [pc EXCEPT ![s] = "failed"]
    /\ UNCHANGED uploaded

-----------------------------------------------------------------------------
(* One message: sendMessageAPI *)

ReadTicket(s) ==
    /\ pc[s] = "part"
    /\ ticket' = [ticket EXCEPT ![s] = req[s].peer \in tickets]
    /\ pc' = [pc EXCEPT ![s] = IF req[s].peer \in tickets THEN "start" ELSE "post"]
    /\ UNCHANGED <<live, tokens, tickets, req, dead, armed, total, off, posted, tries, gatewayVars>>

\* The message goes on whether or not the indicator could be switched on.
StartTyping(s) ==
    /\ pc[s] = "start"
    /\ \E o \in Outcomes(s) :
           /\ GiveUp(s, "start", o)
           /\ typing' = IF o.reached THEN typing \cup {req[s].peer} ELSE typing
    /\ pc' = [pc EXCEPT ![s] = "post"]
    /\ UNCHANGED <<live, tokens, tickets, req, dead, armed, total, off, ticket, posted, tries,
                   stopFailed, stray, got, uploaded>>

Post(s) ==
    /\ pc[s] = "post"
    /\ \E o \in Outcomes(s) :
           /\ PostEffect(s, o)
           /\ IF ticket[s] THEN pc' = [pc EXCEPT ![s] = "stop"] /\ UNCHANGED off
                           ELSE Proceed(s, o.ok)
    /\ UNCHANGED <<live, tokens, tickets, req, dead, armed, total, ticket, tries,
                   typing, stopFailed, stray, uploaded>>

\* Also after an error of the message, with the context of the send.
StopTyping(s) ==
    /\ pc[s] = "stop"
    /\ \E o \in Outcomes(s) :
           /\ GiveUp(s, "stop", o)
           /\ typing' = IF o.reached THEN typing \ {req[s].peer} ELSE typing
           /\ stray' = IF o.reached THEN stray \ {req[s].peer} ELSE stray
           /\ stopFailed' = IF o.ok THEN stopFailed \ {req[s].peer}
                                    ELSE stopFailed \cup {req[s].peer}
    /\ Proceed(s, posted[s])
    /\ UNCHANGED <<live, tokens, tickets, req, dead, armed, total, ticket, posted, tries,
                   got, uploaded>>

-----------------------------------------------------------------------------
(* The gateway, long after a caller gave up *)

LatePost(call) ==
    /\ call \in late /\ call.what = "post"
    /\ late' = late \ {call}
    /\ got' = [got EXCEPT ![call.by] = Append(@, PartFrom(call.by, call.at))]
    /\ UNCHANGED <<live, tokens, tickets, sendVars, typing, stopFailed, stray, uploaded>>

LateStart(call) ==
    /\ call \in late /\ call.what = "start"
    /\ late' = late \ {call}
    /\ typing' = typing \cup {req[call.by].peer}
    /\ stray' = stray \cup {req[call.by].peer}
    /\ UNCHANGED <<live, tokens, tickets, sendVars, stopFailed, got, uploaded>>

LateStop(call) ==
    /\ call \in late /\ call.what = "stop"
    /\ late' = late \ {call}
    /\ typing' = typing \ {req[call.by].peer}
    /\ stray' = stray \ {req[call.by].peer}
    /\ UNCHANGED <<live, tokens, tickets, sendVars, stopFailed, got, uploaded>>

-----------------------------------------------------------------------------
SendStep(s) ==
    \/ \E ok \in BOOLEAN : Fetch(s, ok)
    \/ \E left \in 0 .. ChunkRunes * MaxChunks + CutMark : ResolveText(s, left)
    \/ ResolveFile(s)
    \/ \E answer \in {"full", "param", "none"} : AskUploadUrl(s, answer)
    \/ UploadDone(s) \/ UploadFails(s) \/ UploadRefused(s)
    \/ ReadTicket(s) \/ StartTyping(s) \/ Post(s) \/ StopTyping(s)

Next ==
    \/ \E again \in BOOLEAN : EndRun(again)
    \/ \E p \in Peers : LearnToken(p) \/ LearnTicket(p)
    \/ \E s \in Senders, r \in Requests : Begin(s, r)
    \/ \E s \in Senders : SendStep(s)
    \/ \E call \in late : LatePost(call) \/ LateStart(call) \/ LateStop(call)

Spec == Init /\ [][Next]_vars

-----------------------------------------------------------------------------
(* Properties *)

Places == {"new", "fetch", "resolve", "url", "cdn", "part", "start", "post", "stop"} \cup Ended

\* Every variable has its type; no send tries its upload more than MaxAttempts
\* times.
TypeOK ==
    /\ live \in BOOLEAN
    /\ tokens \subseteq Peers /\ tickets \subseteq Peers
    /\ pc \in [Senders -> Places]
    /\ req \in [Senders -> Requests \cup {NoRequest}]
    /\ \A s \in Senders : pc[s] # "new" => req[s] \in Requests
    /\ dead \in [Senders -> BOOLEAN] /\ armed \in [Senders -> BOOLEAN]
    /\ total \in [Senders -> Nat] /\ off \in [Senders -> Nat]
    /\ ticket \in [Senders -> BOOLEAN] /\ posted \in [Senders -> BOOLEAN]
    /\ tries \in [Senders -> 0 .. MaxAttempts]
    /\ late \subseteq [what : {"start", "post", "stop"}, by : Senders, at : Nat]
    /\ \A call \in late : pc[call.by] # "new"
    /\ typing \subseteq Peers /\ stopFailed \subseteq Peers /\ stray \subseteq Peers
    /\ got \in [Senders -> Seq(Nat \X Nat)]
    /\ uploaded \in [Senders -> BOOLEAN]

\* How far the parts that reached the user go.
Reach(s) == IF got[s] = <<>> THEN First(s) ELSE got[s][Len(got[s])][2]

\* Whatever fails, is cancelled or comes late, the user has the parts of a send in order,
\* each once and with nothing between them missing: a prefix of what was to be
\* sent, of which at most the last part is one the send took for failed.
DeliveredIsPrefix ==
    \A s \in Senders :
        pc[s] # "new" =>
            /\ got[s] # <<>> => got[s][1][1] = First(s)
            /\ \A i \in 1 .. Len(got[s]) : got[s][i][2] = PartEnd(s, got[s][i][1])
            /\ \A i \in 2 .. Len(got[s]) : got[s][i][1] = got[s][i - 1][2]
            /\ pc[s] \notin {"fetch", "resolve"} /\ armed[s]
                   => Reach(s) \in {off[s], PartEnd(s, off[s])}

\* A send that reports success, to the agent or to the approver that goes on to
\* wait for the answer, reached the user in whole.
OkMeansAll ==
    \A s \in Senders : pc[s] = "ok" => Reach(s) = total[s]

\* Nothing of a file send, not even its caption, reaches the user unless the
\* file itself is on the CDN.
CaptionNeedsUpload ==
    \A s \in Senders :
        pc[s] # "new" /\ req[s].kind = "file" /\ got[s] # <<>> => uploaded[s]

\* With sends of one user starting and stopping in any order, and whatever
\* fails, his typing indicator stays on after the last of them only when the
\* latest call to switch it off failed, or when a call to switch it on that
\* had been given up had its effect after that.
TypingEnds ==
    \A p \in typing :
        \/ p \in stopFailed \/ p \in stray
        \/ \E s \in Senders : pc[s] \in {"post", "stop"} /\ ticket[s] /\ req[s].peer = p
=============================================================================
