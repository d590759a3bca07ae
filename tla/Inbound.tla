------------------------------- MODULE Inbound -------------------------------
(***************************************************************************)
(* One bot from the gateway to the reply: the monitor's                    *)
(* handleInboundMessage (internal/weixin/monitor.go), the queue, the       *)
(* worker's processJob and replyAgentOutput (queue.go, reply.go), and what *)
(* they share: the token cache, deduplication, the recent media and the    *)
(* pending approval of a conversation.                                     *)
(*                                                                         *)
(* The queue and the approver appear as InboundQueue and Approver promise  *)
(* them: a FIFO that makes its sender wait when full, and at most one      *)
(* question per conversation, ended by a reply or by a timer.              *)
(***************************************************************************)
EXTENDS FiniteSets, SessionId

CONSTANTS
    Peers,       \* users
    Allowed,     \* allow_from
    Shapes,      \* kinds of messages users send: [peer, kind, token, key, json]
    Configs,     \* answers of getconfig: [peer, json]
    Json,        \* the documents behind the names "json" of both
    Cap,         \* capacity of the job queue (64 in the code)
    RecentCap,   \* media remembered per user (20 in the code)
    MaxMsgs,     \* bound on the messages
    MaxAgain,    \* bound on the deliveries of a message already delivered
    MaxAsks      \* bound on the approvals of one agent run

\* A "text" has a body or quotes one, "media" has neither, a "quote" refers to a
\* medium it gives the address of, a "ref" to a message it says nothing about.
Kinds == {"text", "media", "quote", "ref"}

ASSUME InboundAssumption ==
    /\ Allowed \subseteq Peers
    /\ \A d \in DOMAIN Json : <<>> \in DOMAIN Json[d]
    /\ \A shape \in Shapes :
         /\ shape.peer \in Peers /\ shape.kind \in Kinds
         /\ shape.token \in BOOLEAN /\ shape.key \in BOOLEAN
         /\ shape.json \in DOMAIN Json /\ MessageFits(Json[shape.json][<<>>])
    /\ \A config \in Configs : config.peer \in Peers /\ config.json \in DOMAIN Json
    /\ Cap \in Nat \ {0} /\ RecentCap \in Nat \ {0}
    /\ MaxMsgs \in Nat /\ MaxAgain \in Nat /\ MaxAsks \in Nat

VARIABLES
    feed,        \* shapes of the messages polled so far; a message is its index
    again,       \* deliveries repeated so far
    mon,         \* the handler: place, message and quoted media
    tokens,      \* token cache: the message whose token it holds, 0 for none
    stored,      \* ghost: newest message whose token was stored
    sessions,    \* lastSessionByPeer
    seen,        \* deduplication, within its TTL
    recent,      \* recentMediaByPeer: messages whose media were saved
    queue,       \* jobs waiting
    worker,      \* the worker: place, job and approvals asked in this run
    question,    \* the approver: "none", "open" or "answered"
    ran,         \* ghost: jobs given to the agent, in order
    consumed,    \* ghost: messages taken as approval replies, in order
    replied      \* ghost: replies sent, with their token and session id

sharedVars == <<tokens, stored, sessions, seen, recent, question>>
vars == <<feed, again, mon, sharedVars, queue, worker, ran, consumed, replied>>

Msgs == 1 .. MaxMsgs

MessageSessions == [d \in DOMAIN Json |-> SessionsOfMessage(Json[d])]

\* None for an answer that cannot be decoded.
ConfigSessions ==
    [d \in DOMAIN Json |-> IF ConfigFits(Json[d][<<>>]) THEN SessionsOfConfig(Json[d]) ELSE {}]

PeerOf(n) == feed[n].peer

Job(n, refs, session) == [msg |-> n, refs |-> refs, session |-> session]
NoJob == Job(0, <<>>, NoSession)

At(place, job) == [place |-> place, job |-> job]
MonIdle == At("idle", NoJob)

Works(place, job, asks) == [place |-> place, job |-> job, asks |-> asks]
WorkerIdle == Works("idle", NoJob, 0)

Init ==
    /\ feed = <<>>
    /\ again = 0
    /\ mon = MonIdle
    /\ tokens = [p \in Peers |-> 0]
    /\ stored = [p \in Peers |-> 0]
    /\ sessions = [p \in Peers |-> NoSession]
    /\ seen = {}
    /\ recent = [p \in Peers |-> <<>>]
    /\ queue = <<>>
    /\ worker = WorkerIdle
    /\ question = [p \in Peers |-> "none"]
    /\ ran = <<>>
    /\ consumed = <<>>
    /\ replied = {}

-----------------------------------------------------------------------------
(* Faulty variants, used only to show that the properties can fail *)

\* An id is looked up but never recorded.
DeduplicateForgets ==
    /\ mon.place = "dedup"
    /\ mon' = IF mon.job.msg \in seen THEN MonIdle ELSE [mon EXCEPT !.place = "body"]
    /\ UNCHANGED <<feed, again, tokens, stored, sessions, seen, recent, question, queue, worker, ran,
                   consumed, replied>>

\* popRecentMedia does not clear what it returns.
QuoteKeepsMedia ==
    /\ mon.place = "body"
    /\ feed[mon.job.msg].kind \in {"ref", "quote"}
    /\ mon' = At("reply?", [mon.job EXCEPT !.refs = recent[PeerOf(mon.job.msg)]])
    /\ UNCHANGED <<feed, again, tokens, stored, sessions, seen, recent, question, queue, worker, ran,
                   consumed, replied>>

\* Recent media are kept in one list for all users.
QuoteTakesAnyMedia ==
    /\ mon.place = "body"
    /\ feed[mon.job.msg].kind \in {"ref", "quote"}
    /\ \E p \in Peers :
         /\ mon' = At("reply?", [mon.job EXCEPT !.refs = recent[p]])
         /\ recent' = [recent EXCEPT ![p] = <<>>]
    /\ UNCHANGED <<feed, again, tokens, stored, sessions, seen, question, queue, worker, ran,
                   consumed, replied>>

\* A full queue drops the job instead of making the monitor wait.
EnqueueOrDrop ==
    /\ mon.place = "enqueue"
    /\ queue' = IF Len(queue) < Cap THEN Append(queue, mon.job) ELSE queue
    /\ mon' = MonIdle
    /\ UNCHANGED <<feed, again, sharedVars, worker, ran, consumed, replied>>

\* The reply takes the token of the newest message of any user.
ReplyFromAnyToken ==
    /\ worker.place = "replying"
    /\ replied' = replied \cup {[job |-> worker.job, token |-> Len(feed),
                                session |-> worker.job.session]}
    /\ worker' = WorkerIdle
    /\ UNCHANGED <<feed, again, mon, sharedVars, queue, ran, consumed>>

\* A message or an answer without a session id clears the one remembered.
RememberAlways(p, session) == sessions' = [sessions EXCEPT ![p] = session]

\* Media beyond the limit are kept.
SaveMediaUnbounded ==
    /\ mon.place = "body"
    /\ feed[mon.job.msg].kind = "media"
    /\ recent' = [recent EXCEPT ![PeerOf(mon.job.msg)] = Append(@, mon.job.msg)]
    /\ mon' = MonIdle
    /\ UNCHANGED <<feed, again, tokens, stored, sessions, seen, question, queue, worker, ran,
                   consumed, replied>>

-----------------------------------------------------------------------------
(* The monitor *)

\* The next message of the feed, its session id read when the answer is decoded.
\* Group and bot messages are skipped unseen.
Poll(shape, session) ==
    /\ mon = MonIdle
    /\ Len(feed) < MaxMsgs
    /\ feed' = Append(feed, shape)
    /\ mon' = At("token", Job(Len(feed) + 1, <<>>, session))
    /\ UNCHANGED <<again, sharedVars, queue, worker, ran, consumed, replied>>

\* The gateway delivers a message again.
PollAgain(n, session) ==
    /\ mon = MonIdle
    /\ again < MaxAgain
    /\ again' = again + 1
    /\ mon' = At("token", Job(n, <<>>, session))
    /\ UNCHANGED <<feed, sharedVars, queue, worker, ran, consumed, replied>>

\* tokens.set, before deduplication.
StoreToken ==
    /\ mon.place = "token"
    /\ LET n == mon.job.msg
       IN  IF feed[n].token
           THEN /\ tokens' = [tokens EXCEPT ![PeerOf(n)] = n]
                /\ stored' = [stored EXCEPT ![PeerOf(n)] = IF n > @ THEN n ELSE @]
                /\ mon' = [mon EXCEPT !.place = "prefetch"]
           ELSE /\ mon' = [mon EXCEPT !.place = "session"]
                /\ UNCHANGED <<tokens, stored>>
    /\ UNCHANGED <<feed, again, sessions, seen, recent, question, queue, worker, ran,
                   consumed, replied>>

Remember(p, session) ==
    sessions' = [sessions EXCEPT ![p] = IF session = NoSession THEN @ ELSE session]

\* prefetchOutboundSession: the answer about the sender, if it can be decoded.
Prefetch(config, session) ==
    /\ mon.place = "prefetch"
    /\ config.peer = PeerOf(mon.job.msg)
    /\ Remember(config.peer, session)
    /\ mon' = [mon EXCEPT !.place = "session"]
    /\ UNCHANGED <<feed, again, tokens, stored, seen, recent, question, queue, worker, ran,
                   consumed, replied>>

\* The request failed, or its answer was an error or did not fit.
PrefetchFails ==
    /\ mon.place = "prefetch"
    /\ mon' = [mon EXCEPT !.place = "session"]
    /\ UNCHANGED <<feed, again, sharedVars, queue, worker, ran, consumed, replied>>

RememberSession ==
    /\ mon.place = "session"
    /\ Remember(PeerOf(mon.job.msg), mon.job.session)
    /\ mon' = [mon EXCEPT !.place = "dedup"]
    /\ UNCHANGED <<feed, again, tokens, stored, seen, recent, question, queue, worker, ran,
                   consumed, replied>>

\* Messages without an id are never duplicates.
Deduplicate ==
    /\ mon.place = "dedup"
    /\ LET n == mon.job.msg
       IN  /\ mon' = IF feed[n].key /\ n \in seen THEN MonIdle
                                                  ELSE [mon EXCEPT !.place = "body"]
           /\ seen' = IF feed[n].key THEN seen \cup {n} ELSE seen
    /\ UNCHANGED <<feed, again, tokens, stored, sessions, recent, question, queue, worker, ran,
                   consumed, replied>>

\* Media without text: saved, no agent run. The newest RecentCap are kept.
SaveMedia ==
    /\ mon.place = "body"
    /\ feed[mon.job.msg].kind = "media"
    /\ LET all == Append(recent[PeerOf(mon.job.msg)], mon.job.msg)
           drop == IF Len(all) > RecentCap THEN Len(all) - RecentCap ELSE 0
       IN  recent' = [recent EXCEPT ![PeerOf(mon.job.msg)] = SubSeq(all, drop + 1, Len(all))]
    /\ mon' = MonIdle
    /\ UNCHANGED <<feed, again, tokens, stored, sessions, seen, question, queue, worker, ran,
                   consumed, replied>>

\* The download failed: nothing is kept.
LoseMedia ==
    /\ mon.place = "body"
    /\ feed[mon.job.msg].kind = "media"
    /\ mon' = MonIdle
    /\ UNCHANGED <<feed, again, sharedVars, queue, worker, ran, consumed, replied>>

ReadText ==
    /\ mon.place = "body"
    /\ feed[mon.job.msg].kind = "text"
    /\ mon' = [mon EXCEPT !.place = "reply?"]
    /\ UNCHANGED <<feed, again, sharedVars, queue, worker, ran, consumed, replied>>

\* The quoted medium was downloaded: what was saved before stays.
ReadQuotedMedium ==
    /\ mon.place = "body"
    /\ feed[mon.job.msg].kind = "quote"
    /\ mon' = [mon EXCEPT !.place = "reply?"]
    /\ UNCHANGED <<feed, again, sharedVars, queue, worker, ran, consumed, replied>>

\* popRecentMedia, also when a quoted medium cannot be downloaded: taken before
\* it is known what the message is for.
ReadQuote ==
    /\ mon.place = "body"
    /\ feed[mon.job.msg].kind \in {"ref", "quote"}
    /\ mon' = At("reply?", [mon.job EXCEPT !.refs = recent[PeerOf(mon.job.msg)]])
    /\ recent' = [recent EXCEPT ![PeerOf(mon.job.msg)] = <<>>]
    /\ UNCHANGED <<feed, again, tokens, stored, sessions, seen, question, queue, worker, ran,
                   consumed, replied>>

\* tryResolveApproval takes whatever the user says while a question is open,
\* also when it was answered already and the handler has not returned.
TakeAsReply ==
    /\ mon.place = "reply?"
    /\ question[PeerOf(mon.job.msg)] # "none"
    /\ question' = [question EXCEPT ![PeerOf(mon.job.msg)] = "answered"]
    /\ consumed' = Append(consumed, mon.job.msg)
    /\ mon' = MonIdle
    /\ UNCHANGED <<feed, again, tokens, stored, sessions, seen, recent, queue, worker, ran, replied>>

\* isAllowedSender, after the approval check. A job without a session id takes
\* the user's last one.
TakeAsJob ==
    /\ mon.place = "reply?"
    /\ question[PeerOf(mon.job.msg)] = "none"
    /\ LET job == mon.job
           session == IF job.session = NoSession THEN sessions[PeerOf(job.msg)] ELSE job.session
       IN  mon' = IF PeerOf(job.msg) \in Allowed
                  THEN At("enqueue", [job EXCEPT !.session = session])
                  ELSE MonIdle
    /\ UNCHANGED <<feed, again, sharedVars, queue, worker, ran, consumed, replied>>

\* The monitor waits here while the queue is full.
Enqueue ==
    /\ mon.place = "enqueue"
    /\ Len(queue) < Cap
    /\ queue' = Append(queue, mon.job)
    /\ mon' = MonIdle
    /\ UNCHANGED <<feed, again, sharedVars, worker, ran, consumed, replied>>

-----------------------------------------------------------------------------
(* The worker and, behind RunAgent, the host *)

StartRun ==
    /\ worker = WorkerIdle
    /\ queue # <<>>
    /\ worker' = Works("running", Head(queue), 0)
    /\ queue' = Tail(queue)
    /\ ran' = Append(ran, Head(queue))
    /\ UNCHANGED <<feed, again, mon, sharedVars, consumed, replied>>

\* A tool of the run needs an approval in the job's conversation; without a
\* token it is denied at once.
Ask ==
    /\ worker.place = "running" /\ worker.asks < MaxAsks
    /\ LET p == PeerOf(worker.job.msg)
       IN  /\ tokens[p] # 0
           /\ question' = [question EXCEPT ![p] = "open"]
    /\ worker' = Works("asking", worker.job, worker.asks + 1)
    /\ UNCHANGED <<feed, again, mon, tokens, stored, sessions, seen, recent, queue, ran, consumed, replied>>

Approved ==
    /\ worker.place = "asking"
    /\ question[PeerOf(worker.job.msg)] = "answered"
    /\ question' = [question EXCEPT ![PeerOf(worker.job.msg)] = "none"]
    /\ worker' = [worker EXCEPT !.place = "running"]
    /\ UNCHANGED <<feed, again, mon, tokens, stored, sessions, seen, recent, queue, ran, consumed, replied>>

ApprovalTimeout ==
    /\ worker.place = "asking"
    /\ question' = [question EXCEPT ![PeerOf(worker.job.msg)] = "none"]
    /\ worker' = [worker EXCEPT !.place = "running"]
    /\ UNCHANGED <<feed, again, mon, tokens, stored, sessions, seen, recent, queue, ran, consumed, replied>>

\* RunAgent returns output or an error: there is something to say.
RunEnds ==
    /\ worker.place = "running"
    /\ worker' = [worker EXCEPT !.place = "replying"]
    /\ UNCHANGED <<feed, again, mon, sharedVars, queue, ran, consumed, replied>>

\* RunAgent returns neither: no reply.
RunEndsEmpty ==
    /\ worker.place = "running"
    /\ worker' = WorkerIdle
    /\ UNCHANGED <<feed, again, mon, sharedVars, queue, ran, consumed, replied>>

\* replyAgentOutput: the job's own token, else the cached one; it is written
\* back to the cache before the chunks are sent. sendBotMessage takes the user's
\* last session id, not the job's.
Reply ==
    /\ worker.place = "replying"
    /\ LET n == worker.job.msg
           token == IF feed[n].token THEN n ELSE tokens[PeerOf(n)]
       IN  IF token = 0
           THEN UNCHANGED <<tokens, replied>>
           ELSE /\ tokens' = [tokens EXCEPT ![PeerOf(n)] = token]
                /\ replied' = replied \cup {[job |-> worker.job, token |-> token,
                                             session |-> sessions[PeerOf(n)]]}
    /\ worker' = WorkerIdle
    /\ UNCHANGED <<feed, again, mon, stored, sessions, seen, recent, question, queue, ran,
                   consumed>>

\* No more messages come and everything is done.
Quiescent ==
    /\ mon = MonIdle /\ worker = WorkerIdle /\ queue = <<>>
    /\ Len(feed) = MaxMsgs
    /\ UNCHANGED vars

HandlerStep ==
    \/ StoreToken \/ PrefetchFails \/ RememberSession
    \/ \E config \in Configs : \E session \in ConfigSessions[config.json] :
          Prefetch(config, session)
    \/ Deduplicate \/ SaveMedia \/ LoseMedia \/ ReadText \/ ReadQuotedMedium \/ ReadQuote
    \/ TakeAsReply \/ TakeAsJob \/ Enqueue

WorkerStep ==
    StartRun \/ Ask \/ Approved \/ ApprovalTimeout \/ RunEnds \/ RunEndsEmpty \/ Reply

Next ==
    \/ \E shape \in Shapes : \E session \in MessageSessions[shape.json] :
          Poll(shape, session)
    \/ \E n \in DOMAIN feed : \E session \in MessageSessions[feed[n].json] :
          PollAgain(n, session)
    \/ HandlerStep
    \/ WorkerStep
    \/ Quiescent

\* The handler and the worker go on; the agent's run ends unless it is waiting
\* for an approval, and the approver's timer fires. Users may say nothing.
Fairness ==
    /\ WF_vars(HandlerStep)
    /\ WF_vars(StartRun)
    /\ WF_vars(Approved)
    /\ WF_vars(ApprovalTimeout)
    /\ WF_vars(RunEnds \/ RunEndsEmpty)
    /\ WF_vars(Reply)

Spec == Init /\ [][Next]_vars

FairSpec == Spec /\ Fairness

-----------------------------------------------------------------------------
(* Properties *)

\* Session ids the gateway gave for a user.
SessionsOf ==
    [p \in Peers |-> UNION {IdsIn(Json[x.json]) : x \in {y \in Shapes \cup Configs : y.peer = p}}]

Sessions == (UNION Range(SessionsOf)) \cup {NoSession}

Jobs == [msg : Msgs \cup {0}, refs : Seq(Msgs), session : Sessions]

\* Every variable has its type; the queue and the media respect their limits.
TypeOK ==
    /\ feed \in Seq(Shapes) /\ Len(feed) <= MaxMsgs
    /\ again \in 0 .. MaxAgain
    /\ mon \in [place : {"idle", "token", "prefetch", "session", "dedup", "body", "reply?",
                        "enqueue"}, job : Jobs]
    /\ tokens \in [Peers -> Msgs \cup {0}]
    /\ stored \in [Peers -> Msgs \cup {0}]
    /\ sessions \in [Peers -> Sessions]
    /\ seen \subseteq Msgs
    /\ recent \in [Peers -> Seq(Msgs)]
    /\ \A p \in Peers : Len(recent[p]) <= RecentCap
    /\ queue \in Seq(Jobs) /\ Len(queue) <= Cap
    /\ worker \in [place : {"idle", "running", "asking", "replying"}, job : Jobs,
                   asks : 0 .. MaxAsks]
    /\ question \in [Peers -> {"none", "open", "answered"}]

\* token_store.go:8: the cache holds the newest token the monitor stored.
CacheIsLatest == \A p \in Peers : tokens[p] = stored[p]

\* A reply reaches the user the job came from under a token of that user: the
\* token of the message itself when it had one. The cache never holds a token
\* of someone else, although the worker and the monitor both write it.
TokensStay ==
    /\ \A p \in Peers : tokens[p] # 0 => PeerOf(tokens[p]) = p /\ feed[tokens[p]].token
    /\ \A r \in replied : /\ PeerOf(r.token) = PeerOf(r.job.msg)
                          /\ feed[r.job.msg].token => r.token = r.job.msg

\* Nor does a session id reach another user, wherever in a message or an answer
\* of getconfig it was found; and a reply to a job with a session id has one
\* (queue.go:21 keeps the job's in case the user's is missing, and no code uses
\* it: the user's never is).
SessionsStay ==
    /\ \A p \in Peers : sessions[p] \in SessionsOf[p] \cup {NoSession}
    /\ \A r \in replied : /\ r.session \in SessionsOf[PeerOf(r.job.msg)] \cup {NoSession}
                          /\ r.session = NoSession => r.job.session = NoSession

\* What a reply carries belongs to the user it goes to.
TokensStayWithTheirUser == TokensStay /\ SessionsStay

TimesRun(n) == Cardinality({i \in DOMAIN ran : ran[i].msg = n})
TimesConsumed(n) == Cardinality({i \in DOMAIN consumed : consumed[i] = n})

\* However often the gateway delivers it, a message with an id is run by the
\* agent or taken as an approval reply at most once, and never both.
HandledOnce ==
    \A n \in 1 .. Len(feed) : feed[n].key => TimesRun(n) + TimesConsumed(n) <= 1

\* A saved medium is quoted by at most one agent run, of the user who sent it:
\* the handler takes the media of a conversation and forgets them in one step.
MediaQuotedOnce ==
    /\ \A i \in DOMAIN ran : \A k \in DOMAIN ran[i].refs :
         PeerOf(ran[i].refs[k]) = PeerOf(ran[i].msg)
    /\ \A i, j \in DOMAIN ran : \A n \in 1 .. Len(feed) :
         /\ feed[n].key
         /\ n \in ToSet(ran[i].refs)
         /\ n \in ToSet(ran[j].refs)
         => i = j

\* A text with an id of a permitted user reaches the agent or answers a
\* question, however full the queue is.
EveryTextIsHandled ==
    \A n \in Msgs :
        (n \in seen /\ feed[n].kind = "text" /\ PeerOf(n) \in Allowed)
            ~> (TimesRun(n) + TimesConsumed(n) = 1)
=============================================================================
