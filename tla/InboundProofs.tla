----------------------------- MODULE InboundProofs -----------------------------
(***************************************************************************)
(* Proofs about Inbound for any users, messages, documents and answers of  *)
(* getconfig, any capacity of the queue and any limit of recent media.     *)
(***************************************************************************)
EXTENDS Inbound, SequenceTheorems, FiniteSetTheorems, TLAPS

-----------------------------------------------------------------------------
(* Session ids *)

\* What coalesceSessionStr finds in an object is one of its ids.
LEMMA CoalesceFinds ==
  ASSUME NEW object, NEW keys, keys \in {MessageKeys, ConfigKeys},
         NEW id \in coalesce(object, keys)
  PROVE  id \in IdsOf(object)
<1>1. PICK i \in DOMAIN keys : /\ keys[i] \in DOMAIN object
                               /\ jsonRawToSessionString(object[keys[i]]) # NoSession
                               /\ id = object[keys[i]].id
  BY DEF coalesce
<1>2. id = jsonRawToSessionString(object[keys[i]])
  BY <1>1 DEF jsonRawToSessionString
<1>3. keys[i] \in ToSet(MessageKeys)
  <2>1. CASE keys = MessageKeys
    BY <2>1 DEF ToSet
  <2>2. CASE keys = ConfigKeys
    <3>1. Len(MessageKeys) = 8 /\ DOMAIN MessageKeys = 1 .. 8
      BY DEF MessageKeys
    <3>2. ConfigKeys = [k \in 1 .. 4 |-> MessageKeys[k]]
      BY <3>1 DEF ConfigKeys, MessageKeys
    <3>3. QED
      BY <2>2, <3>1, <3>2 DEF ToSet
  <2>3. QED
    BY <2>1, <2>2
<1>4. QED
  BY <1>1, <1>2, <1>3 DEF IdsOf, sessionLikeJSONKey

\* The search of raw JSON finds an id of the document or none.
LEMMA SearchFinds ==
  ASSUME NEW doc, NEW root, NEW id \in findSessionInRawJSONMap(doc, root)
  PROVE  id \in IdsIn(doc) \cup {NoSession}
BY DEF findSessionInRawJSONMap, IdsIn

(* Whatever is read out of a document occurs in it.                        *)
LEMMA SessionsOccur ==
  ASSUME NEW doc, <<>> \in DOMAIN doc
  PROVE  SessionsOfMessage(doc) \cup SessionsOfConfig(doc) \subseteq IdsIn(doc) \cup {NoSession}
<1>1. IdsOf(doc[<<>>]) \subseteq IdsIn(doc)
  BY DEF IdsIn
<1>2. \A id \in SessionsOfMessage(doc) : id \in IdsIn(doc) \cup {NoSession}
  BY <1>1, CoalesceFinds, SearchFinds DEF SessionsOfMessage
<1>3. \A id \in SessionsOfConfig(doc) : id \in IdsIn(doc) \cup {NoSession}
  BY <1>1, CoalesceFinds, SearchFinds DEF SessionsOfConfig, sessionFromGetConfigRaw
<1>4. QED
  BY <1>2, <1>3

\* The session id read from a message is one of its sender's.
LEMMA MessageSessionIsOwn ==
  ASSUME NEW shape \in Shapes, NEW session \in MessageSessions[shape.json]
  PROVE  session \in SessionsOf[shape.peer] \cup {NoSession}
<1>1. shape.peer \in Peers /\ shape.json \in DOMAIN Json /\ <<>> \in DOMAIN Json[shape.json]
  BY InboundAssumption DEF InboundAssumption
<1>2. session \in IdsIn(Json[shape.json]) \cup {NoSession}
  BY <1>1, SessionsOccur DEF MessageSessions
<1>3. QED
  BY <1>1, <1>2 DEF SessionsOf

\* The session id read from an answer to getConfig is one of the user it is about.
LEMMA ConfigSessionIsOwn ==
  ASSUME NEW config \in Configs, NEW session \in ConfigSessions[config.json]
  PROVE  /\ config.peer \in Peers
         /\ session \in SessionsOf[config.peer] \cup {NoSession}
<1>1. config.peer \in Peers /\ config.json \in DOMAIN Json /\ <<>> \in DOMAIN Json[config.json]
  BY InboundAssumption DEF InboundAssumption
<1>2. session \in IdsIn(Json[config.json]) \cup {NoSession}
  BY <1>1, SessionsOccur DEF ConfigSessions
<1>3. QED
  BY <1>1, <1>2 DEF SessionsOf

\* Session ids of a user are session ids.
LEMMA OwnIsSession ==
  ASSUME NEW p \in Peers
  PROVE  SessionsOf[p] \cup {NoSession} \subseteq Sessions
<1>1. SessionsOf[p] \in Range(SessionsOf)
  BY DEF SessionsOf, Range
<1>2. SessionsOf[p] \subseteq UNION Range(SessionsOf)
  BY <1>1, Zenon
<1>3. QED
  BY <1>2 DEF Sessions

-----------------------------------------------------------------------------
(* Types *)

\* TypeOK and the types of what only the proofs look back at.
Types ==
    /\ TypeOK
    /\ ran \in Seq(Jobs)
    /\ consumed \in Seq(Msgs)
    /\ replied \subseteq [job : Jobs, token : Msgs, session : Sessions]

\* The jobs given to the agent and those waiting, in the order they came.
Line == ran \o queue

Polled == 1 .. Len(feed)

\* Every message the plugin holds or remembers is one it polled, and the job
\* at work is the last one given to the agent.
HandlerHas ==
    /\ mon.place # "idle" => mon.job.msg \in Polled
    /\ mon.place \notin {"reply?", "enqueue"} => mon.job.refs = <<>>
LineHas == \A i \in DOMAIN Line : Line[i].msg \in Polled
WorkerHas == worker.place # "idle" => ran # <<>> /\ worker.job = ran[Len(ran)]
SeenPolled == seen \subseteq Polled
ConsumedPolled == \A i \in DOMAIN consumed : consumed[i] \in Polled
RecentPolled == \A p \in Peers : \A n \in ToSet(recent[p]) : n \in Polled /\ PeerOf(n) = p
TokensPolled == \A p \in Peers : tokens[p] # 0 => tokens[p] \in Polled
RepliedPolled == \A r \in replied : r.job.msg \in Polled /\ r.token \in Polled

Places ==
    /\ HandlerHas /\ LineHas /\ WorkerHas /\ SeenPolled /\ ConsumedPolled /\ RecentPolled
    /\ TokensPolled /\ RepliedPolled

\* A polled message is in the feed, with the parts its shape has.
LEMMA PolledMessage ==
  ASSUME Types, NEW n \in Polled
  PROVE  /\ n \in Msgs /\ n \in DOMAIN feed /\ feed[n] \in Shapes /\ PeerOf(n) \in Peers
         /\ feed[n].key \in BOOLEAN /\ feed[n].token \in BOOLEAN
<1>1. feed \in Seq(Shapes) /\ Len(feed) <= MaxMsgs /\ Len(feed) \in Nat /\ MaxMsgs \in Nat
  BY InboundAssumption DEF Types, TypeOK, InboundAssumption
<1>2. n \in Msgs /\ n \in DOMAIN feed /\ feed[n] \in Shapes
  BY <1>1 DEF Polled, Msgs
<1>3. QED
  BY <1>2, InboundAssumption DEF PeerOf, InboundAssumption

HandlerPlaces ==
    {"idle", "token", "prefetch", "session", "dedup", "body", "reply?", "enqueue"}

Handlers == [place : HandlerPlaces, job : Jobs]

Workers == [place : {"idle", "running", "asking", "replying"}, job : Jobs, asks : 0 .. MaxAsks]

\* What is put together as a job is one.
LEMMA JobIsTyped ==
  ASSUME NEW n \in Msgs \cup {0}, NEW refs \in Seq(Msgs), NEW session \in Sessions
  PROVE  Job(n, refs, session) \in Jobs
BY DEF Job, Jobs

\* An idle monitor and an idle worker hold no job.
LEMMA Idle ==
  /\ MonIdle.place = "idle" /\ MonIdle.job = NoJob /\ NoJob.refs = <<>> /\ MonIdle \in Handlers
  /\ WorkerIdle.place = "idle" /\ WorkerIdle \in Workers
<1>1. NoSession \in Sessions /\ <<>> \in Seq(Msgs)
  BY DEF Sessions
<1>2. NoJob \in Jobs /\ NoJob.refs = <<>>
  BY <1>1, JobIsTyped DEF NoJob, Job
<1>3. 0 \in 0 .. MaxAsks
  BY InboundAssumption DEF InboundAssumption
<1>4. QED
  BY <1>2, <1>3 DEF MonIdle, At, Handlers, HandlerPlaces, WorkerIdle, Works, Workers

\* The parts of the monitor's state, and that they are all there is to it.
LEMMA MonitorTyped ==
  ASSUME Types
  PROVE  /\ mon \in Handlers /\ mon.place \in HandlerPlaces /\ mon.job \in Jobs
         /\ mon.job.msg \in Msgs \cup {0} /\ mon.job.refs \in Seq(Msgs)
         /\ mon.job.session \in Sessions
         /\ mon = At(mon.place, mon.job)
         /\ mon.job = Job(mon.job.msg, mon.job.refs, mon.job.session)
BY DEF Types, TypeOK, Handlers, HandlerPlaces, Jobs, At, Job

\* The parts of the worker's state, and that they are all there is to it.
LEMMA WorkerTyped ==
  ASSUME Types
  PROVE  /\ worker \in Workers /\ worker.job \in Jobs /\ worker.asks \in 0 .. MaxAsks
         /\ worker.job.msg \in Msgs \cup {0} /\ worker.job.session \in Sessions
         /\ worker = Works(worker.place, worker.job, worker.asks)
BY DEF Types, TypeOK, Workers, Jobs, Works

(* The handler moves on with the same message.                             *)
LEMMA MovesOn ==
  ASSUME Types, NEW place \in HandlerPlaces
  PROVE  /\ [mon EXCEPT !.place = place] = At(place, mon.job)
         /\ [mon EXCEPT !.place = place] \in Handlers
<1>1. mon = At(mon.place, mon.job) /\ mon.job \in Jobs
  BY MonitorTyped
<1>2. [mon EXCEPT !.place = place] = At(place, mon.job)
  BY <1>1 DEF At
<1>3. QED
  BY <1>1, <1>2 DEF At, Handlers

\* The end of a sequence, element by element.
LEMMA EndOfSequence ==
  ASSUME NEW S, NEW s \in Seq(S), NEW m \in 1 .. Len(s) + 1
  PROVE  /\ SubSeq(s, m, Len(s)) \in Seq(S)
         /\ Len(SubSeq(s, m, Len(s))) = Len(s) - m + 1
         /\ \A i \in 1 .. Len(s) - m + 1 : SubSeq(s, m, Len(s))[i] = s[m + i - 1]
OBVIOUS

(* What is kept of the recent media.                                       *)
LEMMA NewestMedia ==
  ASSUME NEW S, NEW all \in Seq(S), NEW limit \in Nat,
         NEW drop, drop = IF Len(all) > limit THEN Len(all) - limit ELSE 0
  PROVE  /\ SubSeq(all, drop + 1, Len(all)) \in Seq(S)
         /\ Len(SubSeq(all, drop + 1, Len(all))) <= limit
         /\ ToSet(SubSeq(all, drop + 1, Len(all))) \subseteq ToSet(all)
<1>1. PICK m \in 1 .. Len(all) + 1 : m = drop + 1 /\ Len(all) - m + 1 <= limit
  <2>1. Len(all) \in Nat /\ drop \in 0 .. Len(all) /\ Len(all) - drop <= limit
    OBVIOUS
  <2>2. drop + 1 \in 1 .. Len(all) + 1 /\ Len(all) - (drop + 1) + 1 <= limit
    BY <2>1
  <2>3. QED
    BY <2>2
<1>2. PICK newest \in Seq(S) : newest = SubSeq(all, m, Len(all))
  BY EndOfSequence
<1>3. /\ Len(newest) = Len(all) - m + 1
      /\ \A i \in 1 .. Len(newest) : newest[i] = all[m + i - 1]
  BY <1>2, EndOfSequence
<1>4. ASSUME NEW i \in DOMAIN newest PROVE newest[i] \in ToSet(all)
  <2>1. newest[i] = all[m + i - 1] /\ m + i - 1 \in DOMAIN all
    BY <1>3
  <2>2. QED
    BY <2>1 DEF ToSet
<1>5. ToSet(newest) \subseteq ToSet(all)
  BY <1>4 DEF ToSet
<1>6. QED
  BY <1>1, <1>2, <1>3, <1>5

(* The rest of the types, by who writes it.                               *)
FeedTyped ==
    /\ feed \in Seq(Shapes) /\ Len(feed) <= MaxMsgs
    /\ again \in 0 .. MaxAgain
SharedTyped ==
    /\ tokens \in [Peers -> Msgs \cup {0}]
    /\ stored \in [Peers -> Msgs \cup {0}]
    /\ sessions \in [Peers -> Sessions]
    /\ seen \subseteq Msgs
    /\ recent \in [Peers -> Seq(Msgs)]
    /\ \A p \in Peers : Len(recent[p]) <= RecentCap
    /\ question \in [Peers -> {"none", "open", "answered"}]
LineTyped ==
    /\ queue \in Seq(Jobs) /\ Len(queue) <= Cap
    /\ ran \in Seq(Jobs)
    /\ consumed \in Seq(Msgs)
    /\ replied \subseteq [job : Jobs, token : Msgs, session : Sessions]

\* The types, grouped by the part of the system that writes a variable.
LEMMA TypesByWriter ==
  Types <=> FeedTyped /\ SharedTyped /\ LineTyped /\ mon \in Handlers /\ worker \in Workers
BY DEF Types, TypeOK, FeedTyped, SharedTyped, LineTyped, Handlers, HandlerPlaces, Workers

\* Every step leaves the variables their types.
LEMMA TypesInductive ==
  ASSUME Types, Places, Next PROVE Types'
<1> DEFINE T == FeedTyped /\ SharedTyped /\ LineTyped /\ mon \in Handlers /\ worker \in Workers
<1>0. T /\ MonIdle \in Handlers /\ WorkerIdle \in Workers
  BY TypesByWriter, Idle
<1> USE DEF HandlerPlaces
<1> SUFFICES T'
  BY DEF Types, TypeOK, FeedTyped, SharedTyped, LineTyped, Handlers, Workers
<1>1. ASSUME NEW shape \in Shapes, NEW session \in MessageSessions[shape.json], Poll(shape, session)
      PROVE  T'
  <2>1. Len(feed) \in Nat /\ Len(feed) + 1 \in Msgs /\ shape.peer \in Peers
    BY <1>0, <1>1, InboundAssumption DEF Poll, FeedTyped, Msgs, InboundAssumption
  <2>2. session \in Sessions
    BY <2>1, MessageSessionIsOwn, OwnIsSession
  <2>3. mon' \in Handlers
    <3>1. <<>> \in Seq(Msgs)
      OBVIOUS
    <3>2. QED
      BY <1>1, <2>1, <2>2, <3>1, JobIsTyped DEF Poll, At, Handlers
  <2>4. FeedTyped'
    BY <1>0, <1>1, InboundAssumption DEF Poll, FeedTyped, InboundAssumption
  <2>5. QED
    BY <1>0, <1>1, <2>3, <2>4 DEF Poll, sharedVars, SharedTyped, LineTyped
<1>2. ASSUME NEW n \in DOMAIN feed, NEW session \in MessageSessions[feed[n].json], PollAgain(n, session)
      PROVE  T'
  <2>1. n \in Polled /\ feed[n] \in Shapes /\ feed[n].peer \in Peers /\ n \in Msgs
    <3>1. n \in Polled
      BY <1>0 DEF Polled, FeedTyped
    <3>2. QED
      BY <3>1, PolledMessage DEF PeerOf
  <2>2. session \in Sessions
    BY <2>1, MessageSessionIsOwn, OwnIsSession
  <2>3. mon' \in Handlers
    <3>1. <<>> \in Seq(Msgs)
      OBVIOUS
    <3>2. QED
      BY <1>2, <2>1, <2>2, <3>1, JobIsTyped DEF PollAgain, At, Handlers
  <2>4. FeedTyped'
    BY <1>0, <1>2, InboundAssumption DEF PollAgain, FeedTyped, InboundAssumption
  <2>5. QED
    BY <1>0, <1>2, <2>3, <2>4 DEF PollAgain, sharedVars, SharedTyped, LineTyped
<1>3. ASSUME NEW config \in Configs, NEW session \in ConfigSessions[config.json],
             Prefetch(config, session)
      PROVE  T'
  <2>1. config.peer \in Peers /\ session \in Sessions
    BY ConfigSessionIsOwn, OwnIsSession
  <2>2. SharedTyped'
    BY <1>0, <1>3, <2>1 DEF Prefetch, Remember, SharedTyped
  <2>3. QED
    BY <1>0, <1>3, <2>2, MovesOn DEF Prefetch, FeedTyped, LineTyped
<1>4. mon.place # "idle" =>
        /\ mon.job.msg \in Polled /\ mon.job.msg \in Msgs /\ PeerOf(mon.job.msg) \in Peers
        /\ mon.job \in Jobs /\ mon.job.session \in Sessions
  BY PolledMessage, MonitorTyped DEF Places, HandlerHas
<1>5. worker.place # "idle" =>
        /\ worker.job.msg \in Polled /\ worker.job.msg \in Msgs /\ PeerOf(worker.job.msg) \in Peers
        /\ worker.job \in Jobs
  <2>1. ASSUME worker.place # "idle" PROVE worker.job.msg \in Polled
    <3>1. ran \in Seq(Jobs) /\ queue \in Seq(Jobs) /\ ran # <<>> /\ worker.job = ran[Len(ran)]
      BY <1>0, <2>1 DEF LineTyped, Places, WorkerHas
    <3>2. Len(ran) \in DOMAIN Line /\ Line[Len(ran)] = ran[Len(ran)]
      BY <3>1 DEF Line
    <3>3. QED
      BY <3>1, <3>2 DEF Places, LineHas
  <2>2. QED
    BY <2>1, PolledMessage, WorkerTyped
<1>6. CASE StoreToken
  <2>1. SharedTyped'
    BY <1>0, <1>4, <1>6 DEF StoreToken, SharedTyped
  <2>2. QED
    BY <1>0, <1>6, <2>1, MovesOn DEF StoreToken, FeedTyped, LineTyped
<1>7. CASE PrefetchFails \/ ReadText \/ ReadQuotedMedium \/ LoseMedia
  BY <1>0, <1>7, MovesOn
  DEF PrefetchFails, ReadText, ReadQuotedMedium, LoseMedia, sharedVars, FeedTyped, SharedTyped,
      LineTyped
<1>8. CASE RememberSession
  <2>1. SharedTyped'
    BY <1>0, <1>4, <1>8 DEF RememberSession, Remember, SharedTyped
  <2>2. QED
    BY <1>0, <1>8, <2>1, MovesOn DEF RememberSession, FeedTyped, LineTyped
<1>9. CASE Deduplicate
  <2>1. SharedTyped'
    BY <1>0, <1>4, <1>9 DEF Deduplicate, SharedTyped
  <2>2. QED
    BY <1>0, <1>9, <2>1, MovesOn DEF Deduplicate, FeedTyped, LineTyped
<1>10. CASE SaveMedia
  <2> DEFINE p == PeerOf(mon.job.msg)
             all == Append(recent[p], mon.job.msg)
             drop == IF Len(all) > RecentCap THEN Len(all) - RecentCap ELSE 0
             newest == SubSeq(all, drop + 1, Len(all))
  <2>1. mon.job.msg \in Msgs /\ p \in Peers /\ all \in Seq(Msgs)
    BY <1>0, <1>4, <1>10 DEF SaveMedia, SharedTyped
  <2>2. newest \in Seq(Msgs) /\ Len(newest) <= RecentCap
    <3>1. RecentCap \in Nat
      BY InboundAssumption DEF InboundAssumption
    <3> HIDE DEF all
    <3>2. QED
      BY <2>1, <3>1, NewestMedia
  <2>3. recent' = [recent EXCEPT ![p] = newest]
    BY <1>10 DEF SaveMedia
  <2> HIDE DEF p, newest
  <2>4. recent' \in [Peers -> Seq(Msgs)] /\ \A q \in Peers : Len(recent'[q]) <= RecentCap
    BY <1>0, <2>1, <2>2, <2>3 DEF SharedTyped
  <2>5. QED
    BY <1>0, <1>10, <2>4 DEF SaveMedia, FeedTyped, SharedTyped, LineTyped
<1>11. CASE ReadQuote
  <2> DEFINE p == PeerOf(mon.job.msg)
  <2>1. p \in Peers /\ recent[p] \in Seq(Msgs) /\ mon.job.msg \in Msgs
    BY <1>0, <1>4, <1>11 DEF ReadQuote, SharedTyped
  <2>2. mon' = At("reply?", Job(mon.job.msg, recent[p], mon.job.session))
    BY <1>11, MonitorTyped DEF ReadQuote, At, Job
  <2>3. mon' \in Handlers
    BY <2>1, <2>2, JobIsTyped, MonitorTyped DEF At, Handlers
  <2>4. <<>> \in Seq(Msgs) /\ Len(<<>>) <= RecentCap
    BY InboundAssumption DEF InboundAssumption
  <2>5. recent' = [recent EXCEPT ![p] = <<>>]
    BY <1>11 DEF ReadQuote
  <2> HIDE DEF p
  <2>6. recent' \in [Peers -> Seq(Msgs)] /\ \A q \in Peers : Len(recent'[q]) <= RecentCap
    BY <1>0, <2>1, <2>4, <2>5 DEF SharedTyped
  <2>7. QED
    BY <1>0, <1>11, <2>3, <2>6 DEF ReadQuote, FeedTyped, SharedTyped, LineTyped
<1>12. CASE TakeAsReply
  <2>1. SharedTyped' /\ consumed' \in Seq(Msgs)
    BY <1>0, <1>4, <1>12 DEF TakeAsReply, SharedTyped, LineTyped
  <2>2. QED
    BY <1>0, <1>12, <2>1 DEF TakeAsReply, FeedTyped, LineTyped
<1>13. CASE TakeAsJob
  <2> DEFINE session == IF mon.job.session = NoSession THEN sessions[PeerOf(mon.job.msg)]
                                                       ELSE mon.job.session
  <2>1. session \in Sessions
    BY <1>0, <1>4, <1>13 DEF TakeAsJob, SharedTyped
  <2>2. [mon.job EXCEPT !.session = session] = Job(mon.job.msg, mon.job.refs, session)
    BY MonitorTyped DEF Job
  <2>3. Job(mon.job.msg, mon.job.refs, session) \in Jobs
    BY <2>1, MonitorTyped, JobIsTyped
  <2>4. mon' = MonIdle \/ mon' = At("enqueue", [mon.job EXCEPT !.session = session])
    BY <1>13 DEF TakeAsJob
  <2> HIDE DEF session
  <2>5. mon' \in Handlers
    BY <1>0, <2>2, <2>3, <2>4 DEF At, Handlers
  <2>6. QED
    BY <1>0, <1>13, <2>5 DEF TakeAsJob, sharedVars, FeedTyped, SharedTyped, LineTyped
<1>14. CASE Enqueue
  <2>1. queue' \in Seq(Jobs) /\ Len(queue') <= Cap
    BY <1>0, <1>4, <1>14, InboundAssumption DEF Enqueue, LineTyped, InboundAssumption
  <2>2. QED
    BY <1>0, <1>14, <2>1 DEF Enqueue, sharedVars, FeedTyped, SharedTyped, LineTyped
<1>15. CASE StartRun
  <2>1. /\ queue \in Seq(Jobs) /\ queue # <<>> /\ Len(queue) <= Cap /\ ran \in Seq(Jobs)
        /\ Cap \in Nat
    BY <1>0, <1>15, InboundAssumption DEF StartRun, LineTyped, InboundAssumption
  <2>2. Head(queue) \in Jobs /\ Tail(queue) \in Seq(Jobs) /\ Len(Tail(queue)) <= Cap
    BY <2>1, HeadTailProperties
  <2>3. 0 \in 0 .. MaxAsks
    BY InboundAssumption DEF InboundAssumption
  <2>4. worker' \in Workers
    BY <1>15, <2>2, <2>3 DEF StartRun, Works, Workers
  <2>5. ran' \in Seq(Jobs)
    BY <1>15, <2>1, <2>2 DEF StartRun
  <2>6. QED
    BY <1>0, <1>15, <2>2, <2>4, <2>5 DEF StartRun, sharedVars, FeedTyped, SharedTyped, LineTyped
<1>16. CASE Ask
  <2>1. worker.asks + 1 \in 0 .. MaxAsks
    BY <1>16, WorkerTyped, InboundAssumption DEF Ask, InboundAssumption
  <2>2. worker' \in Workers
    BY <1>16, <2>1, WorkerTyped DEF Ask, Works, Workers
  <2>3. QED
    BY <1>0, <1>16, <2>2 DEF Ask, FeedTyped, SharedTyped, LineTyped
<1>17. CASE Approved \/ ApprovalTimeout \/ RunEnds \/ RunEndsEmpty
  <2>1. worker' \in Workers
    BY <1>0, <1>17 DEF Approved, ApprovalTimeout, RunEnds, RunEndsEmpty, Workers
  <2>2. SharedTyped'
    BY <1>0, <1>17 DEF Approved, ApprovalTimeout, RunEnds, RunEndsEmpty, sharedVars, SharedTyped
  <2>3. QED
    BY <1>0, <1>17, <2>1, <2>2 DEF Approved, ApprovalTimeout, RunEnds, RunEndsEmpty, FeedTyped,
       LineTyped
<1>18. CASE Reply
  <2> DEFINE n == worker.job.msg
             token == IF feed[n].token THEN n ELSE tokens[PeerOf(n)]
  <2>1. n \in Msgs /\ PeerOf(n) \in Peers /\ worker.job \in Jobs /\ token \in Msgs \cup {0}
    BY <1>0, <1>5, <1>18 DEF Reply, SharedTyped
  <2>2. sessions[PeerOf(n)] \in Sessions
    BY <1>0, <2>1 DEF SharedTyped
  <2>3. \/ UNCHANGED <<tokens, replied>>
        \/ /\ token # 0 /\ tokens' = [tokens EXCEPT ![PeerOf(n)] = token]
           /\ replied' = replied \cup {[job |-> worker.job, token |-> token,
                                        session |-> sessions[PeerOf(n)]]}
    BY <1>18 DEF Reply
  <2> HIDE DEF token
  <2>4. tokens' \in [Peers -> Msgs \cup {0}]
    BY <1>0, <2>1, <2>3 DEF SharedTyped
  <2>5. replied' \subseteq [job : Jobs, token : Msgs, session : Sessions]
    BY <1>0, <2>1, <2>2, <2>3 DEF LineTyped
  <2>6. QED
    BY <1>0, <1>18, <2>4, <2>5 DEF Reply, FeedTyped, SharedTyped, LineTyped
<1>19. CASE Quiescent
  BY <1>0, <1>19 DEF Quiescent, vars, sharedVars, FeedTyped, SharedTyped, LineTyped
<1>20. QED
  BY <1>1, <1>2, <1>3, <1>6, <1>7, <1>8, <1>9, <1>10, <1>11, <1>12, <1>13, <1>14, <1>15, <1>16,
     <1>17, <1>18, <1>19
  DEF Next, HandlerStep, WorkerStep

-----------------------------------------------------------------------------
(* Where messages and jobs are *)

(* Polling changes nothing about the messages polled before.               *)
LEMMA FeedGrows ==
  ASSUME Types, Next
  PROVE  /\ Polled \subseteq Polled'
         /\ \A n \in Polled : feed'[n] = feed[n] /\ PeerOf(n)' = PeerOf(n)
<1>1. feed \in Seq(Shapes)
  BY DEF Types, TypeOK
<1>2. CASE UNCHANGED feed
  BY <1>2 DEF Polled, PeerOf
<1>3. CASE \E shape \in Shapes : \E session \in MessageSessions[shape.json] : Poll(shape, session)
  <2>1. PICK shape \in Shapes : feed' = Append(feed, shape)
    BY <1>3 DEF Poll
  <2>2. Len(feed') = Len(feed) + 1 /\ \A n \in 1 .. Len(feed) : feed'[n] = feed[n]
    BY <1>1, <2>1
  <2>3. QED
    BY <1>1, <2>2 DEF Polled, PeerOf
<1>4. QED
  BY <1>2, <1>3
  DEF Next, PollAgain, HandlerStep, StoreToken, Prefetch, PrefetchFails, RememberSession,
      Deduplicate, SaveMedia, LoseMedia, ReadText, ReadQuotedMedium, ReadQuote, TakeAsReply,
      TakeAsJob, Enqueue, WorkerStep, StartRun, Ask, Approved, ApprovalTimeout, RunEnds,
      RunEndsEmpty, Reply, Quiescent, vars

\* The line of jobs, run and queued, starts with those that ran.
LEMMA LineTypes ==
  ASSUME Types
  PROVE  /\ Line \in Seq(Jobs) /\ DOMAIN Line = 1 .. Len(Line)
         /\ Len(Line) = Len(ran) + Len(queue) /\ Len(ran) \in Nat
         /\ \A i \in 1 .. Len(ran) : i \in DOMAIN Line /\ Line[i] = ran[i]
<1>1. ran \in Seq(Jobs) /\ queue \in Seq(Jobs)
  BY DEF Types, TypeOK
<1>2. QED
  BY <1>1 DEF Line

(* The agent takes the job that is next in the line, where it keeps its    *)
(* place.                                                                  *)
LEMMA TakenInPlace ==
  ASSUME NEW S, NEW r \in Seq(S), NEW q \in Seq(S), q # <<>>
  PROVE  Append(r, Head(q)) \o Tail(q) = r \o q
<1>1. Head(q) \in S /\ Tail(q) \in Seq(S) /\ q = <<Head(q)>> \o Tail(q)
  OBVIOUS
<1>2. Append(r, Head(q)) = r \o <<Head(q)>> /\ <<Head(q)>> \in Seq(S)
  BY <1>1
<1>3. (r \o <<Head(q)>>) \o Tail(q) = r \o (<<Head(q)>> \o Tail(q))
  BY <1>1, <1>2, ConcatAssociative
<1>4. QED
  BY <1>1, <1>2, <1>3

\* Only Enqueue lengthens the line, at its end: the worker moves within it.
LEMMA LineGrows ==
  ASSUME Types, Next
  PROVE  \/ Line' = Line
         \/ Enqueue /\ Line' = Append(Line, mon.job)
<1>1. ran \in Seq(Jobs) /\ queue \in Seq(Jobs) /\ mon.job \in Jobs
  BY MonitorTyped DEF Types, TypeOK
<1>2. CASE UNCHANGED <<ran, queue>>
  BY <1>2 DEF Line
<1>3. CASE StartRun
  BY <1>1, <1>3, TakenInPlace DEF StartRun, Line
<1>4. CASE Enqueue
  <2>1. Append(queue, mon.job) = queue \o <<mon.job>> /\ <<mon.job>> \in Seq(Jobs)
    BY <1>1
  <2>2. ran \o (queue \o <<mon.job>>) = (ran \o queue) \o <<mon.job>>
    BY <1>1, <2>1, ConcatAssociative
  <2>3. ran \o queue \in Seq(Jobs)
    BY <1>1
  <2>4. (ran \o queue) \o <<mon.job>> = Append(ran \o queue, mon.job)
    BY <1>1, <2>3
  <2>5. QED
    BY <1>4, <2>1, <2>2, <2>4 DEF Enqueue, Line
<1>5. QED
  BY <1>2, <1>3, <1>4
  DEF Next, Poll, PollAgain, HandlerStep, StoreToken, Prefetch, PrefetchFails, RememberSession,
      Deduplicate, SaveMedia, LoseMedia, ReadText, ReadQuotedMedium, ReadQuote, TakeAsReply,
      TakeAsJob, WorkerStep, Ask, Approved, ApprovalTimeout, RunEnds, RunEndsEmpty, Reply,
      Quiescent, vars

(* What holds of every job in the line and of the one that joins it, holds *)
(* of every job in the line.                                               *)
LEMMA LineStep ==
  ASSUME Types, Next
  PROVE  \A i \in DOMAIN Line' :
            \/ i \in DOMAIN Line /\ Line'[i] = Line[i]
            \/ /\ Enqueue /\ i = Len(Line) + 1 /\ i \notin DOMAIN Line
               /\ Line'[i] = mon.job
<1>1. Line \in Seq(Jobs) /\ DOMAIN Line = 1 .. Len(Line) /\ mon.job \in Jobs
  BY LineTypes, MonitorTyped
<1>2. CASE Line' = Line
  BY <1>2
<1>3. CASE Enqueue /\ Line' = Append(Line, mon.job)
  BY <1>1, <1>3
<1>4. QED
  BY <1>2, <1>3, LineGrows

(* The message and the job in hand are typed where there is one.           *)
LEMMA InHand ==
  ASSUME Types, Places
  PROVE  /\ mon.place # "idle" =>
              mon.job.msg \in Polled /\ mon.job.msg \in Msgs /\ PeerOf(mon.job.msg) \in Peers
         /\ worker.place # "idle" =>
              /\ worker.job.msg \in Polled /\ worker.job.msg \in Msgs
              /\ PeerOf(worker.job.msg) \in Peers
              /\ \E i \in DOMAIN Line : worker.job = Line[i]
<1>1. ASSUME mon.place # "idle"
      PROVE  mon.job.msg \in Polled /\ mon.job.msg \in Msgs /\ PeerOf(mon.job.msg) \in Peers
  <2>1. mon.job.msg \in Polled
    BY <1>1 DEF Places, HandlerHas
  <2>2. QED
    BY <2>1, PolledMessage
<1>2. ASSUME worker.place # "idle"
      PROVE  /\ worker.job.msg \in Polled /\ worker.job.msg \in Msgs
             /\ PeerOf(worker.job.msg) \in Peers
             /\ \E i \in DOMAIN Line : worker.job = Line[i]
  <2>1. ran # <<>> /\ worker.job = ran[Len(ran)] /\ ran \in Seq(Jobs)
    BY <1>2 DEF Places, WorkerHas, Types
  <2>2. Len(ran) \in 1 .. Len(ran)
    BY <2>1
  <2>3. Len(ran) \in DOMAIN Line /\ worker.job = Line[Len(ran)]
    BY <2>1, <2>2, LineTypes
  <2>4. worker.job.msg \in Polled
    BY <2>3 DEF Places, LineHas
  <2>5. worker.job.msg \in Msgs /\ PeerOf(worker.job.msg) \in Peers
    BY <2>4, PolledMessage
  <2>6. QED
    BY <2>3, <2>4, <2>5
<1>3. QED
  BY <1>1, <1>2

\* The message is no duplicate.
DeduplicatePasses ==
    /\ Deduplicate
    /\ ~(feed[mon.job.msg].key /\ mon.job.msg \in seen)

(* What one step does to the message and the job the handler works on.     *)
LEMMA HandlerStepKinds ==
  ASSUME Types, Next
  PROVE  \/ mon' = mon
         \/ mon' = MonIdle
         \/ \E n \in Polled' : \E session \in SessionsOf[feed'[n].peer] \cup {NoSession} :
              mon' = At("token", Job(n, <<>>, session))
         \/ /\ mon.place # "idle" /\ mon'.job = mon.job
            /\ mon'.place \in {"prefetch", "session", "dedup", "body", "reply?"}
            /\ mon.place \notin {"reply?", "enqueue"}
            /\ \/ mon'.place \in {"prefetch", "session"}
               \/ mon.place = "body"
               \/ RememberSession \/ DeduplicatePasses
         \/ ReadQuote /\ mon' = At("reply?", [mon.job EXCEPT !.refs = recent[PeerOf(mon.job.msg)]])
         \/ /\ TakeAsJob /\ mon'.place = "enqueue"
            /\ mon'.job.msg = mon.job.msg /\ mon'.job.refs = mon.job.refs
<1> DEFINE Kinds4 == /\ mon.place # "idle" /\ mon'.job = mon.job
                     /\ mon'.place \in {"prefetch", "session", "dedup", "body", "reply?"}
                     /\ mon.place \notin {"reply?", "enqueue"}
                     /\ \/ mon'.place \in {"prefetch", "session"}
                        \/ mon.place = "body"
                        \/ RememberSession \/ DeduplicatePasses
<1>1. ASSUME NEW shape \in Shapes, NEW session \in MessageSessions[shape.json], Poll(shape, session)
      PROVE  /\ Len(feed) + 1 \in Polled'
             /\ session \in SessionsOf[feed'[Len(feed) + 1].peer] \cup {NoSession}
             /\ mon' = At("token", Job(Len(feed) + 1, <<>>, session))
  <2>1. feed \in Seq(Shapes) /\ feed' = Append(feed, shape)
    BY <1>1 DEF Poll, Types, TypeOK
  <2>2. Len(feed) + 1 \in Polled' /\ feed'[Len(feed) + 1] = shape
    BY <2>1 DEF Polled
  <2>3. session \in SessionsOf[shape.peer] \cup {NoSession}
    BY MessageSessionIsOwn
  <2>4. QED
    BY <1>1, <2>2, <2>3 DEF Poll
<1>2. ASSUME NEW n \in DOMAIN feed, NEW session \in MessageSessions[feed[n].json], PollAgain(n, session)
      PROVE  /\ n \in Polled' /\ session \in SessionsOf[feed'[n].peer] \cup {NoSession}
             /\ mon' = At("token", Job(n, <<>>, session))
  <2>1. n \in Polled /\ feed' = feed
    BY <1>2 DEF PollAgain, Polled, Types, TypeOK
  <2>2. feed[n] \in Shapes /\ feed[n].peer \in Peers
    BY <2>1, PolledMessage DEF PeerOf
  <2>3. session \in SessionsOf[feed[n].peer] \cup {NoSession}
    BY <2>2, MessageSessionIsOwn
  <2>4. QED
    BY <1>2, <2>1, <2>3 DEF PollAgain, Polled
<1>3. ASSUME NEW place \in HandlerPlaces, mon' = [mon EXCEPT !.place = place]
      PROVE  mon'.job = mon.job /\ mon'.place = place
  BY <1>3, MovesOn DEF At
<1>4. ASSUME NEW config \in Configs, NEW session \in ConfigSessions[config.json],
             Prefetch(config, session)
      PROVE  Kinds4
  BY <1>3, <1>4 DEF Prefetch, HandlerPlaces
<1>5. CASE StoreToken \/ PrefetchFails \/ RememberSession \/ ReadText \/ ReadQuotedMedium
  <2>1. Kinds4
    BY <1>3, <1>5 DEF StoreToken, PrefetchFails, RememberSession, ReadText, ReadQuotedMedium,
       HandlerPlaces
  <2>2. QED
    BY <2>1
<1>6. CASE Deduplicate
  <2>1. mon' = MonIdle \/ Kinds4
    BY <1>3, <1>6 DEF Deduplicate, DeduplicatePasses, HandlerPlaces
  <2>2. QED
    BY <2>1
<1>7. CASE SaveMedia \/ LoseMedia \/ TakeAsReply \/ Enqueue
  BY <1>7 DEF SaveMedia, LoseMedia, TakeAsReply, Enqueue
<1>8. CASE ReadQuote
  BY <1>8 DEF ReadQuote
<1>9. CASE TakeAsJob
  <2>1. PICK session \in {mon.job.session, sessions[PeerOf(mon.job.msg)]} :
           mon' = MonIdle \/ mon' = At("enqueue", [mon.job EXCEPT !.session = session])
    BY <1>9 DEF TakeAsJob
  <2>2. [mon.job EXCEPT !.session = session] = Job(mon.job.msg, mon.job.refs, session)
    BY MonitorTyped DEF Job
  <2>3. QED
    BY <1>9, <2>1, <2>2 DEF At, Job
<1>10. CASE WorkerStep \/ Quiescent
  BY <1>10 DEF WorkerStep, StartRun, Ask, Approved, ApprovalTimeout, RunEnds, RunEndsEmpty,
     Reply, Quiescent, vars
<1>11. CASE HandlerStep
  BY <1>4, <1>5, <1>6, <1>7, <1>8, <1>9, <1>11 DEF HandlerStep
<1>12. QED
  BY <1>1, <1>2, <1>10, <1>11 DEF Next

(* Recent media only leave, but for the one that is saved.                 *)
LEMMA RecentStep ==
  ASSUME Types, Places, Next, NEW p \in Peers, NEW n \in ToSet(recent'[p])
  PROVE  \/ n \in ToSet(recent[p])
         \/ /\ SaveMedia /\ n = mon.job.msg /\ p = PeerOf(n)
            /\ n \in Polled
<1>1. CASE recent' = recent
  BY <1>1
<1>2. CASE SaveMedia
  <2>1. PICK m \in Msgs, owner \in Peers : m = mon.job.msg /\ owner = PeerOf(m) /\ m \in Polled
    BY <1>2, InHand DEF SaveMedia
  <2>2. PICK all \in Seq(Msgs) : all = Append(recent[owner], m)
    <3>1. Append(recent[owner], m) \in Seq(Msgs)
      BY <2>1 DEF Types, TypeOK
    <3>2. QED
      BY <3>1
  <2>3. PICK drop : drop = IF Len(all) > RecentCap THEN Len(all) - RecentCap ELSE 0
    OBVIOUS
  <2>4. recent' = [recent EXCEPT ![owner] = SubSeq(all, drop + 1, Len(all))]
    BY <1>2, <2>1, <2>2, <2>3 DEF SaveMedia
  <2>5. recent \in [Peers -> Seq(Msgs)] /\ RecentCap \in Nat
    BY InboundAssumption DEF Types, TypeOK, InboundAssumption
  <2>6. ToSet(SubSeq(all, drop + 1, Len(all))) \subseteq ToSet(all)
    BY <2>3, <2>5, NewestMedia
  <2>7. \A x \in ToSet(all) : x \in ToSet(recent[owner]) \/ x = m
    BY <2>2, <2>5 DEF ToSet
  <2>8. CASE p = owner
    BY <1>2, <2>1, <2>4, <2>5, <2>6, <2>7, <2>8
  <2>9. CASE p # owner
    BY <2>4, <2>5, <2>9
  <2>10. QED
    BY <2>8, <2>9
<1>3. CASE ReadQuote
  <2>1. recent \in [Peers -> Seq(Msgs)] /\ PeerOf(mon.job.msg) \in Peers
    BY <1>3, InHand DEF ReadQuote, Types, TypeOK
  <2>2. recent' = [recent EXCEPT ![PeerOf(mon.job.msg)] = <<>>]
    BY <1>3 DEF ReadQuote
  <2>3. p # PeerOf(mon.job.msg) /\ recent'[p] = recent[p]
    BY <2>1, <2>2 DEF ToSet
  <2>4. QED
    BY <2>3
<1>4. QED
  BY <1>1, <1>2, <1>3
  DEF Next, Poll, PollAgain, HandlerStep, StoreToken, Prefetch, PrefetchFails,
      RememberSession, Deduplicate, LoseMedia, ReadText, ReadQuotedMedium, TakeAsReply,
      TakeAsJob, Enqueue, WorkerStep, StartRun, Ask, Approved, ApprovalTimeout, RunEnds,
      RunEndsEmpty, Reply, Quiescent, vars, sharedVars

\* Every step leaves monitor, worker and jobs where they belong.
LEMMA PlacesInductive ==
  ASSUME Types, Types', Places, Next PROVE Places'
<1>1. HandlerHas'
  <2>1. \A n \in Polled : n \in Polled'
    BY FeedGrows
  <2>2. CASE mon' = mon
    BY <2>1, <2>2 DEF Places, HandlerHas
  <2>3. CASE mon' = MonIdle
    BY <2>3, Idle DEF HandlerHas
  <2>4. ASSUME NEW n \in Polled', NEW session, mon' = At("token", Job(n, <<>>, session))
        PROVE  HandlerHas'
    BY <2>4 DEF At, Job, HandlerHas
  <2>5. CASE /\ mon.place # "idle" /\ mon'.job = mon.job
             /\ mon'.place \in {"prefetch", "session", "dedup", "body", "reply?"}
             /\ mon.place \notin {"reply?", "enqueue"}
    BY <2>1, <2>5 DEF Places, HandlerHas
  <2>6. CASE ReadQuote /\ mon' = At("reply?", [mon.job EXCEPT !.refs = recent[PeerOf(mon.job.msg)]])
    <3>1. mon.place # "idle" /\ mon' = At("reply?", Job(mon.job.msg, recent[PeerOf(mon.job.msg)], mon.job.session))
      BY <2>6, MonitorTyped DEF ReadQuote, Job
    <3>2. QED
      BY <2>1, <3>1 DEF Places, HandlerHas, At, Job
  <2>7. CASE TakeAsJob /\ mon'.place = "enqueue" /\ mon'.job.msg = mon.job.msg
    BY <2>1, <2>7 DEF TakeAsJob, Places, HandlerHas
  <2>8. QED
    BY <2>2, <2>3, <2>4, <2>5, <2>6, <2>7, HandlerStepKinds
<1>2. LineHas'
  <2> SUFFICES ASSUME NEW i \in DOMAIN Line' PROVE Line'[i].msg \in Polled'
    BY DEF LineHas
  <2>1. CASE i \in DOMAIN Line /\ Line'[i] = Line[i]
    BY <2>1, FeedGrows DEF Places, LineHas
  <2>2. CASE Enqueue /\ Line'[i] = mon.job
    <3>1. mon.job.msg \in Polled
      BY <2>2 DEF Enqueue, Places, HandlerHas
    <3>2. QED
      BY <2>2, <3>1, FeedGrows
  <2>3. QED
    BY <2>1, <2>2, LineStep
<1>3. WorkerHas'
  <2>1. CASE StartRun
    <3>1. ran \in Seq(Jobs) /\ Head(queue) \in Jobs
      BY <2>1 DEF StartRun, Types, TypeOK
    <3>2. worker'.job = Head(queue) /\ ran' = Append(ran, Head(queue))
      BY <2>1 DEF StartRun, Works
    <3>3. ran' # <<>> /\ ran'[Len(ran')] = Head(queue)
      BY <3>1, <3>2, AppendProperties
    <3>4. QED
      BY <3>2, <3>3 DEF WorkerHas
  <2>2. CASE UNCHANGED <<worker, ran>>
    BY <2>2 DEF Places, WorkerHas
  <2>3. CASE Ask \/ Approved \/ ApprovalTimeout \/ RunEnds
    <3>1. worker'.job = worker.job /\ worker.place # "idle" /\ ran' = ran
      BY <2>3, WorkerTyped DEF Ask, Approved, ApprovalTimeout, RunEnds, Works, sharedVars, Workers
    <3>2. QED
      BY <3>1 DEF Places, WorkerHas
  <2>4. CASE RunEndsEmpty \/ Reply
    BY <2>4, Idle DEF RunEndsEmpty, Reply, WorkerHas
  <2>5. QED
    BY <2>1, <2>2, <2>3, <2>4
    DEF Next, Poll, PollAgain, HandlerStep, StoreToken, Prefetch, PrefetchFails,
        RememberSession, Deduplicate, SaveMedia, LoseMedia, ReadText, ReadQuotedMedium,
        ReadQuote, TakeAsReply, TakeAsJob, Enqueue, WorkerStep, Quiescent, vars
<1>4. SeenPolled'
  <2>1. seen' \subseteq seen \cup {mon.job.msg} /\ (mon.place # "idle" \/ seen' \subseteq seen)
    BY
    DEF Next, Poll, PollAgain, HandlerStep, StoreToken, Prefetch, PrefetchFails,
        RememberSession, Deduplicate, SaveMedia, LoseMedia, ReadText, ReadQuotedMedium,
        ReadQuote, TakeAsReply, TakeAsJob, Enqueue, WorkerStep, StartRun, Ask, Approved,
        ApprovalTimeout, RunEnds, RunEndsEmpty, Reply, Quiescent, vars, sharedVars
  <2>2. QED
    BY <2>1, FeedGrows, InHand DEF Places, SeenPolled
<1>5. ConsumedPolled'
  <2>1. CASE consumed' = consumed
    BY <2>1, FeedGrows DEF Places, ConsumedPolled
  <2>2. CASE TakeAsReply
    <3>1. mon.job.msg \in Polled' /\ mon.job.msg \in Msgs /\ consumed \in Seq(Msgs)
      BY <2>2, FeedGrows, InHand DEF TakeAsReply, Types
    <3>2. consumed' = Append(consumed, mon.job.msg)
      BY <2>2 DEF TakeAsReply
    <3>3. \A i \in DOMAIN consumed' :
             \/ i \in DOMAIN consumed /\ consumed'[i] = consumed[i]
             \/ consumed'[i] = mon.job.msg
      BY <3>1, <3>2
    <3>4. QED
      BY <3>1, <3>3, FeedGrows DEF Places, ConsumedPolled
  <2>3. QED
    BY <2>1, <2>2
    DEF Next, Poll, PollAgain, HandlerStep, StoreToken, Prefetch, PrefetchFails,
        RememberSession, Deduplicate, SaveMedia, LoseMedia, ReadText, ReadQuotedMedium,
        ReadQuote, TakeAsJob, Enqueue, WorkerStep, StartRun, Ask, Approved, ApprovalTimeout,
        RunEnds, RunEndsEmpty, Reply, Quiescent, vars, sharedVars
<1>6. RecentPolled'
  BY FeedGrows, RecentStep DEF Places, RecentPolled
<1>7. TokensPolled'
  <2>1. CASE UNCHANGED tokens
    BY <2>1, FeedGrows DEF Places, TokensPolled
  <2>2. CASE StoreToken
    <3>1. mon.job.msg \in Polled'
      BY <2>2, FeedGrows, InHand DEF StoreToken
    <3>2. tokens' = tokens \/ tokens' = [tokens EXCEPT ![PeerOf(mon.job.msg)] = mon.job.msg]
      BY <2>2 DEF StoreToken
    <3>3. \A p \in Peers : tokens'[p] \in {tokens[p], mon.job.msg}
      BY <3>2 DEF Types, TypeOK
    <3>4. QED
      BY <3>1, <3>3, FeedGrows DEF Places, TokensPolled
  <2>3. CASE Reply
    <3>1. PICK token : /\ token \in {worker.job.msg, tokens[PeerOf(worker.job.msg)]}
                       /\ \/ tokens' = tokens
                          \/ token # 0 /\ tokens' = [tokens EXCEPT ![PeerOf(worker.job.msg)] = token]
      BY <2>3 DEF Reply
    <3>2. worker.job.msg \in Polled /\ PeerOf(worker.job.msg) \in Peers
      BY <2>3, InHand DEF Reply
    <3>3. token # 0 => token \in Polled'
      BY <3>1, <3>2, FeedGrows DEF Places, TokensPolled
    <3>4. \A p \in Peers : tokens'[p] = tokens[p] \/ (token # 0 /\ tokens'[p] = token)
      BY <3>1 DEF Types, TypeOK
    <3>5. QED
      BY <3>3, <3>4, FeedGrows DEF Places, TokensPolled
  <2>4. QED
    BY <2>1, <2>2, <2>3
    DEF Next, Poll, PollAgain, HandlerStep, Prefetch, PrefetchFails, RememberSession,
        Deduplicate, SaveMedia, LoseMedia, ReadText, ReadQuotedMedium, ReadQuote, TakeAsReply,
        TakeAsJob, Enqueue, WorkerStep, StartRun, Ask, Approved, ApprovalTimeout, RunEnds,
        RunEndsEmpty, Quiescent, vars, sharedVars
<1>8. RepliedPolled'
  <2>1. CASE replied' = replied
    BY <2>1, FeedGrows DEF Places, RepliedPolled
  <2>2. CASE Reply
    <3>1. worker.job.msg \in Polled /\ PeerOf(worker.job.msg) \in Peers
      BY <2>2, InHand DEF Reply
    <3>2. PICK token : /\ token \in {worker.job.msg, tokens[PeerOf(worker.job.msg)]}
                       /\ \/ replied' = replied
                          \/ token # 0 /\ replied' = replied \cup
                               {[job |-> worker.job, token |-> token,
                                 session |-> sessions[PeerOf(worker.job.msg)]]}
      BY <2>2 DEF Reply
    <3>3. token # 0 => token \in Polled
      BY <3>1, <3>2 DEF Places, TokensPolled
    <3>4. QED
      BY <3>1, <3>2, <3>3, FeedGrows DEF Places, RepliedPolled
  <2>3. QED
    BY <2>1, <2>2
    DEF Next, Poll, PollAgain, HandlerStep, StoreToken, Prefetch, PrefetchFails,
        RememberSession, Deduplicate, SaveMedia, LoseMedia, ReadText, ReadQuotedMedium,
        ReadQuote, TakeAsReply, TakeAsJob, Enqueue, WorkerStep, StartRun, Ask, Approved,
        ApprovalTimeout, RunEnds, RunEndsEmpty, Quiescent, vars, sharedVars
<1>9. QED
  BY <1>1, <1>2, <1>3, <1>4, <1>5, <1>6, <1>7, <1>8 DEF Places

\* So types and places always hold.
LEMMA PlacesHold == Spec => [](Types /\ Places)
<1>1. Init => Types /\ Places
  <2> SUFFICES ASSUME Init PROVE Types /\ Places
    OBVIOUS
  <2>1. NoSession \in Sessions /\ <<>> \in Seq(Msgs) /\ <<>> \in Seq(Shapes) /\ <<>> \in Seq(Jobs)
    BY DEF Sessions
  <2>2. 0 <= MaxMsgs /\ 0 <= Cap /\ 0 <= RecentCap /\ 0 \in 0 .. MaxAgain
    BY InboundAssumption DEF InboundAssumption
  <2>3. FeedTyped /\ SharedTyped /\ LineTyped
    BY <2>1, <2>2 DEF Init, FeedTyped, SharedTyped, LineTyped
  <2>4. mon \in Handlers /\ worker \in Workers
    BY Idle DEF Init, Handlers, Workers
  <2>5. Line = <<>>
    BY <2>1 DEF Init, Line
  <2>6. Places
    BY <2>5, Idle DEF Init, Places, HandlerHas, LineHas, WorkerHas, SeenPolled, ConsumedPolled,
       RecentPolled, TokensPolled, RepliedPolled, ToSet
  <2>7. QED
    BY <2>3, <2>4, <2>6, TypesByWriter
<1>2. Types /\ Places /\ [Next]_vars => Types' /\ Places'
  <2> SUFFICES ASSUME Types, Places, [Next]_vars PROVE Types' /\ Places'
    OBVIOUS
  <2>1. CASE UNCHANGED vars
    BY <2>1 DEF vars, sharedVars, Types, TypeOK, Places, HandlerHas, LineHas, WorkerHas,
       SeenPolled, ConsumedPolled, RecentPolled, TokensPolled, RepliedPolled, Line, Polled, PeerOf
  <2>2. CASE Next
    <3>1. Types'
      BY <2>2, TypesInductive
    <3>2. QED
      BY <2>2, <3>1, PlacesInductive
  <2>3. QED
    BY <2>1, <2>2
<1>3. QED
  BY <1>1, <1>2, PTL DEF Spec

(* Every variable has its type; the queue never holds more jobs than its   *)
(* capacity and the plugin no more recent media of a user than the limit   *)
(* (enqueueJob, appendRecentMedia).                                        *)
THEOREM TypeCorrect == Spec => []TypeOK
<1>1. Types => TypeOK
  BY DEF Types
<1>2. QED
  BY <1>1, PlacesHold, PTL

-----------------------------------------------------------------------------
(* Tokens *)

\* Every step leaves a token with the user whose message brought it.
LEMMA TokensInductive ==
  ASSUME Types, Places, TokensStay, Next PROVE TokensStay'
<1>1. \A n \in Polled : feed'[n] = feed[n]
  BY FeedGrows
<1>2. \A p \in Peers : tokens[p] # 0 =>
         tokens[p] \in Polled /\ feed[tokens[p]].peer = p /\ feed[tokens[p]].token
  BY DEF Places, TokensPolled, TokensStay, PeerOf
<1>3. \A r \in replied : /\ r.job.msg \in Polled /\ r.token \in Polled
                         /\ feed[r.token].peer = feed[r.job.msg].peer
                         /\ feed[r.job.msg].token => r.token = r.job.msg
  BY DEF Places, RepliedPolled, TokensStay, PeerOf
<1>4. tokens \in [Peers -> Msgs \cup {0}]
  BY DEF Types, TypeOK
<1>5. CASE UNCHANGED <<tokens, replied>>
  BY <1>1, <1>2, <1>3, <1>5 DEF TokensStay, PeerOf
<1>6. CASE StoreToken
  <2>1. mon.job.msg \in Polled /\ PeerOf(mon.job.msg) \in Peers
    BY <1>6, InHand DEF StoreToken
  <2>2. /\ replied' = replied
        /\ \/ tokens' = tokens
           \/ /\ feed[mon.job.msg].token
              /\ tokens' = [tokens EXCEPT ![PeerOf(mon.job.msg)] = mon.job.msg]
    BY <1>6 DEF StoreToken
  <2>3. \A p \in Peers :
           \/ tokens'[p] = tokens[p]
           \/ feed[mon.job.msg].token /\ p = PeerOf(mon.job.msg) /\ tokens'[p] = mon.job.msg
    BY <1>4, <2>2
  <2>4. QED
    BY <1>1, <1>2, <1>3, <2>1, <2>2, <2>3 DEF TokensStay, PeerOf
<1>7. CASE Reply
  <2>1. PICK n \in Polled : n = worker.job.msg /\ PeerOf(n) \in Peers
    BY <1>7, InHand DEF Reply
  <2>2. PICK token : /\ token = IF feed[n].token THEN n ELSE tokens[PeerOf(n)]
                     /\ \/ UNCHANGED <<tokens, replied>>
                        \/ /\ token # 0 /\ tokens' = [tokens EXCEPT ![PeerOf(n)] = token]
                           /\ replied' = replied \cup {[job |-> worker.job, token |-> token,
                                                        session |-> sessions[PeerOf(n)]]}
    BY <1>7, <2>1 DEF Reply
  <2>3. token # 0 => /\ token \in Polled /\ feed[token].peer = PeerOf(n) /\ feed[token].token
                     /\ feed[n].token => token = n
    BY <1>2, <2>1, <2>2 DEF PeerOf
  <2>4. ASSUME token # 0, tokens' = [tokens EXCEPT ![PeerOf(n)] = token],
               replied' = replied \cup {[job |-> worker.job, token |-> token,
                                         session |-> sessions[PeerOf(n)]]}
        PROVE  TokensStay'
    <3>1. \A p \in Peers : tokens'[p] = tokens[p] \/ (p = PeerOf(n) /\ tokens'[p] = token)
      BY <1>4, <2>4
    <3>2. \A r \in replied' : r \in replied \/ (r.job.msg = n /\ r.token = token)
      BY <2>1, <2>4
    <3>3. \A p \in Peers : tokens'[p] # 0 => feed'[tokens'[p]].peer = p /\ feed'[tokens'[p]].token
      BY <1>1, <1>2, <2>3, <2>4, <3>1
    <3>4. \A r \in replied' : /\ feed'[r.token].peer = feed'[r.job.msg].peer
                              /\ feed'[r.job.msg].token => r.token = r.job.msg
      BY <1>1, <1>3, <2>1, <2>3, <2>4, <3>2 DEF PeerOf
    <3>5. QED
      BY <3>3, <3>4 DEF TokensStay, PeerOf
  <2>5. QED
    BY <1>5, <2>2, <2>4
<1>8. QED
  BY <1>5, <1>6, <1>7
  DEF Next, Poll, PollAgain, HandlerStep, Prefetch, PrefetchFails, RememberSession, Deduplicate,
      SaveMedia, LoseMedia, ReadText, ReadQuotedMedium, ReadQuote, TakeAsReply, TakeAsJob,
      Enqueue, WorkerStep, StartRun, Ask, Approved, ApprovalTimeout, RunEnds, RunEndsEmpty,
      Quiescent, vars, sharedVars

-----------------------------------------------------------------------------
(* Session ids of users *)

\* A session id a user has is one of his own, and whoever has a job with one
\* is known by one.
SessionOf(n, session) == session \in SessionsOf[PeerOf(n)] \cup {NoSession}
KnownBy(job) == job.session # NoSession => sessions[PeerOf(job.msg)] # NoSession

SessionInv ==
    /\ SessionsStay
    /\ mon.place # "idle" => SessionOf(mon.job.msg, mon.job.session)
    /\ mon.place \in {"dedup", "body", "reply?", "enqueue"} => KnownBy(mon.job)
    /\ \A i \in DOMAIN Line : KnownBy(Line[i])

(* A user's session id is replaced, never forgotten.                       *)
LEMMA SessionsGrow ==
  ASSUME Types, Places, SessionInv, Next, NEW p \in Peers
  PROVE  /\ sessions'[p] \in SessionsOf[p] \cup {NoSession}
         /\ sessions[p] # NoSession => sessions'[p] # NoSession
<1>1. sessions \in [Peers -> Sessions] /\ sessions[p] \in SessionsOf[p] \cup {NoSession}
  BY DEF Types, TypeOK, SessionInv, SessionsStay
<1>2. ASSUME NEW q \in Peers, NEW session \in SessionsOf[q] \cup {NoSession}, Remember(q, session)
      PROVE  /\ sessions'[p] \in SessionsOf[p] \cup {NoSession}
             /\ sessions[p] # NoSession => sessions'[p] # NoSession
  BY <1>1, <1>2 DEF Remember
<1>3. CASE UNCHANGED sessions
  BY <1>1, <1>3
<1>4. ASSUME NEW config \in Configs, NEW session \in ConfigSessions[config.json],
             Prefetch(config, session)
      PROVE  Remember(config.peer, session)
  BY <1>4 DEF Prefetch
<1>5. CASE RememberSession
  <2>1. mon.place # "idle" /\ PeerOf(mon.job.msg) \in Peers
    BY <1>5, InHand DEF RememberSession
  <2>2. mon.job.session \in SessionsOf[PeerOf(mon.job.msg)] \cup {NoSession}
    BY <2>1 DEF SessionInv, SessionOf
  <2>3. Remember(PeerOf(mon.job.msg), mon.job.session)
    BY <1>5 DEF RememberSession
  <2>4. QED
    BY <1>2, <2>1, <2>2, <2>3
<1>6. QED
  BY <1>2, <1>3, <1>4, <1>5, ConfigSessionIsOwn
  DEF Next, Poll, PollAgain, HandlerStep, StoreToken, PrefetchFails, Deduplicate, SaveMedia,
      LoseMedia, ReadText, ReadQuotedMedium, ReadQuote, TakeAsReply, TakeAsJob, Enqueue,
      WorkerStep, StartRun, Ask, Approved, ApprovalTimeout, RunEnds, RunEndsEmpty, Reply,
      Quiescent, vars, sharedVars

\* The user of a job whose session was stored keeps having a stored session.
LEMMA StaysKnown ==
  ASSUME Types, Places, SessionInv, Next, NEW job, job.msg \in Polled, KnownBy(job)
  PROVE  job.session # NoSession => sessions'[feed'[job.msg].peer] # NoSession
<1>1. feed[job.msg].peer \in Peers /\ feed'[job.msg] = feed[job.msg]
  BY PolledMessage, FeedGrows DEF PeerOf
<1>2. QED
  BY <1>1, SessionsGrow DEF KnownBy, PeerOf

\* Every step leaves a session with its user.
LEMMA SessionInvInductive ==
  ASSUME Types, Places, SessionInv, Next PROVE SessionInv'
<1>1. \A n \in Polled : feed'[n] = feed[n]
  BY FeedGrows
<1>2. SessionsStay'
  <2>1. \A r \in replied : r.job.msg \in Polled
    BY DEF Places, RepliedPolled
  <2>2. \A r \in replied : /\ r.session \in SessionsOf[feed[r.job.msg].peer] \cup {NoSession}
                           /\ r.session = NoSession => r.job.session = NoSession
    BY DEF SessionInv, SessionsStay, PeerOf
  <2>3. \A r \in replied' : /\ r.session \in SessionsOf[feed'[r.job.msg].peer] \cup {NoSession}
                            /\ r.session = NoSession => r.job.session = NoSession
    <3>1. CASE UNCHANGED replied
      BY <1>1, <2>1, <2>2, <3>1
    <3>2. CASE Reply
      <4>1. PICK job : /\ job = worker.job
                       /\ job.msg \in Polled /\ PeerOf(job.msg) \in Peers /\ KnownBy(job)
        BY <3>2, InHand DEF Reply, SessionInv
      <4>2. PICK session : /\ session = sessions[PeerOf(job.msg)]
                           /\ session \in SessionsOf[feed[job.msg].peer] \cup {NoSession}
                           /\ session = NoSession => job.session = NoSession
        BY <4>1 DEF SessionInv, SessionsStay, KnownBy, PeerOf
      <4>3. \A r \in replied' : r \in replied \/ (r.job = job /\ r.session = session)
        BY <3>2, <4>1, <4>2 DEF Reply
      <4>4. QED
        BY <1>1, <2>1, <2>2, <4>1, <4>2, <4>3
    <3>3. QED
      BY <3>1, <3>2
      DEF Next, Poll, PollAgain, HandlerStep, StoreToken, Prefetch, PrefetchFails,
          RememberSession, Deduplicate, SaveMedia, LoseMedia, ReadText, ReadQuotedMedium,
          ReadQuote, TakeAsReply, TakeAsJob, Enqueue, WorkerStep, StartRun, Ask, Approved,
          ApprovalTimeout, RunEnds, RunEndsEmpty, Quiescent, vars, sharedVars
  <2>4. QED
    BY <2>3, SessionsGrow DEF SessionsStay, PeerOf
<1>3. mon'.place # "idle" => mon'.job.session \in SessionsOf[feed'[mon'.job.msg].peer] \cup {NoSession}
  <2>1. mon.place # "idle" =>
          /\ mon.job.msg \in Polled /\ PeerOf(mon.job.msg) \in Peers
          /\ mon.job.session \in SessionsOf[feed'[mon.job.msg].peer] \cup {NoSession}
    BY <1>1, InHand DEF SessionInv, SessionOf, PeerOf
  <2>2. CASE mon' = MonIdle
    BY <2>2, Idle
  <2>3. ASSUME NEW n \in Polled', NEW session \in SessionsOf[feed'[n].peer] \cup {NoSession},
               mon' = At("token", Job(n, <<>>, session))
        PROVE  mon'.job.session \in SessionsOf[feed'[mon'.job.msg].peer] \cup {NoSession}
    BY <2>3 DEF At, Job
  <2>4. CASE ReadQuote /\ mon' = At("reply?", [mon.job EXCEPT !.refs = recent[PeerOf(mon.job.msg)]])
    <3>1. mon' = At("reply?", Job(mon.job.msg, recent[PeerOf(mon.job.msg)], mon.job.session))
      BY <2>4, MonitorTyped DEF Job
    <3>2. QED
      BY <2>1, <2>4, <3>1 DEF ReadQuote, At, Job
  <2>5. CASE TakeAsJob /\ mon'.place = "enqueue" /\ mon'.job.msg = mon.job.msg
    <3>1. PICK session \in {mon.job.session, sessions[PeerOf(mon.job.msg)]} :
             mon' = MonIdle \/ mon' = At("enqueue", [mon.job EXCEPT !.session = session])
      BY <2>5 DEF TakeAsJob
    <3>2. [mon.job EXCEPT !.session = session] = Job(mon.job.msg, mon.job.refs, session)
      BY MonitorTyped DEF Job
    <3>3. mon'.job.session = session
      BY <2>5, <3>1, <3>2, Idle DEF At, Job
    <3>4. PeerOf(mon.job.msg) \in Peers /\ feed'[mon.job.msg].peer = PeerOf(mon.job.msg)
      BY <1>1, <2>1, <2>5 DEF TakeAsJob, PeerOf
    <3>5. sessions[PeerOf(mon.job.msg)] \in SessionsOf[PeerOf(mon.job.msg)] \cup {NoSession}
      BY <3>4 DEF SessionInv, SessionsStay
    <3>6. QED
      BY <2>1, <2>5, <3>1, <3>3, <3>4, <3>5 DEF TakeAsJob
  <2>6. QED
    BY <2>1, <2>2, <2>3, <2>4, <2>5, HandlerStepKinds
<1>4. mon'.place \in {"dedup", "body", "reply?", "enqueue"} =>
        (mon'.job.session # NoSession => sessions'[feed'[mon'.job.msg].peer] # NoSession)
  <2> DEFINE Known == mon'.job.session # NoSession => sessions'[feed'[mon'.job.msg].peer] # NoSession
  <2>1. mon.place # "idle" =>
          /\ mon.job.msg \in Polled /\ PeerOf(mon.job.msg) \in Peers
          /\ feed'[mon.job.msg].peer = PeerOf(mon.job.msg)
    BY <1>1, InHand DEF PeerOf
  <2>2. mon.place \in {"dedup", "body", "reply?", "enqueue"} =>
          (mon.job.session # NoSession => sessions'[feed'[mon.job.msg].peer] # NoSession)
    BY <2>1, StaysKnown DEF SessionInv
  <2>3. CASE RememberSession
    <3>1. mon'.job = mon.job
      BY <2>3, MovesOn DEF RememberSession, HandlerPlaces, At
    <3>2. PeerOf(mon.job.msg) \in Peers /\ sessions \in [Peers -> Sessions]
      BY <2>1, <2>3 DEF RememberSession, Types, TypeOK
    <3>3. mon.job.session # NoSession => sessions'[PeerOf(mon.job.msg)] # NoSession
      BY <2>3, <3>2 DEF RememberSession, Remember
    <3>4. QED
      BY <2>1, <2>3, <3>1, <3>3 DEF RememberSession
  <2>4. CASE mon' = MonIdle \/ mon' = mon
    BY <2>2, <2>4, Idle
  <2>5. CASE mon'.job = mon.job /\ mon.place \in {"dedup", "body"}
    BY <2>2, <2>5
  <2>6. CASE ReadQuote /\ mon' = At("reply?", [mon.job EXCEPT !.refs = recent[PeerOf(mon.job.msg)]])
    <3>1. mon' = At("reply?", Job(mon.job.msg, recent[PeerOf(mon.job.msg)], mon.job.session))
      BY <2>6, MonitorTyped DEF Job
    <3>2. QED
      BY <2>2, <2>6, <3>1 DEF ReadQuote, At, Job
  <2>7. CASE TakeAsJob /\ mon'.place = "enqueue" /\ mon'.job.msg = mon.job.msg
    <3>1. PICK session \in {mon.job.session, sessions[PeerOf(mon.job.msg)]} :
             mon' = MonIdle \/ mon' = At("enqueue", [mon.job EXCEPT !.session = session])
      BY <2>7 DEF TakeAsJob
    <3>2. [mon.job EXCEPT !.session = session] = Job(mon.job.msg, mon.job.refs, session)
      BY MonitorTyped DEF Job
    <3>3. mon'.job.session = session /\ sessions' = sessions
      BY <2>7, <3>1, <3>2, Idle DEF At, Job, TakeAsJob, sharedVars
    <3>4. QED
      BY <2>1, <2>2, <2>7, <3>1, <3>3 DEF TakeAsJob
  <2>8. CASE mon'.place \in {"token", "prefetch", "session"}
    BY <2>8
  <2>9. \A n, session : At("token", Job(n, <<>>, session)).place = "token"
    BY DEF At
  <2>10. QED
    BY <2>3, <2>4, <2>5, <2>6, <2>7, <2>8, <2>9, HandlerStepKinds
    DEF DeduplicatePasses, Deduplicate
<1>5. \A i \in DOMAIN Line' :
        Line'[i].session # NoSession => sessions'[feed'[Line'[i].msg].peer] # NoSession
  <2> SUFFICES ASSUME NEW i \in DOMAIN Line'
               PROVE  Line'[i].session # NoSession => sessions'[feed'[Line'[i].msg].peer] # NoSession
    OBVIOUS
  <2>1. CASE i \in DOMAIN Line /\ Line'[i] = Line[i]
    <3>1. Line[i].msg \in Polled /\ KnownBy(Line[i])
      BY <2>1 DEF Places, LineHas, SessionInv
    <3>2. QED
      BY <2>1, <3>1, StaysKnown
  <2>2. CASE Enqueue /\ Line'[i] = mon.job
    <3>1. mon.job.msg \in Polled /\ KnownBy(mon.job)
      BY <2>2, InHand DEF Enqueue, SessionInv
    <3>2. QED
      BY <2>2, <3>1, StaysKnown
  <2>3. QED
    BY <2>1, <2>2, LineStep
<1>6. QED
  BY <1>2, <1>3, <1>4, <1>5 DEF SessionInv, SessionOf, KnownBy, PeerOf

(* A reply carries a token and a session id of the user the message came   *)
(* from (replyAgentOutput, sendBotMessage): whatever the monitor writes    *)
(* into the two caches while the agent runs, and wherever in a message or  *)
(* an answer of getconfig the session id was found.                        *)
THEOREM TokensStayHolds == Spec => []TokensStayWithTheirUser
<1> DEFINE Inv == Types /\ Places /\ TokensStay /\ SessionInv
<1>1. Init => TokensStay /\ SessionInv
  <2> SUFFICES ASSUME Init PROVE TokensStay /\ SessionInv
    OBVIOUS
  <2>1. Line = <<>>
    BY DEF Init, Line
  <2>2. \A p \in Peers : tokens[p] = 0 /\ sessions[p] = NoSession
    BY DEF Init
  <2>3. mon.place = "idle" /\ replied = {}
    BY Idle DEF Init
  <2>4. QED
    BY <2>1, <2>2, <2>3 DEF TokensStay, SessionInv, SessionsStay
<1>2. Inv /\ [Next]_vars => TokensStay' /\ SessionInv'
  <2> SUFFICES ASSUME Inv, [Next]_vars PROVE TokensStay' /\ SessionInv'
    OBVIOUS
  <2>1. CASE UNCHANGED vars
    BY <2>1 DEF vars, sharedVars, TokensStay, SessionInv, SessionsStay, SessionOf, KnownBy, Line,
       PeerOf
  <2>2. CASE Next
    BY <2>2, TokensInductive, SessionInvInductive
  <2>3. QED
    BY <2>1, <2>2
<1>3. TokensStay /\ SessionInv => TokensStayWithTheirUser
  BY DEF TokensStayWithTheirUser, SessionInv
<1>4. QED
  BY <1>1, <1>2, <1>3, PlacesHold, PTL DEF Spec

-----------------------------------------------------------------------------
(* One message, one use *)

\* Deduplication let message n pass, and the handler has not finished with it.
InHands(n) == mon.place \in {"body", "reply?", "enqueue"} /\ mon.job.msg = n

InLine(n) == \E i \in DOMAIN Line : Line[i].msg = n
TakenAsReply(n) == \E j \in DOMAIN consumed : consumed[j] = n

\* The message is at one place only, and remembered from then on.
Once(n) ==
    /\ InHands(n) \/ InLine(n) \/ TakenAsReply(n) => n \in seen
    /\ ~(InHands(n) /\ InLine(n))
    /\ ~(InHands(n) /\ TakenAsReply(n))
    /\ ~(InLine(n) /\ TakenAsReply(n))
    /\ \A i, j \in DOMAIN Line : Line[i].msg = n /\ Line[j].msg = n => i = j
    /\ \A i, j \in DOMAIN consumed : consumed[i] = n /\ consumed[j] = n => i = j

OnceInv == \A n \in Polled : feed[n].key => Once(n)

(* A message comes into the handler's hands only by passing deduplication. *)
LEMMA HandsStep ==
  ASSUME Types, Next, NEW n, InHands(n)'
  PROVE  InHands(n) \/ (DeduplicatePasses /\ mon.place = "dedup" /\ mon.job.msg = n)
<1>1. mon'.place \in {"body", "reply?", "enqueue"} /\ mon'.job.msg = n
  BY DEF InHands
<1>2. \A m, session : At("token", Job(m, <<>>, session)).place = "token"
  BY DEF At
<1>3. CASE RememberSession
  <2>1. mon'.place = "dedup"
    BY <1>3, MovesOn DEF RememberSession, HandlerPlaces, At
  <2>2. QED
    BY <1>1, <2>1
<1>4. CASE DeduplicatePasses /\ mon'.job = mon.job
  BY <1>1, <1>4 DEF DeduplicatePasses, Deduplicate
<1>5. CASE ReadQuote /\ mon' = At("reply?", [mon.job EXCEPT !.refs = recent[PeerOf(mon.job.msg)]])
  <2>1. mon'.job.msg = mon.job.msg
    BY <1>5, MonitorTyped DEF At, Job
  <2>2. QED
    BY <1>1, <1>5, <2>1 DEF ReadQuote, InHands
<1>6. CASE TakeAsJob /\ mon'.job.msg = mon.job.msg
  BY <1>1, <1>6 DEF TakeAsJob, InHands
<1>7. CASE mon' = mon \/ (mon.place = "body" /\ mon'.job = mon.job)
  BY <1>1, <1>7 DEF InHands
<1>8. mon' # MonIdle /\ mon'.place \notin {"token", "prefetch", "session"}
  BY <1>1, Idle
<1>9. QED
  BY <1>2, <1>3, <1>4, <1>5, <1>6, <1>7, <1>8, HandlerStepKinds

(* The agent and the approver take what the handler holds.                 *)
LEMMA ConsumedStep ==
  ASSUME Types, Next
  PROVE  \/ consumed' = consumed
         \/ /\ TakeAsReply /\ mon' = MonIdle /\ Line' = Line
            /\ \A j \in DOMAIN consumed' :
                 \/ j \in DOMAIN consumed /\ consumed'[j] = consumed[j]
                 \/ j = Len(consumed) + 1 /\ j \notin DOMAIN consumed /\ consumed'[j] = mon.job.msg
<1>1. CASE TakeAsReply
  <2>1. consumed' = Append(consumed, mon.job.msg) /\ consumed \in Seq(Msgs) /\ mon.job.msg \in Msgs \cup {0}
    BY <1>1, MonitorTyped DEF TakeAsReply, Types
  <2>2. \A j \in DOMAIN consumed' :
           \/ j \in DOMAIN consumed /\ consumed'[j] = consumed[j]
           \/ j = Len(consumed) + 1 /\ j \notin DOMAIN consumed /\ consumed'[j] = mon.job.msg
    BY <2>1
  <2>3. mon' = MonIdle /\ Line' = Line
    BY <1>1 DEF TakeAsReply, Line
  <2>4. QED
    BY <1>1, <2>2, <2>3
<1>2. QED
  BY <1>1
  DEF Next, Poll, PollAgain, HandlerStep, StoreToken, Prefetch, PrefetchFails, RememberSession,
      Deduplicate, SaveMedia, LoseMedia, ReadText, ReadQuotedMedium, ReadQuote, TakeAsJob,
      Enqueue, WorkerStep, StartRun, Ask, Approved, ApprovalTimeout, RunEnds, RunEndsEmpty,
      Reply, Quiescent, vars, sharedVars

(* An id is never forgotten within its TTL.                                *)
LEMMA SeenGrows ==
  ASSUME Types, Next PROVE seen \subseteq seen'
BY DEF Next, Poll, PollAgain, HandlerStep, StoreToken, Prefetch, PrefetchFails, RememberSession,
       Deduplicate, SaveMedia, LoseMedia, ReadText, ReadQuotedMedium, ReadQuote, TakeAsReply,
       TakeAsJob, Enqueue, WorkerStep, StartRun, Ask, Approved, ApprovalTimeout, RunEnds,
       RunEndsEmpty, Reply, Quiescent, vars, sharedVars

(* A message polled in this step is nowhere yet.                           *)
LEMMA JustPolled ==
  ASSUME Types, Places, Next, NEW n \in Polled', n \notin Polled
  PROVE  /\ UNCHANGED <<recent, Line, consumed, seen>>
         /\ mon'.place = "token" /\ mon'.job.refs = <<>>
         /\ ~InLine(n) /\ ~TakenAsReply(n) /\ n \notin seen
<1>1. feed' # feed
  BY DEF Polled
<1>2. PICK shape \in Shapes : \E session \in MessageSessions[shape.json] : Poll(shape, session)
  BY <1>1
  DEF Next, PollAgain, HandlerStep, StoreToken, Prefetch, PrefetchFails, RememberSession,
      Deduplicate, SaveMedia, LoseMedia, ReadText, ReadQuotedMedium, ReadQuote, TakeAsReply,
      TakeAsJob, Enqueue, WorkerStep, StartRun, Ask, Approved, ApprovalTimeout, RunEnds,
      RunEndsEmpty, Reply, Quiescent, vars
<1>3. UNCHANGED <<recent, Line, consumed, seen>> /\ mon'.place = "token" /\ mon'.job.refs = <<>>
  BY <1>2 DEF Poll, sharedVars, Line, At, Job
<1>4. QED
  BY <1>3 DEF Places, LineHas, ConsumedPolled, SeenPolled, InLine, TakenAsReply

\* Every step leaves each message handled at most once.
LEMMA OnceInvInductive ==
  ASSUME Types, Places, OnceInv, Next PROVE OnceInv'
<1> SUFFICES ASSUME NEW n \in Polled', feed'[n].key PROVE Once(n)'
  BY DEF OnceInv
<1>1. CASE n \notin Polled
  <2>1. ~InHands(n)' /\ ~InLine(n)' /\ ~TakenAsReply(n)'
    BY <1>1, JustPolled DEF InHands, InLine, TakenAsReply
  <2>2. QED
    BY <2>1 DEF Once, InLine, TakenAsReply
<1>2. CASE n \in Polled
  <2>1. Once(n) /\ feed[n].key
    BY <1>2, FeedGrows DEF OnceInv
  <2>2. CASE DeduplicatePasses /\ mon.job.msg = n
    <3>1. n \notin seen /\ n \in seen' /\ ~InLine(n) /\ ~TakenAsReply(n)
      BY <2>1, <2>2 DEF DeduplicatePasses, Deduplicate, Once
    <3>2. Line' = Line /\ consumed' = consumed
      BY <2>2 DEF DeduplicatePasses, Deduplicate, Line
    <3>3. ~InLine(n)' /\ ~TakenAsReply(n)'
      BY <3>1, <3>2 DEF InLine, TakenAsReply
    <3>4. QED
      BY <3>1, <3>3 DEF Once, InLine, TakenAsReply
  <2>3. CASE Enqueue /\ mon.job.msg = n
    <3>1. InHands(n) /\ ~InLine(n) /\ ~TakenAsReply(n) /\ n \in seen
      BY <2>1, <2>3 DEF Enqueue, InHands, Once
    <3>2. consumed' = consumed /\ seen' = seen /\ ~InHands(n)'
      BY <2>3, Idle DEF Enqueue, sharedVars, InHands
    <3>3. \A i \in DOMAIN Line' : Line'[i].msg = n => i = Len(Line) + 1
      BY <3>1, LineStep DEF InLine
    <3>4. QED
      BY <3>1, <3>2, <3>3 DEF Once, InLine, TakenAsReply
  <2>4. CASE TakeAsReply /\ mon.job.msg = n
    <3>1. InHands(n) /\ ~InLine(n) /\ ~TakenAsReply(n) /\ n \in seen
      BY <2>1, <2>4 DEF TakeAsReply, InHands, Once
    <3>2. Line' = Line /\ seen' = seen /\ ~InHands(n)'
      BY <2>4, Idle DEF TakeAsReply, Line, InHands
    <3>3. \A j \in DOMAIN consumed' : consumed'[j] = n => j = Len(consumed) + 1
      BY <3>1, ConsumedStep DEF TakenAsReply
    <3>4. QED
      BY <3>1, <3>2, <3>3 DEF Once, InLine, TakenAsReply
  <2>5. CASE ~((DeduplicatePasses \/ Enqueue \/ TakeAsReply) /\ mon.job.msg = n)
    <3>1. InHands(n)' => InHands(n)
      BY <2>5, HandsStep
    <3>2. \A i \in DOMAIN Line' : Line'[i].msg = n => i \in DOMAIN Line /\ Line[i].msg = n
      BY <2>5, LineStep
    <3>3. \A j \in DOMAIN consumed' : consumed'[j] = n => j \in DOMAIN consumed /\ consumed[j] = n
      BY <2>5, ConsumedStep
    <3>4. InLine(n)' => InLine(n)
      BY <3>2 DEF InLine
    <3>5. TakenAsReply(n)' => TakenAsReply(n)
      BY <3>3 DEF TakenAsReply
    <3>6. QED
      BY <2>1, <3>1, <3>2, <3>3, <3>4, <3>5, SeenGrows DEF Once
  <2>6. QED
    BY <2>2, <2>3, <2>4, <2>5
<1>3. QED
  BY <1>1, <1>2

\* So each message is always handled at most once.
LEMMA OnceHolds == Spec => []OnceInv
<1>1. Init => OnceInv
  BY DEF Init, OnceInv, Polled
<1>2. OnceInv /\ UNCHANGED vars => OnceInv'
  BY DEF vars, sharedVars, OnceInv, Polled, Once, InHands, InLine, TakenAsReply, Line
<1>3. Types /\ Places /\ OnceInv /\ [Next]_vars => OnceInv'
  BY <1>2, OnceInvInductive
<1>4. QED
  BY <1>1, <1>3, PlacesHold, PTL DEF Spec

\* A set whose elements are equal has at most one.
LEMMA AtMostOne ==
  ASSUME NEW S, \A x, y \in S : x = y
  PROVE  /\ S = {} => Cardinality(S) = 0
         /\ S # {} => Cardinality(S) = 1
<1>1. CASE S = {}
  BY <1>1, FS_EmptySet
<1>2. ASSUME NEW x \in S PROVE Cardinality(S) = 1
  <2>1. S = {x}
    OBVIOUS
  <2>2. QED
    BY <2>1, FS_Singleton
<1>3. QED
  BY <1>1, <1>2

(* However often the gateway delivers it, the agent runs a message with an *)
(* id at most once or it answers one question (isDuplicate, enqueueJob,    *)
(* tryResolveApproval).                                                    *)
THEOREM HandledOnceHolds == Spec => []HandledOnce
<1>1. Types /\ OnceInv => HandledOnce
  <2> SUFFICES ASSUME Types, OnceInv, NEW n \in 1 .. Len(feed), feed[n].key
               PROVE  TimesRun(n) + TimesConsumed(n) <= 1
    BY DEF HandledOnce
  <2> DEFINE Runs == {i \in DOMAIN ran : ran[i].msg = n}
             Answers == {i \in DOMAIN consumed : consumed[i] = n}
  <2>1. Once(n)
    BY DEF OnceInv, Polled
  <2>2. \A i \in DOMAIN ran : i \in DOMAIN Line /\ Line[i] = ran[i]
    BY LineTypes DEF Types
  <2>3. \A i, j \in Runs : i = j
    BY <2>1, <2>2 DEF Once
  <2>4. \A i, j \in Answers : i = j
    BY <2>1 DEF Once
  <2>5. Runs = {} \/ Answers = {}
    BY <2>1, <2>2 DEF Once, InLine, TakenAsReply
  <2> HIDE DEF Runs, Answers
  <2>6. Cardinality(Runs) + Cardinality(Answers) <= 1
    BY <2>3, <2>4, <2>5, AtMostOne
  <2>7. QED
    BY <2>6 DEF TimesRun, TimesConsumed, Runs, Answers
<1>2. QED
  BY <1>1, PlacesHold, OnceHolds, PTL

-----------------------------------------------------------------------------
(* One medium, one job *)

\* Medium n is among the recent media, quoted by the handler's job, or by the
\* job at place i.
Saved(n) == n \in ToSet(recent[PeerOf(n)])
Quoting(n) == n \in ToSet(mon.job.refs)
QuotedBy(n, i) == n \in ToSet(Line[i].refs)
Quoted(n) == \E i \in DOMAIN Line : QuotedBy(n, i)

\* The medium is at one place only, and was remembered before it was saved.
KeptOnce(n) ==
    /\ Saved(n) \/ Quoting(n) \/ Quoted(n) => n \in seen
    /\ ~(Saved(n) /\ Quoting(n))
    /\ ~(Saved(n) /\ Quoted(n))
    /\ ~(Quoting(n) /\ Quoted(n))
    /\ \A i, j \in DOMAIN Line : QuotedBy(n, i) /\ QuotedBy(n, j) => i = j
    /\ mon.place = "body" /\ mon.job.msg = n => ~Saved(n) /\ ~Quoted(n)

\* Whoever quotes a medium received it from the user he answers.
QuotesOwn ==
    /\ \A k \in ToSet(mon.job.refs) : k \in Polled /\ PeerOf(k) = PeerOf(mon.job.msg)
    /\ \A i \in DOMAIN Line : \A k \in ToSet(Line[i].refs) :
         k \in Polled /\ PeerOf(k) = PeerOf(Line[i].msg)

MediaInv == QuotesOwn /\ \A n \in Polled : feed[n].key => KeptOnce(n)

(* What the handler's job quotes comes from the recent media of the user   *)
(* it answers; no other step adds to it.                                   *)
LEMMA RefsStep ==
  ASSUME Types, Places, Next
  PROVE  \/ mon'.job.refs = <<>>
         \/ mon'.job.refs = mon.job.refs /\ mon'.job.msg = mon.job.msg /\ ~ReadQuote
         \/ /\ ReadQuote /\ mon'.place = "reply?" /\ mon'.job.msg = mon.job.msg
            /\ mon'.job.refs = recent[PeerOf(mon.job.msg)]
<1>1. CASE mon' = MonIdle
  BY <1>1, Idle
<1>2. ASSUME NEW n, NEW session, mon' = At("token", Job(n, <<>>, session))
      PROVE  mon'.job.refs = <<>>
  BY <1>2 DEF At, Job
<1>3. CASE ReadQuote
  <2>1. mon' = At("reply?", Job(mon.job.msg, recent[PeerOf(mon.job.msg)], mon.job.session))
    BY <1>3, MonitorTyped DEF ReadQuote, Job
  <2>2. QED
    BY <1>3, <2>1 DEF At, Job
<1>4. CASE ~ReadQuote
  BY <1>1, <1>2, <1>4, HandlerStepKinds
<1>5. QED
  BY <1>3, <1>4

\* Every step leaves jobs quoting media of their own user only.
LEMMA QuotesOwnInductive ==
  ASSUME Types, Places, QuotesOwn, Next PROVE QuotesOwn'
<1>1. \A n \in Polled : n \in Polled' /\ feed'[n] = feed[n]
  BY FeedGrows
<1>2. ASSUME NEW k \in ToSet(mon'.job.refs)
      PROVE  k \in Polled' /\ feed'[k].peer = feed'[mon'.job.msg].peer
  <2>1. mon'.job.refs # <<>>
    BY <1>2 DEF ToSet
  <2>2. CASE mon'.job.refs = mon.job.refs /\ mon'.job.msg = mon.job.msg
    <3>1. k \in Polled /\ feed[k].peer = feed[mon.job.msg].peer
      BY <1>2, <2>2 DEF QuotesOwn, PeerOf
    <3>2. mon.place # "idle" /\ mon.job.msg \in Polled
      BY <2>1, <2>2, InHand DEF Places, HandlerHas
    <3>3. QED
      BY <1>1, <2>2, <3>1, <3>2
  <2>3. CASE /\ ReadQuote /\ mon'.job.msg = mon.job.msg
             /\ mon'.job.refs = recent[PeerOf(mon.job.msg)]
    <3>1. mon.job.msg \in Polled /\ PeerOf(mon.job.msg) \in Peers
      BY <2>3, InHand DEF ReadQuote
    <3>2. k \in Polled /\ PeerOf(k) = PeerOf(mon.job.msg)
      BY <1>2, <2>3, <3>1 DEF Places, RecentPolled
    <3>3. QED
      BY <1>1, <2>3, <3>1, <3>2 DEF PeerOf
  <2>4. QED
    BY <2>1, <2>2, <2>3, RefsStep
<1>3. ASSUME NEW i \in DOMAIN Line', NEW k \in ToSet(Line'[i].refs)
      PROVE  k \in Polled' /\ feed'[k].peer = feed'[Line'[i].msg].peer
  <2>1. CASE i \in DOMAIN Line /\ Line'[i] = Line[i]
    <3>1. k \in Polled /\ Line[i].msg \in Polled /\ feed[k].peer = feed[Line[i].msg].peer
      BY <1>3, <2>1 DEF QuotesOwn, PeerOf, Places, LineHas
    <3>2. QED
      BY <1>1, <2>1, <3>1
  <2>2. CASE Enqueue /\ Line'[i] = mon.job
    <3>1. k \in Polled /\ mon.job.msg \in Polled /\ feed[k].peer = feed[mon.job.msg].peer
      BY <1>3, <2>2, InHand DEF QuotesOwn, PeerOf, Enqueue
    <3>2. QED
      BY <1>1, <2>2, <3>1
  <2>3. QED
    BY <2>1, <2>2, LineStep
<1>4. QED
  BY <1>2, <1>3 DEF QuotesOwn, PeerOf

\* Every step leaves a medium in one place: kept for the user, or quoted by one job.
LEMMA KeptOnceInductive ==
  ASSUME Types, Places, OnceInv, QuotesOwn, Next,
         NEW n \in Polled, feed[n].key, KeptOnce(n)
  PROVE  KeptOnce(n)'
<1>1. feed'[n] = feed[n] /\ PeerOf(n) \in Peers
  BY FeedGrows, PolledMessage
<1>2. Saved(n)' <=> n \in ToSet(recent'[PeerOf(n)])
  BY <1>1 DEF Saved, PeerOf
<1>3. Saved(n)' => Saved(n) \/ (SaveMedia /\ mon.job.msg = n)
  BY <1>1, <1>2, RecentStep DEF Saved
<1>4. Quoting(n)' => Quoting(n) \/ (ReadQuote /\ Saved(n) /\ mon'.place = "reply?")
  <2>1. ASSUME ReadQuote, n \in ToSet(recent[PeerOf(mon.job.msg)]) PROVE Saved(n)
    <3>1. PeerOf(mon.job.msg) \in Peers
      BY <2>1, InHand DEF ReadQuote
    <3>2. PeerOf(n) = PeerOf(mon.job.msg)
      BY <2>1, <3>1 DEF Places, RecentPolled
    <3>3. QED
      BY <2>1, <3>2 DEF Saved
  <2>2. QED
    BY <2>1, RefsStep DEF Quoting, ToSet
<1>5. \A i \in DOMAIN Line' : QuotedBy(n, i)' =>
         \/ i \in DOMAIN Line /\ QuotedBy(n, i)
         \/ Enqueue /\ Quoting(n) /\ i = Len(Line) + 1
  BY LineStep DEF QuotedBy, Quoting
<1>6. Quoted(n)' => Quoted(n) \/ (Enqueue /\ Quoting(n))
  BY <1>5 DEF Quoted
<1>7. CASE SaveMedia
  <2>1. mon' = MonIdle /\ Line' = Line /\ mon.place = "body"
    BY <1>7 DEF SaveMedia, Line
  <2>2. ~Quoting(n)' /\ mon'.place # "body"
    BY <2>1, Idle DEF Quoting, ToSet
  <2>3. Quoted(n)' => Quoted(n)
    BY <2>1 DEF Quoted, QuotedBy
  <2>4. mon.job.msg = n => n \in seen
    BY <2>1 DEF OnceInv, Once, InHands
  <2>5. \A i \in DOMAIN Line' : QuotedBy(n, i)' => i \in DOMAIN Line /\ QuotedBy(n, i)
    BY <2>1 DEF QuotedBy
  <2>6. QED
    BY <1>3, <2>1, <2>2, <2>3, <2>4, <2>5, SeenGrows DEF KeptOnce
<1>8. CASE ReadQuote
  <2>1. Line' = Line /\ mon'.place # "body"
    BY <1>8, RefsStep, MonitorTyped DEF ReadQuote, Line, At
  <2>2. Quoting(n)' => Saved(n) /\ ~Saved(n)'
    <3>1. mon.job.refs = <<>> /\ PeerOf(mon.job.msg) \in Peers
      BY <1>8, InHand DEF ReadQuote, Places, HandlerHas
    <3>2. ~Quoting(n)
      BY <3>1 DEF Quoting, ToSet
    <3>3. mon'.job.refs = recent[PeerOf(mon.job.msg)]
      BY <1>8, MonitorTyped DEF ReadQuote, At, Job
    <3>4. Quoting(n)' => PeerOf(n) = PeerOf(mon.job.msg)
      BY <3>1, <3>3 DEF Quoting, Places, RecentPolled
    <3>5. recent'[PeerOf(mon.job.msg)] = <<>>
      BY <1>8, <3>1 DEF ReadQuote, Types, TypeOK
    <3>6. QED
      BY <1>2, <1>4, <3>2, <3>4, <3>5 DEF ToSet
  <2>3. Saved(n)' => Saved(n)
    BY <1>3, <1>8 DEF ReadQuote, SaveMedia
  <2>4. Quoted(n)' <=> Quoted(n)
    BY <2>1 DEF Quoted, QuotedBy
  <2>5. \A i \in DOMAIN Line' : QuotedBy(n, i)' => i \in DOMAIN Line /\ QuotedBy(n, i)
    BY <2>1 DEF QuotedBy
  <2>6. QED
    BY <1>4, <2>1, <2>2, <2>3, <2>4, <2>5, SeenGrows DEF KeptOnce
<1>9. CASE Enqueue
  <2>1. mon' = MonIdle /\ UNCHANGED <<recent, seen>>
    BY <1>9 DEF Enqueue, sharedVars
  <2>2. ~Quoting(n)' /\ mon'.place # "body" /\ (Saved(n)' <=> Saved(n))
    BY <1>2, <2>1, Idle DEF Quoting, Saved, ToSet
  <2>3. Quoting(n) => \A i \in DOMAIN Line : ~QuotedBy(n, i)
    BY DEF KeptOnce, Quoted
  <2>4. \A i, j \in DOMAIN Line' : QuotedBy(n, i)' /\ QuotedBy(n, j)' => i = j
    BY <1>5, <2>3 DEF KeptOnce
  <2>5. QED
    BY <1>6, <2>1, <2>2, <2>4 DEF KeptOnce
<1>10. CASE ~(SaveMedia \/ ReadQuote \/ Enqueue)
  <2>1. /\ Saved(n)' => Saved(n)
        /\ Quoting(n)' => Quoting(n)
        /\ Quoted(n)' => Quoted(n)
        /\ \A i \in DOMAIN Line' : QuotedBy(n, i)' => i \in DOMAIN Line /\ QuotedBy(n, i)
    BY <1>3, <1>4, <1>5, <1>6, <1>10
  <2>2. mon'.place = "body" /\ mon'.job.msg = n =>
          \/ mon.place = "body" /\ mon.job.msg = n
          \/ n \notin seen
    <3> SUFFICES ASSUME mon'.place = "body", mon'.job.msg = n,
                        ~(mon.place = "body" /\ mon.job.msg = n)
                 PROVE  n \notin seen
      OBVIOUS
    <3>1. CASE DeduplicatePasses /\ mon.job.msg = n
      BY <3>1 DEF DeduplicatePasses
    <3>2. \A m, session : At("token", Job(m, <<>>, session)).place = "token"
      BY DEF At
    <3>3. CASE RememberSession
      BY <3>3, MovesOn DEF RememberSession, HandlerPlaces, At
    <3>4. mon' # MonIdle
      BY Idle
    <3>5. QED
      BY <1>10, <3>1, <3>2, <3>3, <3>4, HandlerStepKinds
  <2>3. QED
    BY <2>1, <2>2, SeenGrows DEF KeptOnce
<1>11. QED
  BY <1>7, <1>8, <1>9, <1>10

\* Both together.
LEMMA MediaInvInductive ==
  ASSUME Types, Places, OnceInv, MediaInv, Next PROVE MediaInv'
<1>1. QuotesOwn'
  BY QuotesOwnInductive DEF MediaInv
<1>2. ASSUME NEW n \in Polled', feed'[n].key PROVE KeptOnce(n)'
  <2>1. CASE n \in Polled
    BY <1>2, <2>1, KeptOnceInductive, FeedGrows DEF MediaInv
  <2>2. CASE n \notin Polled
    <3>1. /\ UNCHANGED <<recent, Line>> /\ mon'.place = "token" /\ mon'.job.refs = <<>>
      BY <2>2, JustPolled
    <3>2. ~Quoting(n)' /\ ~Quoted(n)' /\ \A i \in DOMAIN Line' : ~QuotedBy(n, i)'
      BY <2>2, <3>1 DEF Quoting, Quoted, QuotedBy, ToSet, MediaInv, QuotesOwn
    <3>3. feed'[n].peer \in Peers
      <4>1. feed' \in Seq(Shapes) /\ n \in 1 .. Len(feed')
        BY TypesInductive DEF Types, TypeOK, Polled
      <4>2. feed'[n] \in Shapes
        BY <4>1
      <4>3. QED
        BY <4>2, InboundAssumption DEF InboundAssumption
    <3>4. ~Saved(n)'
      BY <2>2, <3>1, <3>3 DEF Saved, PeerOf, Places, RecentPolled
    <3>5. QED
      BY <3>1, <3>2, <3>4 DEF KeptOnce
  <2>3. QED
    BY <2>1, <2>2
<1>3. QED
  BY <1>1, <1>2 DEF MediaInv

(* A medium is quoted by one job at most, one of the user who sent it: the *)
(* handler takes the media of a conversation and forgets them in one step  *)
(* (popRecentMedia).                                                       *)
THEOREM MediaQuotedOnceHolds == Spec => []MediaQuotedOnce
<1>1. Init => MediaInv
  <2> SUFFICES ASSUME Init PROVE MediaInv
    OBVIOUS
  <2>1. Line = <<>> /\ mon.job.refs = <<>> /\ Polled = {}
    BY Idle DEF Init, Line, Polled
  <2>2. QED
    BY <2>1 DEF MediaInv, QuotesOwn, ToSet
<1>2. Types /\ Places /\ OnceInv /\ MediaInv /\ [Next]_vars => MediaInv'
  <2>1. ASSUME MediaInv, UNCHANGED vars PROVE MediaInv'
    <3>1. QuotesOwn'
      BY <2>1 DEF vars, sharedVars, MediaInv, QuotesOwn, Polled, PeerOf, Line
    <3>2. ASSUME NEW n \in Polled, feed[n].key PROVE KeptOnce(n)'
      <4>1. KeptOnce(n)
        BY <2>1, <3>2 DEF MediaInv
      <4>2. UNCHANGED <<feed, mon, recent, seen, Line>>
        BY <2>1 DEF vars, sharedVars, Line
      <4>3. /\ Saved(n)' <=> Saved(n)
            /\ Quoting(n)' <=> Quoting(n)
            /\ Quoted(n)' <=> Quoted(n)
            /\ \A i \in DOMAIN Line : QuotedBy(n, i)' <=> QuotedBy(n, i)
        BY <4>2 DEF Saved, Quoting, Quoted, QuotedBy, PeerOf
      <4>4. QED
        BY <4>1, <4>2, <4>3 DEF KeptOnce
    <3>3. QED
      BY <2>1, <3>1, <3>2 DEF vars, MediaInv, Polled
  <2>2. QED
    BY <2>1, MediaInvInductive
<1>3. Types /\ MediaInv => MediaQuotedOnce
  <2> SUFFICES ASSUME Types, MediaInv PROVE MediaQuotedOnce
    OBVIOUS
  <2>1. \A i \in DOMAIN ran : i \in DOMAIN Line /\ Line[i] = ran[i]
    BY LineTypes DEF Types
  <2>2. \A i \in DOMAIN ran : \A k \in DOMAIN ran[i].refs :
           PeerOf(ran[i].refs[k]) = PeerOf(ran[i].msg)
    BY <2>1 DEF MediaInv, QuotesOwn, ToSet
  <2>3. \A n \in 1 .. Len(feed) : feed[n].key => KeptOnce(n)
    BY DEF MediaInv, Polled
  <2>4. QED
    BY <2>1, <2>2, <2>3 DEF MediaQuotedOnce, KeptOnce, QuotedBy
<1>4. QED
  BY <1>1, <1>2, <1>3, PlacesHold, OnceHolds, PTL DEF Spec
=============================================================================
