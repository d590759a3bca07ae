# A TLA+ model of dmr-plugin-weixin

`dmr-plugin-weixin` connects WeChat users to the DMR agent host. It polls an
ilink HTTP gateway for the messages of one or more bots, runs the agent for
each of them through the host's RPC, sends the answer back, and asks the user
in the chat when a tool of the agent needs an approval. This directory holds
TLA+ modules of the parts whose correctness depends on order, concurrency or
failure, TLC configurations that check them on small instances, and TLAPS proofs
of the properties that matter most. Paths are relative to the repository;
unless another directory is named, source files are in `internal/weixin/`.

## The system

| Part | State | Operations | Talks to |
|---|---|---|---|
| Plugin (`plugin.go`) | bots, `runCtx`/`cancel`, deduper, host client | `Init`, `Shutdown` (once), `RequestApproval`, `RequestBatchApproval`, `CallTool` | everything; called by the host, each call on its own goroutine |
| Monitor, one goroutine per bot (`monitor.go`, `syncbuf.go`) | cursor in memory and in a file, failure count, pause | poll, back off, save the cursor, `handleInboundMessage` | gateway, deduper, approver, queue |
| Deduplication (`dedup.go`) | ids with their times | `isDuplicate` | shared by all monitors |
| Approver (`approver.go`) | `wait`: conversation to pending request and its channel | `waitApproval` (host goroutines), `tryResolveApproval` (monitors) | token cache, gateway |
| Queue and worker (`queue.go`) | channel of 64 jobs, `workerStarted` | `enqueue`, `shutdown`, `runWorker`, `processJob` | monitors put, one worker takes and calls the host |
| Per-bot caches (`token_store.go`, `media_download.go`, `bot_runtime.go`) | context token, recent media, session id, typing ticket of each user | set, get, pop | written by monitor and worker |
| Routing and names (`bot_runtime.go`, `parse.go`) | none of its own | tape names, keys, choice of the bot | approver, tools |
| Outbound (`reply.go`, `gateway_client.go`, `send_*_tool.go`, `media_upload.go`, `cdn_*.go`) | none of its own; reads token and ticket of the user | replies, prompts and tools: chunks, typing indicator, uploads, caption and medium | gateway, CDN; called by the worker, the approver and the host's tool calls at once |
| Session ids (`session_supplement.go`, `session_id_json.go`, `types.go`) | the last session id of each user, in the bot | read from messages and from `getconfig`'s answers, sent with every message | monitor, outbound |
| Configuration (`config.go`) | none | inheritance, credentials, validation | `Init` |
| Login (`internal/weixinlogin`, `cmd/dmr-weixin-login`) | the credentials file | QR code, poll, refresh | a program of its own; `Init` reads its file |

What is hard here: host calls, monitors and the worker run at the same time and
share the approval map, the caches and the channel, often reading under a lock
and acting after it; the gateway may repeat messages; the process may stop
between saving a cursor and handling what it covers; `Init` may replace a run
whose monitors and jobs are still at work, or fail half way; the login rewrites
a file that `Init` may be reading; and the agent may wait for the
monitor (an approval) while the monitor waits for the agent (room in the
queue). `PROJECT.json` lists these hazards line by line with the properties that
watch them.

## Modules

| Module | Models |
|---|---|
| `ApprovalReply` | how a chat text is read as an answer: operators only |
| `ApprovalService` | what the approver promises, without map, channels or monitors |
| `Approver`, `MCApprover`, `ApproverProofs` | `approver.go` and the run's context |
| `JobService` | what the queue promises: one line, one job at a time |
| `InboundQueue`, `InboundQueueProofs` | `queue.go` with the semantics of a Go channel |
| `Dedup` | `dedup.go` |
| `Routing`, `MCRouting` | names, their parser, routing, keys, replaced bots |
| `RoutingDedupProofs` | proofs about both: keys and the memory they are looked up in |
| `SessionId` | how a session id is read out of a JSON object: operators only |
| `Inbound`, `MCInbound`, `InboundProofs` | handler, queue, worker, approval and caches of one bot together |
| `Monitor`, `MonitorProofs` | poll loop and cursor file across `Init`, `Shutdown` and crashes |
| `Outbound`, `MCOutbound`, `OutboundProofs` | replies, prompts and both send tools down to the gateway's and the CDN's calls |
| `MediaPadding` | padding of media and the announced size: operators, proved about in `OutboundProofs` |
| `Config` | what becomes of a configuration and which files it names: operators only |
| `Plugin`, `MCPlugin`, `PluginProofs` | `Init`, `Shutdown`, credentials files, monitors and their cursor files |
| `Login`, `LoginProofs` | the login program, with its clock |

Every module with behaviour has a section *Faulty variants*: versions of an
action with a plausible mistake in it. No specification uses them. Putting one
in the place of the real action must break the property it is listed with in
`PROJECT.json`, which shows that the property depends on the code.

### Approver

A request is a call of the host. Its handler goes through `pc`: `idle`,
`registered` (in the map), `sending` (the run's context is read), `waiting`
(the select), `leaving` (the deferred delete), `done`. `RejectUnroutable` and
`RejectBusy` are the early returns. A monitor resolves a reply in two steps,
because the code unlocks between them: `Lookup` finds the entry under the lock,
`Deliver` sends to that entry's channel, whatever has happened since. A channel is
a sequence of at most one reply; a full one drops the next. `InitBots` and
`InitRun` are the two steps of `Init` that a handler can tell apart: after the first
`InitBots` an approval finds a bot, and before `InitRun` it finds no run
(`approver.go:213`) and waits with a context that nothing ends. `InitRun` and
`Shutdown` replace and cancel the context a waiting handler listens to.

* `EntryIsOwned`: the map holds exactly the entries of the handlers at work,
  although the deferred delete is by key.
* `GenuineApproval`: a verdict other than a denial is a text that arrived in the
  request's own conversation while it was registered, read the way this request
  asks (a batch of N by its own N).
* `ImplementsService`: `ApprovalService` with `status` and `answer` defined from
  `pc` and `verdict`.
* `WaitIsCancellable`: a run a handler waits with has ended, or is the one that
  `p.cancel` ends. Liveness would not show this, since the timer ends every wait; the
  one handler it excepts is the one that found no run.
* `EveryRequestAnswered`, `MonitorNeverBlocks`: liveness.

A text looked up just before the timer fires is taken from the user and
answers nothing: `Lookup` and `Timeout` allow it, and no property denies it.

### InboundQueue

`Enqueue` is the section under the lock, `Send`, `Park` and `SendPanics` the
send after it: into the buffer, blocked on a full one, or on a closed channel.
A receive moves the first blocked sender's job into the buffer. `Shutdown` over
a parked sender panics as Go does, and a panic stops everything (`Crashed`).

* `ImplementsService`: `JobService`, in which jobs wait in one line and one of
  them runs. The line is the buffer followed by the blocked senders; the running
  job is whichever the worker has. Two workers, which `shutdown` might allow
  because it resets `workerStarted`, a job that overtakes a blocked sender and
  one that joins after the close would all contradict it. The close, and a job
  that comes after it, may kill the process; `PanicOnlyInFlight` says when.
* `OrderOfOneBot`: the messages of one bot are finished in their order.
* `PanicOnlyInFlight`: only a send that had passed the nil check when the
  channel was closed can panic. That such a panic exists is a hazard of the
  code (`queue.go:60` against `queue.go:67`); the model contains it.
* `EveryJobIsProcessed`: liveness, unless the process dies.

`OneWorker` and `ProcessedInOrder` say the same of the code's own variables;
they follow for every instance from the proofs and are not checked by a run.

### Dedup

`Call` reads the clock, `Duplicate` or `New` run under the lock, with `Tick` in
between.

* `SweepIsExact`: readings out of order and the sweep forget no id within its TTL
  (`LiveIdIsRemembered`), and a map past its limit keeps no older one
  (`OverflowIsRecent`). A mutant sweeps too early, another not at all.
* `NoEarlyRepeat`: no id is reported new again within its TTL.

The specification is `DedupSpec`, so that the proofs can extend the module beside
`Routing`.

### Routing

A string is a sequence of letters: the separators of the code (`:`, `|`, and `RS`
for `\x1e`), the words the parser looks for, and anything else. Names are put together
by concatenation with the separators of the code, and searched for `:p2p:` at every
place. A bot's id contains no separator, as `SanitizeLoginID` sees to; a user's
id and a message's key may contain any. `Inbound` makes a job with its tape and keys;
`Reconfigure` replaces the bots under it. `ApprovalRoute`, `ToolRoute` and
`OffSessionRoute` choose the conversation of an approval, of a tool call in a run and
of one outside, which names a tape, or a user and a bot.

* `TapeRoundTrip`: a tape reads back as its bot and its user, also when the
  user's id contains `p2p`.
* `OwnConversationReached`: approvals and tool calls of a job, and calls from
  outside that name its conversation, reach that conversation.
* `NeverMisrouted`: after the bots were replaced they reach a bot of the same
  id, or nobody; only a job of a bot without id may pass to a bot that is alone.
* `KeysAreDistinct`: no two conversations share a tape or an approval key, no
  two bots a message key.

### Inbound and SessionId

`mon` walks through `handleInboundMessage`: `StoreToken`, `Prefetch` (the
`getconfig` call for a message with a token, which may fail), `RememberSession`,
`Deduplicate`, then `SaveMedia`, `LoseMedia`, `ReadText`, `ReadQuotedMedium` or
`ReadQuote`, then `TakeAsReply` or `TakeAsJob`, then `Enqueue`, which waits while
the queue is full. The worker runs a job (`StartRun`), may ask for approvals
(`Ask`, ended by `Approved` or `ApprovalTimeout`) and replies (`Reply`, which
writes the token it used back to the cache). Queue and approver appear as their
own modules show them to behave.

`SessionId` computes what the monitor remembers. A document maps the path of each
object in it to that object's members. The known fields come first, in their
order; a document without any is searched from the outside in, and because Go
visits members in random order the search has a set of possible results, of which
`Poll` and `Prefetch` take any. `MessageFits` and `ConfigFits` say what decodes at
all: a message that does not fit makes the whole poll an error, so `Inbound` takes
only those that do, while an answer of `getconfig` that does not is a `PrefetchFails`.

* `TokensStayWithTheirUser`: no token and no session id of a user is ever used for
  another; a message with a token is answered with its own; a reply to a job with a
  session id has one, although it takes the user's and not the job's
  (`queue.go:21`).
* `HandledOnce`: a message with an id is run or consumed as a reply at most once.
* `MediaQuotedOnce`: a saved medium reaches at most one run, of its own user, also
  when it stands in for a quoted one that could not be downloaded.
* `EveryTextIsHandled`: the agent waiting for the monitor and the monitor waiting
  for the agent is ended by the approval timer, and every text is handled.

### Monitor

A run is a call of `Init`; each has a monitor goroutine that loads the cursor,
polls, saves the cursor and handles the messages it covers. `Truncate` and
`Write` are the two halves of `os.WriteFile`. `SwapDedup` and `StartRun` are the
two parts of `Init` that another goroutine can tell apart. `Crash` leaves only
the file. `faults` remembers what happened to the file: torn by a crash or read
half written, not saved, or written by a run that was cancelled; or not given:
`PollWithoutCursor` is an answer with messages and no `get_updates_buf`, of which
nothing is saved (`monitor.go:107`). `handled` counts to `Often`, from where on a
message was handled too often anyway.

* `NothingSkipped`: no cursor covers a message that is not handled, in the hands
  of a monitor, or lost because a crash came between saving and handling.
* `AtMostOnce`: as long as `faults` is empty no message is handled twice.
* `EveryMessageIsHandled`: liveness.

### Outbound

A send is a reply of the worker, a prompt of the approver or a call of
`weixinSendText` or `weixinSendFile`; several run at once. It goes from `Begin` (which
fixes its context) by `Fetch` (a file that is a URL) and `ResolveText` or
`ResolveFile` (the token, the cut of a text) to the upload (`AskUploadUrl`,
`UploadDone`, `UploadFails`, `UploadRefused`), and then repeats the four steps of
`sendMessageAPI` for each part: `ReadTicket`, `StartTyping`, `Post`, `StopTyping`. A
part is an interval of what is to be sent: of the runes of a text, or of the two items
of a file. `Outcomes` lets a call fail without effect, fail after its effect, succeed,
or fail and have its effect any time later (`GiveUp`, then `LatePost`, `LateStart` or
`LateStop`: the gateway got a request that its caller had given up); once `EndRun` has
ended the context of a send its calls fail without effect, except those of a reply,
whose context never ends. The stripping of markup may leave any number of runes, also
none.

* `DeliveredIsPrefix`: what reached the user is a prefix, each part once and in
  order, and the send is wrong about its last part at most.
* `OkMeansAll`: success means that all of it arrived.
* `CaptionNeedsUpload`: no message of a file precedes its upload.
* `TypingEnds`: a user's indicator is on only during a message to him, because the
  latest call to switch it off failed, or because a call to switch it on came late and
  nothing has switched it off since (`stray`). The call that switches it off has the
  context of the send, so a `Shutdown` during a send leaves the indicator on.
* `TypeOK` also says that no upload takes more attempts than the limit.

An upload ends at once at a client error of the CDN (`UploadRefused`), but only when
the body of the answer could be read: `cdn_upload.go:134` looks at the error of the
read before line 142 looks at the status, so that a client error with a broken body is
tried again like any other failure (`UploadFails`). The sentence in
`docs/issues/WEIXIN_MEDIA_IMPLEMENTATION.md` that client errors fail at once describes
the TypeScript package it analyses and is not counted as a claim about this code.

Sends to one user may take turns between parts, and a file called for inside a
run without any token is uploaded before it fails; the model has both.

### MediaPadding

A file is padded to whole blocks before it is encrypted (`cdn_upload.go`), and the
padding is checked and taken off after a download (`cdn_download.go`). The size the
gateway is told beforehand comes from a formula of its own. Both directions are
operators on sequences of bytes; what must hold of them is proved for every file in
`OutboundProofs`.

### Config and Plugin

`Config` turns the host's configuration into the rows of the bots: inheritance from
the root, the overlay of the credentials file, the default account, validation, and
the paths of the credentials and cursor files. `Plugin` goes through `Init` as the
code does: `BeginInit`, one `FinalizeRow` for each row (each reads its credentials
file anew), `ParseFails` or `ParseDone`, `AssignConfig` (`p.cfg`, before the extra
prompt is read), `PromptFails` or `SwapBots`, `StartRun`. `Shutdown` may come in the
middle. `dmr-weixin-login` empties a credentials file (`Truncate`) and writes it
(`WriteCredentials`), or never gets so far. Monitors of old and new runs load, poll
and save (`loadSyncBuf`, `Poll`, `saveSyncBuf`) through the directory (`cursorDir`: one
beside the configuration or, if it has no directory, the user's cache) they read in
`p.cfg` without a lock; while it is assigned they may read the old one, the new one
or a mixture (`DirsRead`). A cursor stands for the identity that the gateway gave it
out for, which the token decides.

* `MonitorsServeTheBots`: the monitors that are not told to stop poll for exactly the
  bots that replies are sent through, after any succession of failing `Init`s.
* `CredentialsFileWins`: a bot with a credentials file has the settings of one login,
  whole.
* `CursorsStayWithTheirBot`: no monitor polls with the cursor of another identity. The
  code leaves one condition to the operator: that an account id tells whose token goes
  with it (`AccountsTell`). The run's configurations satisfy it, which an `ASSUME` of
  `MCPlugin` checks. It excludes bots of two identities that share an account, the
  default one included; those share a cursor file, and nothing in the code keeps them
  apart.
* `DistinctAccountsSeparate` is what the README promises instead, and fails.

### Login

`Login` is the loop of `Run` and the end of `main`. Time passes only while a request
or a sleep lasts. Codes can be scanned, confirmed and expire at any moment, also ones
that were replaced; requests fail or hang until their timeout; `Interrupt` cancels the
context, which only the top of the loop looks at in the model, because a request that
it ends is a `RequestFails`; `Kill` stops the program anywhere.

* `EndsInTime`: the deadline is looked at once a round, so the login may outlast it by
  one round (`Overrun`: a poll, a request for another code and a sleep) and no more.
* `PollsWhatIsShown`: the code polled for is the one on the screen, unless it came
  without an image.
* `FailedLoginKeepsFile`: the credentials file is touched only after the user
  confirmed a code he was shown. It is then rewritten in place: a kill between the
  two halves leaves an empty file, which the model contains.
* `TypeOK` also says that the last permitted refresh is used and none beyond it.

## Runs

| Run | Configuration | Instance |
|---|---|---|
| `approver` | `MCApprover.cfg` | 2 requests of one conversation (one a batch), 2 monitors, 2 runs, shutdown |
| `queue` | `InboundQueue.cfg` | 3 monitors with 2 jobs each, capacity 2 |
| `dedup` | `Dedup.cfg` | 3 ids, 2 callers, TTL 2, limit 1, 5 instants |
| `routing` | `MCRouting.cfg` | up to 2 bots with and without ids, 4 users with separators in their ids, 2 jobs |
| `routing_p2p` (violation) | `MCRoutingP2P.cfg` | the same with a bot named `p2p` |
| `inbound` | `MCInbound.cfg` | 3 messages of 2 users out of 6 shapes, media of both users among them, one repeated, capacity 1, 1 approval a run |
| `inbound_tokens` (violation) | `MCInboundTokens.cfg` | 2 texts of one user |
| `monitor` | `Monitor.cfg` | 2 messages (one without id), 2 runs, 1 crash, limit of 2 failures, answers without a cursor |
| `outbound` | `MCOutbound.cfg` | 2 sends to one user out of 4 requests, texts cut to 1 chunk and a mark, 2 upload attempts, late calls |
| `plugin` | `MCPlugin.cfg` | 4 configurations with and without a directory, 2 of them faulty, 2 runs, 1 login |
| `plugin_rootfile` (violation) | `MCPluginRootFile.cfg` | 2 bots with accounts of their own, a credentials file at the root |
| `login` | `Login.cfg` | waits of 1 and 5, a minimum of 2, 4 codes |

Why these bounds are enough to be of use: two requests of one conversation show busy,
succession and a late reply, read by the parser of the other; that conversations do
not touch each other is proved and not run. Three senders on two places show a full
buffer with a blocked sender behind another; a limit of one makes every second id
sweep; three messages fill the worker, a queue of one and the waiting monitor, and one
of the three may be the answer that ends the wait. Two runs and a crash show a
replaced monitor beside its successor, and a restart; two sends wrap one user's
indicator around each other, and a text cut after one chunk still leaves in two, since
the mark comes on top. Two configurations that name different bots and directories,
with one that is invalid and one whose bot's id is refused, let every step of a second
`Init` fail over a running first; one login is enough to change a file between two
rows. A wait of 1 is below the minimum and becomes the default of 9, one of 5 is used
as it is; timeouts of 3 and 4 and a sleep of 1 keep their order, and three refreshes
have a first, a middle and a last. Sends are interchangeable, so `outbound` uses
symmetry. `CHECK_DEADLOCK` is on everywhere: each module says in `Quiescent` (or by a
stopped clock, or a plugin that may always be shut down) when nothing more is
expected.

Three runs show a disagreement of the code with its comments or its README:

* `inbound_tokens`: the comment of `token_store.go:8` says the cache holds the
  latest token of a user; `reply.go:120` puts the token of the job just answered
  back over a newer one.
* `routing_p2p`: a bot may be called `p2p`, and the tape `weixin:p2p:p2p:<peer>`
  is read as the legacy tape of the user `p2p:<peer>` (`parse.go:21`).
* `plugin_rootfile`: `README.md:65` and `README.md:150` promise that bots with
  account ids of their own have cursor files of their own, and `config.go:37` says the
  root's fields are used when there are no bots; but a row without a
  `credentials_path` inherits the root's (`config.go:93`), whose account and token
  then replace its own, for all rows alike.

## Fairness

Weak fairness is assumed of code that can run: a handler that has registered,
the worker, a monitor in its handler. Timers fire (`Timeout`,
`ApprovalTimeout`, `Resume`), and HTTP calls end because each has a timeout.
`Finish` and `RunEnds` assume that the host answers `RunAgent`; the code has no
timeout there. In `Monitor` the gateway must answer some time when it is polled
again and again (strong fairness of an answer with all it has), a process that
went down is started again and a started one initialised. Nothing is assumed of
users, of new requests, or of `Init` and `Shutdown` otherwise. `Plugin`, `Login`,
`Outbound`, `Dedup` and `Routing` are checked for safety only and state no fairness;
that the login ends is there the bound of `EndsInTime`.

## Proofs

TLC checks the instances above; the theorems hold for any number of requests,
conversations, monitors and jobs, any capacity, TTL and limit, under the named
assumptions of each module (types of the constants, a positive capacity and TTL).
Every invariant, action property and refinement that a passing run checks is also
the statement of a theorem. Each invariant below was model-checked on the run's
instance before it was proved.

* `ApproverProofs`. `TypeCorrect`; `OwnershipHolds`, whose invariant says that a
  conversation's entry is the one handler in a place between `Register` and
  `Leave`, which is what makes deleting by key right; `GenuineHolds`, for which
  the invariant must also speak of the replies lying in channels and of those a
  monitor carries between lookup and send (`Provenance`); `WaitIsCancellableHolds`,
  for which every run but the latest must be known to have ended (`RunInv`); and
  `ServiceImplemented`: `Spec => ImplementsService`, step by step, each action
  mapped to one of `ApprovalService` or to a stutter.
* `InboundQueueProofs`. `TypeCorrect`; `OneWorkerHolds`, from an invariant that
  ties `workerStarted`, the open channel and the workers, because `Shutdown` resets
  the flag; `PanicOnlyInFlightHolds`; `ProcessedInOrderHolds`, whose steps rest on
  lemmas about concatenation, head and tail; `OrderOfOneBotHolds`, which joins it to
  `ArrivalInv`: what one monitor sent arrived in the order of its numbers, and a job
  it is still sending comes after them; and `ServiceImplemented`: every action is one
  of `JobService` or a stutter under the mapping given there, because the receive
  that lets a blocked sender in moves a job from one part of the line to the other.
* `InboundProofs`. The invariants of the bot as a whole. `TypeCorrect` needs that
  whatever session id the search of a document of any depth finds occurs in that
  document (`SessionsOccur`).
  The others rest on `Places` (whatever the plugin holds or remembers was polled, and
  the worker's job is the last of those that ran) and speak of `Line`, the jobs
  that ran followed by those queued, which only `Enqueue` lengthens (`LineGrows`).
  - `TokensStayHolds`: `TokensStay` follows the tokens from the message into the cache
    and back (`Reply` returns the one it used), `SessionInv` the session ids. That a
    reply has a session id if its job has one is no fact about the reply: a user's
    session is replaced and never forgotten (`SessionsGrow`), and known before the
    job is made (`KnownBy`).
  - `HandledOnceHolds`: a message with an id is at one place only, in the handler's
    hands behind deduplication, in the line or among the replies taken, and is
    remembered as seen from then on (`Once`). A message enters only by passing
    deduplication (`HandsStep`).
  - `MediaQuotedOnceHolds`: a saved medium is kept for its user, or quoted by the job
    in the handler's hands, or by one job of the line (`KeptOnce`), and whoever quotes
    it is of the user it came from (`QuotesOwn`).
* `MonitorProofs`, for any number of runs and crashes. `PlaceOf` says what the place
  of a monitor tells about its cursors.
  - `NothingSkippedHolds`: inductive once it is known that a message remembered by
    deduplication was handled, since `Handle` passes over such a message (`SkipInv`).
  - `TypeCorrect` rests on it: what a monitor handles lies within what it polled.
  - `AtMostOnceHolds`: as long as there is no fault, an answer without a cursor
    included, the file has one owner (`FileOwned`): whoever writes is alone at it and
    no later run has read it (`WriterAlone`); with nobody writing the file covers
    every message handled or about to be (`FileCovers`); the run in force has the
    file's cursor (`CursorCurrent`); and what a monitor still has to handle nobody has
    handled and no other has (`Fresh`), which is the claim that had to be found:
    monitors of a former run may still be handling while the next run polls on.
* `RoutingDedupProofs`, first part, for any bot ids, users and message keys.
  `NamesFit` says that a job has the names its conversation has and, if it is current,
  a bot. `TapeRoundTripHolds`, `OwnConversationHolds` and `NeverMisroutedHolds` have
  the hypothesis that no bot is called `p2p`, without which the code fails (run
  `routing_p2p`); the peer may be any string that is not empty. The first separator of
  a bot's tape then stands right after its id (`SeparatorFound`), because the id
  contains no colon, which is why nothing has to be proved by induction.
  `KeysAreDistinctHolds` needs no such hypothesis: tapes that read back wrongly still
  differ (`NamesDiffer`). It rests on `SplitUnique`: a string splits in one way only
  at the first of a letter that the part before it does not contain. What is assumed
  of ids, user ids and message keys is in `RoutingAssumption`.
* `RoutingDedupProofs`, second part. `TypeCorrect`, `LiveIdIsRememberedHolds`, from which
  `NoEarlyRepeatHolds` follows as a property of steps, `OverflowIsRecentHolds`, and
  `SweepIsExactHolds`, which joins the two.
* `OutboundProofs`. `TypeCorrect`, `DeliveredIsPrefixHolds`, `OkMeansAllHolds`,
  `CaptionNeedsUploadHolds` and `TypingEndsHolds`, for any users, requests and limits
  and any number of sends. The invariant `SendInv` says of one send, place by place,
  how far the delivered parts go compared with what the send believes (`Reached`),
  that they form a chain (`Chained`) and how it stands with its upload (`UploadInv`).
  Since it speaks of nothing but that send (`UntouchedKeeps`), a step of another one
  keeps it (`OthersUntouched`). `LateInv` says of a message given up that its send has
  failed at just that part or is about to, so that its late arrival (`LatePostKeeps`)
  adds the part that comes next; only `TypingEnds` needs an argument over several
  sends (`WrapsStay`). For the padding, `AnnouncedSizeIsUploaded` and
  `PaddingRoundTrip`, for every file.
* `PluginProofs`. `TypeCorrect`; `MonitorsServeTheBotsHolds`, whose invariant speaks
  of the moment between the swap of the bots and the start of their run;
  `CredentialsFileWinsHolds`, for any number of logins, from an invariant that follows
  each row from the reading of its file (`held` only grows) into the bots; and
  `CursorsStay`, under `AccountsTell` for some reading of account ids: then every
  cursor file, in whatever directory, only ever holds cursors of the identity its name
  tells of.
* `LoginProofs`. `TypeCorrect`, from the count of codes place by place;
  `EndsInTimeHolds`, from how late each place can be reached;
  `PollsWhatIsShownHolds` and `FailedLoginKeepsFileHolds`.

Only model-checked is the liveness of `Approver`, `InboundQueue`, `Inbound` and
`Monitor` (`EveryRequestAnswered`, `MonitorNeverBlocks`, `EveryJobIsProcessed`,
`EveryTextIsHandled`, `EveryMessageIsHandled`): it rests on fairness and `ENABLED`,
which the prover cannot treat.

The proofs needed two assumptions on constants that the model had left unsaid, and
TLC evaluates them in the runs: a document of `Inbound` has a root, and the ids and
users of `Routing` are strings of letters, of which a bot's id has none that separates.

## Not modelled

* The composition of prompts (`extra_prompt.go`) and the wording of messages. A medium
  that comes with a text of its own is saved and carried in the job, but the prompt is
  made of quoted media only; in `Inbound` such a message is a text.
* AES, the encodings of keys, HTTP transfer and the names of saved files
  (`media_download.go`): a name with a time stamp of a millisecond can collide.
* The checks of a tool's arguments before its first call, which change nothing, and a
  temporary file of a remote download that could not be written in full and stays
  behind.
* Messages of the gateway that do not decode: the poll is an error then, which
  `Monitor` has, and comes again until the gateway answers otherwise.
* The policy file, the executables' start-up, `SetHostClient` and the dispatch of
  `CallTool` by name: no state of their own.
* The defaults of timeouts and limits, which are constants here.

Data races on `p.dedup` and `p.runCtx` during a re-`Init` are modelled as reads of
the old or the new value, those on the directory in `p.cfg` as reads of the old, the
new or a garbled one.

## Plan

What is left:

1. An abstract service for `Monitor` (each message is handled, in hand, or lost by a
   crash) and the proof that the poll loop implements it, so that `Inbound` rests on a
   proved statement when it takes messages from the feed in order.
2. The same for the approvals `Inbound` has inside its runs: a theorem that its
   `question` behaves as `ApprovalService` does for one conversation.
3. The composition of prompts with media that come with a text.
