------------------------------- MODULE Routing -------------------------------
(***************************************************************************)
(* How conversations are named and found again: tape names                 *)
(* (internal/weixin/bot_runtime.go, parse.go), the bot an approval or a    *)
(* tool call is routed to, and the keys of the approval map and of         *)
(* deduplication. Init may replace the bots while jobs of the former ones  *)
(* are still under way.                                                    *)
(*                                                                         *)
(* A string is the sequence of its letters, the words "weixin" and "p2p"   *)
(* counting as one letter each and "RS" standing for "\x1e", so "a:p2p:u"  *)
(* is <<"a", ":", "p2p", ":", "u">>; the empty string is <<>>.             *)
(***************************************************************************)
EXTENDS Naturals, Sequences, FiniteSets

CONSTANTS
    Letters,    \* what strings are made of
    Labels,     \* bot ids SanitizeLoginID accepts
    Peers,      \* user ids the gateway may report, of any letters
    MsgIds,     \* raw keys of messages with an id (dedupKeyForMessage)
    MaxJobs     \* bound on the jobs under way

\* Letters loginIDRegexp keeps out of a bot's id.
Separating == {":", "RS", "|"}

ASSUME RoutingAssumption ==
    /\ {"weixin", "p2p"} \cup Separating \subseteq Letters
    /\ Labels \subseteq Seq(Letters)
    /\ \A l \in Labels : Len(l) > 0 /\ \A i \in DOMAIN l : l[i] \notin Separating
    /\ Peers \subseteq Seq(Letters) /\ \A p \in Peers : Len(p) > 0
    /\ MsgIds \subseteq Seq(Letters) /\ \A m \in MsgIds : Len(m) > 0
    /\ MaxJobs \in Nat

VARIABLES
    bots,       \* p.bots: the tapeLabel of each bot
    jobs        \* inbound jobs under way: where they come from and their keys

vars == <<bots, jobs>>

NoLabel == <<>>

\* A bot and a user, unless the user is missing.
Routed(label, peer) == [ok |-> peer # <<>>, label |-> label, peer |-> peer]

Unrouted == Routed(NoLabel, <<>>)

\* t stands in s from place i on; s from place i on.
At(s, i, t) ==
    /\ i + Len(t) <= Len(s) + 1
    /\ \A k \in DOMAIN t : s[i + k - 1] = t[k]

From(s, i) == SubSeq(s, i, Len(s))

-----------------------------------------------------------------------------
(* Faulty variants, used only to show that the properties can fail *)

\* The last separator counts.
LastSeparator(body) ==
    CHOOSE i \in 1 .. Len(body) :
        /\ At(body, i, <<":", "p2p", ":">>)
        /\ \A j \in i + 1 .. Len(body) : ~At(body, j, <<":", "p2p", ":">>)

\* The only bot takes every label.
SoleBotTakesAll(bs, label) ==
    IF Len(bs) = 1 THEN {bs[1]} ELSE {bs[i] : i \in DOMAIN bs} \cap ({label} \ {NoLabel})

\* Nothing separates bot and user.
WaitKeyRunTogether(label, peer) == label \o peer

\* Every bot names its conversations the legacy way.
TapeWithoutLabel(label, peer) == <<"weixin", ":", "p2p", ":">> \o peer

-----------------------------------------------------------------------------
(* Configurations *)

\* validateWeixinBots: several bots need distinct, non-empty ids.
ValidBots(bs) ==
    /\ bs # <<>>
    /\ Len(bs) > 1 => \A i, j \in DOMAIN bs :
                         bs[i] # NoLabel /\ (bs[i] = bs[j] => i = j)

Configs == {bs \in UNION {[1 .. n -> Labels \cup {NoLabel}] : n \in 1 .. 2} : ValidBots(bs)}

-----------------------------------------------------------------------------
(* Names *)

tapeForPeer(label, peer) ==
    IF label = NoLabel THEN <<"weixin", ":", "p2p", ":">> \o peer
                       ELSE <<"weixin", ":">> \o label \o <<":", "p2p", ":">> \o peer

\* Where ":p2p:" stands in a tape's body, and where it does so first.
Separators(body) == {i \in 1 .. Len(body) : At(body, i, <<":", "p2p", ":">>)}

FirstSeparator(body) == CHOOSE i \in Separators(body) : \A j \in Separators(body) : i <= j

\* A body that starts with "p2p:" is a legacy one, whatever follows.
parseWeixinP2PTape(tape) ==
    LET body == From(tape, 3)
        sep  == FirstSeparator(body)
    IN  IF ~At(tape, 1, <<"weixin", ":">>) THEN Unrouted
        ELSE IF At(body, 1, <<"p2p", ":">>) THEN Routed(NoLabel, From(body, 3))
        ELSE IF Separators(body) = {} \/ sep = 1 THEN Unrouted
        ELSE Routed(SubSeq(body, 1, sep - 1), From(body, sep + 3))

\* The bots botByTapeLabel may return: one or none.
botByTapeLabel(bs, label) ==
    IF Len(bs) = 1
    THEN {bs[1]} \cap (IF label = NoLabel THEN {bs[1]} ELSE {label})
    ELSE {bs[i] : i \in DOMAIN bs} \cap ({label} \ {NoLabel})

RouteLabel(bs, label, peer) ==
    IF botByTapeLabel(bs, label) = {} THEN Unrouted
    ELSE Routed(CHOOSE l \in botByTapeLabel(bs, label) : TRUE, peer)

\* handleSingle and handleBatch: the tape alone decides.
ApprovalRoute(bs, tape) ==
    LET t == parseWeixinP2PTape(tape)
    IN  IF t.ok THEN RouteLabel(bs, t.label, t.peer) ELSE Unrouted

\* processJob puts the bot's label in the tools' context when it has one, and
\* botForToolContext prefers it to the tape.
ToolRoute(bs, job) ==
    IF job.label # NoLabel
    THEN RouteLabel(bs, job.label, job.peer)
    ELSE LET t == parseWeixinP2PTape(job.tape)
         IN  IF t.ok THEN RouteLabel(bs, t.label, job.peer) ELSE Unrouted

\* Outside a run the arguments decide, tape_name or peer_id with weixin_bot,
\* but not both; several bots need the name of one.
OffSessionRoute(bs, tape, peer, label) ==
    IF tape # <<>> /\ peer # <<>> THEN Unrouted
    ELSE IF tape # <<>> THEN ApprovalRoute(bs, tape)
    ELSE IF peer = <<>> \/ (Len(bs) > 1 /\ label = NoLabel) THEN Unrouted
    ELSE RouteLabel(bs, label, peer)

approvalWaitKey(label, peer) ==
    IF label = NoLabel THEN peer ELSE label \o <<"RS">> \o peer

dedupScopedKey(label, raw, multi) ==
    IF multi /\ label # NoLabel THEN label \o <<"|">> \o raw ELSE raw

-----------------------------------------------------------------------------
(* The plugin under way *)

Init ==
    /\ bots \in Configs
    /\ jobs = {}

\* A message of a user becomes a job; `current` tells whether the bots are
\* still those of its time.
Inbound(i, peer, raw) ==
    /\ i \in DOMAIN bots
    /\ Cardinality(jobs) < MaxJobs
    /\ jobs' = jobs \cup
         {[label |-> bots[i], peer |-> peer, tape |-> tapeForPeer(bots[i], peer),
           waitKey |-> approvalWaitKey(bots[i], peer),
           dedupKey |-> dedupScopedKey(bots[i], raw, Len(bots) > 1),
           raw |-> raw, current |-> TRUE]}
    /\ UNCHANGED bots

\* Init with another configuration; the jobs of the old one live on.
Reconfigure(bs) ==
    /\ bs # bots
    /\ bots' = bs
    /\ jobs' = {[j EXCEPT !.current = FALSE] : j \in jobs}

JobEnds(j) ==
    /\ j \in jobs
    /\ jobs' = jobs \ {j}
    /\ UNCHANGED bots

Next ==
    \/ \E i \in 1 .. 2, p \in Peers, raw \in MsgIds : Inbound(i, p, raw)
    \/ \E bs \in Configs : Reconfigure(bs)
    \/ \E j \in jobs : JobEnds(j)

Spec == Init /\ [][Next]_vars

-----------------------------------------------------------------------------
(* Properties *)

\* parse.go:12: the name of a conversation reads back as its bot and its peer.
TapeRoundTrip ==
    \A j \in jobs : parseWeixinP2PTape(j.tape) = Routed(j.label, j.peer)

\* Where approvals and tool calls of a job go, and tool calls that name its
\* conversation from outside a run.
RoutesOf(j) ==
    { ApprovalRoute(bots, j.tape), ToolRoute(bots, j),
      OffSessionRoute(bots, j.tape, <<>>, NoLabel), OffSessionRoute(bots, <<>>, j.peer, j.label) }

\* As long as the bots do not change, an approval or a tool call made for a
\* job, and one that names its conversation, reach the bot and the user it
\* came from.
OwnConversationReached ==
    \A j \in jobs : j.current => RoutesOf(j) = {Routed(j.label, j.peer)}

\* After the bots were replaced under a running job, its approvals and tool
\* calls, and those that name its conversation, go to a bot with the same id,
\* or fail; only a conversation of a bot without an id may be taken over, and
\* only by a bot that is alone.
NeverMisrouted ==
    \A j \in jobs : \A route \in RoutesOf(j) :
        route.ok =>
            /\ route.peer = j.peer
            /\ IF j.label = NoLabel THEN Len(bots) = 1 ELSE route.label = j.label

\* Within one configuration, different conversations share neither tape nor
\* approval key, and different bots share no message key.
KeysAreDistinct ==
    \A j, k \in jobs : j.current /\ k.current =>
        /\ j.tape = k.tape \/ j.waitKey = k.waitKey
             => j.label = k.label /\ j.peer = k.peer
        /\ j.dedupKey = k.dedupKey => j.label = k.label /\ j.raw = k.raw
=============================================================================
