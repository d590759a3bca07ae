-------------------------------- MODULE Plugin --------------------------------
(***************************************************************************)
(* Init and Shutdown of the plugin (internal/weixin/plugin.go) with the    *)
(* configuration, the bots and their monitors, as far as they share        *)
(* cursor files (syncbuf.go). The host calls Init one step after the other *)
(* and Shutdown at any time; dmr-weixin-login rewrites credentials files   *)
(* meanwhile; a monitor that was replaced goes on until it notices.        *)
(*                                                                         *)
(* Of the gateway it matters whose cursor it hands out: a token belongs to *)
(* an identity (Owner), and a cursor is the identity whose messages it     *)
(* counts. How far it counts is the subject of module Monitor.             *)
(***************************************************************************)
EXTENDS Config

CONSTANTS
    Values,     \* settings
    Dirs,       \* values of config_base_dir, Unset among them or not
    Garbled,    \* a directory read while it is assigned
    Configs,    \* configurations the host may send
    LoginFiles, \* files dmr-weixin-login writes
    Contents,   \* what it may write
    Owner,      \* token |-> identity
    NoCursor,   \* an empty or missing cursor file
    MaxBots,    \* bound on the bots of a configuration
    MaxRuns,    \* bound on the runs
    MaxLogins   \* bound on the logins

Row(keys) == [keys -> Values \cup {Unset}]

ConfigType ==
    [config_base_dir : Dirs, extra_prompt_file : Values \cup {Unset},
     bots : Seq(Row(BotKeys)), root : Row(RootKeys)]

ASSUME PluginAssumption ==
    /\ "default" \in Values /\ Unset \notin Values
    /\ Configs \subseteq ConfigType
    /\ \A c \in Configs : Len(c.bots) <= MaxBots
    /\ LoginFiles \subseteq (Dirs \cup {"/"}) \X Values
    /\ Contents \subseteq Row(FileKeys) /\ Torn \notin Contents
    /\ Owner \in [Values -> Values] /\ NoCursor \notin Values
    /\ MaxBots \in Nat \ {0} /\ MaxRuns \in Nat /\ MaxLogins \in Nat

VARIABLES
    files,      \* credentials files
    held,       \* ghost: what each of them has held
    writing,    \* those dmr-weixin-login has emptied and not yet written
    logins,     \* logins so far
    cfg,        \* p.cfg
    bots,       \* p.bots
    source,     \* ghost: the configuration p.bots were made from
    call,       \* the Init under way: where it is, its configuration and rows
    run,        \* runs so far; a run is its number
    cancelled,  \* runs whose context is cancelled
    shutdownDone,
    members,    \* the bots a run has monitors for
    pc,         \* monitor of a run and a bot
    cursor,     \* its cursor
    disk        \* cursor files

fileVars == <<files, held, writing, logins>>
initVars == <<cfg, bots, source, call>>
runVars == <<run, cancelled, shutdownDone, members>>
vars == <<fileVars, initVars, runVars, pc, cursor, disk>>

Files == (Dirs \cup {"/"}) \X Values
Runs == 1 .. MaxRuns
Monitors == Runs \X (1 .. MaxBots)
CursorFiles == {cursorDir(d) : d \in Dirs \cup {Garbled}} \X Values
Cursors == {Owner[t] : t \in Values} \cup {NoCursor}

NoConfig ==
    [config_base_dir |-> Unset, extra_prompt_file |-> Unset, bots |-> <<>>,
     root |-> [k \in RootKeys |-> Unset]]

NoCall == [at |-> "none", cfg |-> NoConfig, rows |-> <<>>]

BotOf(m) == members[m[1]][m[2]]

Init ==
    /\ \E before \in [LoginFiles -> Contents \cup {Torn}] :
         files = [f \in Files |-> IF f \in LoginFiles THEN before[f] ELSE Torn]
    /\ held = [f \in Files |-> {files[f]} \ {Torn}]
    /\ writing = {} /\ logins = 0
    /\ cfg = NoConfig /\ bots = <<>> /\ source = NoConfig /\ call = NoCall
    /\ run = 0 /\ cancelled = {} /\ shutdownDone = FALSE
    /\ members = [r \in Runs |-> <<>>]
    /\ pc = [m \in Monitors |-> "none"]
    /\ cursor = [m \in Monitors |-> NoCursor]
    /\ disk = [f \in CursorFiles |-> NoCursor]

-----------------------------------------------------------------------------
(* Faulty variants, used only to show that the properties can fail *)

\* The extra prompt is read after the bots were replaced.
PromptFailsAfterSwap ==
    /\ call.at = "prompt"
    /\ call.cfg.extra_prompt_file # Unset
    /\ bots' = call.rows
    /\ source' = call.cfg
    /\ call' = NoCall
    /\ UNCHANGED <<fileVars, cfg, runVars, pc, cursor, disk>>

-----------------------------------------------------------------------------
(* dmr-weixin-login writes a credentials file, which os.WriteFile empties first *)

Truncate(f) ==
    /\ logins < MaxLogins
    /\ logins' = logins + 1
    /\ writing' = writing \cup {f}
    /\ files' = [files EXCEPT ![f] = Torn]
    /\ UNCHANGED <<held, initVars, runVars, pc, cursor, disk>>

\* It may as well be stopped before it gets here.
WriteCredentials(f, content) ==
    /\ f \in writing
    /\ writing' = writing \ {f}
    /\ files' = [files EXCEPT ![f] = content]
    /\ held' = [held EXCEPT ![f] = @ \cup {content}]
    /\ UNCHANGED <<logins, initVars, runVars, pc, cursor, disk>>

-----------------------------------------------------------------------------
(* Init *)

BeginInit(c) ==
    /\ call.at = "none" /\ run < MaxRuns
    /\ call' = [at |-> "rows", cfg |-> c, rows |-> <<>>]
    /\ UNCHANGED <<fileVars, cfg, bots, source, runVars, pc, cursor, disk>>

AllRows == Len(call.rows) = Len(RowsOf(call.cfg))

FinalizedNext ==
    FinalizedRows(RowsOf(call.cfg)[Len(call.rows) + 1], call.cfg, files)

\* One round of finalizeWeixinConfig; the files may change between two.
FinalizeRow ==
    /\ call.at = "rows" /\ ~AllRows
    /\ \E row \in FinalizedNext : call' = [call EXCEPT !.rows = Append(@, row)]
    /\ UNCHANGED <<fileVars, cfg, bots, source, runVars, pc, cursor, disk>>

\* Nothing of the plugin has changed.
ParseFails ==
    /\ call.at = "rows"
    /\ IF AllRows THEN ~validateWeixinBots(call.rows) ELSE FinalizedNext = {}
    /\ call' = NoCall
    /\ UNCHANGED <<fileVars, cfg, bots, source, runVars, pc, cursor, disk>>

ParseDone ==
    /\ call.at = "rows" /\ AllRows
    /\ validateWeixinBots(call.rows)
    /\ call' = [call EXCEPT !.at = "assign"]
    /\ UNCHANGED <<fileVars, cfg, bots, source, runVars, pc, cursor, disk>>

\* p.cfg = cfg, while monitors may read it.
AssignConfig ==
    /\ call.at = "assign"
    /\ cfg' = Mirrored(call.cfg, call.rows)
    /\ call' = [call EXCEPT !.at = "prompt"]
    /\ UNCHANGED <<fileVars, bots, source, runVars, pc, cursor, disk>>

\* extra_prompt_file cannot be read: p.cfg is already the new one.
PromptFails ==
    /\ call.at = "prompt"
    /\ call.cfg.extra_prompt_file # Unset
    /\ call' = NoCall
    /\ UNCHANGED <<fileVars, cfg, bots, source, runVars, pc, cursor, disk>>

SwapBots ==
    /\ call.at = "prompt"
    /\ bots' = call.rows
    /\ source' = call.cfg
    /\ call' = [call EXCEPT !.at = "swapped"]
    /\ UNCHANGED <<fileVars, cfg, runVars, pc, cursor, disk>>

\* Cancel the run in force and start a monitor for every bot.
StartRun ==
    /\ call.at = "swapped"
    /\ run' = run + 1
    /\ cancelled' = cancelled \cup ({run} \ {0})
    /\ members' = [members EXCEPT ![run + 1] = call.rows]
    /\ pc' = [m \in Monitors |->
                IF m[1] = run + 1 /\ m[2] \in DOMAIN call.rows THEN "load" ELSE pc[m]]
    /\ call' = NoCall
    /\ UNCHANGED <<fileVars, cfg, bots, source, shutdownDone, cursor, disk>>

\* Once in the life of the process, also in the middle of Init.
Shutdown ==
    /\ ~shutdownDone
    /\ shutdownDone' = TRUE
    /\ cancelled' = cancelled \cup ({run} \ {0})
    /\ UNCHANGED <<fileVars, initVars, run, members, pc, cursor, disk>>

-----------------------------------------------------------------------------
(* Monitors *)

\* p.cfg is read without a lock: while Init assigns it, a monitor may see the
\* old directory, the new one or a mixture.
DirsRead ==
    IF call.at = "assign"
    THEN {cfg.config_base_dir, call.cfg.config_base_dir, Garbled}
    ELSE {cfg.config_base_dir}

Goto(m, place) == pc' = [pc EXCEPT ![m] = place]

\* A file that is being rewritten reads as empty.
loadSyncBuf(m, dir) ==
    /\ pc[m] = "load"
    /\ \/ cursor' = [cursor EXCEPT ![m] = disk[syncBufPath(dir, BotOf(m))]]
       \/ /\ \E n \in Monitors : pc[n] = "save"
          /\ UNCHANGED cursor
    /\ Goto(m, "loop")
    /\ UNCHANGED <<fileVars, initVars, runVars, disk>>

Stop(m) ==
    /\ pc[m] = "loop"
    /\ m[1] \in cancelled
    /\ cursor' = [cursor EXCEPT ![m] = NoCursor]
    /\ Goto(m, "stopped")
    /\ UNCHANGED <<fileVars, initVars, runVars, disk>>

\* A poll that is answered, with a cursor of the identity whose token was
\* sent. The run may be cancelled before the answer is looked at; a poll that
\* fails leaves everything as it is.
Poll(m) ==
    /\ pc[m] = "loop"
    /\ m[1] \notin cancelled
    /\ cursor' = [cursor EXCEPT ![m] = Owner[BotOf(m)["token"]]]
    /\ Goto(m, "save")
    /\ UNCHANGED <<fileVars, initVars, runVars, disk>>

\* Into the directory of the moment; or it fails, of which nobody hears. The
\* messages are handled whatever comes of it.
saveSyncBuf(m, dir) ==
    /\ pc[m] = "save"
    /\ \/ disk' = [disk EXCEPT ![syncBufPath(dir, BotOf(m))] = cursor[m]]
       \/ UNCHANGED disk
    /\ Goto(m, "loop")
    /\ UNCHANGED <<fileVars, initVars, runVars, cursor>>

MonitorStep(m) ==
    \/ \E dir \in DirsRead : loadSyncBuf(m, dir) \/ saveSyncBuf(m, dir)
    \/ Stop(m) \/ Poll(m)

InitStep ==
    \/ \E c \in Configs : BeginInit(c)
    \/ FinalizeRow \/ ParseFails \/ ParseDone \/ AssignConfig
    \/ PromptFails \/ SwapBots \/ StartRun

\* Out of runs, and none in force.
Quiescent ==
    /\ run = MaxRuns /\ run \in cancelled
    /\ UNCHANGED vars

Next ==
    \/ \E f \in LoginFiles : Truncate(f) \/ \E content \in Contents : WriteCredentials(f, content)
    \/ InitStep \/ Shutdown
    \/ \E m \in Monitors : MonitorStep(m)
    \/ Quiescent

Spec == Init /\ [][Next]_vars

-----------------------------------------------------------------------------
(* Properties *)

\* Rows of bots that can be polled for, each with an account.
Usable(rows) ==
    /\ rows \in Seq(Row(BotKeys)) /\ Len(rows) <= MaxBots
    /\ \A i \in DOMAIN rows :
         {rows[i]["gateway_base_url"], rows[i]["token"], rows[i]["account_id"]} \subseteq Values

FilesType ==
    /\ files \in [Files -> Contents \cup {Torn}]
    /\ held \in [Files -> SUBSET Contents]
    /\ writing \subseteq LoginFiles /\ logins \in 0 .. MaxLogins

CallType ==
    /\ Usable(bots) /\ source \in Configs \cup {NoConfig}
    /\ call \in [at : {"none", "rows", "assign", "prompt", "swapped"},
                 cfg : Configs \cup {NoConfig}, rows : Seq(Row(BotKeys))]
    /\ call.at # "none" => call.cfg \in Configs /\ run < MaxRuns
    /\ call.at \in {"assign", "prompt", "swapped"} => Usable(call.rows)
    /\ cfg.config_base_dir \in Dirs \cup {Unset}

RunsType ==
    /\ run \in 0 .. MaxRuns /\ cancelled \subseteq 1 .. run
    /\ shutdownDone \in BOOLEAN
    /\ DOMAIN members = Runs /\ \A r \in Runs : Usable(members[r])

MonitorsType ==
    /\ pc \in [Monitors -> {"none", "load", "loop", "save", "stopped"}]
    /\ \A m \in Monitors : pc[m] # "none" => m[1] <= run /\ m[2] \in DOMAIN members[m[1]]
    /\ cursor \in [Monitors -> Cursors]
    /\ disk \in [CursorFiles -> Cursors]

\* Every variable has its type, every bot in use has a gateway, a token and an
\* account, and only bots of a run have monitors.
TypeOK == FilesType /\ CallType /\ RunsType /\ MonitorsType

\* Monitors that are not told to stop are those of the latest run, and they
\* poll for the bots that replies and approvals are sent through, all of
\* them: also after an Init that failed half way or met a Shutdown.
MonitorsServeTheBots ==
    /\ \A m \in Monitors : pc[m] # "none" /\ m[1] \notin cancelled => m[1] = run
    /\ run > 0 /\ call.at # "swapped" =>
         /\ members[run] = bots
         /\ \A i \in DOMAIN bots : pc[<<run, i>>] # "none"

\* Each row that names a credentials file has all the settings of something
\* the file has held.
Credentialed(rows, dir) ==
    \A i \in DOMAIN rows : rows[i]["credentials_path"] # Unset =>
        \E content \in held[resolveExtraPromptPath(rows[i]["credentials_path"], dir)] :
            \A k \in FileKeys : content[k] # Unset => rows[i][k] = content[k]

\* A bot with a credentials file has the settings of one login, whole, and
\* never those of its row or the root in their place, although the file may
\* be rewritten while it is read.
CredentialsFileWins == Credentialed(bots, source.config_base_dir)

\* What the operator must see to: whatever a login writes, the account of a
\* bot tells whose token it has.
AccountsTell(Holder) ==
    \A c \in Configs : \A i \in DOMAIN RowsOf(c) :
        LET full == inheritLegacyIntoBot(RowsOf(c)[i], c.root)
        IN  \A file \in IF full["credentials_path"] = Unset THEN {NoFile} ELSE Contents :
                LET row == WithDefaultAccount(mergeWeixinCredentialsBot(full, file))
                IN  row["token"] # Unset =>
                        Owner[row["token"]] = Holder[row["account_id"]]

\* No monitor polls with the cursor of another identity, through whichever
\* directory an Init under way makes it read and write, and whatever a
\* replaced monitor still saves.
CursorsStayWithTheirBot ==
    \A m \in Monitors : pc[m] # "none" =>
        cursor[m] \in {NoCursor, Owner[BotOf(m)["token"]]}

\* README.md:65, README.md:150: bots whose rows have different account ids
\* have cursor files of their own.
DistinctAccountsSeparate ==
    \A i, j \in DOMAIN bots :
        LET account(k) == RowsOf(source)[k]["account_id"]
        IN  Unset \notin {account(i), account(j)} /\ account(i) # account(j) =>
                bots[i]["account_id"] # bots[j]["account_id"]
=============================================================================
