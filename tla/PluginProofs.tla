----------------------------- MODULE PluginProofs -----------------------------
(***************************************************************************)
(* Proofs about Plugin for any configurations, directories, bots, runs and *)
(* logins.                                                                 *)
(***************************************************************************)
EXTENDS Plugin, TLAPS

\* The rows of a configuration the host may send.
LEMMA RowsOfType ==
    ASSUME NEW c \in Configs
    PROVE  /\ RowsOf(c) \in Seq(Row(BotKeys))
           /\ Len(RowsOf(c)) \in 1 .. MaxBots
           /\ c.root \in Row(RootKeys)
           /\ c.config_base_dir \in Dirs
<1>1. /\ c.bots \in Seq(Row(BotKeys)) /\ Len(c.bots) <= MaxBots
      /\ c.root \in Row(RootKeys) /\ c.config_base_dir \in Dirs
  BY PluginAssumption DEF PluginAssumption, ConfigType
<1>2. [k \in BotKeys |-> Unset] \in Row(BotKeys)
  BY DEF Row
<1>3. CASE c.bots = <<>>
  BY <1>1, <1>2, <1>3, PluginAssumption DEF RowsOf, PluginAssumption
<1>4. CASE c.bots # <<>>
  BY <1>1, <1>4 DEF RowsOf
<1>5. QED
  BY <1>1, <1>3, <1>4

\* What finalizeWeixinConfig's loop makes of a row.
LEMMA FinalizedType ==
    ASSUME NEW c \in Configs, NEW row \in Row(BotKeys), TypeOK,
           NEW final \in FinalizedRows(row, c, files)
    PROVE  final \in Row(BotKeys) /\ final["account_id"] \in Values
<1> DEFINE full == inheritLegacyIntoBot(row, c.root)
<1>1. full \in Row(BotKeys)
  BY RowsOfType DEF inheritLegacyIntoBot, Row, RootKeys, BotKeys
<1>2. "account_id" \in BotKeys /\ "credentials_path" \in BotKeys /\ FileKeys \subseteq BotKeys
  BY DEF BotKeys, RootKeys, FileKeys
<1>3. NoFile \in Row(FileKeys)
  BY DEF NoFile, Row
<1>4. Readings(full, c.config_base_dir, files) \subseteq Row(FileKeys)
  <2>1. CASE full["credentials_path"] = Unset
    BY <1>3, <2>1 DEF Readings
  <2>2. CASE full["credentials_path"] # Unset
    <3>1. resolveExtraPromptPath(full["credentials_path"], c.config_base_dir) \in Files
      BY <1>1, <1>2, <2>2, RowsOfType DEF Row, resolveExtraPromptPath, Files
    <3>2. files \in [Files -> Contents \cup {Torn}]
      BY DEF TypeOK, FilesType
    <3>3. QED
      BY <2>2, <3>1, <3>2, PluginAssumption DEF Readings, PluginAssumption
  <2>3. QED
    BY <2>1, <2>2
<1>5. PICK file \in Row(FileKeys) :
        final = WithDefaultAccount(mergeWeixinCredentialsBot(full, file))
  BY <1>4 DEF FinalizedRows
<1>6. mergeWeixinCredentialsBot(full, file) \in Row(BotKeys)
  BY <1>1, <1>2 DEF mergeWeixinCredentialsBot, Row
<1>7. QED
  BY <1>2, <1>5, <1>6, PluginAssumption DEF WithDefaultAccount, Row, PluginAssumption

-----------------------------------------------------------------------------
(* Types *)

\* The rows of an Init under way are those of its configuration so far, and
\* monitors have a directory to read.
CallRows ==
    /\ \A i \in DOMAIN call.rows : call.rows[i]["account_id"] \in Values
    /\ call.at # "none" => Len(call.rows) <= Len(RowsOf(call.cfg))
    /\ call.at \in {"prompt", "swapped"} \/ run > 0 => cfg.config_base_dir \in Dirs

Types == TypeOK /\ CallRows

CallShape ==
    [at : {"none", "rows", "assign", "prompt", "swapped"},
     cfg : Configs \cup {NoConfig}, rows : Seq(Row(BotKeys))]

\* A step that leaves a part alone keeps its type.
LEMMA PartsStay ==
    /\ FilesType /\ UNCHANGED fileVars => FilesType'
    /\ CallType /\ CallRows /\ UNCHANGED initVars /\ UNCHANGED run => CallType' /\ CallRows'
    /\ RunsType /\ UNCHANGED runVars => RunsType'
    /\ MonitorsType /\ UNCHANGED <<run, members, pc, cursor, disk>> => MonitorsType'
<1>1. FilesType /\ UNCHANGED fileVars => FilesType'
  BY DEF FilesType, fileVars
<1>2. CallType /\ CallRows /\ UNCHANGED initVars /\ UNCHANGED run => CallType' /\ CallRows'
  BY DEF CallType, CallRows, initVars, Usable
<1>3. RunsType /\ UNCHANGED runVars => RunsType'
  BY DEF RunsType, runVars, Usable
<1>4. MonitorsType /\ UNCHANGED <<run, members, pc, cursor, disk>> => MonitorsType'
  BY DEF MonitorsType
<1>5. QED
  BY <1>1, <1>2, <1>3, <1>4

\* An Init that fails, after which there is none.
LEMMA CallEnds ==
    ASSUME Types, call' = NoCall, UNCHANGED <<bots, source, cfg>>,
           run' = run \/ cfg.config_base_dir \in Dirs
    PROVE  CallType' /\ CallRows'
<1>1. call'.at = "none" /\ call'.rows = <<>> /\ call' \in CallShape
  BY DEF NoCall, CallShape
<1>2. QED
  BY <1>1 DEF Types, TypeOK, CallType, CallRows, CallShape, Usable

\* An Init that goes on to another place with the same rows.
LEMMA CallGoesOn ==
    ASSUME Types, NEW place \in {"assign", "prompt", "swapped"},
           call.at # "none", call' = [call EXCEPT !.at = place],
           Usable(call.rows), Usable(bots'),
           source' \in Configs \cup {NoConfig}, UNCHANGED run,
           cfg'.config_base_dir \in Dirs
             \/ (place = "assign" /\ UNCHANGED cfg)
    PROVE  CallType' /\ CallRows'
<1>1. /\ call'.at = place /\ call'.rows = call.rows /\ call'.cfg = call.cfg
      /\ call' \in CallShape
  BY DEF Types, TypeOK, CallType, CallShape
<1>2. QED
  BY <1>1 DEF Types, TypeOK, CallType, CallRows, CallShape, Usable

\* The variables have their types.
LEMMA TypesHold == Spec => []Types
<1>1. Init => Types
  <2> SUFFICES ASSUME Init PROVE Types
    OBVIOUS
  <2>1. Usable(<<>>)
    BY PluginAssumption DEF Usable, PluginAssumption
  <2>2. FilesType
    <3>1. files \in [Files -> Contents \cup {Torn}]
      BY DEF Init
    <3>2. held \in [Files -> SUBSET Contents]
      BY <3>1 DEF Init
    <3>3. QED
      BY <3>1, <3>2, PluginAssumption DEF Init, FilesType, PluginAssumption
  <2>3. CallType /\ CallRows
    <3>1. call.at = "none" /\ call.rows = <<>> /\ call \in CallShape
      BY DEF Init, NoCall, CallShape
    <3>2. cfg.config_base_dir = Unset /\ bots = <<>> /\ source = NoConfig /\ run = 0
      BY DEF Init, NoConfig
    <3>3. QED
      BY <2>1, <3>1, <3>2 DEF CallType, CallRows, CallShape
  <2>4. RunsType
    <3>1. run = 0 /\ cancelled = {} /\ shutdownDone \in BOOLEAN
      BY DEF Init
    <3>2. run \in 0 .. MaxRuns /\ cancelled \subseteq 1 .. run
      BY <3>1, PluginAssumption DEF PluginAssumption
    <3>3. DOMAIN members = Runs
      BY DEF Init
    <3>4. ASSUME NEW r \in Runs PROVE Usable(members[r])
      <4>1. members[r] = <<>>
        BY DEF Init
      <4>2. QED
        BY <2>1, <4>1
    <3>5. QED
      BY <3>1, <3>2, <3>3, <3>4 DEF RunsType
  <2>5. MonitorsType
    BY DEF Init, MonitorsType, Cursors
  <2>6. QED
    BY <2>2, <2>3, <2>4, <2>5 DEF Types, TypeOK
<1>2. Types /\ [Next]_vars => Types'
  <2> SUFFICES ASSUME Types, [Next]_vars PROVE Types'
    OBVIOUS
  <2> USE DEF fileVars, initVars, runVars
  <2>0. FilesType /\ CallType /\ RunsType /\ MonitorsType /\ CallRows
    BY DEF Types, TypeOK
  <2>1. ASSUME NEW f \in LoginFiles, Truncate(f) PROVE Types'
    <3>1. FilesType'
      <4>1. files' \in [Files -> Contents \cup {Torn}]
        BY <2>0, <2>1 DEF Truncate, FilesType
      <4>2. logins' \in 0 .. MaxLogins
        BY <2>0, <2>1, PluginAssumption DEF Truncate, FilesType, PluginAssumption
      <4>3. held' \in [Files -> SUBSET Contents] /\ writing' \subseteq LoginFiles
        BY <2>0, <2>1 DEF Truncate, FilesType
      <4>4. QED
        BY <4>1, <4>2, <4>3 DEF FilesType
    <3>2. QED
      BY <2>0, <2>1, <3>1, PartsStay DEF Truncate, Types, TypeOK
  <2>2. ASSUME NEW f \in LoginFiles, NEW content \in Contents, WriteCredentials(f, content)
        PROVE  Types'
    <3>1. FilesType'
      BY <2>0, <2>2, PluginAssumption DEF WriteCredentials, FilesType, PluginAssumption
    <3>2. QED
      BY <2>0, <2>2, <3>1, PartsStay DEF WriteCredentials, Types, TypeOK
  <2>3. ASSUME NEW c \in Configs, BeginInit(c) PROVE Types'
    <3>1. RowsOf(c) \in Seq(Row(BotKeys)) /\ Len(RowsOf(c)) \in Nat
      BY RowsOfType
    <3>2. call' = [at |-> "rows", cfg |-> c, rows |-> <<>>]
      BY <2>3 DEF BeginInit
    <3>3. /\ call'.at = "rows" /\ call'.cfg = c /\ call'.rows = <<>>
          /\ call' \in CallShape
      BY <3>2 DEF CallShape
    <3>4. run < MaxRuns /\ UNCHANGED <<cfg, bots, source, run>>
      BY <2>0, <2>3, PluginAssumption DEF BeginInit, RunsType, PluginAssumption
    <3>5. CallType' /\ CallRows'
      BY <2>0, <3>1, <3>3, <3>4 DEF CallType, CallRows, CallShape, Usable
    <3>6. QED
      BY <2>0, <2>3, <3>5, PartsStay DEF BeginInit, Types, TypeOK
  <2>4. CASE FinalizeRow
    <3>1. /\ call.at = "rows" /\ call.cfg \in Configs /\ call.rows \in Seq(Row(BotKeys))
          /\ call.cfg \in Configs \cup {NoConfig} /\ call \in CallShape
      BY <2>0, <2>4 DEF FinalizeRow, CallType, CallShape
    <3>2. Len(call.rows) + 1 \in DOMAIN RowsOf(call.cfg)
      BY <2>0, <2>4, <3>1, RowsOfType DEF FinalizeRow, AllRows, CallRows
    <3>3. PICK row \in FinalizedNext : call' = [call EXCEPT !.rows = Append(@, row)]
      BY <2>4 DEF FinalizeRow
    <3>4. row \in Row(BotKeys) /\ row["account_id"] \in Values
      <4>1. RowsOf(call.cfg)[Len(call.rows) + 1] \in Row(BotKeys)
        BY <3>1, <3>2, RowsOfType
      <4>2. TypeOK
        BY DEF Types
      <4>3. QED
        BY <3>1, <3>3, <4>1, <4>2, FinalizedType DEF FinalizedNext
    <3>5. /\ call'.rows = Append(call.rows, row) /\ call'.at = "rows" /\ call'.cfg = call.cfg
          /\ call' \in CallShape
      BY <3>1, <3>3, <3>4, SMTT(20) DEF CallShape
    <3>6. \A i \in DOMAIN call'.rows : call'.rows[i]["account_id"] \in Values
      BY <2>0, <3>1, <3>4, <3>5 DEF CallRows
    <3>7. Len(call'.rows) <= Len(RowsOf(call'.cfg))
      BY <3>1, <3>2, <3>5, RowsOfType
    <3>8. UNCHANGED <<cfg, bots, source, run>>
      BY <2>4 DEF FinalizeRow
    <3>9. CallType' /\ CallRows'
      BY <2>0, <3>1, <3>5, <3>6, <3>7, <3>8 DEF CallType, CallRows, CallShape, Usable
    <3>10. QED
      BY <2>0, <2>4, <3>9, PartsStay DEF FinalizeRow, Types, TypeOK
  <2>5. CASE ParseFails \/ PromptFails
    <3>1. call' = NoCall /\ UNCHANGED <<bots, source, cfg, run>>
      BY <2>5 DEF ParseFails, PromptFails
    <3>2. QED
      BY <2>0, <2>5, <3>1, CallEnds, PartsStay DEF ParseFails, PromptFails, Types, TypeOK
  <2>6. CASE ParseDone
    <3>1. call.rows \in Seq(Row(BotKeys)) /\ Len(call.rows) <= MaxBots
      BY <2>0, <2>6, RowsOfType DEF ParseDone, AllRows, CallType
    <3>2. \A i \in DOMAIN call.rows :
            /\ call.rows[i]["gateway_base_url"] \in Values
            /\ call.rows[i]["token"] \in Values
      <4>1. ASSUME NEW i \in DOMAIN call.rows PROVE call.rows[i] \in Row(BotKeys)
        BY <3>1
      <4>2. QED
        BY <2>6, <4>1 DEF ParseDone, validateWeixinBots, Row, BotKeys, RootKeys, FileKeys
    <3>3. Usable(call.rows)
      BY <2>0, <3>1, <3>2 DEF Usable, CallRows
    <3>4. CallType' /\ CallRows'
      BY <2>0, <2>6, <3>3, CallGoesOn DEF ParseDone, CallType
    <3>5. QED
      BY <2>0, <2>6, <3>4, PartsStay DEF ParseDone, Types, TypeOK
  <2>7. CASE AssignConfig
    <3>1. call.cfg \in Configs /\ call.cfg \in ConfigType
      BY <2>0, <2>7, PluginAssumption DEF AssignConfig, CallType, PluginAssumption
    <3>2. cfg'.config_base_dir \in Dirs
      BY <2>7, <3>1 DEF AssignConfig, Mirrored, ConfigType
    <3>3. CallType' /\ CallRows'
      BY <2>0, <2>7, <3>2, CallGoesOn DEF AssignConfig, CallType
    <3>4. QED
      BY <2>0, <2>7, <3>3, PartsStay DEF AssignConfig, Types, TypeOK
  <2>8. CASE SwapBots
    <3>1. Usable(call.rows) /\ call.cfg \in Configs /\ cfg.config_base_dir \in Dirs
      BY <2>0, <2>8 DEF SwapBots, CallType, CallRows
    <3>2. Usable(bots') /\ source' \in Configs \cup {NoConfig}
      BY <2>8, <3>1 DEF SwapBots
    <3>3. CallType' /\ CallRows'
      BY <2>8, <3>1, <3>2, CallGoesOn DEF SwapBots
    <3>4. QED
      BY <2>0, <2>8, <3>3, PartsStay DEF SwapBots, Types, TypeOK
  <2>9. CASE StartRun
    <3>1. /\ Usable(call.rows) /\ run + 1 \in Runs /\ cfg.config_base_dir \in Dirs
          /\ run' = run + 1 /\ run' \in 0 .. MaxRuns
      BY <2>0, <2>9, PluginAssumption
         DEF StartRun, CallType, CallRows, RunsType, Runs, PluginAssumption
    <3>2. CallType' /\ CallRows'
      BY <2>9, <3>1, CallEnds DEF StartRun
    <3>3. RunsType'
      <4>1. cancelled' \subseteq 1 .. run'
        <5>1. run \in Nat /\ cancelled \subseteq 1 .. run
          BY <2>0, PluginAssumption DEF RunsType, PluginAssumption
        <5>2. cancelled' = cancelled \cup ({run} \ {0})
          BY <2>9 DEF StartRun
        <5>3. QED
          BY <3>1, <5>1, <5>2
      <4>2. DOMAIN members' = Runs /\ \A r \in Runs : members'[r] \in {members[r], call.rows}
        BY <2>0, <2>9, <3>1 DEF StartRun, RunsType
      <4>3. QED
        BY <2>0, <2>9, <3>1, <4>1, <4>2 DEF StartRun, RunsType, Usable
    <3>4. MonitorsType'
      <4>1. pc' \in [Monitors -> {"none", "load", "loop", "save", "stopped"}]
        BY <2>0, <2>9 DEF StartRun, MonitorsType
      <4>2. ASSUME NEW m \in Monitors, pc'[m] # "none"
            PROVE  m[1] <= run' /\ m[2] \in DOMAIN members'[m[1]]
        BY <2>0, <2>9, <3>1, <4>2 DEF StartRun, MonitorsType, RunsType, Monitors, Runs
      <4>3. QED
        BY <2>0, <2>9, <4>1, <4>2 DEF StartRun, MonitorsType
    <3>5. QED
      BY <2>0, <2>9, <3>2, <3>3, <3>4, PartsStay DEF StartRun, Types, TypeOK
  <2>10. CASE Shutdown
    <3>1. RunsType'
      BY <2>0, <2>10, PluginAssumption DEF Shutdown, RunsType, Usable, PluginAssumption
    <3>2. QED
      BY <2>0, <2>10, <3>1, PartsStay DEF Shutdown, Types, TypeOK
  <2>11. ASSUME NEW m \in Monitors, MonitorStep(m) PROVE Types'
    <3>1. /\ pc[m] # "none" /\ UNCHANGED <<fileVars, initVars, runVars>>
          /\ \E place \in {"loop", "save", "stopped"} : Goto(m, place)
      BY <2>11 DEF MonitorStep, loadSyncBuf, saveSyncBuf, Stop, Poll
    <3>2. m[1] \in Runs /\ m[1] <= run /\ m[2] \in DOMAIN members[m[1]]
      BY <2>0, <3>1 DEF MonitorsType, Monitors
    <3>3. BotOf(m)["token"] \in Values /\ BotOf(m)["account_id"] \in Values
      BY <2>0, <3>2 DEF RunsType, Usable, BotOf
    <3>4. cursor' \in [Monitors -> Cursors] /\ disk' \in [CursorFiles -> Cursors]
      <4> USE <2>0, <3>3 DEF MonitorsType, Cursors
      <4>1. ASSUME NEW dir \in DirsRead, loadSyncBuf(m, dir) \/ saveSyncBuf(m, dir)
            PROVE  cursor' \in [Monitors -> Cursors] /\ disk' \in [CursorFiles -> Cursors]
        <5>1. cfg.config_base_dir \in Dirs
          BY <3>2, PluginAssumption DEF CallRows, RunsType, Runs, PluginAssumption
        <5>2. call.at = "assign" => call.cfg.config_base_dir \in Dirs
          BY RowsOfType DEF CallType
        <5>3. syncBufPath(dir, BotOf(m)) \in CursorFiles
          BY <4>1, <5>1, <5>2 DEF syncBufPath, CursorFiles, DirsRead
        <5>4. QED
          BY <4>1, <5>3 DEF loadSyncBuf, saveSyncBuf
      <4>2. CASE Stop(m)
        BY <4>2 DEF Stop
      <4>3. CASE Poll(m)
        BY <4>3 DEF Poll
      <4>4. QED
        BY <2>11, <4>1, <4>2, <4>3 DEF MonitorStep
    <3>5. MonitorsType'
      BY <2>0, <3>1, <3>2, <3>4 DEF MonitorsType, Goto
    <3>6. QED
      BY <2>0, <3>1, <3>5, PartsStay DEF Types, TypeOK
  <2>12. CASE UNCHANGED vars
    BY <2>0, <2>12, PartsStay DEF vars, Types, TypeOK
  <2>13. QED
    BY <2>1, <2>2, <2>3, <2>4, <2>5, <2>6, <2>7, <2>8, <2>9, <2>10, <2>11, <2>12
       DEF Next, InitStep, Quiescent
<1>3. QED
  BY <1>1, <1>2, PTL DEF Spec

(* Every variable keeps its type; whatever the host sends and a login       *)
(* writes, no bot without a gateway, a token and an account is ever in use. *)
THEOREM TypeCorrect == Spec => []TypeOK
BY TypesHold, PTL DEF Types

-----------------------------------------------------------------------------
(* Monitors and bots *)

\* Every earlier run is cancelled; between the swap and the start of the run
\* the new bots are those of the Init under way.
Served ==
    /\ 1 .. run - 1 \subseteq cancelled
    /\ call.at = "swapped" => bots = call.rows
    /\ run > 0 /\ call.at # "swapped" =>
         /\ members[run] = bots
         /\ \A i \in DOMAIN bots : pc[<<run, i>>] # "none"

\* Only the latest run is not cancelled, and it serves the bots there are.
LEMMA ServedHolds == Spec => []Served
<1>1. Init => Served
  BY DEF Init, Served, NoCall
<1>2. Types /\ Served /\ [Next]_vars => Served'
  <2> SUFFICES ASSUME Types, Served, [Next]_vars PROVE Served'
    OBVIOUS
  <2> USE DEF fileVars, initVars, runVars
  <2>0. /\ FilesType /\ CallType /\ RunsType /\ MonitorsType /\ CallRows
        /\ run \in Nat /\ MaxRuns \in Nat /\ MaxBots \in Nat
    BY PluginAssumption DEF Types, TypeOK, RunsType, PluginAssumption
  <2>1. CASE UNCHANGED <<bots, call, run, cancelled, members, pc>>
    BY <2>1 DEF Served
  <2>2. CASE (\E c \in Configs : BeginInit(c)) \/ FinalizeRow \/ ParseFails
               \/ ParseDone \/ AssignConfig \/ PromptFails
    <3>1. UNCHANGED <<bots, run, cancelled, members, pc>> /\ call.at # "swapped"
      BY <2>2 DEF BeginInit, FinalizeRow, ParseFails, ParseDone, AssignConfig, PromptFails
    <3>2. call'.at # "swapped"
      <4>1. CASE \E c \in Configs : BeginInit(c)
        BY <4>1 DEF BeginInit
      <4>2. CASE FinalizeRow
        BY <2>0, <4>2 DEF FinalizeRow, CallType
      <4>3. CASE ParseFails \/ PromptFails
        BY <4>3 DEF ParseFails, PromptFails, NoCall
      <4>4. CASE ParseDone \/ AssignConfig
        BY <2>0, <4>4 DEF ParseDone, AssignConfig, CallType
      <4>5. QED
        BY <2>2, <4>1, <4>2, <4>3, <4>4
    <3>3. QED
      BY <3>1, <3>2 DEF Served
  <2>3. CASE SwapBots
    <3>1. call'.at = "swapped" /\ call'.rows = call.rows
      BY <2>0, <2>3 DEF SwapBots, CallType
    <3>2. QED
      BY <2>3, <3>1 DEF SwapBots, Served
  <2>4. CASE StartRun
    <3>1. /\ call.at = "swapped" /\ Usable(call.rows) /\ run' = run + 1 /\ run + 1 \in Runs
          /\ UNCHANGED bots /\ bots = call.rows
      BY <2>0, <2>4 DEF StartRun, CallType, RunsType, Runs, Served
    <3>2. 1 .. run' - 1 \subseteq cancelled'
      BY <2>0, <2>4, <3>1 DEF StartRun, Served
    <3>3. members'[run'] = bots'
      BY <2>0, <2>4, <3>1 DEF StartRun, RunsType
    <3>4. ASSUME NEW i \in DOMAIN bots' PROVE pc'[<<run', i>>] # "none"
      <4>1. i \in DOMAIN call.rows /\ i \in 1 .. MaxBots
        BY <2>0, <3>1 DEF Usable
      <4>2. <<run', i>> \in Monitors
        BY <3>1, <4>1 DEF Monitors
      <4>3. QED
        BY <2>4, <3>1, <4>1, <4>2 DEF StartRun
    <3>5. call'.at # "swapped"
      BY <2>4 DEF StartRun, NoCall
    <3>6. QED
      BY <3>2, <3>3, <3>4, <3>5 DEF Served
  <2>5. CASE Shutdown
    BY <2>5 DEF Shutdown, Served
  <2>6. ASSUME NEW m \in Monitors, MonitorStep(m) PROVE Served'
    <3>1. /\ UNCHANGED <<bots, call, run, cancelled, members>>
          /\ \E place \in {"loop", "save", "stopped"} : Goto(m, place)
      BY <2>6 DEF MonitorStep, loadSyncBuf, saveSyncBuf, Stop, Poll
    <3>2. \A n \in Monitors : pc[n] # "none" => pc'[n] # "none"
      BY <2>0, <3>1 DEF Goto, MonitorsType
    <3>3. ASSUME run > 0, NEW i \in DOMAIN members[run] PROVE <<run, i>> \in Monitors
      BY <2>0, <3>3 DEF RunsType, Usable, Runs, Monitors
    <3>4. QED
      BY <2>0, <3>1, <3>2, <3>3 DEF Served
  <2>7. QED
    BY <2>1, <2>2, <2>3, <2>4, <2>5, <2>6
       DEF Next, InitStep, Quiescent, Truncate, WriteCredentials, vars
<1>3. QED
  BY <1>1, <1>2, TypesHold, PTL DEF Spec

(* The monitors that are not told to stop poll for the bots in use, all of  *)
(* them, however many Inits fail or meet a Shutdown half way.               *)
THEOREM MonitorsServeTheBotsHolds == Spec => []MonitorsServeTheBots
<1>1. Types /\ Served => MonitorsServeTheBots
  <2> SUFFICES ASSUME Types, Served PROVE MonitorsServeTheBots
    OBVIOUS
  <2>1. ASSUME NEW m \in Monitors, pc[m] # "none", m[1] \notin cancelled
        PROVE  m[1] = run
    <3>1. m[1] \in Nat /\ m[1] >= 1 /\ m[1] <= run /\ run \in Nat
      BY <2>1, PluginAssumption
         DEF Types, TypeOK, MonitorsType, RunsType, Monitors, Runs, PluginAssumption
    <3>2. QED
      BY <2>1, <3>1 DEF Served
  <2>2. QED
    BY <2>1 DEF Served, MonitorsServeTheBots
<1>2. QED
  BY <1>1, TypesHold, ServedHolds, PTL

-----------------------------------------------------------------------------
(* Credentials *)

\* A row with a credentials file has what the file holds as it is read.
LEMMA FinalizedCredentials ==
    ASSUME NEW c \in Configs, NEW row \in Row(BotKeys), TypeOK,
           NEW final \in FinalizedRows(row, c, files),
           final["credentials_path"] # Unset
    PROVE  LET path == resolveExtraPromptPath(final["credentials_path"], c.config_base_dir)
           IN  /\ path \in Files /\ files[path] # Torn
               /\ \A k \in FileKeys : files[path][k] # Unset => final[k] = files[path][k]
<1> DEFINE full == inheritLegacyIntoBot(row, c.root)
<1>1. full \in Row(BotKeys)
  BY RowsOfType DEF inheritLegacyIntoBot, Row, RootKeys, BotKeys
<1>2. /\ "account_id" \in BotKeys /\ "credentials_path" \in BotKeys /\ FileKeys \subseteq BotKeys
      /\ "credentials_path" \notin FileKeys
  BY DEF BotKeys, RootKeys, FileKeys
<1>3. PICK file \in Readings(full, c.config_base_dir, files) :
        final = WithDefaultAccount(mergeWeixinCredentialsBot(full, file))
  BY DEF FinalizedRows
<1> DEFINE merged == mergeWeixinCredentialsBot(full, file)
<1>4. DOMAIN merged = BotKeys
  BY DEF mergeWeixinCredentialsBot
<1>5. final["credentials_path"] = full["credentials_path"]
  BY <1>2, <1>3, <1>4 DEF WithDefaultAccount, mergeWeixinCredentialsBot
<1> DEFINE path == resolveExtraPromptPath(full["credentials_path"], c.config_base_dir)
<1>6. path \in Files
  BY <1>1, <1>2, <1>5, RowsOfType DEF Row, resolveExtraPromptPath, Files
<1>7. file = files[path] /\ file # Torn
  BY <1>3, <1>5 DEF Readings
<1>8. ASSUME NEW k \in FileKeys, file[k] # Unset PROVE final[k] = file[k]
  <2>1. k \in BotKeys /\ merged[k] = file[k]
    BY <1>2, <1>8 DEF mergeWeixinCredentialsBot
  <2>2. QED
    BY <1>3, <1>4, <1>8, <2>1 DEF WithDefaultAccount
<1>9. QED
  BY <1>5, <1>6, <1>7, <1>8

\* Credentialed, with paths that are in the file system.
Sourced(rows, dir) ==
    \A i \in DOMAIN rows : rows[i]["credentials_path"] # Unset =>
        LET path == resolveExtraPromptPath(rows[i]["credentials_path"], dir)
        IN  /\ path \in Files
            /\ \E content \in held[path] :
                 \A k \in FileKeys : content[k] # Unset => rows[i][k] = content[k]

Credentials ==
    /\ \A f \in Files : files[f] # Torn => files[f] \in held[f]
    /\ call.at # "none" => Sourced(call.rows, call.cfg.config_base_dir)
    /\ Sourced(bots, source.config_base_dir)

\* The rows of a credentials file have what the file held when it was read.
LEMMA CredentialsHold == Spec => []Credentials
<1>1. Init => Credentials
  BY DEF Init, Credentials, Sourced, NoCall
<1>2. Types /\ Credentials /\ [Next]_vars => Credentials'
  <2> SUFFICES ASSUME Types, Credentials, [Next]_vars PROVE Credentials'
    OBVIOUS
  <2> USE DEF fileVars, initVars, runVars
  <2>0. /\ FilesType /\ CallType /\ CallRows /\ LoginFiles \subseteq Files
    BY PluginAssumption DEF Types, TypeOK, PluginAssumption, Files
  <2>1. CASE UNCHANGED <<files, held, call, bots, source>>
    BY <2>1 DEF Credentials, Sourced
  <2>2. ASSUME NEW f \in LoginFiles, Truncate(f) PROVE Credentials'
    <3>1. \A g \in Files : files'[g] # Torn => files'[g] = files[g]
      BY <2>0, <2>2 DEF Truncate, FilesType
    <3>2. UNCHANGED <<held, call, bots, source>>
      BY <2>2 DEF Truncate
    <3>3. QED
      BY <3>1, <3>2 DEF Credentials, Sourced
  <2>3. ASSUME NEW f \in LoginFiles, NEW content \in Contents, WriteCredentials(f, content)
        PROVE  Credentials'
    <3>1. \A g \in Files : held[g] \subseteq held'[g]
      BY <2>0, <2>3 DEF WriteCredentials, FilesType
    <3>2. \A g \in Files : files'[g] # Torn => files'[g] \in held'[g]
      BY <2>0, <2>3, <3>1 DEF WriteCredentials, FilesType, Credentials
    <3>3. UNCHANGED <<call, bots, source>>
      BY <2>3 DEF WriteCredentials
    <3>4. QED
      BY <3>1, <3>2, <3>3 DEF Credentials, Sourced
  <2>4. ASSUME NEW c \in Configs, BeginInit(c) PROVE Credentials'
    <3>1. call'.rows = <<>> /\ UNCHANGED <<files, held, bots, source>>
      BY <2>4 DEF BeginInit
    <3>2. QED
      BY <3>1 DEF Credentials, Sourced
  <2>5. CASE FinalizeRow
    <3>1. /\ call.at = "rows" /\ call.cfg \in Configs /\ call.rows \in Seq(Row(BotKeys))
          /\ call \in CallShape
      BY <2>0, <2>5 DEF FinalizeRow, CallType, CallShape
    <3>2. PICK row \in FinalizedNext : call' = [call EXCEPT !.rows = Append(@, row)]
      BY <2>5 DEF FinalizeRow
    <3>3. Len(call.rows) + 1 \in DOMAIN RowsOf(call.cfg)
      BY <2>0, <2>5, <3>1, RowsOfType DEF FinalizeRow, AllRows, CallRows
    <3>4. RowsOf(call.cfg)[Len(call.rows) + 1] \in Row(BotKeys)
      BY <3>1, <3>3, RowsOfType
    <3> DEFINE path == resolveExtraPromptPath(row["credentials_path"], call.cfg.config_base_dir)
    <3>5. row["credentials_path"] # Unset =>
            /\ path \in Files /\ files[path] # Torn
            /\ \A k \in FileKeys : files[path][k] # Unset => row[k] = files[path][k]
      BY <3>1, <3>2, <3>4, FinalizedCredentials DEF FinalizedNext, Types
    <3>6. /\ call'.rows = Append(call.rows, row) /\ call'.cfg = call.cfg
          /\ UNCHANGED <<files, held, bots, source>>
      BY <2>5, <3>1, <3>2 DEF FinalizeRow, CallShape
    <3>7. row["credentials_path"] # Unset =>
            /\ path \in Files
            /\ \E content \in held[path] :
                 \A k \in FileKeys : content[k] # Unset => row[k] = content[k]
      BY <3>5 DEF Credentials
    <3>8. Sourced(call'.rows, call.cfg.config_base_dir)
      <4>1. Sourced(call.rows, call.cfg.config_base_dir)
        BY <3>1 DEF Credentials
      <4>2. ASSUME NEW i \in DOMAIN call'.rows
            PROVE  \/ i \in DOMAIN call.rows /\ call'.rows[i] = call.rows[i]
                   \/ call'.rows[i] = row
        BY <3>1, <3>6
      <4>3. QED
        BY <3>7, <4>1, <4>2 DEF Sourced
    <3>9. QED
      BY <3>6, <3>8 DEF Credentials, Sourced
  <2>6. CASE ParseFails \/ PromptFails \/ StartRun
    <3>1. call'.at = "none" /\ UNCHANGED <<files, held, bots, source>>
      BY <2>6 DEF ParseFails, PromptFails, StartRun, NoCall
    <3>2. QED
      BY <3>1 DEF Credentials, Sourced
  <2>7. CASE ParseDone \/ AssignConfig
    <3>1. /\ call.at # "none" /\ call'.rows = call.rows /\ call'.cfg = call.cfg
          /\ UNCHANGED <<files, held, bots, source>>
      BY <2>0, <2>7 DEF ParseDone, AssignConfig, CallType
    <3>2. QED
      BY <3>1 DEF Credentials, Sourced
  <2>8. CASE SwapBots
    <3>1. /\ call.at # "none" /\ call'.rows = call.rows /\ call'.cfg = call.cfg
          /\ bots' = call.rows /\ source' = call.cfg /\ UNCHANGED <<files, held>>
      BY <2>0, <2>8 DEF SwapBots, CallType
    <3>2. QED
      BY <3>1 DEF Credentials, Sourced
  <2>9. CASE Shutdown \/ \E m \in Monitors : MonitorStep(m)
    <3>1. UNCHANGED <<files, held, call, bots, source>>
      BY <2>9 DEF Shutdown, MonitorStep, loadSyncBuf, saveSyncBuf, Stop, Poll
    <3>2. QED
      BY <2>1, <3>1
  <2>10. CASE UNCHANGED vars
    BY <2>1, <2>10 DEF vars
  <2>11. QED
    BY <2>2, <2>3, <2>4, <2>5, <2>6, <2>7, <2>8, <2>9, <2>10 DEF Next, InitStep, Quiescent
<1>3. QED
  BY <1>1, <1>2, TypesHold, PTL DEF Spec

(* A bot with a credentials file has the settings of one login, whole, even  *)
(* when dmr-weixin-login rewrites the file while Init reads it.              *)
THEOREM CredentialsFileWinsHolds == Spec => []CredentialsFileWins
<1>1. Credentials => CredentialsFileWins
  BY DEF Credentials, Sourced, CredentialsFileWins, Credentialed
<1>2. QED
  BY <1>1, CredentialsHold, PTL

-----------------------------------------------------------------------------
(* Cursors *)

\* Rows whose account tells whose token they have.
Honest(rows, Holder) ==
    \A i \in DOMAIN rows : rows[i]["token"] # Unset =>
        Owner[rows[i]["token"]] = Holder[rows[i]["account_id"]]

\* A finalized row that has a token names the account the token belongs to.
LEMMA FinalizedHonest ==
    ASSUME NEW Holder, AccountsTell(Holder), TypeOK,
           NEW c \in Configs, NEW i \in DOMAIN RowsOf(c),
           NEW final \in FinalizedRows(RowsOf(c)[i], c, files),
           final["token"] # Unset
    PROVE  Owner[final["token"]] = Holder[final["account_id"]]
<1> DEFINE full == inheritLegacyIntoBot(RowsOf(c)[i], c.root)
<1>1. RowsOf(c)[i] \in Row(BotKeys)
  BY RowsOfType
<1>2. full["credentials_path"] \in Values \cup {Unset}
  BY <1>1, RowsOfType DEF inheritLegacyIntoBot, Row, RootKeys, BotKeys
<1>3. PICK file \in Readings(full, c.config_base_dir, files) :
        final = WithDefaultAccount(mergeWeixinCredentialsBot(full, file))
  BY DEF FinalizedRows
<1>4. file \in IF full["credentials_path"] = Unset THEN {NoFile} ELSE Contents
  <2>1. CASE full["credentials_path"] = Unset
    BY <1>3, <2>1 DEF Readings
  <2>2. CASE full["credentials_path"] # Unset
    <3>1. resolveExtraPromptPath(full["credentials_path"], c.config_base_dir) \in Files
      BY <1>2, <2>2, RowsOfType DEF resolveExtraPromptPath, Files
    <3>2. files \in [Files -> Contents \cup {Torn}]
      BY DEF TypeOK, FilesType
    <3>3. QED
      BY <1>3, <2>2, <3>1, <3>2 DEF Readings
  <2>3. QED
    BY <2>1, <2>2
<1>5. QED
  BY <1>3, <1>4 DEF AccountsTell

\* A cursor file holds a cursor of whom its account tells of.
CursorsTell(Holder) ==
    /\ call.at # "none" => Honest(call.rows, Holder)
    /\ \A r \in Runs : Honest(members[r], Holder)
    /\ \A f \in CursorFiles : disk[f] \in {NoCursor, Holder[f[2]]}
    /\ \A m \in Monitors :
         IF pc[m] \in {"none", "load"} THEN cursor[m] = NoCursor
         ELSE cursor[m] \in {NoCursor, Owner[BotOf(m)["token"]]}

\* A cursor, in a file or a monitor, tells about the account it is named after.
LEMMA CursorsTellHolds ==
    ASSUME NEW Holder, AccountsTell(Holder)
    PROVE  Spec => []CursorsTell(Holder)
<1>1. Init => CursorsTell(Holder)
  BY DEF Init, CursorsTell, Honest, NoCall
<1>2. Types /\ CursorsTell(Holder) /\ [Next]_vars => CursorsTell(Holder)'
  <2> SUFFICES ASSUME Types, CursorsTell(Holder), [Next]_vars PROVE CursorsTell(Holder)'
    OBVIOUS
  <2> USE DEF fileVars, initVars, runVars
  <2>0. /\ CallType /\ RunsType /\ MonitorsType /\ CallRows
        /\ run \in Nat /\ MaxRuns \in Nat
    BY PluginAssumption DEF Types, TypeOK, RunsType, PluginAssumption
  <2>1. CASE UNCHANGED <<call, members, pc, cursor, disk>>
    BY <2>1 DEF CursorsTell, Honest, BotOf
  <2>2. ASSUME UNCHANGED <<members, pc, cursor, disk>>,
               call'.at # "none" => Honest(call'.rows, Holder)
        PROVE  CursorsTell(Holder)'
    BY <2>2 DEF CursorsTell, Honest, BotOf
  <2>3. ASSUME NEW c \in Configs, BeginInit(c) PROVE CursorsTell(Holder)'
    <3>1. call'.rows = <<>> /\ UNCHANGED <<members, pc, cursor, disk>>
      BY <2>3 DEF BeginInit
    <3>2. QED
      BY <2>2, <3>1 DEF Honest
  <2>4. CASE FinalizeRow
    <3>1. /\ call.at = "rows" /\ call.cfg \in Configs /\ call.rows \in Seq(Row(BotKeys))
          /\ call \in CallShape
      BY <2>0, <2>4 DEF FinalizeRow, CallType, CallShape
    <3>2. PICK row \in FinalizedNext : call' = [call EXCEPT !.rows = Append(@, row)]
      BY <2>4 DEF FinalizeRow
    <3>3. Len(call.rows) + 1 \in DOMAIN RowsOf(call.cfg)
      BY <2>0, <2>4, <3>1, RowsOfType DEF FinalizeRow, AllRows, CallRows
    <3>4. row["token"] # Unset => Owner[row["token"]] = Holder[row["account_id"]]
      BY <3>1, <3>2, <3>3, FinalizedHonest DEF FinalizedNext, Types
    <3>5. call'.rows = Append(call.rows, row) /\ UNCHANGED <<members, pc, cursor, disk>>
      BY <2>4, <3>1, <3>2 DEF FinalizeRow, CallShape
    <3>6. ASSUME NEW i \in DOMAIN call'.rows
          PROVE  \/ i \in DOMAIN call.rows /\ call'.rows[i] = call.rows[i]
                 \/ call'.rows[i] = row
      BY <3>1, <3>5
    <3>7. Honest(call'.rows, Holder)
      BY <3>1, <3>4, <3>6 DEF Honest, CursorsTell
    <3>8. QED
      BY <2>2, <3>5, <3>7
  <2>5. CASE ParseFails \/ PromptFails
    <3>1. call'.at = "none" /\ UNCHANGED <<members, pc, cursor, disk>>
      BY <2>5 DEF ParseFails, PromptFails, NoCall
    <3>2. QED
      BY <2>2, <3>1
  <2>6. CASE ParseDone \/ AssignConfig \/ SwapBots
    <3>1. call.at # "none" /\ call'.rows = call.rows /\ UNCHANGED <<members, pc, cursor, disk>>
      BY <2>0, <2>6 DEF ParseDone, AssignConfig, SwapBots, CallType
    <3>2. QED
      BY <2>2, <3>1 DEF CursorsTell
  <2>7. CASE StartRun
    <3>1. /\ call.at # "none" /\ run' = run + 1 /\ run + 1 \in Runs
          /\ members' = [members EXCEPT ![run + 1] = call.rows]
          /\ UNCHANGED <<cursor, disk>> /\ call'.at = "none"
      BY <2>0, <2>7 DEF StartRun, NoCall, CallType, Runs
    <3>2. \A r \in Runs : Honest(members'[r], Holder)
      <4>1. \A r \in Runs : members'[r] \in {members[r], call.rows}
        BY <2>0, <3>1 DEF RunsType
      <4>2. QED
        BY <3>1, <4>1 DEF CursorsTell
    <3>3. ASSUME NEW m \in Monitors
          PROVE  IF pc'[m] \in {"none", "load"} THEN cursor'[m] = NoCursor
                 ELSE cursor'[m] \in {NoCursor, Owner[BotOf(m)'["token"]]}
      <4>1. CASE m[1] = run + 1
        <5>1. pc[m] = "none"
          BY <2>0, <4>1 DEF MonitorsType
        <5>2. pc'[m] \in {"none", "load"} /\ cursor'[m] = NoCursor
          BY <2>7, <3>1, <5>1 DEF StartRun, CursorsTell
        <5>3. QED
          BY <5>2
      <4>2. CASE m[1] # run + 1
        <5>1. m[1] \in Runs
          BY DEF Monitors
        <5>2. pc'[m] = pc[m] /\ members'[m[1]] = members[m[1]]
          BY <2>0, <2>7, <3>1, <4>2, <5>1 DEF StartRun, RunsType
        <5>3. QED
          BY <3>1, <5>2 DEF CursorsTell, BotOf
      <4>3. QED
        BY <4>1, <4>2
    <3>4. QED
      BY <3>1, <3>2, <3>3 DEF CursorsTell
  <2>8. ASSUME NEW m \in Monitors, MonitorStep(m) PROVE CursorsTell(Holder)'
    <3>1. UNCHANGED <<call, members>> /\ pc[m] # "none"
      BY <2>8 DEF MonitorStep, loadSyncBuf, saveSyncBuf, Stop, Poll
    <3>2. PICK place \in {"loop", "save", "stopped"} : pc' = [pc EXCEPT ![m] = place]
      BY <2>8 DEF MonitorStep, loadSyncBuf, saveSyncBuf, Stop, Poll, Goto
    <3>3. pc'[m] \notin {"none", "load"} /\ \A n \in Monitors \ {m} : pc'[n] = pc[n]
      BY <2>0, <3>2 DEF MonitorsType
    <3>4. m[1] \in Runs /\ m[1] <= run /\ m[1] >= 1 /\ m[2] \in DOMAIN members[m[1]]
      BY <2>0, <3>1 DEF MonitorsType, Monitors, Runs
    <3> DEFINE bot == BotOf(m)
    <3>5. /\ bot["token"] \in Values /\ bot["account_id"] \in Values
          /\ Owner[bot["token"]] = Holder[bot["account_id"]]
      <4>1. bot["token"] \in Values /\ bot["account_id"] \in Values
        BY <2>0, <3>4 DEF RunsType, Usable, BotOf
      <4>2. Honest(members[m[1]], Holder)
        BY <3>4 DEF CursorsTell
      <4>3. bot["token"] # Unset
        BY <4>1, PluginAssumption DEF PluginAssumption
      <4>4. QED
        BY <3>4, <4>1, <4>2, <4>3 DEF Honest, BotOf
    <3> DEFINE Kept ==
          /\ \A n \in Monitors \ {m} : cursor'[n] = cursor[n]
          /\ cursor'[m] \in {NoCursor, Owner[bot["token"]]}
          /\ \A f \in CursorFiles : disk'[f] \in {NoCursor, Holder[f[2]]}
    <3>6. Kept
      <4>1. \A f \in CursorFiles : disk[f] \in {NoCursor, Holder[f[2]]}
        BY DEF CursorsTell
      <4>2. cursor[m] \in {NoCursor, Owner[bot["token"]]}
        BY DEF CursorsTell
      <4>3. ASSUME NEW dir \in DirsRead PROVE syncBufPath(dir, bot) \in CursorFiles
        <5>1. cfg.config_base_dir \in Dirs
          BY <2>0, <3>4 DEF CallRows, Runs
        <5>2. call.at = "assign" => call.cfg.config_base_dir \in Dirs
          BY <2>0, RowsOfType DEF CallType
        <5>3. QED
          BY <3>5, <4>3, <5>1, <5>2 DEF syncBufPath, CursorFiles, DirsRead
      <4>4. ASSUME NEW dir \in DirsRead, loadSyncBuf(m, dir)
            PROVE  /\ cursor' \in {cursor, [cursor EXCEPT ![m] = disk[syncBufPath(dir, bot)]]}
                   /\ disk' = disk
        BY <4>4 DEF loadSyncBuf
      <4>5. ASSUME NEW dir \in DirsRead, loadSyncBuf(m, dir) PROVE Kept
        <5>1. disk[syncBufPath(dir, bot)] \in {NoCursor, Owner[bot["token"]]}
          BY <3>5, <4>1, <4>3 DEF syncBufPath
        <5>2. QED
          BY <2>0, <4>1, <4>2, <4>4, <4>5, <5>1 DEF MonitorsType
      <4>6. ASSUME NEW dir \in DirsRead, saveSyncBuf(m, dir) PROVE Kept
        <5>1. /\ UNCHANGED cursor
              /\ disk' \in {disk, [disk EXCEPT ![syncBufPath(dir, bot)] = cursor[m]]}
          BY <4>6 DEF saveSyncBuf
        <5>2. cursor[m] \in {NoCursor, Holder[syncBufPath(dir, bot)[2]]}
          BY <3>5, <4>2 DEF syncBufPath
        <5>3. QED
          BY <2>0, <4>1, <4>2, <4>3, <5>1, <5>2 DEF MonitorsType
      <4>7. CASE Stop(m)
        BY <2>0, <4>1, <4>7 DEF Stop, MonitorsType
      <4>8. CASE Poll(m)
        BY <2>0, <4>1, <4>8 DEF Poll, MonitorsType
      <4>9. QED
        BY <2>8, <4>5, <4>6, <4>7, <4>8 DEF MonitorStep
    <3>7. QED
      BY <3>1, <3>3, <3>6 DEF CursorsTell, Honest, BotOf
  <2>9. QED
    BY <2>1, <2>3, <2>4, <2>5, <2>6, <2>7, <2>8
       DEF Next, InitStep, Quiescent, Truncate, WriteCredentials, Shutdown, vars
<1>3. QED
  BY <1>1, <1>2, TypesHold, PTL DEF Spec

(* If the accounts of the configurations tell whose tokens they go with, no  *)
(* monitor polls with the cursor of another identity: through no directory   *)
(* it reads while Init assigns p.cfg, and after no replaced monitor's save.  *)
THEOREM CursorsStay ==
    ASSUME NEW Holder, AccountsTell(Holder)
    PROVE  Spec => []CursorsStayWithTheirBot
<1>1. CursorsTell(Holder) => CursorsStayWithTheirBot
  BY DEF CursorsTell, CursorsStayWithTheirBot
<1>2. QED
  BY <1>1, CursorsTellHolds, PTL
=============================================================================
