-------------------------------- MODULE Config --------------------------------
(***************************************************************************)
(* What the plugin makes of its configuration (internal/weixin/config.go): *)
(* each bot's row inherits what it lacks from the root, the credentials    *)
(* file it names overlays it, and the rows are validated together. A row   *)
(* is a function on the JSON keys, named as in the code; Unset is an empty *)
(* string or list.                                                         *)
(***************************************************************************)
EXTENDS Naturals, Sequences

CONSTANTS
    Unset,
    Torn,        \* a credentials file that is missing or is no JSON
    UnsafeIds,   \* ids SanitizeLoginID refuses
    Absolute     \* paths that do not depend on config_base_dir

FileKeys == {"gateway_base_url", "cdn_base_url", "token", "account_id"}

RootKeys ==
    FileKeys \cup {"credentials_path", "sk_route_tag", "channel_version", "allow_from"}

BotKeys == RootKeys \cup {"id"}

NoFile == [k \in FileKeys |-> Unset]

\* Where cursor files lie: beside the configuration or, without a directory for
\* it, in the user's cache.
cursorDir(dir) == IF dir = Unset THEN <<"cache", "dmr-weixin">> ELSE <<dir, ".dmr-weixin">>

-----------------------------------------------------------------------------
(* Faulty variants, used only to show that the properties can fail *)

\* The token is not checked.
validateWithoutToken(rows) ==
    \A i \in DOMAIN rows : rows[i]["gateway_base_url"] # Unset

\* A credentials file that cannot be read is passed over.
ReadingsOrNone(row, dir, files) ==
    LET path == <<dir, row["credentials_path"]>>
    IN  {IF row["credentials_path"] = Unset \/ files[path] = Torn THEN NoFile ELSE files[path]}

\* One cursor file in a directory.
sharedSyncBufPath(dir, bot) == <<cursorDir(dir), "default">>

-----------------------------------------------------------------------------
(* finalizeWeixinConfig and the paths *)

\* The rows to work on: a configuration without bots has one, empty.
RowsOf(config) ==
    IF config.bots = <<>> THEN <<[k \in BotKeys |-> Unset]>> ELSE config.bots

inheritLegacyIntoBot(row, root) ==
    [k \in BotKeys |-> IF k \in RootKeys /\ row[k] = Unset THEN root[k] ELSE row[k]]

\* "~/" and absolute paths stand for themselves.
resolveExtraPromptPath(path, dir) ==
    IF path \in Absolute THEN <<"/", path>> ELSE <<dir, path>>

\* What reading a row's credentials file yields: nothing when that is an error.
Readings(row, dir, files) ==
    IF row["credentials_path"] = Unset THEN {NoFile}
    ELSE {files[resolveExtraPromptPath(row["credentials_path"], dir)]} \ {Torn}

mergeWeixinCredentialsBot(row, file) ==
    [k \in BotKeys |-> IF k \in FileKeys /\ file[k] # Unset THEN file[k] ELSE row[k]]

WithDefaultAccount(row) ==
    [row EXCEPT !["account_id"] = IF @ = Unset THEN "default" ELSE @]

\* A row after its round of finalizeWeixinConfig's loop; none on an error.
FinalizedRows(row, config, files) ==
    LET full == inheritLegacyIntoBot(row, config.root)
    IN  {WithDefaultAccount(mergeWeixinCredentialsBot(full, file)) :
            file \in IF row["id"] \in UnsafeIds THEN {}
                     ELSE Readings(full, config.config_base_dir, files)}

validateWeixinBots(rows) ==
    /\ \A i \in DOMAIN rows :
         rows[i]["gateway_base_url"] # Unset /\ rows[i]["token"] # Unset
    /\ Len(rows) > 1 => \A i, j \in DOMAIN rows :
         rows[i]["id"] # Unset /\ (rows[i]["id"] = rows[j]["id"] => i = j)

\* The root shows the first bot's settings, for code that reads only those.
Mirrored(config, rows) ==
    [config EXCEPT !.bots = rows, !.root = [k \in RootKeys |-> rows[1][k]]]

\* The file of a bot's cursor, named after its account.
syncBufPath(dir, bot) == <<cursorDir(dir), bot["account_id"]>>
=============================================================================
