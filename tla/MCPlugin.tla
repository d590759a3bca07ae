------------------------------- MODULE MCPlugin -------------------------------
(* A directory and none, two identities, credentials that change with a login. *)
EXTENDS Plugin

MCValues == {"url", "file", "t1", "t2", "t3", "x", "y", "default"}

\* t3 is the token of x after another login.
MCOwner == [v \in MCValues |-> IF v = "t2" THEN "y" ELSE "x"]

Keys(keys, given) == [k \in keys |-> IF k \in DOMAIN given THEN given[k] ELSE Unset]

BotX ==
    Keys(BotKeys, [id |-> "x", credentials_path |-> "file", token |-> "t1", account_id |-> "x"])
BotY == Keys(BotKeys, [id |-> "y", token |-> "t2", account_id |-> "y"])

Config(dir, prompt, rows, root) ==
    [config_base_dir |-> dir, extra_prompt_file |-> prompt, bots |-> rows,
     root |-> Keys(RootKeys, root)]

Url == [gateway_base_url |-> "url"]

MCConfigs == {
    Config("d1", Unset, <<BotX, BotY>>, Url),
    Config(Unset, "file", <<>>, [gateway_base_url |-> "url", token |-> "t2", account_id |-> "y"]),
    Config("d1", Unset, <<[BotY EXCEPT !["token"] = Unset]>>, Url),
    Config(Unset, Unset, <<[BotY EXCEPT !["id"] = "url"]>>, Url) }

MCLoginFiles == {<<"d1", "file">>}

Login(token, account) == Keys(FileKeys, [token |-> token, account_id |-> account])

MCContents == {Login("t1", "x"), Login("t3", "x")}

\* The accounts are named for the identities here.
ASSUME AccountsTell([v \in MCValues |-> IF v = "y" THEN "y" ELSE "x"])

\* Both rows have an account and a token; the root names a credentials file.
RootFile == {
    Config("d1", Unset,
        <<[BotY EXCEPT !["id"] = "x", !["token"] = "t1", !["account_id"] = "x"], BotY>>,
        [gateway_base_url |-> "url", credentials_path |-> "file"]) }
=============================================================================
