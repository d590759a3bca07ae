------------------------------ MODULE MCInbound ------------------------------
(***************************************************************************)
(* Two users, one of them not permitted. Their messages cover every branch *)
(* of the handler: with and without token, with and without id, with their *)
(* session id in a known field, nested, under several keys, or missing. A  *)
(* quote whose download fails does what a quote without an address does.   *)
(***************************************************************************)
EXTENDS Inbound, TLC

CONSTANTS u, v, s1, s2, s3

Shape(p, kind, token, key, json) ==
    [peer |-> p, kind |-> kind, token |-> token, key |-> key, json |-> json]

Config(p, json) == [peer |-> p, json |-> json]

\* {}
Bare == <<>> :> <<>>

\* {"session_id": 1}
Plain == <<>> :> ("session_id" :> Member("number", s1))

\* {"session_id": "", "list": [{"x": {"session_id": s1}}, {"conv_id": s2}],
\*  "base": {"mlink_session": s2, "session_key": true}}
Nested ==
    <<>> :> ("session_id" :> Member("string", NoSession))
    @@ <<Step("list", 1)>> :> <<>>
    @@ <<Step("list", 1), Step("x", 0)>> :> ("session_id" :> Member("string", s1))
    @@ <<Step("list", 2)>> :> ("conv_id" :> Member("string", s2))
    @@ <<Step("base", 0)>> :> ("mlink_session" :> Member("string", s2)
                               @@ "session_key" :> Member("composite", NoSession))

\* {"data": {"sessionId": s2}}
InData ==
    <<>> :> <<>>
    @@ <<Step("data", 0)>> :> ("sessionId" :> Member("string", s2))

\* {"conversation_id": s3}
Foreign == <<>> :> ("conversation_id" :> Member("string", s3))

MCJson == [bare |-> Bare, plain |-> Plain, nested |-> Nested, data |-> InData,
           foreign |-> Foreign]

\* "plain" is an answer that getconfig cannot decode.
MCConfigs == {Config(u, "data"), Config(u, "plain"), Config(v, "bare")}

MCShapes == {Shape(u, "text", TRUE, TRUE, "nested"), Shape(u, "text", FALSE, FALSE, "bare"),
             Shape(u, "media", FALSE, TRUE, "bare"), Shape(u, "quote", FALSE, TRUE, "plain"),
             Shape(v, "text", TRUE, TRUE, "foreign"), Shape(v, "media", FALSE, TRUE, "bare")}

\* Texts of one user only, to fill the queue.
MCTexts == {Shape(u, "text", TRUE, TRUE, "bare")}
=============================================================================
