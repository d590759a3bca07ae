----------------------------- MODULE SessionId -----------------------------
(***************************************************************************)
(* How the plugin reads a session id out of a JSON object of the gateway:  *)
(* the fields it knows, in their order, and, when none is set, a search    *)
(* through everything nested in the object                                 *)
(* (internal/weixin/session_supplement.go, session_id_json.go, types.go).  *)
(*                                                                         *)
(* A document maps the paths of its objects to their members, <<>> being   *)
(* the outermost. A path names the member that holds the object and, in an *)
(* array, its place there (0 outside arrays). A member has a kind and, if  *)
(* it is not blank, an id. Go visits the members of an object in any       *)
(* order, so a search has a set of possible results.                       *)
(***************************************************************************)
EXTENDS Naturals, Sequences, SequencesExt

CONSTANT NoSession      \* ""

\* inboundSessionID's order; getConfigResp knows the first four.
MessageKeys ==
    <<"session_id", "sessionId", "SessionId", "mlink_session_id", "ilink_session_id",
      "chat_session_id", "conversation_id", "conv_id">>

ConfigKeys == SubSeq(MessageKeys, 1, 4)

\* Keys without a field of their own that sessionLikeJSONKey accepts; those that
\* only contain "session_id" are represented by one.
LooseKeys == {"session_key", "mlink_session", "ilink_session", "x_session_id_x"}

sessionLikeJSONKey == ToSet(MessageKeys) \cup LooseKeys

Step(key, at) == [key |-> key, at |-> at]

Member(kind, id) == [kind |-> kind, id |-> id]

jsonRawToSessionString(member) ==
    IF member.kind \in {"string", "number"} THEN member.id ELSE NoSession

\* A field of type string takes no number; session_id takes both. What does not
\* fit makes the whole answer an error.
Fits(object, strings) ==
    \A k \in DOMAIN object \cap strings : object[k].kind \in {"string", "null"}

MessageFits(object) ==
    /\ Fits(object, ToSet(MessageKeys) \ {"session_id"})
    /\ "session_id" \in DOMAIN object => object["session_id"].kind # "composite"

ConfigFits(object) == Fits(object, ToSet(ConfigKeys))

\* The id in the first of the known fields that is set; {} if none is.
coalesce(object, keys) ==
    LET set == {i \in DOMAIN keys :
                  /\ keys[i] \in DOMAIN object
                  /\ jsonRawToSessionString(object[keys[i]]) # NoSession}
    IN  {object[keys[i]].id : i \in {j \in set : \A k \in set : j <= k}}

IdsOf(object) ==
    {jsonRawToSessionString(object[k]) : k \in DOMAIN object \cap sessionLikeJSONKey}
        \ {NoSession}

\* An object is searched before those nested in it, and an array in its order:
\* what is found at p ends the search before it comes to q.
Before(p, q) ==
    \/ IsStrictPrefix(p, q)
    \/ \E i \in DOMAIN p \cap DOMAIN q :
          /\ SubSeq(p, 1, i - 1) = SubSeq(q, 1, i - 1)
          /\ p[i].key = q[i].key
          /\ p[i].at < q[i].at

findSessionInRawJSONMap(doc, root) ==
    LET hits == {p \in DOMAIN doc : IsPrefix(root, p) /\ IdsOf(doc[p]) # {}}
        found == UNION {IdsOf(doc[p]) : p \in {q \in hits : \A r \in hits : ~Before(r, q)}}
    IN  IF hits = {} THEN {NoSession} ELSE found

\* supplementWeixinSession: the search is for messages without a known field.
SessionsOfMessage(doc) ==
    IF coalesce(doc[<<>>], MessageKeys) # {}
    THEN coalesce(doc[<<>>], MessageKeys)
    ELSE findSessionInRawJSONMap(doc, <<>>)

sessionFromGetConfigRaw(doc) ==
    IF findSessionInRawJSONMap(doc, <<>>) # {NoSession}
    THEN findSessionInRawJSONMap(doc, <<>>)
    ELSE findSessionInRawJSONMap(doc, <<Step("data", 0)>>)

SessionsOfConfig(doc) ==
    IF coalesce(doc[<<>>], ConfigKeys) # {}
    THEN coalesce(doc[<<>>], ConfigKeys)
    ELSE sessionFromGetConfigRaw(doc)

\* Every id that occurs in a document under any key of the list.
IdsIn(doc) == UNION {IdsOf(doc[p]) : p \in DOMAIN doc}
=============================================================================
