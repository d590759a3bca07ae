------------------------------ MODULE MCRouting ------------------------------
(***************************************************************************)
(* Two bot ids of which one begins the other, and users whose ids contain  *)
(* the rest of it or the words the tape format is made of.                 *)
(***************************************************************************)
EXTENDS Routing

MCLetters == {"weixin", "p2p", ":", "RS", "|", "a", "b", "u", "v", "mid", "1"}

MCLabels == {<<"a">>, <<"a", "b">>}
MCPeers  == {<<"u">>, <<"b", "u">>, <<"p2p", ":", "u">>, <<"u", ":", "p2p", ":", "v">>}
MCMsgIds == {<<"mid", ":", "1">>}

\* An id SanitizeLoginID accepts as well.
MCLabelsP2P == {<<"a">>, <<"p2p">>}
=============================================================================
