---------------------------- MODULE ApprovalReply ----------------------------
(***************************************************************************)
(* How the approver reads a chat message as an answer                      *)
(* (internal/weixin/approver.go, parseApprovalChoice,                      *)
(* parseBatchApprovalChoice and parseApprovalIndices).                     *)
(*                                                                         *)
(* A message is a record: `word` is its lower-cased, trimmed text before   *)
(* "//" when that is one of the words the code knows, "" when it is empty, *)
(* "list" when it is all digits or has a comma, and "text" otherwise;      *)
(* `fields` are the comma-separated fields of a list, 0 for one that is    *)
(* not a positive number; `comment` is what follows "//".                  *)
(***************************************************************************)
EXTENDS Naturals, Sequences

Words == {"", "y", "yes", "s", "session", "a", "always", "n", "no", "list", "text"}

choiceDenied         == 0
choiceApprovedOnce   == 1
choiceApprovedSess   == 2
choiceApprovedAlways == 3

Choices == choiceDenied .. choiceApprovedAlways

\* approvalReply: no indices (nil) is the empty sequence.
Reply(choice, indices, comment) ==
    [choice |-> choice, indices |-> indices, comment |-> comment]

DeniedReply == Reply(choiceDenied, <<>>, "")

\* The words both parsers map to a choice; any other word denies.
WordChoice(word) ==
    CASE word \in {"y", "yes"}     -> choiceApprovedOnce
      [] word \in {"s", "session"} -> choiceApprovedSess
      [] word \in {"a", "always"}  -> choiceApprovedAlways
      [] OTHER                     -> choiceDenied

parseApprovalChoice(content) ==
    Reply(WordChoice(content.word), <<>>, content.comment)

ValidIndices(fields, total) ==
    fields # <<>> /\ \A i \in DOMAIN fields : fields[i] \in 1 .. total

\* Zero-based positions of the 1-based fields.
parseApprovalIndices(fields) == [i \in DOMAIN fields |-> fields[i] - 1]

\* One bad field denies the whole list.
parseBatchApprovalChoice(content, total) ==
    IF content.word = "list" /\ ValidIndices(content.fields, total)
    THEN Reply(choiceApprovedOnce, parseApprovalIndices(content.fields), content.comment)
    ELSE Reply(WordChoice(content.word), <<>>, content.comment)

\* tryResolveApproval: batchN = 0 marks the wait of a single approval.
ReadAs(content, batchN) ==
    IF batchN = 0 THEN parseApprovalChoice(content)
                  ELSE parseBatchApprovalChoice(content, batchN)
=============================================================================
