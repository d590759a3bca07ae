----------------------------- MODULE MCApprover -----------------------------
(***************************************************************************)
(* r1 (a single approval) and r2 (a batch of two) compete in conversation  *)
(* k1; before the first Init no conversation can be reached. The texts     *)
(* tell the parsers apart: "2" selects from the batch and denies r1.       *)
(***************************************************************************)
EXTENDS Approver

CONSTANTS r1, r2, k1, m1, m2

MCKeyOf == [r \in Requests |-> k1]
MCBatchN == [r \in Requests |-> IF r = r2 THEN 2 ELSE 0]

MCText(word, fields) == [word |-> word, fields |-> fields, comment |-> ""]
MCContents == {MCText("yes", <<>>), MCText("list", <<2>>)}
=============================================================================
