----------------------------- MODULE MCOutbound -----------------------------
(* Small instances of Outbound for TLC. *)
EXTENDS Outbound, TLC

CONSTANTS
    u,          \* a user
    s1, s2      \* sends

R(kind, peer, inside, own, size, remote) ==
    [kind |-> kind, peer |-> peer, inside |-> inside, own |-> own, size |-> size,
     remote |-> remote]

\* A reply cut to two chunks, a prompt cut to one, and files inside and outside
\* a run, with and without a caption, all of one user.
MCRequests ==
    { R("reply", u, TRUE, TRUE, 4, FALSE),
      R("approval", u, FALSE, FALSE, 2, FALSE),
      R("file", u, TRUE, FALSE, 1, TRUE),
      R("file", u, FALSE, FALSE, 0, FALSE) }

\* Sends are told apart by what they send only.
SenderSymmetry == Permutations(Senders)

=============================================================================
