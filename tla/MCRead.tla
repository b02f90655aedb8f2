------------------------------- MODULE MCRead -------------------------------
(***************************************************************************)
(* One post, shared with a second board, two comments, of which the second *)
(* may reply to the first, and two mark-read requests in flight.           *)
(***************************************************************************)
EXTENDS ReadProps, TLC

CONSTANTS reader, writer, home, other, post

MCAuthorOf == [p \in Posts |-> writer]
MCHomeOf == [p \in Posts |-> home]
MCSharedTo == [p \in Posts |-> {other}]

SameRequests == Permutations(Requests)
=============================================================================
