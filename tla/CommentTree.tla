---------------------------- MODULE CommentTree ----------------------------
(***************************************************************************)
(* What readers are promised about the shape of a discussion (csil/        *)
(* firepit.csil, ThreadService: "deletes are soft (tombstones keep thread  *)
(* shape)"), with no request, row or transaction in sight: comments join   *)
(* one at a time under a comment of their own post or at its top level,    *)
(* they never move or leave, and a tombstone is for ever.                  *)
(***************************************************************************)
CONSTANTS Posts, Comments, None

VARIABLES tree, \* where each comment hangs, None for one nobody wrote
          dead  \* the tombstones

treeVars == <<tree, dead>>

Written == {c \in Comments : tree[c] # None}

Init ==
  /\ tree = [c \in Comments |-> None]
  /\ dead = {}

\* Comment c joins post p, under the comment `parent` or at top level.
Join(c, p, parent) ==
  /\ c \in Comments \ Written
  /\ parent # None => parent \in Written /\ tree[parent].post = p
  /\ tree' = [tree EXCEPT ![c] = [post |-> p, parent |-> parent]]
  /\ dead' = dead

Bury(c) ==
  /\ c \in Written
  /\ dead' = dead \cup {c}
  /\ tree' = tree

Next ==
  \/ \E c \in Comments, p \in Posts, parent \in Comments \cup {None} :
       Join(c, p, parent)
  \/ \E c \in Comments : Bury(c)

Spec == Init /\ [][Next]_treeVars
=============================================================================
