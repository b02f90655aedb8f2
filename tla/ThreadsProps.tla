---------------------------- MODULE ThreadsProps ----------------------------
(***************************************************************************)
(* What the discussion core promises, over Threads.                        *)
(***************************************************************************)
EXTENDS Threads

Row(t) == IF t \in Posts THEN posts[t] ELSE comments[t]

\* The comment's path is its parent's path and its own id, its parent a comment
\* of the same post, and it is not among its own ancestors.
Placed(c) ==
  LET row == comments[c] IN
  /\ row.parent = None => row.path = <<c>>
  /\ row.parent # None =>
       /\ row.parent \in CommentsOf(row.post)
       /\ row.path = Append(comments[row.parent].path, c)
  /\ \A i \in 1..(Len(row.path) - 1) : row.path[i] # c

\* The two columns that place a comment, parent_comment_id and path, tell the
\* same acyclic story whatever interleaving wrote them (CreateComment,
\* ChildPath).
TreeShape == \A c \in ExistingComments : Placed(c)

\* comment_count never runs ahead of the comments there are, equals their
\* number on a post that was never edited however its comments interleaved,
\* and moves together with last_activity_at, which one of the post's own
\* comments set as soon as the count is positive (BumpPostActivity).
CountCoherent ==
  \A p \in ExistingPosts :
    LET n == Cardinality(CommentsOf(p)) IN
    /\ posts[p].count <= n
    /\ ~posts[p].edited => posts[p].count = n
    /\ posts[p].count = 0 <=> posts[p].bump = None
    /\ posts[p].bump # None => posts[p].bump \in CommentsOf(p)

\* The history an item keeps is anchored in what readers saw: one revision
\* per committed edit, the k-th of them holding one of the first k texts of
\* the item, so that the original text is never lost; the row shows the last
\* text; and edited_at is set exactly when there is a history (EditPost,
\* EditComment, CreateRevision).
HistoryAnchored ==
  \A t \in ExistingPosts \cup ExistingComments :
    /\ Len(versions[t]) = Len(revisions[t]) + 1
    /\ Row(t).body = versions[t][Len(versions[t])]
    /\ Row(t).edited <=> revisions[t] # << >>
    /\ \A k \in 1..Len(revisions[t]) :
         \E j \in 1..k : revisions[t][k] = versions[t][j]

\* An answer of GetThread can be rendered as a tree: although the post and its
\* comments are read by two statements, the post's comment_count never
\* exceeds the comments listed, every parent is listed before its replies,
\* and what stands between a comment and its descendant descends from it too
\* (GetThread, ListCommentsByPost).
ThreadSound ==
  \A r \in Requests : reqs[r].at = "thread" =>
    LET list == InPathOrder(reqs[r].found)
        IsUnder(c, a) == IsPrefix(comments[a].path, comments[c].path)
    IN
    /\ reqs[r].row.count <= Len(list)
    /\ \A i \in DOMAIN list :
         /\ comments[list[i]].parent # None =>
              \E j \in 1..(i - 1) : list[j] = comments[list[i]].parent
         /\ \A k \in i..Len(list) : IsUnder(list[k], list[i]) =>
              \A j \in i..k : IsUnder(list[j], list[i])

\* A deleted comment stays deleted, whatever edits of it were in flight, and
\* a deleted post comes back only through an edit that read it before the
\* deletion (SoftDeleteComment, SoftDeletePost, UpdatePost).
TombstonesStay ==
  [][/\ \A c \in ExistingComments :
          comments[c].deleted => comments'[c].deleted
     /\ \A p \in ExistingPosts :
          (posts[p].deleted /\ ~posts'[p].deleted) =>
            \E r \in Requests :
              /\ reqs[r].at = "editPost" /\ reqs[r].post = p
              /\ ~reqs[r].row.deleted
              /\ reqs'[r] = Idle]_vars

\* A comment that hangs somewhere is not one that nobody wrote.
ASSUME NoneIsNoPlace == None \notin [post : Posts, parent : Comments \cup {None}]

\* The comments table, read through the two columns readers navigate by, is
\* the abstract comment tree: replies that were checked against rows other
\* requests have changed since still join a comment of their own post, and no
\* stale write moves or revives a comment.
Tree == INSTANCE CommentTree WITH
  tree <- [c \in Comments |-> IF comments[c] = None THEN None
            ELSE [post |-> comments[c].post, parent |-> comments[c].parent]],
  dead <- {c \in ExistingComments : comments[c].deleted}

ImplementsCommentTree == Tree!Spec

-----------------------------------------------------------------------------
(***************************************************************************)
(* What the repository says and the code does not do.                      *)
(***************************************************************************)

\* PLANDOC.md:42 says "every edit is preserved and inspectable": every text an
\* item has had is its current one or in its history.
EveryEditPreserved ==
  \A t \in ExistingPosts \cup ExistingComments :
    \A i \in DOMAIN versions[t] :
      \/ versions[t][i] = Row(t).body
      \/ versions[t][i] \in ListRevisions(t)
=============================================================================
