------------------------------ MODULE Threads ------------------------------
(***************************************************************************)
(* The discussion core: posts, the comment trees under them, edits with    *)
(* their revision history, tombstones and board archival, as ThreadService *)
(* (api/internal/csilservices/thread.go) drives them through the content   *)
(* and store packages.                                                     *)
(*                                                                         *)
(* Every call is a request that runs concurrently with the others, in this *)
(* process or another one, inside one READ COMMITTED transaction.  Such a  *)
(* transaction sees, statement by statement, what others have committed,   *)
(* and shows its own writes only at its commit; a row it updates is locked *)
(* until then.  A request is therefore one action per statement that reads *)
(* and one last action for its writes and its commit, and between two of   *)
(* them any other request may commit.                                      *)
(*                                                                         *)
(* A request whose first read already refuses it changes nothing: it is a  *)
(* stuttering step and has no action here.                                 *)
(***************************************************************************)
EXTENDS Naturals, SequencesExt

CONSTANTS Users,        \* callers with a session
          Moderators,   \* admins, and the board's maintainers and moderators
          Boards,
          Posts,        \* ids the database can give to posts
          Comments,     \* ids NewCommentID can mint, ordered like their bytes
          Bodies,       \* texts (of a post: title and body together)
          Requests,     \* requests in flight at the same time
          None,         \* SQL NULL, and the absent row
          MaxRevisions, \* bound on the edits of one item
          Ops           \* the operations callers use in this behavior

ASSUME ThreadsAssumption ==
  /\ Comments \subseteq Nat
  /\ IsFiniteSet(Comments)
  /\ None \notin Comments
  /\ Posts \cap Comments = {}

VARIABLES archived,  \* boards with archived_at set
          posts,     \* the posts table
          comments,  \* the comments table
          revisions, \* prev_body_md of each item's revisions, oldest first
          reqs,      \* what each request has read so far
          versions   \* history variable: every text an item has ever had

vars == <<archived, posts, comments, revisions, reqs, versions>>
rows == <<archived, posts, comments, revisions, versions>>

Targets == Posts \cup Comments

\* `bump` names the comment whose creation set last_activity_at; None stands
\* for the post's own creation.
PostRow == [board : Boards, author : Users, body : Bodies, count : Nat,
            bump : Comments \cup {None}, edited : BOOLEAN, deleted : BOOLEAN]

CommentRow == [post : Posts, parent : Comments \cup {None},
               path : Seq(Comments), author : Users, body : Bodies,
               edited : BOOLEAN, deleted : BOOLEAN]

\* NULL is no row.
ASSUME NoneIsNoRow == None \notin PostRow \cup CommentRow

Idle == [at |-> "idle"]

Request ==
  {Idle}
  \cup [at : {"createPost"}, user : Users, board : Boards]
  \cup [at : {"readBoard", "readParent", "insertComment"}, user : Users,
        post : Posts, board : Boards, parent : Comments \cup {None},
        path : Seq(Comments)]
  \cup [at : {"editPost"}, post : Posts, row : PostRow]
  \cup [at : {"editComment"}, comment : Comments, row : CommentRow]
  \cup [at : {"deletePost"}, post : Posts]
  \cup [at : {"deleteComment"}, comment : Comments]
  \cup [at : {"listComments"}, post : Posts, row : PostRow]
  \cup [at : {"thread"}, post : Posts, row : PostRow, found : SUBSET Comments]

TypeOK ==
  /\ archived \subseteq Boards
  /\ posts \in [Posts -> PostRow \cup {None}]
  /\ comments \in [Comments -> CommentRow \cup {None}]
  /\ revisions \in [Targets -> Seq(Bodies)]
  /\ reqs \in [Requests -> Request]
  /\ versions \in [Targets -> Seq(Bodies)]

ExistingPosts == {p \in Posts : posts[p] # None}
ExistingComments == {c \in Comments : comments[c] # None}

CommentsOf(p) == {c \in ExistingComments : comments[c].post = p}

Init ==
  /\ archived = {}
  /\ posts = [p \in Posts |-> None]
  /\ comments = [c \in Comments |-> None]
  /\ revisions = [t \in Targets |-> << >>]
  /\ reqs = [r \in Requests |-> Idle]
  /\ versions = [t \in Targets |-> << >>]

\* Request r, not busy, is used for operation op.
Starts(r, op) == reqs[r] = Idle /\ op \in Ops
Goes(r, state) == reqs' = [reqs EXCEPT ![r] = state]
Ends(r) == Goes(r, Idle)

-----------------------------------------------------------------------------
\* Creating posts and comments.

\* CreatePost reads the board and refuses an archived one ...
CreatePostReadBoard(r) ==
  /\ Starts(r, "CreatePost")
  /\ \E u \in Users, b \in Boards \ archived :
       Goes(r, [at |-> "createPost", user |-> u, board |-> b])
  /\ UNCHANGED rows

\* ... then inserts the row; the id comes from the column's default.
CreatePost(r) ==
  /\ reqs[r].at = "createPost"
  /\ \E p \in Posts \ ExistingPosts, body \in Bodies :
       /\ posts' = [posts EXCEPT ![p] =
            [board |-> reqs[r].board, author |-> reqs[r].user, body |-> body,
             count |-> 0, bump |-> None, edited |-> FALSE, deleted |-> FALSE]]
       /\ versions' = [versions EXCEPT ![p] = <<body>>]
  /\ Ends(r)
  /\ UNCHANGED <<archived, comments, revisions>>

\* Mutant: every comment starts a path of its own.
TopPath(parentPath, id) == <<id>>

\* The path of a comment is its parent's path and its own id.
ChildPath(parentPath, id) == Append(parentPath, id)

\* CreateComment reads the post, which must not be deleted ...
CreateCommentReadPost(r) ==
  /\ Starts(r, "CreateComment")
  /\ \E u \in Users, p \in ExistingPosts, c \in Comments \cup {None} :
       /\ ~posts[p].deleted
       /\ Goes(r, [at |-> "readBoard", user |-> u, post |-> p,
                   board |-> posts[p].board, parent |-> c, path |-> << >>])
  /\ UNCHANGED rows

\* ... then its board, which must not be archived ...
CreateCommentReadBoard(r) ==
  /\ reqs[r].at = "readBoard"
  /\ IF reqs[r].board \in archived
     THEN Ends(r)
     ELSE Goes(r, [reqs[r] EXCEPT !.at =
            IF reqs[r].parent = None THEN "insertComment" ELSE "readParent"])
  /\ UNCHANGED rows

\* ... then the parent, if the reply names one: an undeleted comment of the
\* same post, whose path is kept ...
CreateCommentReadParent(r) ==
  /\ reqs[r].at = "readParent"
  /\ LET parent == reqs[r].parent IN
     IF /\ parent \in CommentsOf(reqs[r].post)
        /\ ~comments[parent].deleted
     THEN Goes(r, [reqs[r] EXCEPT !.at = "insertComment",
                                  !.path = comments[parent].path])
     ELSE Ends(r)
  /\ UNCHANGED rows

\* Mutant: the UPDATE takes one off, like an undo.
BumpedDown(row, c) == [row EXCEPT !.count = @ - 1, !.bump = c]

\* BumpPostActivity: one UPDATE that adds 1 to the stored count and stamps
\* the activity.
Bumped(row, c) == [row EXCEPT !.count = @ + 1, !.bump = c]

\* ... and mints an id, inserts the comment and bumps the post, in one commit.
CreateComment(r) ==
  /\ reqs[r].at = "insertComment"
  /\ \E c \in Comments \ ExistingComments, body \in Bodies :
       /\ comments' = [comments EXCEPT ![c] =
            [post |-> reqs[r].post, parent |-> reqs[r].parent,
             path |-> ChildPath(reqs[r].path, c), author |-> reqs[r].user,
             body |-> body, edited |-> FALSE, deleted |-> FALSE]]
       /\ posts' = [posts EXCEPT ![reqs[r].post] = Bumped(@, c)]
       /\ versions' = [versions EXCEPT ![c] = <<body>>]
  /\ Ends(r)
  /\ UNCHANGED <<archived, revisions>>

-----------------------------------------------------------------------------
\* Editing: the author only, and nothing deleted.  An edit writes the text it
\* read into the history and the new text into the row.

\* Mutant: one history row per item, replaced by every edit.
ReplaceRevision(t, prev) ==
  revisions' = [revisions EXCEPT ![t] = <<prev>>]

\* The snapshot an edit takes of the text it read.
CreateRevision(t, prev) ==
  revisions' = [revisions EXCEPT ![t] = Append(@, prev)]

EditPostRead(r) ==
  /\ Starts(r, "EditPost")
  /\ \E u \in Users, p \in ExistingPosts :
       /\ ~posts[p].deleted
       /\ posts[p].author = u
       /\ Goes(r, [at |-> "editPost", post |-> p, row |-> posts[p]])
  /\ UNCHANGED rows

\* Mutant: the edit does not stamp edited_at.
UpdatePostUnmarked(row, body) == [row EXCEPT !.body = body]

\* UpdatePost saves every column of the row as EditPost read it, except the
\* three it changed.
UpdatePost(row, body) == [row EXCEPT !.body = body, !.edited = TRUE]

EditPost(r) ==
  /\ reqs[r].at = "editPost"
  /\ LET p == reqs[r].post IN
     \E body \in Bodies :
       /\ Len(revisions[p]) < MaxRevisions
       /\ posts' = [posts EXCEPT ![p] = UpdatePost(reqs[r].row, body)]
       /\ CreateRevision(p, reqs[r].row.body)
       /\ versions' = [versions EXCEPT ![p] = Append(@, body)]
  /\ Ends(r)
  /\ UNCHANGED <<archived, comments>>

EditCommentRead(r) ==
  /\ Starts(r, "EditComment")
  /\ \E u \in Users, c \in ExistingComments :
       /\ ~comments[c].deleted
       /\ comments[c].author = u
       /\ Goes(r, [at |-> "editComment", comment |-> c, row |-> comments[c]])
  /\ UNCHANGED rows

\* Mutant: the comment is saved whole, as it was read.
SaveComment(stored, read, body) ==
  [read EXCEPT !.body = body, !.edited = TRUE]

\* UpdateCommentBody writes its two columns and leaves the others as they
\* are stored.
UpdateCommentBody(stored, read, body) ==
  [stored EXCEPT !.body = body, !.edited = TRUE]

EditComment(r) ==
  /\ reqs[r].at = "editComment"
  /\ LET c == reqs[r].comment IN
     \E body \in Bodies :
       /\ Len(revisions[c]) < MaxRevisions
       /\ comments' = [comments EXCEPT ![c] =
                         UpdateCommentBody(@, reqs[r].row, body)]
       /\ CreateRevision(c, reqs[r].row.body)
       /\ versions' = [versions EXCEPT ![c] = Append(@, body)]
  /\ Ends(r)
  /\ UNCHANGED <<archived, posts>>

-----------------------------------------------------------------------------
\* Tombstones and archival.

CanModerateBoard(u, author) == u = author \/ u \in Moderators

DeletePostRead(r) ==
  /\ Starts(r, "DeletePost")
  /\ \E u \in Users, p \in ExistingPosts :
       /\ CanModerateBoard(u, posts[p].author)
       /\ ~posts[p].deleted
       /\ Goes(r, [at |-> "deletePost", post |-> p])
  /\ UNCHANGED rows

\* SoftDeletePost sets deleted_at only.
DeletePost(r) ==
  /\ reqs[r].at = "deletePost"
  /\ posts' = [posts EXCEPT ![reqs[r].post].deleted = TRUE]
  /\ Ends(r)
  /\ UNCHANGED <<archived, comments, revisions, versions>>

DeleteCommentRead(r) ==
  /\ Starts(r, "DeleteComment")
  /\ \E u \in Users, c \in ExistingComments :
       /\ CanModerateBoard(u, comments[c].author)
       /\ ~comments[c].deleted
       /\ Goes(r, [at |-> "deleteComment", comment |-> c])
  /\ UNCHANGED rows

\* Mutant: a tombstone is detached from its parent.
DetachComment(row) == [row EXCEPT !.deleted = TRUE, !.parent = None]

\* SoftDeleteComment sets deleted_at only.
SoftDeleteComment(row) == [row EXCEPT !.deleted = TRUE]

DeleteComment(r) ==
  /\ reqs[r].at = "deleteComment"
  /\ comments' = [comments EXCEPT ![reqs[r].comment] = SoftDeleteComment(@)]
  /\ Ends(r)
  /\ UNCHANGED <<archived, posts, revisions, versions>>

\* ArchiveBoard is one conditional UPDATE; nothing ever clears archived_at.
ArchiveBoard ==
  /\ "ArchiveBoard" \in Ops
  /\ \E b \in Boards \ archived : archived' = archived \cup {b}
  /\ UNCHANGED <<posts, comments, revisions, reqs, versions>>

-----------------------------------------------------------------------------
\* Reading.

\* ltree order: label by label, a prefix before what extends it.
PathBefore(a, b) ==
  \/ IsStrictPrefix(a, b)
  \/ \E i \in DOMAIN a \cap DOMAIN b :
       a[i] < b[i] /\ \A j \in 1..(i - 1) : a[j] = b[j]

\* What was found, in the order of a comparison: k - 1 of it is before the k-th.
InOrder(found, Before(_, _)) ==
  [k \in 1..Cardinality(found) |->
     CHOOSE c \in found : Cardinality({d \in found : Before(d, c)}) = k - 1]

\* Mutant: the answer is sorted by id, as a primary key scan would return it.
InIdOrder(found) == InOrder(found, LAMBDA c, d : c < d)

\* ListCommentsByPost: every comment of the post, tombstones too, by path.
InPathOrder(found) ==
  InOrder(found, LAMBDA c, d : PathBefore(comments[c].path, comments[d].path))

\* GetThread reads the post, deleted or not, then its comments; there is no
\* transaction around the two.  The answer lists what was found in path order
\* (InPathOrder: paths never change, so the order is taken when it is needed).
GetThreadReadPost(r) ==
  /\ Starts(r, "GetThread")
  /\ \E p \in ExistingPosts :
       Goes(r, [at |-> "listComments", post |-> p, row |-> posts[p]])
  /\ UNCHANGED rows

GetThread(r) ==
  /\ reqs[r].at = "listComments"
  /\ Goes(r, [at |-> "thread", post |-> reqs[r].post, row |-> reqs[r].row,
              found |-> CommentsOf(reqs[r].post)])
  /\ UNCHANGED rows

\* ListRevisions: the snapshots any reader is given for an item.  They come
\* sorted by created_at, which overlapping edits need not share with their
\* commits: only what is in the answer is modelled.
ListRevisions(t) == ToSet(revisions[t])

\* The caller has its answer, or the request fails: its context is cancelled,
\* the connection or the process is lost.  The transaction rolls back.
Finish(r) ==
  /\ reqs[r] # Idle
  /\ Ends(r)
  /\ UNCHANGED rows

-----------------------------------------------------------------------------
Next ==
  \/ \E r \in Requests :
       \/ CreatePostReadBoard(r) \/ CreatePost(r)
       \/ CreateCommentReadPost(r) \/ CreateCommentReadBoard(r)
       \/ CreateCommentReadParent(r) \/ CreateComment(r)
       \/ EditPostRead(r) \/ EditPost(r)
       \/ EditCommentRead(r) \/ EditComment(r)
       \/ DeletePostRead(r) \/ DeletePost(r)
       \/ DeleteCommentRead(r) \/ DeleteComment(r)
       \/ GetThreadReadPost(r) \/ GetThread(r)
       \/ Finish(r)
  \/ ArchiveBoard

Spec == Init /\ [][Next]_vars
=============================================================================
