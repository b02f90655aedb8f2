---------------------------- MODULE ThreadsProofs ----------------------------
(***************************************************************************)
(* Proofs about Threads.  Everything rests on one inductive invariant,     *)
(* Inv: besides the types and the shape of the tree it says what a request *)
(* may rely on although the tables moved on since it read them             *)
(* (Justified).                                                            *)
(***************************************************************************)
EXTENDS ThreadsProps, SequenceTheorems, FiniteSetTheorems,
        WellFoundedInduction, TLAPS

\* The paths of the tree name comments that exist.
PathsExist ==
  \A c \in ExistingComments :
    \A i \in 1..Len(comments[c].path) : comments[c].path[i] \in ExistingComments

\* What stays true of a request's reads until it uses them: rows are never
\* removed, and a comment's place never changes.
Justified(req) ==
  /\ req.at \in {"readBoard", "readParent", "insertComment", "editPost",
                 "deletePost", "listComments", "thread"}
       => req.post \in ExistingPosts
  /\ req.at \in {"editComment", "deleteComment"}
       => req.comment \in ExistingComments
  /\ req.at \in {"readBoard", "readParent"} => req.path = << >>
  /\ req.at = "insertComment" =>
       IF req.parent = None
       THEN req.path = << >>
       ELSE /\ req.parent \in CommentsOf(req.post)
            /\ req.path = comments[req.parent].path

Inv ==
  /\ TypeOK
  /\ TreeShape
  /\ PathsExist
  /\ \A r \in Requests : Justified(reqs[r])

\* The tables only grow, and no comment changes its place.
Grows ==
  /\ ExistingPosts \subseteq ExistingPosts'
  /\ \A c \in ExistingComments :
       /\ c \in ExistingComments'
       /\ comments'[c].post = comments[c].post
       /\ comments'[c].parent = comments[c].parent
       /\ comments'[c].path = comments[c].path

-----------------------------------------------------------------------------
\* What a request carries, by the state it is in.
LEMMA RequestFields ==
  ASSUME NEW req \in Request
  PROVE  /\ req.at = "createPost" => req.user \in Users /\ req.board \in Boards
         /\ req.at \in {"readBoard", "readParent", "insertComment"} =>
              req \in [at : {"readBoard", "readParent", "insertComment"},
                      user : Users, post : Posts, board : Boards,
                      parent : Comments \cup {None}, path : Seq(Comments)]
         /\ req.at \in {"editPost", "listComments"} =>
              req.post \in Posts /\ req.row \in PostRow
         /\ req.at = "thread" => req.post \in Posts
         /\ req.at = "editComment" =>
              req.comment \in Comments /\ req.row \in CommentRow
         /\ req.at = "deletePost" => req.post \in Posts
         /\ req.at = "deleteComment" => req.comment \in Comments
<1> USE DEF Request, Idle
<1>1. req.at = "createPost" => req.user \in Users /\ req.board \in Boards
  OBVIOUS
<1>2. req.at \in {"readBoard", "readParent", "insertComment"} =>
        req \in [at : {"readBoard", "readParent", "insertComment"},
                user : Users, post : Posts, board : Boards,
                parent : Comments \cup {None}, path : Seq(Comments)]
  OBVIOUS
<1>3. req.at \in {"editPost", "listComments"} =>
        req.post \in Posts /\ req.row \in PostRow
  OBVIOUS
<1>4. req.at = "editComment" =>
        req.comment \in Comments /\ req.row \in CommentRow
  OBVIOUS
<1>5. req.at = "deletePost" => req.post \in Posts
  OBVIOUS
<1>6. req.at = "deleteComment" => req.comment \in Comments
  OBVIOUS
<1>7. req.at = "thread" => req.post \in Posts
  OBVIOUS
<1> QED
  BY <1>1, <1>2, <1>3, <1>4, <1>5, <1>6, <1>7

\* A justified request stays justified while the tables grow.
LEMMA GrowthKeepsJustified ==
  ASSUME Grows, NEW req, Justified(req)
  PROVE  Justified(req)'
  BY DEF Grows, Justified, CommentsOf

\* A step that moves one request to a state its reads justify and only lets
\* the tables grow keeps every request justified.
LEMMA StepKeepsJustified ==
  ASSUME Inv, Grows, NEW r \in Requests, NEW state, Goes(r, state),
         Justified(state)'
  PROVE  \A q \in Requests : Justified(reqs[q])'
<1> SUFFICES ASSUME NEW q \in Requests PROVE Justified(reqs[q])'
  OBVIOUS
<1>1. reqs'[q] = IF q = r THEN state ELSE reqs[q]
  BY DEF Goes, Inv, TypeOK
<1>2. Justified(reqs[q])
  BY DEF Inv
<1>3. CASE q = r
  BY <1>1, <1>3 DEF Justified
<1>4. CASE q # r
  <2>1. Justified(reqs[q]) /\ reqs'[q] = reqs[q]
    BY <1>1, <1>2, <1>4
  <2> QED
    BY <2>1 DEF Justified, Grows, CommentsOf
<1> QED
  BY <1>3, <1>4

\* A comment that is in its place stays there while the tables grow.
LEMMA GrowthKeepsPlaced ==
  ASSUME Grows, NEW c \in ExistingComments, Placed(c)
  PROVE  Placed(c)'
<1>1. /\ comments'[c].post = comments[c].post
      /\ comments'[c].parent = comments[c].parent
      /\ comments'[c].path = comments[c].path
  BY DEF Grows
<1>2. ASSUME comments[c].parent # None
      PROVE  /\ comments[c].parent \in ExistingComments'
             /\ comments'[comments[c].parent].post = comments[c].post
             /\ comments'[c].path =
                  Append(comments'[comments[c].parent].path, c)
  BY <1>1, <1>2 DEF Placed, CommentsOf, Grows
<1> QED
  BY <1>1, <1>2 DEF Placed, CommentsOf

\* A step that adds no comment and moves none keeps the tree.
LEMMA SamePlacesKeepTree ==
  ASSUME Inv, Grows, ExistingComments' = ExistingComments
  PROVE  TreeShape' /\ PathsExist'
<1>1. TreeShape'
  BY GrowthKeepsPlaced DEF Inv, TreeShape
<1>2. PathsExist'
  BY DEF Inv, PathsExist, Grows
<1> QED
  BY <1>1, <1>2

\* A request that only reads keeps Inv.
LEMMA ReadKeepsInv ==
  ASSUME Inv, NEW r \in Requests, NEW state \in Request,
         Goes(r, state), UNCHANGED rows, Justified(state)
  PROVE  Inv'
<1>1. TypeOK'
  BY DEF Inv, TypeOK, Goes, rows
<1>2. Grows /\ ExistingComments' = ExistingComments
  BY DEF rows, Grows, ExistingPosts, ExistingComments
<1>3. Justified(state)'
  BY <1>2, GrowthKeepsJustified
<1> QED
  BY <1>1, <1>2, <1>3, SamePlacesKeepTree, StepKeepsJustified DEF Inv

\* A request that ends with a write adding no comment keeps Inv, if the write
\* keeps the types and the places.
LEMMA WriteKeepsInv ==
  ASSUME Inv, NEW r \in Requests, Ends(r), TypeOK', Grows,
         ExistingComments' = ExistingComments
  PROVE  Inv'
<1>1. Justified(Idle)'
  BY DEF Justified, Idle
<1> QED
  BY <1>1, SamePlacesKeepTree, StepKeepsJustified DEF Inv, Ends

\* Ends(r) keeps the type of reqs.
LEMMA EndsType ==
  ASSUME TypeOK, NEW r \in Requests, Ends(r)
  PROVE  reqs' \in [Requests -> Request]
  BY DEF TypeOK, Ends, Goes, Request

-----------------------------------------------------------------------------
LEMMA CreatePostReadBoardKeepsInv ==
  ASSUME Inv, NEW r \in Requests, CreatePostReadBoard(r)
  PROVE  Inv'
<1>1. PICK u \in Users, b \in Boards :
        Goes(r, [at |-> "createPost", user |-> u, board |-> b])
  BY DEF CreatePostReadBoard
<1> DEFINE state == [at |-> "createPost", user |-> u, board |-> b]
<1>2. state \in Request /\ Justified(state)
  BY DEF Request, Justified
<1> QED
  BY <1>1, <1>2, ReadKeepsInv DEF CreatePostReadBoard

LEMMA CreatePostKeepsInv ==
  ASSUME Inv, NEW r \in Requests, CreatePost(r)
  PROVE  Inv'
<1>1. PICK p \in Posts \ ExistingPosts, body \in Bodies :
        /\ posts' = [posts EXCEPT ![p] =
             [board |-> reqs[r].board, author |-> reqs[r].user, body |-> body,
              count |-> 0, bump |-> None, edited |-> FALSE, deleted |-> FALSE]]
        /\ versions' = [versions EXCEPT ![p] = <<body>>]
  BY DEF CreatePost
<1> DEFINE row ==
      [board |-> reqs[r].board, author |-> reqs[r].user, body |-> body,
       count |-> 0, bump |-> None, edited |-> FALSE, deleted |-> FALSE]
<1>2. reqs[r].board \in Boards /\ reqs[r].user \in Users
  BY RequestFields DEF Inv, TypeOK, CreatePost
<1>3. row \in PostRow
  BY <1>2 DEF PostRow
<1>4. TypeOK'
  <2>1. posts' \in [Posts -> PostRow \cup {None}]
    BY <1>1, <1>3 DEF Inv, TypeOK
  <2>2. <<body>> \in Seq(Bodies)
    OBVIOUS
  <2>3. versions' \in [Targets -> Seq(Bodies)]
    BY <1>1, <2>2 DEF Inv, TypeOK
  <2> QED
    BY <2>1, <2>3, EndsType DEF Inv, TypeOK, CreatePost
<1>5. Grows /\ ExistingComments' = ExistingComments
  BY <1>1, <1>3, NoneIsNoRow
     DEF Grows, ExistingPosts, ExistingComments, CreatePost, Inv, TypeOK
<1> QED
  BY <1>4, <1>5, WriteKeepsInv DEF CreatePost

LEMMA CreateCommentReadPostKeepsInv ==
  ASSUME Inv, NEW r \in Requests, CreateCommentReadPost(r)
  PROVE  Inv'
<1>1. PICK u \in Users, p \in ExistingPosts, c \in Comments \cup {None} :
        Goes(r, [at |-> "readBoard", user |-> u, post |-> p,
                 board |-> posts[p].board, parent |-> c, path |-> << >>])
  BY DEF CreateCommentReadPost
<1> DEFINE state ==
      [at |-> "readBoard", user |-> u, post |-> p,
       board |-> posts[p].board, parent |-> c, path |-> << >>]
<1>2. posts[p].board \in Boards /\ p \in Posts
  BY DEF Inv, TypeOK, PostRow, ExistingPosts
<1>3. state \in Request /\ Justified(state)
  BY <1>2 DEF Request, Justified
<1> QED
  BY <1>1, <1>3, ReadKeepsInv DEF CreateCommentReadPost

LEMMA CreateCommentReadBoardKeepsInv ==
  ASSUME Inv, NEW r \in Requests, CreateCommentReadBoard(r)
  PROVE  Inv'
<1> DEFINE next == IF reqs[r].parent = None THEN "insertComment" ELSE "readParent"
           state == [reqs[r] EXCEPT !.at = next]
<1>1. reqs[r] \in [at : {"readBoard", "readParent", "insertComment"},
                   user : Users, post : Posts, board : Boards,
                   parent : Comments \cup {None}, path : Seq(Comments)]
  BY RequestFields DEF Inv, TypeOK, CreateCommentReadBoard
<1>2. CASE reqs[r].board \in archived
  <2>1. Idle \in Request /\ Justified(Idle) /\ Goes(r, Idle)
    BY <1>2 DEF Request, Justified, Idle, CreateCommentReadBoard, Ends
  <2> QED
    BY <2>1, ReadKeepsInv DEF CreateCommentReadBoard
<1>3. CASE reqs[r].board \notin archived
  <2>1. state \in Request
    BY <1>1 DEF Request
  <2>2. Justified(reqs[r])
    BY DEF Inv
  <2>3. Justified(state)
    BY <1>1, <2>2 DEF Justified, CreateCommentReadBoard
  <2> QED
    BY <1>3, <2>1, <2>3, ReadKeepsInv DEF CreateCommentReadBoard
<1> QED
  BY <1>2, <1>3

LEMMA CreateCommentReadParentKeepsInv ==
  ASSUME Inv, NEW r \in Requests, CreateCommentReadParent(r)
  PROVE  Inv'
<1> DEFINE parent == reqs[r].parent
           state == [reqs[r] EXCEPT !.at = "insertComment",
                                    !.path = comments[parent].path]
<1>1. reqs[r] \in [at : {"readBoard", "readParent", "insertComment"},
                   user : Users, post : Posts, board : Boards,
                   parent : Comments \cup {None}, path : Seq(Comments)]
  BY RequestFields DEF Inv, TypeOK, CreateCommentReadParent
<1>2. CASE parent \in CommentsOf(reqs[r].post) /\ ~comments[parent].deleted
  <2>1. parent \in Comments /\ comments[parent] \in CommentRow
    BY <1>2 DEF CommentsOf, ExistingComments, Inv, TypeOK
  <2>2. comments[parent].path \in Seq(Comments) /\ parent # None
    BY <2>1, ThreadsAssumption DEF CommentRow
  <2>3. state \in Request
    BY <1>1, <2>2 DEF Request
  <2>4. Justified(reqs[r])
    BY DEF Inv
  <2>5. Justified(state)
    BY <1>1, <1>2, <2>2, <2>4 DEF Justified, CreateCommentReadParent
  <2> QED
    BY <1>2, <2>3, <2>5, ReadKeepsInv DEF CreateCommentReadParent
<1>3. CASE ~(parent \in CommentsOf(reqs[r].post) /\ ~comments[parent].deleted)
  <2>1. Idle \in Request /\ Justified(Idle) /\ Goes(r, Idle)
    BY <1>3 DEF Request, Justified, Idle, CreateCommentReadParent, Ends
  <2> QED
    BY <2>1, ReadKeepsInv DEF CreateCommentReadParent
<1> QED
  BY <1>2, <1>3

LEMMA BumpedType ==
  ASSUME NEW old \in PostRow, NEW c \in Comments
  PROVE  Bumped(old, c) \in PostRow
<1> DEFINE counted == [old EXCEPT !.count = @ + 1]
<1>1. old.count + 1 \in Nat
  BY DEF PostRow
<1>2. counted \in PostRow
  BY <1>1 DEF PostRow
<1>3. [counted EXCEPT !.bump = c] \in PostRow
  BY <1>2 DEF PostRow
<1> QED
  BY <1>3 DEF Bumped

\* The one step that makes the tree grow: the new comment is placed because
\* the parent its request read is where it was.
LEMMA CreateCommentKeepsInv ==
  ASSUME Inv, NEW r \in Requests, CreateComment(r)
  PROVE  Inv' /\ Grows
<1> DEFINE req == reqs[r]
<1>1. PICK c \in Comments \ ExistingComments, body \in Bodies :
        /\ comments' = [comments EXCEPT ![c] =
             [post |-> req.post, parent |-> req.parent,
              path |-> ChildPath(req.path, c), author |-> req.user,
              body |-> body, edited |-> FALSE, deleted |-> FALSE]]
        /\ posts' = [posts EXCEPT ![req.post] = Bumped(@, c)]
        /\ versions' = [versions EXCEPT ![c] = <<body>>]
  BY DEF CreateComment
<1> DEFINE row == [post |-> req.post, parent |-> req.parent,
                   path |-> ChildPath(req.path, c), author |-> req.user,
                   body |-> body, edited |-> FALSE, deleted |-> FALSE]
<1>2. req \in [at : {"readBoard", "readParent", "insertComment"},
               user : Users, post : Posts, board : Boards,
               parent : Comments \cup {None}, path : Seq(Comments)]
  BY RequestFields DEF Inv, TypeOK, CreateComment
<1>3. Justified(req) /\ req.at = "insertComment"
  BY DEF Inv, CreateComment
<1>4. row \in CommentRow /\ row # None
  <2>1. row.path \in Seq(Comments)
    BY <1>2 DEF ChildPath
  <2>2. row \in CommentRow
    BY <1>2, <2>1 DEF CommentRow
  <2> QED
    BY <2>2, NoneIsNoRow
<1>5. posts[req.post] \in PostRow /\ Bumped(posts[req.post], c) \in PostRow
  <2>1. posts[req.post] \in PostRow
    BY <1>2, <1>3 DEF Justified, ExistingPosts, Inv, TypeOK
  <2> QED
    BY <2>1, BumpedType
<1>6. TypeOK'
  <2>1. posts' \in [Posts -> PostRow \cup {None}]
    BY <1>1, <1>5 DEF Inv, TypeOK
  <2>2. comments' \in [Comments -> CommentRow \cup {None}]
    BY <1>1, <1>4 DEF Inv, TypeOK
  <2>3. <<body>> \in Seq(Bodies)
    OBVIOUS
  <2>4. versions' \in [Targets -> Seq(Bodies)]
    BY <1>1, <2>3 DEF Inv, TypeOK
  <2> QED
    BY <2>1, <2>2, <2>4, EndsType DEF Inv, TypeOK, CreateComment
<1>7. ExistingComments' = ExistingComments \cup {c} /\ comments'[c] = row
  BY <1>1, <1>4 DEF ExistingComments, Inv, TypeOK
<1>8. \A d \in ExistingComments : comments'[d] = comments[d]
  BY <1>1 DEF ExistingComments, Inv, TypeOK
<1>9. Grows
  <2>1. ExistingPosts \subseteq ExistingPosts'
    BY <1>1, <1>5, NoneIsNoRow DEF ExistingPosts, Inv, TypeOK
  <2> QED
    BY <2>1, <1>7, <1>8 DEF Grows
<1>10. \A q \in Requests : Justified(reqs[q])'
  <2>1. Justified(Idle)'
    BY DEF Justified, Idle
  <2> QED
    BY <2>1, <1>9, StepKeepsJustified DEF CreateComment, Ends
<1>11. TreeShape'
  <2>1. ASSUME NEW d \in ExistingComments PROVE Placed(d)'
    BY <1>9, <2>1, GrowthKeepsPlaced DEF Inv, TreeShape
  <2>2. Placed(c)'
    <3>1. row.parent = None => row.path = <<c>>
      <4>1. Append(<< >>, c) = <<c>>
        OBVIOUS
      <4> QED
        BY <1>3, <4>1 DEF Justified, ChildPath
    <3>2. ASSUME row.parent # None
          PROVE  /\ row.parent \in ExistingComments /\ row.parent # c
                 /\ comments[row.parent].post = row.post
                 /\ row.path = Append(comments[row.parent].path, c)
      BY <1>3, <3>2 DEF Justified, CommentsOf, ChildPath
    <3>3. \A i \in 1..(Len(row.path) - 1) : row.path[i] # c
      <4>1. \A i \in 1..(Len(row.path) - 1) : row.path[i] = req.path[i]
                                            /\ i \in 1..Len(req.path)
        BY <1>2 DEF ChildPath
      <4>2. CASE req.parent = None
        BY <4>1, <4>2, <3>1, <1>3 DEF Justified
      <4>3. CASE req.parent # None
        <5>1. req.parent \in ExistingComments
              /\ req.path = comments[req.parent].path
          BY <4>3, <1>3 DEF Justified, CommentsOf
        <5>2. \A i \in 1..Len(req.path) : req.path[i] \in ExistingComments
          BY <5>1 DEF Inv, PathsExist
        <5> QED
          BY <4>1, <5>2
      <4> QED
        BY <4>2, <4>3
    <3> QED
      BY <1>7, <1>8, <3>1, <3>2, <3>3 DEF Placed, CommentsOf
  <2> QED
    BY <1>7, <2>1, <2>2 DEF TreeShape
<1>12. PathsExist'
  <2>1. \A i \in 1..Len(row.path) : row.path[i] \in ExistingComments \cup {c}
    <3>1. \A i \in 1..Len(row.path) :
            row.path[i] = c \/ (row.path[i] = req.path[i] /\ i \in 1..Len(req.path))
      BY <1>2 DEF ChildPath
    <3>2. \A i \in 1..Len(req.path) : req.path[i] \in ExistingComments
      BY <1>3 DEF Justified, CommentsOf, Inv, PathsExist
    <3> QED
      BY <3>1, <3>2
  <2> QED
    BY <2>1, <1>7, <1>8 DEF Inv, PathsExist
<1> QED
  BY <1>6, <1>9, <1>10, <1>11, <1>12 DEF Inv

LEMMA EditPostReadKeepsInv ==
  ASSUME Inv, NEW r \in Requests, EditPostRead(r)
  PROVE  Inv'
<1>1. PICK p \in ExistingPosts :
        Goes(r, [at |-> "editPost", post |-> p, row |-> posts[p]])
  BY DEF EditPostRead
<1> DEFINE state == [at |-> "editPost", post |-> p, row |-> posts[p]]
<1>2. posts[p] \in PostRow /\ p \in Posts
  BY DEF Inv, TypeOK, ExistingPosts
<1>3. state \in Request /\ Justified(state)
  BY <1>2 DEF Request, Justified
<1> QED
  BY <1>1, <1>3, ReadKeepsInv DEF EditPostRead

\* The row UpdatePost writes is a row, whatever was read.
LEMMA UpdatePostType ==
  ASSUME NEW old \in PostRow, NEW body \in Bodies
  PROVE  UpdatePost(old, body) \in PostRow
<1> DEFINE texted == [old EXCEPT !.body = body]
<1>1. texted \in PostRow
  BY DEF PostRow
<1>2. [texted EXCEPT !.edited = TRUE] \in PostRow
  BY <1>1 DEF PostRow
<1> QED
  BY <1>2 DEF UpdatePost

LEMMA EditPostKeepsInv ==
  ASSUME Inv, NEW r \in Requests, EditPost(r)
  PROVE  Inv' /\ Grows /\ ExistingComments' = ExistingComments
<1> DEFINE p == reqs[r].post
<1>1. PICK body \in Bodies :
        /\ posts' = [posts EXCEPT ![p] = UpdatePost(reqs[r].row, body)]
        /\ revisions' = [revisions EXCEPT ![p] = Append(@, reqs[r].row.body)]
        /\ versions' = [versions EXCEPT ![p] = Append(@, body)]
  BY DEF EditPost, CreateRevision
<1>2. p \in Posts /\ reqs[r].row \in PostRow
  BY RequestFields DEF Inv, TypeOK, EditPost, CreateRevision
<1>3. UpdatePost(reqs[r].row, body) \in PostRow /\ reqs[r].row.body \in Bodies
  BY <1>2, UpdatePostType DEF PostRow
<1>4. TypeOK'
  <2>1. posts' \in [Posts -> PostRow \cup {None}]
    BY <1>1, <1>3 DEF Inv, TypeOK
  <2>2. revisions' \in [Targets -> Seq(Bodies)]
    BY <1>1, <1>2, <1>3 DEF Inv, TypeOK, Targets
  <2>3. versions' \in [Targets -> Seq(Bodies)]
    BY <1>1, <1>2 DEF Inv, TypeOK, Targets
  <2> QED
    BY <2>1, <2>2, <2>3, EndsType DEF Inv, TypeOK, EditPost, CreateRevision
<1>5. Grows /\ ExistingComments' = ExistingComments
  BY <1>1, <1>3, NoneIsNoRow
     DEF Grows, ExistingPosts, ExistingComments, EditPost, Inv, TypeOK
<1> QED
  BY <1>4, <1>5, WriteKeepsInv DEF EditPost

LEMMA EditCommentReadKeepsInv ==
  ASSUME Inv, NEW r \in Requests, EditCommentRead(r)
  PROVE  Inv'
<1>1. PICK c \in ExistingComments :
        Goes(r, [at |-> "editComment", comment |-> c, row |-> comments[c]])
  BY DEF EditCommentRead
<1> DEFINE state == [at |-> "editComment", comment |-> c, row |-> comments[c]]
<1>2. comments[c] \in CommentRow /\ c \in Comments
  BY DEF Inv, TypeOK, ExistingComments
<1>3. state \in Request /\ Justified(state)
  BY <1>2 DEF Request, Justified
<1> QED
  BY <1>1, <1>3, ReadKeepsInv DEF EditCommentRead

\* Writing the text of a comment, or burying it, leaves it where it is.
LEMMA UpdateCommentBodyType ==
  ASSUME NEW stored \in CommentRow, NEW read, NEW body \in Bodies
  PROVE  /\ UpdateCommentBody(stored, read, body) \in CommentRow
         /\ UpdateCommentBody(stored, read, body).post = stored.post
         /\ UpdateCommentBody(stored, read, body).parent = stored.parent
         /\ UpdateCommentBody(stored, read, body).path = stored.path
         /\ UpdateCommentBody(stored, read, body).deleted = stored.deleted
<1> DEFINE texted == [stored EXCEPT !.body = body]
<1>1. texted \in CommentRow
  BY DEF CommentRow
<1>2. [texted EXCEPT !.edited = TRUE] \in CommentRow
  BY <1>1 DEF CommentRow
<1> QED
  BY <1>2 DEF UpdateCommentBody, CommentRow

LEMMA SoftDeleteCommentType ==
  ASSUME NEW stored \in CommentRow
  PROVE  /\ SoftDeleteComment(stored) \in CommentRow
         /\ SoftDeleteComment(stored).post = stored.post
         /\ SoftDeleteComment(stored).parent = stored.parent
         /\ SoftDeleteComment(stored).path = stored.path
         /\ SoftDeleteComment(stored).deleted = TRUE
  BY DEF SoftDeleteComment, CommentRow

LEMMA EditCommentKeepsInv ==
  ASSUME Inv, NEW r \in Requests, EditComment(r)
  PROVE  Inv' /\ Grows /\ ExistingComments' = ExistingComments
<1> DEFINE c == reqs[r].comment
<1>1. PICK body \in Bodies :
        /\ comments' = [comments EXCEPT ![c] =
                          UpdateCommentBody(@, reqs[r].row, body)]
        /\ revisions' = [revisions EXCEPT ![c] = Append(@, reqs[r].row.body)]
        /\ versions' = [versions EXCEPT ![c] = Append(@, body)]
  BY DEF EditComment, CreateRevision
<1>2. c \in Comments /\ reqs[r].row \in CommentRow
  BY RequestFields DEF Inv, TypeOK, EditComment, CreateRevision
<1>3. comments[c] \in CommentRow
  BY <1>2 DEF Inv, Justified, EditComment, ExistingComments, TypeOK
<1> DEFINE row == UpdateCommentBody(comments[c], reqs[r].row, body)
<1>4. /\ row \in CommentRow /\ row.post = comments[c].post
      /\ row.parent = comments[c].parent /\ row.path = comments[c].path
  BY <1>3, UpdateCommentBodyType
<1>5. TypeOK'
  <2>1. comments' \in [Comments -> CommentRow \cup {None}]
    BY <1>1, <1>4 DEF Inv, TypeOK
  <2>2. reqs[r].row.body \in Bodies
    BY <1>2 DEF CommentRow
  <2>3. revisions' \in [Targets -> Seq(Bodies)]
    BY <1>1, <1>2, <2>2 DEF Inv, TypeOK, Targets
  <2>4. versions' \in [Targets -> Seq(Bodies)]
    BY <1>1, <1>2 DEF Inv, TypeOK, Targets
  <2> QED
    BY <2>1, <2>3, <2>4, EndsType DEF Inv, TypeOK, EditComment, CreateRevision
<1>6. Grows /\ ExistingComments' = ExistingComments
  <2>1. comments' = [comments EXCEPT ![c] = row]
    BY <1>1
  <2>2. comments[c] # None /\ row # None
    BY <1>3, <1>4, NoneIsNoRow
  <2> HIDE DEF row
  <2> QED
    BY <2>1, <2>2, <1>2, <1>4
       DEF Grows, ExistingPosts, ExistingComments, EditComment, Inv, TypeOK
<1> QED
  BY <1>5, <1>6, WriteKeepsInv DEF EditComment

LEMMA DeletePostReadKeepsInv ==
  ASSUME Inv, NEW r \in Requests, DeletePostRead(r)
  PROVE  Inv'
<1>1. PICK p \in ExistingPosts : Goes(r, [at |-> "deletePost", post |-> p])
  BY DEF DeletePostRead
<1> DEFINE state == [at |-> "deletePost", post |-> p]
<1>2. state \in Request /\ Justified(state)
  BY DEF Request, Justified, ExistingPosts
<1> QED
  BY <1>1, <1>2, ReadKeepsInv DEF DeletePostRead

LEMMA DeletePostKeepsInv ==
  ASSUME Inv, NEW r \in Requests, DeletePost(r)
  PROVE  Inv' /\ Grows /\ ExistingComments' = ExistingComments
<1> DEFINE p == reqs[r].post
           row == [posts[p] EXCEPT !.deleted = TRUE]
<1>1. p \in Posts
  BY RequestFields DEF Inv, TypeOK, DeletePost
<1>2. posts[p] \in PostRow
  BY <1>1 DEF Inv, Justified, DeletePost, ExistingPosts, TypeOK
<1>3. row \in PostRow
  BY <1>2 DEF PostRow
<1>4. posts' = [posts EXCEPT ![p] = row]
  BY DEF DeletePost
<1> HIDE DEF row
<1>5. TypeOK'
  BY <1>3, <1>4, EndsType DEF Inv, TypeOK, DeletePost
<1>6. Grows /\ ExistingComments' = ExistingComments
  BY <1>3, <1>4, NoneIsNoRow
     DEF Grows, ExistingPosts, ExistingComments, DeletePost, Inv, TypeOK
<1> QED
  BY <1>5, <1>6, WriteKeepsInv DEF DeletePost

LEMMA DeleteCommentReadKeepsInv ==
  ASSUME Inv, NEW r \in Requests, DeleteCommentRead(r)
  PROVE  Inv'
<1>1. PICK c \in ExistingComments :
        Goes(r, [at |-> "deleteComment", comment |-> c])
  BY DEF DeleteCommentRead
<1> DEFINE state == [at |-> "deleteComment", comment |-> c]
<1>2. state \in Request /\ Justified(state)
  BY DEF Request, Justified, ExistingComments
<1> QED
  BY <1>1, <1>2, ReadKeepsInv DEF DeleteCommentRead

LEMMA DeleteCommentKeepsInv ==
  ASSUME Inv, NEW r \in Requests, DeleteComment(r)
  PROVE  Inv' /\ Grows /\ ExistingComments' = ExistingComments
<1> DEFINE c == reqs[r].comment
           row == SoftDeleteComment(comments[c])
<1>1. c \in Comments
  BY RequestFields DEF Inv, TypeOK, DeleteComment
<1>2. comments[c] \in CommentRow
  BY <1>1 DEF Inv, Justified, DeleteComment, ExistingComments, TypeOK
<1>3. /\ row \in CommentRow /\ row.post = comments[c].post
      /\ row.parent = comments[c].parent /\ row.path = comments[c].path
  BY <1>2, SoftDeleteCommentType
<1>4. comments' = [comments EXCEPT ![c] = row]
  BY DEF DeleteComment
<1>5. comments[c] # None /\ row # None
  BY <1>2, <1>3, NoneIsNoRow
<1> HIDE DEF row
<1>6. TypeOK'
  BY <1>3, <1>4, EndsType DEF Inv, TypeOK, DeleteComment
<1>7. Grows /\ ExistingComments' = ExistingComments
  BY <1>1, <1>3, <1>4, <1>5
     DEF Grows, ExistingPosts, ExistingComments, DeleteComment, Inv, TypeOK
<1> QED
  BY <1>6, <1>7, WriteKeepsInv DEF DeleteComment

LEMMA ArchiveBoardKeepsInv ==
  ASSUME Inv, ArchiveBoard
  PROVE  Inv'
<1>1. TypeOK'
  BY DEF Inv, TypeOK, ArchiveBoard
<1>2. Grows /\ ExistingComments' = ExistingComments
  BY DEF ArchiveBoard, Grows, ExistingPosts, ExistingComments
<1>3. \A q \in Requests : Justified(reqs[q])'
  BY <1>2 DEF Inv, Justified, ArchiveBoard, Grows, CommentsOf
<1> QED
  BY <1>1, <1>2, <1>3, SamePlacesKeepTree DEF Inv

LEMMA GetThreadReadPostKeepsInv ==
  ASSUME Inv, NEW r \in Requests, GetThreadReadPost(r)
  PROVE  Inv'
<1>1. PICK p \in ExistingPosts :
        Goes(r, [at |-> "listComments", post |-> p, row |-> posts[p]])
  BY DEF GetThreadReadPost
<1> DEFINE state == [at |-> "listComments", post |-> p, row |-> posts[p]]
<1>2. posts[p] \in PostRow /\ p \in Posts
  BY DEF Inv, TypeOK, ExistingPosts
<1>3. state \in Request /\ Justified(state)
  BY <1>2 DEF Request, Justified
<1> QED
  BY <1>1, <1>3, ReadKeepsInv DEF GetThreadReadPost

LEMMA GetThreadKeepsInv ==
  ASSUME Inv, NEW r \in Requests, GetThread(r)
  PROVE  Inv'
<1> DEFINE state == [at |-> "thread", post |-> reqs[r].post,
                     row |-> reqs[r].row, found |-> CommentsOf(reqs[r].post)]
<1>1. reqs[r].post \in Posts /\ reqs[r].row \in PostRow
  BY RequestFields DEF Inv, TypeOK, GetThread
<1>2. state \in Request
  BY <1>1 DEF Request, CommentsOf, ExistingComments
<1>3. Justified(reqs[r])
  BY DEF Inv
<1>4. Justified(state)
  BY <1>3 DEF Justified, GetThread
<1> QED
  BY <1>2, <1>4, ReadKeepsInv DEF GetThread

LEMMA FinishKeepsInv ==
  ASSUME Inv, NEW r \in Requests, Finish(r)
  PROVE  Inv'
<1>1. Idle \in Request /\ Justified(Idle) /\ Goes(r, Idle)
  BY DEF Request, Justified, Idle, Finish, Ends
<1> QED
  BY <1>1, ReadKeepsInv DEF Finish

LEMMA InitInv == Init => Inv
<1> SUFFICES ASSUME Init PROVE Inv
  OBVIOUS
<1>1. TypeOK
  BY DEF Init, TypeOK, Request
<1>2. TreeShape /\ PathsExist
  BY DEF Init, TreeShape, PathsExist, ExistingComments
<1>3. \A r \in Requests : Justified(reqs[r])
  BY DEF Init, Justified, Idle
<1> QED
  BY <1>1, <1>2, <1>3 DEF Inv

LEMMA NextKeepsInv == Inv /\ [Next]_vars => Inv'
<1> SUFFICES ASSUME Inv, [Next]_vars PROVE Inv'
  OBVIOUS
<1>1. CASE ArchiveBoard
  BY <1>1, ArchiveBoardKeepsInv
<1>2. ASSUME NEW r \in Requests,
             \/ CreatePostReadBoard(r) \/ CreatePost(r)
             \/ CreateCommentReadPost(r) \/ CreateCommentReadBoard(r)
             \/ CreateCommentReadParent(r) \/ CreateComment(r)
             \/ EditPostRead(r) \/ EditPost(r)
             \/ EditCommentRead(r) \/ EditComment(r)
             \/ DeletePostRead(r) \/ DeletePost(r)
             \/ DeleteCommentRead(r) \/ DeleteComment(r)
             \/ GetThreadReadPost(r) \/ GetThread(r)
             \/ Finish(r)
      PROVE  Inv'
  BY <1>2, CreatePostReadBoardKeepsInv, CreatePostKeepsInv,
     CreateCommentReadPostKeepsInv, CreateCommentReadBoardKeepsInv,
     CreateCommentReadParentKeepsInv, CreateCommentKeepsInv,
     EditPostReadKeepsInv, EditPostKeepsInv, EditCommentReadKeepsInv,
     EditCommentKeepsInv, DeletePostReadKeepsInv, DeletePostKeepsInv,
     DeleteCommentReadKeepsInv, DeleteCommentKeepsInv,
     GetThreadReadPostKeepsInv, GetThreadKeepsInv, FinishKeepsInv
<1>3. CASE UNCHANGED vars
  BY <1>3 DEF vars, Inv, TypeOK, TreeShape, Placed, PathsExist, Justified,
              ExistingPosts, ExistingComments, CommentsOf
<1> QED
  BY <1>1, <1>2, <1>3 DEF Next

\* In every behavior the invariant holds.
LEMMA SpecInv == Spec => []Inv
  BY InitInv, NextKeepsInv, PTL DEF Spec

\* Every variable keeps its type: in particular no request ever writes to a
\* row that is not there.
THEOREM TypeCorrect == Spec => []TypeOK
  BY SpecInv, PTL DEF Inv

\* The comments of a post always form a tree, on which parent_comment_id and
\* path agree, although a reply is checked against a parent that other
\* requests edit and delete meanwhile.
THEOREM TreeAlwaysShaped == Spec => []TreeShape
  BY SpecInv, PTL DEF Inv

-----------------------------------------------------------------------------
(***************************************************************************)
(* What each writing step does to the tables, for the proofs below.        *)
(***************************************************************************)

LEMMA CreatePostWrites ==
  ASSUME Inv, NEW r \in Requests, CreatePost(r)
  PROVE  \E p \in Posts \ ExistingPosts, row \in PostRow :
           /\ posts' = [posts EXCEPT ![p] = row]
           /\ versions' = [versions EXCEPT ![p] = <<row.body>>]
           /\ row.count = 0 /\ row.bump = None
           /\ ~row.edited /\ ~row.deleted
           /\ ExistingPosts' = ExistingPosts \cup {p}
<1>1. PICK p \in Posts \ ExistingPosts, body \in Bodies :
        /\ posts' = [posts EXCEPT ![p] =
             [board |-> reqs[r].board, author |-> reqs[r].user, body |-> body,
              count |-> 0, bump |-> None, edited |-> FALSE, deleted |-> FALSE]]
        /\ versions' = [versions EXCEPT ![p] = <<body>>]
  BY DEF CreatePost
<1>2. PICK row :
        row = [board |-> reqs[r].board, author |-> reqs[r].user, body |-> body,
               count |-> 0, bump |-> None, edited |-> FALSE, deleted |-> FALSE]
  OBVIOUS
<1>3. reqs[r].board \in Boards /\ reqs[r].user \in Users
  BY RequestFields DEF Inv, TypeOK, CreatePost
<1>4. row \in PostRow /\ row # None
  <2>1. row \in PostRow
    BY <1>2, <1>3 DEF PostRow
  <2> QED
    BY <2>1, NoneIsNoRow
<1>5. posts' = [posts EXCEPT ![p] = row]
  BY <1>1, <1>2
<1>6. ExistingPosts' = ExistingPosts \cup {p}
  BY <1>4, <1>5 DEF ExistingPosts, Inv, TypeOK
<1>7. /\ row.body = body /\ row.count = 0 /\ row.bump = None
      /\ ~row.edited /\ ~row.deleted
  BY <1>2
<1> QED
  BY <1>1, <1>4, <1>5, <1>6, <1>7

LEMMA CreateCommentWrites ==
  ASSUME Inv, NEW r \in Requests, CreateComment(r)
  PROVE  \E c \in Comments \ ExistingComments, row \in CommentRow :
           /\ comments' = [comments EXCEPT ![c] = row]
           /\ posts' = [posts EXCEPT ![row.post] = Bumped(@, c)]
           /\ versions' = [versions EXCEPT ![c] = <<row.body>>]
           /\ ~row.edited /\ ~row.deleted
           /\ row.post \in ExistingPosts
           /\ row.parent # None => row.parent \in CommentsOf(row.post)
           /\ ExistingPosts' = ExistingPosts
           /\ ExistingComments' = ExistingComments \cup {c}
<1> DEFINE req == reqs[r]
<1>1. PICK c \in Comments \ ExistingComments, body \in Bodies :
        /\ comments' = [comments EXCEPT ![c] =
             [post |-> req.post, parent |-> req.parent,
              path |-> ChildPath(req.path, c), author |-> req.user,
              body |-> body, edited |-> FALSE, deleted |-> FALSE]]
        /\ posts' = [posts EXCEPT ![req.post] = Bumped(@, c)]
        /\ versions' = [versions EXCEPT ![c] = <<body>>]
  BY DEF CreateComment
<1>2. PICK row :
        row = [post |-> req.post, parent |-> req.parent,
               path |-> ChildPath(req.path, c), author |-> req.user,
               body |-> body, edited |-> FALSE, deleted |-> FALSE]
  OBVIOUS
<1>3. req \in [at : {"readBoard", "readParent", "insertComment"},
               user : Users, post : Posts, board : Boards,
               parent : Comments \cup {None}, path : Seq(Comments)]
  BY RequestFields DEF Inv, TypeOK, CreateComment
<1>4. Justified(req) /\ req.at = "insertComment"
  BY DEF Inv, CreateComment
<1>5. row \in CommentRow /\ row # None
  <2>1. row.path \in Seq(Comments)
    BY <1>2, <1>3 DEF ChildPath
  <2>2. row \in CommentRow
    BY <1>2, <1>3, <2>1 DEF CommentRow
  <2> QED
    BY <2>2, NoneIsNoRow
<1>6. /\ row.post = req.post /\ row.parent = req.parent /\ row.body = body
      /\ ~row.edited /\ ~row.deleted
  BY <1>2
<1>7. /\ comments' = [comments EXCEPT ![c] = row]
      /\ posts' = [posts EXCEPT ![row.post] = Bumped(@, c)]
  BY <1>1, <1>2
<1>8. row.post \in ExistingPosts
  BY <1>4, <1>6 DEF Justified
<1>9. row.parent # None => row.parent \in CommentsOf(row.post)
  BY <1>4, <1>6 DEF Justified
<1>10. Bumped(posts[row.post], c) # None
  <2>1. posts[row.post] \in PostRow
    BY <1>8 DEF ExistingPosts, Inv, TypeOK
  <2> QED
    BY <2>1, BumpedType, NoneIsNoRow
<1>11. ExistingPosts' = ExistingPosts
  BY <1>7, <1>8, <1>10 DEF ExistingPosts, Inv, TypeOK
<1>12. ExistingComments' = ExistingComments \cup {c}
  BY <1>5, <1>7 DEF ExistingComments, Inv, TypeOK
<1> QED
  BY <1>1, <1>5, <1>6, <1>7, <1>8, <1>9, <1>11, <1>12

LEMMA EditPostWrites ==
  ASSUME Inv, NEW r \in Requests, EditPost(r)
  PROVE  \E p \in ExistingPosts, read \in PostRow, body \in Bodies :
           /\ reqs[r].post = p /\ reqs[r].row = read
           /\ posts' = [posts EXCEPT ![p] = UpdatePost(read, body)]
           /\ revisions' = [revisions EXCEPT ![p] = Append(@, read.body)]
           /\ versions' = [versions EXCEPT ![p] = Append(@, body)]
           /\ UpdatePost(read, body) \in PostRow
           /\ ExistingPosts' = ExistingPosts
<1> DEFINE p == reqs[r].post
<1>1. PICK body \in Bodies :
        /\ posts' = [posts EXCEPT ![p] = UpdatePost(reqs[r].row, body)]
        /\ revisions' = [revisions EXCEPT ![p] = Append(@, reqs[r].row.body)]
        /\ versions' = [versions EXCEPT ![p] = Append(@, body)]
  BY DEF EditPost, CreateRevision
<1>2. p \in ExistingPosts
  BY DEF Inv, Justified, EditPost
<1>3. reqs[r].row \in PostRow
  BY RequestFields DEF Inv, TypeOK, EditPost
<1>4. UpdatePost(reqs[r].row, body) \in PostRow
  BY <1>3, UpdatePostType
<1>5. ExistingPosts' = ExistingPosts
  BY <1>1, <1>2, <1>4, NoneIsNoRow DEF ExistingPosts, Inv, TypeOK
<1> QED
  BY <1>1, <1>2, <1>3, <1>4, <1>5

LEMMA EditCommentWrites ==
  ASSUME Inv, NEW r \in Requests, EditComment(r)
  PROVE  \E c \in ExistingComments, row \in CommentRow, body \in Bodies :
           /\ reqs[r].comment = c
           /\ comments' = [comments EXCEPT ![c] = row]
           /\ revisions' = [revisions EXCEPT ![c] = Append(@, reqs[r].row.body)]
           /\ versions' = [versions EXCEPT ![c] = Append(@, body)]
           /\ row.body = body /\ row.edited
           /\ row.deleted = comments[c].deleted
           /\ row.post = comments[c].post /\ row.parent = comments[c].parent
<1> DEFINE c == reqs[r].comment
<1>1. PICK body \in Bodies :
        /\ comments' = [comments EXCEPT ![c] =
                          UpdateCommentBody(@, reqs[r].row, body)]
        /\ revisions' = [revisions EXCEPT ![c] = Append(@, reqs[r].row.body)]
        /\ versions' = [versions EXCEPT ![c] = Append(@, body)]
  BY DEF EditComment, CreateRevision
<1>2. c \in ExistingComments
  BY DEF Inv, Justified, EditComment
<1>3. comments[c] \in CommentRow
  BY <1>2 DEF ExistingComments, Inv, TypeOK
<1>4. PICK row : row = UpdateCommentBody(comments[c], reqs[r].row, body)
  OBVIOUS
<1>5. /\ row \in CommentRow /\ row.post = comments[c].post
      /\ row.parent = comments[c].parent /\ row.deleted = comments[c].deleted
  BY <1>3, <1>4, UpdateCommentBodyType
<1>6. row.body = body /\ row.edited
  BY <1>3, <1>4 DEF UpdateCommentBody, CommentRow
<1>7. comments' = [comments EXCEPT ![c] = row]
  BY <1>1, <1>4
<1> QED
  BY <1>1, <1>2, <1>5, <1>6, <1>7

LEMMA DeletePostWrites ==
  ASSUME Inv, NEW r \in Requests, DeletePost(r)
  PROVE  \E p \in ExistingPosts, row \in PostRow :
           /\ posts' = [posts EXCEPT ![p] = row]
           /\ row.deleted /\ row.body = posts[p].body
           /\ row.edited = posts[p].edited /\ row.count = posts[p].count
           /\ row.bump = posts[p].bump
           /\ ExistingPosts' = ExistingPosts
<1> DEFINE p == reqs[r].post
<1>1. p \in ExistingPosts
  BY DEF Inv, Justified, DeletePost
<1>2. posts[p] \in PostRow
  BY <1>1 DEF ExistingPosts, Inv, TypeOK
<1>3. PICK row : row = [posts[p] EXCEPT !.deleted = TRUE]
  OBVIOUS
<1>4. /\ row \in PostRow /\ row.deleted /\ row.body = posts[p].body
      /\ row.edited = posts[p].edited /\ row.count = posts[p].count
      /\ row.bump = posts[p].bump
  BY <1>2, <1>3 DEF PostRow
<1>5. posts' = [posts EXCEPT ![p] = row]
  BY <1>3 DEF DeletePost
<1>6. ExistingPosts' = ExistingPosts
  BY <1>1, <1>4, <1>5, NoneIsNoRow DEF ExistingPosts, Inv, TypeOK
<1> QED
  BY <1>1, <1>4, <1>5, <1>6

LEMMA DeleteCommentWrites ==
  ASSUME Inv, NEW r \in Requests, DeleteComment(r)
  PROVE  \E c \in ExistingComments, row \in CommentRow :
           /\ comments' = [comments EXCEPT ![c] = row]
           /\ row.deleted /\ row.body = comments[c].body
           /\ row.edited = comments[c].edited
           /\ row.post = comments[c].post /\ row.parent = comments[c].parent
<1> DEFINE c == reqs[r].comment
<1>1. c \in ExistingComments
  BY DEF Inv, Justified, DeleteComment
<1>2. comments[c] \in CommentRow
  BY <1>1 DEF ExistingComments, Inv, TypeOK
<1>3. PICK row : row = SoftDeleteComment(comments[c])
  OBVIOUS
<1>4. /\ row \in CommentRow /\ row.deleted /\ row.body = comments[c].body
      /\ row.edited = comments[c].edited
      /\ row.post = comments[c].post /\ row.parent = comments[c].parent
  BY <1>2, <1>3 DEF SoftDeleteComment, CommentRow
<1>5. comments' = [comments EXCEPT ![c] = row]
  BY <1>3 DEF DeleteComment
<1> QED
  BY <1>1, <1>4, <1>5

\* Every other step writes no post, comment or revision.
OnlyReads == UNCHANGED <<posts, comments, revisions, versions>>

LEMMA StepKinds ==
  ASSUME [Next]_vars
  PROVE  \/ OnlyReads
         \/ \E r \in Requests :
              \/ CreatePost(r) \/ CreateComment(r) \/ EditPost(r)
              \/ EditComment(r) \/ DeletePost(r) \/ DeleteComment(r)
<1> USE DEF OnlyReads, rows
<1>1. CASE UNCHANGED vars
  BY <1>1 DEF vars
<1>2. CASE ArchiveBoard
  BY <1>2 DEF ArchiveBoard
<1>3. ASSUME NEW r \in Requests,
             \/ CreatePostReadBoard(r) \/ CreateCommentReadPost(r)
             \/ CreateCommentReadBoard(r) \/ CreateCommentReadParent(r)
             \/ EditPostRead(r) \/ EditCommentRead(r) \/ DeletePostRead(r)
             \/ DeleteCommentRead(r) \/ GetThreadReadPost(r) \/ GetThread(r)
             \/ Finish(r)
      PROVE  OnlyReads
  BY <1>3 DEF CreatePostReadBoard, CreateCommentReadPost,
              CreateCommentReadBoard, CreateCommentReadParent, EditPostRead,
              EditCommentRead, DeletePostRead, DeleteCommentRead,
              GetThreadReadPost, GetThread, Finish
<1> QED
  BY <1>1, <1>2, <1>3 DEF Next

-----------------------------------------------------------------------------
(***************************************************************************)
(* Refinement: the comments table, read by its navigating columns,         *)
(* implements CommentTree.                                                 *)
(***************************************************************************)

\* The abstract variables, seen through the mapping.
TreeOf == [c \in Comments |-> IF comments[c] = None THEN None
             ELSE [post |-> comments[c].post, parent |-> comments[c].parent]]
DeadOf == {c \in ExistingComments : comments[c].deleted}

LEMMA TreeInit == Init => Tree!Init
  BY DEF Init, Tree!Init, ExistingComments

\* A step that changes no comment's place or tombstone is a stutter.
LEMMA TreeStutters ==
  ASSUME TreeOf' = TreeOf, DeadOf' = DeadOf
  PROVE  UNCHANGED Tree!treeVars
  BY DEF Tree!treeVars, TreeOf, DeadOf

LEMMA CommentsGoneOn ==
  ASSUME Inv, NEW c \in ExistingComments, NEW row \in CommentRow,
         comments' = [comments EXCEPT ![c] = row],
         row.post = comments[c].post, row.parent = comments[c].parent
  PROVE  /\ TreeOf' = TreeOf
         /\ DeadOf' = IF row.deleted THEN DeadOf \cup {c} ELSE DeadOf \ {c}
<1>1. row # None
  BY NoneIsNoRow
<1>2. /\ comments \in [Comments -> CommentRow \cup {None}] /\ c \in Comments
      /\ comments[c] # None
  BY DEF Inv, TypeOK, ExistingComments
<1>3. \A d \in Comments : comments'[d] = IF d = c THEN row ELSE comments[d]
  BY <1>2
<1>4. TreeOf' = TreeOf
  BY <1>1, <1>2, <1>3 DEF TreeOf
<1>5. DeadOf' = IF row.deleted THEN DeadOf \cup {c} ELSE DeadOf \ {c}
  BY <1>1, <1>2, <1>3 DEF DeadOf, ExistingComments
<1> QED
  BY <1>4, <1>5

\* A new comment joins the tree where its request was told that it may.
LEMMA CreateCommentJoins ==
  ASSUME Inv, NEW r \in Requests, CreateComment(r)
  PROVE  \E c \in Comments, p \in Posts, parent \in Comments \cup {None} :
           Tree!Join(c, p, parent)
<1>1. PICK c \in Comments \ ExistingComments, row \in CommentRow :
           /\ comments' = [comments EXCEPT ![c] = row]
           /\ ~row.deleted
           /\ row.parent # None => row.parent \in CommentsOf(row.post)
           /\ ExistingComments' = ExistingComments \cup {c}
  BY CreateCommentWrites
<1>2. /\ comments \in [Comments -> CommentRow \cup {None}]
      /\ comments[c] = None /\ row # None
  BY NoneIsNoRow DEF Inv, TypeOK, ExistingComments
<1>3. \A d \in Comments : comments'[d] = IF d = c THEN row ELSE comments[d]
  BY <1>1, <1>2
<1>4. row.post \in Posts /\ row.parent \in Comments \cup {None}
  BY DEF CommentRow
<1>5. PICK place : place = [post |-> row.post, parent |-> row.parent]
  OBVIOUS
<1>6. TreeOf' = [TreeOf EXCEPT ![c] = place]
  BY <1>2, <1>3, <1>5 DEF TreeOf
<1>7. DeadOf' = DeadOf
  BY <1>1, <1>3 DEF DeadOf, ExistingComments
<1>8. c \notin Tree!Written
  BY <1>2 DEF Tree!Written
<1>9. ASSUME row.parent # None
      PROVE  row.parent \in Tree!Written /\ TreeOf[row.parent].post = row.post
  <2>1. row.parent \in ExistingComments /\ comments[row.parent].post = row.post
    BY <1>1, <1>9 DEF CommentsOf
  <2>2. comments[row.parent] \in CommentRow /\ row.parent \in Comments
    BY <2>1 DEF Inv, TypeOK, ExistingComments
  <2>3. TreeOf[row.parent] = [post |-> comments[row.parent].post,
                              parent |-> comments[row.parent].parent]
    BY <2>1, <2>2 DEF TreeOf, ExistingComments
  <2>4. TreeOf[row.parent] # None
    BY <2>2, <2>3, NoneIsNoPlace DEF CommentRow
  <2> QED
    BY <2>1, <2>2, <2>3, <2>4 DEF Tree!Written, TreeOf
<1>10. Tree!Join(c, row.post, row.parent)
  BY <1>5, <1>6, <1>7, <1>8, <1>9 DEF Tree!Join, TreeOf, DeadOf
<1> QED
  BY <1>4, <1>10

\* A deletion buries its comment, even one that was deleted meanwhile.
LEMMA DeleteCommentBuries ==
  ASSUME Inv, NEW r \in Requests, DeleteComment(r)
  PROVE  \E c \in Comments : Tree!Bury(c)
<1>1. PICK c \in ExistingComments, row \in CommentRow :
           /\ comments' = [comments EXCEPT ![c] = row]
           /\ row.deleted
           /\ row.post = comments[c].post /\ row.parent = comments[c].parent
  BY DeleteCommentWrites
<1>2. TreeOf' = TreeOf /\ DeadOf' = DeadOf \cup {c}
  BY <1>1, CommentsGoneOn
<1>3. c \in Comments /\ comments[c] \in CommentRow /\ comments[c] # None
  BY DEF ExistingComments, Inv, TypeOK
<1>4. TreeOf[c] # None
  BY <1>3, NoneIsNoPlace DEF TreeOf, CommentRow
<1>5. Tree!Bury(c)
  BY <1>2, <1>3, <1>4 DEF Tree!Bury, Tree!Written, TreeOf, DeadOf
<1> QED
  BY <1>3, <1>5

LEMMA TreeSteps ==
  ASSUME Inv, [Next]_vars
  PROVE  [Tree!Next]_(Tree!treeVars)
<1>1. CASE comments' = comments
  BY <1>1, TreeStutters DEF TreeOf, DeadOf, ExistingComments
<1>2. ASSUME NEW r \in Requests, EditComment(r)
      PROVE  UNCHANGED Tree!treeVars
  <2>1. PICK c \in ExistingComments, row \in CommentRow :
           /\ comments' = [comments EXCEPT ![c] = row]
           /\ row.deleted = comments[c].deleted
           /\ row.post = comments[c].post /\ row.parent = comments[c].parent
    BY <1>2, EditCommentWrites
  <2>2. TreeOf' = TreeOf
    BY <2>1, CommentsGoneOn
  <2>3. DeadOf' = IF row.deleted THEN DeadOf \cup {c} ELSE DeadOf \ {c}
    BY <2>1, CommentsGoneOn
  <2>4. c \in DeadOf <=> row.deleted
    BY <2>1 DEF DeadOf
  <2> QED
    BY <2>2, <2>3, <2>4, TreeStutters
<1>3. ASSUME NEW r \in Requests, CreatePost(r) \/ EditPost(r) \/ DeletePost(r)
      PROVE  comments' = comments
  BY <1>3 DEF CreatePost, EditPost, DeletePost
<1>4. ASSUME NEW r \in Requests, CreateComment(r) \/ DeleteComment(r)
      PROVE  Tree!Next
  BY <1>4, CreateCommentJoins, DeleteCommentBuries DEF Tree!Next
<1> QED
  BY <1>1, <1>2, <1>3, <1>4, StepKinds DEF OnlyReads

\* The comments of all posts are, at every moment, an abstract tree that only
\* grows and whose tombstones stay: no reply that was checked against rows since
\* changed joins elsewhere, and no stale write moves or revives a comment
\* (CreateComment, UpdateCommentBody, SoftDeleteComment).
THEOREM CommentsImplementTree == Spec => ImplementsCommentTree
<1>1. Init => Tree!Init
  BY TreeInit
<1>2. Inv /\ [Next]_vars => [Tree!Next]_(Tree!treeVars)
  BY TreeSteps
<1> QED
  BY <1>1, <1>2, SpecInv, PTL DEF Spec, ImplementsCommentTree, Tree!Spec

-----------------------------------------------------------------------------
(***************************************************************************)
(* Tombstones.                                                             *)
(***************************************************************************)

\* What a step may do to tombstones.
TombstonesKept ==
  /\ \A c \in ExistingComments : comments[c].deleted => comments'[c].deleted
  /\ \A p \in ExistingPosts :
       (posts[p].deleted /\ ~posts'[p].deleted) =>
         \E r \in Requests :
           /\ reqs[r].at = "editPost" /\ reqs[r].post = p
           /\ ~reqs[r].row.deleted
           /\ reqs'[r] = Idle

LEMMA EditPostRevives ==
  ASSUME Inv, NEW r \in Requests, EditPost(r)
  PROVE  TombstonesKept
<1>1. PICK p \in ExistingPosts, read \in PostRow, body \in Bodies :
        /\ reqs[r].post = p /\ reqs[r].row = read
        /\ posts' = [posts EXCEPT ![p] = UpdatePost(read, body)]
        /\ UpdatePost(read, body) \in PostRow
  BY EditPostWrites
<1>2. UpdatePost(read, body).deleted = read.deleted
  BY DEF UpdatePost, PostRow
<1>3. /\ reqs'[r] = Idle /\ reqs[r].at = "editPost"
      /\ comments' = comments
  BY DEF EditPost, Ends, Goes, Inv, TypeOK
<1>4. \A q \in ExistingPosts : posts'[q] =
        IF q = p THEN UpdatePost(read, body) ELSE posts[q]
  BY <1>1 DEF Inv, TypeOK, ExistingPosts
<1> QED
  BY <1>1, <1>2, <1>3, <1>4 DEF TombstonesKept

LEMMA StepKeepsTombstones == Inv /\ [Next]_vars => TombstonesKept
<1> SUFFICES ASSUME Inv, [Next]_vars PROVE TombstonesKept
  OBVIOUS
<1>1. CASE OnlyReads
  BY <1>1 DEF OnlyReads, TombstonesKept
<1>2. ASSUME NEW r \in Requests, CreatePost(r)
      PROVE  TombstonesKept
  <2>1. PICK p \in Posts \ ExistingPosts, row \in PostRow :
          posts' = [posts EXCEPT ![p] = row]
    BY <1>2, CreatePostWrites
  <2>2. \A q \in ExistingPosts : posts'[q] = posts[q]
    BY <2>1 DEF Inv, TypeOK, ExistingPosts
  <2>3. comments' = comments
    BY <1>2 DEF CreatePost
  <2> QED
    BY <2>2, <2>3 DEF TombstonesKept
<1>3. ASSUME NEW r \in Requests, CreateComment(r)
      PROVE  TombstonesKept
  <2>1. PICK c \in Comments \ ExistingComments, row \in CommentRow :
          /\ comments' = [comments EXCEPT ![c] = row]
          /\ posts' = [posts EXCEPT ![row.post] = Bumped(@, c)]
          /\ row.post \in ExistingPosts
    BY <1>3, CreateCommentWrites
  <2>2. \A d \in ExistingComments : comments'[d] = comments[d]
    BY <2>1 DEF Inv, TypeOK, ExistingComments
  <2>3. posts[row.post] \in PostRow
    BY <2>1 DEF Inv, TypeOK, ExistingPosts
  <2>4. Bumped(posts[row.post], c).deleted = posts[row.post].deleted
    BY <2>3 DEF Bumped, PostRow
  <2>5. \A q \in ExistingPosts : posts'[q] =
          IF q = row.post THEN Bumped(posts[q], c) ELSE posts[q]
    BY <2>1 DEF Inv, TypeOK, ExistingPosts
  <2> QED
    BY <2>2, <2>4, <2>5 DEF TombstonesKept
<1>4. ASSUME NEW r \in Requests, EditComment(r)
      PROVE  TombstonesKept
  <2>1. PICK c \in ExistingComments, row \in CommentRow :
          /\ comments' = [comments EXCEPT ![c] = row]
          /\ row.deleted = comments[c].deleted
    BY <1>4, EditCommentWrites
  <2>2. \A d \in ExistingComments : comments'[d] =
          IF d = c THEN row ELSE comments[d]
    BY <2>1 DEF Inv, TypeOK, ExistingComments
  <2>3. posts' = posts
    BY <1>4 DEF EditComment
  <2> QED
    BY <2>1, <2>2, <2>3 DEF TombstonesKept
<1>5. ASSUME NEW r \in Requests, DeletePost(r)
      PROVE  TombstonesKept
  <2>1. PICK p \in ExistingPosts, row \in PostRow :
          posts' = [posts EXCEPT ![p] = row] /\ row.deleted
    BY <1>5, DeletePostWrites
  <2>2. \A q \in ExistingPosts : posts'[q] = IF q = p THEN row ELSE posts[q]
    BY <2>1 DEF Inv, TypeOK, ExistingPosts
  <2>3. comments' = comments
    BY <1>5 DEF DeletePost
  <2> QED
    BY <2>1, <2>2, <2>3 DEF TombstonesKept
<1>6. ASSUME NEW r \in Requests, DeleteComment(r)
      PROVE  TombstonesKept
  <2>1. PICK c \in ExistingComments, row \in CommentRow :
          comments' = [comments EXCEPT ![c] = row] /\ row.deleted
    BY <1>6, DeleteCommentWrites
  <2>2. \A d \in ExistingComments : comments'[d] =
          IF d = c THEN row ELSE comments[d]
    BY <2>1 DEF Inv, TypeOK, ExistingComments
  <2>3. posts' = posts
    BY <1>6 DEF DeleteComment
  <2> QED
    BY <2>1, <2>2, <2>3 DEF TombstonesKept
<1> QED
  BY <1>1, <1>2, <1>3, <1>4, <1>5, <1>6, EditPostRevives, StepKinds

\* A deleted comment stays deleted whatever edits of it are in flight, and a
\* deleted post is revived only by an edit that read it before (UpdatePost saves
\* the whole row, UpdateCommentBody two columns).
THEOREM TombstonesAreKept == Spec => TombstonesStay
<1>1. Inv /\ [Next]_vars => [TombstonesKept]_vars
  BY StepKeepsTombstones
<1>2. [TombstonesKept]_vars =>
        [/\ \A c \in ExistingComments :
              comments[c].deleted => comments'[c].deleted
         /\ \A p \in ExistingPosts :
              (posts[p].deleted /\ ~posts'[p].deleted) =>
                \E r \in Requests :
                  /\ reqs[r].at = "editPost" /\ reqs[r].post = p
                  /\ ~reqs[r].row.deleted
                  /\ reqs'[r] = Idle]_vars
  BY DEF TombstonesKept
<1> QED
  BY <1>1, <1>2, SpecInv, PTL DEF Spec, TombstonesStay

-----------------------------------------------------------------------------
\* What a request may learn in a step: the row that is stored, or the comments
\* that there are.
Learns(old, new) ==
  \/ new = old
  \/ new.at \notin {"editPost", "editComment", "listComments", "thread"}
  \/ /\ new.at \in {"editPost", "listComments"}
     /\ new.post \in ExistingPosts /\ new.row = posts[new.post]
  \/ /\ new.at = "editComment"
     /\ new.comment \in ExistingComments /\ new.row = comments[new.comment]
  \/ /\ new.at = "thread" /\ old.at = "listComments"
     /\ new.post = old.post /\ new.row = old.row
     /\ new.found = CommentsOf(old.post)

LEMMA GoesLearns ==
  ASSUME Inv, NEW r \in Requests, NEW state, Goes(r, state),
         Learns(reqs[r], state)
  PROVE  \A q \in Requests : Learns(reqs[q], reqs'[q])
<1>1. \A q \in Requests : reqs'[q] = IF q = r THEN state ELSE reqs[q]
  BY DEF Goes, Inv, TypeOK
<1> QED
  BY <1>1 DEF Learns

LEMMA RequestsLearn ==
  ASSUME Inv, [Next]_vars
  PROVE  \A q \in Requests : Learns(reqs[q], reqs'[q])
<1>1. CASE UNCHANGED vars \/ ArchiveBoard
  BY <1>1 DEF vars, ArchiveBoard, Learns
<1>2. ASSUME NEW r \in Requests, Ends(r)
      PROVE  \A q \in Requests : Learns(reqs[q], reqs'[q])
  <2>1. Goes(r, Idle) /\ Learns(reqs[r], Idle)
    BY <1>2 DEF Ends, Learns, Idle
  <2> QED
    BY <2>1, GoesLearns
<1>3. ASSUME NEW r \in Requests,
             \/ CreatePost(r) \/ CreateComment(r) \/ EditPost(r)
             \/ EditComment(r) \/ DeletePost(r) \/ DeleteComment(r) \/ Finish(r)
      PROVE  Ends(r)
  BY <1>3 DEF CreatePost, CreateComment, EditPost, EditComment, DeletePost,
              DeleteComment, Finish
<1>4. ASSUME NEW r \in Requests, CreatePostReadBoard(r)
      PROVE  \A q \in Requests : Learns(reqs[q], reqs'[q])
  <2>1. PICK u \in Users, b \in Boards :
          Goes(r, [at |-> "createPost", user |-> u, board |-> b])
    BY <1>4 DEF CreatePostReadBoard
  <2>2. Learns(reqs[r], [at |-> "createPost", user |-> u, board |-> b])
    BY DEF Learns
  <2> QED
    BY <2>1, <2>2, GoesLearns
<1>5. ASSUME NEW r \in Requests, CreateCommentReadPost(r)
      PROVE  \A q \in Requests : Learns(reqs[q], reqs'[q])
  <2>1. PICK u \in Users, p \in ExistingPosts, c \in Comments \cup {None} :
          Goes(r, [at |-> "readBoard", user |-> u, post |-> p,
                   board |-> posts[p].board, parent |-> c, path |-> << >>])
    BY <1>5 DEF CreateCommentReadPost
  <2>2. Learns(reqs[r], [at |-> "readBoard", user |-> u, post |-> p,
                   board |-> posts[p].board, parent |-> c, path |-> << >>])
    BY DEF Learns
  <2> QED
    BY <2>1, <2>2, GoesLearns
<1>6. ASSUME NEW r \in Requests, CreateCommentReadBoard(r)
      PROVE  \A q \in Requests : Learns(reqs[q], reqs'[q])
  <2>1. PICK at \in {"insertComment", "readParent"} :
          Ends(r) \/ Goes(r, [reqs[r] EXCEPT !.at = at])
    BY <1>6 DEF CreateCommentReadBoard
  <2>2. reqs[r] \in [at : {"readBoard", "readParent", "insertComment"},
                     user : Users, post : Posts, board : Boards,
                     parent : Comments \cup {None}, path : Seq(Comments)]
    BY <1>6, RequestFields DEF Inv, TypeOK, CreateCommentReadBoard
  <2>3. Learns(reqs[r], [reqs[r] EXCEPT !.at = at])
    BY <2>2 DEF Learns
  <2> QED
    BY <2>1, <2>3, <1>2, GoesLearns
<1>7. ASSUME NEW r \in Requests, CreateCommentReadParent(r)
      PROVE  \A q \in Requests : Learns(reqs[q], reqs'[q])
  <2>1. PICK path :
          Ends(r) \/ Goes(r, [reqs[r] EXCEPT !.at = "insertComment",
                                             !.path = path])
    BY <1>7 DEF CreateCommentReadParent
  <2>2. reqs[r] \in [at : {"readBoard", "readParent", "insertComment"},
                     user : Users, post : Posts, board : Boards,
                     parent : Comments \cup {None}, path : Seq(Comments)]
    BY <1>7, RequestFields DEF Inv, TypeOK, CreateCommentReadParent
  <2>3. Learns(reqs[r], [reqs[r] EXCEPT !.at = "insertComment", !.path = path])
    BY <2>2 DEF Learns
  <2> QED
    BY <2>1, <2>3, <1>2, GoesLearns
<1>8. ASSUME NEW r \in Requests, EditPostRead(r)
      PROVE  \A q \in Requests : Learns(reqs[q], reqs'[q])
  <2>1. PICK p \in ExistingPosts :
          Goes(r, [at |-> "editPost", post |-> p, row |-> posts[p]])
    BY <1>8 DEF EditPostRead
  <2>2. Learns(reqs[r], [at |-> "editPost", post |-> p, row |-> posts[p]])
    BY DEF Learns
  <2> QED
    BY <2>1, <2>2, GoesLearns
<1>9. ASSUME NEW r \in Requests, EditCommentRead(r)
      PROVE  \A q \in Requests : Learns(reqs[q], reqs'[q])
  <2>1. PICK c \in ExistingComments :
          Goes(r, [at |-> "editComment", comment |-> c, row |-> comments[c]])
    BY <1>9 DEF EditCommentRead
  <2>2. Learns(reqs[r],
               [at |-> "editComment", comment |-> c, row |-> comments[c]])
    BY DEF Learns
  <2> QED
    BY <2>1, <2>2, GoesLearns
<1>10. ASSUME NEW r \in Requests, DeletePostRead(r)
       PROVE  \A q \in Requests : Learns(reqs[q], reqs'[q])
  <2>1. PICK p : Goes(r, [at |-> "deletePost", post |-> p])
    BY <1>10 DEF DeletePostRead
  <2>2. Learns(reqs[r], [at |-> "deletePost", post |-> p])
    BY DEF Learns
  <2> QED
    BY <2>1, <2>2, GoesLearns
<1>11. ASSUME NEW r \in Requests, DeleteCommentRead(r)
       PROVE  \A q \in Requests : Learns(reqs[q], reqs'[q])
  <2>1. PICK c : Goes(r, [at |-> "deleteComment", comment |-> c])
    BY <1>11 DEF DeleteCommentRead
  <2>2. Learns(reqs[r], [at |-> "deleteComment", comment |-> c])
    BY DEF Learns
  <2> QED
    BY <2>1, <2>2, GoesLearns
<1>12. ASSUME NEW r \in Requests, GetThreadReadPost(r)
       PROVE  \A q \in Requests : Learns(reqs[q], reqs'[q])
  <2>1. PICK p \in ExistingPosts :
          Goes(r, [at |-> "listComments", post |-> p, row |-> posts[p]])
    BY <1>12 DEF GetThreadReadPost
  <2>2. Learns(reqs[r], [at |-> "listComments", post |-> p, row |-> posts[p]])
    BY DEF Learns
  <2> QED
    BY <2>1, <2>2, GoesLearns
<1>13. ASSUME NEW r \in Requests, GetThread(r)
       PROVE  \A q \in Requests : Learns(reqs[q], reqs'[q])
  <2>1. Learns(reqs[r], [at |-> "thread", post |-> reqs[r].post,
                 row |-> reqs[r].row, found |-> CommentsOf(reqs[r].post)])
    BY <1>13 DEF GetThread, Learns
  <2> QED
    BY <1>13, <2>1, GoesLearns DEF GetThread
<1> QED
  BY <1>1, <1>2, <1>3, <1>4, <1>5, <1>6, <1>7, <1>8, <1>9, <1>10, <1>11,
     <1>12, <1>13 DEF Next

-----------------------------------------------------------------------------
(***************************************************************************)
(* Histories.  An edit puts into the history the text that it read, which  *)
(* is one the item had (Shown), however many edits came in between.        *)
(***************************************************************************)

Existing == ExistingPosts \cup ExistingComments

Shown(t, body) == \E j \in 1..Len(versions[t]) : body = versions[t][j]

\* A row with the texts it had and the history it keeps.
AnchoredRow(vs, rs, row) ==
  /\ Len(vs) = Len(rs) + 1
  /\ row.body = vs[Len(vs)]
  /\ row.edited <=> rs # << >>
  /\ \A k \in 1..Len(rs) : \E j \in 1..k : rs[k] = vs[j]

KnowsText(req) ==
  /\ req.at = "editPost" => Shown(req.post, req.row.body)
  /\ req.at = "editComment" => Shown(req.comment, req.row.body)

HistInv ==
  /\ \A t \in Existing : AnchoredRow(versions[t], revisions[t], Row(t))
  /\ \A t \in Targets \ Existing : revisions[t] = << >>
  /\ \A r \in Requests : KnowsText(reqs[r])

\* No text is taken out of a list of versions, and no item goes.
TextsKept ==
  /\ ExistingPosts \subseteq ExistingPosts'
  /\ ExistingComments \subseteq ExistingComments'
  /\ \A t \in Existing :
       /\ Len(versions'[t]) >= Len(versions[t])
       /\ \A j \in 1..Len(versions[t]) : versions'[t][j] = versions[t][j]

LEMMA ShownStays ==
  ASSUME TypeOK, TypeOK', TextsKept, NEW t \in Existing, NEW body, Shown(t, body)
  PROVE  Shown(t, body)'
<1>1. t \in Targets
  BY DEF Existing, ExistingPosts, ExistingComments, Targets
<1>2. Len(versions[t]) \in Nat /\ Len(versions'[t]) \in Nat
  BY <1>1 DEF TypeOK
<1> QED
  BY <1>2 DEF Shown, TextsKept

LEMMA AnchorFirst ==
  ASSUME NEW body, NEW row, row.body = body, ~row.edited
  PROVE  AnchoredRow(<<body>>, << >>, row)
  BY DEF AnchoredRow

LEMMA AnchorEdited ==
  ASSUME NEW vs \in Seq(Bodies), NEW rs \in Seq(Bodies), NEW old, NEW row,
         NEW prev \in Bodies, NEW body \in Bodies,
         AnchoredRow(vs, rs, old), \E j \in 1..Len(vs) : prev = vs[j],
         row.body = body, row.edited = TRUE
  PROVE  AnchoredRow(Append(vs, body), Append(rs, prev), row)
<1> DEFINE vs2 == Append(vs, body)
           rs2 == Append(rs, prev)
<1>1. /\ Len(vs2) = Len(vs) + 1 /\ Len(rs2) = Len(rs) + 1
      /\ vs2[Len(vs) + 1] = body /\ rs2[Len(rs) + 1] = prev
      /\ \A j \in 1..Len(vs) : vs2[j] = vs[j]
      /\ \A j \in 1..Len(rs) : rs2[j] = rs[j]
  OBVIOUS
<1>2. Len(vs) = Len(rs) + 1
  BY DEF AnchoredRow
<1>3. rs2 # << >>
  BY <1>1
<1> HIDE DEF vs2, rs2
<1>4. ASSUME NEW k \in 1..Len(rs2)
      PROVE  \E j \in 1..k : rs2[k] = vs2[j]
  <2>1. CASE k \in 1..Len(rs)
    BY <1>1, <1>2, <2>1 DEF AnchoredRow
  <2>2. CASE k = Len(rs) + 1
    BY <1>1, <1>2, <2>2
  <2> QED
    BY <1>1, <2>1, <2>2
<1> QED
  BY <1>1, <1>2, <1>3, <1>4 DEF AnchoredRow, vs2, rs2

LEMMA RowsNow ==
  /\ \A p \in Posts : Row(p) = posts[p]
  /\ \A c \in Comments : Row(c) = comments[c]
  BY ThreadsAssumption DEF Row

\* The text an item has is one that it had, also after the step.
LEMMA CurrentIsShown ==
  ASSUME TypeOK, TypeOK', HistInv, TextsKept, NEW t \in Existing,
         NEW body, body = Row(t).body
  PROVE  Shown(t, body)'
<1>1. t \in Targets
  BY DEF Existing, ExistingPosts, ExistingComments, Targets
<1>2. Len(versions[t]) \in 1..Len(versions[t]) /\ body = versions[t][Len(versions[t])]
  <2>1. Len(versions[t]) = Len(revisions[t]) + 1
    BY DEF HistInv, AnchoredRow
  <2>2. Len(versions[t]) \in Nat /\ Len(revisions[t]) \in Nat
    BY <1>1 DEF TypeOK
  <2> QED
    BY <2>1, <2>2 DEF HistInv, AnchoredRow
<1>3. Shown(t, body)
  BY <1>2 DEF Shown
<1> QED
  BY <1>3, ShownStays

\* What a request knows of texts it goes on knowing.
LEMMA TextsStayKnown ==
  ASSUME Inv, Inv', HistInv, [Next]_vars, TextsKept, NEW q \in Requests
  PROVE  KnowsText(reqs[q])'
<1>1. TypeOK /\ TypeOK'
  BY DEF Inv
<1>2. Learns(reqs[q], reqs'[q])
  BY RequestsLearn
<1>3. Justified(reqs[q]) /\ KnowsText(reqs[q])
  BY DEF Inv, HistInv
<1>4. PICK new : new = reqs'[q]
  OBVIOUS
<1>5. ASSUME new.at = "editPost"
      PROVE  Shown(new.post, new.row.body)'
  <2>1. CASE new = reqs[q]
    <3>1. new.post \in Existing /\ Shown(new.post, new.row.body)
      BY <1>3, <1>5, <2>1 DEF Justified, KnowsText, Existing
    <3> QED
      BY <1>1, <3>1, ShownStays
  <2>2. CASE new.post \in ExistingPosts /\ new.row = posts[new.post]
    <3>1. new.post \in Existing /\ new.row.body = Row(new.post).body
      BY <2>2, RowsNow DEF Existing, ExistingPosts
    <3> QED
      BY <1>1, <3>1, CurrentIsShown
  <2> QED
    BY <1>2, <1>4, <1>5, <2>1, <2>2 DEF Learns
<1>6. ASSUME new.at = "editComment"
      PROVE  Shown(new.comment, new.row.body)'
  <2>1. CASE new = reqs[q]
    <3>1. new.comment \in Existing /\ Shown(new.comment, new.row.body)
      BY <1>3, <1>6, <2>1 DEF Justified, KnowsText, Existing
    <3> QED
      BY <1>1, <3>1, ShownStays
  <2>2. CASE new.comment \in ExistingComments /\ new.row = comments[new.comment]
    <3>1. new.comment \in Existing /\ new.row.body = Row(new.comment).body
      BY <2>2, RowsNow DEF Existing, ExistingComments
    <3> QED
      BY <1>1, <3>1, CurrentIsShown
  <2> QED
    BY <1>2, <1>4, <1>6, <2>1, <2>2 DEF Learns
<1> QED
  BY <1>4, <1>5, <1>6 DEF KnowsText, Shown

LEMMA OnlyReadsKeepsHist ==
  ASSUME Inv, Inv', HistInv, [Next]_vars, OnlyReads
  PROVE  HistInv'
<1>1. TextsKept
  BY DEF TextsKept, OnlyReads, ExistingPosts, ExistingComments, Inv, TypeOK,
         Existing, Targets
<1>2. \A q \in Requests : KnowsText(reqs[q])'
  BY <1>1, TextsStayKnown
<1>3. \A t \in Existing' : AnchoredRow(versions[t], revisions[t], Row(t))'
  BY DEF HistInv, OnlyReads, Existing, ExistingPosts, ExistingComments, Row,
         AnchoredRow
<1>4. \A t \in Targets \ Existing' : revisions'[t] = << >>
  BY DEF HistInv, OnlyReads, Existing, ExistingPosts, ExistingComments
<1> QED
  BY <1>2, <1>3, <1>4 DEF HistInv

\* One item is written, with a text more or the first one; the others are not.
LEMMA OneItemKeepsHist ==
  ASSUME Inv, Inv', HistInv, [Next]_vars, NEW x \in Targets, TextsKept,
         Existing' = Existing \cup {x},
         \A t \in Targets \ {x} :
           /\ versions'[t] = versions[t] /\ revisions'[t] = revisions[t]
           /\ t \in Existing => /\ Row(t)'.body = Row(t).body
                                /\ Row(t)'.edited = Row(t).edited,
         AnchoredRow(versions[x], revisions[x], Row(x))'
  PROVE  HistInv'
<1>1. \A q \in Requests : KnowsText(reqs[q])'
  BY TextsStayKnown
<1>2. ASSUME NEW t \in Existing', t # x
      PROVE  AnchoredRow(versions[t], revisions[t], Row(t))'
  <2>1. t \in Existing /\ t \in Targets \ {x}
    BY <1>2 DEF Existing, ExistingPosts, ExistingComments, Targets
  <2>2. AnchoredRow(versions[t], revisions[t], Row(t))
    BY <2>1 DEF HistInv
  <2>3. /\ versions'[t] = versions[t] /\ revisions'[t] = revisions[t]
        /\ Row(t)'.body = Row(t).body /\ Row(t)'.edited = Row(t).edited
    BY <2>1
  <2> QED
    BY <2>2, <2>3 DEF AnchoredRow
<1>3. \A t \in Targets \ Existing' : revisions'[t] = << >>
  BY DEF HistInv
<1> QED
  BY <1>1, <1>2, <1>3 DEF HistInv

LEMMA RowsNext ==
  /\ \A p \in Posts : Row(p)' = posts'[p]
  /\ \A c \in Comments : Row(c)' = comments'[c]
  BY ThreadsAssumption DEF Row

LEMMA CreatePostKeepsHist ==
  ASSUME Inv, Inv', HistInv, [Next]_vars, NEW r \in Requests, CreatePost(r)
  PROVE  HistInv'
<1>1. PICK p \in Posts \ ExistingPosts, row \in PostRow :
           /\ posts' = [posts EXCEPT ![p] = row]
           /\ versions' = [versions EXCEPT ![p] = <<row.body>>]
           /\ ~row.edited
           /\ ExistingPosts' = ExistingPosts \cup {p}
  BY CreatePostWrites
<1>2. comments' = comments /\ revisions' = revisions
  BY DEF CreatePost
<1>3. p \in Targets /\ p \notin ExistingComments /\ p \notin Existing
  BY ThreadsAssumption DEF Targets, Existing, ExistingComments
<1>4. /\ ExistingComments' = ExistingComments
      /\ Existing' = Existing \cup {p}
  BY <1>1, <1>2 DEF Existing, ExistingComments
<1>5. /\ posts'[p] = row /\ versions'[p] = <<row.body>> /\ revisions'[p] = << >>
      /\ \A q \in Posts \ {p} : posts'[q] = posts[q]
      /\ \A t \in Targets \ {p} : versions'[t] = versions[t]
  BY <1>1, <1>2, <1>3 DEF HistInv, Inv, TypeOK
<1>6. AnchoredRow(versions[p], revisions[p], Row(p))'
  BY <1>1, <1>5, RowsNext, AnchorFirst DEF AnchoredRow
<1>7. TextsKept
  BY <1>1, <1>3, <1>4, <1>5
     DEF TextsKept, Inv, TypeOK, Existing, ExistingPosts, ExistingComments, Targets
<1>8. \A t \in Targets \ {p} : Row(t)' = Row(t)
  BY <1>2, <1>5, RowsNow, RowsNext DEF Targets
<1> QED
  BY <1>2, <1>3, <1>4, <1>5, <1>6, <1>7, <1>8, OneItemKeepsHist

LEMMA CreateCommentKeepsHist ==
  ASSUME Inv, Inv', HistInv, [Next]_vars, NEW r \in Requests, CreateComment(r)
  PROVE  HistInv'
<1>1. PICK c \in Comments \ ExistingComments, row \in CommentRow :
           /\ comments' = [comments EXCEPT ![c] = row]
           /\ posts' = [posts EXCEPT ![row.post] = Bumped(@, c)]
           /\ versions' = [versions EXCEPT ![c] = <<row.body>>]
           /\ ~row.edited
           /\ row.post \in ExistingPosts
           /\ ExistingPosts' = ExistingPosts
           /\ ExistingComments' = ExistingComments \cup {c}
  BY CreateCommentWrites
<1>2. revisions' = revisions
  BY DEF CreateComment
<1>3. c \in Targets /\ c \notin ExistingPosts /\ c \notin Existing
  BY ThreadsAssumption DEF Targets, Existing, ExistingPosts
<1>4. Existing' = Existing \cup {c}
  BY <1>1 DEF Existing
<1>5. /\ comments'[c] = row /\ versions'[c] = <<row.body>> /\ revisions'[c] = << >>
      /\ \A d \in Comments \ {c} : comments'[d] = comments[d]
      /\ \A t \in Targets \ {c} : versions'[t] = versions[t]
  BY <1>1, <1>2, <1>3 DEF HistInv, Inv, TypeOK
<1>6. AnchoredRow(versions[c], revisions[c], Row(c))'
  BY <1>1, <1>5, RowsNext, AnchorFirst DEF AnchoredRow
<1>7. TextsKept
  BY <1>1, <1>3, <1>4, <1>5
     DEF TextsKept, Inv, TypeOK, Existing, ExistingPosts, ExistingComments, Targets
<1>8. \A p \in ExistingPosts : /\ posts'[p].body = posts[p].body
                               /\ posts'[p].edited = posts[p].edited
  <2>1. posts[row.post] \in PostRow
    BY <1>1 DEF Inv, TypeOK, ExistingPosts
  <2>2. /\ Bumped(posts[row.post], c).body = posts[row.post].body
        /\ Bumped(posts[row.post], c).edited = posts[row.post].edited
    BY <2>1 DEF Bumped, PostRow
  <2>3. \A p \in Posts : posts'[p] = IF p = row.post
                                     THEN Bumped(posts[row.post], c) ELSE posts[p]
    BY <1>1 DEF Inv, TypeOK
  <2> QED
    BY <2>2, <2>3 DEF ExistingPosts
<1>9. \A t \in Existing : /\ Row(t)'.body = Row(t).body
                          /\ Row(t)'.edited = Row(t).edited
  <2>1. \A p \in ExistingPosts : Row(p) = posts[p] /\ Row(p)' = posts'[p]
    BY RowsNow, RowsNext DEF ExistingPosts
  <2>2. \A d \in ExistingComments : Row(d) = comments[d] /\ Row(d)' = comments[d]
    BY <1>5, RowsNow, RowsNext DEF ExistingComments
  <2> QED
    BY <1>8, <2>1, <2>2 DEF Existing
<1> QED
  BY <1>2, <1>3, <1>4, <1>5, <1>6, <1>7, <1>9, OneItemKeepsHist

LEMMA EditPostKeepsHist ==
  ASSUME Inv, Inv', HistInv, [Next]_vars, NEW r \in Requests, EditPost(r)
  PROVE  HistInv'
<1>1. PICK p \in ExistingPosts, read \in PostRow, body \in Bodies :
           /\ reqs[r].post = p /\ reqs[r].row = read
           /\ posts' = [posts EXCEPT ![p] = UpdatePost(read, body)]
           /\ revisions' = [revisions EXCEPT ![p] = Append(@, read.body)]
           /\ versions' = [versions EXCEPT ![p] = Append(@, body)]
           /\ UpdatePost(read, body) \in PostRow
           /\ ExistingPosts' = ExistingPosts
  BY EditPostWrites
<1>2. comments' = comments
  BY DEF EditPost
<1>3. p \in Posts /\ p \in Targets /\ p \in Existing
  BY DEF Targets, Existing, ExistingPosts
<1>4. Existing' = Existing \cup {p} /\ ExistingComments' = ExistingComments
  BY <1>1, <1>2, <1>3 DEF Existing, ExistingComments
<1>5. /\ posts'[p] = UpdatePost(read, body)
      /\ versions'[p] = Append(versions[p], body)
      /\ revisions'[p] = Append(revisions[p], read.body)
      /\ \A q \in Posts \ {p} : posts'[q] = posts[q]
      /\ \A t \in Targets \ {p} : /\ versions'[t] = versions[t]
                                  /\ revisions'[t] = revisions[t]
  BY <1>1, <1>3 DEF Inv, TypeOK
<1>6. /\ versions[p] \in Seq(Bodies) /\ revisions[p] \in Seq(Bodies)
      /\ read.body \in Bodies
  BY <1>3 DEF Inv, TypeOK, PostRow
<1>7. Shown(p, read.body)
  <2>1. KnowsText(reqs[r]) /\ reqs[r].at = "editPost"
    BY DEF HistInv, EditPost
  <2> QED
    BY <1>1, <2>1 DEF KnowsText
<1>8. UpdatePost(read, body).body = body /\ UpdatePost(read, body).edited = TRUE
  BY DEF UpdatePost, PostRow
<1>9. AnchoredRow(versions[p], revisions[p], Row(p))'
  <2>1. AnchoredRow(versions[p], revisions[p], Row(p))
    BY <1>3 DEF HistInv
  <2>2. \E j \in 1..Len(versions[p]) : read.body = versions[p][j]
    BY <1>7 DEF Shown
  <2>3. AnchoredRow(Append(versions[p], body), Append(revisions[p], read.body),
                    UpdatePost(read, body))
    BY <1>6, <1>8, <2>1, <2>2, AnchorEdited
  <2>4. AnchoredRow(versions'[p], revisions'[p], posts'[p])
    BY <1>5, <2>3
  <2> QED
    BY <1>3, <2>4, RowsNext
<1>10. TextsKept
  <2>1. \A j \in 1..Len(versions[p]) : versions'[p][j] = versions[p][j]
    BY <1>5, <1>6
  <2>2. Len(versions'[p]) >= Len(versions[p])
    BY <1>5, <1>6
  <2>3. \A t \in Existing : Len(versions[t]) \in Nat
    BY DEF Existing, ExistingPosts, ExistingComments, Targets, Inv, TypeOK
  <2> QED
    BY <1>1, <1>4, <1>5, <2>1, <2>2, <2>3
       DEF TextsKept, Existing, ExistingPosts, ExistingComments, Targets
<1>11. \A t \in Targets \ {p} : Row(t)' = Row(t)
  BY <1>2, <1>5, RowsNow, RowsNext DEF Targets
<1> QED
  BY <1>3, <1>4, <1>5, <1>9, <1>10, <1>11, OneItemKeepsHist

LEMMA EditCommentKeepsHist ==
  ASSUME Inv, Inv', HistInv, [Next]_vars, NEW r \in Requests, EditComment(r)
  PROVE  HistInv'
<1>1. PICK c \in ExistingComments, row \in CommentRow, body \in Bodies :
           /\ reqs[r].comment = c
           /\ comments' = [comments EXCEPT ![c] = row]
           /\ revisions' = [revisions EXCEPT ![c] = Append(@, reqs[r].row.body)]
           /\ versions' = [versions EXCEPT ![c] = Append(@, body)]
           /\ row.body = body /\ row.edited
  BY EditCommentWrites
<1>2. posts' = posts
  BY DEF EditComment
<1>3. c \in Comments /\ c \in Targets /\ c \in Existing
  BY DEF Targets, Existing, ExistingComments
<1>4. PICK prev : prev = reqs[r].row.body
  OBVIOUS
<1>5. /\ comments'[c] = row
      /\ versions'[c] = Append(versions[c], body)
      /\ revisions'[c] = Append(revisions[c], prev)
      /\ \A d \in Comments \ {c} : comments'[d] = comments[d]
      /\ \A t \in Targets \ {c} : /\ versions'[t] = versions[t]
                                  /\ revisions'[t] = revisions[t]
  BY <1>1, <1>3, <1>4 DEF Inv, TypeOK
<1>6. ExistingComments' = ExistingComments /\ ExistingPosts' = ExistingPosts
  BY <1>1, <1>2, <1>5, NoneIsNoRow DEF ExistingComments, ExistingPosts
<1>7. Existing' = Existing \cup {c}
  BY <1>3, <1>6 DEF Existing
<1>8. /\ versions[c] \in Seq(Bodies) /\ revisions[c] \in Seq(Bodies)
      /\ prev \in Bodies
  <2>1. reqs[r].row \in CommentRow
    BY RequestFields DEF Inv, TypeOK, EditComment
  <2> QED
    BY <1>3, <1>4, <2>1 DEF Inv, TypeOK, CommentRow
<1>9. Shown(c, prev)
  <2>1. KnowsText(reqs[r]) /\ reqs[r].at = "editComment"
    BY DEF HistInv, EditComment
  <2> QED
    BY <1>1, <1>4, <2>1 DEF KnowsText
<1>10. AnchoredRow(versions[c], revisions[c], Row(c))'
  <2>1. AnchoredRow(versions[c], revisions[c], Row(c))
    BY <1>3 DEF HistInv
  <2>2. row.edited = TRUE
    BY <1>1 DEF CommentRow
  <2>3. \E j \in 1..Len(versions[c]) : prev = versions[c][j]
    BY <1>9 DEF Shown
  <2>4. AnchoredRow(Append(versions[c], body), Append(revisions[c], prev), row)
    BY <1>1, <1>8, <2>1, <2>2, <2>3, AnchorEdited
  <2>5. AnchoredRow(versions'[c], revisions'[c], comments'[c])
    BY <1>5, <2>4
  <2> QED
    BY <1>3, <2>5, RowsNext
<1>11. TextsKept
  <2>1. \A j \in 1..Len(versions[c]) : versions'[c][j] = versions[c][j]
    BY <1>5, <1>8
  <2>2. Len(versions'[c]) >= Len(versions[c])
    BY <1>5, <1>8
  <2>3. ASSUME NEW t \in Existing
        PROVE  /\ Len(versions'[t]) >= Len(versions[t])
               /\ \A j \in 1..Len(versions[t]) : versions'[t][j] = versions[t][j]
    <3>1. t \in Targets /\ Len(versions[t]) \in Nat
      BY DEF Existing, ExistingPosts, ExistingComments, Targets, Inv, TypeOK
    <3>2. CASE t = c
      BY <2>1, <2>2, <3>2
    <3>3. CASE t # c
      BY <1>5, <3>1, <3>3
    <3> QED
      BY <3>2, <3>3
  <2> QED
    BY <1>6, <2>3 DEF TextsKept, ExistingPosts, ExistingComments
<1>12. \A t \in Targets \ {c} : Row(t)' = Row(t)
  BY <1>2, <1>5, RowsNow, RowsNext DEF Targets
<1> QED
  BY <1>3, <1>5, <1>7, <1>10, <1>11, <1>12, OneItemKeepsHist

\* A deletion keeps texts and marks.
LEMMA DeleteKeepsHist ==
  ASSUME Inv, Inv', HistInv, [Next]_vars, NEW x \in Existing,
         UNCHANGED <<revisions, versions>>, Existing' = Existing,
         ExistingPosts' = ExistingPosts, ExistingComments' = ExistingComments,
         \A t \in Existing : /\ Row(t)'.body = Row(t).body
                             /\ Row(t)'.edited = Row(t).edited
  PROVE  HistInv'
<1>1. x \in Targets /\ Existing' = Existing \cup {x}
  BY DEF Existing, ExistingPosts, ExistingComments, Targets
<1>2. AnchoredRow(versions[x], revisions[x], Row(x))'
  BY DEF HistInv, AnchoredRow
<1>3. TextsKept
  BY DEF TextsKept, Inv, TypeOK, Existing, ExistingPosts, ExistingComments, Targets
<1> QED
  BY <1>1, <1>2, <1>3, OneItemKeepsHist

LEMMA DeletePostKeepsHist ==
  ASSUME Inv, Inv', HistInv, [Next]_vars, NEW r \in Requests, DeletePost(r)
  PROVE  HistInv'
<1>1. PICK p \in ExistingPosts, row \in PostRow :
           /\ posts' = [posts EXCEPT ![p] = row]
           /\ row.body = posts[p].body /\ row.edited = posts[p].edited
           /\ ExistingPosts' = ExistingPosts
  BY DeletePostWrites
<1>2. UNCHANGED <<comments, revisions, versions>>
  BY DEF DeletePost
<1>3. \A q \in ExistingPosts : /\ posts'[q].body = posts[q].body
                               /\ posts'[q].edited = posts[q].edited
  BY <1>1 DEF ExistingPosts, Inv, TypeOK
<1>4. \A t \in Existing : /\ Row(t)'.body = Row(t).body
                          /\ Row(t)'.edited = Row(t).edited
  BY <1>2, <1>3, RowsNow, RowsNext DEF Existing, ExistingPosts, ExistingComments
<1>5. ExistingComments' = ExistingComments /\ Existing' = Existing /\ p \in Existing
  BY <1>1, <1>2 DEF Existing, ExistingComments
<1> QED
  BY <1>1, <1>2, <1>4, <1>5, DeleteKeepsHist

LEMMA DeleteCommentKeepsHist ==
  ASSUME Inv, Inv', HistInv, [Next]_vars, NEW r \in Requests, DeleteComment(r)
  PROVE  HistInv'
<1>1. PICK c \in ExistingComments, row \in CommentRow :
           /\ comments' = [comments EXCEPT ![c] = row]
           /\ row.body = comments[c].body /\ row.edited = comments[c].edited
  BY DeleteCommentWrites
<1>2. UNCHANGED <<posts, revisions, versions>>
  BY DEF DeleteComment
<1>3. \A d \in Comments : comments'[d] = IF d = c THEN row ELSE comments[d]
  BY <1>1 DEF Inv, TypeOK
<1>4. \A t \in Existing : /\ Row(t)'.body = Row(t).body
                          /\ Row(t)'.edited = Row(t).edited
  BY <1>1, <1>2, <1>3, RowsNow, RowsNext
     DEF Existing, ExistingPosts, ExistingComments
<1>5. /\ ExistingComments' = ExistingComments /\ ExistingPosts' = ExistingPosts
      /\ c \in Existing
  BY <1>2, <1>3, NoneIsNoRow DEF Existing, ExistingComments, ExistingPosts
<1> QED
  BY <1>1, <1>2, <1>4, <1>5, DeleteKeepsHist DEF Existing

LEMMA InitHist == Init => HistInv
  BY DEF Init, HistInv, Existing, ExistingPosts, ExistingComments, KnowsText, Idle

LEMMA NextKeepsHist == Inv /\ Inv' /\ HistInv /\ [Next]_vars => HistInv'
  BY StepKinds, OnlyReadsKeepsHist, CreatePostKeepsHist, CreateCommentKeepsHist,
     EditPostKeepsHist, EditCommentKeepsHist, DeletePostKeepsHist,
     DeleteCommentKeepsHist

\* However edits of an item overlap, each leaves one revision, of a text that the
\* item had by then, so the first text is never lost; the row shows the last
\* (EditPost, EditComment, CreateRevision).
THEOREM HistoriesAnchored == Spec => []HistoryAnchored
<1>1. HistInv => HistoryAnchored
  BY DEF HistInv, HistoryAnchored, AnchoredRow, Existing
<1>2. Init => HistInv
  BY InitHist
<1>3. Inv /\ Inv' /\ HistInv /\ [Next]_vars => HistInv'
  BY NextKeepsHist
<1> QED
  BY <1>1, <1>2, <1>3, SpecInv, PTL DEF Spec

-----------------------------------------------------------------------------
(***************************************************************************)
(* Counts.  Every row of a post that is stored, or that a request still    *)
(* carries, counts no more comments than there are now.                    *)
(***************************************************************************)

Tallied(p, row) ==
  /\ row.count <= Cardinality(CommentsOf(p))
  /\ row.count = 0 <=> row.bump = None
  /\ row.bump # None => row.bump \in CommentsOf(p)

KnowsCount(req) ==
  /\ req.at \in {"editPost", "listComments"} => Tallied(req.post, req.row)
  /\ req.at = "thread" => /\ req.found \subseteq CommentsOf(req.post)
                          /\ req.row.count <= Cardinality(req.found)

CountInv ==
  /\ \A p \in ExistingPosts :
       /\ Tallied(p, posts[p])
       /\ ~posts[p].edited => posts[p].count = Cardinality(CommentsOf(p))
  /\ \A c \in ExistingComments : comments[c].post \in ExistingPosts
  /\ \A r \in Requests : KnowsCount(reqs[r])

CommentsKept == \A p \in Posts : CommentsOf(p) \subseteq CommentsOf(p)'

LEMMA Counted ==
  ASSUME NEW S \in SUBSET Comments
  PROVE  IsFiniteSet(S) /\ Cardinality(S) \in Nat
  BY ThreadsAssumption, FS_Subset, FS_CardinalityType

LEMMA CountGrows ==
  ASSUME NEW S \in SUBSET Comments, NEW T \in SUBSET Comments, S \subseteq T
  PROVE  Cardinality(S) <= Cardinality(T)
  BY Counted, FS_Subset

LEMMA CommentsOfType ==
  \A p : CommentsOf(p) \subseteq Comments /\ CommentsOf(p)' \subseteq Comments
  BY DEF CommentsOf, ExistingComments

LEMMA TallyStays ==
  ASSUME CommentsKept, NEW p \in Posts, NEW row \in PostRow, Tallied(p, row)
  PROVE  Tallied(p, row)'
<1>1. CommentsOf(p) \subseteq CommentsOf(p)'
  BY DEF CommentsKept
<1>2. /\ Cardinality(CommentsOf(p)) \in Nat /\ Cardinality(CommentsOf(p)') \in Nat
      /\ Cardinality(CommentsOf(p)) <= Cardinality(CommentsOf(p)')
  BY <1>1, CommentsOfType, Counted, CountGrows
<1>3. row.count \in Nat
  BY DEF PostRow
<1>4. row.count <= Cardinality(CommentsOf(p)')
  BY <1>2, <1>3 DEF Tallied
<1> QED
  BY <1>1, <1>4 DEF Tallied

LEMMA CountsStayKnown ==
  ASSUME Inv, CountInv, [Next]_vars, CommentsKept, NEW q \in Requests
  PROVE  KnowsCount(reqs[q])'
<1>1. Learns(reqs[q], reqs'[q])
  BY RequestsLearn
<1>2. KnowsCount(reqs[q]) /\ reqs[q] \in Request
  BY DEF CountInv, Inv, TypeOK
<1>3. PICK old : old = reqs[q]
  OBVIOUS
<1>4. PICK new : new = reqs'[q]
  OBVIOUS
<1>5. ASSUME new.at \in {"editPost", "listComments"}
      PROVE  Tallied(new.post, new.row)'
  <2>1. CASE new = old
    <3>1. new.post \in Posts /\ new.row \in PostRow
      BY <1>2, <1>3, <1>5, <2>1, RequestFields
    <3>2. Tallied(new.post, new.row)
      BY <1>2, <1>3, <1>5, <2>1 DEF KnowsCount
    <3> QED
      BY <3>1, <3>2, TallyStays
  <2>2. CASE new.post \in ExistingPosts /\ new.row = posts[new.post]
    <3>1. new.post \in Posts /\ new.row \in PostRow
      BY <2>2 DEF ExistingPosts, Inv, TypeOK
    <3>2. Tallied(new.post, new.row)
      BY <2>2 DEF CountInv
    <3> QED
      BY <3>1, <3>2, TallyStays
  <2> QED
    BY <1>1, <1>3, <1>4, <1>5, <2>1, <2>2 DEF Learns
<1>6. ASSUME new.at = "thread"
      PROVE  /\ new.found \subseteq CommentsOf(new.post)'
             /\ new.row.count <= Cardinality(new.found)
  <2>1. CASE new = old
    <3>1. new.post \in Posts
      BY <1>2, <1>3, <1>6, <2>1, RequestFields
    <3> QED
      BY <1>2, <1>3, <1>6, <2>1, <3>1 DEF KnowsCount, CommentsKept
  <2>2. CASE /\ old.at = "listComments" /\ new.post = old.post
             /\ new.row = old.row /\ new.found = CommentsOf(old.post)
    <3>1. old.post \in Posts
      BY <1>2, <1>3, <2>2, RequestFields
    <3>2. Tallied(old.post, old.row)
      BY <1>2, <1>3, <2>2 DEF KnowsCount
    <3> QED
      BY <2>2, <3>1, <3>2 DEF Tallied, CommentsKept
  <2> QED
    BY <1>1, <1>3, <1>4, <1>6, <2>1, <2>2 DEF Learns
<1> QED
  BY <1>4, <1>5, <1>6 DEF KnowsCount, Tallied

\* Where no comment is added, the rows of posts are all there is to look at.
LEMMA SameCommentsKeepCount ==
  ASSUME Inv, CountInv, [Next]_vars, ExistingPosts \subseteq ExistingPosts',
         \A p \in Posts : CommentsOf(p)' = CommentsOf(p),
         ExistingComments' = ExistingComments,
         \A c \in ExistingComments : comments'[c].post = comments[c].post,
         \A p \in ExistingPosts' :
           /\ Tallied(p, posts'[p])
           /\ ~posts'[p].edited => posts'[p].count = Cardinality(CommentsOf(p))
  PROVE  CountInv'
<1>1. \A q \in Requests : KnowsCount(reqs[q])'
  BY CountsStayKnown DEF CommentsKept
<1>2. ASSUME NEW p \in ExistingPosts'
      PROVE  /\ Tallied(p, posts[p])'
             /\ ~posts'[p].edited =>
                  posts'[p].count = Cardinality(CommentsOf(p))'
  BY DEF Tallied, ExistingPosts
<1>3. \A c \in ExistingComments' : comments'[c].post \in ExistingPosts'
  BY DEF CountInv
<1> QED
  BY <1>1, <1>2, <1>3 DEF CountInv

LEMMA CommentsUnmoved ==
  ASSUME comments' = comments
  PROVE  /\ \A p \in Posts : CommentsOf(p)' = CommentsOf(p)
         /\ ExistingComments' = ExistingComments
  BY DEF CommentsOf, ExistingComments

LEMMA CreatePostKeepsCount ==
  ASSUME Inv, CountInv, [Next]_vars, NEW r \in Requests, CreatePost(r)
  PROVE  CountInv'
<1>1. PICK p \in Posts \ ExistingPosts, row \in PostRow :
           /\ posts' = [posts EXCEPT ![p] = row]
           /\ row.count = 0 /\ row.bump = None
           /\ ExistingPosts' = ExistingPosts \cup {p}
  BY CreatePostWrites
<1>2. comments' = comments
  BY DEF CreatePost
<1>3. CommentsOf(p) = {} /\ Cardinality(CommentsOf(p)) = 0
  <2>1. CommentsOf(p) = {}
    BY DEF CountInv, CommentsOf
  <2> QED
    BY <2>1, FS_EmptySet
<1>4. \A q \in Posts : posts'[q] = IF q = p THEN row ELSE posts[q]
  BY <1>1 DEF Inv, TypeOK
<1>5. Tallied(p, row) /\ row.count = Cardinality(CommentsOf(p))
  BY <1>1, <1>3 DEF Tallied
<1>6. \A q \in ExistingPosts' :
           /\ Tallied(q, posts'[q])
           /\ ~posts'[q].edited => posts'[q].count = Cardinality(CommentsOf(q))
  BY <1>1, <1>4, <1>5 DEF CountInv, ExistingPosts
<1> QED
  BY <1>1, <1>2, <1>6, CommentsUnmoved, SameCommentsKeepCount

LEMMA CreateCommentKeepsCount ==
  ASSUME Inv, CountInv, [Next]_vars, NEW r \in Requests, CreateComment(r)
  PROVE  CountInv'
<1>1. PICK c \in Comments \ ExistingComments, row \in CommentRow :
           /\ comments' = [comments EXCEPT ![c] = row]
           /\ posts' = [posts EXCEPT ![row.post] = Bumped(@, c)]
           /\ row.post \in ExistingPosts
           /\ ExistingPosts' = ExistingPosts
           /\ ExistingComments' = ExistingComments \cup {c}
  BY CreateCommentWrites
<1>2. PICK p : p = row.post
  OBVIOUS
<1>3. PICK old : old = posts[p]
  OBVIOUS
<1>4. p \in ExistingPosts /\ p \in Posts /\ old \in PostRow
  BY <1>1, <1>2, <1>3 DEF ExistingPosts, Inv, TypeOK
<1>5. /\ comments'[c] = row
      /\ \A d \in Comments \ {c} : comments'[d] = comments[d]
      /\ \A q \in Posts : posts'[q] = IF q = p THEN Bumped(old, c) ELSE posts[q]
  BY <1>1, <1>2, <1>3 DEF Inv, TypeOK
<1>6. /\ CommentsOf(p)' = CommentsOf(p) \cup {c}
      /\ \A q \in Posts \ {p} : CommentsOf(q)' = CommentsOf(q)
  BY <1>1, <1>2, <1>5 DEF CommentsOf, ExistingComments
<1>7. PICK S \in SUBSET Comments, n \in Nat :
        S = CommentsOf(p) /\ n = Cardinality(S)
  BY CommentsOfType, Counted
<1>8. Cardinality(CommentsOf(p)') = n + 1
  <2>1. c \notin S
    BY <1>7 DEF CommentsOf
  <2>2. IsFiniteSet(S)
    BY Counted
  <2> QED
    BY <1>6, <1>7, <2>1, <2>2, FS_AddElement
<1>9. /\ Bumped(old, c).count = old.count + 1 /\ Bumped(old, c).bump = c
      /\ Bumped(old, c).edited = old.edited
  BY <1>4 DEF Bumped, PostRow
<1>10. /\ old.count \in Nat /\ old.count <= n
       /\ ~old.edited => old.count = n
  BY <1>3, <1>4, <1>7 DEF CountInv, Tallied, PostRow
<1>11. CommentsKept
  BY <1>6 DEF CommentsKept
<1>12. \A q \in Requests : KnowsCount(reqs[q])'
  BY <1>11, CountsStayKnown
<1>13. ASSUME NEW q \in ExistingPosts'
       PROVE  /\ Tallied(q, posts[q])'
              /\ ~posts'[q].edited =>
                   posts'[q].count = Cardinality(CommentsOf(q)')
  <2>1. CASE q = p
    <3>1. posts'[q] = Bumped(old, c)
      BY <1>4, <1>5, <2>1
    <3>2. posts'[q].count <= Cardinality(CommentsOf(q)')
      BY <3>1, <2>1, <1>8, <1>9, <1>10
    <3>3. posts'[q].count = 0 <=> posts'[q].bump = None
      BY <3>1, <1>9, <1>10, ThreadsAssumption
    <3>4. posts'[q].bump \in CommentsOf(q)'
      BY <3>1, <2>1, <1>6, <1>9
    <3>5. ~posts'[q].edited => posts'[q].count = Cardinality(CommentsOf(q)')
      BY <3>1, <2>1, <1>8, <1>9, <1>10
    <3> QED
      BY <3>2, <3>3, <3>4, <3>5 DEF Tallied
  <2>2. CASE q # p
    <3>1. q \in ExistingPosts /\ q \in Posts \ {p}
      BY <1>1, <2>2 DEF ExistingPosts
    <3>2. CommentsOf(q)' = CommentsOf(q) /\ posts'[q] = posts[q]
      BY <1>5, <1>6, <3>1
    <3> QED
      BY <3>1, <3>2 DEF CountInv, Tallied
  <2> QED
    BY <2>1, <2>2
<1>14. \A d \in ExistingComments' : comments'[d].post \in ExistingPosts'
  BY <1>1, <1>5 DEF CountInv, ExistingComments
<1> QED
  BY <1>12, <1>13, <1>14 DEF CountInv

\* An edit brings back the count and the bump of the row it read, as it did then.
LEMMA EditPostKeepsCount ==
  ASSUME Inv, CountInv, [Next]_vars, NEW r \in Requests, EditPost(r)
  PROVE  CountInv'
<1>1. PICK p \in ExistingPosts, read \in PostRow, body \in Bodies :
           /\ reqs[r].post = p /\ reqs[r].row = read
           /\ posts' = [posts EXCEPT ![p] = UpdatePost(read, body)]
           /\ ExistingPosts' = ExistingPosts
  BY EditPostWrites
<1>2. comments' = comments /\ reqs[r].at = "editPost"
  BY DEF EditPost
<1>3. Tallied(p, read)
  BY <1>1, <1>2 DEF CountInv, KnowsCount
<1>4. PICK new : new = UpdatePost(read, body)
  OBVIOUS
<1>5. new.edited /\ new.count = read.count /\ new.bump = read.bump
  BY <1>4 DEF UpdatePost, PostRow
<1>6. Tallied(p, new)
  BY <1>3, <1>5 DEF Tallied
<1>7. \A q \in Posts : posts'[q] = IF q = p THEN new ELSE posts[q]
  BY <1>1, <1>4 DEF Inv, TypeOK
<1>8. \A q \in ExistingPosts' :
           /\ Tallied(q, posts'[q])
           /\ ~posts'[q].edited => posts'[q].count = Cardinality(CommentsOf(q))
  BY <1>1, <1>5, <1>6, <1>7 DEF CountInv, ExistingPosts
<1> QED
  BY <1>1, <1>2, <1>8, CommentsUnmoved, SameCommentsKeepCount

LEMMA DeletePostKeepsCount ==
  ASSUME Inv, CountInv, [Next]_vars, NEW r \in Requests, DeletePost(r)
  PROVE  CountInv'
<1>1. PICK p \in ExistingPosts, row \in PostRow :
           /\ posts' = [posts EXCEPT ![p] = row]
           /\ row.edited = posts[p].edited /\ row.count = posts[p].count
           /\ row.bump = posts[p].bump
           /\ ExistingPosts' = ExistingPosts
  BY DeletePostWrites
<1>2. comments' = comments
  BY DEF DeletePost
<1>3. \A q \in Posts : posts'[q] = IF q = p THEN row ELSE posts[q]
  BY <1>1 DEF Inv, TypeOK
<1>4. \A q \in ExistingPosts' :
           /\ Tallied(q, posts'[q])
           /\ ~posts'[q].edited => posts'[q].count = Cardinality(CommentsOf(q))
  BY <1>1, <1>3 DEF CountInv, ExistingPosts, Tallied
<1> QED
  BY <1>1, <1>2, <1>4, CommentsUnmoved, SameCommentsKeepCount

LEMMA CommentWritesKeepCount ==
  ASSUME Inv, CountInv, [Next]_vars, NEW r \in Requests,
         EditComment(r) \/ DeleteComment(r)
  PROVE  CountInv'
<1>1. PICK c \in ExistingComments, row \in CommentRow :
         comments' = [comments EXCEPT ![c] = row] /\ row.post = comments[c].post
  BY EditCommentWrites, DeleteCommentWrites
<1>2. posts' = posts
  BY DEF EditComment, DeleteComment
<1>3. \A d \in Comments : comments'[d] = IF d = c THEN row ELSE comments[d]
  BY <1>1 DEF Inv, TypeOK
<1>4. ExistingComments' = ExistingComments
  BY <1>3, NoneIsNoRow DEF ExistingComments
<1>5. /\ \A p \in Posts : CommentsOf(p)' = CommentsOf(p)
      /\ \A d \in ExistingComments : comments'[d].post = comments[d].post
  BY <1>1, <1>3, <1>4 DEF CommentsOf, ExistingComments
<1>6. /\ ExistingPosts' = ExistingPosts
      /\ \A q \in ExistingPosts' :
           /\ Tallied(q, posts'[q])
           /\ ~posts'[q].edited => posts'[q].count = Cardinality(CommentsOf(q))
  BY <1>2 DEF CountInv, ExistingPosts
<1> QED
  BY <1>4, <1>5, <1>6, SameCommentsKeepCount

LEMMA OnlyReadsKeepsCount ==
  ASSUME Inv, CountInv, [Next]_vars, OnlyReads
  PROVE  CountInv'
<1>1. comments' = comments /\ posts' = posts
  BY DEF OnlyReads
<1>2. /\ ExistingPosts' = ExistingPosts
      /\ \A q \in ExistingPosts' :
           /\ Tallied(q, posts'[q])
           /\ ~posts'[q].edited => posts'[q].count = Cardinality(CommentsOf(q))
  BY <1>1 DEF CountInv, ExistingPosts
<1> QED
  BY <1>1, <1>2, CommentsUnmoved, SameCommentsKeepCount

LEMMA InitCount == Init => CountInv
  BY DEF Init, CountInv, ExistingPosts, ExistingComments, KnowsCount, Idle

LEMMA NextKeepsCount == Inv /\ CountInv /\ [Next]_vars => CountInv'
  BY StepKinds, OnlyReadsKeepsCount, CreatePostKeepsCount,
     CreateCommentKeepsCount, EditPostKeepsCount, CommentWritesKeepCount,
     DeletePostKeepsCount

LEMMA SpecCount == Spec => []CountInv
  BY InitCount, NextKeepsCount, SpecInv, PTL DEF Spec

\* comment_count never runs ahead of the comments that there are, is exact on a
\* post that was never edited, and moves together with last_activity_at
\* (BumpPostActivity, UpdatePost).
THEOREM CountsCohere == Spec => []CountCoherent
<1>1. CountInv => CountCoherent
  BY DEF CountInv, CountCoherent, Tallied
<1> QED
  BY <1>1, SpecCount, PTL

-----------------------------------------------------------------------------
(***************************************************************************)
(* The order of paths.  One path is before another where the other first   *)
(* goes on or goes higher.                                                 *)
(***************************************************************************)

Splits(s, t, i) ==
  /\ i \in 1..Len(t) /\ i <= Len(s) + 1
  /\ \A j \in 1..(i - 1) : s[j] = t[j]
  /\ i <= Len(s) => s[i] < t[i]

LEMMA PrefixPointwise ==
  ASSUME NEW s \in Seq(Nat), NEW t \in Seq(Nat)
  PROVE  IsPrefix(s, t) <=>
           /\ Len(s) <= Len(t)
           /\ \A i \in 1..Len(s) : s[i] = t[i]
<1>1. ASSUME Len(s) <= Len(t)
      PROVE  /\ SubSeq(s, 1, Len(s)) \in Seq(Nat)
             /\ SubSeq(t, 1, Len(s)) \in Seq(Nat)
             /\ Len(SubSeq(s, 1, Len(s))) = Len(s)
             /\ Len(SubSeq(t, 1, Len(s))) = Len(s)
             /\ \A i \in 1..Len(s) : /\ SubSeq(s, 1, Len(s))[i] = s[i]
                                     /\ SubSeq(t, 1, Len(s))[i] = t[i]
  BY <1>1
<1>2. ASSUME Len(s) <= Len(t), \A i \in 1..Len(s) : s[i] = t[i]
      PROVE  SubSeq(s, 1, Len(s)) = SubSeq(t, 1, Len(s))
  BY <1>1, <1>2, SeqEqual
<1> QED
  BY <1>1, <1>2 DEF IsPrefix

LEMMA BeforeSplits ==
  ASSUME NEW s \in Seq(Nat), NEW t \in Seq(Nat)
  PROVE  PathBefore(s, t) <=> \E i \in 1..Len(t) : Splits(s, t, i)
<1>1. ASSUME IsStrictPrefix(s, t)
      PROVE  Splits(s, t, Len(s) + 1) /\ Len(s) + 1 \in 1..Len(t)
  <2>1. /\ Len(s) <= Len(t) /\ s # t
        /\ \A i \in 1..Len(s) : s[i] = t[i]
    BY <1>1, PrefixPointwise DEF IsStrictPrefix
  <2>2. Len(s) # Len(t)
    BY <2>1, SeqEqual
  <2>3. Len(s) \in Nat /\ Len(t) \in Nat
    OBVIOUS
  <2>4. Len(s) + 1 \in 1..Len(t)
    BY <2>1, <2>2, <2>3
  <2>5. \A j \in 1..(Len(s) + 1 - 1) : s[j] = t[j]
    BY <2>1, <2>3
  <2> QED
    BY <2>3, <2>4, <2>5 DEF Splits
<1>2. ASSUME NEW i \in DOMAIN s \cap DOMAIN t,
             s[i] < t[i], \A j \in 1..(i - 1) : s[j] = t[j]
      PROVE  Splits(s, t, i) /\ i \in 1..Len(t)
  BY <1>2 DEF Splits
<1>3. ASSUME NEW i \in 1..Len(t), Splits(s, t, i) PROVE PathBefore(s, t)
  <2>1. CASE i <= Len(s)
    BY <1>3, <2>1 DEF Splits, PathBefore
  <2>2. CASE i = Len(s) + 1
    <3>1. IsPrefix(s, t)
      BY <1>3, <2>2, PrefixPointwise DEF Splits
    <3>2. s # t
      BY <2>2
    <3> QED
      BY <3>1, <3>2 DEF IsStrictPrefix, PathBefore
  <2> QED
    BY <1>3, <2>1, <2>2 DEF Splits
<1> QED
  BY <1>1, <1>2, <1>3 DEF PathBefore

LEMMA BeforeIrreflexive ==
  ASSUME NEW s \in Seq(Nat)
  PROVE  ~PathBefore(s, s)
<1>1. ASSUME NEW i \in 1..Len(s), Splits(s, s, i) PROVE FALSE
  BY <1>1 DEF Splits
<1> QED
  BY <1>1, BeforeSplits

LEMMA BeforeTransitive ==
  ASSUME NEW s \in Seq(Nat), NEW t \in Seq(Nat), NEW u \in Seq(Nat),
         PathBefore(s, t), PathBefore(t, u)
  PROVE  PathBefore(s, u)
<1>1. PICK i \in 1..Len(t) : Splits(s, t, i)
  BY BeforeSplits
<1>2. PICK k \in 1..Len(u) : Splits(t, u, k)
  BY BeforeSplits
<1>3. CASE i < k
  <2>1. i \in 1..Len(u) /\ t[i] = u[i]
    BY <1>2, <1>3 DEF Splits
  <2>2. Splits(s, u, i)
    BY <1>1, <1>2, <1>3, <2>1 DEF Splits
  <2> QED
    BY <2>1, <2>2, BeforeSplits
<1>4. CASE k < i
  <2>1. k <= Len(s) /\ s[k] = t[k] /\ t[k] < u[k]
    BY <1>1, <1>2, <1>4 DEF Splits
  <2>2. \A j \in 1..(k - 1) : s[j] = u[j]
    BY <1>1, <1>2, <1>4 DEF Splits
  <2>3. Splits(s, u, k)
    BY <2>1, <2>2 DEF Splits
  <2> QED
    BY <2>3, BeforeSplits
<1>5. CASE i = k
  <2>1. t[k] < u[k]
    BY <1>1, <1>2, <1>5 DEF Splits
  <2>2. \A j \in 1..(k - 1) : s[j] = u[j]
    BY <1>1, <1>2, <1>5 DEF Splits
  <2>3. k <= Len(s) => s[k] < u[k]
    <3> HAVE k <= Len(s)
    <3>1. s[k] < t[k]
      BY <1>1, <1>5 DEF Splits
    <3>2. s[k] \in Nat /\ t[k] \in Nat /\ u[k] \in Nat
      BY <1>5
    <3> QED
      BY <2>1, <3>1, <3>2
  <2>4. Splits(s, u, k)
    BY <1>1, <1>5, <2>2, <2>3 DEF Splits
  <2> QED
    BY <2>4, BeforeSplits
<1> QED
  BY <1>3, <1>4, <1>5

LEMMA PathBefores ==
  ASSUME NEW s \in Seq(Nat), NEW t \in Seq(Nat), s # t
  PROVE  PathBefore(s, t) \/ PathBefore(t, s)
<1> DEFINE Differ == {i \in Nat : i \in 1..Len(s) /\ i \in 1..Len(t) /\ s[i] # t[i]}
<1>0. \A j \in Nat :
        j \in Differ <=> j \in 1..Len(s) /\ j \in 1..Len(t) /\ s[j] # t[j]
  OBVIOUS
<1> Differ \subseteq Nat
  OBVIOUS
<1> HIDE DEF Differ
<1>1. CASE Differ = {}
  <2>1. CASE Len(s) <= Len(t)
    <3>1. \A i \in 1..Len(s) : s[i] = t[i]
      BY <1>0, <1>1, <2>1
    <3> QED
      BY <2>1, <3>1, PrefixPointwise DEF PathBefore, IsStrictPrefix
  <2>2. CASE Len(t) <= Len(s)
    <3>1. \A i \in 1..Len(t) : t[i] = s[i]
      BY <1>0, <1>1, <2>2
    <3> QED
      BY <2>2, <3>1, PrefixPointwise DEF PathBefore, IsStrictPrefix
  <2> QED
    BY <2>1, <2>2
<1>2. CASE Differ # {}
  <2>1. PICK i \in Differ : \A j \in Differ : <<j, i>> \notin OpToRel(<, Nat)
    BY <1>2, NatLessThanWellFounded, WFMin
  <2>2. \A j \in Differ : ~(j < i)
    BY <2>1 DEF OpToRel
  <2>3. /\ i \in 1..Len(s) /\ i \in 1..Len(t) /\ s[i] # t[i]
        /\ s[i] \in Nat /\ t[i] \in Nat
    BY <1>0
  <2>4. \A j \in 1..(i - 1) : s[j] = t[j]
    BY <1>0, <2>2, <2>3
  <2>5. s[i] < t[i] \/ t[i] < s[i]
    BY <2>3
  <2> QED
    BY <2>3, <2>4, <2>5 DEF PathBefore
<1> QED
  BY <1>1, <1>2

\* What stands between a path and one that goes on from it goes on from it too.
LEMMA BetweenIsUnder ==
  ASSUME NEW s \in Seq(Nat), NEW t \in Seq(Nat), NEW u \in Seq(Nat),
         PathBefore(s, t), ~PathBefore(u, t), IsPrefix(s, u)
  PROVE  IsPrefix(s, t)
<1>1. PICK i \in 1..Len(t) : Splits(s, t, i)
  BY BeforeSplits
<1>2. Len(s) <= Len(u) /\ \A j \in 1..Len(s) : s[j] = u[j]
  BY PrefixPointwise
<1>3. CASE i <= Len(s)
  <2>1. Splits(u, t, i)
    BY <1>1, <1>2, <1>3 DEF Splits
  <2> QED
    BY <2>1, BeforeSplits
<1>4. CASE i = Len(s) + 1
  BY <1>1, <1>4, PrefixPointwise DEF Splits
<1> QED
  BY <1>1, <1>3, <1>4 DEF Splits

-----------------------------------------------------------------------------
(***************************************************************************)
(* Answers.  The paths of the comments found order them all, so InPathOrder*)
(* lists each of them once, at the place its rank gives it.                *)
(***************************************************************************)

Before(c, d) == PathBefore(comments[c].path, comments[d].path)
Rank(found, c) == Cardinality({d \in found : Before(d, c)})

LEMMA PathsAreNumbers ==
  ASSUME Inv, NEW c \in ExistingComments
  PROVE  comments[c].path \in Seq(Nat) /\ comments[c] \in CommentRow
<1>1. comments[c] \in CommentRow
  BY DEF Inv, TypeOK, ExistingComments
<1>2. comments[c].path \in Seq(Comments)
  BY <1>1 DEF CommentRow
<1> QED
  BY <1>1, <1>2, SeqMonotonic, ThreadsAssumption

\* The last label of a path is the comment's own id.
LEMMA PathsDiffer ==
  ASSUME Inv, NEW c \in ExistingComments, NEW d \in ExistingComments,
         comments[c].path = comments[d].path
  PROVE  c = d
<1>1. ASSUME NEW e \in ExistingComments
      PROVE  comments[e].path[Len(comments[e].path)] = e
  <2>1. Placed(e)
    BY DEF Inv, TreeShape
  <2>2. CASE comments[e].parent = None
    <3>1. comments[e].path = <<e>>
      BY <2>1, <2>2 DEF Placed
    <3> QED
      BY <3>1
  <2>3. CASE comments[e].parent # None
    <3>1. PICK p : p = comments[e].parent
      OBVIOUS
    <3>2. p \in ExistingComments /\ comments[e].path = Append(comments[p].path, e)
      BY <2>1, <2>3, <3>1 DEF Placed, CommentsOf
    <3>3. comments[p].path \in Seq(Nat)
      BY <3>2, PathsAreNumbers
    <3>4. e \in Nat
      BY ThreadsAssumption DEF ExistingComments
    <3> QED
      BY <3>2, <3>3, <3>4
  <2> QED
    BY <2>2, <2>3
<1> QED
  BY <1>1

LEMMA BeforeOrders ==
  ASSUME Inv
  PROVE  /\ \A c \in ExistingComments : ~Before(c, c)
         /\ \A c, d, e \in ExistingComments :
              Before(c, d) /\ Before(d, e) => Before(c, e)
         /\ \A c, d \in ExistingComments :
              c # d => Before(c, d) \/ Before(d, c)
<1>1. \A c \in ExistingComments : comments[c].path \in Seq(Nat)
  BY PathsAreNumbers
<1>2. \A c \in ExistingComments : ~Before(c, c)
  BY <1>1, BeforeIrreflexive DEF Before
<1>3. \A c, d, e \in ExistingComments :
        Before(c, d) /\ Before(d, e) => Before(c, e)
  BY <1>1, BeforeTransitive DEF Before
<1>4. \A c, d \in ExistingComments : c # d => Before(c, d) \/ Before(d, c)
  BY <1>1, PathsDiffer, PathBefores DEF Before
<1> QED
  BY <1>2, <1>3, <1>4

\* A comment is before another exactly when its rank is lower.
LEMMA RankGrows ==
  ASSUME Inv, NEW found \in SUBSET ExistingComments,
         NEW c \in found, NEW d \in found, Before(c, d)
  PROVE  Rank(found, c) < Rank(found, d)
<1> DEFINE C == {e \in found : Before(e, c)}
           D == {e \in found : Before(e, d)}
<1>1. C \subseteq D /\ c \in D /\ c \notin C
  BY BeforeOrders
<1>2. C \in SUBSET Comments /\ D \in SUBSET Comments
  BY DEF ExistingComments
<1>3. IsFiniteSet(C) /\ IsFiniteSet(D)
  BY <1>2, Counted
<1> HIDE DEF C, D
<1>4. Cardinality(C) < Cardinality(D)
  BY <1>1, <1>3, FS_Subset, FS_CardinalityType
<1> QED
  BY <1>4 DEF Rank, C, D

LEMMA RankOrders ==
  ASSUME Inv, NEW found \in SUBSET ExistingComments
  PROVE  /\ IsFiniteSet(found) /\ Cardinality(found) \in Nat
         /\ \A c \in found : Rank(found, c) \in 0..(Cardinality(found) - 1)
         /\ \A c, d \in found :
              Before(c, d) <=> Rank(found, c) < Rank(found, d)
         /\ \A c, d \in found : Rank(found, c) = Rank(found, d) => c = d
<1>1. found \in SUBSET Comments
  BY DEF ExistingComments
<1>2. IsFiniteSet(found) /\ Cardinality(found) \in Nat
  BY <1>1, Counted
<1>3. ASSUME NEW c \in found
      PROVE  Rank(found, c) \in 0..(Cardinality(found) - 1)
  <2> DEFINE C == {e \in found : Before(e, c)}
  <2>1. C \subseteq found /\ c \notin C
    BY BeforeOrders
  <2> HIDE DEF C
  <2>2. IsFiniteSet(C) /\ Cardinality(C) \in Nat
    BY <1>1, <2>1, Counted
  <2>3. Cardinality(C) < Cardinality(found)
    BY <1>2, <2>1, <2>2, FS_Subset
  <2>4. Cardinality(C) \in 0..(Cardinality(found) - 1)
    BY <1>2, <2>2, <2>3
  <2> QED
    BY <2>4 DEF Rank, C
<1>4. \A c, d \in found : Before(c, d) => Rank(found, c) < Rank(found, d)
  BY RankGrows
<1>5. \A c \in found : Rank(found, c) \in Int
  BY <1>2, <1>3
<1>6. ASSUME NEW c \in found, NEW d \in found
      PROVE  /\ Before(c, d) <=> Rank(found, c) < Rank(found, d)
             /\ Rank(found, c) = Rank(found, d) => c = d
  <2>1. c = d \/ Before(c, d) \/ Before(d, c)
    BY BeforeOrders
  <2>2. ~Before(c, c)
    BY BeforeOrders
  <2>3. /\ Rank(found, c) \in Int /\ Rank(found, d) \in Int
        /\ Before(c, d) => Rank(found, c) < Rank(found, d)
        /\ Before(d, c) => Rank(found, d) < Rank(found, c)
    BY <1>4, <1>5
  <2> QED
    BY <2>1, <2>2, <2>3
<1> QED
  BY <1>2, <1>3, <1>6

\* Every rank is somebody's: n comments have n different ranks below n.
LEMMA RanksAreAllTaken ==
  ASSUME Inv, NEW found \in SUBSET ExistingComments,
         NEW k \in 1..Cardinality(found)
  PROVE  \E c \in found : Rank(found, c) = k - 1
<1> DEFINE n == Cardinality(found)
           T == 0..(n - 1)
           f == [c \in found |-> Rank(found, c)]
<1>1. IsFiniteSet(found) /\ n \in Nat
  BY RankOrders
<1>2. f \in [found -> T]
  BY RankOrders
<1>3. \A c, d \in found : f[c] = f[d] => c = d
  BY RankOrders
<1>4. f \in Injection(found, T)
  BY <1>2, <1>3 DEF Injection, IsInjective
<1>5. IsFiniteSet(T) /\ Cardinality(T) = n
  <2>1. 0 \in Int /\ n - 1 \in Int
    BY <1>1
  <2>2. /\ IsFiniteSet(0..(n - 1))
        /\ Cardinality(0..(n - 1)) =
             IF 0 > n - 1 THEN 0 ELSE (n - 1) - 0 + 1
    BY <2>1, FS_Interval
  <2> HIDE DEF n
  <2> QED
    BY <1>1, <2>2
<1> HIDE DEF f, T
<1>6. f \in Surjection(found, T)
  BY <1>4, <1>5, FS_Injection
<1>7. k - 1 \in T
  BY <1>1 DEF T
<1>8. \E c \in found : f[c] = k - 1
  BY <1>6, <1>7 DEF Surjection
<1> QED
  BY <1>8 DEF f

LEMMA PathOrderLists ==
  ASSUME Inv, NEW found \in SUBSET ExistingComments
  PROVE  /\ InPathOrder(found) \in Seq(found)
         /\ Len(InPathOrder(found)) = Cardinality(found)
         /\ \A k \in 1..Cardinality(found) :
              Rank(found, InPathOrder(found)[k]) = k - 1
         /\ \A c \in found :
              InPathOrder(found)[Rank(found, c) + 1] = c
<1> DEFINE n == Cardinality(found)
           list == [k \in 1..n |-> CHOOSE c \in found : Rank(found, c) = k - 1]
<1>1. InPathOrder(found) = list
  BY DEF InPathOrder, InOrder, Rank, Before
<1>2. n \in Nat
  BY RankOrders
<1>3. ASSUME NEW k \in 1..n
      PROVE  list[k] \in found /\ Rank(found, list[k]) = k - 1
  <2>1. \E c \in found : Rank(found, c) = k - 1
    BY RanksAreAllTaken
  <2> QED
    BY <2>1
<1>4. DOMAIN list = 1..n
  OBVIOUS
<1> HIDE DEF list
<1>5. list \in Seq(found) /\ Len(list) = n
  BY <1>2, <1>3, <1>4, <1>1 DEF list
<1>6. ASSUME NEW c \in found PROVE list[Rank(found, c) + 1] = c
  <2>1. Rank(found, c) + 1 \in 1..n /\ Rank(found, c) \in Int
    BY <1>2, RankOrders
  <2>2. /\ list[Rank(found, c) + 1] \in found
        /\ Rank(found, list[Rank(found, c) + 1]) = Rank(found, c)
    BY <1>3, <2>1
  <2> QED
    BY <2>2, RankOrders
<1> QED
  BY <1>1, <1>3, <1>5, <1>6

-----------------------------------------------------------------------------
\* An answer that holds a reply holds what it replies to: it was found by one
\* statement, and no comment has moved since.
HoldsParents(req) ==
  req.at = "thread" =>
    \A c \in req.found :
      comments[c].parent # None => comments[c].parent \in req.found

ParentsFound == \A r \in Requests : HoldsParents(reqs[r])

LEMMA ParentsFixed ==
  ASSUME Inv, [Next]_vars
  PROVE  \A c \in ExistingComments : comments'[c].parent = comments[c].parent
<1>1. comments \in [Comments -> CommentRow \cup {None}]
  BY DEF Inv, TypeOK
<1>2. ASSUME NEW r \in Requests, CreateComment(r)
      PROVE  \A c \in ExistingComments : comments'[c] = comments[c]
  <2>1. PICK d \in Comments \ ExistingComments, row \in CommentRow :
          comments' = [comments EXCEPT ![d] = row]
    BY <1>2, CreateCommentWrites
  <2> QED
    BY <1>1, <2>1 DEF ExistingComments
<1>3. ASSUME NEW r \in Requests, EditComment(r) \/ DeleteComment(r)
      PROVE  \A c \in ExistingComments :
               comments'[c].parent = comments[c].parent
  <2>1. PICK d \in ExistingComments, row \in CommentRow :
          /\ comments' = [comments EXCEPT ![d] = row]
          /\ row.parent = comments[d].parent
    BY <1>3, EditCommentWrites, DeleteCommentWrites
  <2> QED
    BY <1>1, <2>1 DEF ExistingComments
<1>4. ASSUME NEW r \in Requests,
             CreatePost(r) \/ EditPost(r) \/ DeletePost(r)
      PROVE  comments' = comments
  BY <1>4 DEF CreatePost, EditPost, DeletePost
<1> QED
  BY <1>2, <1>3, <1>4, StepKinds DEF OnlyReads

LEMMA InitParents == Init => ParentsFound
  BY DEF Init, ParentsFound, HoldsParents, Idle

LEMMA NextKeepsParents ==
  Inv /\ CountInv /\ ParentsFound /\ [Next]_vars => ParentsFound'
<1> SUFFICES ASSUME Inv, CountInv, ParentsFound, [Next]_vars,
                    NEW r \in Requests
             PROVE  HoldsParents(reqs[r])'
  BY DEF ParentsFound
<1>1. Learns(reqs[r], reqs'[r])
  BY RequestsLearn
<1>2. HoldsParents(reqs[r]) /\ KnowsCount(reqs[r])
  BY DEF ParentsFound, CountInv
<1>3. PICK old : old = reqs[r]
  OBVIOUS
<1>4. PICK new : new = reqs'[r]
  OBVIOUS
<1>5. ASSUME new.at = "thread", NEW c \in new.found,
             comments'[c].parent # None
      PROVE  comments'[c].parent \in new.found
  <2>1. CASE new = old
    <3>1. c \in ExistingComments
      BY <1>2, <1>3, <1>5, <2>1 DEF KnowsCount, CommentsOf
    <3> QED
      BY <1>2, <1>3, <1>5, <2>1, <3>1, ParentsFixed DEF HoldsParents
  <2>2. CASE new.found = CommentsOf(old.post)
    <3>1. c \in ExistingComments /\ comments[c].post = old.post
      BY <1>5, <2>2 DEF CommentsOf
    <3>2. comments[c].parent # None /\ comments'[c].parent = comments[c].parent
      BY <1>5, <3>1, ParentsFixed
    <3>3. comments[c].parent \in CommentsOf(comments[c].post)
      BY <3>1, <3>2 DEF Inv, TreeShape, Placed
    <3> QED
      BY <2>2, <3>1, <3>2, <3>3
  <2> QED
    BY <1>1, <1>3, <1>4, <1>5, <2>1, <2>2 DEF Learns
<1> QED
  BY <1>4, <1>5 DEF HoldsParents

LEMMA SpecParents == Spec => []ParentsFound
  BY InitParents, NextKeepsParents, SpecInv, SpecCount, PTL DEF Spec

\* A parent's path is before its replies' paths.
LEMMA ParentsFirst ==
  ASSUME Inv, NEW c \in ExistingComments, comments[c].parent # None
  PROVE  Before(comments[c].parent, c)
<1>1. PICK p : p = comments[c].parent
  OBVIOUS
<1>2. p \in ExistingComments /\ comments[c].path = Append(comments[p].path, c)
  BY <1>1 DEF Inv, TreeShape, Placed, CommentsOf
<1>3. comments[p].path \in Seq(Nat) /\ comments[c].path \in Seq(Nat)
  BY <1>2, PathsAreNumbers
<1>4. Splits(comments[p].path, comments[c].path, Len(comments[p].path) + 1)
  BY <1>2, <1>3 DEF Splits
<1>5. Len(comments[p].path) + 1 \in 1..Len(comments[c].path)
  BY <1>2, <1>3
<1> QED
  BY <1>1, <1>3, <1>4, <1>5, BeforeSplits DEF Before

LEMMA AnswersAreSound ==
  ASSUME Inv, CountInv, ParentsFound
  PROVE  ThreadSound
<1> SUFFICES ASSUME NEW r \in Requests, reqs[r].at = "thread",
                    NEW found, found = reqs[r].found,
                    NEW list, list = InPathOrder(found)
             PROVE  /\ reqs[r].row.count <= Len(list)
                    /\ \A i \in DOMAIN list :
                         /\ comments[list[i]].parent # None =>
                              \E j \in 1..(i - 1) :
                                list[j] = comments[list[i]].parent
                         /\ \A k \in i..Len(list) :
                              IsPrefix(comments[list[i]].path,
                                       comments[list[k]].path) =>
                                \A j \in i..k :
                                  IsPrefix(comments[list[i]].path,
                                           comments[list[j]].path)
  BY DEF ThreadSound
<1> DEFINE n == Cardinality(found)
<1>1. /\ found \subseteq CommentsOf(reqs[r].post)
      /\ reqs[r].row.count <= n
  BY DEF CountInv, KnowsCount
<1>2. found \in SUBSET ExistingComments
  BY <1>1 DEF CommentsOf
<1>3. /\ list \in Seq(found) /\ Len(list) = n
      /\ \A k \in 1..n : Rank(found, list[k]) = k - 1
      /\ \A c \in found : list[Rank(found, c) + 1] = c
  BY <1>2, PathOrderLists
<1>4. /\ n \in Nat
      /\ \A c \in found : Rank(found, c) \in 0..(n - 1)
      /\ \A c, d \in found :
           Before(c, d) <=> Rank(found, c) < Rank(found, d)
  BY <1>2, RankOrders
<1> HIDE DEF n
<1>5. DOMAIN list = 1..n /\ \A i \in 1..n : list[i] \in found
  BY <1>3, <1>4, ElementOfSeq
<1>6. ASSUME NEW i \in 1..n, NEW j \in 1..n
      PROVE  Before(list[i], list[j]) <=> i < j
  <2>1. /\ Rank(found, list[i]) = i - 1 /\ Rank(found, list[j]) = j - 1
        /\ list[i] \in found /\ list[j] \in found
    BY <1>3, <1>5
  <2>2. Before(list[i], list[j]) <=> i - 1 < j - 1
    BY <1>4, <2>1
  <2> QED
    BY <2>2
<1>7. \A i \in 1..n : comments[list[i]].path \in Seq(Nat)
  BY <1>2, <1>5, PathsAreNumbers
<1>8. ASSUME NEW i \in 1..n, comments[list[i]].parent # None
      PROVE  \E j \in 1..(i - 1) : list[j] = comments[list[i]].parent
  <2>1. PICK p : p = comments[list[i]].parent
    OBVIOUS
  <2>2. p \in found
    BY <1>5, <1>8, <2>1 DEF ParentsFound, HoldsParents
  <2>3. Before(p, list[i])
    BY <1>2, <1>5, <1>8, <2>1, ParentsFirst
  <2>4. Rank(found, p) < i - 1 /\ Rank(found, p) \in 0..(n - 1)
    BY <1>3, <1>4, <1>5, <2>2, <2>3
  <2>5. list[Rank(found, p) + 1] = p
    BY <1>3, <2>2
  <2>6. Rank(found, p) + 1 \in 1..(i - 1)
    BY <2>4
  <2> QED
    BY <2>1, <2>5, <2>6
<1>9. ASSUME NEW i \in 1..n, NEW k \in i..n, NEW j \in i..k,
             IsPrefix(comments[list[i]].path, comments[list[k]].path)
      PROVE  IsPrefix(comments[list[i]].path, comments[list[j]].path)
  <2>1. j \in 1..n /\ k \in 1..n /\ i <= j /\ j <= k
    BY <1>4
  <2>2. CASE i = j
    BY <1>7, <2>2, PrefixPointwise
  <2>3. CASE i < j
    <3>1. Before(list[i], list[j]) /\ ~Before(list[k], list[j])
      BY <1>6, <2>1, <2>3
    <3> QED
      BY <1>7, <1>9, <2>1, <3>1, BetweenIsUnder DEF Before
  <2> QED
    BY <2>1, <2>2, <2>3
<1>10. ASSUME NEW i \in 1..n
       PROVE  /\ comments[list[i]].parent # None =>
                   \E j \in 1..(i - 1) : list[j] = comments[list[i]].parent
              /\ \A k \in i..n :
                   IsPrefix(comments[list[i]].path, comments[list[k]].path) =>
                     \A j \in i..k : IsPrefix(comments[list[i]].path,
                                             comments[list[j]].path)
  BY <1>8, <1>9
<1> QED
  BY ONLY <1>1, <1>3, <1>5, <1>10

\* Every answer of GetThread can be rendered as a tree: the counter of the post
\* it read first never exceeds the comments it lists, parents come before their
\* replies, and every subtree stands together (GetThread, ListCommentsByPost).
THEOREM ThreadsAreSound == Spec => []ThreadSound
  BY AnswersAreSound, SpecInv, SpecCount, SpecParents, PTL
=============================================================================
