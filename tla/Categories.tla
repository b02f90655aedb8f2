----------------------------- MODULE Categories -----------------------------
(***************************************************************************)
(* Categories, the boards they are available in and the posts they are     *)
(* given to: CategoryService (api/internal/csilservices/category.go) and   *)
(* the category part of create-post and edit-post (thread.go) over         *)
(* api/internal/store/category.go, next to the operations of Boards.       *)
(*                                                                         *)
(* Each of these operations is one transaction at READ COMMITTED: what it  *)
(* writes is its work until it commits.  A row of board_categories or      *)
(* post_categories carries who inserted it, because a DELETE that has      *)
(* waited for a row does not take the one that came in its place.          *)
(***************************************************************************)
EXTENDS Boards

CONSTANTS InitCategories, \* the rows of categories, by id
          InitLinks,      \* as links
          InitPosts,      \* the origin board and the author of each post
          InitTags        \* as tags

CategoryIds == DOMAIN InitCategories \cup Requests
CategoryRow == [slug : Texts, name : Texts, cross : BOOLEAN]

\* An update names some of the columns, and boards or none.  The posts that are
\* edited are those that were there.
CategoryAsks ==
  [op : {"create-category"}, by : Users, slug : Texts, name : Texts,
   cross : BOOLEAN, boards : SUBSET BoardIds] \cup
  [op : {"update-category"}, by : Users, cat : CategoryIds,
   set : [name : Texts \cup {Nil}, cross : BOOLEAN \cup {Nil}],
   boards : {Nil} \cup SUBSET BoardIds] \cup
  [op : {"delete-category"}, by : Users, cat : CategoryIds] \cup
  [op : {"create-post"}, by : Users, board : BoardIds,
   tags : {Nil} \cup SUBSET CategoryIds] \cup
  [op : {"edit-post"}, by : Users, post : DOMAIN InitPosts,
   tags : {Nil} \cup SUBSET CategoryIds]

\* A slug is of one category.  The posts there are have categories of their board,
\* and no more than it takes.
ASSUME CategoriesAssumption ==
  /\ Menu \subseteq BoardAsks \cup CategoryAsks
  /\ \A a \in Menu : a.op \in {"create-post", "edit-post"} /\ a.tags # Nil
                      => IsFiniteSet(a.tags)
  /\ \A a \in Menu : a.op = "create-category" => a.boards # Nil
  /\ InitCategories \in [DOMAIN InitCategories -> CategoryRow]
  /\ \A c, d \in DOMAIN InitCategories : c # d => InitCategories[c].slug # InitCategories[d].slug
  /\ InitPosts \in [DOMAIN InitPosts -> [board : DOMAIN InitBoards, author : Users]]
  /\ InitLinks \subseteq (DOMAIN InitBoards) \X (DOMAIN InitCategories) \X {Nil}
  /\ InitTags \subseteq (DOMAIN InitPosts) \X (DOMAIN InitCategories) \X {Nil}
  /\ IsFiniteSet(InitTags)
  /\ \A t \in InitTags : <<InitPosts[t[1]].board, t[2], Nil>> \in InitLinks
  /\ \A p \in DOMAIN InitPosts :
       LET limit == InitBoards[InitPosts[p].board].limit IN
       limit > 0 => Cardinality({t \in InitTags : t[1] = p}) <= limit
  /\ Requests \cap (DOMAIN InitCategories \cup DOMAIN InitPosts) = {}
  /\ Nil \notin CategoryIds \cup CategoryRow

VARIABLES categories, \* the rows there are, by id
          links,      \* board_categories: <<board, category, who inserted it>>
          posts,      \* the posts there are
          tags,       \* post_categories: <<post, category, who inserted it>>
          work        \* what each transaction has written

rows == <<boards, members, admins, categories, links, posts, tags>>
vars == <<bvars, categories, links, posts, tags, work>>

\* The lock on a category's row, the row it will have, the rows a DELETE has
\* found, and what is taken away and put there.
NoWork == [holds |-> Nil, row |-> Nil, found |-> {}, dels |-> {}, ins |-> {},
           unlinks |-> {}]

TypeOK ==
  /\ BoardsOK
  /\ \A l \in links : l[1] \in DOMAIN boards /\ l[2] \in DOMAIN categories
  /\ \A t \in tags :
       /\ t[1] \in DOMAIN posts /\ t[2] \in DOMAIN categories
       /\ \A x \in tags : x[1] = t[1] /\ x[2] = t[2] => x = t
  /\ \A r \in Requests : ~InFlight(r) => work[r] = NoWork

-----------------------------------------------------------------------------
\* A category is available in a board.
Available(b, c) == \E l \in links : l[1] = b /\ l[2] = c

Others(r) == {q \in Requests \ {r} : InFlight(q)}

Locked(r, c) == \E q \in Others(r) : work[q].holds = c
\* Mutant: the foreign key does not wait for the deletion of what it refers to.
Unlocked(r, c) == FALSE
Deleting(r, c) ==
  \E q \in Others(r) : reqs[q].asked.op = "delete-category" /\ work[q].holds = c

\* Rows another transaction has taken away or put there.
Taken(r) == UNION {work[q].dels : q \in Others(r)}
Given(r) == UNION {{<<t[1], t[2]>> : t \in work[q].ins} : q \in Others(r)}

SlugInUse(slug) == \E c \in DOMAIN categories : categories[c].slug = slug
\* The unique key waits for a transaction that inserts the slug, or deletes it.
SlugPending(r, slug) ==
  \/ \E q \in Others(r) :
       /\ work[q].row # Nil /\ work[q].row.slug = slug
       /\ work[q].holds \notin DOMAIN categories
  \/ \E c \in DOMAIN categories : categories[c].slug = slug /\ Deleting(r, c)

Works(r, at, done) ==
  /\ work' = [work EXCEPT ![r] = done]
  /\ Goes(r, at)
  /\ UNCHANGED rows

Proceeds(r, at) == Goes(r, at) /\ UNCHANGED <<rows, work>>

\* The transaction ends and nothing of it stays.
Refused(r, answer) ==
  /\ Answers(r, answer)
  /\ work' = [work EXCEPT ![r] = NoWork]
  /\ UNCHANGED rows

\* The boards a request names must be there, and at least one.
BoardsAnswer(set) ==
  IF set = {} THEN "validation"
  ELSE IF ~(set \subseteq DOMAIN boards) THEN "not_found" ELSE "ok"

-----------------------------------------------------------------------------
\* create-category.

InsertCategory(r) ==
  /\ reqs[r].at = "insert category"
  /\ LET a == reqs[r].asked IN
     IF BoardsAnswer(a.boards) # "ok" THEN Refused(r, BoardsAnswer(a.boards))
     ELSE /\ ~SlugPending(r, a.slug)
          /\ IF SlugInUse(a.slug) THEN Refused(r, "conflict")
             ELSE Works(r, "strip", [NoWork EXCEPT
                    !.holds = r, !.row = [slug |-> a.slug, name |-> a.name, cross |-> a.cross]])

-----------------------------------------------------------------------------
\* update-category and delete-category read the row ...

GetCategory(r) ==
  /\ reqs[r].at = "category"
  /\ LET a == reqs[r].asked IN
     IF a.cat \notin DOMAIN categories THEN Refused(r, "not_found")
     ELSE /\ reqs' = [reqs EXCEPT
               ![r].at = IF a.op = "delete-category" THEN "delete" ELSE "save",
               ![r].got = categories[a.cat]]
          /\ UNCHANGED <<rows, work>>

\* ... an update saves all of it, under its lock.  A row that is gone is put
\* there again: Save inserts what it could not update.
Save(r) ==
  /\ reqs[r].at = "save"
  /\ LET a == reqs[r].asked
         row == [reqs[r].got EXCEPT !.name = Named(a.set.name, @),
                                    !.cross = Named(a.set.cross, @)]
     IN
     /\ ~Locked(r, a.cat)
     /\ a.cat \notin DOMAIN categories => ~SlugPending(r, row.slug)
     /\ IF a.cat \notin DOMAIN categories /\ SlugInUse(row.slug)
        THEN Refused(r, "internal")
        ELSE IF a.boards # Nil /\ BoardsAnswer(a.boards) # "ok"
        THEN Refused(r, BoardsAnswer(a.boards))
        ELSE Works(r, IF a.boards = Nil THEN "commit" ELSE "strip",
                   [NoWork EXCEPT !.holds = a.cat, !.row = row])

\* ReplaceCategoryBoards: the posts of other boards lose the category ...
FindStray(r) ==
  /\ reqs[r].at = "strip"
  /\ Works(r, "strip found", [work[r] EXCEPT !.found =
       {t \in tags : /\ t[2] = work[r].holds
                     /\ posts[t[1]].board \notin reqs[r].asked.boards}])

\* ... once nobody else is taking those rows away ...
StripTags(r) ==
  /\ reqs[r].at = "strip found"
  /\ work[r].found \cap Taken(r) = {}
  /\ Works(r, "relink", [work[r] EXCEPT !.found = {}, !.dels = @ \cup (work[r].found \cap tags)])

\* Mutant: the category keeps the boards it had.
AddLinks(r) ==
  /\ reqs[r].at = "relink"
  /\ Works(r, "commit", work[r])

\* ... and the boards it had make room for those it gets.
Relink(r) ==
  /\ reqs[r].at = "relink"
  /\ Works(r, "commit", [work[r] EXCEPT !.unlinks =
       {l \in links : l[2] = work[r].holds}])

\* Its assignments go with a category that is deleted, which waits for whoever
\* writes it or gives it to a post.
DeleteCategory(r) ==
  /\ reqs[r].at = "delete"
  /\ LET c == reqs[r].asked.cat
         given == {t \in tags : t[2] = c}
     IN
     /\ ~Locked(r, c)
     /\ \A p \in DOMAIN posts \cup Requests : <<p, c>> \notin Given(r)
     /\ given \cap Taken(r) = {}
     /\ Works(r, "commit", [NoWork EXCEPT !.holds = c, !.dels = given,
                            !.unlinks = {l \in links : l[2] = c}])

-----------------------------------------------------------------------------
\* create-post and edit-post check the categories they are given ...

\* A post is created in a board that is there and open; it is edited by its author,
\* and none of these posts is deleted.
CreatePostAnswer(a) ==
  IF a.board \notin DOMAIN boards THEN "not_found"
  ELSE IF boards[a.board].archived THEN "validation" ELSE "ok"
EditPostAnswer(a) == IF posts[a.post].author # a.by THEN "forbidden" ELSE "ok"

ReadPost(r) ==
  /\ reqs[r].at = "post"
  /\ LET a == reqs[r].asked
         answer == IF a.op = "create-post" THEN CreatePostAnswer(a) ELSE EditPostAnswer(a)
         b == IF a.op = "create-post" THEN a.board ELSE posts[a.post].board
         tooMany == boards[b].limit > 0 /\ Cardinality(a.tags) > boards[b].limit
     IN
     IF answer # "ok" THEN Refused(r, answer)
     ELSE IF a.tags = Nil THEN Proceeds(r, "commit")
     ELSE IF tooMany THEN Refused(r, "validation")
     ELSE /\ reqs' = [reqs EXCEPT ![r].at = "validate", ![r].got = b]
          /\ UNCHANGED <<rows, work>>

\* Mutant: the categories of any board will do.
OfAnyBoard(b, set) == \A c \in set : \E l \in links : l[2] = c
ValidatePostCategories(b, set) == \A c \in set : Available(b, c)

Validate(r) ==
  /\ reqs[r].at = "validate"
  /\ IF ~ValidatePostCategories(reqs[r].got, reqs[r].asked.tags)
     THEN Refused(r, "validation")
     ELSE Proceeds(r, IF reqs[r].asked.op = "create-post" THEN "tag" ELSE "untag")

\* ... ReplacePostCategories deletes those the post had ...
FindTags(r) ==
  /\ reqs[r].at = "untag"
  /\ Works(r, "untag found", [work[r] EXCEPT !.found =
       {t \in tags : t[1] = reqs[r].asked.post}])

DeleteTags(r) ==
  /\ reqs[r].at = "untag found"
  /\ work[r].found \cap Taken(r) = {}
  /\ Works(r, "tag", [work[r] EXCEPT !.found = {}, !.dels = work[r].found \cap tags])

PostOf(r) == IF reqs[r].asked.op = "create-post" THEN r ELSE reqs[r].asked.post

\* ... and inserts the others: ON CONFLICT DO NOTHING, and the foreign key waits
\* for whoever deletes the category.
InsertTags(r) ==
  /\ reqs[r].at = "tag"
  /\ LET p == PostOf(r)
         set == reqs[r].asked.tags
         there == {t[2] : t \in {x \in tags \ work[r].dels : x[1] = p}}
     IN
     /\ \A c \in set : <<p, c>> \notin Given(r) /\ ~Deleting(r, c)
     /\ IF set \subseteq DOMAIN categories
        THEN Works(r, "commit", [work[r] EXCEPT !.ins = {<<p, c, r>> : c \in set \ there}])
        ELSE Refused(r, "internal")

-----------------------------------------------------------------------------
\* The transaction commits.  A category is read again for the answer (Reread).
Commit(r) ==
  /\ reqs[r].at = "commit"
  /\ LET a == reqs[r].asked
         w == work[r]
     IN
     /\ tags' = (tags \ w.dels) \cup w.ins
     /\ categories' =
          IF a.op = "delete-category"
          THEN [c \in DOMAIN categories \ {a.cat} |-> categories[c]]
          ELSE IF w.row # Nil THEN Put(categories, w.holds, w.row) ELSE categories
     /\ links' = (links \ w.unlinks) \cup
          (IF a.op \in {"create-category", "update-category"} /\ a.boards # Nil
           THEN a.boards \X {w.holds} \X {r} ELSE {})
     /\ posts' = IF a.op = "create-post"
                 THEN Put(posts, r, [board |-> a.board, author |-> a.by]) ELSE posts
  /\ work' = [work EXCEPT ![r] = NoWork]
  /\ Answers(r, IF reqs[r].asked.op \in {"create-category", "update-category"}
                THEN "nothing yet" ELSE "ok")
  /\ UNCHANGED <<boards, members, admins>>

\* Any statement may fail, or the database break a deadlock.
Rollback(r) ==
  /\ Fail(r)
  /\ work' = [work EXCEPT ![r] = NoWork]
  /\ UNCHANGED <<categories, links, posts, tags>>

-----------------------------------------------------------------------------
Init ==
  /\ BoardsInit
  /\ categories = InitCategories
  /\ links = InitLinks
  /\ posts = InitPosts
  /\ tags = InitTags
  /\ work = [r \in Requests |-> NoWork]

Next ==
  \/ BoardStep /\ UNCHANGED <<categories, links, posts, tags, work>>
  \/ \E r \in Requests :
       \/ InsertCategory(r) \/ GetCategory(r) \/ Save(r) \/ FindStray(r)
       \/ StripTags(r) \/ Relink(r) \/ DeleteCategory(r) \/ ReadPost(r)
       \/ Validate(r) \/ FindTags(r) \/ DeleteTags(r) \/ InsertTags(r)
       \/ Commit(r) \/ Rollback(r)

Spec == Init /\ [][Next]_vars
=============================================================================
