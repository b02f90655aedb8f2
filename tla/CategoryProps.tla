--------------------------- MODULE CategoryProps ----------------------------
(***************************************************************************)
(* What holds of boards, members, categories and the posts they are given  *)
(* to while requests overlap, over Categories.                             *)
(***************************************************************************)
EXTENDS Categories

\* What r asked is stored, whatever its client has been told.
Stored(r, op) == reqs[r].at = "done" /\ reqs[r].asked.op = op

Met(q, r) == q \in reqs[r].met \/ r \in reqs[q].met

Deletions(c) ==
  {d \in Requests : Stored(d, "delete-category") /\ reqs[d].asked.cat = c}
Updates(c) ==
  {q \in Requests : Stored(q, "update-category") /\ reqs[q].asked.cat = c}

\* Nothing is done for somebody who was not entitled to it at any moment of the
\* request, on that board: a maintainer reaches no other board, and whoever has
\* lost the role before asking gets nothing (IsInstanceAdmin,
\* canManageBoardMetadata, requireCategoryAdmin).
RightsHeld ==
  \A r \in Requests : \A op \in AdminOnly \cup OfMaintainers :
    Stored(r, op) => reqs[r].had

\* Column f of board b takes a value that r, which is at its write, asked for.
Writes(r, b, f) ==
  LET a == reqs[r].asked IN
  /\ reqs[r].at = "write" /\ reqs'[r].at = "done" /\ a.board = b
  /\ \/ a.op = "update-board" /\ f \in {"title", "limit"} /\ boards'[b][f] = a.set[f]
     \/ a.op = "archive-board" /\ f = "archived" /\ boards'[b][f] = TRUE

\* A column of a board takes no value but the one that the request at its write
\* named for it: overlapping updates of different columns, or an update and an
\* archival, lose nothing of each other, and no update opens a board that was
\* archived since it was read (Store.UpdateBoardFields, Store.ArchiveBoard).
UpdatesKeep ==
  [][\A b \in DOMAIN boards : \A f \in {"slug", "title", "limit", "archived"} :
       boards'[b][f] # boards[b][f] => \E r \in Requests : Writes(r, b, f)]_boards

\* A slug is of one category, also when an update puts a deleted one there again.
OneSlug ==
  \A c, d \in DOMAIN categories : c # d => categories[c].slug # categories[d].slug

\* Of the requests that archive one board, or create a board of one slug, at most
\* one does; and of two that create a category of one slug, only if the first was
\* deleted in between (Store.ArchiveBoard, the unique keys of boards and
\* categories).
OneSucceeds ==
  /\ \A r, q \in Requests : r # q =>
       /\ ~(/\ Stored(r, "archive-board") /\ Stored(q, "archive-board")
            /\ reqs[r].asked.board = reqs[q].asked.board)
       /\ ~(/\ Stored(r, "create-board") /\ Stored(q, "create-board")
            /\ reqs[r].asked.slug = reqs[q].asked.slug)
       /\ /\ Stored(r, "create-category") /\ Stored(q, "create-category")
          /\ reqs[r].asked.slug = reqs[q].asked.slug
          => Deletions(r) \cup Deletions(q) # {}
  /\ OneSlug

OfItsBoard ==
  \A t \in tags : ~Available(posts[t[1]].board, t[2]) =>
    \E q \in Requests :
      /\ Stored(q, "update-category") /\ reqs[q].asked.cat = t[2]
      /\ t[3] \in Requests /\ Met(q, t[3])

\* The limit a board began with stands, and nobody asks for that one anew.
LimitAtFirst(b) ==
  IF b \in Requests THEN reqs[b].asked.limit ELSE InitBoards[b].limit
FirstLimit(b) ==
  /\ boards[b].limit = LimitAtFirst(b)
  /\ \A a \in Menu : a.op = "update-board" /\ a.board = b =>
       a.set.limit # LimitAtFirst(b)

WithinLimit ==
  \A p \in DOMAIN posts :
    LET limit == boards[posts[p].board].limit
        given == {t \in tags : t[1] = p}
    IN  FirstLimit(posts[p].board) /\ limit > 0
          => \/ Cardinality(given) <= limit
             \/ \E t, u \in given : /\ t[3] # u[3] /\ {t[3], u[3]} \subseteq Requests
                                    /\ Met(t[3], u[3])

\* A post has a category that is not available in its origin board only if the
\* request that gave it overlapped an update of the category, and more categories
\* than its board takes, whose limit is still the first one, only if two requests
\* that gave them overlapped (ValidatePostCategories, ReplacePostCategories,
\* ReplaceCategoryBoards; PLANDOC.md:514 "A positive value is the maximum").
StrayOnlyByOverlap == OfItsBoard /\ WithinLimit

BoardsIn(set, c) == {l[1] : l \in {x \in set : x[2] = c}}

OfOneRequest(c) ==
  LET of == BoardsIn(links, c) IN
  \/ \E q \in Updates(c) : of = reqs[q].asked.boards
  \/ IF Deletions(c) # {} THEN of = {}
     ELSE IF c \in Requests THEN of = reqs[c].asked.boards
     ELSE of = BoardsIn(InitLinks, c)

BackByOverlap(c) ==
  Deletions(c) # {} => \E q \in Updates(c), d \in Deletions(c) : Met(q, d)

\* A category is available in the boards one request asked for, never in those
\* of two; and one that was deleted comes back only through an update that
\* overlapped the deletion, in the boards such an update names or in none
\* (UpdateCategory, ReplaceCategoryBoards, DeleteCategory).
OneRequestsBoards ==
  \A c \in DOMAIN categories : OfOneRequest(c) /\ BackByOverlap(c)
=============================================================================
