------------------------------- MODULE Boards -------------------------------
(***************************************************************************)
(* Boards and their members: BoardService (api/internal/csilservices/      *)
(* board.go) over the statements of api/internal/store/board.go, with the  *)
(* rights of api/internal/csilservices/authz.go.  Every statement commits  *)
(* by itself.                                                              *)
(*                                                                         *)
(* A request asks one thing, once.  What it creates is known by its name.  *)
(***************************************************************************)
EXTENDS Integers, FiniteSets

CONSTANTS Users, Requests,
          Texts,      \* slugs, titles and names
          Menu,       \* what requests may ask
          InitBoards, \* the boards there are, with their rows
          InitMembers, InitAdmins,
          Switched,   \* the users an operator makes admins, or no admins
          Nil         \* what a request leaves out, and no row

VARIABLES boards,  \* the rows of boards, by id
          members, \* board_members: the role of each user on each board
          admins,  \* the users whose roles include "admin"
          reqs     \* each request: what it asked, has read and was answered

bvars == <<boards, members, admins, reqs>>

BoardIds == DOMAIN InitBoards \cup Requests
BoardRoles == {"none", "moderator", "maintainer"}
MaxCategoryLimit == 100

BoardRow == [slug : Texts, title : Texts, limit : 0..MaxCategoryLimit,
             archived : BOOLEAN]

\* A request to update a board names some of its columns.
BoardAsks ==
  [op : {"create-board"}, by : Users, slug : Texts, title : Texts, limit : Nat] \cup
  [op : {"update-board"}, by : Users, board : BoardIds,
   set : [title : Texts \cup {Nil}, limit : Nat \cup {Nil}]] \cup
  [op : {"archive-board"}, by : Users, board : BoardIds] \cup
  [op : {"set-board-member"}, by : Users, board : BoardIds, user : Users,
   role : BoardRoles] \cup
  [op : {"remove-board-member"}, by : Users, board : BoardIds, user : Users]

\* The boards there are keep their ids, and an id is not a request's nor Nil.
ASSUME BoardsAssumption ==
  /\ InitBoards \in [DOMAIN InitBoards -> BoardRow]
  /\ InitMembers \in [BoardIds \X Users -> BoardRoles]
  /\ InitAdmins \subseteq Users /\ Switched \subseteq Users
  /\ Requests \cap DOMAIN InitBoards = {}
  /\ Nil \notin Texts

Fresh == [at |-> "fresh"]
Ended == {"done", "refused"}
InFlight(q) == reqs[q].at \notin {"fresh"} \cup Ended

BoardsOK ==
  /\ DOMAIN boards \subseteq BoardIds
  /\ boards \in [DOMAIN boards -> BoardRow]
  /\ members \in [BoardIds \X Users -> BoardRoles]
  /\ admins \subseteq Users

-----------------------------------------------------------------------------
\* Rights.

AdminOnly == {"create-board", "archive-board", "set-board-member",
              "create-category", "update-category", "delete-category"}
OfMaintainers == {"update-board", "remove-board-member"}

\* Mutant: a maintainer of any board will do.
MaintainerSomewhere(u, b) ==
  \E x \in DOMAIN boards : members[<<x, u>>] = "maintainer"
IsBoardMaintainer(u, b) == members[<<b, u>>] = "maintainer"

\* The authorization matrix at the head of board.go, and categories.
Entitled(a, roles, of) ==
  \/ a.op \notin AdminOnly \cup OfMaintainers
  \/ a.by \in of
  \/ a.op \in OfMaintainers /\ roles[<<a.board, a.by>>] = "maintainer"

\* had is a history variable: the request was entitled at some moment.
Witnessed(current, roles, of) ==
  [q \in Requests |->
     IF ~InFlight(q) \/ current[q].at \in Ended THEN current[q]
     ELSE [current[q] EXCEPT !.had = @ \/ Entitled(current[q].asked, roles, of)]]

-----------------------------------------------------------------------------
\* Table f with row v under key k.
Put(f, k, v) == [x \in DOMAIN f \cup {k} |-> IF x = k THEN v ELSE f[x]]

Goes(r, at) == reqs' = [reqs EXCEPT ![r].at = at]

\* A request whose changes are stored is done, whatever its client is told of it,
\* and that may come later.  One that is refused has changed nothing, and what it
\* asked is not kept.
Answered(q, answer) ==
  IF answer \in {"ok", "nothing yet"}
  THEN [at |-> "done", asked |-> q.asked, had |-> q.had, met |-> q.met, told |-> answer]
  ELSE [at |-> "refused"]
Answers(r, answer) == reqs' = [reqs EXCEPT ![r] = Answered(@, answer)]

FirstStep ==
  [op \in {"create-board", "update-board", "archive-board", "set-board-member",
           "remove-board-member", "create-category", "update-category",
           "delete-category", "create-post", "edit-post"} |->
     CASE op = "create-board" -> "slug"
       [] op \in {"update-category", "delete-category"} -> "category"
       [] op = "create-category" -> "insert category"
       [] op \in {"create-post", "edit-post"} -> "post"
       [] OTHER -> "board"]

\* The session middleware reads the user with the roles; what only an admin may
\* do is refused by them.  met is a history variable: the requests this one
\* overlaps that were there before it.
Begin(r) ==
  /\ reqs[r] = Fresh
  /\ \E a \in Menu :
       LET q == [at |-> FirstStep[a.op], asked |-> a, admin |-> a.by \in admins,
                 had |-> Entitled(a, members, admins),
                 met |-> {x \in Requests : InFlight(x)}, got |-> Nil]
       IN reqs' = [reqs EXCEPT ![r] =
            IF a.op \in AdminOnly /\ ~q.admin THEN Answered(q, "forbidden") ELSE q]
  /\ UNCHANGED <<boards, members, admins>>

\* A statement fails, or the connection to the database, before anything of the
\* request is stored.
Fail(r) ==
  /\ InFlight(r)
  /\ Answers(r, "internal")
  /\ UNCHANGED <<boards, members, admins>>

-----------------------------------------------------------------------------
\* create-board.

SlugTaken(slug) == \E b \in DOMAIN boards : boards[b].slug = slug

BoardSlugExists(r) ==
  /\ reqs[r].at = "slug"
  /\ IF SlugTaken(reqs[r].asked.slug)
     THEN Answers(r, "conflict") ELSE Goes(r, "insert board")
  /\ UNCHANGED <<boards, members, admins>>

\* The limit of a new board is left to the check of its column, the race of two
\* creations to the unique key.
CreateBoard(r) ==
  /\ reqs[r].at = "insert board"
  /\ LET a == reqs[r].asked IN
     \/ /\ a.limit > MaxCategoryLimit
        /\ Answers(r, "internal")
        /\ UNCHANGED boards
     \/ /\ a.limit <= MaxCategoryLimit /\ SlugTaken(a.slug)
        /\ Answers(r, "conflict")
        /\ UNCHANGED boards
     \/ /\ a.limit <= MaxCategoryLimit /\ ~SlugTaken(a.slug)
        /\ boards' = Put(boards, r, [slug |-> a.slug, title |-> a.title,
                                     limit |-> a.limit, archived |-> FALSE])
        /\ Answers(r, "ok")
  /\ UNCHANGED <<members, admins>>

-----------------------------------------------------------------------------
\* The other operations look the board up ...

GetBoardByID(r) ==
  /\ reqs[r].at = "board"
  /\ LET a == reqs[r].asked IN
     IF a.board \notin DOMAIN boards THEN Answers(r, "not_found")
     ELSE reqs' = [reqs EXCEPT
            ![r].at = IF reqs[r].admin THEN "write" ELSE "role",
            ![r].got = boards[a.board]]
  /\ UNCHANGED <<boards, members, admins>>

\* ... ask for the role of whoever is no admin ...
CheckRole(r) ==
  /\ reqs[r].at = "role"
  /\ IF IsBoardMaintainer(reqs[r].asked.by, reqs[r].asked.board)
     THEN Goes(r, "write") ELSE Answers(r, "forbidden")
  /\ UNCHANGED <<boards, members, admins>>

Write(r, op) == reqs[r].at = "write" /\ reqs[r].asked.op = op

Named(value, old) == IF value = Nil THEN old ELSE value

\* Mutant: the row that was read is saved with the changes.
WholeRow(q, row) == [q.got EXCEPT !.title = Named(q.asked.set.title, @),
                                  !.limit = Named(q.asked.set.limit, @)]
\* The columns that are named, and no other.
Updated(q, row) == [row EXCEPT !.title = Named(q.asked.set.title, @),
                               !.limit = Named(q.asked.set.limit, @)]

\* ... and write.  An update of nothing writes nothing.
UpdateBoard(r) ==
  /\ Write(r, "update-board")
  /\ LET q == reqs[r]
         set == q.asked.set
         valid == set.limit # Nil => set.limit <= MaxCategoryLimit
     IN
     \/ /\ set.title = Nil /\ set.limit = Nil
        /\ Answers(r, "ok")
        /\ UNCHANGED boards
     \/ /\ ~valid
        /\ Answers(r, "validation")
        /\ UNCHANGED boards
     \/ /\ set.title # Nil \/ set.limit # Nil
        /\ valid
        /\ boards' = [boards EXCEPT ![q.asked.board] = Updated(q, @)]
        /\ Answers(r, "nothing yet")
  /\ UNCHANGED <<members, admins>>

\* An update of a board is answered with what is read after it, and so are a new
\* category and an update of one.  When that fails, so does the answer, and what
\* was stored stays.
Reread(r) ==
  /\ reqs[r].at = "done" /\ reqs[r].told = "nothing yet"
  /\ \E told \in {"ok", "internal"} : reqs' = [reqs EXCEPT ![r].told = told]
  /\ UNCHANGED <<boards, members, admins>>

\* Mutant: the update has no "archived_at IS NULL".
AnyRow(b) == TRUE
ArchivableRow(b) == ~boards[b].archived

ArchiveBoard(r) ==
  /\ Write(r, "archive-board")
  /\ LET b == reqs[r].asked.board IN
     IF ArchivableRow(b)
     THEN boards' = [boards EXCEPT ![b].archived = TRUE] /\ Answers(r, "ok")
     ELSE Answers(r, "conflict") /\ UNCHANGED boards
  /\ UNCHANGED <<members, admins>>

SetBoardMember(r) ==
  /\ Write(r, "set-board-member")
  /\ LET a == reqs[r].asked IN
     members' = [members EXCEPT ![<<a.board, a.user>>] = a.role]
  /\ reqs' = Witnessed([reqs EXCEPT ![r] = Answered(@, "ok")], members', admins)
  /\ UNCHANGED <<boards, admins>>

RemoveBoardMember(r) ==
  /\ Write(r, "remove-board-member")
  /\ LET a == reqs[r].asked
         key == <<a.board, a.user>>
     IN /\ members' = [members EXCEPT ![key] = "none"]
        /\ Answers(r, IF members[key] = "none" THEN "not_found" ELSE "ok")
  /\ UNCHANGED <<boards, admins>>

\* Somebody becomes an admin, or stops to be one, by the hand of an operator
\* (cmd/firepit-seed/admin.go).
ChangeRoles(u) ==
  /\ admins' = IF u \in admins THEN admins \ {u} ELSE admins \cup {u}
  /\ reqs' = Witnessed(reqs, members, admins')
  /\ UNCHANGED <<boards, members>>

-----------------------------------------------------------------------------
BoardsInit ==
  /\ boards = InitBoards
  /\ members = InitMembers
  /\ admins = InitAdmins
  /\ reqs = [r \in Requests |-> Fresh]

BoardStep ==
  \/ \E r \in Requests :
       \/ Begin(r) \/ BoardSlugExists(r) \/ CreateBoard(r) \/ GetBoardByID(r)
       \/ CheckRole(r) \/ UpdateBoard(r) \/ Reread(r) \/ ArchiveBoard(r)
       \/ SetBoardMember(r) \/ RemoveBoardMember(r)
  \/ \E u \in Switched : ChangeRoles(u)
=============================================================================
