--------------------------- MODULE CategoryProofs ---------------------------
(***************************************************************************)
(* Proofs about Boards and Categories, for any menu of requests, any of    *)
(* which overlap.  The strengthening comes in layers: what a request has   *)
(* got to and what it has written; that two requests in flight have met;   *)
(* that no two hold one category; for each table what an open transaction  *)
(* will make of it; and whose slug a category has.                         *)
(***************************************************************************)
EXTENDS CategoryProps, FiniteSetTheorems, TLAPS

-----------------------------------------------------------------------------
\* The types.
Steps == {"slug", "insert board", "board", "role", "write",
          "insert category", "category", "save", "strip", "strip found",
          "relink", "delete", "post", "validate", "untag", "untag found", "tag",
          "commit"}
PostIds == DOMAIN InitPosts \cup Requests
LinkRow == BoardIds \X CategoryIds \X (Requests \cup {Nil})
TagRow == PostIds \X CategoryIds \X (Requests \cup {Nil})

Running ==
  [at : Steps, asked : Menu, admin : BOOLEAN, had : BOOLEAN,
   met : SUBSET Requests, got : BoardRow \cup CategoryRow \cup BoardIds \cup {Nil}]
Finished ==
  [at : {"done"}, asked : Menu, had : BOOLEAN, met : SUBSET Requests,
   told : {"nothing yet", "ok", "internal"}]
Request == {Fresh, [at |-> "refused"]} \cup Running \cup Finished
Work ==
  [holds : CategoryIds \cup {Nil}, row : CategoryRow \cup {Nil},
   found : SUBSET TagRow, dels : SUBSET TagRow, ins : SUBSET TagRow,
   unlinks : SUBSET LinkRow]

Typed ==
  /\ BoardsOK
  /\ reqs \in [Requests -> Request]
  /\ DOMAIN categories \subseteq CategoryIds
  /\ categories \in [DOMAIN categories -> CategoryRow]
  /\ DOMAIN posts \subseteq PostIds
  /\ posts \in [DOMAIN posts -> [board : BoardIds, author : Users]]
  /\ links \subseteq LinkRow
  /\ tags \subseteq TagRow
  /\ work \in [Requests -> Work]

-----------------------------------------------------------------------------
\* Which operation is at which step, and what it has written by then.
OfCategory == {"create-category", "update-category", "delete-category"}
OfPost == {"create-post", "edit-post"}
Writing == {"strip", "strip found", "relink", "untag found", "tag", "commit"}

StepOK(op, at) ==
  \/ op = "create-board" /\ at \in {"slug", "insert board"}
  \/ /\ op \in {"update-board", "archive-board", "set-board-member",
                "remove-board-member"}
     /\ at \in {"board", "role", "write"}
  \/ op = "create-category" /\ at = "insert category"
  \/ op = "update-category" /\ at \in {"category", "save"}
  \/ op = "delete-category" /\ at \in {"category", "delete", "commit"}
  \/ /\ op \in {"create-category", "update-category"}
     /\ at \in {"strip", "strip found", "relink", "commit"}
  \/ op \in OfPost /\ at \in {"post", "validate", "tag", "commit"}
  \/ op = "edit-post" /\ at \in {"untag", "untag found"}

CatOf(r) == IF reqs[r].asked.op = "create-category" THEN r ELSE reqs[r].asked.cat
Doing(r, op) == InFlight(r) /\ reqs[r].asked.op = op

Local(r) ==
  /\ InFlight(r) => StepOK(reqs[r].asked.op, reqs[r].at)
  /\ ~InFlight(r) \/ reqs[r].at \notin Writing => work[r] = NoWork
  /\ InFlight(r) /\ reqs[r].at \in Writing /\ reqs[r].asked.op \in OfCategory =>
       /\ work[r].holds = CatOf(r)
       /\ work[r].row = Nil <=> reqs[r].asked.op = "delete-category"
       /\ work[r].ins = {}
  /\ InFlight(r) /\ reqs[r].asked.op \in OfPost =>
       work[r].holds = Nil /\ work[r].row = Nil /\ work[r].unlinks = {}
  /\ InFlight(r) /\ reqs[r].at = "save" => reqs[r].got \in CategoryRow
AllLocal == \A r \in Requests : Local(r)

-----------------------------------------------------------------------------
\* Rights.
HasHad ==
  \A r \in Requests :
    /\ InFlight(r) /\ Entitled(reqs[r].asked, members, admins) => reqs[r].had
    /\ InFlight(r) => \/ reqs[r].had
                      \/ reqs[r].at \in {"board", "role"} /\ ~reqs[r].admin

\* Boards.
Created ==
  \A r \in Requests :
    /\ r \in DOMAIN boards <=> Stored(r, "create-board")
    /\ r \in DOMAIN boards => boards[r].slug = reqs[r].asked.slug
Archived ==
  \A r \in Requests : Stored(r, "archive-board") =>
    reqs[r].asked.board \in DOMAIN boards /\ boards[reqs[r].asked.board].archived
BoardFound ==
  \A r \in Requests : InFlight(r) /\ reqs[r].at \in {"role", "write"} =>
    reqs[r].asked.board \in DOMAIN boards
FirstBoards == DOMAIN InitBoards \subseteq DOMAIN boards

\* Overlaps.
AllMet ==
  \A r, q \in Requests : r # q /\ InFlight(r) /\ InFlight(q) => Met(q, r)

\* Categories.
Exists(c) ==
  c \in DOMAIN InitCategories \/ (c \in Requests /\ Stored(c, "create-category"))
Known ==
  /\ \A c \in DOMAIN categories : Exists(c)
  /\ \A r \in Requests :
       \/ Stored(r, "update-category") \/ Stored(r, "delete-category")
       \/ /\ Doing(r, "update-category") \/ Doing(r, "delete-category")
          /\ reqs[r].at # "category"
       => Exists(reqs[r].asked.cat)
OneHolds ==
  \A r, q \in Requests : r # q /\ work[r].holds # Nil => work[q].holds # work[r].holds

\* Links.
Named_(r) ==
  /\ Doing(r, "create-category") \/ Doing(r, "update-category")
  /\ reqs[r].at \in Writing /\ reqs[r].asked.boards # Nil
BoardsThere ==
  \A r \in Requests : Named_(r) =>
    reqs[r].asked.boards # {} /\ reqs[r].asked.boards \subseteq DOMAIN boards
OnlyNamed ==
  \A r \in Requests : Doing(r, "update-category") /\ reqs[r].asked.boards = Nil =>
    reqs[r].at \in {"category", "save", "commit"} /\ work[r].dels = {}
LinksThere ==
  \A l \in links : l[1] \in DOMAIN boards /\ l[2] \in DOMAIN categories
Unlinks ==
  \A r \in Requests :
    InFlight(r) /\ reqs[r].at = "commit" /\ reqs[r].asked.op \in OfCategory =>
      work[r].unlinks =
        IF reqs[r].asked.op = "update-category" /\ reqs[r].asked.boards = Nil
        THEN {} ELSE {l \in links : l[2] = CatOf(r)}
Gone ==
  /\ \A c \in CategoryIds :
       Exists(c) /\ c \notin DOMAIN categories => Deletions(c) # {}
  /\ \A r \in Requests :
       /\ Doing(r, "update-category") /\ reqs[r].at # "category"
       /\ reqs[r].asked.cat \notin DOMAIN categories
       => \E d \in Deletions(reqs[r].asked.cat) : Met(r, d)

\* Tags.
PostsThere ==
  /\ DOMAIN posts = DOMAIN InitPosts \cup {r \in Requests : Stored(r, "create-post")}
  /\ \A p \in DOMAIN posts :
       /\ posts[p].board \in DOMAIN boards
       /\ p \in DOMAIN InitPosts => posts[p] = InitPosts[p]
       /\ p \in Requests => posts[p].board = reqs[p].asked.board
OneTag == \A t, x \in tags : x[1] = t[1] /\ x[2] = t[2] => x = t
TagsThere == \A t \in tags : t[1] \in DOMAIN posts /\ t[2] \in DOMAIN categories
TagOwner ==
  \A t \in tags :
    \/ t[3] = Nil /\ t \in InitTags
    \/ /\ t[3] \in Requests /\ reqs[t[3]].at = "done"
       /\ reqs[t[3]].asked.op \in OfPost /\ t[1] = PostOf(t[3])
       /\ reqs[t[3]].asked.tags # Nil /\ t[2] \in reqs[t[3]].asked.tags
Pending ==
  \A r \in Requests : \A t \in work[r].ins :
    /\ t[1] = PostOf(r) /\ t[3] = r
    /\ reqs[r].at = "commit" /\ reqs[r].asked.op \in OfPost
    /\ reqs[r].asked.tags # Nil /\ t[2] \in reqs[r].asked.tags
    /\ t[2] \in DOMAIN categories
    /\ \A x \in tags \ work[r].dels : ~(x[1] = t[1] /\ x[2] = t[2])
PendingApart ==
  \A r, q \in Requests : r # q =>
    \A t \in work[r].ins :
      /\ \A x \in work[q].ins : ~(x[1] = t[1] /\ x[2] = t[2])
      /\ Doing(q, "delete-category") => work[q].holds # t[2]
Cleared ==
  \A r \in Requests : Doing(r, "delete-category") /\ reqs[r].at = "commit" =>
    {t \in tags : t[2] = reqs[r].asked.cat} \subseteq work[r].dels

\* Strays.
BoardOf(s) ==
  IF reqs[s].asked.op = "create-post" THEN reqs[s].asked.board
  ELSE InitPosts[reqs[s].asked.post].board
Excused(s, c) == \E q \in Updates(c) : Met(q, s)
PastPost(s) ==
  /\ InFlight(s) \/ reqs[s].at = "done"
  /\ reqs[s].asked.op \in OfPost /\ reqs[s].at # "post"
Checked ==
  \A s \in Requests : PastPost(s) =>
    /\ BoardOf(s) \in DOMAIN boards
    /\ InFlight(s) /\ reqs[s].at # "commit" =>
         reqs[s].asked.tags # Nil
    /\ reqs[s].at = "validate" => reqs[s].got = BoardOf(s)
ValidatedOf(s) ==
  InFlight(s) /\ PastPost(s) /\ reqs[s].at # "validate" /\ reqs[s].asked.tags # Nil =>
    \A c \in reqs[s].asked.tags :
      /\ Exists(c)
      /\ Available(BoardOf(s), c) \/ c \notin DOMAIN categories \/ Excused(s, c)
After(s, t) == t[3] \in Requests /\ Met(s, t[3])
StrippedOf(q) ==
  Named_(q) /\ reqs[q].at # "strip" =>
    \A t \in tags : /\ t[2] = CatOf(q)
                    /\ posts[t[1]].board \notin reqs[q].asked.boards
      => \/ t \in work[q].found /\ reqs[q].at = "strip found"
         \/ t \in work[q].dels
         \/ After(q, t)
OfBoard(t) ==
  Available(posts[t[1]].board, t[2]) \/ \E q \in Updates(t[2]) : After(q, t)

\* Limits.
Mixed ==
  \A t, u \in tags : t[1] = u[1] /\ t[3] # u[3] =>
    t[3] \in Requests /\ After(t[3], u)
ReplacedOf(s) ==
  /\ Doing(s, "edit-post") /\ reqs[s].asked.tags # Nil
  /\ reqs[s].at \in {"untag found", "tag", "commit"}
  => \A t \in tags : t[1] = reqs[s].asked.post
      => \/ t \in work[s].found /\ reqs[s].at = "untag found"
         \/ t \in work[s].dels /\ reqs[s].at # "untag found"
         \/ After(s, t)
FitsOf(s) ==
  /\ PastPost(s) /\ reqs[s].asked.tags # Nil
  /\ FirstLimit(BoardOf(s)) /\ boards[BoardOf(s)].limit > 0
  => Cardinality(reqs[s].asked.tags) <= boards[BoardOf(s)].limit

-----------------------------------------------------------------------------
\* What each operation is asked with.
LEMMA AskOp ==
  ASSUME NEW a \in Menu
  PROVE  /\ a.by \in Users
         /\ a.op \in {"create-board", "update-board", "archive-board",
                      "set-board-member", "remove-board-member"}
                     \cup OfCategory \cup OfPost
BY CategoriesAssumption DEF BoardAsks, CategoryAsks, OfCategory, OfPost

LEMMA AskBoard ==
  ASSUME NEW a \in Menu
  PROVE  /\ a.op = "create-board" => a.slug \in Texts /\ a.title \in Texts /\ a.limit \in Nat
         /\ a.op \in {"update-board", "archive-board", "set-board-member",
                      "remove-board-member"} => a.board \in BoardIds
         /\ a.op = "update-board" => /\ a.set.title \in Texts \cup {Nil}
                                     /\ a.set.limit \in Nat \cup {Nil}
         /\ a.op = "set-board-member" => a.user \in Users /\ a.role \in BoardRoles
         /\ a.op = "remove-board-member" => a.user \in Users
BY CategoriesAssumption DEF BoardAsks, CategoryAsks

LEMMA AskCategory ==
  ASSUME NEW a \in Menu
  PROVE  /\ a.op = "create-category" =>
              /\ a.slug \in Texts /\ a.name \in Texts /\ a.cross \in BOOLEAN
              /\ a.boards \in SUBSET BoardIds /\ a.boards # Nil
         /\ a.op = "update-category" =>
              /\ a.cat \in CategoryIds
              /\ a.set.name \in Texts \cup {Nil} /\ a.set.cross \in BOOLEAN \cup {Nil}
              /\ a.boards \in {Nil} \cup SUBSET BoardIds
         /\ a.op = "delete-category" => a.cat \in CategoryIds
BY CategoriesAssumption DEF BoardAsks, CategoryAsks

LEMMA AskPost ==
  ASSUME NEW a \in Menu
  PROVE  /\ a.op = "create-post" => a.board \in BoardIds
         /\ a.op = "edit-post" => a.post \in DOMAIN InitPosts
         /\ a.op \in OfPost => a.tags \in {Nil} \cup SUBSET CategoryIds
         /\ a.op \in OfPost /\ a.tags # Nil => IsFiniteSet(a.tags)
BY CategoriesAssumption DEF BoardAsks, CategoryAsks, OfPost

LEMMA RunningFields ==
  ASSUME NEW q \in Running
  PROVE  /\ q.at \in Steps /\ q.asked \in Menu /\ q.admin \in BOOLEAN
         /\ q.had \in BOOLEAN /\ q.met \in SUBSET Requests
         /\ q.at \notin {"fresh", "done", "refused"}
         /\ q = [at |-> q.at, asked |-> q.asked, admin |-> q.admin,
                 had |-> q.had, met |-> q.met, got |-> q.got]
BY DEF Running, Steps

LEMMA RequestKinds ==
  ASSUME reqs \in [Requests -> Request], NEW r \in Requests
  PROVE  /\ InFlight(r) <=> reqs[r] \in Running
         /\ reqs[r].at = "done" <=> reqs[r] \in Finished
         /\ reqs[r] \in Request
<1>1. PICK q : q = reqs[r]
  OBVIOUS
<1>2. q \in {Fresh, [at |-> "refused"]} \cup Running \cup Finished
  BY <1>1 DEF Request
<1>3. q \in Running => q.at \notin {"fresh", "done", "refused"}
  BY RunningFields
<1>4. q \in Finished => q.at = "done"
  BY DEF Finished
<1>5. Fresh.at = "fresh" /\ [at |-> "refused"].at = "refused"
  BY DEF Fresh
<1>6. q.at \notin {"fresh", "done", "refused"} <=> q \in Running
  BY <1>2, <1>3, <1>4, <1>5
<1>7. q.at = "done" <=> q \in Finished
  BY <1>2, <1>3, <1>4, <1>5
<1> QED BY <1>1, <1>6, <1>7 DEF InFlight, Ended

-----------------------------------------------------------------------------
\* How a request goes on: to another step, with the same question ...
Went(r, at) ==
  /\ reqs[r] \in Running
  /\ \E y \in Running :
       /\ reqs' = [reqs EXCEPT ![r] = y]
       /\ y.at = at /\ y.asked = reqs[r].asked /\ y.met = reqs[r].met
       /\ y.admin = reqs[r].admin /\ y.had = reqs[r].had

\* ... to its success, to a refusal, or to its first step.
Finishes(r) ==
  /\ reqs[r] \in Running
  /\ \E y \in Finished :
       /\ reqs' = [reqs EXCEPT ![r] = y]
       /\ y.asked = reqs[r].asked /\ y.met = reqs[r].met /\ y.had = reqs[r].had
Leaves(r) ==
  /\ reqs[r] \in Running \cup {Fresh}
  /\ reqs' = [reqs EXCEPT ![r] = [at |-> "refused"]]
Begins(r) ==
  /\ reqs[r] = Fresh
  /\ \E y \in Running :
       /\ reqs' = [reqs EXCEPT ![r] = y]
       /\ y.at = FirstStep[y.asked.op] /\ y.met = {x \in Requests : InFlight(x)}
       /\ y.asked.op \in AdminOnly => y.admin
       /\ y.admin = (y.asked.by \in admins)
       /\ y.had = Entitled(y.asked, members, admins)

LEMMA GoesWent ==
  ASSUME Typed, NEW r \in Requests, reqs[r] \in Running, NEW at \in Steps,
         Goes(r, at)
  PROVE  Went(r, at)
<1>1. PICK q : q = reqs[r]
  OBVIOUS
<1>2. PICK y : y = [q EXCEPT !.at = at]
  OBVIOUS
<1>3. y = [at |-> at, asked |-> q.asked, admin |-> q.admin, had |-> q.had,
           met |-> q.met, got |-> q.got]
  BY <1>1, <1>2, RunningFields
<1>4. y \in Running
  BY <1>1, <1>3 DEF Running
<1>5. reqs' = [reqs EXCEPT ![r] = y]
  BY <1>1, <1>2 DEF Goes
<1> QED BY <1>1, <1>3, <1>4, <1>5 DEF Went

LEMMA AnswersEnds ==
  ASSUME Typed, NEW r \in Requests, reqs[r] \in Running, NEW x, Answers(r, x)
  PROVE  IF x \in {"ok", "nothing yet"} THEN Finishes(r) ELSE Leaves(r)
<1>1. PICK q : q = reqs[r]
  OBVIOUS
<1>2. PICK y : y = Answered(q, x)
  OBVIOUS
<1>3. reqs' = [reqs EXCEPT ![r] = y]
  BY <1>1, <1>2 DEF Answers
<1>4. CASE x \in {"ok", "nothing yet"}
  <2>1. y = [at |-> "done", asked |-> q.asked, had |-> q.had, met |-> q.met, told |-> x]
    BY <1>2, <1>4 DEF Answered
  <2>2. y \in Finished
    BY <1>1, <1>4, <2>1, RunningFields DEF Finished
  <2> QED BY <1>1, <1>3, <1>4, <2>1, <2>2 DEF Finishes
<1>5. CASE x \notin {"ok", "nothing yet"}
  BY <1>1, <1>2, <1>3, <1>5 DEF Answered, Leaves
<1> QED BY <1>4, <1>5

LEMMA AnswersLeaves ==
  ASSUME Typed, NEW r \in Requests, reqs[r] \in Running, NEW x,
         x \notin {"ok", "nothing yet"}, Answers(r, x)
  PROVE  Leaves(r)
BY AnswersEnds

LEMMA BeginBegins ==
  ASSUME Typed, NEW r \in Requests, Begin(r)
  PROVE  Begins(r) \/ Leaves(r)
<1>1. PICK a \in Menu :
       LET q == [at |-> FirstStep[a.op], asked |-> a, admin |-> a.by \in admins,
                 had |-> Entitled(a, members, admins),
                 met |-> {x \in Requests : InFlight(x)}, got |-> Nil]
       IN reqs' = [reqs EXCEPT ![r] =
            IF a.op \in AdminOnly /\ ~q.admin THEN Answered(q, "forbidden") ELSE q]
  BY DEF Begin
<1>2. PICK admin, had, met, at :
        /\ admin = (a.by \in admins) /\ had = Entitled(a, members, admins)
        /\ met = {x \in Requests : InFlight(x)} /\ at = FirstStep[a.op]
  OBVIOUS
<1>3. admin \in BOOLEAN /\ had \in BOOLEAN /\ met \in SUBSET Requests
  BY <1>2 DEF Entitled
<1>4. at \in Steps
  BY <1>2, AskOp DEF FirstStep, Steps, OfCategory, OfPost
<1>5. PICK y : y = [at |-> at, asked |-> a, admin |-> admin, had |-> had,
                    met |-> met, got |-> Nil]
  OBVIOUS
<1>6. y \in Running /\ y.asked = a /\ y.admin = admin /\ y.had = had /\ y.met = met
      /\ y.at = at
  BY <1>3, <1>4, <1>5 DEF Running
<1>7. reqs' = [reqs EXCEPT ![r] =
            IF a.op \in AdminOnly /\ ~admin THEN Answered(y, "forbidden") ELSE y]
  BY <1>1, <1>2, <1>5
<1>8. reqs[r] = Fresh
  BY DEF Begin
<1>9. CASE a.op \in AdminOnly /\ ~admin
  BY <1>7, <1>8, <1>9 DEF Leaves, Answered
<1>10. CASE ~(a.op \in AdminOnly /\ ~admin)
  <2>1. reqs' = [reqs EXCEPT ![r] = y]
    BY <1>7, <1>10
  <2> QED BY <1>2, <1>6, <1>8, <1>10, <2>1 DEF Begins
<1> QED BY <1>9, <1>10

\* What a request has got to, whoever was watching.
Alike(q, p) ==
  /\ q.at = p.at /\ q.asked = p.asked /\ q.met = p.met
  /\ q.at # "done" => q.got = p.got /\ q.admin = p.admin

LEMMA WitnessedAlike ==
  ASSUME NEW current \in [Requests -> Request], NEW roles, NEW of,
         NEW q \in Requests,
         InFlight(q) /\ current[q].at \notin Ended => current[q] \in Running
  PROVE  LET w == Witnessed(current, roles, of)[q] IN
         /\ w \in Request /\ Alike(w, current[q])
         /\ ~InFlight(q) \/ current[q].at \in Ended => w = current[q]
         /\ InFlight(q) /\ current[q].at \notin Ended =>
              /\ w.had \in BOOLEAN
              /\ w.had <=> current[q].had \/ Entitled(current[q].asked, roles, of)
<1>1. PICK p : p = current[q]
  OBVIOUS
<1>2. CASE ~InFlight(q) \/ p.at \in Ended
  BY <1>1, <1>2 DEF Witnessed, Alike
<1>3. CASE ~(~InFlight(q) \/ p.at \in Ended)
  <2>1. PICK had : had = (p.had \/ Entitled(p.asked, roles, of))
    OBVIOUS
  <2>2. had \in BOOLEAN
    BY <2>1
  <2>3. PICK w : w = [p EXCEPT !.had = had]
    OBVIOUS
  <2>4. Witnessed(current, roles, of)[q] = w
    BY <1>1, <1>3, <2>1, <2>3 DEF Witnessed
  <2>5. p \in Running
    BY <1>1, <1>3
  <2>6. w = [at |-> p.at, asked |-> p.asked, admin |-> p.admin, had |-> had,
             met |-> p.met, got |-> p.got]
    BY <2>3, <2>5, RunningFields
  <2>7. w \in Running
    BY <2>2, <2>5, <2>6 DEF Running
  <2>8. w \in Request
    BY <2>7 DEF Request
  <2>9. Alike(w, p) /\ w.had = had
    BY <2>6 DEF Alike
  <2> QED BY <1>1, <1>3, <2>1, <2>2, <2>4, <2>8, <2>9
<1> QED BY <1>1, <1>2, <1>3

-----------------------------------------------------------------------------
\* One request goes on, and every other is where it was.
OneGoes(x) ==
  /\ reqs' \in [Requests -> Request]
  /\ \A q \in Requests \ {x} : Alike(reqs'[q], reqs[q])
  /\ x \in Requests =>
       \/ /\ reqs[x] = Fresh /\ reqs'[x] \in Running
          /\ reqs'[x].at = FirstStep[reqs'[x].asked.op]
          /\ reqs'[x].met = {q \in Requests : InFlight(q)}
       \/ /\ reqs[x] \in Running /\ reqs'[x] \in Running \cup Finished
          /\ reqs'[x].asked = reqs[x].asked /\ reqs'[x].met = reqs[x].met
       \/ /\ reqs[x] \in Running \cup {Fresh}
          /\ reqs'[x] = [at |-> "refused"]

LEMMA EachGoes ==
  ASSUME Typed, NEW r \in Requests,
         Begins(r) \/ Leaves(r) \/ Finishes(r) \/ (\E at \in Steps : Went(r, at))
  PROVE  OneGoes(r)
<1>0. reqs \in [Requests -> Request]
  BY DEF Typed
<1>1. ASSUME NEW y \in Request, reqs' = [reqs EXCEPT ![r] = y]
      PROVE  /\ reqs' \in [Requests -> Request] /\ reqs'[r] = y
             /\ \A q \in Requests \ {r} : Alike(reqs'[q], reqs[q])
  BY <1>0, <1>1 DEF Alike
<1>2. CASE Begins(r)
  BY <1>1, <1>2 DEF Begins, OneGoes, Request
<1>3. CASE Leaves(r)
  BY <1>1, <1>3 DEF Leaves, OneGoes, Request
<1>4. CASE Finishes(r)
  BY <1>1, <1>4 DEF Finishes, OneGoes, Request
<1>5. ASSUME NEW at \in Steps, Went(r, at) PROVE OneGoes(r)
  BY <1>1, <1>5 DEF Went, OneGoes, Request
<1> QED BY <1>2, <1>3, <1>4, <1>5

\* A request that is in flight or done afterwards was so before, or begins.
LEMMA Persists ==
  ASSUME Typed, NEW x, OneGoes(x), NEW q \in Requests
  PROVE  /\ q # x => /\ InFlight(q)' <=> InFlight(q)
                     /\ reqs'[q].at = reqs[q].at
         /\ reqs[q].at = "done" => q # x
         /\ InFlight(q)' <=> reqs'[q] \in Running
         /\ InFlight(q) <=> reqs[q] \in Running
         /\ InFlight(q) \/ reqs[q].at = "done" =>
              \/ reqs'[q].asked = reqs[q].asked /\ reqs'[q].met = reqs[q].met
              \/ reqs'[q].at = "refused"
         /\ reqs'[q].at = "done" => InFlight(q) \/ reqs[q].at = "done"
<1>1. reqs \in [Requests -> Request] /\ reqs' \in [Requests -> Request]
  BY DEF Typed, OneGoes
<1>2. /\ InFlight(q) <=> reqs[q] \in Running
      /\ reqs[q].at = "done" <=> reqs[q] \in Finished
  BY <1>1, RequestKinds
<1>3. /\ InFlight(q)' <=> reqs'[q] \in Running
      /\ reqs'[q].at = "done" <=> reqs'[q] \in Finished
  <2>1. PICK f : f = reqs'
    OBVIOUS
  <2>2. reqs'[q] \in Running => reqs'[q].at \notin {"fresh", "done", "refused"}
    BY RunningFields
  <2>3. reqs'[q] \in Finished => reqs'[q].at = "done"
    BY DEF Finished
  <2>4. reqs'[q] \in {Fresh, [at |-> "refused"]} \cup Running \cup Finished
    BY <1>1 DEF Request
  <2>5. Fresh.at = "fresh" /\ [at |-> "refused"].at = "refused"
    BY DEF Fresh
  <2> QED BY <2>2, <2>3, <2>4, <2>5 DEF InFlight, Ended
<1>4. CASE q # x
  BY <1>2, <1>3, <1>4 DEF OneGoes, Alike, InFlight
<1>5. CASE q = x
  <2>1. reqs[q] \in Running \cup {Fresh}
    BY <1>5 DEF OneGoes
  <2>2. reqs[q].at # "done"
    BY <2>1, RunningFields DEF Fresh
  <2>3. reqs[q] = Fresh => ~InFlight(q)
    BY DEF Fresh, InFlight
  <2>4. /\ reqs[q] = Fresh => reqs'[q] \in Running \cup {[at |-> "refused"]}
        /\ reqs[q] # Fresh => \/ /\ reqs'[q].asked = reqs[q].asked
                                 /\ reqs'[q].met = reqs[q].met
                              \/ reqs'[q].at = "refused"
    <3>1. Fresh.at = "fresh"
      BY DEF Fresh
    <3>2. Fresh \notin Running
      BY <3>1, RunningFields
    <3>3. \/ reqs[q] = Fresh /\ reqs'[q] \in Running
          \/ /\ reqs[q] \in Running
             /\ reqs'[q].asked = reqs[q].asked /\ reqs'[q].met = reqs[q].met
          \/ reqs'[q] = [at |-> "refused"]
      BY <1>5 DEF OneGoes
    <3> QED BY <3>2, <3>3
  <2>5. reqs'[q].at = "done" => InFlight(q)
    BY <1>2, <1>3, <2>1, <2>4, RunningFields
  <2> QED BY <1>2, <1>3, <1>5, <2>2, <2>3, <2>4, <2>5
<1> QED BY <1>4, <1>5

\* Who has met stays so while both are kept.
Kept(q) == InFlight(q) \/ reqs[q].at = "done"

LEMMA MetStays ==
  ASSUME Typed, NEW x, OneGoes(x), NEW q \in Requests, NEW s \in Requests,
         Kept(q), Kept(s), Kept(q)', Kept(s)', Met(q, s)
  PROVE  Met(q, s)'
<1>1. reqs'[q].met = reqs[q].met
  BY Persists DEF Kept, InFlight, Ended
<1>2. reqs'[s].met = reqs[s].met
  BY Persists DEF Kept, InFlight, Ended
<1> QED BY <1>1, <1>2 DEF Met

\* Who is in flight at one time has met.
LEMMA AllMetStays ==
  ASSUME Typed, AllMet, NEW x, OneGoes(x)
  PROVE  AllMet'
<1> SUFFICES ASSUME NEW q \in Requests, NEW s \in Requests, q # s,
                    InFlight(q)', InFlight(s)'
             PROVE  Met(q, s)'
  BY DEF AllMet
<1>1. CASE InFlight(q) /\ InFlight(s)
  BY <1>1, MetStays DEF AllMet, Kept
<1>2. ASSUME NEW b \in Requests, NEW o \in Requests, b # o, ~InFlight(b),
             InFlight(b)', InFlight(o)'
      PROVE  o \in reqs'[b].met
  <2>1. b = x /\ InFlight(o)
    BY <1>2, Persists
  <2>2. reqs[b] \notin Running /\ reqs'[b] \in Running
    BY <1>2, Persists
  <2>3. reqs'[b].at # "refused"
    BY <2>2, RunningFields
  <2>4. reqs'[b] # [at |-> "refused"]
    BY <2>3
  <2>5. reqs'[b].met = {p \in Requests : InFlight(p)}
    BY <2>1, <2>2, <2>4 DEF OneGoes
  <2> QED BY <2>1, <2>5
<1> QED BY <1>1, <1>2 DEF Met

-----------------------------------------------------------------------------
\* Steps that do nothing about categories: the request x they are of, if any,
\* has written nothing and is done with no operation on categories or posts.
BoardSteps == {"slug", "insert board", "board", "role", "write"}

\* No board goes away, and a limit that is given up does not come back.
BoardsGrow ==
  /\ DOMAIN boards \subseteq DOMAIN boards'
  /\ \A b \in DOMAIN boards : FirstLimit(b)' =>
       FirstLimit(b) /\ boards'[b].limit = boards[b].limit

Calm(x) ==
  /\ OneGoes(x)
  /\ UNCHANGED <<categories, links, posts, tags>>
  /\ work' \in [Requests -> Work]
  /\ \A q \in Requests \ {x} : work'[q] = work[q]
  /\ x \in Requests =>
       /\ work'[x] = NoWork
       /\ InFlight(x)' =>
            /\ StepOK(reqs'[x].asked.op, reqs'[x].at)
            /\ reqs'[x].at \in BoardSteps \cup {"category", "insert category", "post"}
       /\ reqs'[x].at = "done" => reqs'[x].asked.op \notin OfCategory \cup OfPost
  /\ BoardsGrow

ArchivedOnce ==
  \A r, q \in Requests :
    /\ r # q /\ Stored(r, "archive-board") /\ Stored(q, "archive-board")
    => reqs[r].asked.board # reqs[q].asked.board
CreatedOnce ==
  \A r, q \in Requests :
    /\ r # q /\ Stored(r, "create-board") /\ Stored(q, "create-board")
    => reqs[r].asked.slug # reqs[q].asked.slug

BoardInv ==
  /\ Created /\ Archived /\ BoardFound /\ FirstBoards
  /\ ArchivedOnce /\ CreatedOnce

LEMMA FirstStays ==
  ASSUME Typed, Created, NEW x, OneGoes(x), NEW b \in DOMAIN boards
  PROVE  LimitAtFirst(b)' = LimitAtFirst(b)
<1>1. CASE b \in Requests
  <2>1. reqs[b].at = "done"
    BY <1>1 DEF Created, Stored
  <2>2. Alike(reqs'[b], reqs[b])
    BY <1>1, <2>1, Persists DEF OneGoes
  <2> QED BY <1>1, <2>2 DEF LimitAtFirst, Alike
<1>2. CASE b \notin Requests
  BY <1>2 DEF LimitAtFirst
<1> QED BY <1>1, <1>2

LEMMA BoardsUnchanged ==
  ASSUME Typed, Created, NEW x, OneGoes(x), boards' = boards
  PROVE  BoardsGrow
BY FirstStays DEF BoardsGrow, FirstLimit

\* Which requests have succeeded, before and after.
LEMMA StoredStays ==
  ASSUME Typed, NEW x, OneGoes(x), NEW q \in Requests, NEW op
  PROVE  /\ Stored(q, op) => /\ Stored(q, op)' /\ q # x
                                /\ reqs'[q].asked = reqs[q].asked
         /\ Stored(q, op)' => \/ Stored(q, op)
                                 \/ /\ q = x /\ Doing(q, op)
                                    /\ reqs'[q].asked = reqs[q].asked
<1>1. reqs[q].at = "done" => q # x
  BY Persists
<1>2. q # x => Alike(reqs'[q], reqs[q])
  BY DEF OneGoes
<1>3. reqs'[q].at = "done" /\ q = x =>
        InFlight(q) /\ reqs'[q].asked = reqs[q].asked
  BY <1>1, Persists
<1> QED BY <1>1, <1>2, <1>3 DEF Stored, Doing, Alike

\* The boards stay, and x neither created nor archived one.
LEMMA BoardsStay ==
  ASSUME Typed, BoardInv, NEW x, OneGoes(x), boards' = boards,
         x \in Requests /\ reqs'[x].at = "done" =>
           reqs'[x].asked.op \notin {"create-board", "archive-board"},
         x \in Requests /\ reqs'[x].at \in {"role", "write"} =>
           reqs'[x].asked.board \in DOMAIN boards
  PROVE  BoardInv'
<1>1. ASSUME NEW q \in Requests, NEW op \in {"create-board", "archive-board"}
      PROVE  /\ Stored(q, op)' <=> Stored(q, op)
             /\ Stored(q, op) => reqs'[q].asked = reqs[q].asked
  BY StoredStays DEF Stored
<1>2. Created' /\ Archived'
  BY <1>1 DEF BoardInv, Created, Archived
<1>3. ArchivedOnce' /\ CreatedOnce'
  BY <1>1 DEF BoardInv, ArchivedOnce, CreatedOnce
<1>4. BoardFound'
  <2> SUFFICES ASSUME NEW q \in Requests, InFlight(q)',
                      reqs'[q].at \in {"role", "write"}
               PROVE  reqs'[q].asked.board \in DOMAIN boards
    BY DEF BoardFound
  <2>1. q # x => InFlight(q) /\ Alike(reqs'[q], reqs[q])
    BY Persists DEF OneGoes
  <2> QED BY <2>1 DEF BoardInv, BoardFound, Alike
<1>5. FirstBoards'
  BY DEF BoardInv, FirstBoards
<1> QED BY <1>2, <1>3, <1>4, <1>5 DEF BoardInv

LEMMA CalmFrom ==
  ASSUME Typed, AllLocal, NEW r \in Requests, OneGoes(r), BoardsGrow,
         UNCHANGED <<categories, links, posts, tags, work>>,
         ~InFlight(r) \/ reqs[r].at \notin Writing,
         InFlight(r)' =>
            /\ StepOK(reqs'[r].asked.op, reqs'[r].at)
            /\ reqs'[r].at \in BoardSteps \cup {"category", "insert category", "post"},
         reqs'[r].at = "done" => reqs'[r].asked.op \notin OfCategory \cup OfPost
  PROVE  Calm(r)
<1>1. work[r] = NoWork
  BY DEF AllLocal, Local
<1> QED BY <1>1 DEF Calm, Typed

LEMMA WentTo ==
  ASSUME Typed, NEW r \in Requests, NEW at \in Steps, Went(r, at)
  PROVE  /\ OneGoes(r) /\ InFlight(r) /\ InFlight(r)'
         /\ reqs'[r].at = at /\ reqs'[r].asked = reqs[r].asked
         /\ reqs'[r].met = reqs[r].met /\ reqs[r].asked \in Menu
<1>1. OneGoes(r)
  BY EachGoes
<1>2. reqs'[r] \in Running /\ reqs'[r].at = at /\ reqs'[r].asked = reqs[r].asked
      /\ reqs'[r].met = reqs[r].met
  BY DEF Went, Typed
<1> QED BY <1>1, <1>2, Persists, RunningFields DEF Went

LEMMA FinishedAt ==
  ASSUME Typed, NEW r \in Requests, Finishes(r)
  PROVE  /\ OneGoes(r) /\ InFlight(r) /\ ~InFlight(r)'
         /\ reqs'[r].at = "done" /\ reqs'[r].asked = reqs[r].asked
         /\ reqs'[r].met = reqs[r].met /\ reqs[r].asked \in Menu
<1>1. OneGoes(r)
  BY EachGoes
<1>2. reqs'[r] \in Finished /\ reqs'[r].asked = reqs[r].asked
      /\ reqs'[r].met = reqs[r].met
  BY DEF Finishes, Typed
<1>3. reqs'[r].at = "done"
  BY <1>2 DEF Finished
<1> QED BY <1>1, <1>2, <1>3, Persists, RunningFields DEF Finishes, InFlight, Ended

LEMMA LeftAt ==
  ASSUME Typed, NEW r \in Requests, Leaves(r)
  PROVE  /\ OneGoes(r) /\ ~InFlight(r)' /\ reqs'[r].at = "refused"
<1>1. OneGoes(r)
  BY EachGoes
<1>2. reqs'[r] = [at |-> "refused"]
  BY DEF Leaves, Typed
<1> QED BY <1>1, <1>2 DEF InFlight, Ended

\* A refusal undoes what was written.
LEMMA LeavesCalm ==
  ASSUME Typed, AllLocal, BoardInv, NEW r \in Requests, Leaves(r),
         UNCHANGED <<boards, categories, links, posts, tags>>,
         \/ work' = [work EXCEPT ![r] = NoWork]
         \/ work' = work /\ (~InFlight(r) \/ reqs[r].at \notin Writing)
  PROVE  Calm(r) /\ BoardInv'
<1>1. OneGoes(r) /\ ~InFlight(r)' /\ reqs'[r].at = "refused"
  BY LeftAt
<1>2. BoardsGrow
  BY <1>1, BoardsUnchanged DEF BoardInv
<1>3. BoardInv'
  BY <1>1, BoardsStay
<1>4. NoWork \in Work
  BY DEF NoWork, Work
<1>5. /\ work' \in [Requests -> Work] /\ work'[r] = NoWork
      /\ \A q \in Requests \ {r} : work'[q] = work[q]
  BY <1>4 DEF Typed, AllLocal, Local
<1> QED BY <1>1, <1>2, <1>3, <1>5 DEF Calm

LEMMA BeginCalm ==
  ASSUME Typed, AllLocal, BoardInv, NEW r \in Requests, Begin(r),
         UNCHANGED <<categories, links, posts, tags, work>>
  PROVE  Calm(r) /\ BoardInv'
<1>1. UNCHANGED boards /\ reqs[r] = Fresh /\ ~InFlight(r)
  BY DEF Begin, InFlight, Fresh
<1>2. CASE Leaves(r)
  BY <1>1, <1>2, LeavesCalm
<1>3. CASE Begins(r)
  <2>1. OneGoes(r)
    BY <1>3, EachGoes
  <2>2. PICK y \in Running : reqs'[r] = y /\ y.at = FirstStep[y.asked.op]
    BY <1>3 DEF Begins, Typed
  <2>3. /\ StepOK(y.asked.op, y.at)
        /\ y.at \in {"slug", "board", "category", "insert category", "post"}
    BY <2>2, AskOp, RunningFields DEF FirstStep, StepOK, OfCategory, OfPost
  <2>4. BoardsGrow /\ BoardInv'
    BY <1>1, <2>1, <2>2, <2>3, BoardsUnchanged, BoardsStay DEF BoardInv
  <2> QED
    BY <1>1, <2>1, <2>2, <2>3, <2>4, CalmFrom DEF BoardSteps
<1> QED BY <1>2, <1>3, BeginBegins

\* A read on the way to a write.
LEMMA ReadCalm ==
  ASSUME Typed, AllLocal, BoardInv, NEW r \in Requests,
         UNCHANGED <<boards, categories, links, posts, tags, work>>,
         reqs[r].at \notin Writing,
         NEW at \in BoardSteps, Went(r, at), StepOK(reqs[r].asked.op, at),
         at \in {"role", "write"} => reqs[r].asked.board \in DOMAIN boards
  PROVE  Calm(r) /\ BoardInv'
<1>1. at \in Steps
  BY DEF BoardSteps, Steps
<1>2. /\ OneGoes(r) /\ InFlight(r) /\ InFlight(r)'
      /\ reqs'[r].at = at /\ reqs'[r].asked = reqs[r].asked
  BY <1>1, WentTo
<1>3. BoardsGrow /\ BoardInv'
  BY <1>2, BoardsUnchanged, BoardsStay DEF BoardInv, BoardSteps
<1> QED BY <1>2, <1>3, CalmFrom DEF BoardSteps

\* A request that is done and has written none of the boards.
LEMMA DoneCalm ==
  ASSUME Typed, AllLocal, BoardInv, NEW r \in Requests, Finishes(r),
         UNCHANGED <<boards, categories, links, posts, tags, work>>,
         reqs[r].at \notin Writing,
         reqs[r].asked.op \notin OfCategory \cup OfPost
                                 \cup {"create-board", "archive-board"}
  PROVE  Calm(r) /\ BoardInv'
<1>1. /\ OneGoes(r) /\ InFlight(r) /\ ~InFlight(r)'
      /\ reqs'[r].at = "done" /\ reqs'[r].asked = reqs[r].asked
  BY FinishedAt
<1>2. BoardsGrow /\ BoardInv'
  BY <1>1, BoardsUnchanged, BoardsStay DEF BoardInv
<1> QED BY <1>1, <1>2, CalmFrom

LEMMA InFlightAt ==
  ASSUME Typed, AllLocal, NEW r \in Requests, reqs[r].at \in Steps
  PROVE  /\ reqs[r] \in Running /\ InFlight(r) /\ reqs[r].asked \in Menu
         /\ StepOK(reqs[r].asked.op, reqs[r].at)
<1>1. InFlight(r)
  BY DEF InFlight, Ended, Steps
<1>2. reqs[r] \in Running
  BY <1>1, RequestKinds DEF Typed
<1> QED BY <1>1, <1>2, RunningFields DEF AllLocal, Local

LEMMA BoardSlugExistsCalm ==
  ASSUME Typed, AllLocal, BoardInv, NEW r \in Requests, BoardSlugExists(r),
         UNCHANGED <<categories, links, posts, tags, work>>
  PROVE  Calm(r) /\ BoardInv'
<1>1. reqs[r].at = "slug" /\ reqs[r].at \notin Writing /\ UNCHANGED boards
  BY DEF BoardSlugExists, Writing
<1>2. /\ reqs[r] \in Running /\ InFlight(r)
      /\ reqs[r].asked.op = "create-board"
  BY <1>1, InFlightAt DEF Steps, StepOK
<1>3. CASE Answers(r, "conflict")
  BY <1>1, <1>2, <1>3, AnswersEnds, LeavesCalm
<1>4. CASE Goes(r, "insert board")
  <2>1. "insert board" \in Steps \cap BoardSteps
    BY DEF Steps, BoardSteps
  <2>2. Went(r, "insert board")
    BY <1>2, <1>4, <2>1, GoesWent
  <2> QED BY <1>1, <1>2, <2>1, <2>2, ReadCalm DEF StepOK
<1> QED BY <1>3, <1>4 DEF BoardSlugExists

\* What the client is told changes nothing else.
LEMMA RereadTells ==
  ASSUME Typed, NEW r \in Requests, Reread(r)
  PROVE  /\ UNCHANGED <<boards, members, admins>>
         /\ \E y \in Finished :
              /\ reqs' = [reqs EXCEPT ![r] = y] /\ reqs[r] \in Finished
              /\ y.asked = reqs[r].asked /\ y.met = reqs[r].met /\ y.had = reqs[r].had
<1>1. reqs[r].at = "done" /\ UNCHANGED <<boards, members, admins>>
  BY DEF Reread
<1>2. PICK told \in {"ok", "internal"} : reqs' = [reqs EXCEPT ![r].told = told]
  BY DEF Reread
<1>3. PICK q : q = reqs[r]
  OBVIOUS
<1>4. q \in Finished
  BY <1>1, <1>3, RequestKinds DEF Typed
<1>5. PICK y : y = [q EXCEPT !.told = told]
  OBVIOUS
<1>6. y = [at |-> q.at, asked |-> q.asked, had |-> q.had, met |-> q.met, told |-> told]
  BY <1>4, <1>5 DEF Finished
<1>7. y \in Finished
  BY <1>4, <1>6 DEF Finished
<1>8. reqs' = [reqs EXCEPT ![r] = y]
  BY <1>2, <1>3, <1>5
<1> QED BY <1>1, <1>3, <1>4, <1>6, <1>7, <1>8

LEMMA RereadCalm ==
  ASSUME Typed, AllLocal, BoardInv, NEW r \in Requests, Reread(r),
         UNCHANGED <<categories, links, posts, tags, work>>
  PROVE  Calm(Nil) /\ BoardInv'
<1>1. Nil \notin Requests
  BY CategoriesAssumption DEF CategoryIds
<1>2. PICK y \in Finished :
        /\ reqs' = [reqs EXCEPT ![r] = y] /\ reqs[r] \in Finished
        /\ y.asked = reqs[r].asked /\ y.met = reqs[r].met
  BY RereadTells
<1>3. y.at = "done" /\ reqs[r].at = "done" /\ y \in Request
  BY <1>2 DEF Finished, Request
<1>4. OneGoes(Nil)
  BY <1>1, <1>2, <1>3 DEF OneGoes, Alike, Typed
<1>5. UNCHANGED boards
  BY RereadTells
<1>6. BoardsGrow /\ BoardInv'
  BY <1>1, <1>4, <1>5, BoardsUnchanged, BoardsStay DEF BoardInv
<1> QED BY <1>1, <1>4, <1>6 DEF Calm, Typed

LEMMA CheckRoleCalm ==
  ASSUME Typed, AllLocal, BoardInv, NEW r \in Requests, CheckRole(r),
         UNCHANGED <<categories, links, posts, tags, work>>
  PROVE  Calm(r) /\ BoardInv'
<1>1. reqs[r].at = "role" /\ reqs[r].at \notin Writing /\ UNCHANGED boards
  BY DEF CheckRole, Writing
<1>2. /\ reqs[r] \in Running /\ InFlight(r)
      /\ StepOK(reqs[r].asked.op, "role")
  BY <1>1, InFlightAt DEF Steps
<1>3. StepOK(reqs[r].asked.op, "write")
  BY <1>2 DEF StepOK
<1>4. reqs[r].asked.board \in DOMAIN boards
  BY <1>1, <1>2 DEF BoardInv, BoardFound
<1>5. CASE Answers(r, "forbidden")
  <2>1. Leaves(r)
    BY <1>2, <1>5, AnswersLeaves
  <2> QED BY <1>1, <2>1, LeavesCalm
<1>6. CASE Goes(r, "write")
  <2>1. "write" \in Steps \cap BoardSteps
    BY DEF Steps, BoardSteps
  <2>2. Went(r, "write")
    BY <1>2, <1>6, <2>1, GoesWent
  <2> QED BY <1>1, <1>3, <1>4, <2>1, <2>2, ReadCalm
<1> QED BY <1>5, <1>6 DEF CheckRole

LEMMA GotWent ==
  ASSUME Typed, NEW r \in Requests, reqs[r] \in Running, NEW at \in Steps,
         NEW got \in BoardRow \cup CategoryRow \cup BoardIds \cup {Nil},
         reqs' = [reqs EXCEPT ![r].at = at, ![r].got = got]
  PROVE  Went(r, at) /\ reqs'[r].got = got
<1>1. PICK q : q = reqs[r]
  OBVIOUS
<1>2. PICK y : y = [q EXCEPT !.at = at, !.got = got]
  OBVIOUS
<1>3. PICK q0 : q0 = [at |-> q.at, asked |-> q.asked, admin |-> q.admin, had |-> q.had,
           met |-> q.met, got |-> q.got]
  OBVIOUS
<1>4. q = q0
  BY <1>1, <1>3, RunningFields
<1>5. y = [at |-> at, asked |-> q.asked, admin |-> q.admin, had |-> q.had,
           met |-> q.met, got |-> got]
  BY <1>2, <1>3, <1>4
<1>6. y \in Running
  BY <1>1, <1>5, RunningFields DEF Running
<1>7. reqs' = [reqs EXCEPT ![r] = y]
  BY <1>1, <1>2 DEF Typed
<1>8. reqs'[r] = y
  BY <1>7 DEF Typed
<1>9. /\ y.at = at /\ y.asked = q.asked /\ y.met = q.met
      /\ y.admin = q.admin /\ y.had = q.had /\ y.got = got
  BY <1>5
<1>10. reqs'[r].got = got
  BY <1>8, <1>9
<1>11. Went(r, at)
  BY <1>1, <1>6, <1>7, <1>9 DEF Went
<1> QED BY <1>10, <1>11

LEMMA GetBoardCalm ==
  ASSUME Typed, AllLocal, BoardInv, NEW r \in Requests, GetBoardByID(r),
         UNCHANGED <<categories, links, posts, tags, work>>
  PROVE  Calm(r) /\ BoardInv'
<1>1. reqs[r].at = "board" /\ reqs[r].at \notin Writing /\ UNCHANGED boards
  BY DEF GetBoardByID, Writing
<1>2. /\ reqs[r] \in Running /\ InFlight(r)
      /\ StepOK(reqs[r].asked.op, "board")
  BY <1>1, InFlightAt DEF Steps
<1>3. PICK a : a = reqs[r].asked
  OBVIOUS
<1>4. CASE a.board \notin DOMAIN boards
  <2>1. Answers(r, "not_found")
    BY <1>3, <1>4 DEF GetBoardByID
  <2>2. Leaves(r)
    BY <1>2, <2>1, AnswersLeaves
  <2> QED BY <1>1, <2>2, LeavesCalm
<1>5. CASE a.board \in DOMAIN boards
  <2>1. PICK at, got : /\ at = IF reqs[r].admin THEN "write" ELSE "role"
                       /\ got = boards[a.board]
    OBVIOUS
  <2>2. reqs' = [reqs EXCEPT ![r].at = at, ![r].got = got]
    BY <1>3, <1>5, <2>1 DEF GetBoardByID
  <2>3. at \in Steps /\ at \in BoardSteps
    BY <2>1 DEF Steps, BoardSteps
  <2>4. got \in BoardRow
    BY <1>5, <2>1 DEF Typed, BoardsOK
  <2>5. Went(r, at)
    BY <1>2, <2>2, <2>3, <2>4, GotWent
  <2>6. StepOK(a.op, at)
    BY <1>2, <1>3, <2>1 DEF StepOK
  <2> QED BY <1>1, <1>3, <1>5, <2>3, <2>5, <2>6, ReadCalm
<1> QED BY <1>4, <1>5

\* A new board has its creator's slug, which no other has.
LEMMA CreateBoardCalm ==
  ASSUME Typed, AllLocal, BoardInv, NEW r \in Requests, CreateBoard(r),
         UNCHANGED <<categories, links, posts, tags, work>>
  PROVE  Calm(r) /\ BoardsOK' /\ BoardInv'
<1>1. reqs[r].at = "insert board" /\ reqs[r].at \notin Writing
      /\ UNCHANGED <<members, admins>>
  BY DEF CreateBoard, Writing
<1>2. /\ reqs[r] \in Running /\ InFlight(r) /\ reqs[r].asked \in Menu
      /\ reqs[r].asked.op = "create-board"
  BY <1>1, InFlightAt DEF Steps, StepOK
<1>3. PICK a \in Menu : a = reqs[r].asked
  BY <1>2
<1>4. ASSUME NEW x, x \notin {"ok", "nothing yet"}, Answers(r, x), UNCHANGED boards
      PROVE  Calm(r) /\ BoardsOK' /\ BoardInv'
  <2>1. Calm(r) /\ BoardInv'
    BY <1>1, <1>2, <1>4, AnswersEnds, LeavesCalm
  <2> QED BY <1>1, <1>4, <2>1 DEF Typed, BoardsOK
<1>5. ASSUME a.limit <= MaxCategoryLimit, ~SlugTaken(a.slug), Answers(r, "ok"),
             boards' = Put(boards, r, [slug |-> a.slug, title |-> a.title,
                                       limit |-> a.limit, archived |-> FALSE])
      PROVE  Calm(r) /\ BoardsOK' /\ BoardInv'
  <2>1. PICK row : row = [slug |-> a.slug, title |-> a.title,
                          limit |-> a.limit, archived |-> FALSE]
    OBVIOUS
  <2>2. row \in BoardRow /\ row.slug = a.slug /\ row.limit = a.limit
    BY <1>2, <1>3, <1>5, <2>1, AskBoard DEF BoardRow, MaxCategoryLimit
  <2>3. boards' = Put(boards, r, row)
    BY <1>5, <2>1
  <2>4. r \notin DOMAIN boards
    BY <1>1 DEF BoardInv, Created, Stored
  <2>5. /\ DOMAIN boards' = DOMAIN boards \cup {r} /\ boards'[r] = row
        /\ \A b \in DOMAIN boards : boards'[b] = boards[b]
    BY <2>3, <2>4 DEF Put
  <2>6. BoardsOK'
    BY <1>1, <2>2, <2>3, <2>5 DEF Typed, BoardsOK, BoardIds, Put
  <2>7. /\ OneGoes(r) /\ ~InFlight(r)' /\ reqs'[r].at = "done" /\ reqs'[r].asked = a
    BY <1>2, <1>3, <1>5, AnswersEnds, FinishedAt
  <2>8. BoardsGrow
    BY <2>5, <2>7, FirstStays DEF BoardInv, BoardsGrow, FirstLimit
  <2>9. Calm(r)
    BY <1>1, <1>2, <1>3, <2>7, <2>8, CalmFrom DEF OfCategory, OfPost
  <2>10. ASSUME NEW q \in Requests
         PROVE  /\ Stored(q, "create-board")' <=>
                     Stored(q, "create-board") \/ q = r
                /\ Stored(q, "archive-board")' <=> Stored(q, "archive-board")
                /\ Stored(q, "create-board") \/ Stored(q, "archive-board") =>
                     reqs'[q].asked = reqs[q].asked
    BY <1>2, <1>3, <2>7, StoredStays DEF Stored
  <2>11. Created'
    <3> SUFFICES ASSUME NEW q \in Requests
                 PROVE  /\ q \in DOMAIN boards' <=> Stored(q, "create-board")'
                        /\ q \in DOMAIN boards' =>
                             boards'[q].slug = reqs'[q].asked.slug
      BY DEF Created
    <3> QED BY <2>2, <2>5, <2>7, <2>10 DEF BoardInv, Created
  <2>12. Archived'
    BY <2>5, <2>10 DEF BoardInv, Archived
  <2>13. BoardFound'
    <3> SUFFICES ASSUME NEW q \in Requests, InFlight(q)',
                        reqs'[q].at \in {"role", "write"}
                 PROVE  reqs'[q].asked.board \in DOMAIN boards'
      BY DEF BoardFound
    <3>1. q # r /\ InFlight(q) /\ Alike(reqs'[q], reqs[q])
      BY <2>7, Persists DEF OneGoes
    <3> QED BY <2>5, <3>1 DEF BoardInv, BoardFound, Alike
  <2>14. FirstBoards'
    BY <2>5 DEF BoardInv, FirstBoards
  <2>15. ArchivedOnce'
    BY <2>10 DEF BoardInv, ArchivedOnce
  <2>16. CreatedOnce'
    <3>1. \A q \in Requests : Stored(q, "create-board") =>
            reqs[q].asked.slug # a.slug
      BY <1>5 DEF BoardInv, Created, SlugTaken
    <3> QED BY <2>7, <2>10, <3>1 DEF BoardInv, CreatedOnce
  <2> QED BY <2>6, <2>9, <2>11, <2>12, <2>13, <2>14, <2>15, <2>16 DEF BoardInv
<1> QED BY <1>3, <1>4, <1>5 DEF CreateBoard

LEMMA NamedIs ==
  ASSUME NEW value, NEW old
  PROVE  Named(value, old) = IF value = Nil THEN old ELSE value
BY DEF Named

\* An update leaves what it does not name.
LEMMA UpdateBoardCalm ==
  ASSUME Typed, AllLocal, BoardInv, NEW r \in Requests, UpdateBoard(r),
         UNCHANGED <<categories, links, posts, tags, work>>
  PROVE  Calm(r) /\ BoardsOK' /\ BoardInv'
<1>1. /\ reqs[r].at = "write" /\ reqs[r].at \notin Writing
      /\ reqs[r].asked.op = "update-board" /\ UNCHANGED <<members, admins>>
  BY DEF UpdateBoard, Write, Writing
<1>2. /\ reqs[r] \in Running /\ InFlight(r) /\ reqs[r].asked \in Menu
  BY <1>1, InFlightAt DEF Steps
<1>3. PICK q : q = reqs[r]
  OBVIOUS
<1>4. PICK set : set = q.asked.set
  OBVIOUS
<1>5. PICK b : b = q.asked.board
  OBVIOUS
<1>6. b \in DOMAIN boards
  BY <1>1, <1>2, <1>3, <1>5 DEF BoardInv, BoardFound
<1>7. ASSUME Answers(r, "validation"), UNCHANGED boards
      PROVE  Calm(r) /\ BoardsOK' /\ BoardInv'
  <2>1. Calm(r) /\ BoardInv'
    BY <1>1, <1>2, <1>7, AnswersEnds, LeavesCalm
  <2> QED BY <1>1, <1>7, <2>1 DEF Typed, BoardsOK
<1>8. ASSUME Answers(r, "ok"), UNCHANGED boards
      PROVE  Calm(r) /\ BoardsOK' /\ BoardInv'
  <2>1. Calm(r) /\ BoardInv'
    BY <1>1, <1>2, <1>8, AnswersEnds, DoneCalm DEF OfCategory, OfPost
  <2> QED BY <1>1, <1>8, <2>1 DEF Typed, BoardsOK
<1>9. ASSUME set.limit # Nil => set.limit <= MaxCategoryLimit,
             boards' = [boards EXCEPT ![q.asked.board] = Updated(q, @)],
             Answers(r, "nothing yet")
      PROVE  Calm(r) /\ BoardsOK' /\ BoardInv'
  <2>1. PICK old : old = boards[b]
    OBVIOUS
  <2>2. old \in BoardRow
    BY <1>6, <2>1 DEF Typed, BoardsOK
  <2>3. PICK title, limit : /\ title = Named(set.title, old.title)
                            /\ limit = Named(set.limit, old.limit)
    OBVIOUS
  <2>4. old = [slug |-> old.slug, title |-> old.title, limit |-> old.limit,
               archived |-> old.archived]
    BY <2>2 DEF BoardRow
  <2>5. PICK row : row = Updated(q, old)
    OBVIOUS
  <2>6. row = [slug |-> old.slug, title |-> title, limit |-> limit,
               archived |-> old.archived]
    BY <1>4, <2>3, <2>4, <2>5 DEF Updated
  <2>7. title \in Texts /\ limit \in 0..MaxCategoryLimit
    <3>1. /\ set.title \in Texts \cup {Nil} /\ set.limit \in Nat \cup {Nil}
          /\ old.title \in Texts /\ old.limit \in 0..MaxCategoryLimit
      BY <1>1, <1>2, <1>3, <1>4, <2>2, AskBoard DEF BoardRow
    <3>2. ASSUME set.limit # Nil PROVE set.limit \in 0..MaxCategoryLimit
      <4>1. PICK n : n = set.limit
        OBVIOUS
      <4>2. n \in Nat /\ n <= MaxCategoryLimit
        BY <1>9, <3>1, <3>2, <4>1
      <4>3. n \in 0..MaxCategoryLimit
        BY ONLY <4>2 DEF MaxCategoryLimit
      <4> QED BY <4>1, <4>3
    <3> QED BY <2>3, <3>1, <3>2, NamedIs
  <2>8. row \in BoardRow /\ row.slug = old.slug /\ row.archived = old.archived
        /\ row.limit = limit
    BY <2>2, <2>6, <2>7 DEF BoardRow
  <2>9. boards' = [boards EXCEPT ![b] = row]
    BY <1>5, <1>9, <2>1, <2>5
  <2>10. /\ DOMAIN boards' = DOMAIN boards
         /\ \A c \in DOMAIN boards : boards'[c] = IF c = b THEN row ELSE boards[c]
    BY <2>9
  <2>11. BoardsOK'
    BY <1>1, <2>8, <2>9, <2>10 DEF Typed, BoardsOK
  <2>13. Finishes(r)
    BY <1>2, <1>9, AnswersEnds
  <2>14. /\ OneGoes(r) /\ ~InFlight(r)' /\ reqs'[r].at = "done"
         /\ reqs'[r].asked = q.asked
    BY <1>3, <2>13, FinishedAt
  <2>15. BoardsGrow
    <3> SUFFICES ASSUME NEW c \in DOMAIN boards, FirstLimit(c)'
                 PROVE  FirstLimit(c) /\ boards'[c].limit = boards[c].limit
      BY <2>10 DEF BoardsGrow
    <3>1. LimitAtFirst(c)' = LimitAtFirst(c)
      BY <2>14, FirstStays DEF BoardInv
    <3>2. CASE c # b
      BY <2>10, <3>1, <3>2 DEF FirstLimit
    <3>3. CASE c = b
      <4>1. limit = LimitAtFirst(b)
        BY <2>8, <2>10, <3>1, <3>3 DEF FirstLimit
      <4>2. q.asked.set.limit # LimitAtFirst(b)
        BY <1>1, <1>2, <1>3, <1>5, <3>1, <3>3 DEF FirstLimit
      <4>3. limit = old.limit
        BY <1>4, <2>3, <4>1, <4>2, NamedIs
      <4> QED BY <2>1, <2>8, <2>10, <3>1, <3>3, <4>1, <4>3 DEF FirstLimit
    <3> QED BY <3>2, <3>3
  <2>16. Calm(r)
    BY <1>1, <1>3, <2>14, <2>15, CalmFrom DEF OfCategory, OfPost
  <2>17. ASSUME NEW p \in Requests, NEW op \in {"create-board", "archive-board"}
         PROVE  /\ Stored(p, op)' <=> Stored(p, op)
                /\ Stored(p, op) => reqs'[p].asked = reqs[p].asked
    BY <1>1, <1>3, <2>14, StoredStays DEF Stored
  <2>18. \A c \in DOMAIN boards : /\ boards'[c].slug = boards[c].slug
                                  /\ boards'[c].archived = boards[c].archived
    BY <2>1, <2>8, <2>10
  <2>19. Created' /\ Archived'
    BY <2>10, <2>17, <2>18 DEF BoardInv, Created, Archived
  <2>20. BoardFound'
    <3> SUFFICES ASSUME NEW p \in Requests, InFlight(p)',
                        reqs'[p].at \in {"role", "write"}
                 PROVE  reqs'[p].asked.board \in DOMAIN boards
      BY <2>10 DEF BoardFound
    <3>1. p # r /\ InFlight(p) /\ Alike(reqs'[p], reqs[p])
      BY <2>14, Persists DEF OneGoes
    <3> QED BY <3>1 DEF BoardInv, BoardFound, Alike
  <2>21. FirstBoards' /\ ArchivedOnce' /\ CreatedOnce'
    BY <2>10, <2>17 DEF BoardInv, FirstBoards, ArchivedOnce, CreatedOnce
  <2> QED BY <2>11, <2>16, <2>19, <2>20, <2>21 DEF BoardInv
<1> QED BY <1>3, <1>4, <1>7, <1>8, <1>9 DEF UpdateBoard

\* An archival finds the board as nobody archived it.
LEMMA ArchiveBoardCalm ==
  ASSUME Typed, AllLocal, BoardInv, NEW r \in Requests, ArchiveBoard(r),
         UNCHANGED <<categories, links, posts, tags, work>>
  PROVE  Calm(r) /\ BoardsOK' /\ BoardInv'
<1>1. /\ reqs[r].at = "write" /\ reqs[r].at \notin Writing
      /\ reqs[r].asked.op = "archive-board" /\ UNCHANGED <<members, admins>>
  BY DEF ArchiveBoard, Write, Writing
<1>2. /\ reqs[r] \in Running /\ InFlight(r) /\ reqs[r].asked \in Menu
  BY <1>1, InFlightAt DEF Steps
<1>3. PICK b : b = reqs[r].asked.board
  OBVIOUS
<1>4. b \in DOMAIN boards
  BY <1>1, <1>2, <1>3 DEF BoardInv, BoardFound
<1>5. CASE boards[b].archived
  <2>1. Answers(r, "conflict") /\ UNCHANGED boards
    BY <1>3, <1>5 DEF ArchiveBoard, ArchivableRow
  <2>2. Calm(r) /\ BoardInv'
    BY <1>1, <1>2, <2>1, AnswersEnds, LeavesCalm
  <2> QED BY <1>1, <2>1, <2>2 DEF Typed, BoardsOK
<1>6. CASE ~boards[b].archived
  <2>1. /\ Answers(r, "ok")
        /\ boards' = [boards EXCEPT ![b].archived = TRUE]
    BY <1>3, <1>6 DEF ArchiveBoard, ArchivableRow
  <2>2. PICK old : old = boards[b]
    OBVIOUS
  <2>3. old \in BoardRow
    BY <1>4, <2>2 DEF Typed, BoardsOK
  <2>4. PICK row : row = [old EXCEPT !.archived = TRUE]
    OBVIOUS
  <2>5. /\ row \in BoardRow /\ row.slug = old.slug /\ row.limit = old.limit
        /\ row.archived = TRUE
    BY <2>3, <2>4 DEF BoardRow
  <2>6. boards' = [boards EXCEPT ![b] = row]
    BY <2>1, <2>2, <2>4
  <2>7. /\ DOMAIN boards' = DOMAIN boards
        /\ \A c \in DOMAIN boards : boards'[c] = IF c = b THEN row ELSE boards[c]
    BY <2>6
  <2>8. BoardsOK'
    BY <1>1, <2>5, <2>6, <2>7 DEF Typed, BoardsOK
  <2>9. /\ OneGoes(r) /\ ~InFlight(r)' /\ reqs'[r].at = "done"
        /\ reqs'[r].asked = reqs[r].asked
    BY <1>2, <2>1, AnswersEnds, FinishedAt
  <2>10. \A c \in DOMAIN boards : /\ boards'[c].slug = boards[c].slug
                                  /\ boards'[c].limit = boards[c].limit
                                  /\ boards[c].archived => boards'[c].archived
    BY <2>2, <2>5, <2>7
  <2>11. BoardsGrow
    BY <2>7, <2>9, <2>10, FirstStays DEF BoardInv, BoardsGrow, FirstLimit
  <2>12. Calm(r)
    BY <1>1, <2>9, <2>11, CalmFrom DEF OfCategory, OfPost
  <2>13. ASSUME NEW q \in Requests
         PROVE  /\ Stored(q, "archive-board")' <=>
                     Stored(q, "archive-board") \/ q = r
                /\ Stored(q, "create-board")' <=> Stored(q, "create-board")
                /\ Stored(q, "create-board") \/ Stored(q, "archive-board") =>
                     reqs'[q].asked = reqs[q].asked
    BY <1>1, <2>9, StoredStays DEF Stored
  <2>14. Created'
    BY <2>7, <2>10, <2>13 DEF BoardInv, Created
  <2>15. Archived'
    <3> SUFFICES ASSUME NEW q \in Requests, Stored(q, "archive-board")'
                 PROVE  /\ reqs'[q].asked.board \in DOMAIN boards'
                        /\ boards'[reqs'[q].asked.board].archived
      BY DEF Archived
    <3>1. CASE q = r
      BY <1>3, <1>4, <2>5, <2>7, <2>9, <3>1
    <3>2. CASE q # r
      BY <2>7, <2>10, <2>13, <3>2 DEF BoardInv, Archived
    <3> QED BY <3>1, <3>2
  <2>16. BoardFound'
    <3> SUFFICES ASSUME NEW p \in Requests, InFlight(p)',
                        reqs'[p].at \in {"role", "write"}
                 PROVE  reqs'[p].asked.board \in DOMAIN boards
      BY <2>7 DEF BoardFound
    <3>1. p # r /\ InFlight(p) /\ Alike(reqs'[p], reqs[p])
      BY <2>9, Persists DEF OneGoes
    <3> QED BY <3>1 DEF BoardInv, BoardFound, Alike
  <2>17. ArchivedOnce'
    <3>1. \A q \in Requests : Stored(q, "archive-board") =>
            reqs[q].asked.board # b
      BY <1>6 DEF BoardInv, Archived
    <3> QED BY <1>3, <2>9, <2>13, <3>1 DEF BoardInv, ArchivedOnce
  <2>18. CreatedOnce' /\ FirstBoards'
    BY <2>7, <2>13 DEF BoardInv, CreatedOnce, FirstBoards
  <2> QED BY <2>8, <2>12, <2>14, <2>15, <2>16, <2>17, <2>18 DEF BoardInv
<1> QED BY <1>5, <1>6

\* Members and admins.
LEMMA SetMemberCalm ==
  ASSUME Typed, AllLocal, BoardInv, NEW r \in Requests, SetBoardMember(r),
         UNCHANGED <<categories, links, posts, tags, work>>
  PROVE  Calm(r) /\ BoardsOK' /\ BoardInv'
<1>1. /\ reqs[r].at = "write" /\ reqs[r].at \notin Writing
      /\ reqs[r].asked.op = "set-board-member" /\ UNCHANGED <<boards, admins>>
  BY DEF SetBoardMember, Write, Writing
<1>2. /\ reqs[r] \in Running /\ InFlight(r) /\ reqs[r].asked \in Menu
  BY <1>1, InFlightAt DEF Steps
<1>3. PICK q : q = reqs[r]
  OBVIOUS
<1>4. PICK y : y = Answered(q, "ok")
  OBVIOUS
<1>5. y = [at |-> "done", asked |-> q.asked, had |-> q.had, met |-> q.met,
         told |-> "ok"]
  BY <1>4 DEF Answered
<1>6. y \in Finished /\ y.asked = q.asked /\ y.at = "done" /\ y.met = q.met
  BY <1>2, <1>3, <1>5, RunningFields DEF Finished
<1>7. PICK current : current = [reqs EXCEPT ![r] = y]
  OBVIOUS
<1>8. current \in [Requests -> Request] /\ current[r] = y
      /\ \A p \in Requests \ {r} : current[p] = reqs[p]
  BY <1>6, <1>7 DEF Typed, Request
<1>9. reqs' = Witnessed(current, members', admins)
  BY <1>3, <1>4, <1>7 DEF SetBoardMember
<1>10. ASSUME NEW p \in Requests
       PROVE  /\ reqs'[p] \in Request /\ Alike(reqs'[p], current[p])
              /\ p = r => reqs'[p] = y
  <2>1. InFlight(p) /\ current[p].at \notin Ended => current[p] \in Running
    BY <1>6, <1>8, RequestKinds DEF Ended, Typed
  <2>2. PICK w : w = Witnessed(current, members', admins)[p]
    OBVIOUS
  <2>3. /\ w \in Request /\ Alike(w, current[p])
        /\ current[p].at \in Ended => w = current[p]
    BY <1>8, <2>1, <2>2, WitnessedAlike
  <2> QED BY <1>6, <1>8, <1>9, <2>2, <2>3 DEF Ended
<1>11. reqs' \in [Requests -> Request]
  BY <1>9, <1>10 DEF Witnessed
<1>12. OneGoes(r)
  BY <1>2, <1>3, <1>6, <1>8, <1>10, <1>11 DEF OneGoes
<1>13. ~InFlight(r)' /\ reqs'[r].at = "done" /\ reqs'[r].asked = q.asked
  BY <1>6, <1>10 DEF InFlight, Ended
<1>14. BoardsGrow /\ BoardInv'
  BY <1>1, <1>3, <1>12, <1>13, BoardsUnchanged, BoardsStay DEF BoardInv
<1>15. Calm(r)
  BY <1>1, <1>3, <1>12, <1>13, <1>14, CalmFrom DEF OfCategory, OfPost
<1>16. members' \in [BoardIds \X Users -> BoardRoles]
  BY <1>1, <1>2, AskBoard DEF SetBoardMember, Typed, BoardsOK
<1> QED BY <1>1, <1>14, <1>15, <1>16 DEF Typed, BoardsOK

LEMMA RemoveMemberCalm ==
  ASSUME Typed, AllLocal, BoardInv, NEW r \in Requests, RemoveBoardMember(r),
         UNCHANGED <<categories, links, posts, tags, work>>
  PROVE  Calm(r) /\ BoardsOK' /\ BoardInv'
<1>1. /\ reqs[r].at = "write" /\ reqs[r].at \notin Writing
      /\ reqs[r].asked.op = "remove-board-member" /\ UNCHANGED <<boards, admins>>
  BY DEF RemoveBoardMember, Write, Writing
<1>2. /\ reqs[r] \in Running /\ InFlight(r) /\ reqs[r].asked \in Menu
  BY <1>1, InFlightAt DEF Steps
<1>7. UNCHANGED <<boards, categories, links, posts, tags, work>>
  BY <1>1
<1>8. reqs[r].asked.op \notin OfCategory \cup OfPost
                              \cup {"create-board", "archive-board"}
  BY <1>1 DEF OfCategory, OfPost
<1>3. ASSUME Answers(r, "ok") PROVE Calm(r) /\ BoardInv'
  <2>1. Finishes(r)
    BY <1>2, <1>3, AnswersEnds
  <2> QED BY <1>1, <1>7, <1>8, <2>1, DoneCalm
<1>4. ASSUME Answers(r, "not_found") PROVE Calm(r) /\ BoardInv'
  <2>1. Leaves(r)
    BY <1>2, <1>4, AnswersLeaves
  <2> QED BY <1>1, <1>7, <2>1, LeavesCalm
<1>5. Calm(r) /\ BoardInv'
  BY <1>3, <1>4 DEF RemoveBoardMember
<1>6. members' \in [BoardIds \X Users -> BoardRoles]
  BY <1>1, <1>2, AskBoard DEF RemoveBoardMember, Typed, BoardsOK, BoardRoles
<1> QED BY <1>1, <1>5, <1>6 DEF Typed, BoardsOK

LEMMA ChangeRolesCalm ==
  ASSUME Typed, AllLocal, BoardInv, NEW u \in Switched, ChangeRoles(u),
         UNCHANGED <<categories, links, posts, tags, work>>
  PROVE  Calm(Nil) /\ BoardsOK' /\ BoardInv'
<1>1. UNCHANGED <<boards, members>> /\ reqs' = Witnessed(reqs, members, admins')
  BY DEF ChangeRoles
<1>2. Nil \notin Requests
  BY CategoriesAssumption DEF CategoryIds
<1>3. ASSUME NEW p \in Requests
      PROVE  reqs'[p] \in Request /\ Alike(reqs'[p], reqs[p])
  <2>1. InFlight(p) => reqs[p] \in Running
    BY RequestKinds DEF Typed
  <2>2. PICK w : w = Witnessed(reqs, members, admins')[p]
    OBVIOUS
  <2>3. w \in Request /\ Alike(w, reqs[p])
    BY <2>1, <2>2, WitnessedAlike DEF Typed
  <2> QED BY <1>1, <2>2, <2>3
<1>4. OneGoes(Nil)
  BY <1>1, <1>2, <1>3 DEF OneGoes, Witnessed
<1>5. BoardsGrow /\ BoardInv'
  BY <1>1, <1>2, <1>4, BoardsUnchanged, BoardsStay DEF BoardInv
<1>6. Calm(Nil)
  BY <1>2, <1>4, <1>5 DEF Calm, Typed
<1>7. admins' \subseteq Users
  BY BoardsAssumption DEF ChangeRoles, Typed, BoardsOK
<1> QED BY <1>1, <1>5, <1>6, <1>7 DEF Typed, BoardsOK

\* Every step of boards is calm, for categories.
LEMMA BoardStepCalm ==
  ASSUME Typed, AllLocal, BoardInv, BoardStep,
         UNCHANGED <<categories, links, posts, tags, work>>
  PROVE  (\E x \in Requests \cup {Nil} : Calm(x)) /\ BoardsOK' /\ BoardInv'
<1>1. ASSUME NEW r \in Requests,
             Begin(r) \/ BoardSlugExists(r) \/ GetBoardByID(r) \/ CheckRole(r)
             \/ Reread(r)
      PROVE  (\E x \in {r, Nil} : Calm(x)) /\ BoardsOK' /\ BoardInv'
  <2>1. (\E x \in {r, Nil} : Calm(x)) /\ BoardInv'
    BY <1>1, BeginCalm, BoardSlugExistsCalm, GetBoardCalm, CheckRoleCalm,
       RereadCalm
  <2>2. UNCHANGED <<boards, members, admins>>
    BY <1>1 DEF Begin, BoardSlugExists, GetBoardByID, CheckRole, Reread
  <2> QED BY <2>1, <2>2 DEF Typed, BoardsOK
<1> QED
  BY <1>1, CreateBoardCalm, UpdateBoardCalm, ArchiveBoardCalm, SetMemberCalm,
     RemoveMemberCalm, ChangeRolesCalm DEF BoardStep

-----------------------------------------------------------------------------
\* Steps about categories and posts that commit nothing: r goes to step at.
Acts(r, at) ==
  /\ OneGoes(r) /\ InFlight(r) /\ InFlight(r)' /\ reqs[r].asked \in Menu
  /\ reqs'[r].at = at /\ reqs'[r].asked = reqs[r].asked
  /\ reqs'[r].met = reqs[r].met
  /\ work' \in [Requests -> Work]
  /\ \A q \in Requests \ {r} : work'[q] = work[q]
  /\ UNCHANGED rows

NoTags(w) == w.found = {} /\ w.dels = {} /\ w.ins = {}

\* What each of them does to the work of its request.
SlugFree(r, slug) == ~SlugPending(r, slug) /\ ~SlugInUse(slug)

Inserted(r) ==
  /\ Acts(r, "strip") /\ reqs[r].asked.op = "create-category"
  /\ reqs[r].at = "insert category"
  /\ reqs[r].asked.boards # {} /\ reqs[r].asked.boards \subseteq DOMAIN boards
  /\ work'[r].holds = r /\ work'[r].row \in CategoryRow
  /\ work'[r].row.slug = reqs[r].asked.slug /\ SlugFree(r, reqs[r].asked.slug)
  /\ NoTags(work'[r]) /\ work'[r].unlinks = {}

Looked(r) ==
  /\ \/ reqs[r].asked.op = "update-category" /\ Acts(r, "save")
     \/ reqs[r].asked.op = "delete-category" /\ Acts(r, "delete")
  /\ reqs[r].at = "category" /\ reqs[r].asked.cat \in DOMAIN categories
  /\ reqs'[r].got \in CategoryRow /\ work'[r] = NoWork
  /\ reqs'[r].got = categories[reqs[r].asked.cat]

Saved(r) ==
  /\ reqs[r].asked.op = "update-category" /\ reqs[r].at = "save"
  /\ \/ reqs[r].asked.boards = Nil /\ Acts(r, "commit")
     \/ /\ reqs[r].asked.boards # Nil /\ Acts(r, "strip")
        /\ reqs[r].asked.boards # {} /\ reqs[r].asked.boards \subseteq DOMAIN boards
  /\ ~Locked(r, reqs[r].asked.cat)
  /\ work'[r].holds = reqs[r].asked.cat /\ work'[r].row \in CategoryRow
  /\ work'[r].row.slug = reqs[r].got.slug
  /\ reqs[r].asked.cat \notin DOMAIN categories => SlugFree(r, reqs[r].got.slug)
  /\ NoTags(work'[r]) /\ work'[r].unlinks = {}

SameWork(w, v) == w.holds = v.holds /\ w.row = v.row /\ w.ins = v.ins

Found(r) ==
  /\ reqs[r].asked.op \in {"create-category", "update-category"}
  /\ reqs[r].at = "strip" /\ Acts(r, "strip found")
  /\ SameWork(work'[r], work[r])
  /\ work'[r].dels = work[r].dels /\ work'[r].unlinks = work[r].unlinks
  /\ work'[r].found =
       {t \in tags : /\ t[2] = work[r].holds
                     /\ posts[t[1]].board \notin reqs[r].asked.boards}

StripsTags(r) ==
  /\ reqs[r].asked.op \in {"create-category", "update-category"}
  /\ reqs[r].at = "strip found" /\ Acts(r, "relink")
  /\ SameWork(work'[r], work[r]) /\ work'[r].unlinks = work[r].unlinks
  /\ work'[r].dels = work[r].dels \cup (work[r].found \cap tags)

Relinked(r) ==
  /\ reqs[r].asked.op \in {"create-category", "update-category"}
  /\ reqs[r].at = "relink" /\ Acts(r, "commit")
  /\ SameWork(work'[r], work[r])
  /\ work'[r].dels = work[r].dels
  /\ work'[r].unlinks = {l \in links : l[2] = work[r].holds}

Deleted(r) ==
  /\ reqs[r].asked.op = "delete-category"
  /\ reqs[r].at = "delete" /\ Acts(r, "commit")
  /\ ~Locked(r, reqs[r].asked.cat)
  /\ \A p \in DOMAIN posts \cup Requests : <<p, reqs[r].asked.cat>> \notin Given(r)
  /\ work'[r].holds = reqs[r].asked.cat /\ work'[r].row = Nil
  /\ work'[r].ins = {}
  /\ work'[r].dels = {t \in tags : t[2] = reqs[r].asked.cat}
  /\ work'[r].unlinks = {l \in links : l[2] = reqs[r].asked.cat}

Checks(r) ==
  /\ reqs[r].asked.op \in OfPost /\ reqs[r].at = "post"
  /\ reqs[r].asked.op = "create-post" => reqs[r].asked.board \in DOMAIN boards
  /\ work'[r] = NoWork
  /\ \/ reqs[r].asked.tags = Nil /\ Acts(r, "commit")
     \/ /\ reqs[r].asked.tags # Nil /\ Acts(r, "validate")
        /\ LET b == IF reqs[r].asked.op = "create-post"
                    THEN reqs[r].asked.board ELSE posts[reqs[r].asked.post].board
           IN /\ reqs'[r].got = b
              /\ boards[b].limit > 0 =>
                   Cardinality(reqs[r].asked.tags) <= boards[b].limit

Validates(r) ==
  /\ reqs[r].asked.op \in OfPost /\ reqs[r].at = "validate"
  /\ \/ reqs[r].asked.op = "create-post" /\ Acts(r, "tag")
     \/ reqs[r].asked.op = "edit-post" /\ Acts(r, "untag")
  /\ \A c \in reqs[r].asked.tags : Available(reqs[r].got, c)
  /\ work'[r] = NoWork

FoundTags(r) ==
  /\ reqs[r].asked.op = "edit-post" /\ reqs[r].at = "untag"
  /\ Acts(r, "untag found")
  /\ SameWork(work'[r], NoWork) /\ work'[r].dels = {} /\ work'[r].unlinks = {}
  /\ work'[r].found = {t \in tags : t[1] = reqs[r].asked.post}

Untags(r) ==
  /\ reqs[r].asked.op = "edit-post" /\ reqs[r].at = "untag found"
  /\ Acts(r, "tag")
  /\ SameWork(work'[r], work[r]) /\ work'[r].unlinks = work[r].unlinks
  /\ work'[r].dels = work[r].found \cap tags

Tags_(r) ==
  /\ reqs[r].asked.op \in OfPost /\ reqs[r].at = "tag" /\ Acts(r, "commit")
  /\ \A c \in reqs[r].asked.tags :
       <<PostOf(r), c>> \notin Given(r) /\ ~Deleting(r, c)
  /\ reqs[r].asked.tags \subseteq DOMAIN categories
  /\ work'[r].holds = work[r].holds /\ work'[r].row = work[r].row
  /\ work'[r].unlinks = work[r].unlinks /\ work'[r].dels = work[r].dels
  /\ work'[r].ins =
       LET there == {t[2] : t \in {x \in tags \ work[r].dels : x[1] = PostOf(r)}}
       IN  {<<PostOf(r), c, r>> : c \in reqs[r].asked.tags \ there}

Commits(r) ==
  /\ OneGoes(r) /\ InFlight(r) /\ ~InFlight(r)' /\ reqs[r].asked \in Menu
  /\ reqs[r].at = "commit" /\ reqs'[r].at = "done"
  /\ reqs'[r].asked = reqs[r].asked /\ reqs'[r].met = reqs[r].met
  /\ reqs[r].asked.op \in OfCategory \cup OfPost
  /\ work' = [work EXCEPT ![r] = NoWork]
  /\ UNCHANGED <<boards, members, admins>>

-----------------------------------------------------------------------------
LEMMA NoWorkFields ==
  /\ NoWork \in Work /\ NoWork.holds = Nil /\ NoWork.row = Nil
  /\ NoWork.found = {} /\ NoWork.dels = {} /\ NoWork.ins = {} /\ NoWork.unlinks = {}
BY DEF NoWork, Work

LEMMA WorkFields ==
  ASSUME NEW w \in Work
  PROVE  /\ w = [holds |-> w.holds, row |-> w.row, found |-> w.found,
                 dels |-> w.dels, ins |-> w.ins, unlinks |-> w.unlinks]
         /\ w.holds \in CategoryIds \cup {Nil} /\ w.row \in CategoryRow \cup {Nil}
         /\ w.found \in SUBSET TagRow /\ w.dels \in SUBSET TagRow
         /\ w.ins \in SUBSET TagRow /\ w.unlinks \in SUBSET LinkRow
BY DEF Work

\* Nil is no id, and no row.
LEMMA NilApart ==
  /\ Nil \notin CategoryIds /\ Nil \notin CategoryRow /\ Nil \notin Requests
BY CategoriesAssumption DEF CategoryIds

LEMMA WorksActs ==
  ASSUME Typed, AllLocal, NEW r \in Requests, reqs[r].at \in Steps, NEW at \in Steps,
         NEW done \in Work, Works(r, at, done)
  PROVE  Acts(r, at) /\ work'[r] = done
<1>1. reqs[r] \in Running
  BY InFlightAt
<1>2. Went(r, at)
  BY <1>1, GoesWent DEF Works
<1>3. work' = [work EXCEPT ![r] = done] /\ UNCHANGED rows
  BY DEF Works
<1> QED BY <1>2, <1>3, WentTo DEF Acts, Typed

LEMMA WentActs ==
  ASSUME Typed, AllLocal, NEW r \in Requests, NEW at \in Steps, Went(r, at),
         UNCHANGED <<rows, work>>
  PROVE  Acts(r, at) /\ work'[r] = work[r]
BY WentTo DEF Acts, Typed

LEMMA ProceedsActs ==
  ASSUME Typed, AllLocal, NEW r \in Requests, reqs[r].at \in Steps, NEW at \in Steps,
         Proceeds(r, at)
  PROVE  Acts(r, at) /\ work'[r] = work[r]
<1>1. reqs[r] \in Running
  BY InFlightAt
<1> QED BY <1>1, GoesWent, WentActs DEF Proceeds

\* A refusal.
LEMMA RefusedCalm ==
  ASSUME Typed, AllLocal, BoardInv, NEW r \in Requests, reqs[r].at \in Steps,
         NEW answer, answer \notin {"ok", "nothing yet"}, Refused(r, answer)
  PROVE  Calm(r) /\ BoardInv' /\ UNCHANGED <<boards, members, admins>>
<1>1. reqs[r] \in Running
  BY InFlightAt
<1>2. Leaves(r)
  BY <1>1, AnswersEnds DEF Refused
<1>3. /\ UNCHANGED <<boards, categories, links, posts, tags>>
      /\ UNCHANGED <<boards, members, admins>>
      /\ work' = [work EXCEPT ![r] = NoWork]
  BY DEF Refused, rows
<1> QED BY <1>2, <1>3, LeavesCalm

\* What an operation on categories or posts comes to.
Undone(r) == Calm(r) /\ BoardInv' /\ UNCHANGED <<boards, members, admins>>

LEMMA BoardsAnswerOK ==
  ASSUME NEW set, BoardsAnswer(set) = "ok"
  PROVE  set # {} /\ set \subseteq DOMAIN boards
BY DEF BoardsAnswer

LEMMA BoardsAnswerIs ==
  ASSUME NEW set
  PROVE  BoardsAnswer(set) # "nothing yet"
BY DEF BoardsAnswer

LEMMA InsertCategoryActs ==
  ASSUME Typed, AllLocal, BoardInv, NEW r \in Requests, InsertCategory(r)
  PROVE  Undone(r) \/ Inserted(r)
<1>1. reqs[r].at = "insert category" /\ reqs[r].at \in Steps
  BY DEF InsertCategory, Steps
<1>2. PICK a \in Menu : a = reqs[r].asked
  BY <1>1, InFlightAt
<1>3. a.op = "create-category"
  BY <1>1, <1>2, InFlightAt DEF StepOK
<1>4. ASSUME NEW answer, answer \notin {"ok", "nothing yet"}, Refused(r, answer)
      PROVE  Undone(r)
  BY <1>1, <1>4, RefusedCalm DEF Undone
<1>5. ASSUME NEW row, row = [slug |-> a.slug, name |-> a.name, cross |-> a.cross],
             NEW done, done = [NoWork EXCEPT !.holds = r, !.row = row],
             Works(r, "strip", done), BoardsAnswer(a.boards) = "ok",
             SlugFree(r, a.slug)
      PROVE  Inserted(r)
  <2>1. row \in CategoryRow /\ row.slug = a.slug
    BY <1>3, <1>5, AskCategory DEF CategoryRow
  <2>2. /\ done \in Work /\ done.holds = r /\ done.row = row
        /\ NoTags(done) /\ done.unlinks = {}
    BY <1>5, <2>1 DEF NoWork, Work, NoTags, CategoryIds
  <2>3. "strip" \in Steps
    BY DEF Steps
  <2>4. Acts(r, "strip") /\ work'[r] = done
    BY <1>1, <1>5, <2>2, <2>3, WorksActs
  <2> QED BY <1>1, <1>2, <1>3, <1>5, <2>1, <2>2, <2>4, BoardsAnswerOK DEF Inserted
<1> QED BY <1>2, <1>4, <1>5, BoardsAnswerIs DEF InsertCategory, SlugFree

LEMMA GetCategoryActs ==
  ASSUME Typed, AllLocal, BoardInv, NEW r \in Requests, GetCategory(r)
  PROVE  Undone(r) \/ Looked(r)
<1>1. reqs[r].at = "category" /\ reqs[r].at \in Steps
  BY DEF GetCategory, Steps
<1>2. PICK a \in Menu : a = reqs[r].asked
  BY <1>1, InFlightAt
<1>3. a.op \in {"update-category", "delete-category"} /\ reqs[r] \in Running
  BY <1>1, <1>2, InFlightAt DEF StepOK, OfPost
<1>4. CASE a.cat \notin DOMAIN categories
  BY <1>1, <1>2, <1>4, RefusedCalm DEF Undone, GetCategory
<1>5. CASE a.cat \in DOMAIN categories
  <2>1. PICK at, got : /\ at = IF a.op = "delete-category" THEN "delete" ELSE "save"
                       /\ got = categories[a.cat]
    OBVIOUS
  <2>2. at \in Steps /\ got \in CategoryRow
    BY <1>5, <2>1 DEF Steps, Typed
  <2>3. /\ reqs' = [reqs EXCEPT ![r].at = at, ![r].got = got]
        /\ UNCHANGED <<rows, work>>
    BY <1>2, <1>5, <2>1 DEF GetCategory
  <2>4. Went(r, at) /\ reqs'[r].got = got
    BY <1>3, <2>2, <2>3, GotWent
  <2>5. Acts(r, at) /\ work'[r] = work[r]
    BY <2>2, <2>3, <2>4, WentActs
  <2>6. work[r] = NoWork
    BY <1>1 DEF AllLocal, Local, Writing
  <2> QED BY <1>1, <1>2, <1>3, <1>5, <2>1, <2>2, <2>4, <2>5, <2>6 DEF Looked
<1> QED BY <1>4, <1>5

LEMMA SaveActs ==
  ASSUME Typed, AllLocal, BoardInv, NEW r \in Requests, Save(r)
  PROVE  Undone(r) \/ Saved(r)
<1>1. reqs[r].at = "save" /\ reqs[r].at \in Steps
  BY DEF Save, Steps
<1>2. PICK a \in Menu : a = reqs[r].asked
  BY <1>1, InFlightAt
<1>3. a.op = "update-category" /\ InFlight(r)
  BY <1>1, <1>2, InFlightAt DEF StepOK, OfPost
<1>4. ASSUME NEW answer, answer \notin {"ok", "nothing yet"}, Refused(r, answer)
      PROVE  Undone(r)
  BY <1>1, <1>4, RefusedCalm DEF Undone
<1>5. PICK got : got = reqs[r].got
  OBVIOUS
<1>6. got \in CategoryRow
  BY <1>1, <1>3, <1>5 DEF AllLocal, Local
<1>7. PICK row : row = [got EXCEPT !.name = Named(a.set.name, @),
                                   !.cross = Named(a.set.cross, @)]
  OBVIOUS
<1>8. row \in CategoryRow /\ row.slug = got.slug
  <2>1. PICK name, cross : /\ name = Named(a.set.name, got.name)
                           /\ cross = Named(a.set.cross, got.cross)
    OBVIOUS
  <2>2. name \in Texts /\ cross \in BOOLEAN
    BY <1>3, <1>6, <2>1, AskCategory, NamedIs DEF CategoryRow
  <2>3. got = [slug |-> got.slug, name |-> got.name, cross |-> got.cross]
    BY <1>6 DEF CategoryRow
  <2>4. row = [slug |-> got.slug, name |-> name, cross |-> cross]
    BY <1>7, <2>1, <2>3
  <2> QED BY <1>6, <2>2, <2>4 DEF CategoryRow
<1>9. ASSUME NEW at \in Steps, NEW done,
             at = IF a.boards = Nil THEN "commit" ELSE "strip",
             done = [NoWork EXCEPT !.holds = a.cat, !.row = row],
             Works(r, at, done), ~Locked(r, a.cat),
             a.cat \notin DOMAIN categories => SlugFree(r, row.slug),
             ~(a.boards # Nil /\ BoardsAnswer(a.boards) # "ok")
      PROVE  Saved(r)
  <2>1. /\ done \in Work /\ done.holds = a.cat /\ done.row = row
        /\ NoTags(done) /\ done.unlinks = {}
    BY <1>3, <1>8, <1>9, AskCategory DEF NoWork, Work, NoTags
  <2>2. Acts(r, at) /\ work'[r] = done
    BY <1>1, <1>9, <2>1, WorksActs
  <2>3. a.boards # Nil => a.boards # {} /\ a.boards \subseteq DOMAIN boards
    BY <1>9, BoardsAnswerOK
  <2>4. \/ a.boards = Nil /\ Acts(r, "commit")
        \/ a.boards # Nil /\ Acts(r, "strip")
    BY <1>9, <2>2
  <2>5. a.cat \notin DOMAIN categories => SlugFree(r, got.slug)
    BY <1>8, <1>9
  <2> QED
    BY <1>1, <1>2, <1>3, <1>5, <1>8, <1>9, <2>1, <2>2, <2>3, <2>4, <2>5 DEF Saved
<1>10. {"commit", "strip"} \subseteq Steps
  BY DEF Steps
<1>11. \/ a.boards # Nil /\ BoardsAnswer(a.boards) # "ok"
       \/ ~(a.boards # Nil /\ BoardsAnswer(a.boards) # "ok")
  OBVIOUS
<1>12. \/ Refused(r, "internal")
       \/ Refused(r, BoardsAnswer(a.boards)) /\ BoardsAnswer(a.boards) # "ok"
       \/ /\ Works(r, IF a.boards = Nil THEN "commit" ELSE "strip",
                   [NoWork EXCEPT !.holds = a.cat, !.row = row])
          /\ ~Locked(r, a.cat)
          /\ a.cat \notin DOMAIN categories => SlugFree(r, row.slug)
          /\ ~(a.boards # Nil /\ BoardsAnswer(a.boards) # "ok")
  BY <1>2, <1>5, <1>7 DEF Save, SlugFree
<1> QED BY <1>4, <1>9, <1>10, <1>12, BoardsAnswerIs

LEMMA FindStrayActs ==
  ASSUME Typed, AllLocal, NEW r \in Requests, FindStray(r)
  PROVE  Found(r)
<1>1. reqs[r].at = "strip" /\ reqs[r].at \in Steps /\ "strip found" \in Steps
  BY DEF FindStray, Steps
<1>2. reqs[r].asked.op \in {"create-category", "update-category"}
  BY <1>1, InFlightAt DEF StepOK, OfPost
<1>3. PICK found : found = {t \in tags : /\ t[2] = work[r].holds
                                         /\ posts[t[1]].board \notin reqs[r].asked.boards}
  OBVIOUS
<1>4. PICK w \in Work : w = work[r]
  BY DEF Typed
<1>5. PICK done : done = [w EXCEPT !.found = found]
  OBVIOUS
<1>6. PICK v : v = [holds |-> w.holds, row |-> w.row, found |-> w.found,
                    dels |-> w.dels, ins |-> w.ins, unlinks |-> w.unlinks]
  OBVIOUS
<1>7. w = v
  BY <1>6, WorkFields
<1>8. done = [holds |-> w.holds, row |-> w.row, found |-> found,
              dels |-> w.dels, ins |-> w.ins, unlinks |-> w.unlinks]
  BY <1>5, <1>6, <1>7
<1>9. found \subseteq TagRow
  BY <1>3 DEF Typed
<1>10. done \in Work
  BY <1>8, <1>9, WorkFields DEF Work
<1>11. Works(r, "strip found", done)
  BY <1>3, <1>4, <1>5 DEF FindStray
<1>12. Acts(r, "strip found") /\ work'[r] = done
  BY <1>1, <1>10, <1>11, WorksActs
<1>13. /\ done.found = found /\ done.dels = w.dels /\ done.unlinks = w.unlinks
       /\ SameWork(done, w)
  BY <1>8 DEF SameWork
<1> QED BY <1>1, <1>2, <1>3, <1>4, <1>12, <1>13 DEF Found

LEMMA StripTagsActs ==
  ASSUME Typed, AllLocal, NEW r \in Requests, StripTags(r)
  PROVE  StripsTags(r)
<1>1. reqs[r].at = "strip found" /\ reqs[r].at \in Steps /\ "relink" \in Steps
  BY DEF StripTags, Steps
<1>2. reqs[r].asked.op \in {"create-category", "update-category"}
  BY <1>1, InFlightAt DEF StepOK, OfPost
<1>4. PICK w \in Work : w = work[r]
  BY DEF Typed
<1>3. PICK dels : dels = w.dels \cup (w.found \cap tags)
  OBVIOUS
<1>5. PICK done : done = [w EXCEPT !.found = {}, !.dels = @ \cup (w.found \cap tags)]
  OBVIOUS
<1>6. PICK v : v = [holds |-> w.holds, row |-> w.row, found |-> w.found,
                    dels |-> w.dels, ins |-> w.ins, unlinks |-> w.unlinks]
  OBVIOUS
<1>7. w = v
  BY <1>6, WorkFields
<1>8. done = [holds |-> w.holds, row |-> w.row, found |-> {},
              dels |-> dels, ins |-> w.ins, unlinks |-> w.unlinks]
  BY <1>3, <1>5, <1>6, <1>7
<1>9. dels \subseteq TagRow
  BY <1>3, WorkFields
<1>10. done \in Work
  BY <1>8, <1>9, WorkFields DEF Work
<1>11. Works(r, "relink", done)
  BY <1>4, <1>5 DEF StripTags
<1>12. Acts(r, "relink") /\ work'[r] = done
  BY <1>1, <1>10, <1>11, WorksActs
<1>13. /\ done.dels = dels /\ done.unlinks = w.unlinks /\ SameWork(done, w)
  BY <1>8 DEF SameWork
<1> QED BY <1>1, <1>2, <1>3, <1>4, <1>12, <1>13 DEF StripsTags

LEMMA RelinkActs ==
  ASSUME Typed, AllLocal, NEW r \in Requests, Relink(r)
  PROVE  Relinked(r)
<1>1. reqs[r].at = "relink" /\ reqs[r].at \in Steps /\ "commit" \in Steps
  BY DEF Relink, Steps
<1>2. reqs[r].asked.op \in {"create-category", "update-category"}
  BY <1>1, InFlightAt DEF StepOK, OfPost
<1>4. PICK w \in Work : w = work[r]
  BY DEF Typed
<1>3. PICK unlinks : unlinks = {l \in links : l[2] = w.holds}
  OBVIOUS
<1>5. PICK done : done = [w EXCEPT !.unlinks = unlinks]
  OBVIOUS
<1>6. PICK v : v = [holds |-> w.holds, row |-> w.row, found |-> w.found,
                    dels |-> w.dels, ins |-> w.ins, unlinks |-> w.unlinks]
  OBVIOUS
<1>7. w = v
  BY <1>6, WorkFields
<1>8. done = [holds |-> w.holds, row |-> w.row, found |-> w.found,
              dels |-> w.dels, ins |-> w.ins, unlinks |-> unlinks]
  BY <1>5, <1>6, <1>7
<1>9. unlinks \subseteq LinkRow
  BY <1>3 DEF Typed
<1>10. done \in Work
  BY <1>8, <1>9, WorkFields DEF Work
<1>11. Works(r, "commit", done)
  BY <1>3, <1>4, <1>5 DEF Relink
<1>12. Acts(r, "commit") /\ work'[r] = done
  BY <1>1, <1>10, <1>11, WorksActs
<1> QED BY <1>1, <1>2, <1>3, <1>4, <1>8, <1>12 DEF Relinked, SameWork

LEMMA DeleteCategoryActs ==
  ASSUME Typed, AllLocal, NEW r \in Requests, DeleteCategory(r)
  PROVE  Deleted(r)
<1>1. reqs[r].at = "delete" /\ reqs[r].at \in Steps /\ "commit" \in Steps
  BY DEF DeleteCategory, Steps
<1>2. PICK c : c = reqs[r].asked.cat
  OBVIOUS
<1>3. reqs[r].asked.op = "delete-category" /\ c \in CategoryIds
  BY <1>1, <1>2, InFlightAt, AskCategory DEF StepOK, OfPost
<1>4. PICK given, unlinks : /\ given = {t \in tags : t[2] = c}
                            /\ unlinks = {l \in links : l[2] = c}
  OBVIOUS
<1>5. PICK done : done = [NoWork EXCEPT !.holds = c, !.dels = given,
                                        !.unlinks = unlinks]
  OBVIOUS
<1>6. done = [holds |-> c, row |-> Nil, found |-> {}, dels |-> given,
              ins |-> {}, unlinks |-> unlinks]
  BY <1>5 DEF NoWork
<1>7. done \in Work
  BY <1>3, <1>4, <1>6 DEF Work, Typed
<1>8. /\ Works(r, "commit", done) /\ ~Locked(r, c)
      /\ \A p \in DOMAIN posts \cup Requests : <<p, c>> \notin Given(r)
  BY <1>2, <1>4, <1>5 DEF DeleteCategory
<1>9. Acts(r, "commit") /\ work'[r] = done
  BY <1>1, <1>7, <1>8, WorksActs
<1> QED BY <1>1, <1>2, <1>3, <1>4, <1>6, <1>8, <1>9 DEF Deleted

LEMMA ReadPostActs ==
  ASSUME Typed, AllLocal, BoardInv, PostsThere, NEW r \in Requests, ReadPost(r)
  PROVE  Undone(r) \/ Checks(r)
<1>1. reqs[r].at = "post" /\ reqs[r].at \in Steps /\ work[r] = NoWork
  BY DEF ReadPost, Steps, AllLocal, Local, Writing
<1>2. PICK a \in Menu : a = reqs[r].asked
  BY <1>1, InFlightAt
<1>3. a.op \in OfPost /\ reqs[r] \in Running
  BY <1>1, <1>2, InFlightAt DEF StepOK
<1>4. ASSUME NEW answer, answer \notin {"ok", "nothing yet"}, Refused(r, answer)
      PROVE  Undone(r)
  BY <1>1, <1>4, RefusedCalm DEF Undone
<1>5. PICK b : b = IF a.op = "create-post" THEN a.board ELSE posts[a.post].board
  OBVIOUS
<1>6. ASSUME ~(a.op = "create-post" /\ b \notin DOMAIN boards), a.tags = Nil,
             Proceeds(r, "commit")
      PROVE  Checks(r)
  <2>1. "commit" \in Steps
    BY DEF Steps
  <2>2. Acts(r, "commit") /\ work'[r] = NoWork
    BY <1>1, <1>6, <2>1, ProceedsActs
  <2> QED BY <1>1, <1>2, <1>3, <1>5, <1>6, <2>2 DEF Checks
<1>7. ASSUME ~(a.op = "create-post" /\ b \notin DOMAIN boards), a.tags # Nil,
             ~(boards[b].limit > 0 /\ Cardinality(a.tags) > boards[b].limit),
             reqs' = [reqs EXCEPT ![r].at = "validate", ![r].got = b],
             UNCHANGED <<rows, work>>
      PROVE  Checks(r)
  <2>1. b \in DOMAIN boards
    BY <1>3, <1>5, <1>7, AskPost DEF PostsThere, OfPost
  <2>2. b \in BoardIds /\ boards[b].limit \in 0..MaxCategoryLimit
    BY <2>1 DEF Typed, BoardsOK, BoardRow
  <2>3. "validate" \in Steps
    BY DEF Steps
  <2>4. Went(r, "validate") /\ reqs'[r].got = b
    BY <1>3, <1>7, <2>2, <2>3, GotWent
  <2>5. Acts(r, "validate") /\ work'[r] = NoWork
    BY <1>1, <1>7, <2>3, <2>4, WentActs
  <2>6. IsFiniteSet(a.tags)
    BY <1>3, <1>7, AskPost
  <2>7. Cardinality(a.tags) \in Nat
    BY <2>6, FS_CardinalityType
  <2>8. boards[b].limit > 0 => Cardinality(a.tags) <= boards[b].limit
    BY <1>7, <2>2, <2>7 DEF MaxCategoryLimit
  <2> QED BY <1>1, <1>2, <1>3, <1>5, <1>7, <2>1, <2>4, <2>5, <2>8 DEF Checks
<1>8. PICK answer : answer = IF a.op = "create-post" THEN CreatePostAnswer(a)
                             ELSE EditPostAnswer(a)
  OBVIOUS
<1>9. /\ answer # "nothing yet"
      /\ answer = "ok" => ~(a.op = "create-post" /\ b \notin DOMAIN boards)
  BY <1>5, <1>8 DEF CreatePostAnswer, EditPostAnswer
<1>10. CASE answer # "ok"
  BY <1>2, <1>4, <1>8, <1>9, <1>10 DEF ReadPost
<1>11. CASE answer = "ok"
  BY <1>2, <1>4, <1>5, <1>6, <1>7, <1>8, <1>9, <1>11 DEF ReadPost
<1> QED BY <1>10, <1>11

LEMMA ValidateActs ==
  ASSUME Typed, AllLocal, BoardInv, NEW r \in Requests, Validate(r)
  PROVE  Undone(r) \/ Validates(r)
<1>1. reqs[r].at = "validate" /\ reqs[r].at \in Steps /\ {"tag", "untag"} \subseteq Steps
  BY DEF Validate, Steps
<1>2. reqs[r].asked.op \in OfPost /\ work[r] = NoWork
  BY <1>1, InFlightAt DEF StepOK, AllLocal, Local, Writing
<1>3. CASE ValidatePostCategories(reqs[r].got, reqs[r].asked.tags)
  <2>1. \/ reqs[r].asked.op = "create-post" /\ Proceeds(r, "tag")
        \/ reqs[r].asked.op = "edit-post" /\ Proceeds(r, "untag")
    BY <1>2, <1>3 DEF Validate, OfPost
  <2> QED BY <1>1, <1>2, <1>3, <2>1, ProceedsActs
          DEF Validates, ValidatePostCategories
<1>4. CASE ~ValidatePostCategories(reqs[r].got, reqs[r].asked.tags)
  BY <1>1, <1>4, RefusedCalm DEF Undone, Validate
<1> QED BY <1>3, <1>4

LEMMA FindTagsActs ==
  ASSUME Typed, AllLocal, NEW r \in Requests, FindTags(r)
  PROVE  FoundTags(r)
<1>1. reqs[r].at = "untag" /\ reqs[r].at \in Steps /\ "untag found" \in Steps
  BY DEF FindTags, Steps
<1>2. reqs[r].asked.op = "edit-post" /\ work[r] = NoWork
  BY <1>1, InFlightAt DEF StepOK, OfPost, AllLocal, Local, Writing
<1>3. PICK found : found = {t \in tags : t[1] = reqs[r].asked.post}
  OBVIOUS
<1>4. PICK done : done = [NoWork EXCEPT !.found = found]
  OBVIOUS
<1>5. done = [holds |-> Nil, row |-> Nil, found |-> found, dels |-> {},
              ins |-> {}, unlinks |-> {}]
  BY <1>4 DEF NoWork
<1>6. done \in Work
  BY <1>3, <1>5 DEF Work, Typed
<1>7. Works(r, "untag found", done)
  BY <1>2, <1>3, <1>4 DEF FindTags
<1>8. Acts(r, "untag found") /\ work'[r] = done
  BY <1>1, <1>6, <1>7, WorksActs
<1>9. /\ SameWork(done, NoWork) /\ done.dels = {} /\ done.unlinks = {}
      /\ done.found = found
  BY <1>5, NoWorkFields DEF SameWork
<1> QED BY <1>1, <1>2, <1>3, <1>8, <1>9 DEF FoundTags

LEMMA DeleteTagsActs ==
  ASSUME Typed, AllLocal, NEW r \in Requests, DeleteTags(r)
  PROVE  Untags(r)
<1>1. reqs[r].at = "untag found" /\ reqs[r].at \in Steps /\ "tag" \in Steps
  BY DEF DeleteTags, Steps
<1>2. reqs[r].asked.op = "edit-post"
  BY <1>1, InFlightAt DEF StepOK, OfPost
<1>3. PICK w \in Work : w = work[r]
  BY DEF Typed
<1>4. PICK dels : dels = w.found \cap tags
  OBVIOUS
<1>5. PICK done : done = [w EXCEPT !.found = {}, !.dels = dels]
  OBVIOUS
<1>6. PICK v : v = [holds |-> w.holds, row |-> w.row, found |-> w.found,
                    dels |-> w.dels, ins |-> w.ins, unlinks |-> w.unlinks]
  OBVIOUS
<1>7. w = v
  BY <1>6, WorkFields
<1>8. done = [holds |-> w.holds, row |-> w.row, found |-> {},
              dels |-> dels, ins |-> w.ins, unlinks |-> w.unlinks]
  BY <1>5, <1>6, <1>7
<1>9. dels \subseteq TagRow
  BY <1>4, WorkFields
<1>10. done \in Work
  BY <1>8, <1>9, WorkFields DEF Work
<1>11. Works(r, "tag", done)
  BY <1>3, <1>4, <1>5 DEF DeleteTags
<1>12. Acts(r, "tag") /\ work'[r] = done
  BY <1>1, <1>10, <1>11, WorksActs
<1>13. /\ done.dels = dels /\ done.unlinks = w.unlinks /\ SameWork(done, w)
  BY <1>8 DEF SameWork
<1> QED BY <1>1, <1>2, <1>3, <1>4, <1>12, <1>13 DEF Untags

LEMMA InsertTagsActs ==
  ASSUME Typed, AllLocal, BoardInv, NEW r \in Requests, InsertTags(r),
         reqs[r].asked.tags # Nil
  PROVE  Undone(r) \/ Tags_(r)
<1>1. reqs[r].at = "tag" /\ reqs[r].at \in Steps /\ "commit" \in Steps
  BY DEF InsertTags, Steps
<1>2. PICK a \in Menu : a = reqs[r].asked
  BY <1>1, InFlightAt
<1>3. a.op \in OfPost
  BY <1>1, <1>2, InFlightAt DEF StepOK
<1>4. CASE ~(a.tags \subseteq DOMAIN categories)
  BY <1>1, <1>2, <1>4, RefusedCalm DEF Undone, InsertTags
<1>5. CASE a.tags \subseteq DOMAIN categories
  <2>1. PICK w \in Work : w = work[r]
    BY DEF Typed
  <2>2. PICK p : p = PostOf(r)
    OBVIOUS
  <2>3. PICK there : there = {t[2] : t \in {x \in tags \ w.dels : x[1] = p}}
    OBVIOUS
  <2>4. PICK ins : ins = {<<p, c, r>> : c \in a.tags \ there}
    OBVIOUS
  <2>5. PICK done : done = [w EXCEPT !.ins = ins]
    OBVIOUS
  <2>6. PICK v : v = [holds |-> w.holds, row |-> w.row, found |-> w.found,
                      dels |-> w.dels, ins |-> w.ins, unlinks |-> w.unlinks]
    OBVIOUS
  <2>7. w = v
    BY <2>6, WorkFields
  <2>8. done = [holds |-> w.holds, row |-> w.row, found |-> w.found,
                dels |-> w.dels, ins |-> ins, unlinks |-> w.unlinks]
    BY <2>5, <2>6, <2>7
  <2>9. p \in PostIds /\ a.tags \subseteq CategoryIds
    BY <1>2, <1>3, <2>2, AskPost DEF PostOf, PostIds, OfPost
  <2>10. ins \subseteq TagRow
    BY <2>4, <2>9 DEF TagRow
  <2>11. done \in Work
    BY <2>8, <2>10, WorkFields DEF Work
  <2>12. /\ Works(r, "commit", done)
         /\ \A c \in a.tags : <<p, c>> \notin Given(r) /\ ~Deleting(r, c)
    BY <1>2, <1>5, <2>1, <2>2, <2>3, <2>4, <2>5 DEF InsertTags
  <2>13. Acts(r, "commit") /\ work'[r] = done
    BY <1>1, <2>11, <2>12, WorksActs
  <2>14. /\ done.holds = w.holds /\ done.row = w.row /\ done.dels = w.dels
         /\ done.unlinks = w.unlinks /\ done.ins = ins
    BY <2>8
  <2> QED
    BY <1>1, <1>2, <1>3, <1>5, <2>1, <2>2, <2>3, <2>4, <2>12, <2>13, <2>14
    DEF Tags_
<1> QED BY <1>4, <1>5

LEMMA CommitCommits ==
  ASSUME Typed, AllLocal, NEW r \in Requests, Commit(r)
  PROVE  Commits(r)
<1>1. reqs[r].at = "commit" /\ reqs[r].at \in Steps
  BY DEF Commit, Steps
<1>2. reqs[r].asked.op \in OfCategory \cup OfPost /\ reqs[r] \in Running
  BY <1>1, InFlightAt DEF StepOK, OfCategory
<1>5. \E x \in {"ok", "nothing yet"} : Answers(r, x)
  BY DEF Commit
<1>3. Finishes(r)
  BY <1>2, <1>5, AnswersEnds
<1>4. /\ work' = [work EXCEPT ![r] = NoWork]
      /\ UNCHANGED <<boards, members, admins>>
  BY DEF Commit
<1> QED BY <1>1, <1>2, <1>3, <1>4, FinishedAt DEF Commits

LEMMA RollbackCalm ==
  ASSUME Typed, AllLocal, BoardInv, NEW r \in Requests, Rollback(r)
  PROVE  Undone(r)
<1>1. InFlight(r) /\ Answers(r, "internal")
  BY DEF Rollback, Fail
<1>2. Leaves(r)
  BY <1>1, RequestKinds, AnswersEnds DEF Typed
<1>3. /\ UNCHANGED <<boards, categories, links, posts, tags>>
      /\ UNCHANGED <<boards, members, admins>>
      /\ work' = [work EXCEPT ![r] = NoWork]
  BY DEF Rollback, Fail
<1> QED BY <1>2, <1>3, LeavesCalm DEF Undone

-----------------------------------------------------------------------------
\* The first layer: types, local states, boards, posts and overlaps.
Core == Typed /\ AllLocal /\ BoardInv /\ AllMet /\ PostsThere /\ Checked

Effect(r) ==
  \/ Inserted(r) \/ Looked(r) \/ Saved(r) \/ Found(r) \/ StripsTags(r)
  \/ Relinked(r) \/ Deleted(r) \/ Checks(r) \/ Validates(r) \/ FoundTags(r)
  \/ Untags(r) \/ Tags_(r)

Onward == {"strip", "strip found", "relink", "save", "delete", "validate",
           "untag", "untag found", "tag", "commit"}

LEMMA EffectActs ==
  ASSUME NEW r \in Requests, Effect(r)
  PROVE  \E at \in Onward : Acts(r, at)
BY DEF Effect, Onward, Inserted, Looked, Saved, Found, StripsTags, Relinked, Deleted,
       Checks, Validates, FoundTags, Untags, Tags_

\* Every step is calm, or works towards a commit, or commits.
CalmStep ==
  (\E x \in Requests \cup {Nil} : Calm(x)) /\ BoardsOK' /\ BoardInv'

LEMMA NextSteps ==
  ASSUME Core, Next
  PROVE  \/ CalmStep
         \/ \E r \in Requests : Effect(r)
         \/ \E r \in Requests : Commit(r) /\ Commits(r)
<1>1. CASE BoardStep /\ UNCHANGED <<categories, links, posts, tags, work>>
  BY <1>1, BoardStepCalm DEF Core, CalmStep
<1>2. ASSUME NEW r \in Requests, Undone(r) PROVE CalmStep
  BY <1>2 DEF Undone, CalmStep, Core, Typed, BoardsOK
<1>3. ASSUME NEW r \in Requests, InsertTags(r) PROVE Undone(r) \/ Effect(r)
  <2>1. reqs[r].at = "tag" /\ reqs[r].at \in Steps
    BY <1>3 DEF InsertTags, Steps
  <2>2. InFlight(r) /\ reqs[r].asked.op \in OfPost
    BY <2>1, InFlightAt DEF Core, StepOK
  <2>3. reqs[r].asked.tags # Nil
    BY <2>1, <2>2 DEF Core, Checked, PastPost
  <2> QED BY <1>3, <2>3, InsertTagsActs DEF Core, Effect
<1>4. ASSUME NEW r \in Requests,
             \/ InsertCategory(r) \/ GetCategory(r) \/ Save(r) \/ FindStray(r)
             \/ StripTags(r) \/ Relink(r) \/ DeleteCategory(r)
      PROVE  Undone(r) \/ Effect(r)
  BY <1>4, InsertCategoryActs, GetCategoryActs, SaveActs, FindStrayActs, StripTagsActs,
     RelinkActs, DeleteCategoryActs DEF Core, Effect
<1>5. ASSUME NEW r \in Requests,
             ReadPost(r) \/ Validate(r) \/ FindTags(r) \/ DeleteTags(r)
      PROVE  Undone(r) \/ Effect(r)
  BY <1>5, ReadPostActs, ValidateActs, FindTagsActs, DeleteTagsActs DEF Core, Effect
<1>6. ASSUME NEW r \in Requests, Commit(r) PROVE Commits(r)
  BY <1>6, CommitCommits DEF Core
<1>7. ASSUME NEW r \in Requests, Rollback(r) PROVE Undone(r)
  BY <1>7, RollbackCalm DEF Core
<1> QED BY <1>1, <1>2, <1>3, <1>4, <1>5, <1>6, <1>7 DEF Next

-----------------------------------------------------------------------------
\* Types and local states.
LEMMA OthersLocal ==
  ASSUME Typed, AllLocal, NEW x, OneGoes(x), NEW q \in Requests \ {x},
         work'[q] = work[q]
  PROVE  Local(q)'
<1>1. Alike(reqs'[q], reqs[q]) /\ (InFlight(q)' <=> InFlight(q))
  BY Persists DEF OneGoes
<1>2. CatOf(q)' = CatOf(q)
  BY <1>1 DEF CatOf, Alike
<1> QED BY <1>1, <1>2 DEF AllLocal, Local, Alike

LEMMA CalmLocal ==
  ASSUME Typed, AllLocal, NEW x, Calm(x)
  PROVE  AllLocal'
<1>1. ASSUME NEW q \in Requests \ {x} PROVE Local(q)'
  BY OthersLocal DEF Calm
<1>2. ASSUME x \in Requests PROVE Local(x)'
  <2>1. work'[x] = NoWork
    BY <1>2 DEF Calm
  <2>2. InFlight(x)' =>
            /\ StepOK(reqs'[x].asked.op, reqs'[x].at)
            /\ reqs'[x].at \notin Writing \cup {"save"}
    BY <1>2 DEF Calm, BoardSteps, Writing
  <2> QED BY <2>1, <2>2, NoWorkFields DEF Local
<1> QED BY <1>1, <1>2 DEF AllLocal

LEMMA CommitsLocal ==
  ASSUME Typed, AllLocal, NEW r \in Requests, Commits(r)
  PROVE  AllLocal'
<1>1. ASSUME NEW q \in Requests \ {r} PROVE Local(q)'
  BY OthersLocal DEF Commits, Typed
<1>2. work'[r] = NoWork /\ ~InFlight(r)'
  BY DEF Commits, Typed
<1>3. Local(r)'
  BY <1>2 DEF Local
<1> QED BY <1>1, <1>3 DEF AllLocal

\* The local state of a request that works on a category, or on a post.
LEMMA CategoryLocal ==
  ASSUME NEW r \in Requests, InFlight(r)', StepOK(reqs'[r].asked.op, reqs'[r].at),
         reqs'[r].asked.op \in OfCategory, reqs'[r].at \in Writing,
         work'[r].holds = CatOf(r)', work'[r].ins = {},
         work'[r].row = Nil <=> reqs'[r].asked.op = "delete-category"
  PROVE  Local(r)'
BY DEF Local, OfCategory, OfPost, Writing

LEMMA PostLocal ==
  ASSUME NEW r \in Requests, InFlight(r)', StepOK(reqs'[r].asked.op, reqs'[r].at),
         reqs'[r].asked.op \in OfPost, reqs'[r].at # "save",
         reqs'[r].at \notin Writing => work'[r] = NoWork,
         work'[r].holds = Nil, work'[r].row = Nil, work'[r].unlinks = {}
  PROVE  Local(r)'
BY DEF Local, OfCategory, OfPost

LEMMA EffectLocal ==
  ASSUME Typed, AllLocal, NEW r \in Requests, Effect(r)
  PROVE  AllLocal'
<1>1. PICK at \in Onward : Acts(r, at)
  BY EffectActs
<1>2. /\ OneGoes(r) /\ InFlight(r) /\ InFlight(r)'
      /\ reqs'[r].asked = reqs[r].asked
      /\ \A q \in Requests \ {r} : work'[q] = work[q]
  BY <1>1 DEF Acts
<1>3. ASSUME NEW q \in Requests \ {r} PROVE Local(q)'
  BY <1>2, OthersLocal
<1> SUFFICES Local(r)'
  BY <1>3 DEF AllLocal
<1>4. CatOf(r)' = CatOf(r)
  BY <1>2 DEF CatOf
<1>5. /\ StepOK(reqs[r].asked.op, reqs[r].at)
      /\ reqs[r].at \in Writing /\ reqs[r].asked.op \in OfCategory =>
           /\ work[r].holds = CatOf(r)
           /\ work[r].row = Nil <=> reqs[r].asked.op = "delete-category"
           /\ work[r].ins = {}
      /\ reqs[r].asked.op \in OfPost =>
           work[r].holds = Nil /\ work[r].row = Nil /\ work[r].unlinks = {}
  BY <1>2 DEF AllLocal, Local
<1>6. CASE Inserted(r) \/ Saved(r)
  <2>1. /\ StepOK(reqs[r].asked.op, reqs'[r].at) /\ reqs'[r].at \in Writing
        /\ reqs[r].asked.op \in OfCategory
        /\ reqs[r].asked.op # "delete-category"
    BY <1>6 DEF Inserted, Saved, Acts, StepOK, OfCategory, Writing
  <2>2. /\ work'[r].holds = CatOf(r) /\ work'[r].row \in CategoryRow
        /\ work'[r].ins = {}
    BY <1>6 DEF Inserted, Saved, CatOf, NoTags
  <2> QED BY <1>2, <1>4, <2>1, <2>2, NilApart, CategoryLocal
<1>7. CASE Looked(r)
  <2>1. /\ StepOK(reqs[r].asked.op, reqs'[r].at) /\ reqs'[r].at \notin Writing
        /\ reqs'[r].got \in CategoryRow /\ work'[r] = NoWork
    BY <1>7 DEF Looked, Acts, StepOK, Writing
  <2> QED BY <1>2, <2>1, NoWorkFields DEF Local
<1>8. CASE Found(r) \/ StripsTags(r) \/ Relinked(r)
  <2>1. /\ reqs[r].asked.op \in {"create-category", "update-category"}
        /\ reqs[r].at \in Writing /\ reqs'[r].at \in {"strip found", "relink", "commit"}
        /\ SameWork(work'[r], work[r])
    BY <1>8 DEF Found, StripsTags, Relinked, Acts, Writing
  <2>2. StepOK(reqs[r].asked.op, reqs'[r].at) /\ reqs'[r].at \in Writing
    BY <2>1 DEF StepOK, Writing
  <2>3. reqs[r].asked.op \in OfCategory /\ reqs[r].asked.op # "delete-category"
    BY <2>1 DEF OfCategory
  <2>4. work'[r].holds = CatOf(r) /\ work'[r].row # Nil /\ work'[r].ins = {}
    BY <1>5, <2>1, <2>3 DEF SameWork
  <2> QED BY <1>2, <1>4, <2>2, <2>3, <2>4, CategoryLocal
<1>9. CASE Deleted(r)
  <2>1. /\ StepOK(reqs[r].asked.op, reqs'[r].at) /\ reqs'[r].at \in Writing
        /\ reqs[r].asked.op \in OfCategory
        /\ reqs[r].asked.op = "delete-category"
    BY <1>9 DEF Deleted, Acts, StepOK, OfCategory, Writing
  <2>2. work'[r].holds = CatOf(r) /\ work'[r].row = Nil /\ work'[r].ins = {}
    BY <1>9 DEF Deleted, CatOf
  <2> QED BY <1>2, <1>4, <2>1, <2>2, CategoryLocal
<1>10. CASE Checks(r) \/ Validates(r) \/ FoundTags(r) \/ Untags(r) \/ Tags_(r)
  <2>1. /\ reqs[r].asked.op \in OfPost /\ StepOK(reqs[r].asked.op, reqs'[r].at)
        /\ reqs'[r].at # "save"
    BY <1>10 DEF Checks, Validates, FoundTags, Untags, Tags_, Acts, StepOK, OfPost
  <2>2. work'[r].holds = Nil /\ work'[r].row = Nil /\ work'[r].unlinks = {}
    BY <1>5, <1>10, <2>1, NoWorkFields
       DEF Checks, Validates, FoundTags, Untags, Tags_, SameWork
  <2>3. reqs'[r].at \notin Writing => work'[r] = NoWork
    BY <1>10 DEF Checks, Validates, FoundTags, Untags, Tags_, Acts, Writing
  <2> QED BY <1>2, <2>1, <2>2, <2>3, PostLocal
<1> QED BY <1>6, <1>7, <1>8, <1>9, <1>10 DEF Effect

LEMMA ActsTyped ==
  ASSUME Typed, BoardInv, NEW r \in Requests, NEW at \in Onward, Acts(r, at)
  PROVE  Typed' /\ BoardInv'
<1>1. OneGoes(r) /\ reqs'[r].at = at /\ UNCHANGED rows
      /\ work' \in [Requests -> Work]
  BY DEF Acts
<1>2. UNCHANGED <<boards, members, admins, categories, links, posts, tags>>
  BY <1>1 DEF rows
<1>3. Typed'
  BY <1>1, <1>2 DEF Typed, BoardsOK, OneGoes
<1>4. BoardInv'
  BY <1>1, <1>2, BoardsStay DEF Onward
<1> QED BY <1>3, <1>4

LEMMA CalmTyped ==
  ASSUME Typed, CalmStep
  PROVE  Typed'
BY DEF CalmStep, Calm, Typed, OneGoes

-----------------------------------------------------------------------------
\* What a commit does to each table.
LEMMA CommitRows ==
  ASSUME Typed, AllLocal, NEW r \in Requests, Commit(r), Commits(r)
  PROVE  /\ tags' = (tags \ work[r].dels) \cup work[r].ins
         /\ reqs[r].asked.op \in OfCategory =>
              work[r].ins = {} /\ posts' = posts /\ work[r].holds = CatOf(r)
         /\ reqs[r].asked.op = "delete-category" =>
              /\ categories' = [c \in DOMAIN categories \ {reqs[r].asked.cat} |->
                                  categories[c]]
              /\ links' = links \ work[r].unlinks
         /\ reqs[r].asked.op \in {"create-category", "update-category"} =>
              /\ work[r].row \in CategoryRow
              /\ categories' = Put(categories, CatOf(r), work[r].row)
              /\ links' = (links \ work[r].unlinks) \cup
                   (IF reqs[r].asked.boards # Nil
                    THEN reqs[r].asked.boards \X {CatOf(r)} \X {r} ELSE {})
         /\ reqs[r].asked.op \in OfPost =>
              /\ categories' = categories /\ links' = links
              /\ posts' = IF reqs[r].asked.op = "create-post"
                          THEN Put(posts, r, [board |-> reqs[r].asked.board,
                                              author |-> reqs[r].asked.by])
                          ELSE posts
<1>1. InFlight(r) /\ reqs[r].at \in Writing
  BY DEF Commits, Writing
<1>2. /\ reqs[r].asked.op \in OfCategory =>
           /\ work[r].holds = CatOf(r)
           /\ work[r].row = Nil <=> reqs[r].asked.op = "delete-category"
           /\ work[r].ins = {}
      /\ reqs[r].asked.op \in OfPost => work[r].row = Nil /\ work[r].unlinks = {}
  BY <1>1 DEF AllLocal, Local
<1>3. work[r].row \in CategoryRow \cup {Nil}
  BY WorkFields DEF Typed
<1>4. PICK a : a = reqs[r].asked
  OBVIOUS
<1>5. PICK w : w = work[r]
  OBVIOUS
<1>6. /\ tags' = (tags \ w.dels) \cup w.ins
      /\ categories' =
          IF a.op = "delete-category"
          THEN [c \in DOMAIN categories \ {a.cat} |-> categories[c]]
          ELSE IF w.row # Nil THEN Put(categories, w.holds, w.row) ELSE categories
      /\ links' = (links \ w.unlinks) \cup
          (IF a.op \in {"create-category", "update-category"} /\ a.boards # Nil
           THEN a.boards \X {w.holds} \X {r} ELSE {})
      /\ posts' = IF a.op = "create-post"
                 THEN Put(posts, r, [board |-> a.board, author |-> a.by]) ELSE posts
  BY <1>4, <1>5 DEF Commit
<1>7. a.op \in OfCategory =>
        w.ins = {} /\ posts' = posts /\ w.holds = CatOf(r)
  BY <1>2, <1>4, <1>5, <1>6 DEF OfCategory
<1>8. a.op = "delete-category" =>
        /\ categories' = [c \in DOMAIN categories \ {a.cat} |-> categories[c]]
        /\ links' = links \ w.unlinks
  BY <1>6
<1>9. a.op \in {"create-category", "update-category"} =>
        /\ w.row \in CategoryRow /\ w.row # Nil /\ w.holds = CatOf(r)
        /\ a.op # "delete-category"
  BY <1>2, <1>3, <1>4, <1>5, NilApart DEF OfCategory
<1>10. a.op \in {"create-category", "update-category"} =>
        /\ categories' = Put(categories, CatOf(r), w.row)
        /\ links' = (links \ w.unlinks) \cup
                   (IF a.boards # Nil THEN a.boards \X {CatOf(r)} \X {r} ELSE {})
  BY <1>6, <1>9
<1>11. a.op \in OfPost =>
              /\ categories' = categories /\ links' = links
              /\ posts' = IF a.op = "create-post"
                          THEN Put(posts, r, [board |-> a.board, author |-> a.by])
                          ELSE posts
  BY <1>2, <1>4, <1>5, <1>6 DEF OfPost
<1> QED BY <1>4, <1>5, <1>6, <1>7, <1>8, <1>9, <1>10, <1>11

LEMMA CatOfTyped ==
  ASSUME NEW r \in Requests, reqs[r].asked \in Menu, reqs[r].asked.op \in OfCategory
  PROVE  CatOf(r) \in CategoryIds
BY AskCategory DEF CatOf, OfCategory, CategoryIds

LEMMA PutTyped ==
  ASSUME NEW f, NEW S, f \in [DOMAIN f -> S], NEW k, NEW v \in S
  PROVE  /\ DOMAIN Put(f, k, v) = DOMAIN f \cup {k}
         /\ Put(f, k, v) \in [DOMAIN f \cup {k} -> S]
         /\ Put(f, k, v)[k] = v
         /\ \A x \in DOMAIN f \ {k} : Put(f, k, v)[x] = f[x]
BY DEF Put

LEMMA CommitTyped ==
  ASSUME Typed, AllLocal, BoardInv, NEW r \in Requests, Commit(r), Commits(r)
  PROVE  Typed' /\ BoardInv'
<1>1. /\ OneGoes(r) /\ UNCHANGED <<boards, members, admins>>
      /\ reqs'[r].at = "done" /\ reqs'[r].asked = reqs[r].asked
      /\ reqs[r].asked \in Menu /\ reqs[r].asked.op \in OfCategory \cup OfPost
  BY DEF Commits
<1>2. PICK a \in Menu : a = reqs[r].asked
  BY <1>1
<1>3. work' \in [Requests -> Work]
  BY NoWorkFields DEF Commits, Typed
<1>4. tags' \subseteq TagRow
  <2>1. work[r].ins \in SUBSET TagRow
    BY WorkFields DEF Typed
  <2> QED BY <2>1, CommitRows DEF Typed
<1>5. /\ DOMAIN categories' \subseteq CategoryIds
      /\ categories' \in [DOMAIN categories' -> CategoryRow]
      /\ links' \subseteq LinkRow
  <2>1. CASE a.op = "delete-category"
    <3>1. /\ categories' = [c \in DOMAIN categories \ {a.cat} |-> categories[c]]
          /\ links' \subseteq links
      BY <1>2, <2>1, CommitRows
    <3>2. categories \in [DOMAIN categories -> CategoryRow]
          /\ DOMAIN categories \subseteq CategoryIds /\ links \subseteq LinkRow
      BY DEF Typed
    <3> QED BY <3>1, <3>2
  <2>2. CASE a.op \in {"create-category", "update-category"}
    <3>1. PICK row \in CategoryRow : row = work[r].row
      BY <1>2, <2>2, CommitRows
    <3>2. PICK c \in CategoryIds : c = CatOf(r)
      BY <1>1, <1>2, <2>2, CatOfTyped DEF OfCategory
    <3>8. categories' = Put(categories, c, row)
      BY <1>2, <2>2, <3>1, <3>2, CommitRows
    <3>9. links' = (links \ work[r].unlinks) \cup
                   (IF a.boards # Nil THEN a.boards \X {c} \X {r} ELSE {})
      BY <1>2, <2>2, <3>2, CommitRows
    <3>3. /\ categories' = Put(categories, c, row)
          /\ links' \subseteq links \cup
               (IF a.boards # Nil THEN a.boards \X {c} \X {r} ELSE {})
      BY <3>8, <3>9
    <3>4. categories \in [DOMAIN categories -> CategoryRow]
          /\ DOMAIN categories \subseteq CategoryIds /\ links \subseteq LinkRow
      BY DEF Typed
    <3>5. DOMAIN categories' = DOMAIN categories \cup {c}
          /\ categories' \in [DOMAIN categories \cup {c} -> CategoryRow]
      BY <3>3, <3>4, PutTyped
    <3>6. a.boards # Nil => a.boards \subseteq BoardIds
      BY <2>2, AskCategory
    <3>7. links' \subseteq LinkRow
      BY <3>3, <3>4, <3>6 DEF LinkRow
    <3> QED BY <3>4, <3>5, <3>7
  <2>3. CASE a.op \in OfPost
    BY <1>2, <2>3, CommitRows DEF Typed
  <2> QED BY <1>1, <1>2, <2>1, <2>2, <2>3 DEF OfCategory
<1>6. /\ DOMAIN posts' \subseteq PostIds
      /\ posts' \in [DOMAIN posts' -> [board : BoardIds, author : Users]]
  <2>1. CASE a.op = "create-post"
    <3>1. PICK row : row = [board |-> a.board, author |-> a.by]
      OBVIOUS
    <3>2. PICK S : S = [board : BoardIds, author : Users]
      OBVIOUS
    <3>3. a.board \in BoardIds /\ a.by \in Users
      BY <2>1, AskOp, AskPost
    <3>7. row \in S
      BY <3>1, <3>2, <3>3
    <3>4. posts' = Put(posts, r, row)
      BY <1>2, <2>1, <3>1, CommitRows DEF OfPost
    <3>5. posts \in [DOMAIN posts -> S] /\ DOMAIN posts \subseteq PostIds
      BY <3>2 DEF Typed
    <3>6. DOMAIN posts' = DOMAIN posts \cup {r} /\ posts' \in [DOMAIN posts \cup {r} -> S]
      BY <3>4, <3>5, <3>7, PutTyped
    <3>8. DOMAIN posts' \subseteq PostIds
      BY <3>5, <3>6 DEF PostIds
    <3> QED BY <3>2, <3>6, <3>8
  <2>2. CASE a.op # "create-post"
    BY <1>1, <1>2, <2>2, CommitRows DEF Typed
  <2> QED BY <2>1, <2>2
<1>7. Typed'
  BY <1>1, <1>3, <1>4, <1>5, <1>6 DEF Typed, BoardsOK, OneGoes
<1>8. BoardInv'
  <2>1. reqs[r].asked.op \notin {"create-board", "archive-board"}
    BY <1>1 DEF OfCategory, OfPost
  <2> QED BY <1>1, <2>1, BoardsStay
<1> QED BY <1>7, <1>8

-----------------------------------------------------------------------------
\* Posts, and what a request for one has checked.
LEMMA PostsThereStays ==
  ASSUME Typed, PostsThere, NEW x, OneGoes(x), posts' = posts,
         DOMAIN boards \subseteq DOMAIN boards',
         x \in Requests /\ reqs'[x].at = "done" => reqs'[x].asked.op # "create-post"
  PROVE  PostsThere'
<1>1. ASSUME NEW q \in Requests
      PROVE  /\ Stored(q, "create-post")' <=> Stored(q, "create-post")
             /\ Stored(q, "create-post") => reqs'[q].asked = reqs[q].asked
  BY StoredStays DEF Stored
<1>2. ASSUME NEW p \in DOMAIN posts
      PROVE  p \in Requests => reqs'[p].asked = reqs[p].asked
  <2>1. p \in Requests => p \notin DOMAIN InitPosts
    BY CategoriesAssumption
  <2> QED BY <1>1, <2>1 DEF PostsThere
<1>3. DOMAIN posts = DOMAIN InitPosts \cup {q \in Requests : Stored(q, "create-post")'}
  BY <1>1 DEF PostsThere
<1>4. ASSUME NEW p \in DOMAIN posts
      PROVE /\ posts[p].board \in DOMAIN boards'
            /\ p \in DOMAIN InitPosts => posts[p] = InitPosts[p]
            /\ p \in Requests => posts[p].board = reqs'[p].asked.board
  BY <1>2 DEF PostsThere
<1> QED BY <1>3, <1>4 DEF PostsThere

LEMMA PostsThereCommit ==
  ASSUME Typed, AllLocal, PostsThere, Checked, NEW r \in Requests,
         Commit(r), Commits(r)
  PROVE  PostsThere'
<1>1. /\ OneGoes(r) /\ UNCHANGED boards /\ InFlight(r) /\ reqs[r].at = "commit"
      /\ reqs'[r].at = "done" /\ reqs'[r].asked = reqs[r].asked
      /\ reqs[r].asked.op \in OfCategory \cup OfPost
  BY DEF Commits
<1>2. CASE reqs[r].asked.op # "create-post"
  <2>1. posts' = posts
    BY <1>1, <1>2, CommitRows
  <2> QED BY <1>1, <1>2, <2>1, PostsThereStays
<1>3. CASE reqs[r].asked.op = "create-post"
  <2>1. PICK row : row = [board |-> reqs[r].asked.board, author |-> reqs[r].asked.by]
    OBVIOUS
  <2>2. posts' = Put(posts, r, row) /\ row.board = reqs[r].asked.board
    BY <1>3, <2>1, CommitRows DEF OfPost
  <2>3. /\ DOMAIN posts' = DOMAIN posts \cup {r} /\ posts'[r] = row
        /\ \A p \in DOMAIN posts \ {r} : posts'[p] = posts[p]
    BY <2>2 DEF Put
  <2>4. reqs[r].asked.board \in DOMAIN boards
    BY <1>1, <1>3 DEF Checked, PastPost, BoardOf, OfPost
  <2>5. ASSUME NEW q \in Requests
        PROVE  /\ Stored(q, "create-post")' <=> Stored(q, "create-post") \/ q = r
               /\ Stored(q, "create-post") => reqs'[q].asked = reqs[q].asked
    BY <1>1, <1>3, StoredStays DEF Stored
  <2>6. DOMAIN posts' = DOMAIN InitPosts
                        \cup {q \in Requests : Stored(q, "create-post")'}
    BY <2>3, <2>5 DEF PostsThere
  <2>7. ASSUME NEW p \in DOMAIN posts'
        PROVE /\ posts'[p].board \in DOMAIN boards'
              /\ p \in DOMAIN InitPosts => posts'[p] = InitPosts[p]
              /\ p \in Requests => posts'[p].board = reqs'[p].asked.board
    <3>1. p \in Requests => p \notin DOMAIN InitPosts
      BY CategoriesAssumption
    <3>2. CASE p = r
      BY <1>1, <2>2, <2>3, <2>4, <3>1, <3>2
    <3>3. CASE p # r
      BY <1>1, <2>3, <2>5, <3>1, <3>3 DEF PostsThere
    <3> QED BY <3>2, <3>3
  <2> QED BY <2>6, <2>7 DEF PostsThere
<1> QED BY <1>2, <1>3

LEMMA BoardOfStays ==
  ASSUME NEW s \in Requests, reqs'[s].asked = reqs[s].asked
  PROVE  BoardOf(s)' = BoardOf(s) /\ PostOf(s)' = PostOf(s)
BY DEF BoardOf, PostOf

LEMMA CheckedOthers ==
  ASSUME Typed, Checked, NEW x, OneGoes(x), DOMAIN boards \subseteq DOMAIN boards',
         NEW s \in Requests \ {x}, PastPost(s)'
  PROVE  /\ BoardOf(s)' \in DOMAIN boards'
         /\ InFlight(s)' /\ reqs'[s].at # "commit" => reqs'[s].asked.tags # Nil
         /\ reqs'[s].at = "validate" => reqs'[s].got = BoardOf(s)'
<1>1. Alike(reqs'[s], reqs[s]) /\ (InFlight(s)' <=> InFlight(s))
  BY Persists DEF OneGoes
<1>2. PastPost(s)
  BY <1>1 DEF PastPost, Alike
<1>3. BoardOf(s)' = BoardOf(s)
  BY <1>1, BoardOfStays DEF Alike
<1> QED BY <1>1, <1>2, <1>3 DEF Checked, Alike

LEMMA CheckedCalm ==
  ASSUME Typed, Checked, NEW x, Calm(x)
  PROVE  Checked'
<1>1. OneGoes(x) /\ DOMAIN boards \subseteq DOMAIN boards'
  BY DEF Calm, BoardsGrow
<1>2. x \in Requests => ~PastPost(x)'
  BY DEF Calm, PastPost, BoardSteps, StepOK, OfPost
<1> QED BY <1>1, <1>2, CheckedOthers DEF Checked

LEMMA CheckedCommit ==
  ASSUME Typed, Checked, NEW r \in Requests, Commits(r)
  PROVE  Checked'
<1>1. OneGoes(r) /\ UNCHANGED boards
  BY DEF Commits
<1>2. PastPost(r)' => PastPost(r) /\ BoardOf(r)' = BoardOf(r)
  BY BoardOfStays DEF Commits, PastPost
<1>3. reqs'[r].at = "done" /\ ~InFlight(r)'
  BY DEF Commits
<1> QED BY <1>1, <1>2, <1>3, CheckedOthers DEF Checked

LEMMA CheckedEffect ==
  ASSUME Typed, Checked, PostsThere, NEW r \in Requests, Effect(r)
  PROVE  Checked'
<1>1. PICK at \in Onward : Acts(r, at)
  BY EffectActs
<1>2. /\ OneGoes(r) /\ UNCHANGED <<boards, posts>> /\ InFlight(r) /\ InFlight(r)'
      /\ reqs'[r].asked = reqs[r].asked /\ reqs[r].asked \in Menu
  BY <1>1 DEF Acts, rows
<1>3. BoardOf(r)' = BoardOf(r)
  BY <1>2, BoardOfStays
<1> SUFFICES ASSUME PastPost(r)'
             PROVE  /\ BoardOf(r) \in DOMAIN boards
                    /\ reqs'[r].at # "commit" => reqs[r].asked.tags # Nil
                    /\ reqs'[r].at = "validate" => reqs'[r].got = BoardOf(r)
  BY <1>2, <1>3, CheckedOthers DEF Checked
<1>4. reqs[r].asked.op \in OfPost
  BY <1>2 DEF PastPost
<1>5. CASE Checks(r)
  <2>1. BoardOf(r) = IF reqs[r].asked.op = "create-post" THEN reqs[r].asked.board
                     ELSE posts[reqs[r].asked.post].board
    BY <1>2, <1>4, AskPost DEF BoardOf, PostsThere, OfPost
  <2>2. BoardOf(r) \in DOMAIN boards
    BY <1>2, <1>4, <1>5, <2>1, AskPost DEF PostsThere, OfPost, Checks
  <2> QED BY <1>5, <2>1, <2>2 DEF Checks, Acts
<1>6. CASE Validates(r) \/ FoundTags(r) \/ Untags(r) \/ Tags_(r)
  <2>1. PastPost(r) /\ reqs[r].at # "commit"
    BY <1>2, <1>4, <1>6 DEF PastPost, Validates, FoundTags, Untags, Tags_
  <2>2. reqs'[r].at # "validate"
    BY <1>6 DEF Validates, FoundTags, Untags, Tags_, Acts
  <2> QED BY <1>2, <2>1, <2>2 DEF Checked
<1>7. CASE Inserted(r) \/ Looked(r) \/ Saved(r) \/ Found(r) \/ StripsTags(r)
           \/ Relinked(r) \/ Deleted(r)
  BY <1>4, <1>7 DEF Inserted, Looked, Saved, Found, StripsTags, Relinked, Deleted, OfPost
<1> QED BY <1>5, <1>6, <1>7 DEF Effect

-----------------------------------------------------------------------------
\* The first layer is inductive.
LEMMA CoreInit ==
  ASSUME Init
  PROVE  Core
<1>1. /\ boards = InitBoards /\ members = InitMembers /\ admins = InitAdmins
      /\ categories = InitCategories /\ links = InitLinks /\ posts = InitPosts
      /\ tags = InitTags
  BY DEF Init, BoardsInit
<1>2. \A r \in Requests : reqs[r] = Fresh /\ reqs[r].at = "fresh" /\ ~InFlight(r)
  BY DEF Init, BoardsInit, Fresh, InFlight
<1>3. \A r \in Requests : work[r] = NoWork
  BY DEF Init
<1>4. BoardsOK
  BY <1>1, BoardsAssumption DEF BoardsOK, BoardIds
<1>5. /\ DOMAIN categories \subseteq CategoryIds
      /\ categories \in [DOMAIN categories -> CategoryRow]
      /\ links \subseteq LinkRow /\ tags \subseteq TagRow
  BY <1>1, CategoriesAssumption DEF CategoryIds, LinkRow, TagRow, BoardIds, PostIds
<1>6. /\ DOMAIN posts \subseteq PostIds
      /\ posts \in [DOMAIN posts -> [board : BoardIds, author : Users]]
  <2>1. InitPosts \in [DOMAIN InitPosts -> [board : DOMAIN InitBoards, author : Users]]
    BY CategoriesAssumption
  <2>2. \A p \in DOMAIN InitPosts : InitPosts[p] \in [board : BoardIds, author : Users]
    BY <2>1 DEF BoardIds
  <2> QED BY <1>1, <2>1, <2>2 DEF PostIds
<1>7. work \in [Requests -> Work] /\ reqs \in [Requests -> Request]
  BY NoWorkFields DEF Init, BoardsInit, Request
<1>8. Typed
  BY <1>4, <1>5, <1>6, <1>7 DEF Typed
<1>9. AllLocal /\ AllMet
  BY <1>2, <1>3, NoWorkFields DEF AllLocal, Local, AllMet
<1>10. BoardInv
  BY <1>1, <1>2, BoardsAssumption
     DEF BoardInv, Created, Archived, BoardFound, FirstBoards, ArchivedOnce,
         CreatedOnce, Stored
<1>11. PostsThere
  BY <1>1, <1>2, CategoriesAssumption DEF PostsThere, Stored
<1>12. Checked
  BY <1>2 DEF Checked, PastPost
<1> QED BY <1>8, <1>9, <1>10, <1>11, <1>12 DEF Core

LEMMA CalmCore ==
  ASSUME Core, CalmStep
  PROVE  Core'
<1>1. PICK x \in Requests \cup {Nil} : Calm(x)
  BY DEF CalmStep
<1>2. /\ OneGoes(x) /\ posts' = posts /\ DOMAIN boards \subseteq DOMAIN boards'
      /\ x \in Requests /\ reqs'[x].at = "done" => reqs'[x].asked.op # "create-post"
  BY <1>1 DEF Calm, BoardsGrow, OfPost
<1>3. Typed' /\ AllLocal' /\ BoardInv' /\ AllMet'
  BY <1>1, <1>2, CalmTyped, CalmLocal, AllMetStays DEF Core, CalmStep
<1>4. PostsThere' /\ Checked'
  BY <1>1, <1>2, PostsThereStays, CheckedCalm DEF Core
<1> QED BY <1>3, <1>4 DEF Core

LEMMA EffectCore ==
  ASSUME Core, NEW r \in Requests, Effect(r)
  PROVE  Core'
<1>1. PICK at \in Onward : Acts(r, at)
  BY EffectActs
<1>2. /\ OneGoes(r) /\ posts' = posts /\ boards' = boards /\ reqs'[r].at # "done"
  BY <1>1 DEF Acts, rows, Onward
<1>3. Typed' /\ AllLocal' /\ BoardInv' /\ AllMet'
  BY <1>1, <1>2, ActsTyped, EffectLocal, AllMetStays DEF Core
<1>4. PostsThere' /\ Checked'
  BY <1>2, PostsThereStays, CheckedEffect DEF Core
<1> QED BY <1>3, <1>4 DEF Core

LEMMA CommitCore ==
  ASSUME Core, NEW r \in Requests, Commit(r), Commits(r)
  PROVE  Core'
<1>1. OneGoes(r)
  BY DEF Commits
<1> QED BY <1>1, CommitTyped, CommitsLocal, AllMetStays, PostsThereCommit, CheckedCommit
        DEF Core

LEMMA StutterCore ==
  ASSUME Core, UNCHANGED vars
  PROVE  Core'
<1>1. UNCHANGED <<boards, members, admins, reqs, categories, links, posts, tags, work>>
  BY DEF vars, bvars
<1>2. Typed' /\ AllLocal'
  BY <1>1 DEF Core, Typed, BoardsOK, AllLocal, Local, InFlight, CatOf
<1>3. BoardInv'
  BY <1>1 DEF Core, BoardInv, Created, Archived, BoardFound, FirstBoards, ArchivedOnce,
              CreatedOnce, Stored, InFlight
<1>4. AllMet' /\ PostsThere' /\ Checked'
  BY <1>1 DEF Core, AllMet, Met, InFlight, PostsThere, Stored, Checked, PastPost,
              BoardOf
<1> QED BY <1>2, <1>3, <1>4 DEF Core

LEMMA CoreNext ==
  ASSUME Core, [Next]_vars
  PROVE  Core'
BY NextSteps, CalmCore, EffectCore, CommitCore, StutterCore

LEMMA CoreHolds == Spec => []Core
BY CoreInit, CoreNext, PTL DEF Spec

\* THEOREM: a column of a board takes no value but the one that the request at its
\* write named for it, whatever updates and archivals overlap.
THEOREM UpdatesLoseNothing == Spec => UpdatesKeep
<1> DEFINE Columns == {"slug", "title", "limit", "archived"}
           Written == \A b \in DOMAIN boards : \A f \in Columns :
             boards'[b][f] # boards[b][f] => \E r \in Requests : Writes(r, b, f)
<1>1. ASSUME Core, NEW r \in Requests, UpdateBoard(r) PROVE Written
  <2>1. /\ reqs[r].at = "write" /\ reqs[r].at \in Steps
        /\ reqs[r].asked.op = "update-board"
    BY <1>1 DEF UpdateBoard, Write, Steps
  <2>2. InFlight(r) /\ reqs[r] \in Running
    BY <1>1, <2>1, InFlightAt DEF Core
  <2>3. PICK q : q = reqs[r]
    OBVIOUS
  <2>4. PICK b : b = q.asked.board
    OBVIOUS
  <2>5. b \in DOMAIN boards
    BY <1>1, <2>1, <2>2, <2>3, <2>4 DEF Core, BoardInv, BoardFound
  <2>6. \/ UNCHANGED boards
        \/ /\ boards' = [boards EXCEPT ![b] = Updated(q, @)]
           /\ Answers(r, "nothing yet")
    BY <1>1, <2>3, <2>4 DEF UpdateBoard
  <2>7. CASE UNCHANGED boards
    BY <2>7
  <2>8. ASSUME boards' = [boards EXCEPT ![b] = Updated(q, @)],
               Answers(r, "nothing yet")
        PROVE  Written
    <3>1. PICK old \in BoardRow : old = boards[b]
      BY <1>1, <2>5 DEF Core, Typed, BoardsOK
    <3>2. PICK title, limit : /\ title = Named(q.asked.set.title, old.title)
                              /\ limit = Named(q.asked.set.limit, old.limit)
      OBVIOUS
    <3>3. old = [slug |-> old.slug, title |-> old.title, limit |-> old.limit,
                 archived |-> old.archived]
      BY DEF BoardRow
    <3>4. PICK row : row = Updated(q, old)
      OBVIOUS
    <3>5. row = [slug |-> old.slug, title |-> title, limit |-> limit,
                 archived |-> old.archived]
      BY <3>2, <3>3, <3>4 DEF Updated
    <3>6. PICK set : set = q.asked.set
      OBVIOUS
    <3>7. /\ title # old.title => title = set.title
          /\ limit # old.limit => limit = set.limit
      BY <3>2, <3>6, NamedIs
    <3>12. PICK st, sl : st = set.title /\ sl = set.limit
      OBVIOUS
    <3>13. set["title"] = set.title /\ set["limit"] = set.limit
      OBVIOUS
    <3>14. /\ row["title"] = title /\ row["limit"] = limit
           /\ row["slug"] = old.slug /\ row["archived"] = old.archived
           /\ old["title"] = old.title /\ old["limit"] = old.limit
           /\ old["slug"] = old.slug /\ old["archived"] = old.archived
      BY <3>5
    <3>8. boards' = [boards EXCEPT ![b] = row]
      BY <2>8, <3>1, <3>4
    <3>9. Finishes(r)
      BY <1>1, <2>2, <2>8, AnswersEnds DEF Core
    <3>10. reqs'[r].at = "done"
      BY <1>1, <3>9, FinishedAt DEF Core
    <3>11. \A c \in DOMAIN boards : boards'[c] = IF c = b THEN row ELSE boards[c]
      BY <3>8
    <3>15. boards'[b] = row
      BY <2>5, <3>11
    <3>16. ASSUME NEW f \in Columns, row[f] # old[f] PROVE Writes(r, b, f)
      <4>1. f \in {"title", "limit"} /\ row[f] = set[f]
        BY <3>7, <3>13, <3>14, <3>16
      <4>2. boards'[b][f] = reqs[r].asked.set[f]
        BY <2>3, <3>6, <3>15, <4>1
      <4> QED BY <2>1, <2>3, <2>4, <3>10, <4>1, <4>2 DEF Writes
    <3> HIDE DEF Columns
    <3> QED BY <3>1, <3>11, <3>16
  <2> QED BY <2>6, <2>7, <2>8
<1>2. ASSUME Core, NEW r \in Requests, CreateBoard(r) PROVE Written
  <2>1. reqs[r].at = "insert board"
    BY <1>2 DEF CreateBoard
  <2>2. r \notin DOMAIN boards
    BY <1>2, <2>1 DEF Core, BoardInv, Created, Stored
  <2>3. \A b \in DOMAIN boards : boards'[b] = boards[b]
    BY <1>2, <2>2 DEF CreateBoard, Put
  <2> QED BY <2>3
<1>3. ASSUME Core, NEW r \in Requests, ArchiveBoard(r) PROVE Written
  <2>1. /\ reqs[r].at = "write" /\ reqs[r].at \in Steps
        /\ reqs[r].asked.op = "archive-board"
    BY <1>3 DEF ArchiveBoard, Write, Steps
  <2>2. InFlight(r) /\ reqs[r] \in Running
    BY <1>3, <2>1, InFlightAt DEF Core
  <2>3. PICK b : b = reqs[r].asked.board
    OBVIOUS
  <2>4. b \in DOMAIN boards
    BY <1>3, <2>1, <2>2, <2>3 DEF Core, BoardInv, BoardFound
  <2>5. \/ UNCHANGED boards
        \/ /\ boards' = [boards EXCEPT ![b].archived = TRUE]
           /\ Answers(r, "ok")
    BY <1>3, <2>3 DEF ArchiveBoard
  <2>6. CASE UNCHANGED boards
    BY <2>6
  <2>7. ASSUME boards' = [boards EXCEPT ![b].archived = TRUE], Answers(r, "ok")
        PROVE  Written
    <3>1. PICK old \in BoardRow : old = boards[b]
      BY <1>3, <2>4 DEF Core, Typed, BoardsOK
    <3>2. old = [slug |-> old.slug, title |-> old.title, limit |-> old.limit,
                 archived |-> old.archived]
      BY DEF BoardRow
    <3>3. PICK new : new = [old EXCEPT !.archived = TRUE]
      OBVIOUS
    <3>4. new["archived"] = TRUE
      BY <3>2, <3>3
    <3>5. \A f \in Columns \ {"archived"} : new[f] = old[f]
      BY <3>2, <3>3
    <3>6. boards' = [boards EXCEPT ![b] = new]
      BY <2>7, <3>1, <3>3
    <3>7. \A c \in DOMAIN boards : boards'[c] = IF c = b THEN new ELSE boards[c]
      BY <3>6
    <3>8. Finishes(r)
      BY <1>3, <2>2, <2>7, AnswersEnds DEF Core
    <3>9. reqs'[r].at = "done"
      BY <1>3, <3>8, FinishedAt DEF Core
    <3>10. boards'[b]["archived"] = TRUE
      BY <2>4, <3>4, <3>7
    <3>11. Writes(r, b, "archived")
      BY <2>1, <2>3, <3>9, <3>10 DEF Writes
    <3> HIDE DEF Columns
    <3> QED BY <3>1, <3>5, <3>7, <3>11
  <2> QED BY <2>5, <2>6, <2>7
<1>4. ASSUME Core, Next PROVE Written \/ UNCHANGED boards
  <2>1. CASE BoardStep
    <3>1. CASE \E r \in Requests :
                 \/ Begin(r) \/ BoardSlugExists(r) \/ GetBoardByID(r) \/ CheckRole(r)
                 \/ Reread(r) \/ SetBoardMember(r) \/ RemoveBoardMember(r)
      BY <3>1 DEF Begin, BoardSlugExists, GetBoardByID, CheckRole, Reread,
           SetBoardMember, RemoveBoardMember
    <3>2. CASE \E u \in Switched : ChangeRoles(u)
      BY <3>2 DEF ChangeRoles
    <3> QED
      BY <1>1, <1>2, <1>3, <1>4, <2>1, <3>1, <3>2 DEF BoardStep
  <2>2. CASE \E r \in Requests : Commit(r) \/ Rollback(r)
    BY <2>2 DEF Commit, Rollback, Fail
  <2>3. CASE \E r \in Requests :
               \/ InsertCategory(r) \/ GetCategory(r) \/ Save(r) \/ FindStray(r)
               \/ StripTags(r) \/ Relink(r) \/ DeleteCategory(r) \/ ReadPost(r)
               \/ Validate(r) \/ FindTags(r) \/ DeleteTags(r) \/ InsertTags(r)
    BY <2>3 DEF InsertCategory, GetCategory, Save, FindStray, StripTags, Relink,
       DeleteCategory, ReadPost, Validate, FindTags, DeleteTags, InsertTags,
       Refused, Works, Proceeds, rows
  <2> QED BY <1>4, <2>1, <2>2, <2>3 DEF Next
<1>5. Core /\ [Next]_vars => [Written]_boards
  BY <1>4 DEF vars, bvars
<1> QED BY <1>5, CoreHolds, PTL DEF Spec, UpdatesKeep

-----------------------------------------------------------------------------
\* Rights: a request that goes on without them is on its way to be asked.
MustBeAdmin ==
  \A r \in Requests :
    InFlight(r) /\ reqs[r].asked.op \in AdminOnly => reqs[r].admin
RightsInv == HasHad /\ MustBeAdmin /\ RightsHeld

\* A step that is no change of rights, but for one that takes a role away.
Forward(r) ==
  \/ Begins(r) \/ Leaves(r)
  \/ Finishes(r) /\ reqs[r].at \notin {"board", "role"}
  \/ \E at \in Steps :
       /\ Went(r, at)
       /\ \/ reqs[r].at \notin {"board", "role"}
          \/ reqs[r].at = "board" /\ at = IF reqs[r].admin THEN "write" ELSE "role"
          \/ /\ reqs[r].at = "role" /\ at = "write"
             /\ StepOK(reqs[r].asked.op, "role")
             /\ IsBoardMaintainer(reqs[r].asked.by, reqs[r].asked.board)

FewerRights ==
  /\ admins' = admins
  /\ \A k \in BoardIds \X Users :
       members'[k] = "maintainer" => members[k] = "maintainer"

LEMMA EntitledBefore ==
  ASSUME Typed, FewerRights, NEW a \in Menu, Entitled(a, members', admins')
  PROVE  Entitled(a, members, admins)
<1>1. a.op \in OfMaintainers => <<a.board, a.by>> \in BoardIds \X Users
  BY AskOp, AskBoard DEF OfMaintainers
<1> QED BY <1>1 DEF Entitled, FewerRights

LEMMA BeginsRights ==
  ASSUME Typed, NEW r \in Requests, Begins(r)
  PROVE  LET y == reqs'[r] IN
         /\ y.had <=> Entitled(y.asked, members, admins)
         /\ y.had \/ (y.at = "board" /\ ~y.admin)
         /\ y.asked.op \in AdminOnly => y.admin
<1>1. PICK y \in Running :
       /\ reqs' = [reqs EXCEPT ![r] = y]
       /\ y.at = FirstStep[y.asked.op]
       /\ y.asked.op \in AdminOnly => y.admin
       /\ y.admin = (y.asked.by \in admins)
       /\ y.had = Entitled(y.asked, members, admins)
  BY DEF Begins
<1>2. reqs'[r] = y /\ y.asked \in Menu
  BY <1>1, RunningFields DEF Typed
<1>3. y.admin => y.had
  BY <1>1 DEF Entitled
<1>4. CASE y.asked.op \in OfMaintainers
  <2>1. y.at = "board"
    BY <1>1, <1>4 DEF FirstStep, OfMaintainers
  <2> QED BY <1>1, <1>2, <1>3, <2>1
<1>5. CASE y.asked.op \notin OfMaintainers
  <2>1. y.had \/ y.asked.op \in AdminOnly
    BY <1>1, <1>5 DEF Entitled
  <2> QED BY <1>1, <1>2, <1>3, <2>1
<1> QED BY <1>4, <1>5

LEMMA ForwardRights ==
  ASSUME Core, RightsInv, NEW r \in Requests, Forward(r), FewerRights
  PROVE  RightsInv'
<1>0. Typed /\ reqs \in [Requests -> Request]
  BY DEF Core, Typed
<1>1. OneGoes(r) /\ \A q \in Requests \ {r} : reqs'[q] = reqs[q]
  <2>1. OneGoes(r)
    BY <1>0, EachGoes DEF Forward
  <2> QED BY <1>0, <2>1 DEF Forward, Begins, Leaves, Finishes, Went
<1>2. ASSUME NEW q \in Requests \ {r}
      PROVE  /\ reqs'[q] = reqs[q] /\ (InFlight(q)' <=> InFlight(q))
             /\ InFlight(q) => reqs[q].asked \in Menu
  BY <1>0, <1>1, RequestKinds, RunningFields DEF InFlight
<1>3. CASE Begins(r)
  <2>1. PICK y : y = reqs'[r]
    OBVIOUS
  <2>2. /\ y.had <=> Entitled(y.asked, members, admins)
        /\ y.had \/ (y.at = "board" /\ ~y.admin)
        /\ y.asked.op \in AdminOnly => y.admin
    BY <1>0, <1>3, <2>1, BeginsRights
  <2>3. y \in Running
    BY <1>0, <1>3, <2>1 DEF Begins
  <2>4. y.asked \in Menu /\ y.at # "done"
    BY <2>3, RunningFields
  <2>5. Entitled(y.asked, members', admins') => Entitled(y.asked, members, admins)
    BY <1>0, <2>4, EntitledBefore
  <2>6. HasHad'
    BY <1>0, <1>2, <2>1, <2>2, <2>5, EntitledBefore DEF RightsInv, HasHad
  <2>7. MustBeAdmin' /\ RightsHeld'
    BY <1>2, <2>1, <2>2, <2>4 DEF RightsInv, MustBeAdmin, RightsHeld, Stored
  <2> QED BY <2>6, <2>7 DEF RightsInv
<1>4. CASE Leaves(r)
  <2>1. ~InFlight(r)' /\ reqs'[r].at = "refused"
    BY <1>0, <1>4, LeftAt
  <2>2. HasHad'
    BY <1>0, <1>2, <2>1, EntitledBefore DEF RightsInv, HasHad
  <2>3. MustBeAdmin' /\ RightsHeld'
    BY <1>2, <2>1 DEF RightsInv, MustBeAdmin, RightsHeld, Stored
  <2> QED BY <2>2, <2>3 DEF RightsInv
<1>5. CASE Finishes(r) /\ reqs[r].at \notin {"board", "role"}
  <2>1. InFlight(r) /\ ~InFlight(r)'
    BY <1>0, <1>5, FinishedAt
  <2>2. reqs[r].had /\ reqs'[r].had
    <3>1. reqs[r].had
      BY <1>5, <2>1 DEF RightsInv, HasHad
    <3>2. reqs'[r].had = reqs[r].had
      BY <1>0, <1>5 DEF Finishes
    <3> QED BY <3>1, <3>2
  <2>3. HasHad'
    BY <1>0, <1>2, <2>1, EntitledBefore DEF RightsInv, HasHad
  <2>4. MustBeAdmin' /\ RightsHeld'
    BY <1>2, <2>1, <2>2 DEF RightsInv, MustBeAdmin, RightsHeld, Stored
  <2> QED BY <2>3, <2>4 DEF RightsInv
<1>6. ASSUME NEW at \in Steps, Went(r, at),
             \/ reqs[r].at \notin {"board", "role"}
             \/ reqs[r].at = "board" /\ at = IF reqs[r].admin THEN "write" ELSE "role"
             \/ /\ reqs[r].at = "role" /\ at = "write"
                /\ StepOK(reqs[r].asked.op, "role")
                /\ IsBoardMaintainer(reqs[r].asked.by, reqs[r].asked.board)
      PROVE  RightsInv'
  <2>1. InFlight(r) /\ reqs'[r].at = at /\ reqs'[r].asked = reqs[r].asked
        /\ reqs[r].asked \in Menu
    BY <1>0, <1>6, WentTo
  <2>2. reqs'[r].had = reqs[r].had /\ reqs'[r].admin = reqs[r].admin
    BY <1>0, <1>6 DEF Went
  <2>3. /\ Entitled(reqs[r].asked, members, admins) => reqs[r].had
        /\ reqs[r].had \/ (reqs[r].at \in {"board", "role"} /\ ~reqs[r].admin)
        /\ reqs[r].asked.op \in AdminOnly => reqs[r].admin
    BY <2>1 DEF RightsInv, HasHad, MustBeAdmin
  <2>4. reqs[r].had \/ (at = "role" /\ ~reqs[r].admin)
    <3>1. CASE reqs[r].at = "role"
      <4>1. IsBoardMaintainer(reqs[r].asked.by, reqs[r].asked.board)
            /\ StepOK(reqs[r].asked.op, "role")
        BY <1>6, <3>1
      <4>2. \/ reqs[r].asked.op \in AdminOnly
            \/ reqs[r].asked.op \in OfMaintainers
        BY <4>1 DEF StepOK, OfPost, AdminOnly, OfMaintainers
      <4>3. reqs[r].asked.op \in OfMaintainers => reqs[r].had
        BY <2>3, <4>1 DEF Entitled, IsBoardMaintainer
      <4> QED BY <2>3, <4>2, <4>3
    <3>2. CASE reqs[r].at # "role"
      BY <1>6, <2>3, <3>2
    <3> QED BY <3>1, <3>2
  <2>5. Entitled(reqs[r].asked, members', admins') => reqs[r].had
    BY <1>0, <2>1, <2>3, EntitledBefore
  <2>6. HasHad'
    BY <1>0, <1>2, <2>1, <2>2, <2>4, <2>5, EntitledBefore DEF RightsInv, HasHad
  <2>7. at # "done"
    BY DEF Steps
  <2>8. MustBeAdmin' /\ RightsHeld'
    BY <1>2, <2>1, <2>2, <2>3, <2>7 DEF RightsInv, MustBeAdmin, RightsHeld, Stored
  <2> QED BY <2>6, <2>8 DEF RightsInv
<1> QED BY <1>3, <1>4, <1>5, <1>6 DEF Forward

LEMMA GoesForward ==
  ASSUME Typed, NEW r \in Requests, reqs[r] \in Running, NEW at \in Steps,
         reqs[r].at \notin {"board", "role"}, Goes(r, at)
  PROVE  Forward(r)
BY GoesWent DEF Forward

LEMMA AnswersForward ==
  ASSUME Typed, NEW r \in Requests, reqs[r] \in Running, NEW x, Answers(r, x),
         x \notin {"ok", "nothing yet"} \/ reqs[r].at \notin {"board", "role"}
  PROVE  Forward(r)
BY AnswersEnds DEF Forward

LEMMA BoardForward ==
  ASSUME Core, NEW r \in Requests,
         \/ Begin(r) \/ BoardSlugExists(r) \/ CreateBoard(r) \/ GetBoardByID(r)
         \/ CheckRole(r) \/ UpdateBoard(r) \/ ArchiveBoard(r)
         \/ RemoveBoardMember(r)
  PROVE  Forward(r) /\ FewerRights
<1>0. Typed /\ AllLocal
  BY DEF Core
<1>1. FewerRights
  <2>1. CASE RemoveBoardMember(r)
    <3>1. PICK key : /\ members' = [members EXCEPT ![key] = "none"]
                     /\ UNCHANGED admins
      BY <2>1 DEF RemoveBoardMember
    <3>2. members \in [BoardIds \X Users -> BoardRoles]
      BY <1>0 DEF Typed, BoardsOK
    <3> QED BY <3>1, <3>2 DEF FewerRights
  <2>2. CASE ~RemoveBoardMember(r)
    BY <2>2 DEF Begin, BoardSlugExists, CreateBoard, GetBoardByID, CheckRole,
       UpdateBoard, ArchiveBoard, FewerRights
  <2> QED BY <2>1, <2>2
<1> SUFFICES Forward(r)
  BY <1>1
<1>2. CASE Begin(r)
  BY <1>0, <1>2, BeginBegins DEF Forward
<1>3. CASE BoardSlugExists(r)
  <2>1. reqs[r].at = "slug" /\ reqs[r].at \in Steps /\ "insert board" \in Steps
    BY <1>3 DEF BoardSlugExists, Steps
  <2>2. reqs[r] \in Running
    BY <1>0, <2>1, InFlightAt
  <2>3. Answers(r, "conflict") \/ Goes(r, "insert board")
    BY <1>3 DEF BoardSlugExists
  <2> QED BY <1>0, <2>1, <2>2, <2>3, GoesForward, AnswersForward
<1>4. CASE CreateBoard(r)
  <2>1. reqs[r].at = "insert board" /\ reqs[r].at \in Steps
    BY <1>4 DEF CreateBoard, Steps
  <2>2. reqs[r] \in Running
    BY <1>0, <2>1, InFlightAt
  <2>3. \E x : Answers(r, x)
    BY <1>4 DEF CreateBoard
  <2> QED BY <1>0, <2>1, <2>2, <2>3, AnswersForward
<1>5. CASE GetBoardByID(r)
  <2>1. reqs[r].at = "board" /\ reqs[r].at \in Steps
    BY <1>5 DEF GetBoardByID, Steps
  <2>2. reqs[r] \in Running
    BY <1>0, <2>1, InFlightAt
  <2>3. PICK a : a = reqs[r].asked
    OBVIOUS
  <2>4. CASE a.board \notin DOMAIN boards
    BY <1>0, <1>5, <2>2, <2>3, <2>4, AnswersForward DEF GetBoardByID
  <2>5. CASE a.board \in DOMAIN boards
    <3>1. PICK at, got : /\ at = IF reqs[r].admin THEN "write" ELSE "role"
                         /\ got = boards[a.board]
      OBVIOUS
    <3>2. at \in Steps /\ got \in BoardRow
      BY <1>0, <2>5, <3>1 DEF Steps, Typed, BoardsOK
    <3>3. reqs' = [reqs EXCEPT ![r].at = at, ![r].got = got]
      BY <1>5, <2>3, <2>5, <3>1 DEF GetBoardByID
    <3>4. Went(r, at)
      BY <1>0, <2>2, <3>2, <3>3, GotWent
    <3> QED BY <2>1, <3>1, <3>2, <3>4 DEF Forward
  <2> QED BY <2>4, <2>5
<1>6. CASE CheckRole(r)
  <2>1. reqs[r].at = "role" /\ reqs[r].at \in Steps /\ "write" \in Steps
    BY <1>6 DEF CheckRole, Steps
  <2>2. reqs[r] \in Running /\ StepOK(reqs[r].asked.op, "role")
    BY <1>0, <2>1, InFlightAt
  <2>3. CASE ~IsBoardMaintainer(reqs[r].asked.by, reqs[r].asked.board)
    BY <1>0, <1>6, <2>2, <2>3, AnswersForward DEF CheckRole
  <2>4. CASE IsBoardMaintainer(reqs[r].asked.by, reqs[r].asked.board)
    BY <1>0, <1>6, <2>1, <2>2, <2>4, GoesWent DEF CheckRole, Forward
  <2> QED BY <2>3, <2>4
<1>7. CASE UpdateBoard(r) \/ ArchiveBoard(r) \/ RemoveBoardMember(r)
  <2>1. reqs[r].at = "write" /\ reqs[r].at \in Steps
    BY <1>7 DEF UpdateBoard, ArchiveBoard, RemoveBoardMember, Write, Steps
  <2>2. reqs[r] \in Running
    BY <1>0, <2>1, InFlightAt
  <2>3. \E x : Answers(r, x)
    BY <1>7 DEF UpdateBoard, ArchiveBoard, RemoveBoardMember
  <2> QED BY <1>0, <2>1, <2>2, <2>3, AnswersForward
<1> QED BY <1>2, <1>3, <1>4, <1>5, <1>6, <1>7

LEMMA CategoryForward ==
  ASSUME Core, NEW r \in Requests,
         \/ InsertCategory(r) \/ GetCategory(r) \/ Save(r) \/ FindStray(r)
         \/ StripTags(r) \/ Relink(r) \/ DeleteCategory(r) \/ ReadPost(r)
         \/ Validate(r) \/ FindTags(r) \/ DeleteTags(r) \/ InsertTags(r)
         \/ Commit(r) \/ Rollback(r)
  PROVE  Forward(r) /\ FewerRights
<1>0. Typed /\ AllLocal
  BY DEF Core
<1>1. FewerRights
  BY DEF InsertCategory, GetCategory, Save, FindStray, StripTags, Relink,
     DeleteCategory, ReadPost, Validate, FindTags, DeleteTags, InsertTags,
     Commit, Rollback, Fail, Refused, Works, Proceeds, rows, FewerRights
<1> SUFFICES Forward(r)
  BY <1>1
<1>2. CASE Rollback(r)
  <2>1. reqs[r] \in Running /\ Answers(r, "internal")
    BY <1>0, <1>2, RequestKinds DEF Rollback, Fail, Typed
  <2> QED BY <1>0, <2>1, AnswersForward
<1>3. CASE ~Rollback(r)
  <2>1. reqs[r].at \in Steps \ {"board", "role"}
    BY <1>3 DEF InsertCategory, GetCategory, Save, FindStray, StripTags, Relink,
       DeleteCategory, ReadPost, Validate, FindTags, DeleteTags, InsertTags,
       Commit, Steps
  <2>2. reqs[r] \in Running
    BY <1>0, <2>1, InFlightAt
  <2>3. ASSUME NEW x, Answers(r, x) PROVE Forward(r)
    BY <1>0, <2>1, <2>2, <2>3, AnswersForward
  <2>4. ASSUME NEW at \in Onward, Goes(r, at) PROVE Forward(r)
    <3>1. at \in Steps
      BY DEF Onward, Steps
    <3> QED BY <1>0, <2>1, <2>2, <2>4, <3>1, GoesForward
  <2>5. ASSUME NEW x, Refused(r, x) PROVE Forward(r)
    BY <2>3, <2>5 DEF Refused
  <2>6. CASE Commit(r)
    BY <2>3, <2>6 DEF Commit
  <2>7. CASE InsertCategory(r) \/ Save(r) \/ FindStray(r) \/ StripTags(r)
             \/ Relink(r) \/ DeleteCategory(r) \/ FindTags(r) \/ DeleteTags(r)
             \/ InsertTags(r)
    <3>1. (\E x : Refused(r, x)) \/ (\E at \in Onward : Goes(r, at))
      BY <2>7 DEF InsertCategory, Save, FindStray, StripTags, Relink,
         DeleteCategory, FindTags, DeleteTags, InsertTags, Works, Onward
    <3> QED BY <2>4, <2>5, <3>1
  <2>8. CASE Validate(r)
    <3>1. Refused(r, "validation") \/ (\E at \in Onward : Goes(r, at))
      BY <2>8 DEF Validate, Proceeds, Onward
    <3> QED BY <2>4, <2>5, <3>1
  <2>9. CASE GetCategory(r)
    <3>1. CASE reqs[r].asked.cat \notin DOMAIN categories
      BY <2>5, <2>9, <3>1 DEF GetCategory
    <3>2. CASE reqs[r].asked.cat \in DOMAIN categories
      <4>1. PICK at, got :
              /\ at = IF reqs[r].asked.op = "delete-category" THEN "delete" ELSE "save"
              /\ got = categories[reqs[r].asked.cat]
        OBVIOUS
      <4>2. at \in Steps /\ got \in CategoryRow
        BY <1>0, <3>2, <4>1 DEF Steps, Typed
      <4>3. reqs' = [reqs EXCEPT ![r].at = at, ![r].got = got]
        BY <2>9, <3>2, <4>1 DEF GetCategory
      <4>4. Went(r, at)
        BY <1>0, <2>2, <4>2, <4>3, GotWent
      <4> QED BY <2>1, <4>2, <4>4 DEF Forward
    <3> QED BY <3>1, <3>2
  <2>10. CASE ReadPost(r)
    <3>1. PICK a \in Menu : a = reqs[r].asked
      BY <1>0, <2>1, InFlightAt
    <3>2. a.op \in OfPost
      BY <1>0, <2>1, <2>10, <3>1, InFlightAt DEF StepOK, ReadPost
    <3>3. PICK b : b = IF a.op = "create-post" THEN a.board ELSE posts[a.post].board
      OBVIOUS
    <3>4. b \in BoardIds /\ "validate" \in Steps
      BY <3>1, <3>2, <3>3, AskPost DEF Core, PostsThere, Typed, BoardsOK, OfPost, Steps
    <3>5. \/ \E x : Refused(r, x)
          \/ Proceeds(r, "commit")
          \/ reqs' = [reqs EXCEPT ![r].at = "validate", ![r].got = b]
      BY <2>10, <3>1, <3>3 DEF ReadPost
    <3>6. ASSUME reqs' = [reqs EXCEPT ![r].at = "validate", ![r].got = b]
          PROVE  Forward(r)
      <4>1. Went(r, "validate")
        BY <1>0, <2>2, <3>4, <3>6, GotWent
      <4> QED BY <2>1, <3>4, <4>1 DEF Forward
    <3>7. ASSUME Proceeds(r, "commit") PROVE Forward(r)
      BY <2>4, <3>7 DEF Proceeds, Onward
    <3> QED BY <2>5, <3>5, <3>6, <3>7
  <2> QED BY <1>3, <2>6, <2>7, <2>8, <2>9, <2>10
<1> QED BY <1>2, <1>3

\* Who is given rights has them from then on.
LEMMA WitnessedRights ==
  ASSUME Core, RightsInv, NEW current \in [Requests -> Request],
         \A q \in Requests : current[q] # reqs[q] =>
           /\ InFlight(q) /\ current[q] \in Finished /\ current[q].had,
         reqs' = Witnessed(current, members', admins')
  PROVE  RightsInv'
<1>0. Typed /\ reqs \in [Requests -> Request]
  BY DEF Core, Typed
<1>1. ASSUME NEW q \in Requests
      PROVE  /\ InFlight(q)' =>
                 /\ InFlight(q) /\ reqs'[q].at = reqs[q].at
                 /\ reqs'[q].asked = reqs[q].asked /\ reqs'[q].admin = reqs[q].admin
                 /\ reqs'[q].had <=> reqs[q].had
                                     \/ Entitled(reqs[q].asked, members', admins')
             /\ reqs'[q].at = "done" =>
                 \/ reqs'[q] = reqs[q]
                 \/ reqs'[q].had
  <2>1. PICK p, c : p = reqs[q] /\ c = current[q]
    OBVIOUS
  <2>2. PICK w : w = Witnessed(current, members', admins')[q]
    OBVIOUS
  <2>3. reqs'[q] = w
    BY <2>2
  <2>4. CASE c = p
    <3>1. InFlight(q) <=> p.at \notin {"fresh"} \cup Ended
      BY <2>1 DEF InFlight
    <3>2. InFlight(q) /\ c.at \notin Ended => c \in Running
      BY <1>0, <2>1, <2>4, RequestKinds
    <3>3. /\ Alike(w, c)
          /\ ~InFlight(q) \/ c.at \in Ended => w = c
          /\ InFlight(q) /\ c.at \notin Ended =>
               (w.had <=> c.had \/ Entitled(c.asked, members', admins'))
      BY <2>1, <2>2, <3>2, WitnessedAlike
    <3>4. InFlight(q)' <=> w.at \notin {"fresh"} \cup Ended
      BY <2>3 DEF InFlight
    <3>5. p.at = "done" => ~InFlight(q)
      BY <3>1 DEF Ended
    <3> QED BY <2>1, <2>3, <2>4, <3>1, <3>3, <3>4, <3>5 DEF Alike
  <2>5. CASE c # p
    <3>1. InFlight(q) /\ c \in Finished /\ c.had
      BY <2>1, <2>5
    <3>2. c.at = "done" /\ c.at \in Ended
      BY <3>1 DEF Finished, Ended
    <3>3. w = c
      BY <2>1, <2>2, <3>1, <3>2, WitnessedAlike
    <3>4. ~InFlight(q)'
      BY <2>3, <3>2, <3>3 DEF InFlight
    <3> QED BY <2>3, <3>1, <3>3, <3>4
  <2> QED BY <2>4, <2>5
<1>2. HasHad'
  BY <1>1 DEF RightsInv, HasHad
<1>3. MustBeAdmin'
  BY <1>1 DEF RightsInv, MustBeAdmin
<1>4. RightsHeld'
  BY <1>1 DEF RightsInv, RightsHeld, Stored
<1> QED BY <1>2, <1>3, <1>4 DEF RightsInv

LEMMA SetMemberRights ==
  ASSUME Core, RightsInv, NEW r \in Requests, SetBoardMember(r)
  PROVE  RightsInv'
<1>0. Typed /\ AllLocal
  BY DEF Core
<1>1. reqs[r].at = "write" /\ reqs[r].at \in Steps
  BY DEF SetBoardMember, Write, Steps
<1>2. reqs[r] \in Running /\ InFlight(r)
  BY <1>0, <1>1, InFlightAt
<1>3. PICK q \in Running : q = reqs[r]
  BY <1>2
<1>4. PICK y : y = [at |-> "done", asked |-> q.asked, had |-> q.had, met |-> q.met,
         told |-> "ok"]
  OBVIOUS
<1>5. y = Answered(q, "ok")
  BY <1>4 DEF Answered
<1>6. y \in Finished /\ y.had = q.had
  BY <1>4, RunningFields DEF Finished
<1>7. q.had
  BY <1>1, <1>2, <1>3 DEF RightsInv, HasHad
<1>8. PICK current : current = [reqs EXCEPT ![r] = y]
  OBVIOUS
<1>9. /\ current \in [Requests -> Request] /\ current[r] = y
      /\ \A p \in Requests \ {r} : current[p] = reqs[p]
  BY <1>0, <1>6, <1>8 DEF Typed, Request
<1>10. reqs' = Witnessed(current, members', admins')
  BY <1>3, <1>5, <1>8 DEF SetBoardMember
<1> QED BY <1>2, <1>6, <1>7, <1>9, <1>10, WitnessedRights

LEMMA RereadRights ==
  ASSUME Core, RightsInv, NEW r \in Requests, Reread(r)
  PROVE  RightsInv'
<1>1. Typed /\ reqs \in [Requests -> Request]
  BY DEF Core, Typed
<1>2. PICK y \in Finished :
        /\ reqs' = [reqs EXCEPT ![r] = y] /\ reqs[r] \in Finished
        /\ y.asked = reqs[r].asked /\ y.had = reqs[r].had
  BY <1>1, RereadTells
<1>3. y.at = "done" /\ reqs[r].at = "done"
  BY <1>2 DEF Finished
<1>4. reqs'[r] = y /\ \A q \in Requests \ {r} : reqs'[q] = reqs[q]
  BY <1>1, <1>2
<1>5. ASSUME NEW q \in Requests
      PROVE  /\ InFlight(q)' <=> InFlight(q)
             /\ InFlight(q) => reqs'[q] = reqs[q]
             /\ reqs'[q].at = reqs[q].at
             /\ reqs[q].at = "done" => /\ reqs'[q].asked = reqs[q].asked
                                       /\ reqs'[q].had = reqs[q].had
  BY <1>2, <1>3, <1>4 DEF InFlight, Ended
<1>6. UNCHANGED <<members, admins>>
  BY <1>1, RereadTells
<1>7. ASSUME NEW q \in Requests, InFlight(q)'
      PROVE  /\ Entitled(reqs'[q].asked, members', admins') =>
                  Entitled(reqs[q].asked, members, admins)
             /\ InFlight(q) /\ reqs'[q] = reqs[q]
  BY <1>5, <1>6, <1>7
<1>8. HasHad'
  BY <1>7 DEF RightsInv, HasHad
<1>9. MustBeAdmin'
  BY <1>7 DEF RightsInv, MustBeAdmin
<1>10. RightsHeld'
  BY <1>5 DEF RightsInv, RightsHeld, Stored
<1> QED BY <1>8, <1>9, <1>10 DEF RightsInv

LEMMA RightsInit ==
  ASSUME Init
  PROVE  RightsInv
<1>1. \A r \in Requests : reqs[r].at = "fresh" /\ ~InFlight(r)
  BY DEF Init, BoardsInit, Fresh, InFlight
<1> QED BY <1>1 DEF RightsInv, HasHad, MustBeAdmin, RightsHeld, Stored

\* THEOREM: nothing is done for somebody who was not entitled to it at any
\* moment of the request.
THEOREM RightsAreHeld == Spec => []RightsHeld
<1>1. ASSUME Core, RightsInv, NEW u \in Switched, ChangeRoles(u) PROVE RightsInv'
  <2>1. reqs \in [Requests -> Request]
    BY <1>1 DEF Core, Typed
  <2>2. reqs' = Witnessed(reqs, members', admins')
    BY <1>1 DEF ChangeRoles
  <2> QED BY <1>1, <2>1, <2>2, WitnessedRights
<1>2. ASSUME Core, RightsInv, Next PROVE RightsInv'
  BY <1>1, <1>2, BoardForward, CategoryForward, ForwardRights, SetMemberRights,
     RereadRights
     DEF Next, BoardStep
<1>3. ASSUME RightsInv, UNCHANGED vars PROVE RightsInv'
  BY <1>3 DEF vars, bvars, RightsInv, HasHad, MustBeAdmin, RightsHeld, Stored, InFlight
<1>4. Core /\ RightsInv /\ [Next]_vars => RightsInv'
  BY <1>2, <1>3
<1>5. RightsInv => RightsHeld
  BY DEF RightsInv
<1> QED BY <1>4, <1>5, RightsInit, CoreHolds, PTL DEF Spec

-----------------------------------------------------------------------------
\* The second layer: no two hold one category, and what becomes of the links.
LinkInv ==
  Known /\ OneHolds /\ BoardsThere /\ OnlyNamed /\ LinksThere /\ Unlinks

\* Whoever does not go on is where he was.
LEMMA OthersSame ==
  ASSUME Typed, NEW x, OneGoes(x), NEW q \in Requests \ {x}
  PROVE  /\ Alike(reqs'[q], reqs[q]) /\ reqs'[q].asked = reqs[q].asked
         /\ reqs'[q].at = reqs[q].at /\ (InFlight(q)' <=> InFlight(q))
         /\ CatOf(q)' = CatOf(q) /\ PostOf(q)' = PostOf(q) /\ BoardOf(q)' = BoardOf(q)
         /\ \A op : Doing(q, op)' <=> Doing(q, op)
         /\ Named_(q)' <=> Named_(q)
         /\ PastPost(q)' <=> PastPost(q)
         /\ \A op : Stored(q, op)' <=> Stored(q, op)
<1>1. Alike(reqs'[q], reqs[q]) /\ (InFlight(q)' <=> InFlight(q))
  BY Persists DEF OneGoes
<1>2. reqs'[q].asked = reqs[q].asked /\ reqs'[q].at = reqs[q].at
  BY <1>1 DEF Alike
<1>3. CatOf(q)' = CatOf(q) /\ PostOf(q)' = PostOf(q) /\ BoardOf(q)' = BoardOf(q)
  BY <1>2 DEF CatOf, PostOf, BoardOf
<1>4. \A op : Doing(q, op)' <=> Doing(q, op)
  BY <1>1, <1>2 DEF Doing
<1>5. Named_(q)' <=> Named_(q)
  BY <1>2, <1>4 DEF Named_
<1>6. PastPost(q)' <=> PastPost(q)
  BY <1>1, <1>2 DEF PastPost
<1>7. \A op : Stored(q, op)' <=> Stored(q, op)
  BY <1>2 DEF Stored
<1> QED BY <1>1, <1>2, <1>3, <1>4, <1>5, <1>6, <1>7

LEMMA ActsSame ==
  ASSUME NEW r \in Requests, NEW at, Acts(r, at)
  PROVE  /\ reqs'[r].asked = reqs[r].asked /\ InFlight(r) /\ InFlight(r)'
         /\ CatOf(r)' = CatOf(r) /\ PostOf(r)' = PostOf(r) /\ BoardOf(r)' = BoardOf(r)
         /\ \A op : (Doing(r, op) <=> reqs[r].asked.op = op)
                    /\ (Doing(r, op)' <=> reqs[r].asked.op = op)
         /\ OneGoes(r) /\ \A q \in Requests \ {r} : work'[q] = work[q]
         /\ UNCHANGED <<boards, members, admins, categories, links, posts, tags>>
         /\ reqs'[r].at = at /\ reqs[r].asked \in Menu
BY DEF Acts, CatOf, PostOf, BoardOf, Doing, rows

\* A request that is calm has done nothing about a category or a post.
LEMMA CalmSame ==
  ASSUME NEW x \in Requests, Calm(x)
  PROVE  /\ work'[x] = NoWork
         /\ InFlight(x)' => reqs'[x].at \notin Writing
         /\ ~Named_(x)' /\ ~PastPost(x)'
         /\ Doing(x, "update-category")' \/ Doing(x, "delete-category")' =>
              reqs'[x].at = "category"
         /\ \A op \in OfCategory \cup OfPost : ~Stored(x, op)'
<1>1. /\ InFlight(x)' =>
            /\ StepOK(reqs'[x].asked.op, reqs'[x].at)
            /\ reqs'[x].at \in BoardSteps \cup {"category", "insert category", "post"}
      /\ reqs'[x].at = "done" => reqs'[x].asked.op \notin OfCategory \cup OfPost
      /\ work'[x] = NoWork
  BY DEF Calm
<1>2. InFlight(x)' => reqs'[x].at \notin Writing
  BY <1>1 DEF BoardSteps, Writing
<1>3. ~Named_(x)'
  BY <1>2 DEF Named_, Doing
<1>4. ~PastPost(x)'
  BY <1>1 DEF PastPost, BoardSteps, StepOK, OfPost
<1>5. Doing(x, "update-category")' \/ Doing(x, "delete-category")' =>
              reqs'[x].at = "category"
  BY <1>1 DEF Doing, StepOK, BoardSteps, OfPost
<1> QED BY <1>1, <1>2, <1>3, <1>4, <1>5 DEF Stored

LEMMA ExistsStays ==
  ASSUME Typed, NEW x, OneGoes(x), NEW c, Exists(c)
  PROVE  Exists(c)'
BY StoredStays DEF Exists

\* What Known says of one request.
KnownOf(r) ==
  \/ Stored(r, "update-category") \/ Stored(r, "delete-category")
  \/ /\ Doing(r, "update-category") \/ Doing(r, "delete-category")
     /\ reqs[r].at # "category"
  => Exists(reqs[r].asked.cat)


LEMMA KnownOthers ==
  ASSUME Typed, Known, NEW x, OneGoes(x), NEW q \in Requests \ {x}
  PROVE  KnownOf(q)'
<1>1. KnownOf(q)
  BY DEF Known, KnownOf
<1>2. PICK c : c = reqs[q].asked.cat
  OBVIOUS
<1>3. reqs'[q].asked.cat = c
  BY <1>2, OthersSame
<1>4. Exists(c) => Exists(c)'
  BY ExistsStays
<1>5. \/ Stored(q, "update-category")' \/ Stored(q, "delete-category")'
      \/ /\ Doing(q, "update-category")' \/ Doing(q, "delete-category")'
         /\ reqs'[q].at # "category"
      => Exists(c)'
  BY <1>1, <1>2, <1>4, OthersSame DEF KnownOf
<1> QED BY <1>3, <1>5 DEF KnownOf, Exists

\* It is enough to know it of the request that goes on, and of the rows.
LEMMA KnownStays ==
  ASSUME Typed, Known, NEW x, OneGoes(x), x \in Requests => KnownOf(x)',
         \A c \in DOMAIN categories' : c \in DOMAIN categories \/ Exists(c)'
  PROVE  Known'
<1>1. \A q \in Requests : KnownOf(q)'
  BY KnownOthers
<1>2. \A c \in DOMAIN categories' : Exists(c)'
  BY ExistsStays DEF Known
<1> QED BY <1>1, <1>2 DEF Known, KnownOf

LEMMA KnownCalm ==
  ASSUME Core, Known, NEW x, Calm(x)
  PROVE  Known'
<1>1. Typed /\ OneGoes(x) /\ categories' = categories
  BY DEF Core, Calm
<1>2. x \in Requests => KnownOf(x)'
  BY CalmSame DEF KnownOf, OfCategory
<1> QED BY <1>1, <1>2, KnownStays

LEMMA KnownEffect ==
  ASSUME Core, Known, NEW r \in Requests, Effect(r)
  PROVE  Known'
<1>1. PICK at \in Onward : Acts(r, at)
  BY EffectActs
<1>2. Typed /\ OneGoes(r) /\ categories' = categories
  BY <1>1 DEF Core, Acts, rows
<1>3. ASSUME reqs[r].asked.op \in {"update-category", "delete-category"}
      PROVE  Exists(reqs[r].asked.cat)
  <2>1. CASE Looked(r)
    BY <2>1 DEF Looked, Known
  <2>2. CASE ~Looked(r)
    <3>1. reqs[r].at # "category"
      BY <1>3, <2>2 DEF Effect, Inserted, Saved, Found, StripsTags, Relinked,
         Deleted, Checks, Validates, FoundTags, Untags, Tags_, OfPost
    <3> QED BY <1>1, <1>3, <3>1, ActsSame DEF Known
  <2> QED BY <2>1, <2>2
<1>4. PICK c : c = reqs[r].asked.cat
  OBVIOUS
<1>5. Exists(c) => Exists(c)'
  BY <1>2, ExistsStays
<1>6. /\ reqs'[r].asked.cat = c
      /\ \A op : Doing(r, op)' => reqs[r].asked.op = op
      /\ \A op : ~Stored(r, op)'
  BY <1>1, <1>4, ActsSame DEF Stored, Onward
<1>7. KnownOf(r)'
  BY <1>3, <1>4, <1>5, <1>6 DEF KnownOf, Exists
<1> QED BY <1>2, <1>7, KnownStays

LEMMA KnownCommit ==
  ASSUME Core, Known, NEW r \in Requests, Commit(r), Commits(r)
  PROVE  Known'
<1>1. /\ Typed /\ AllLocal /\ OneGoes(r) /\ InFlight(r) /\ reqs[r].at = "commit"
      /\ reqs'[r].at = "done" /\ reqs'[r].asked = reqs[r].asked /\ ~InFlight(r)'
      /\ reqs[r].asked.op \in OfCategory \cup OfPost
  BY DEF Core, Commits
<1>2. PICK c : c = CatOf(r)
  OBVIOUS
<1>3. reqs[r].asked.op \in OfCategory => Exists(c)'
  <2>1. CASE reqs[r].asked.op = "create-category"
    BY <1>1, <1>2, <2>1 DEF CatOf, Exists, Stored
  <2>2. CASE reqs[r].asked.op \in {"update-category", "delete-category"}
    <3>1. Exists(c)
      BY <1>1, <1>2, <2>2 DEF CatOf, Known, Doing
    <3> QED BY <1>1, <3>1, ExistsStays
  <2> QED BY <2>1, <2>2 DEF OfCategory
<1>4. KnownOf(r)'
  <2>1. reqs'[r].asked.op \in {"update-category", "delete-category"} =>
          reqs'[r].asked.cat = c
    BY <1>1, <1>2 DEF CatOf
  <2> QED BY <1>1, <1>3, <2>1 DEF KnownOf, Exists, Stored, Doing, OfCategory
<1>5. \A x \in DOMAIN categories' : x \in DOMAIN categories \/ Exists(x)'
  <2>1. CASE reqs[r].asked.op \in {"create-category", "update-category"}
    <3>1. PICK row : row = work[r].row
      OBVIOUS
    <3>2. categories' = Put(categories, c, row)
      BY <1>1, <1>2, <2>1, <3>1, CommitRows
    <3>3. ASSUME NEW x \in DOMAIN categories' PROVE x \in DOMAIN categories \/ x = c
      BY <3>2 DEF Put
    <3> QED BY <1>3, <2>1, <3>3 DEF OfCategory
  <2>2. CASE reqs[r].asked.op \in {"delete-category"} \cup OfPost
    BY <1>1, <2>2, CommitRows
  <2> QED BY <1>1, <2>1, <2>2 DEF OfCategory
<1> QED BY <1>1, <1>4, <1>5, KnownStays

\* No two hold one category.
LEMMA HeldBy ==
  ASSUME Core, NEW q \in Requests, work[q].holds # Nil
  PROVE  /\ InFlight(q) /\ reqs[q].asked.op \in OfCategory
         /\ reqs[q].at \in Writing /\ work[q].holds = CatOf(q)
         /\ reqs[q].asked \in Menu /\ reqs[q].at # "category"
<1>1. InFlight(q) /\ reqs[q].at \in Writing
  BY NoWorkFields DEF Core, AllLocal, Local
<1>2. reqs[q].asked \in Menu
  BY <1>1, RequestKinds, RunningFields DEF Core, Typed
<1>3. reqs[q].asked.op \notin OfPost
  BY <1>1 DEF Core, AllLocal, Local
<1>4. StepOK(reqs[q].asked.op, reqs[q].at)
  BY <1>1 DEF Core, AllLocal, Local
<1>5. reqs[q].asked.op \in OfCategory
  BY <1>1, <1>3, <1>4 DEF StepOK, Writing, OfCategory, OfPost
<1> QED BY <1>1, <1>2, <1>5 DEF Core, AllLocal, Local, Writing

LEMMA OneHoldsStays ==
  ASSUME OneHolds, NEW x, \A q \in Requests \ {x} : work'[q] = work[q],
         x \in Requests =>
           \/ work'[x].holds = Nil \/ work'[x].holds = work[x].holds
           \/ \A q \in Requests \ {x} : work[q].holds # work'[x].holds
  PROVE  OneHolds'
BY DEF OneHolds

LEMMA OneHoldsCalm ==
  ASSUME Core, OneHolds, NEW x, Calm(x)
  PROVE  OneHolds'
<1>1. x \in Requests => work'[x].holds = Nil
  BY CalmSame, NoWorkFields
<1> QED BY <1>1, OneHoldsStays DEF Calm

LEMMA OneHoldsEffect ==
  ASSUME Core, Known, OneHolds, NEW r \in Requests, Effect(r)
  PROVE  OneHolds'
<1>1. PICK at \in Onward : Acts(r, at)
  BY EffectActs
<1>2. /\ \A q \in Requests \ {r} : work'[q] = work[q]
      /\ reqs[r].asked \in Menu /\ InFlight(r)
  BY <1>1 DEF Acts
<1>3. CASE Inserted(r)
  <2> SUFFICES ASSUME NEW q \in Requests \ {r}, work[q].holds = r PROVE FALSE
    BY <1>2, <1>3, OneHoldsStays DEF Inserted
  <2>1. work[q].holds # Nil
    BY NilApart
  <2>2. /\ InFlight(q) /\ reqs[q].asked.op \in OfCategory /\ CatOf(q) = r
        /\ reqs[q].at # "category"
    BY <2>1, HeldBy
  <2>3. reqs[q].asked.op \in {"update-category", "delete-category"}
        /\ reqs[q].asked.cat = r
    BY <2>2 DEF CatOf, OfCategory
  <2>4. Exists(r)
    BY <2>2, <2>3 DEF Known, Doing
  <2>5. reqs[r].at # "done"
    BY <1>2 DEF InFlight, Ended
  <2> QED BY <2>4, <2>5, CategoriesAssumption DEF Exists, Stored
<1>4. CASE Saved(r) \/ Deleted(r)
  <2>1. /\ work'[r].holds = reqs[r].asked.cat /\ ~Locked(r, reqs[r].asked.cat)
        /\ reqs[r].asked.op \in {"update-category", "delete-category"}
    BY <1>4 DEF Saved, Deleted
  <2>2. reqs[r].asked.cat # Nil
    BY <1>2, <2>1, AskCategory, NilApart
  <2>3. ASSUME NEW q \in Requests \ {r}, work[q].holds = reqs[r].asked.cat PROVE FALSE
    BY <2>1, <2>2, <2>3, HeldBy DEF Locked, Others
  <2> QED BY <1>2, <2>1, <2>3, OneHoldsStays
<1>5. CASE Looked(r) \/ Checks(r) \/ Validates(r) \/ FoundTags(r)
  <2>1. work'[r].holds = Nil
    BY <1>5, NoWorkFields DEF Looked, Checks, Validates, FoundTags, SameWork
  <2> QED BY <1>2, <2>1, OneHoldsStays
<1>6. CASE Found(r) \/ StripsTags(r) \/ Relinked(r) \/ Untags(r) \/ Tags_(r)
  <2>1. work'[r].holds = work[r].holds
    BY <1>6 DEF Found, StripsTags, Relinked, Untags, Tags_, SameWork
  <2> QED BY <1>2, <2>1, OneHoldsStays
<1> QED BY <1>3, <1>4, <1>5, <1>6 DEF Effect

LEMMA OneHoldsCommit ==
  ASSUME Core, OneHolds, NEW r \in Requests, Commits(r)
  PROVE  OneHolds'
<1>1. work'[r].holds = Nil /\ \A q \in Requests \ {r} : work'[q] = work[q]
  BY NoWorkFields DEF Core, Typed, Commits
<1> QED BY <1>1, OneHoldsStays

\* The boards a request names, and whether it names some.
LEMMA NamedCalm ==
  ASSUME Core, BoardsThere, OnlyNamed, NEW x, Calm(x)
  PROVE  BoardsThere' /\ OnlyNamed'
<1>1. /\ Typed /\ OneGoes(x) /\ DOMAIN boards \subseteq DOMAIN boards'
      /\ \A q \in Requests \ {x} : work'[q] = work[q]
  BY DEF Core, Calm, BoardsGrow
<1>2. BoardsThere'
  <2> SUFFICES ASSUME NEW q \in Requests, Named_(q)'
               PROVE  /\ reqs'[q].asked.boards # {}
                      /\ reqs'[q].asked.boards \subseteq DOMAIN boards'
    BY DEF BoardsThere
  <2>1. q # x
    BY CalmSame
  <2>2. Named_(q) /\ reqs'[q].asked = reqs[q].asked
    BY <1>1, <2>1, OthersSame
  <2> QED BY <1>1, <2>2 DEF BoardsThere
<1>3. OnlyNamed'
  <2> SUFFICES ASSUME NEW q \in Requests, Doing(q, "update-category")',
                      reqs'[q].asked.boards = Nil
               PROVE  reqs'[q].at \in {"category", "save", "commit"} /\ work'[q].dels = {}
    BY DEF OnlyNamed
  <2>1. CASE q = x
    BY <2>1, CalmSame, NoWorkFields
  <2>2. CASE q # x
    BY <1>1, <2>2, OthersSame DEF OnlyNamed
  <2> QED BY <2>1, <2>2
<1> QED BY <1>2, <1>3

LEMMA NamedEffect ==
  ASSUME Core, BoardsThere, OnlyNamed, NEW r \in Requests, Effect(r)
  PROVE  BoardsThere' /\ OnlyNamed'
<1>1. PICK at \in Onward : Acts(r, at)
  BY EffectActs
<1>2. /\ Typed /\ OneGoes(r) /\ boards' = boards
      /\ \A q \in Requests \ {r} : work'[q] = work[q]
      /\ reqs'[r].asked = reqs[r].asked /\ InFlight(r)
      /\ \A op : /\ Doing(r, op) <=> reqs[r].asked.op = op
                 /\ Doing(r, op)' <=> reqs[r].asked.op = op
  BY <1>1, ActsSame DEF Core
<1>3. BoardsThere'
  <2> SUFFICES ASSUME Named_(r)'
               PROVE  /\ reqs[r].asked.boards # {}
                      /\ reqs[r].asked.boards \subseteq DOMAIN boards
    BY <1>2, OthersSame DEF BoardsThere
  <2>1. CASE Inserted(r) \/ Saved(r)
    BY <1>2, <2>1 DEF Inserted, Saved, Named_
  <2>2. CASE Found(r) \/ StripsTags(r) \/ Relinked(r)
    <3>1. Named_(r)
      BY <1>2, <2>2 DEF Named_, Found, StripsTags, Relinked, Writing
    <3> QED BY <3>1 DEF BoardsThere
  <2>3. CASE Looked(r)
    BY <2>3 DEF Looked, Named_, Acts, Writing
  <2>4. CASE Deleted(r) \/ Checks(r) \/ Validates(r) \/ FoundTags(r)
             \/ Untags(r) \/ Tags_(r)
    BY <1>2, <2>4 DEF Deleted, Checks, Validates, FoundTags, Untags, Tags_,
       Named_, OfPost
  <2> QED BY <2>1, <2>2, <2>3, <2>4 DEF Effect
<1>4. OnlyNamed'
  <2> SUFFICES ASSUME reqs[r].asked.op = "update-category", reqs[r].asked.boards = Nil
               PROVE  reqs'[r].at \in {"category", "save", "commit"} /\ work'[r].dels = {}
    BY <1>2, OthersSame DEF OnlyNamed
  <2>1. reqs[r].at \in {"category", "save", "commit"} /\ work[r].dels = {}
    BY <1>2 DEF OnlyNamed
  <2>2. Looked(r) \/ Saved(r)
    BY <2>1 DEF Effect, Inserted, Found, StripsTags, Relinked, Deleted, Checks,
       Validates, FoundTags, Untags, Tags_, OfPost
  <2> QED BY <2>2, NoWorkFields DEF Looked, Saved, Acts, NoTags
<1> QED BY <1>3, <1>4

LEMMA NamedCommit ==
  ASSUME Core, BoardsThere, OnlyNamed, NEW r \in Requests, Commits(r)
  PROVE  BoardsThere' /\ OnlyNamed'
<1>1. /\ Typed /\ OneGoes(r) /\ boards' = boards /\ ~InFlight(r)'
      /\ \A q \in Requests \ {r} : work'[q] = work[q]
  BY DEF Core, Commits, Typed
<1>2. ~Named_(r)' /\ ~Doing(r, "update-category")'
  BY <1>1 DEF Named_, Doing
<1>3. BoardsThere'
  BY <1>1, <1>2, OthersSame DEF BoardsThere
<1>4. OnlyNamed'
  BY <1>1, <1>2, OthersSame DEF OnlyNamed
<1> QED BY <1>3, <1>4

\* Links: those a commit takes away are all the category has.
UnlinksOf(r) ==
  InFlight(r) /\ reqs[r].at = "commit" /\ reqs[r].asked.op \in OfCategory =>
      work[r].unlinks =
        IF reqs[r].asked.op = "update-category" /\ reqs[r].asked.boards = Nil
        THEN {} ELSE {l \in links : l[2] = CatOf(r)}

LEMMA UnlinksOthers ==
  ASSUME Typed, Unlinks, NEW x, OneGoes(x), NEW q \in Requests \ {x},
         work'[q] = work[q],
         InFlight(q) /\ reqs[q].at = "commit" /\ reqs[q].asked.op \in OfCategory =>
           {l \in links' : l[2] = CatOf(q)} = {l \in links : l[2] = CatOf(q)}
  PROVE  UnlinksOf(q)'
<1>1. UnlinksOf(q)
  BY DEF Unlinks, UnlinksOf
<1>2. /\ reqs'[q].asked = reqs[q].asked /\ reqs'[q].at = reqs[q].at
      /\ InFlight(q)' <=> InFlight(q)
      /\ CatOf(q)' = CatOf(q)
  BY OthersSame
<1> QED BY <1>1, <1>2 DEF UnlinksOf

LEMMA LinksCalm ==
  ASSUME Core, LinksThere, Unlinks, NEW x, Calm(x)
  PROVE  LinksThere' /\ Unlinks'
<1>1. /\ Typed /\ OneGoes(x) /\ links' = links /\ categories' = categories
      /\ DOMAIN boards \subseteq DOMAIN boards'
      /\ \A q \in Requests \ {x} : work'[q] = work[q]
  BY DEF Core, Calm, BoardsGrow
<1>2. LinksThere'
  BY <1>1 DEF LinksThere
<1>3. x \in Requests => UnlinksOf(x)'
  BY CalmSame DEF UnlinksOf, Writing
<1>4. \A q \in Requests : UnlinksOf(q)'
  BY <1>1, <1>3, UnlinksOthers
<1> QED BY <1>2, <1>4 DEF Unlinks, UnlinksOf

LEMMA LinksEffect ==
  ASSUME Core, OnlyNamed, LinksThere, Unlinks, NEW r \in Requests, Effect(r)
  PROVE  LinksThere' /\ Unlinks'
<1>1. PICK at \in Onward : Acts(r, at)
  BY EffectActs
<1>2. /\ Typed /\ OneGoes(r) /\ boards' = boards /\ links' = links
      /\ categories' = categories
      /\ \A q \in Requests \ {r} : work'[q] = work[q]
      /\ reqs'[r].asked = reqs[r].asked /\ InFlight(r)
      /\ \A op : Doing(r, op) <=> reqs[r].asked.op = op
      /\ reqs[r].asked \in Menu /\ CatOf(r)' = CatOf(r)
  BY <1>1, ActsSame DEF Core
<1>3. LinksThere'
  BY <1>2 DEF LinksThere
<1>4. ASSUME reqs'[r].at = "commit", reqs[r].asked.op \in OfCategory
      PROVE  work'[r].unlinks =
        IF reqs[r].asked.op = "update-category" /\ reqs[r].asked.boards = Nil
        THEN {} ELSE {l \in links : l[2] = CatOf(r)}
  <2>1. Saved(r) \/ Relinked(r) \/ Deleted(r)
    BY <1>4 DEF Effect, Inserted, Looked, Found, StripsTags, Checks, Validates,
       FoundTags, Untags, Tags_, OfPost, OfCategory, Acts
  <2>2. CASE Saved(r)
    BY <1>4, <2>2 DEF Saved, Acts
  <2>3. CASE Relinked(r)
    <3>1. work[r].holds = CatOf(r)
      BY <1>2, <1>4, <2>3 DEF Core, AllLocal, Local, Relinked, Writing
    <3>2. ~(reqs[r].asked.op = "update-category" /\ reqs[r].asked.boards = Nil)
      BY <1>2, <2>3 DEF OnlyNamed, Relinked
    <3> QED BY <2>3, <3>1, <3>2 DEF Relinked
  <2>4. CASE Deleted(r)
    BY <2>4 DEF Deleted, CatOf
  <2> QED BY <2>1, <2>2, <2>3, <2>4
<1>5. UnlinksOf(r)'
  BY <1>2, <1>4 DEF UnlinksOf
<1>6. \A q \in Requests : UnlinksOf(q)'
  BY <1>2, <1>5, UnlinksOthers
<1> QED BY <1>3, <1>6 DEF Unlinks, UnlinksOf

\* The links of a category that somebody else holds stay as they are.
LEMMA CommitLinks ==
  ASSUME Core, LinkInv, NEW r \in Requests, Commit(r), Commits(r)
  PROVE  /\ reqs[r].asked.op \in OfPost => links' = links
         /\ reqs[r].asked.op = "delete-category" =>
              links' = {l \in links : l[2] # CatOf(r)}
         /\ /\ reqs[r].asked.op \in {"create-category", "update-category"}
            /\ reqs[r].asked.boards # Nil
            => /\ links' = {l \in links : l[2] # CatOf(r)}
                           \cup (reqs[r].asked.boards \X {CatOf(r)} \X {r})
               /\ reqs[r].asked.boards # {}
               /\ reqs[r].asked.boards \subseteq DOMAIN boards
         /\ /\ reqs[r].asked.op \in {"create-category", "update-category"}
            /\ reqs[r].asked.boards = Nil
            => links' = links /\ reqs[r].asked.op = "update-category"
<1>1. /\ Typed /\ AllLocal /\ InFlight(r) /\ reqs[r].at = "commit"
      /\ reqs[r].asked \in Menu
  BY DEF Core, Commits
<1>2. UnlinksOf(r)
  BY DEF LinkInv, Unlinks, UnlinksOf
<1>3. CASE reqs[r].asked.op \in OfPost
  BY <1>1, <1>3, CommitRows DEF OfPost
<1>4. CASE reqs[r].asked.op = "delete-category"
  <2>1. work[r].unlinks = {l \in links : l[2] = CatOf(r)}
    BY <1>1, <1>2, <1>4 DEF UnlinksOf, OfCategory
  <2>2. links' = links \ work[r].unlinks
    BY <1>1, <1>4, CommitRows
  <2> QED BY <1>4, <2>1, <2>2 DEF OfPost
<1>5. CASE reqs[r].asked.op \in {"create-category", "update-category"}
  <2>1. links' = (links \ work[r].unlinks) \cup
                   (IF reqs[r].asked.boards # Nil
                    THEN reqs[r].asked.boards \X {CatOf(r)} \X {r} ELSE {})
    BY <1>1, <1>5, CommitRows
  <2>2. CASE reqs[r].asked.boards = Nil
    <3>1. reqs[r].asked.op = "update-category"
      BY <1>1, <1>5, <2>2, AskCategory
    <3>2. work[r].unlinks = {}
      BY <1>1, <1>2, <2>2, <3>1 DEF UnlinksOf, OfCategory
    <3> QED BY <2>1, <2>2, <3>1, <3>2 DEF OfPost
  <2>3. CASE reqs[r].asked.boards # Nil
    <3>1. work[r].unlinks = {l \in links : l[2] = CatOf(r)}
      BY <1>1, <1>2, <1>5, <2>3 DEF UnlinksOf, OfCategory
    <3>2. links' = {l \in links : l[2] # CatOf(r)}
                   \cup (reqs[r].asked.boards \X {CatOf(r)} \X {r})
      BY <2>1, <2>3, <3>1
    <3>3. Named_(r)
      BY <1>1, <1>5, <2>3 DEF Named_, Doing, Writing
    <3> QED BY <1>5, <2>3, <3>2, <3>3 DEF OfPost, LinkInv, BoardsThere
  <2> QED BY <2>2, <2>3
<1> QED BY <1>3, <1>4, <1>5 DEF Commits, OfCategory

LEMMA LinksCommit ==
  ASSUME Core, LinkInv, NEW r \in Requests, Commit(r), Commits(r)
  PROVE  LinksThere' /\ Unlinks'
<1>1. /\ Typed /\ AllLocal /\ OneGoes(r) /\ boards' = boards /\ ~InFlight(r)'
      /\ InFlight(r) /\ reqs[r].at = "commit"
      /\ \A q \in Requests \ {r} : work'[q] = work[q]
      /\ reqs[r].asked.op \in OfCategory \cup OfPost
  BY DEF Core, Commits, Typed
<1>2. PICK c : c = CatOf(r)
  OBVIOUS
<1>3. LinksThere'
  <2>1. CASE reqs[r].asked.op \in OfPost
    BY <1>1, <2>1, CommitLinks, CommitRows DEF LinkInv, LinksThere
  <2>2. CASE reqs[r].asked.op = "delete-category"
    <3>1. links' = {l \in links : l[2] # c}
      BY <1>2, <2>2, CommitLinks
    <3>2. DOMAIN categories' = DOMAIN categories \ {c}
      BY <1>1, <1>2, <2>2, CommitRows DEF CatOf
    <3> QED BY <1>1, <3>1, <3>2 DEF LinkInv, LinksThere
  <2>3. CASE reqs[r].asked.op \in {"create-category", "update-category"}
    <3>1. PICK row : row = work[r].row
      OBVIOUS
    <3>2. categories' = Put(categories, c, row)
      BY <1>1, <1>2, <2>3, <3>1, CommitRows
    <3>3. DOMAIN categories' = DOMAIN categories \cup {c}
      BY <3>2 DEF Put
    <3>4. CASE reqs[r].asked.boards = Nil
      BY <1>1, <2>3, <3>3, <3>4, CommitLinks DEF LinkInv, LinksThere
    <3>5. CASE reqs[r].asked.boards # Nil
      <4>1. PICK named : named = reqs[r].asked.boards
        OBVIOUS
      <4>2. links' = {l \in links : l[2] # c} \cup (named \X {c} \X {r})
            /\ named \subseteq DOMAIN boards
        BY <1>2, <2>3, <3>5, <4>1, CommitLinks
      <4>3. \A l \in named \X {c} \X {r} : l[1] \in named /\ l[2] = c
        OBVIOUS
      <4> QED BY <1>1, <3>3, <4>2, <4>3 DEF LinkInv, LinksThere
    <3> QED BY <3>4, <3>5
  <2> QED BY <1>1, <2>1, <2>2, <2>3 DEF OfCategory
<1>4. ASSUME NEW q \in Requests \ {r}, InFlight(q), reqs[q].at = "commit",
             reqs[q].asked.op \in OfCategory
      PROVE  {l \in links' : l[2] = CatOf(q)} = {l \in links : l[2] = CatOf(q)}
  <2>1. work[q].holds = CatOf(q) /\ reqs[q].asked \in Menu
    BY <1>1, <1>4, RequestKinds, RunningFields DEF AllLocal, Local, Writing, Typed
  <2>2. PICK d \in CategoryIds : d = CatOf(q)
    BY <1>4, <2>1, CatOfTyped
  <2>3. reqs[r].asked.op \in OfCategory => c # d
    <3> SUFFICES ASSUME reqs[r].asked.op \in OfCategory PROVE c # d
      OBVIOUS
    <3>1. work[r].holds = c
      BY <1>1, <1>2 DEF AllLocal, Local, Writing
    <3> QED BY <2>1, <2>2, <3>1, NilApart DEF LinkInv, OneHolds
  <2>4. CASE links' = links
    BY <2>4
  <2>5. CASE links' = {l \in links : l[2] # c} /\ c # d
    BY <2>2, <2>5
  <2>6. ASSUME NEW named, links' = {l \in links : l[2] # c} \cup (named \X {c} \X {r}),
               c # d
        PROVE  {l \in links' : l[2] = CatOf(q)} = {l \in links : l[2] = CatOf(q)}
    <3>1. \A l \in named \X {c} \X {r} : l[2] = c
      OBVIOUS
    <3> QED BY <2>2, <2>6, <3>1
  <2>7. CASE reqs[r].asked.op \in OfPost
    BY <2>4, <2>7, CommitLinks
  <2>8. CASE reqs[r].asked.op = "delete-category"
    BY <1>2, <2>3, <2>5, <2>8, CommitLinks DEF OfCategory
  <2>9. CASE reqs[r].asked.op \in {"create-category", "update-category"}
    <3>1. CASE reqs[r].asked.boards = Nil
      BY <2>4, <2>9, <3>1, CommitLinks
    <3>2. CASE reqs[r].asked.boards # Nil
      <4>1. PICK named : named = reqs[r].asked.boards
        OBVIOUS
      <4>2. links' = {l \in links : l[2] # c} \cup (named \X {c} \X {r})
        BY <1>2, <2>9, <3>2, <4>1, CommitLinks
      <4> QED BY <2>3, <2>6, <2>9, <4>2 DEF OfCategory
    <3> QED BY <3>1, <3>2
  <2> QED BY <1>1, <2>7, <2>8, <2>9 DEF OfCategory
<1>5. UnlinksOf(r)'
  BY <1>1 DEF UnlinksOf
<1>6. \A q \in Requests : UnlinksOf(q)'
  BY <1>1, <1>4, <1>5, UnlinksOthers DEF LinkInv
<1> QED BY <1>3, <1>6 DEF Unlinks, UnlinksOf

LEMMA LinkInit ==
  ASSUME Init
  PROVE  LinkInv
<1>1. /\ boards = InitBoards /\ categories = InitCategories /\ links = InitLinks
      /\ \A r \in Requests : work[r] = NoWork /\ reqs[r].at = "fresh" /\ ~InFlight(r)
  BY DEF Init, BoardsInit, Fresh, InFlight
<1>2. Known
  BY <1>1 DEF Known, Exists, Stored, Doing
<1>3. OneHolds
  BY <1>1, NoWorkFields DEF OneHolds
<1>4. BoardsThere /\ OnlyNamed /\ Unlinks
  BY <1>1 DEF BoardsThere, OnlyNamed, Unlinks, Named_, Doing
<1>5. LinksThere
  BY <1>1, CategoriesAssumption DEF LinksThere
<1> QED BY <1>2, <1>3, <1>4, <1>5 DEF LinkInv

LEMMA LinkNext ==
  ASSUME Core, LinkInv, [Next]_vars
  PROVE  LinkInv'
<1>1. CASE CalmStep
  BY <1>1, KnownCalm, OneHoldsCalm, NamedCalm, LinksCalm DEF CalmStep, LinkInv
<1>2. ASSUME NEW r \in Requests, Effect(r) PROVE LinkInv'
  BY <1>2, KnownEffect, OneHoldsEffect, NamedEffect, LinksEffect DEF LinkInv
<1>3. ASSUME NEW r \in Requests, Commit(r), Commits(r) PROVE LinkInv'
  BY <1>3, KnownCommit, OneHoldsCommit, NamedCommit, LinksCommit DEF LinkInv
<1>4. CASE UNCHANGED vars
  BY <1>4 DEF vars, bvars, LinkInv, Known, Exists, OneHolds, BoardsThere, OnlyNamed,
     LinksThere, Unlinks, Named_, Doing, Stored, InFlight, CatOf
<1> QED BY <1>1, <1>2, <1>3, <1>4, NextSteps

LEMMA LinksHold == Spec => []LinkInv
<1>1. Core /\ LinkInv /\ [Next]_vars => LinkInv'
  BY LinkNext
<1> QED BY <1>1, LinkInit, CoreHolds, PTL DEF Spec

-----------------------------------------------------------------------------
\* The third layer: the categories of posts.
TagInv == OneTag /\ TagsThere /\ TagOwner /\ Pending /\ PendingApart /\ Cleared

PendingOf(r) ==
  \A t \in work[r].ins :
    /\ t[1] = PostOf(r) /\ t[3] = r
    /\ reqs[r].at = "commit" /\ reqs[r].asked.op \in OfPost
    /\ reqs[r].asked.tags # Nil /\ t[2] \in reqs[r].asked.tags
    /\ t[2] \in DOMAIN categories
    /\ \A x \in tags \ work[r].dels : ~(x[1] = t[1] /\ x[2] = t[2])
ApartOf(r, q) ==
  \A t \in work[r].ins :
    /\ \A x \in work[q].ins : ~(x[1] = t[1] /\ x[2] = t[2])
    /\ Doing(q, "delete-category") => work[q].holds # t[2]
ClearedOf(r) ==
  Doing(r, "delete-category") /\ reqs[r].at = "commit" =>
    {t \in tags : t[2] = reqs[r].asked.cat} \subseteq work[r].dels

LEMMA TagField ==
  ASSUME Typed, NEW t, t \in tags \/ (\E r \in Requests : t \in work[r].ins \cup work[r].dels)
  PROVE  /\ t \in TagRow /\ t = <<t[1], t[2], t[3]>>
         /\ t[1] \in PostIds /\ t[2] \in CategoryIds /\ t[3] \in Requests \cup {Nil}
<1>1. t \in TagRow
  BY WorkFields DEF Typed
<1> QED BY <1>1 DEF TagRow

\* Only a request about to commit has put tags anywhere.
LEMMA NothingPut ==
  ASSUME Core, Pending, NEW q \in Requests,
         ~InFlight(q) \/ reqs[q].at # "commit" \/ reqs[q].asked.op \notin OfPost
  PROVE  work[q].ins = {}
BY NoWorkFields DEF Core, AllLocal, Local, Pending

LEMMA EffectPuts ==
  ASSUME Core, Pending, NEW r \in Requests, Effect(r)
  PROVE  work[r].ins = {} /\ (~Tags_(r) => work'[r].ins = {})
<1>1. reqs[r].at # "commit"
  BY DEF Effect, Inserted, Looked, Saved, Found, StripsTags, Relinked,
     Deleted, Checks, Validates, FoundTags, Untags, Tags_
<1>2. work[r].ins = {}
  BY <1>1, NothingPut
<1>3. ASSUME ~Tags_(r) PROVE work'[r].ins = {} \/ work'[r].ins = work[r].ins
  BY <1>3, NoWorkFields DEF Effect, Inserted, Looked, Saved, Found, StripsTags, Relinked,
     Deleted, Checks, Validates, FoundTags, Untags, SameWork, NoTags
<1> QED BY <1>2, <1>3

\* A step that commits nothing leaves what others have put.
LEMMA PendingOthers ==
  ASSUME Typed, Pending, NEW x, OneGoes(x), NEW q \in Requests \ {x},
         work'[q] = work[q], categories' = categories, tags' = tags
  PROVE  PendingOf(q)'
<1>1. PendingOf(q)
  BY DEF Pending, PendingOf
<1>2. /\ reqs'[q].asked = reqs[q].asked /\ reqs'[q].at = reqs[q].at
      /\ PostOf(q)' = PostOf(q)
  BY OthersSame
<1> QED BY <1>1, <1>2 DEF PendingOf

LEMMA ApartOthers ==
  ASSUME Typed, PendingApart, NEW x, OneGoes(x), NEW r \in Requests \ {x},
         NEW q \in Requests \ {x}, r # q, work'[q] = work[q], work'[r] = work[r]
  PROVE  ApartOf(r, q)'
<1>1. ApartOf(r, q)
  BY DEF PendingApart, ApartOf
<1>2. Doing(q, "delete-category")' <=> Doing(q, "delete-category")
  BY OthersSame
<1> QED BY <1>1, <1>2 DEF ApartOf

LEMMA OwnersStay ==
  ASSUME Typed, TagOwner, NEW x, OneGoes(x), NEW t \in tags
  PROVE  \/ t[3] = Nil /\ t \in InitTags
         \/ /\ t[3] \in Requests /\ reqs'[t[3]].at = "done"
            /\ reqs'[t[3]].asked.op \in OfPost /\ t[1] = PostOf(t[3])'
            /\ reqs'[t[3]].asked.tags # Nil /\ t[2] \in reqs'[t[3]].asked.tags
<1>1. CASE t[3] = Nil /\ t \in InitTags
  BY <1>1
<1>2. CASE /\ t[3] \in Requests /\ reqs[t[3]].at = "done"
           /\ reqs[t[3]].asked.op \in OfPost /\ t[1] = PostOf(t[3])
           /\ reqs[t[3]].asked.tags # Nil /\ t[2] \in reqs[t[3]].asked.tags
  <2>1. PICK o \in Requests : o = t[3]
    BY <1>2
  <2>2. o # x
    BY <1>2, <2>1, Persists
  <2>3. reqs'[o].at = "done" /\ reqs'[o].asked = reqs[o].asked /\ PostOf(o)' = PostOf(o)
    BY <1>2, <2>1, <2>2, OthersSame
  <2> QED BY <1>2, <2>1, <2>3 DEF PostOf
<1> QED BY <1>1, <1>2 DEF TagOwner

LEMMA TagsCalm ==
  ASSUME Core, TagInv, NEW x, Calm(x)
  PROVE  TagInv'
<1>1. /\ Typed /\ OneGoes(x) /\ categories' = categories /\ posts' = posts /\ tags' = tags
      /\ \A q \in Requests \ {x} : work'[q] = work[q]
  BY DEF Core, Calm
<1>2. x \in Requests => /\ work'[x].ins = {}
                        /\ work'[x].holds = Nil
                        /\ Doing(x, "delete-category")' => reqs'[x].at # "commit"
  BY CalmSame, NoWorkFields
<1>3. OneTag' /\ TagsThere'
  BY <1>1 DEF TagInv, OneTag, TagsThere
<1>4. TagOwner'
  BY <1>1, OwnersStay DEF TagInv, TagOwner
<1>5. \A q \in Requests : PendingOf(q)'
  BY <1>1, <1>2, PendingOthers DEF TagInv, PendingOf
<1>6. ASSUME NEW r \in Requests, NEW q \in Requests, r # q PROVE ApartOf(r, q)'
  <2>1. CASE r = x
    BY <1>2, <2>1 DEF ApartOf
  <2>2. CASE r # x /\ q = x
    <3>1. \A t \in work[r].ins : t[2] # Nil
      BY <1>1, TagField, NilApart
    <3> QED BY <1>1, <1>2, <2>2, <3>1 DEF ApartOf
  <2>3. CASE r # x /\ q # x
    BY <1>1, <1>6, <2>3, ApartOthers DEF TagInv
  <2> QED BY <2>1, <2>2, <2>3
<1>7. ASSUME NEW q \in Requests PROVE ClearedOf(q)'
  <2>1. CASE q = x
    BY <1>2, <2>1 DEF ClearedOf
  <2>2. CASE q # x
    BY <1>1, <2>2, OthersSame DEF TagInv, Cleared, ClearedOf
  <2> QED BY <2>1, <2>2
<1> QED
  BY <1>3, <1>4, <1>5, <1>6, <1>7
     DEF TagInv, Pending, PendingOf, PendingApart, ApartOf, Cleared, ClearedOf

\* Insertions wait for each other, and for deletions.
LEMMA GivenBy ==
  ASSUME Core, Pending, NEW r \in Requests, NEW q \in Requests \ {r},
         NEW t \in work[q].ins
  PROVE  <<t[1], t[2]>> \in Given(r)
<1>1. InFlight(q)
  BY NothingPut
<1>2. q \in Others(r)
  BY <1>1 DEF Others
<1> QED BY <1>2 DEF Given

LEMMA PostOfThere ==
  ASSUME Core, NEW q \in Requests, reqs[q].asked \in Menu, reqs[q].asked.op \in OfPost
  PROVE  /\ PostOf(q) \in DOMAIN posts \cup Requests
         /\ reqs[q].asked.op = "edit-post" => PostOf(q) \in DOMAIN posts
BY AskPost DEF Core, PostsThere, PostOf, OfPost

LEMMA TagsEffect ==
  ASSUME Core, TagInv, NEW r \in Requests, Effect(r)
  PROVE  TagInv'
<1>1. PICK at \in Onward : Acts(r, at)
  BY EffectActs
<1>2. /\ Typed /\ OneGoes(r) /\ categories' = categories /\ posts' = posts /\ tags' = tags
      /\ \A q \in Requests \ {r} : work'[q] = work[q]
      /\ reqs'[r].asked = reqs[r].asked /\ InFlight(r) /\ reqs[r].asked \in Menu
      /\ \A op : /\ Doing(r, op) <=> reqs[r].asked.op = op
                 /\ Doing(r, op)' <=> reqs[r].asked.op = op
      /\ PostOf(r)' = PostOf(r)
  BY <1>1, ActsSame DEF Core
<1>3. work[r].ins = {} /\ (~Tags_(r) => work'[r].ins = {})
  BY EffectPuts DEF TagInv
<1>4. OneTag' /\ TagsThere'
  BY <1>2 DEF TagInv, OneTag, TagsThere
<1>5. TagOwner'
  BY <1>2, OwnersStay DEF TagInv, TagOwner
<1>6. ASSUME Tags_(r), NEW t \in work'[r].ins
      PROVE  /\ t[1] = PostOf(r) /\ t[3] = r /\ t[2] \in reqs[r].asked.tags
             /\ t[2] \in DOMAIN categories
             /\ \A x \in tags \ work'[r].dels : ~(x[1] = t[1] /\ x[2] = t[2])
             /\ <<t[1], t[2]>> \notin Given(r) /\ ~Deleting(r, t[2])
  <2>1. PICK there : there =
          {x[2] : x \in {y \in tags \ work[r].dels : y[1] = PostOf(r)}}
    OBVIOUS
  <2>2. work'[r].ins = {<<PostOf(r), c, r>> : c \in reqs[r].asked.tags \ there}
    BY <1>6, <2>1 DEF Tags_
  <2>3. PICK c \in reqs[r].asked.tags \ there : t = <<PostOf(r), c, r>>
    BY <1>6, <2>2
  <2>4. /\ c \in DOMAIN categories /\ work'[r].dels = work[r].dels
        /\ <<PostOf(r), c>> \notin Given(r) /\ ~Deleting(r, c)
    BY <1>6 DEF Tags_
  <2>5. t[1] = PostOf(r) /\ t[2] = c /\ t[3] = r
    BY <2>3
  <2>6. \A x \in tags \ work'[r].dels : ~(x[1] = PostOf(r) /\ x[2] = c)
    BY <2>1, <2>3, <2>4
  <2> QED BY <2>3, <2>4, <2>5, <2>6
<1>7. PendingOf(r)'
  <2>1. CASE Tags_(r)
    <3>1. /\ reqs'[r].at = "commit" /\ reqs[r].asked.op \in OfPost
          /\ reqs[r].asked.tags # Nil
      <4>1. PastPost(r) /\ reqs[r].at # "commit" /\ reqs'[r].at = "commit"
            /\ reqs[r].asked.op \in OfPost
        BY <1>2, <2>1 DEF Tags_, Acts, PastPost
      <4> QED BY <1>2, <4>1 DEF Core, Checked
    <3> QED BY <1>2, <1>6, <2>1, <3>1 DEF PendingOf
  <2>2. CASE ~Tags_(r)
    BY <1>3, <2>2 DEF PendingOf
  <2> QED BY <2>1, <2>2
<1>8. \A q \in Requests : PendingOf(q)'
  BY <1>2, <1>7, PendingOthers DEF TagInv
<1>9. ASSUME NEW q \in Requests \ {r} PROVE ApartOf(r, q)'
  <2>1. CASE Tags_(r)
    <3> SUFFICES ASSUME NEW t \in work'[r].ins
                 PROVE  /\ \A x \in work[q].ins : ~(x[1] = t[1] /\ x[2] = t[2])
                        /\ Doing(q, "delete-category") => work[q].holds # t[2]
      BY <1>2, OthersSame DEF ApartOf
    <3>1. \A x \in work[q].ins : ~(x[1] = t[1] /\ x[2] = t[2])
      <4> SUFFICES ASSUME NEW x \in work[q].ins, x[1] = t[1], x[2] = t[2] PROVE FALSE
        OBVIOUS
      <4>1. <<x[1], x[2]>> \in Given(r)
        BY GivenBy DEF TagInv
      <4> QED BY <1>6, <2>1, <4>1
    <3>2. Doing(q, "delete-category") => work[q].holds # t[2]
      BY <1>6, <2>1 DEF Deleting, Doing, Others
    <3> QED BY <3>1, <3>2
  <2>2. CASE ~Tags_(r)
    BY <1>3, <2>2 DEF ApartOf
  <2> QED BY <2>1, <2>2
<1>10. ASSUME NEW q \in Requests \ {r} PROVE ApartOf(q, r)'
  <2> SUFFICES ASSUME NEW t \in work[q].ins
               PROVE  /\ \A x \in work'[r].ins : ~(x[1] = t[1] /\ x[2] = t[2])
                      /\ reqs[r].asked.op = "delete-category" => work'[r].holds # t[2]
    BY <1>2 DEF ApartOf
  <2>1. \A x \in work'[r].ins : ~(x[1] = t[1] /\ x[2] = t[2])
    BY <1>2, <1>9 DEF ApartOf
  <2>2. ASSUME reqs[r].asked.op = "delete-category", work'[r].holds = t[2] PROVE FALSE
    <3>1. Looked(r) \/ Deleted(r)
      BY <2>2 DEF Effect, Inserted, Saved, Found, StripsTags, Relinked, Checks,
         Validates, FoundTags, Untags, Tags_, OfPost
    <3>2. t[2] # Nil
      BY <1>2, TagField, NilApart
    <3>3. Deleted(r)
      BY <2>2, <3>1, <3>2, NoWorkFields DEF Looked
    <3>4. t[1] = PostOf(q) /\ reqs[q].asked.op \in OfPost /\ InFlight(q)
      BY NothingPut DEF TagInv, Pending
    <3>5. reqs[q].asked \in Menu
      BY <1>2, <3>4, RequestKinds, RunningFields DEF Typed
    <3>6. t[1] \in DOMAIN posts \cup Requests
      BY <3>4, <3>5, PostOfThere
    <3>7. <<t[1], t[2]>> \in Given(r)
      BY GivenBy DEF TagInv
    <3> QED BY <2>2, <3>3, <3>6, <3>7 DEF Deleted
  <2> QED BY <2>1, <2>2
<1>11. ASSUME NEW p \in Requests, NEW q \in Requests, p # q PROVE ApartOf(p, q)'
  <2>1. CASE p # r /\ q # r
    BY <1>2, <1>11, <2>1, ApartOthers DEF TagInv
  <2> QED BY <1>9, <1>10, <1>11, <2>1
<1>12. ASSUME NEW q \in Requests PROVE ClearedOf(q)'
  <2>1. CASE q = r
    <3> SUFFICES ASSUME reqs[r].asked.op = "delete-category", reqs'[r].at = "commit"
                 PROVE  {t \in tags : t[2] = reqs[r].asked.cat} \subseteq work'[r].dels
      BY <1>2, <2>1 DEF ClearedOf
    <3>1. Deleted(r)
      BY DEF Effect, Inserted, Looked, Saved, Found, StripsTags, Relinked, Checks,
         Validates, FoundTags, Untags, Tags_, OfPost, Acts
    <3> QED BY <3>1 DEF Deleted
  <2>2. CASE q # r
    BY <1>2, <2>2, OthersSame DEF TagInv, Cleared, ClearedOf
  <2> QED BY <2>1, <2>2
<1> QED
  BY <1>4, <1>5, <1>8, <1>11, <1>12
     DEF TagInv, Pending, PendingOf, PendingApart, ApartOf, Cleared, ClearedOf

\* What a request for a post puts, its post gets; what is deleted had been cleared.
LEMMA TagsCommit ==
  ASSUME Core, LinkInv, TagInv, NEW r \in Requests, Commit(r), Commits(r)
  PROVE  TagInv'
<1>1. /\ Typed /\ AllLocal /\ OneGoes(r) /\ InFlight(r) /\ ~InFlight(r)'
      /\ reqs[r].at = "commit" /\ reqs'[r].at = "done" /\ reqs'[r].asked = reqs[r].asked
      /\ reqs[r].asked \in Menu /\ reqs[r].asked.op \in OfCategory \cup OfPost
      /\ work'[r] = NoWork /\ \A q \in Requests \ {r} : work'[q] = work[q]
  BY DEF Core, Commits, Typed
<1>2. PICK dels, ins : dels = work[r].dels /\ ins = work[r].ins
  OBVIOUS
<1>3. tags' = (tags \ dels) \cup ins
  BY <1>1, <1>2, CommitRows
<1>4. PostOf(r)' = PostOf(r)
  BY <1>1 DEF PostOf
<1>5. \A t \in ins :
        /\ t[1] = PostOf(r) /\ t[3] = r /\ reqs[r].asked.op \in OfPost
        /\ reqs[r].asked.tags # Nil /\ t[2] \in reqs[r].asked.tags
        /\ t[2] \in DOMAIN categories
        /\ \A x \in tags \ dels : ~(x[1] = t[1] /\ x[2] = t[2])
  BY <1>2 DEF TagInv, Pending
<1>6. OneTag'
  <2>1. ASSUME NEW t \in ins, NEW x \in ins, x[1] = t[1], x[2] = t[2] PROVE x = t
    <3>1. t = <<t[1], t[2], t[3]>> /\ x = <<x[1], x[2], x[3]>>
      BY <1>1, <1>2, TagField
    <3> QED BY <1>5, <2>1, <3>1
  <2>2. \A t \in tags \ dels, x \in tags \ dels : x[1] = t[1] /\ x[2] = t[2] => x = t
    BY DEF TagInv, OneTag
  <2>3. \A t \in ins, x \in tags \ dels : ~(x[1] = t[1] /\ x[2] = t[2])
    BY <1>5
  <2>4. ASSUME NEW t \in tags', NEW x \in tags', x[1] = t[1], x[2] = t[2] PROVE x = t
    BY <1>3, <2>1, <2>2, <2>3, <2>4
  <2> QED BY <2>4 DEF OneTag
<1>7. TagsThere'
  <2>1. CASE reqs[r].asked.op \in OfPost
    <3>1. categories' = categories
      BY <1>1, <2>1, CommitRows
    <3>2. DOMAIN posts \subseteq DOMAIN posts' /\ PostOf(r) \in DOMAIN posts'
      <4>1. CASE reqs[r].asked.op = "create-post"
        <5>1. PICK row : row = [board |-> reqs[r].asked.board, author |-> reqs[r].asked.by]
          OBVIOUS
        <5>2. posts' = Put(posts, r, row)
          BY <1>1, <2>1, <4>1, <5>1, CommitRows
        <5> QED BY <4>1, <5>2 DEF Put, PostOf
      <4>2. CASE reqs[r].asked.op = "edit-post"
        BY <1>1, <2>1, <4>2, CommitRows, PostOfThere
      <4> QED BY <2>1, <4>1, <4>2 DEF OfPost
    <3>3. \A t \in tags : t[1] \in DOMAIN posts /\ t[2] \in DOMAIN categories
      BY DEF TagInv, TagsThere
    <3> QED BY <1>3, <1>5, <3>1, <3>2, <3>3 DEF TagsThere
  <2>2. CASE reqs[r].asked.op = "delete-category"
    <3>1. posts' = posts /\ ins = {}
      BY <1>1, <1>2, <2>2, CommitRows DEF OfCategory
    <3>2. DOMAIN categories' = DOMAIN categories \ {reqs[r].asked.cat}
      BY <1>1, <2>2, CommitRows
    <3>3. {t \in tags : t[2] = reqs[r].asked.cat} \subseteq dels
      BY <1>1, <1>2, <2>2 DEF TagInv, Cleared, Doing
    <3> QED BY <1>3, <3>1, <3>2, <3>3 DEF TagInv, TagsThere
  <2>3. CASE reqs[r].asked.op \in {"create-category", "update-category"}
    <3>1. posts' = posts /\ ins = {}
      BY <1>1, <1>2, <2>3, CommitRows DEF OfCategory
    <3>2. PICK row, c : row = work[r].row /\ c = CatOf(r)
      OBVIOUS
    <3>3. categories' = Put(categories, c, row)
      BY <1>1, <2>3, <3>2, CommitRows
    <3>4. DOMAIN categories \subseteq DOMAIN categories'
      BY <3>3 DEF Put
    <3> QED BY <1>3, <3>1, <3>4 DEF TagInv, TagsThere
  <2> QED BY <1>1, <2>1, <2>2, <2>3 DEF OfCategory
<1>8. TagOwner'
  <2>1. ASSUME NEW t \in ins
        PROVE  /\ t[3] \in Requests /\ reqs'[t[3]].at = "done"
               /\ reqs'[t[3]].asked.op \in OfPost /\ t[1] = PostOf(t[3])'
               /\ reqs'[t[3]].asked.tags # Nil /\ t[2] \in reqs'[t[3]].asked.tags
    <3>1. t[3] = r
      BY <1>5
    <3> QED BY <1>1, <1>4, <1>5, <3>1 DEF PostOf
  <2>2. ASSUME NEW t \in tags
        PROVE  \/ t[3] = Nil /\ t \in InitTags
               \/ /\ t[3] \in Requests /\ reqs'[t[3]].at = "done"
                  /\ reqs'[t[3]].asked.op \in OfPost /\ t[1] = PostOf(t[3])'
                  /\ reqs'[t[3]].asked.tags # Nil /\ t[2] \in reqs'[t[3]].asked.tags
    BY <1>1, OwnersStay DEF TagInv
  <2> QED BY <1>3, <2>1, <2>2 DEF TagOwner
<1>9. ASSUME NEW q \in Requests PROVE PendingOf(q)'
  <2>1. CASE q = r
    BY <1>1, <2>1, NoWorkFields DEF PendingOf
  <2>2. CASE q # r
    <3> SUFFICES ASSUME NEW t \in work[q].ins
                 PROVE  /\ t[2] \in DOMAIN categories'
                        /\ \A x \in tags' \ work[q].dels : ~(x[1] = t[1] /\ x[2] = t[2])
      BY <1>1, <2>2, OthersSame DEF TagInv, Pending, PendingOf
    <3>1. /\ t[2] \in DOMAIN categories
          /\ \A x \in tags \ work[q].dels : ~(x[1] = t[1] /\ x[2] = t[2])
      BY DEF TagInv, Pending
    <3>2. /\ \A x \in ins : ~(x[1] = t[1] /\ x[2] = t[2])
          /\ Doing(r, "delete-category") => work[r].holds # t[2]
      BY <1>2, <2>2 DEF TagInv, PendingApart
    <3>3. t[2] \in DOMAIN categories'
      <4>1. CASE reqs[r].asked.op = "delete-category"
        <5>1. work[r].holds = reqs[r].asked.cat
          BY <1>1, <4>1 DEF AllLocal, Local, Writing, OfCategory, CatOf
        <5>2. DOMAIN categories' = DOMAIN categories \ {reqs[r].asked.cat}
          BY <1>1, <4>1, CommitRows
        <5> QED BY <1>1, <3>1, <3>2, <4>1, <5>1, <5>2 DEF Doing
      <4>2. CASE reqs[r].asked.op \in {"create-category", "update-category"}
        <5>1. PICK row, c : row = work[r].row /\ c = CatOf(r)
          OBVIOUS
        <5>2. categories' = Put(categories, c, row)
          BY <1>1, <4>2, <5>1, CommitRows
        <5> QED BY <3>1, <5>2 DEF Put
      <4>3. CASE reqs[r].asked.op \in OfPost
        BY <1>1, <3>1, <4>3, CommitRows
      <4> QED BY <1>1, <4>1, <4>2, <4>3 DEF OfCategory
    <3> QED BY <1>3, <3>1, <3>2, <3>3
  <2> QED BY <2>1, <2>2
<1>10. ASSUME NEW p \in Requests, NEW q \in Requests, p # q PROVE ApartOf(p, q)'
  <2>1. CASE p # r /\ q # r
    BY <1>1, <1>10, <2>1, ApartOthers DEF TagInv
  <2>2. CASE p = r
    BY <1>1, <2>2, NoWorkFields DEF ApartOf
  <2>3. CASE p # r /\ q = r
    BY <1>1, <2>3, NoWorkFields DEF ApartOf, Doing
  <2> QED BY <2>1, <2>2, <2>3
<1>11. ASSUME NEW q \in Requests PROVE ClearedOf(q)'
  <2>1. CASE q = r
    BY <1>1, <2>1 DEF ClearedOf, Doing
  <2>2. CASE q # r
    <3> SUFFICES ASSUME Doing(q, "delete-category"), reqs[q].at = "commit"
                 PROVE  {t \in tags' : t[2] = reqs[q].asked.cat} \subseteq work[q].dels
      BY <1>1, <2>2, OthersSame DEF ClearedOf
    <3>1. {t \in tags : t[2] = reqs[q].asked.cat} \subseteq work[q].dels
      BY DEF TagInv, Cleared
    <3>2. work[q].holds = reqs[q].asked.cat
      BY DEF Core, AllLocal, Local, Writing, OfCategory, CatOf, Doing
    <3>3. \A t \in ins : t[2] # reqs[q].asked.cat
      BY <1>2, <2>2, <3>2 DEF TagInv, PendingApart
    <3> QED BY <1>3, <3>1, <3>3
  <2> QED BY <2>1, <2>2
<1> QED
  BY <1>6, <1>7, <1>8, <1>9, <1>10, <1>11
     DEF TagInv, Pending, PendingOf, PendingApart, ApartOf, Cleared, ClearedOf

LEMMA TagInit ==
  ASSUME Init
  PROVE  TagInv
<1>1. /\ posts = InitPosts /\ categories = InitCategories /\ tags = InitTags
      /\ \A r \in Requests : work[r] = NoWork /\ ~InFlight(r)
  BY DEF Init, BoardsInit, Fresh, InFlight
<1>2. InitTags \subseteq (DOMAIN InitPosts) \X (DOMAIN InitCategories) \X {Nil}
  BY CategoriesAssumption
<1>3. \A t \in InitTags : /\ t = <<t[1], t[2], t[3]>> /\ t[3] = Nil
                          /\ t[1] \in DOMAIN InitPosts /\ t[2] \in DOMAIN InitCategories
  BY <1>2
<1>4. OneTag
  <2> SUFFICES ASSUME NEW t \in InitTags, NEW x \in InitTags, x[1] = t[1], x[2] = t[2]
               PROVE  x = t
    BY <1>1 DEF OneTag
  <2>1. t = <<t[1], t[2], Nil>> /\ x = <<x[1], x[2], Nil>>
    BY <1>3
  <2> QED BY <2>1
<1>5. TagsThere /\ TagOwner
  BY <1>1, <1>3 DEF TagsThere, TagOwner
<1>6. Pending /\ PendingApart /\ Cleared
  BY <1>1, NoWorkFields DEF Pending, PendingApart, Cleared, Doing
<1> QED BY <1>4, <1>5, <1>6 DEF TagInv

LEMMA TagNext ==
  ASSUME Core, LinkInv, TagInv, [Next]_vars
  PROVE  TagInv'
<1>1. CASE CalmStep
  BY <1>1, TagsCalm DEF CalmStep
<1>2. ASSUME NEW r \in Requests, Effect(r) PROVE TagInv'
  BY <1>2, TagsEffect
<1>3. ASSUME NEW r \in Requests, Commit(r), Commits(r) PROVE TagInv'
  BY <1>3, TagsCommit
<1>4. CASE UNCHANGED vars
  <2>1. UNCHANGED <<boards, reqs, categories, links, posts, tags, work>>
    BY <1>4 DEF vars, bvars
  <2>2. OneTag' /\ TagsThere' /\ TagOwner'
    BY <2>1 DEF TagInv, OneTag, TagsThere, TagOwner, PostOf
  <2>3. Pending' /\ PendingApart' /\ Cleared'
    BY <2>1 DEF TagInv, Pending, PendingApart, Cleared, Doing, InFlight, PostOf
  <2> QED BY <2>2, <2>3 DEF TagInv
<1> QED BY <1>1, <1>2, <1>3, <1>4, NextSteps

LEMMA TagsHold == Spec => []TagInv
<1>1. Core /\ LinkInv /\ TagInv /\ [Next]_vars => TagInv'
  BY TagNext
<1> QED BY <1>1, TagInit, CoreHolds, LinksHold, PTL DEF Spec

\* THEOREM: the tables keep their types and their keys, no link or tag outlives
\* what it refers to, and a transaction that ended left no work.
THEOREM TypeCorrect == Spec => []TypeOK
<1>1. Core /\ LinkInv /\ TagInv => TypeOK
  <2> SUFFICES ASSUME Core, LinkInv, TagInv PROVE TypeOK
    OBVIOUS
  <2>1. \A r \in Requests : ~InFlight(r) => work[r] = NoWork
    BY DEF Core, AllLocal, Local
  <2> QED BY <2>1 DEF Core, Typed, LinkInv, LinksThere, TagInv, TagsThere, OneTag, TypeOK
<1> QED BY <1>1, CoreHolds, LinksHold, TagsHold, PTL

\* Nothing happens.
LEMMA NobodyGoes ==
  ASSUME Core, UNCHANGED vars
  PROVE  /\ OneGoes(Nil) /\ BoardsGrow
         /\ UNCHANGED <<boards, categories, links, posts, tags, work>>
<1>1. UNCHANGED <<boards, reqs, categories, links, posts, tags, work>>
  BY DEF vars, bvars
<1>2. OneGoes(Nil)
  BY <1>1, NilApart DEF OneGoes, Alike, Core, Typed
<1> QED BY <1>1, <1>2, BoardsUnchanged DEF Core, BoardInv

-----------------------------------------------------------------------------
\* The fourth layer: the deletions a category that is gone, or came back, has seen.
GoneInv ==
  /\ Gone
  /\ \A c \in DOMAIN categories : OfOneRequest(c) /\ BackByOverlap(c)

\* Deletions and updates are never taken back, and a step that commits none adds none.
LEMMA DeletionsStay ==
  ASSUME Typed, NEW x, OneGoes(x), NEW c
  PROVE  /\ Deletions(c) \subseteq Deletions(c)' /\ Updates(c) \subseteq Updates(c)'
         /\ \A q \in Updates(c) : reqs'[q].asked = reqs[q].asked
         /\ \A d \in Deletions(c)' \ Deletions(c) :
              d = x /\ Doing(d, "delete-category") /\ reqs[d].asked.cat = c
              /\ Stored(d, "delete-category")'
<1>1. ASSUME NEW q \in Requests, NEW op, Stored(q, op)
      PROVE  Stored(q, op)' /\ reqs'[q].asked = reqs[q].asked
  BY <1>1, StoredStays
<1>2. ASSUME NEW d \in Requests, Stored(d, "delete-category")',
             reqs'[d].asked.cat = c, ~Stored(d, "delete-category")
      PROVE  d = x /\ Doing(d, "delete-category") /\ reqs[d].asked.cat = c
  BY <1>2, StoredStays
<1>3. ASSUME NEW d \in Requests, Stored(d, "delete-category")',
             reqs'[d].asked.cat = c, Stored(d, "delete-category")
      PROVE  reqs[d].asked.cat = c
  BY <1>1, <1>3
<1>4. Deletions(c) \subseteq Deletions(c)'
  BY <1>1 DEF Deletions
<1>5. Updates(c) \subseteq Updates(c)'
  BY <1>1 DEF Updates
<1>6. \A q \in Updates(c) : reqs'[q].asked = reqs[q].asked
  BY <1>1 DEF Updates
<1>7. \A d \in Deletions(c)' \ Deletions(c) :
        d = x /\ Doing(d, "delete-category") /\ reqs[d].asked.cat = c
        /\ Stored(d, "delete-category")'
  BY <1>2, <1>3 DEF Deletions
<1> QED BY <1>4, <1>5, <1>6, <1>7

LEMMA OfOneStays ==
  ASSUME Typed, NEW x, OneGoes(x), NEW c, Exists(c), OfOneRequest(c),
         BoardsIn(links', c) = BoardsIn(links, c), Deletions(c)' = Deletions(c)
  PROVE  OfOneRequest(c)'
<1>1. Updates(c) \subseteq Updates(c)'
      /\ \A q \in Updates(c) : reqs'[q].asked = reqs[q].asked
  BY DeletionsStay
<1>2. PICK of : of = BoardsIn(links, c)
  OBVIOUS
<1>3. BoardsIn(links, c)' = of
  BY <1>2
<1>4. CASE \E q \in Updates(c) : of = reqs[q].asked.boards
  <2>1. \E q \in Updates(c)' : of = reqs'[q].asked.boards
    BY <1>1, <1>4
  <2> QED BY <1>3, <2>1 DEF OfOneRequest
<1>5. CASE IF Deletions(c) # {} THEN of = {}
           ELSE IF c \in Requests THEN of = reqs[c].asked.boards
           ELSE of = BoardsIn(InitLinks, c)
  <2>1. c \in Requests => reqs'[c].asked = reqs[c].asked
    <3>1. c \in Requests => Stored(c, "create-category")
      BY CategoriesAssumption DEF Exists
    <3> QED BY <3>1, StoredStays
  <2> QED BY <1>3, <1>5, <2>1 DEF OfOneRequest
<1> QED BY <1>2, <1>4, <1>5 DEF OfOneRequest

LEMMA BackStays ==
  ASSUME Typed, NEW x, OneGoes(x), NEW c, BackByOverlap(c), Deletions(c)' = Deletions(c)
  PROVE  BackByOverlap(c)'
<1> SUFFICES ASSUME Deletions(c) # {}
             PROVE  \E q \in Updates(c)', d \in Deletions(c)' : Met(q, d)'
  BY DEF BackByOverlap
<1>1. PICK q \in Updates(c), d \in Deletions(c) : Met(q, d)
  BY DEF BackByOverlap
<1>2. q \in Updates(c)' /\ d \in Deletions(c)'
  BY DeletionsStay
<1>3. /\ q \in Requests /\ d \in Requests /\ Kept(q) /\ Kept(d)
      /\ Kept(q)' /\ Kept(d)'
  BY <1>1, <1>2 DEF Updates, Deletions, Stored, Kept
<1>4. Met(q, d)'
  BY <1>1, <1>3, MetStays
<1> QED BY <1>2, <1>4

\* What Gone says of the updates in flight.
GoneOf(r) ==
  /\ Doing(r, "update-category") /\ reqs[r].at # "category"
  /\ reqs[r].asked.cat \notin DOMAIN categories
  => \E d \in Deletions(reqs[r].asked.cat) : Met(r, d)

LEMMA GoneOthers ==
  ASSUME Typed, NEW x, OneGoes(x), NEW q \in Requests, q # x,
         GoneOf(q),
         reqs[q].asked.cat \in DOMAIN categories => reqs[q].asked.cat \in DOMAIN categories'
  PROVE  GoneOf(q)'
<1>1. PICK c : c = reqs[q].asked.cat
  OBVIOUS
<1>2. /\ reqs'[q].asked.cat = c /\ reqs'[q].at = reqs[q].at
      /\ Doing(q, "update-category")' <=> Doing(q, "update-category")
      /\ InFlight(q)' <=> InFlight(q)
  BY <1>1, OthersSame
<1> SUFFICES ASSUME Doing(q, "update-category")', reqs'[q].at # "category",
                    c \notin DOMAIN categories'
             PROVE  \E d \in Deletions(c)' : Met(q, d)'
  BY <1>2 DEF GoneOf, Deletions
<1>3. PICK d \in Deletions(c) : Met(q, d)
  BY <1>1, <1>2 DEF GoneOf
<1>4. d \in Deletions(c)'
  BY DeletionsStay
<1>5. /\ d \in Requests /\ Kept(q) /\ Kept(d) /\ Kept(q)' /\ Kept(d)'
  BY <1>2, <1>3, <1>4 DEF Deletions, Stored, Kept, Doing
<1>6. Met(q, d)'
  BY <1>3, <1>5, MetStays
<1> QED BY <1>4, <1>6

\* A step that commits nothing.
LEMMA GoneQuiet ==
  ASSUME Core, LinkInv, GoneInv, NEW x, OneGoes(x), categories' = categories,
         links' = links, x \in Requests => GoneOf(x)',
         x \in Requests => \A op \in OfCategory : ~Stored(x, op)'
  PROVE  GoneInv'
<1>1. Typed
  BY DEF Core
<1>2. ASSUME NEW c PROVE Deletions(c)' = Deletions(c)
  <2>1. Deletions(c)' \ Deletions(c) = {}
    BY <1>1, DeletionsStay DEF Deletions, OfCategory
  <2> QED BY <1>1, <2>1, DeletionsStay
<1>3. ASSUME NEW c \in CategoryIds, Exists(c)', c \notin DOMAIN categories
      PROVE  Deletions(c)' # {}
  <2>1. Exists(c)
    BY <1>1, <1>3, StoredStays DEF Exists, OfCategory
  <2> QED BY <1>2, <1>3, <2>1 DEF GoneInv, Gone
<1>4. \A q \in Requests : GoneOf(q)
  BY DEF GoneInv, Gone, GoneOf
<1>5. \A q \in Requests : GoneOf(q)'
  BY <1>1, <1>4, GoneOthers
<1>6. ASSUME NEW c \in DOMAIN categories
      PROVE  OfOneRequest(c)' /\ BackByOverlap(c)'
  BY <1>1, <1>2, OfOneStays, BackStays DEF GoneInv, LinkInv, Known
<1>7. Gone'
  BY <1>3, <1>5 DEF Gone, GoneOf
<1> QED BY <1>6, <1>7 DEF GoneInv

LEMMA GoneCalm ==
  ASSUME Core, LinkInv, GoneInv, NEW x, Calm(x)
  PROVE  GoneInv'
<1>1. OneGoes(x) /\ categories' = categories /\ links' = links
  BY DEF Calm
<1>2. x \in Requests => GoneOf(x)'
  BY CalmSame DEF GoneOf
<1>3. x \in Requests => \A op \in OfCategory : ~Stored(x, op)'
  BY CalmSame
<1> QED BY <1>1, <1>2, <1>3, GoneQuiet

LEMMA GoneEffect ==
  ASSUME Core, LinkInv, GoneInv, NEW r \in Requests, Effect(r)
  PROVE  GoneInv'
<1>1. PICK at \in Onward : Acts(r, at)
  BY EffectActs
<1>2. /\ Typed /\ OneGoes(r) /\ categories' = categories /\ links' = links
      /\ reqs'[r].asked = reqs[r].asked /\ InFlight(r)
      /\ Doing(r, "update-category") <=> reqs[r].asked.op = "update-category"
      /\ \A op \in OfCategory : ~Stored(r, op)'
  BY <1>1, ActsSame DEF Core, Stored, Onward
<1>3. PICK c : c = reqs[r].asked.cat
  OBVIOUS
<1>4. ASSUME reqs[r].asked.op = "update-category", c \notin DOMAIN categories
      PROVE  \E d \in Deletions(c)' : Met(r, d)'
  <2>1. reqs[r].at # "category"
    BY <1>3, <1>4 DEF Effect, Inserted, Looked, Saved, Found, StripsTags, Relinked,
       Deleted, Checks, Validates, FoundTags, Untags, Tags_, OfPost
  <2>2. PICK d \in Deletions(c) : Met(r, d)
    BY <1>2, <1>3, <1>4, <2>1 DEF GoneInv, Gone
  <2>3. d \in Deletions(c)'
    BY <1>2, DeletionsStay
  <2>4. d \in Requests /\ Kept(r) /\ Kept(d) /\ Kept(r)' /\ Kept(d)'
    BY <1>1, <2>2, <2>3, ActsSame DEF Deletions, Stored, Kept
  <2> QED BY <1>2, <2>2, <2>3, <2>4, MetStays
<1>5. GoneOf(r)'
  <2>1. reqs'[r].asked.cat = c /\ (Doing(r, "update-category")' =>
                                     reqs[r].asked.op = "update-category")
    BY <1>2, <1>3 DEF Doing
  <2> QED BY <1>2, <1>4, <2>1 DEF GoneOf, Deletions
<1> QED BY <1>2, <1>5, GoneQuiet

\* The boards of the other categories stay as they are.
LEMMA OtherBoards ==
  ASSUME NEW c, NEW e, e # c, NEW named, NEW r,
         \/ links' = {l \in links : l[2] # c}
         \/ links' = {l \in links : l[2] # c} \cup (named \X {c} \X {r})
  PROVE  BoardsIn(links', e) = BoardsIn(links, e)
<1>1. \A l \in named \X {c} \X {r} : l[2] # e
  OBVIOUS
<1>2. {x \in links' : x[2] = e} = {x \in links : x[2] = e}
  BY <1>1
<1> QED BY <1>2 DEF BoardsIn

LEMMA ItsBoards ==
  ASSUME NEW c, NEW named, NEW r,
         links' = {l \in links : l[2] # c} \cup (named \X {c} \X {r})
  PROVE  BoardsIn(links', c) = named
<1>1. \A l \in named \X {c} \X {r} : l[1] \in named /\ l[2] = c
  OBVIOUS
<1>2. {x \in links' : x[2] = c} = named \X {c} \X {r}
  BY <1>1
<1>3. ASSUME NEW b \in named PROVE b \in {l[1] : l \in named \X {c} \X {r}}
  <2>1. <<b, c, r>> \in named \X {c} \X {r} /\ <<b, c, r>>[1] = b
    OBVIOUS
  <2> QED BY <2>1
<1>4. {l[1] : l \in named \X {c} \X {r}} = named
  BY <1>1, <1>3
<1> QED BY <1>2, <1>4 DEF BoardsIn

LEMMA GoneDelete ==
  ASSUME Core, LinkInv, GoneInv, NEW r \in Requests, Commit(r), Commits(r),
         reqs[r].asked.op = "delete-category"
  PROVE  GoneInv'
<1>1. /\ Typed /\ AllMet /\ OneGoes(r) /\ InFlight(r) /\ ~InFlight(r)'
      /\ reqs'[r].at = "done" /\ reqs'[r].asked = reqs[r].asked
  BY DEF Core, Commits
<1>2. PICK c : c = reqs[r].asked.cat
  OBVIOUS
<1>3. DOMAIN categories' = DOMAIN categories \ {c}
  BY <1>1, <1>2, CommitRows DEF Core
<1>4. links' = {l \in links : l[2] # c}
  BY <1>2, CommitLinks DEF CatOf
<1>5. r \in Deletions(c)'
  BY <1>1, <1>2 DEF Deletions, Stored
<1>6. ASSUME NEW e, e # c PROVE Deletions(e)' = Deletions(e)
  BY <1>1, <1>2, <1>6, DeletionsStay
<1>7. ASSUME NEW e \in CategoryIds, Exists(e)', e \notin DOMAIN categories'
      PROVE  Deletions(e)' # {}
  <2>1. CASE e = c
    BY <1>5, <2>1
  <2>2. CASE e # c
    <3>1. Exists(e)
      BY <1>1, <1>7, StoredStays DEF Exists, Doing
    <3> QED BY <1>3, <1>6, <1>7, <2>2, <3>1 DEF GoneInv, Gone
  <2> QED BY <2>1, <2>2
<1>8. ASSUME NEW q \in Requests PROVE GoneOf(q)'
  <2>1. CASE q = r
    BY <1>1, <2>1 DEF GoneOf, Doing
  <2>2. CASE q # r /\ reqs[q].asked.cat # c
    BY <1>1, <1>3, <2>2, GoneOthers DEF GoneInv, Gone, GoneOf
  <2>3. CASE q # r /\ reqs[q].asked.cat = c
    <3>1. /\ reqs'[q].asked.cat = c /\ (InFlight(q)' <=> InFlight(q))
      BY <1>1, <2>3, OthersSame
    <3>2. ASSUME InFlight(q)' PROVE Met(q, r)'
      <4>1. Met(q, r)
        BY <1>1, <2>3, <3>1, <3>2 DEF AllMet, Met
      <4>2. Kept(q) /\ Kept(r) /\ Kept(q)' /\ Kept(r)'
        BY <1>1, <3>1, <3>2 DEF Kept
      <4> QED BY <1>1, <4>1, <4>2, MetStays
    <3> QED BY <1>5, <3>1, <3>2 DEF GoneOf, Doing, Deletions
  <2> QED BY <2>1, <2>2, <2>3
<1>9. ASSUME NEW e \in DOMAIN categories' PROVE OfOneRequest(e)' /\ BackByOverlap(e)'
  <2>1. e # c /\ e \in DOMAIN categories
    BY <1>3
  <2>2. BoardsIn(links', e) = BoardsIn(links, e)
    BY <1>4, <2>1, OtherBoards
  <2>3. OfOneRequest(e)'
    BY <1>1, <1>6, <2>1, <2>2, OfOneStays DEF GoneInv, LinkInv, Known
  <2>4. BackByOverlap(e)'
    BY <1>1, <1>6, <2>1, BackStays DEF GoneInv
  <2> QED BY <2>3, <2>4
<1>10. Gone'
  BY <1>7, <1>8 DEF Gone, GoneOf
<1> QED BY <1>9, <1>10 DEF GoneInv

LEMMA GoneWritten ==
  ASSUME Core, LinkInv, GoneInv, NEW r \in Requests, Commit(r), Commits(r),
         reqs[r].asked.op \in {"create-category", "update-category"}
  PROVE  GoneInv'
<1>1. /\ Typed /\ OneGoes(r) /\ InFlight(r) /\ ~InFlight(r)' /\ reqs[r].at = "commit"
      /\ reqs'[r].at = "done" /\ reqs'[r].asked = reqs[r].asked
  BY DEF Core, Commits
<1>2. PICK c : c = CatOf(r)
  OBVIOUS
<1>3. /\ reqs[r].asked.op = "create-category" => c = r
      /\ reqs[r].asked.op = "update-category" =>
           c = reqs[r].asked.cat /\ r \in Updates(c)'
  BY <1>1, <1>2 DEF CatOf, Updates, Stored
<1>4. DOMAIN categories' = DOMAIN categories \cup {c}
  <2>1. PICK row : row = work[r].row
    OBVIOUS
  <2>2. categories' = Put(categories, c, row)
    BY <1>1, <1>2, <2>1, CommitRows DEF Core
  <2> QED BY <2>2 DEF Put
<1>5. PICK named : named = reqs[r].asked.boards
  OBVIOUS
<1>6. /\ named = Nil => links' = links /\ reqs[r].asked.op = "update-category"
      /\ named # Nil => links' = {l \in links : l[2] # c} \cup (named \X {c} \X {r})
  BY <1>2, <1>5, CommitLinks
<1>7. ASSUME NEW e PROVE Deletions(e)' = Deletions(e)
  <2>1. ~Doing(r, "delete-category")
    BY DEF Doing
  <2>2. Deletions(e)' \ Deletions(e) = {}
    BY <1>1, <2>1, DeletionsStay
  <2> QED BY <1>1, <2>2, DeletionsStay
<1>8. ASSUME NEW e \in CategoryIds, Exists(e)', e \notin DOMAIN categories'
      PROVE  Deletions(e)' # {}
  <2>1. e # c /\ e \notin DOMAIN categories
    BY <1>4, <1>8
  <2>2. Exists(e)
    BY <1>1, <1>3, <1>8, <2>1, StoredStays DEF Exists, Doing
  <2> QED BY <1>7, <2>1, <2>2 DEF GoneInv, Gone
<1>9. ASSUME NEW q \in Requests PROVE GoneOf(q)'
  <2>1. CASE q = r
    BY <1>1, <2>1 DEF GoneOf, Doing
  <2>2. CASE q # r
    BY <1>1, <1>4, <2>2, GoneOthers DEF GoneInv, Gone, GoneOf
  <2> QED BY <2>1, <2>2
<1>10. ASSUME NEW e \in DOMAIN categories, e # c
       PROVE  OfOneRequest(e)' /\ BackByOverlap(e)'
  <2>1. BoardsIn(links', e) = BoardsIn(links, e)
    BY <1>6, <1>10, OtherBoards
  <2>2. OfOneRequest(e)'
    BY <1>1, <1>7, <1>10, <2>1, OfOneStays DEF GoneInv, LinkInv, Known
  <2>3. BackByOverlap(e)'
    BY <1>1, <1>7, BackStays DEF GoneInv
  <2> QED BY <2>2, <2>3
<1>11. c \in CategoryIds
  BY CatOfTyped, <1>2 DEF Commits, OfCategory
<1>12. reqs[r].asked.op = "create-category" => Deletions(c) = {}
  <2> SUFFICES ASSUME reqs[r].asked.op = "create-category" PROVE Deletions(c) = {}
    OBVIOUS
  <2>1. ~Exists(c)
    BY <1>1, <1>3, CategoriesAssumption DEF Exists, Stored, InFlight, Ended
  <2> QED BY <2>1 DEF LinkInv, Known, Deletions
<1>13. OfOneRequest(c)'
  <2>1. CASE named # Nil
    <3>1. BoardsIn(links, c)' = named
      BY <1>6, <2>1, ItsBoards
    <3>2. reqs'[r].asked.boards = named
      BY <1>1, <1>5
    <3>3. CASE reqs[r].asked.op = "update-category"
      BY <1>3, <3>1, <3>2, <3>3 DEF OfOneRequest
    <3>4. CASE reqs[r].asked.op = "create-category"
      <4>1. c = r /\ Deletions(c)' = {}
        BY <1>3, <1>7, <1>12, <3>4
      <4> QED BY <3>1, <3>2, <4>1 DEF OfOneRequest
    <3> QED BY <3>3, <3>4
  <2>2. CASE named = Nil /\ c \in DOMAIN categories
    <3>1. links' = links
      BY <1>6, <2>2
    <3>2. BoardsIn(links', c) = BoardsIn(links, c)
      BY <3>1
    <3> QED BY <1>1, <1>7, <2>2, <3>2, OfOneStays DEF GoneInv, LinkInv, Known
  <2>3. CASE named = Nil /\ c \notin DOMAIN categories
    <3>1. Exists(c) /\ links' = links
      BY <1>1, <1>3, <1>6, <2>3 DEF LinkInv, Known, Doing
    <3>2. Deletions(c)' # {}
      BY <1>7, <1>11, <2>3, <3>1 DEF GoneInv, Gone
    <3>3. {x \in links : x[2] = c} = {}
      BY <2>3 DEF LinkInv, LinksThere
    <3>4. BoardsIn(links, c)' = {}
      BY <3>1, <3>3 DEF BoardsIn
    <3> QED BY <3>2, <3>4 DEF OfOneRequest
  <2> QED BY <2>1, <2>2, <2>3
<1>14. BackByOverlap(c)'
  <2>1. CASE reqs[r].asked.op = "create-category"
    BY <1>7, <1>12, <2>1 DEF BackByOverlap
  <2>2. CASE c \in DOMAIN categories
    BY <1>1, <1>7, <2>2, BackStays DEF GoneInv
  <2>3. CASE reqs[r].asked.op = "update-category" /\ c \notin DOMAIN categories
    <3>1. PICK d \in Deletions(c) : Met(r, d)
      BY <1>1, <1>3, <2>3 DEF GoneInv, Gone, Doing
    <3>2. d \in Deletions(c)'
      BY <1>7
    <3>3. d \in Requests /\ Kept(r) /\ Kept(d) /\ Kept(r)' /\ Kept(d)'
      BY <1>1, <3>1, <3>2 DEF Deletions, Stored, Kept
    <3>4. Met(r, d)'
      BY <1>1, <3>1, <3>3, MetStays
    <3> QED BY <1>3, <2>3, <3>2, <3>4 DEF BackByOverlap
  <2> QED BY <2>1, <2>2, <2>3
<1>15. Gone'
  BY <1>8, <1>9 DEF Gone, GoneOf
<1>16. \A e \in DOMAIN categories' : OfOneRequest(e)' /\ BackByOverlap(e)'
  BY <1>4, <1>10, <1>13, <1>14
<1> QED BY <1>15, <1>16 DEF GoneInv

LEMMA GonePost ==
  ASSUME Core, LinkInv, GoneInv, NEW r \in Requests, Commit(r), Commits(r),
         reqs[r].asked.op \in OfPost
  PROVE  GoneInv'
<1>1. /\ Typed /\ AllLocal /\ OneGoes(r) /\ ~InFlight(r)'
      /\ reqs'[r].asked = reqs[r].asked
  BY DEF Core, Commits
<1>2. categories' = categories /\ links' = links
  BY <1>1, CommitRows
<1>3. GoneOf(r)'
  BY <1>1 DEF GoneOf, Doing
<1>4. \A op \in OfCategory : ~Stored(r, op)'
  BY <1>1 DEF Stored, OfCategory, OfPost
<1> QED BY <1>1, <1>2, <1>3, <1>4, GoneQuiet

LEMMA GoneInit ==
  ASSUME Init
  PROVE  GoneInv
<1>1. /\ categories = InitCategories /\ links = InitLinks
      /\ \A r \in Requests : reqs[r].at = "fresh" /\ ~InFlight(r)
  BY DEF Init, BoardsInit, Fresh, InFlight
<1>2. \A c : Deletions(c) = {}
  BY <1>1 DEF Deletions, Stored
<1>3. Gone
  BY <1>1 DEF Gone, Exists, Stored, Doing
<1>4. ASSUME NEW c \in DOMAIN categories PROVE OfOneRequest(c) /\ BackByOverlap(c)
  <2>1. c \notin Requests
    BY <1>1, CategoriesAssumption
  <2> QED BY <1>1, <1>2, <2>1 DEF OfOneRequest, BackByOverlap
<1> QED BY <1>3, <1>4 DEF GoneInv

LEMMA GoneNext ==
  ASSUME Core, LinkInv, GoneInv, [Next]_vars
  PROVE  GoneInv'
<1>1. CASE CalmStep
  BY <1>1, GoneCalm DEF CalmStep
<1>2. ASSUME NEW r \in Requests, Effect(r) PROVE GoneInv'
  BY <1>2, GoneEffect
<1>3. ASSUME NEW r \in Requests, Commit(r), Commits(r) PROVE GoneInv'
  BY <1>3, GoneDelete, GoneWritten, GonePost DEF Commits, OfCategory
<1>4. CASE UNCHANGED vars
  BY <1>4, NobodyGoes, NilApart, GoneQuiet
<1> QED BY <1>1, <1>2, <1>3, <1>4, NextSteps

\* A category is in the boards of one request, and back only by an overlap
\* (UpdateCategory, ReplaceCategoryBoards, DeleteCategory).
THEOREM BoardsOfOneRequest == Spec => []OneRequestsBoards
<1>1. Core /\ LinkInv /\ GoneInv /\ [Next]_vars => GoneInv'
  BY GoneNext
<1>2. GoneInv => OneRequestsBoards
  BY DEF GoneInv, OneRequestsBoards
<1> QED BY <1>1, <1>2, GoneInit, CoreHolds, LinksHold, PTL DEF Spec

-----------------------------------------------------------------------------
\* The fifth layer: the slug of a category, of those that are stored and of those
\* that an open transaction puts there.
SlugOf(c) ==
  IF c \in DOMAIN InitCategories THEN InitCategories[c].slug ELSE reqs[c].asked.slug
Puts(r, c) == work[r].holds = c /\ work[r].row # Nil
Present(c) == c \in DOMAIN categories \/ \E r \in Requests : Puts(r, c)

SlugHeld == \A c \in DOMAIN categories : categories[c].slug = SlugOf(c)
RowSlug(r) == work[r].row # Nil => work[r].row.slug = SlugOf(work[r].holds)
GotSlug(r) ==
  Doing(r, "update-category") /\ reqs[r].at = "save" =>
    reqs[r].got.slug = SlugOf(reqs[r].asked.cat)
SlugsApart ==
  \A c, d \in CategoryIds :
    c # d /\ Present(c) /\ Present(d) => SlugOf(c) # SlugOf(d)

SlugInv ==
  /\ SlugHeld /\ SlugsApart
  /\ \A r \in Requests : RowSlug(r) /\ GotSlug(r)

LEMMA SlugSame ==
  ASSUME NEW x, OneGoes(x), NEW c \in CategoryIds,
         c # x \/ reqs'[x].asked = reqs[x].asked
  PROVE  SlugOf(c)' = SlugOf(c)
<1>1. CASE c \in DOMAIN InitCategories
  BY <1>1 DEF SlugOf
<1>2. CASE c \in Requests
  <2>1. reqs'[c].asked = reqs[c].asked
    BY <1>2 DEF OneGoes, Alike
  <2> QED BY <2>1 DEF SlugOf
<1> QED BY <1>1, <1>2 DEF CategoryIds

\* Who puts a category there, and which there may be.
LEMMA PutBy ==
  ASSUME Core, LinkInv, NEW q \in Requests, work[q].row # Nil
  PROVE  /\ InFlight(q) /\ work[q].holds \in CategoryIds
         /\ \/ work[q].holds = q
            \/ Exists(work[q].holds)
<1>1. /\ InFlight(q) /\ reqs[q].at \in Writing
  BY NoWorkFields DEF Core, AllLocal, Local
<1>2. StepOK(reqs[q].asked.op, reqs[q].at) /\ reqs[q].asked.op \notin OfPost
  BY <1>1 DEF Core, AllLocal, Local
<1>3. reqs[q].asked.op \in OfCategory
  BY <1>1, <1>2 DEF StepOK, Writing, OfCategory, OfPost
<1>4. work[q].holds = CatOf(q)
  BY <1>1, <1>3 DEF Core, AllLocal, Local
<1>5. reqs[q].asked \in Menu
  BY <1>1, RequestKinds, RunningFields DEF Core, Typed
<1>6. work[q].holds \in CategoryIds
  BY <1>3, <1>4, <1>5, CatOfTyped
<1>7. CASE reqs[q].asked.op = "create-category"
  BY <1>1, <1>4, <1>6, <1>7 DEF CatOf
<1>8. CASE reqs[q].asked.op # "create-category"
  <2>1. work[q].holds = reqs[q].asked.cat /\ reqs[q].at # "category"
    BY <1>1, <1>4, <1>8 DEF CatOf, Writing
  <2>2. Doing(q, "update-category") \/ Doing(q, "delete-category")
    BY <1>1, <1>3, <1>8 DEF Doing, OfCategory
  <2> QED BY <1>1, <1>6, <2>1, <2>2 DEF LinkInv, Known
<1> QED BY <1>7, <1>8

\* A step that puts no category there that was not.
LEMMA SlugStays ==
  ASSUME Core, LinkInv, SlugInv, NEW x, OneGoes(x),
         \A q \in Requests \ {x} : work'[q] = work[q],
         \A c \in CategoryIds : Present(c)' => Present(c) /\ SlugOf(c)' = SlugOf(c),
         \A c \in DOMAIN categories' :
           c \in CategoryIds /\ categories'[c].slug = SlugOf(c),
         x \in Requests => RowSlug(x)' /\ GotSlug(x)',
         \A c \in CategoryIds : Exists(c) => SlugOf(c)' = SlugOf(c)
  PROVE  SlugInv'
<1>1. SlugsApart'
  BY DEF SlugInv, SlugsApart
<1>2. SlugHeld'
  <2> SUFFICES ASSUME NEW c \in DOMAIN categories' PROVE categories'[c].slug = SlugOf(c)'
    BY DEF SlugHeld
  <2>1. Present(c)' /\ c \in CategoryIds
    BY DEF Present
  <2> QED BY <2>1
<1>3. ASSUME NEW q \in Requests, q # x PROVE RowSlug(q)'
  <2> SUFFICES ASSUME work[q].row # Nil
               PROVE  work[q].row.slug = SlugOf(work[q].holds)'
    BY <1>3 DEF RowSlug
  <2>1. PICK c : c = work[q].holds
    OBVIOUS
  <2>2. c \in CategoryIds
    BY <2>1, PutBy
  <2>3. Present(c)'
    BY <1>3, <2>1 DEF Present, Puts
  <2>4. SlugOf(c)' = SlugOf(c)
    BY <2>2, <2>3
  <2>5. work[q].row.slug = SlugOf(c)
    BY <2>1 DEF SlugInv, RowSlug
  <2> QED BY <1>3, <2>1, <2>4, <2>5
<1>4. ASSUME NEW q \in Requests, q # x PROVE GotSlug(q)'
  <2>1. /\ Alike(reqs'[q], reqs[q]) /\ reqs'[q].asked = reqs[q].asked
        /\ reqs'[q].at = reqs[q].at
        /\ Doing(q, "update-category")' <=> Doing(q, "update-category")
    BY <1>4, OthersSame DEF Core
  <2>2. PICK c : c = reqs[q].asked.cat
    OBVIOUS
  <2> SUFFICES ASSUME Doing(q, "update-category"), reqs[q].at = "save"
               PROVE  reqs'[q].got.slug = SlugOf(c)'
    BY <2>1, <2>2 DEF GotSlug
  <2>3. Exists(c)
    BY <2>2 DEF LinkInv, Known
  <2>4. reqs[q].asked \in Menu
    BY RequestKinds, RunningFields DEF Core, Typed, Doing
  <2>5. c \in CategoryIds
    BY <2>2, <2>4, AskCategory DEF Doing
  <2>6. SlugOf(c)' = SlugOf(c)
    BY <2>3, <2>5
  <2>7. reqs[q].got.slug = SlugOf(c)
    BY <2>2 DEF SlugInv, GotSlug
  <2>8. reqs'[q].got = reqs[q].got
    BY <2>1 DEF Alike
  <2> QED BY <2>6, <2>7, <2>8
<1> QED BY <1>1, <1>2, <1>3, <1>4 DEF SlugInv

LEMMA SlugCalm ==
  ASSUME Core, LinkInv, SlugInv, NEW x, Calm(x)
  PROVE  SlugInv'
<1>1. /\ Typed /\ OneGoes(x) /\ categories' = categories
      /\ \A q \in Requests \ {x} : work'[q] = work[q]
  BY DEF Core, Calm
<1>2. ASSUME NEW c \in CategoryIds, Exists(c)
      PROVE  SlugOf(c)' = SlugOf(c)
  <2>1. c = x => reqs'[x].asked = reqs[x].asked \/ c \in DOMAIN InitCategories
    BY <1>1, <1>2, StoredStays DEF Exists
  <2> QED BY <1>1, <2>1, SlugSame DEF SlugOf
<1>3. ASSUME NEW c \in CategoryIds, Present(c)'
      PROVE  Present(c) /\ SlugOf(c)' = SlugOf(c)
  <2>1. x \in Requests => work'[x].row = Nil
    BY CalmSame, NoWorkFields
  <2>2. ~(x \in Requests /\ Puts(x, c)')
    BY <2>1 DEF Puts
  <2>3. c \in DOMAIN categories \/ \E q \in Requests \ {x} : Puts(q, c)
    BY <1>1, <1>3, <2>2 DEF Present, Puts
  <2>4. Present(c)
    BY <2>3 DEF Present
  <2>5. Exists(c) \/ c # x
    <3>1. CASE c \in DOMAIN categories
      BY <3>1 DEF LinkInv, Known
    <3>2. ASSUME NEW q \in Requests \ {x}, Puts(q, c) PROVE Exists(c) \/ c # x
      BY <3>2, PutBy DEF Puts
    <3> QED BY <2>3, <3>1, <3>2
  <2>6. SlugOf(c)' = SlugOf(c)
    BY <1>1, <1>2, <2>5, SlugSame
  <2> QED BY <2>4, <2>6
<1>4. ASSUME x \in Requests PROVE RowSlug(x)' /\ GotSlug(x)'
  <2>1. work'[x].row = Nil
    BY <1>4, CalmSame, NoWorkFields
  <2>2. ~(Doing(x, "update-category")' /\ reqs'[x].at = "save")
    BY <1>4, CalmSame
  <2> QED BY <2>1, <2>2 DEF RowSlug, GotSlug
<1>5. \A c \in DOMAIN categories' :
        c \in CategoryIds /\ categories'[c].slug = SlugOf(c)
  BY <1>1 DEF Typed, SlugInv, SlugHeld
<1> QED BY <1>1, <1>2, <1>3, <1>4, <1>5, SlugStays

\* A slug that is free is of no category there is.
LEMMA FreeApart ==
  ASSUME Core, LinkInv, SlugInv, NEW r \in Requests, work[r] = NoWork,
         NEW slug, SlugFree(r, slug), NEW c \in CategoryIds, Present(c)
  PROVE  SlugOf(c) # slug
<1>1. CASE c \in DOMAIN categories
  BY <1>1 DEF SlugFree, SlugInUse, SlugInv, SlugHeld
<1>2. ASSUME NEW q \in Requests, Puts(q, c), c \notin DOMAIN categories
      PROVE  SlugOf(c) # slug
  <2>1. q # r
    BY <1>2, NoWorkFields DEF Puts
  <2>2. InFlight(q) /\ work[q].row.slug = SlugOf(c)
    BY <1>2, PutBy DEF Puts, SlugInv, RowSlug
  <2> QED BY <1>2, <2>1, <2>2 DEF SlugFree, SlugPending, Others, Puts
<1> QED BY <1>1, <1>2 DEF Present

LEMMA SlugEffect ==
  ASSUME Core, LinkInv, SlugInv, NEW r \in Requests, Effect(r)
  PROVE  SlugInv'
<1>1. PICK at \in Onward : Acts(r, at)
  BY EffectActs
<1>2. /\ Typed /\ OneGoes(r) /\ categories' = categories
      /\ reqs'[r].asked = reqs[r].asked /\ InFlight(r) /\ reqs'[r].at = at
      /\ reqs[r].asked \in Menu
      /\ \A q \in Requests \ {r} : work'[q] = work[q]
      /\ \A op : Doing(r, op)' <=> reqs[r].asked.op = op
  BY <1>1, ActsSame DEF Core
<1>3. ASSUME NEW c \in CategoryIds PROVE SlugOf(c)' = SlugOf(c)
  BY <1>2, SlugSame
<1>4. \A c \in DOMAIN categories' :
        c \in CategoryIds /\ categories'[c].slug = SlugOf(c)
  BY <1>2 DEF Typed, SlugInv, SlugHeld
<1>5. GotSlug(r)'
  <2>1. PICK cat : cat = reqs[r].asked.cat
    OBVIOUS
  <2> SUFFICES ASSUME reqs[r].asked.op = "update-category", at = "save"
               PROVE  reqs'[r].got.slug = SlugOf(cat)'
    BY <1>2, <2>1 DEF GotSlug
  <2>2. Looked(r)
    BY <1>2 DEF Effect, Inserted, Saved, Found, StripsTags, Relinked, Deleted, Checks,
       Validates, FoundTags, Untags, Tags_, Acts
  <2>3. PICK c \in DOMAIN categories :
          c = cat /\ reqs'[r].got = categories[c]
    BY <2>2, <2>1 DEF Looked
  <2>4. c \in CategoryIds /\ categories[c].slug = SlugOf(c)
    BY <1>2, <1>4
  <2> QED BY <1>3, <2>3, <2>4
<1>6. ASSUME work'[r].row = Nil \/ (work'[r].holds = work[r].holds /\ work'[r].row = work[r].row)
      PROVE  SlugInv'
  <2>1. ASSUME NEW c, Present(c)' PROVE Present(c)
    <3>1. ASSUME NEW q \in Requests, Puts(q, c)' PROVE Puts(q, c)
      BY <1>2, <1>6, <3>1 DEF Puts
    <3> QED BY <1>2, <2>1, <3>1 DEF Present
  <2>2. RowSlug(r)'
    <3> SUFFICES ASSUME work[r].row # Nil, work'[r].row = work[r].row,
                        work'[r].holds = work[r].holds
                 PROVE  work[r].row.slug = SlugOf(work[r].holds)'
      BY <1>6 DEF RowSlug
    <3>1. work[r].holds \in CategoryIds
      BY PutBy
    <3> QED BY <1>3, <3>1 DEF SlugInv, RowSlug
  <2> QED BY <1>2, <1>3, <1>4, <1>5, <2>1, <2>2, SlugStays
<1>7. ASSUME NEW n \in CategoryIds, work'[r].holds = n, work[r] = NoWork,
             work'[r].row.slug = SlugOf(n),
             Present(n) \/ SlugFree(r, SlugOf(n))
      PROVE  SlugInv'
  <2>1. ASSUME NEW c, Present(c)', c # n PROVE Present(c)
    <3>1. ASSUME NEW q \in Requests, Puts(q, c)' PROVE Puts(q, c)
      BY <1>2, <1>7, <2>1, <3>1 DEF Puts
    <3> QED BY <1>2, <2>1, <3>1 DEF Present
  <2>2. RowSlug(r)'
    BY <1>3, <1>7 DEF RowSlug
  <2>3. CASE Present(n)
    BY <1>2, <1>3, <1>4, <1>5, <2>1, <2>2, <2>3, SlugStays
  <2>4. CASE SlugFree(r, SlugOf(n))
    <3>1. ASSUME NEW c \in CategoryIds, Present(c), c # n PROVE SlugOf(c) # SlugOf(n)
      BY <1>7, <2>4, <3>1, FreeApart
    <3>2. SlugsApart'
      BY <1>3, <2>1, <3>1 DEF SlugInv, SlugsApart
    <3>3. SlugHeld'
      BY <1>3, <1>4 DEF SlugHeld
    <3>4. ASSUME NEW q \in Requests, q # r PROVE RowSlug(q)'
      <4>1. work[q].row # Nil => work[q].holds \in CategoryIds
        BY PutBy
      <4> QED BY <1>2, <1>3, <3>4, <4>1 DEF SlugInv, RowSlug
    <3>5. ASSUME NEW q \in Requests, q # r PROVE GotSlug(q)'
      <4>1. /\ Alike(reqs'[q], reqs[q]) /\ reqs'[q].asked = reqs[q].asked
            /\ reqs'[q].at = reqs[q].at
            /\ Doing(q, "update-category")' <=> Doing(q, "update-category")
        BY <1>2, <3>5, OthersSame
      <4>2. Doing(q, "update-category") => reqs[q].asked.cat \in CategoryIds
        BY RequestKinds, RunningFields, AskCategory DEF Typed, Core, Doing
      <4> QED BY <1>3, <4>1, <4>2 DEF SlugInv, GotSlug, Alike
    <3> QED BY <1>5, <2>2, <3>2, <3>3, <3>4, <3>5 DEF SlugInv
  <2> QED BY <1>7, <2>3, <2>4
<1>8. CASE Inserted(r)
  <2>1. work[r] = NoWork
    BY <1>8 DEF Inserted, Core, AllLocal, Local, Writing
  <2>2. r \in CategoryIds /\ SlugOf(r) = reqs[r].asked.slug
    BY CategoriesAssumption DEF CategoryIds, SlugOf
  <2> QED BY <1>7, <1>8, <2>1, <2>2 DEF Inserted
<1>9. CASE Saved(r)
  <2>1. work[r] = NoWork
    BY <1>9 DEF Saved, Core, AllLocal, Local, Writing
  <2>2. PICK c : c = reqs[r].asked.cat
    OBVIOUS
  <2>3. c \in CategoryIds
    BY <1>2, <1>9, <2>2, AskCategory DEF Saved
  <2>4. reqs[r].got.slug = SlugOf(c)
    BY <1>2, <1>9, <2>2 DEF Saved, SlugInv, GotSlug, Doing
  <2>5. Present(c) \/ SlugFree(r, SlugOf(c))
    BY <1>9, <2>2, <2>4 DEF Saved, Present
  <2> QED BY <1>7, <1>9, <2>1, <2>2, <2>3, <2>4, <2>5 DEF Saved
<1>10. CASE Looked(r) \/ Deleted(r) \/ Checks(r) \/ Validates(r) \/ FoundTags(r)
  <2>1. work'[r].row = Nil
    BY <1>10, NoWorkFields DEF Looked, Deleted, Checks, Validates, FoundTags, SameWork
  <2> QED BY <1>6, <2>1
<1>11. CASE Found(r) \/ StripsTags(r) \/ Relinked(r) \/ Untags(r) \/ Tags_(r)
  <2>1. work'[r].holds = work[r].holds /\ work'[r].row = work[r].row
    BY <1>11 DEF Found, StripsTags, Relinked, Untags, Tags_, SameWork
  <2> QED BY <1>6, <2>1
<1> QED BY <1>8, <1>9, <1>10, <1>11 DEF Effect

LEMMA SlugCommit ==
  ASSUME Core, LinkInv, SlugInv, NEW r \in Requests, Commit(r), Commits(r)
  PROVE  SlugInv'
<1>1. /\ Typed /\ AllLocal /\ OneGoes(r) /\ InFlight(r) /\ ~InFlight(r)'
      /\ reqs'[r].asked = reqs[r].asked /\ reqs[r].at = "commit"
      /\ reqs[r].asked \in Menu
      /\ work'[r] = NoWork /\ \A q \in Requests \ {r} : work'[q] = work[q]
  BY DEF Core, Commits, Typed
<1>2. ASSUME NEW c \in CategoryIds PROVE SlugOf(c)' = SlugOf(c)
  BY <1>1, SlugSame
<1>3. RowSlug(r)' /\ GotSlug(r)'
  BY <1>1, NoWorkFields DEF RowSlug, GotSlug, Doing
<1>4. ASSUME NEW c, \E q \in Requests : Puts(q, c)' PROVE Present(c)
  <2>1. ASSUME NEW q \in Requests, Puts(q, c)' PROVE Puts(q, c)
    BY <1>1, <2>1, NoWorkFields DEF Puts
  <2> QED BY <1>4, <2>1 DEF Present
<1>5. ASSUME \A c \in DOMAIN categories' :
               Present(c) /\ c \in CategoryIds /\ categories'[c].slug = SlugOf(c)
      PROVE  SlugInv'
  <2>1. \A c : Present(c)' => Present(c)
    BY <1>4, <1>5 DEF Present
  <2> QED BY <1>1, <1>2, <1>3, <1>5, <2>1, SlugStays
<1>6. \A c \in DOMAIN categories :
        Present(c) /\ c \in CategoryIds /\ categories[c].slug = SlugOf(c)
  BY <1>1 DEF Present, Typed, SlugInv, SlugHeld
<1>7. CASE reqs[r].asked.op = "delete-category"
  BY <1>1, <1>5, <1>6, <1>7, CommitRows
<1>8. CASE reqs[r].asked.op \in OfPost
  BY <1>1, <1>5, <1>6, <1>8, CommitRows
<1>9. CASE reqs[r].asked.op \in {"create-category", "update-category"}
  <2>1. PICK c, row : c = CatOf(r) /\ row = work[r].row
    OBVIOUS
  <2>2. /\ categories' = Put(categories, c, row) /\ row \in CategoryRow
        /\ work[r].holds = c
    BY <1>1, <1>9, <2>1, CommitRows DEF OfCategory
  <2>3. row # Nil
    BY <2>2, NilApart
  <2>4. c \in CategoryIds /\ row.slug = SlugOf(c) /\ Present(c)
    BY <2>1, <2>2, <2>3, PutBy DEF SlugInv, RowSlug, Present, Puts
  <2>5. \A d \in DOMAIN categories' :
          \/ d = c /\ categories'[d] = row
          \/ d \in DOMAIN categories /\ categories'[d] = categories[d]
    BY <2>2 DEF Put
  <2> QED BY <1>5, <1>6, <2>4, <2>5
<1> QED BY <1>7, <1>8, <1>9 DEF Commits, OfCategory

LEMMA SlugInit ==
  ASSUME Init
  PROVE  SlugInv
<1>1. /\ categories = InitCategories
      /\ \A r \in Requests : work[r].row = Nil /\ ~InFlight(r)
  BY NoWorkFields DEF Init, BoardsInit, Fresh, InFlight
<1> QED
  BY <1>1, CategoriesAssumption DEF SlugInv, SlugHeld, SlugsApart, RowSlug, GotSlug,
     SlugOf, Present, Puts, Doing

LEMMA SlugNext ==
  ASSUME Core, LinkInv, SlugInv, [Next]_vars
  PROVE  SlugInv'
<1>1. CASE CalmStep
  BY <1>1, SlugCalm DEF CalmStep
<1>2. ASSUME NEW r \in Requests, Effect(r) PROVE SlugInv'
  BY <1>2, SlugEffect
<1>3. ASSUME NEW r \in Requests, Commit(r), Commits(r) PROVE SlugInv'
  BY <1>3, SlugCommit
<1>4. CASE UNCHANGED vars
  BY <1>4 DEF vars, bvars, SlugInv, SlugHeld, SlugsApart, RowSlug, GotSlug, SlugOf,
     Present, Puts, Doing, InFlight
<1> QED BY <1>1, <1>2, <1>3, <1>4, NextSteps

\* Of requests for one archival or one slug at most one is stored: two categories
\* that were created with one slug are there only if the first was deleted
\* (Store.ArchiveBoard, the unique keys of boards and categories).
THEOREM OneIsTold == Spec => []OneSucceeds
<1>1. Core /\ LinkInv /\ SlugInv /\ [Next]_vars => SlugInv'
  BY SlugNext
<1>2. Core /\ LinkInv /\ GoneInv /\ SlugInv => OneSucceeds
  <2> SUFFICES ASSUME Core, LinkInv, GoneInv, SlugInv PROVE OneSucceeds
    OBVIOUS
  <2>1. OneSlug
    <3>1. \A c \in DOMAIN categories : c \in CategoryIds /\ Present(c)
      BY DEF Core, Typed, Present
    <3> QED BY <3>1 DEF OneSlug, SlugInv, SlugHeld, SlugsApart
  <2>2. ASSUME NEW r \in Requests, NEW q \in Requests, r # q,
               Stored(r, "create-category"), Stored(q, "create-category"),
               reqs[r].asked.slug = reqs[q].asked.slug
        PROVE  Deletions(r) \cup Deletions(q) # {}
    <3>1. Exists(r) /\ Exists(q)
      BY <2>2 DEF Exists
    <3>2. r \in CategoryIds /\ q \in CategoryIds
      BY DEF CategoryIds
    <3>3. SlugOf(r) = SlugOf(q)
      BY <2>2, CategoriesAssumption DEF SlugOf
    <3>4. ~(r \in DOMAIN categories /\ q \in DOMAIN categories)
      BY <2>2, <3>2, <3>3 DEF SlugInv, SlugsApart, Present
    <3> QED BY <3>1, <3>2, <3>4 DEF GoneInv, Gone
  <2> QED BY <2>1, <2>2 DEF OneSucceeds, Core, BoardInv, ArchivedOnce, CreatedOnce
<1>3. Spec => []GoneInv
  <2>1. Core /\ LinkInv /\ GoneInv /\ [Next]_vars => GoneInv'
    BY GoneNext
  <2> QED BY <2>1, GoneInit, CoreHolds, LinksHold, PTL DEF Spec
<1> QED BY <1>1, <1>2, <1>3, SlugInit, CoreHolds, LinksHold, PTL DEF Spec

-----------------------------------------------------------------------------
\* The sixth layer: a tag is of its post's board but for overlaps.
StrayInv ==
  /\ \A s \in Requests : ValidatedOf(s) /\ StrippedOf(s)
  /\ \A t \in tags : OfBoard(t)

LEMMA ExcusedStays ==
  ASSUME Typed, NEW x, OneGoes(x), NEW s \in Requests, Kept(s), Kept(s)', NEW c,
         Excused(s, c)
  PROVE  Excused(s, c)'
<1>1. PICK q \in Updates(c) : Met(q, s)
  BY DEF Excused
<1>2. q \in Updates(c)'
  BY DeletionsStay
<1>3. q \in Requests /\ Kept(q) /\ Kept(q)'
  BY <1>1, <1>2 DEF Updates, Stored, Kept
<1> QED BY <1>1, <1>2, <1>3, MetStays DEF Excused

LEMMA AfterStays ==
  ASSUME Typed, TagOwner, NEW x, OneGoes(x), NEW q \in Requests, Kept(q), Kept(q)',
         NEW t \in tags, After(q, t)
  PROVE  After(q, t)'
<1>1. PICK o \in Requests : o = t[3]
  BY DEF After
<1>2. Kept(o)
  BY <1>1, NilApart DEF TagOwner, Kept
<1>3. Kept(o)'
  BY <1>1, OwnersStay, NilApart DEF Kept
<1>4. Met(q, o)'
  BY <1>1, <1>2, <1>3, MetStays DEF After
<1> QED BY <1>1, <1>4 DEF After

LEMMA OfBoardStays ==
  ASSUME Typed, TagOwner, NEW x, OneGoes(x), NEW t \in tags, OfBoard(t),
         posts'[t[1]] = posts[t[1]],
         Available(posts[t[1]].board, t[2]) => Available(posts[t[1]].board, t[2])'
  PROVE  OfBoard(t)'
<1>1. CASE Available(posts[t[1]].board, t[2])
  <2>1. PICK b : b = posts[t[1]].board
    OBVIOUS
  <2>2. Available(b, t[2])'
    BY <1>1, <2>1 DEF Available
  <2> QED BY <2>1, <2>2 DEF OfBoard, Available
<1>2. ASSUME NEW q \in Updates(t[2]), After(q, t) PROVE OfBoard(t)'
  <2>1. q \in Updates(t[2])'
    BY DeletionsStay
  <2>2. q \in Requests /\ Kept(q) /\ Kept(q)'
    BY <2>1 DEF Updates, Stored, Kept
  <2>3. After(q, t)'
    BY <1>2, <2>2, AfterStays
  <2> QED BY <2>1, <2>3 DEF OfBoard
<1> QED BY <1>1, <1>2 DEF OfBoard

LEMMA StrippedOthers ==
  ASSUME Typed, TagOwner, NEW x, OneGoes(x), NEW q \in Requests \ {x},
         work'[q] = work[q], StrippedOf(q),
         \A t \in tags : posts'[t[1]] = posts[t[1]],
         Named_(q) => \A t \in tags' \ tags : After(q, t)'
  PROVE  StrippedOf(q)'
<1>1. /\ reqs'[q].asked = reqs[q].asked /\ reqs'[q].at = reqs[q].at
      /\ (InFlight(q)' <=> InFlight(q)) /\ CatOf(q)' = CatOf(q)
      /\ (Named_(q)' <=> Named_(q))
  BY OthersSame
<1> SUFFICES ASSUME Named_(q), reqs[q].at # "strip", NEW t \in tags', t[2] = CatOf(q),
                    posts'[t[1]].board \notin reqs[q].asked.boards
             PROVE  \/ t \in work[q].found /\ reqs[q].at = "strip found"
                    \/ t \in work[q].dels
                    \/ After(q, t)'
  BY <1>1 DEF StrippedOf, After, Met
<1>2. CASE t \notin tags
  BY <1>2
<1>3. CASE t \in tags
  <2>1. Kept(q) /\ Kept(q)'
    BY <1>1 DEF Named_, Doing, Kept
  <2>2. After(q, t) => After(q, t)'
    BY <1>3, <2>1, AfterStays
  <2>3. posts[t[1]].board \notin reqs[q].asked.boards
    BY <1>3
  <2> QED BY <1>3, <2>2, <2>3 DEF StrippedOf
<1> QED BY <1>2, <1>3

LEMMA ValidatedOthers ==
  ASSUME Typed, NEW x, OneGoes(x), NEW s \in Requests \ {x}, ValidatedOf(s),
         InFlight(s) /\ PastPost(s) /\ reqs[s].asked.tags # Nil =>
           \A c \in reqs[s].asked.tags : Exists(c) =>
             \/ c \notin DOMAIN categories'
             \/ Excused(s, c)'
             \/ /\ c \in DOMAIN categories
                /\ Available(BoardOf(s), c) => Available(BoardOf(s), c)'
  PROVE  ValidatedOf(s)'
<1>1. /\ reqs'[s].asked = reqs[s].asked /\ reqs'[s].at = reqs[s].at
      /\ (InFlight(s)' <=> InFlight(s)) /\ BoardOf(s)' = BoardOf(s)
      /\ (PastPost(s)' <=> PastPost(s))
  BY OthersSame
<1>2. PICK set, b : set = reqs[s].asked.tags /\ b = BoardOf(s)
  OBVIOUS
<1> SUFFICES ASSUME InFlight(s), PastPost(s), reqs[s].at # "validate", set # Nil,
                    NEW c \in set
             PROVE  /\ Exists(c)'
                    /\ \/ Available(b, c)' \/ c \notin DOMAIN categories'
                       \/ Excused(s, c)'
  <2>1. reqs'[s].asked.tags = set /\ BoardOf(s)' = b
    BY <1>1, <1>2
  <2> QED BY <1>1, <2>1 DEF ValidatedOf, Available, Exists, Excused, Updates, Met
<1>3. /\ Exists(c)
      /\ Available(b, c) \/ c \notin DOMAIN categories \/ Excused(s, c)
  BY <1>2 DEF ValidatedOf
<1>4. Exists(c)'
  BY <1>3, ExistsStays
<1>5. Excused(s, c) => Excused(s, c)'
  BY <1>1, ExcusedStays DEF Kept
<1>6. \/ c \notin DOMAIN categories'
      \/ Excused(s, c)'
      \/ c \in DOMAIN categories /\ (Available(b, c) => Available(b, c)')
  <2>1. Available(BoardOf(s), c) = Available(b, c)
    BY <1>2
  <2>2. Available(BoardOf(s), c)' = Available(b, c)'
    BY <1>1, <1>2 DEF Available
  <2> QED BY <1>2, <1>3, <2>1, <2>2
<1> QED BY <1>3, <1>4, <1>5, <1>6

\* A step that commits nothing.
LEMMA StrayQuiet ==
  ASSUME Core, TagInv, StrayInv, NEW x, OneGoes(x),
         UNCHANGED <<categories, links, posts, tags>>,
         \A q \in Requests \ {x} : work'[q] = work[q],
         x \in Requests => ValidatedOf(x)' /\ StrippedOf(x)'
  PROVE  StrayInv'
<1>1. Typed /\ TagOwner
  BY DEF Core, TagInv
<1>2. \A b, c : Available(b, c)' = Available(b, c)
  BY DEF Available
<1>3. ASSUME NEW s \in Requests \ {x} PROVE ValidatedOf(s)'
  <2>1. ValidatedOf(s)
    BY DEF StrayInv
  <2>2. PICK b : b = BoardOf(s)
    OBVIOUS
  <2>3. BoardOf(s)' = b
    BY <1>1, <2>2, OthersSame
  <2>4. \A c : Available(BoardOf(s), c)' = Available(BoardOf(s), c)
    BY <1>2, <2>2, <2>3 DEF Available
  <2> QED BY <1>1, <2>1, <2>4, ValidatedOthers
<1>4. ASSUME NEW s \in Requests \ {x} PROVE StrippedOf(s)'
  BY <1>1, StrippedOthers DEF StrayInv
<1>5. ASSUME NEW t \in tags PROVE OfBoard(t)'
  <2>1. Available(posts[t[1]].board, t[2])' = Available(posts[t[1]].board, t[2])
    BY DEF Available
  <2> QED BY <1>1, <2>1, OfBoardStays DEF StrayInv
<1> QED BY <1>3, <1>4, <1>5 DEF StrayInv

LEMMA StrayCalm ==
  ASSUME Core, TagInv, StrayInv, NEW x, Calm(x)
  PROVE  StrayInv'
<1>1. x \in Requests => ValidatedOf(x)' /\ StrippedOf(x)'
  BY CalmSame DEF ValidatedOf, StrippedOf
<1> QED BY <1>1, StrayQuiet DEF Calm

LEMMA StrayEffect ==
  ASSUME Core, LinkInv, TagInv, StrayInv, NEW r \in Requests, Effect(r)
  PROVE  StrayInv'
<1>1. PICK at \in Onward : Acts(r, at)
  BY EffectActs
<1>2. /\ Typed /\ OneGoes(r) /\ UNCHANGED <<categories, links, posts, tags>>
      /\ \A q \in Requests \ {r} : work'[q] = work[q]
      /\ reqs'[r].asked = reqs[r].asked /\ InFlight(r) /\ InFlight(r)'
      /\ reqs[r].asked \in Menu /\ reqs'[r].at = at
      /\ \A op : /\ Doing(r, op) <=> reqs[r].asked.op = op
                 /\ Doing(r, op)' <=> reqs[r].asked.op = op
      /\ CatOf(r)' = CatOf(r) /\ BoardOf(r)' = BoardOf(r)
  BY <1>1, ActsSame DEF Core
<1>3. ValidatedOf(r)'
  <2>1. PICK set, b : set = reqs[r].asked.tags /\ b = BoardOf(r)
    OBVIOUS
  <2>2. reqs'[r].asked.tags = set /\ BoardOf(r)' = b
    BY <1>2, <2>1
  <2> SUFFICES ASSUME reqs[r].asked.op \in OfPost, at \notin {"post", "validate"},
                      set # Nil, NEW c \in set
               PROVE  /\ Exists(c)'
                      /\ \/ Available(b, c)' \/ c \notin DOMAIN categories'
                         \/ Excused(r, c)'
    BY <1>2, <2>2 DEF ValidatedOf, PastPost, Available, Exists, Excused, Updates, Met
  <2>3. Available(b, c)' = Available(b, c)
    BY <1>2 DEF Available
  <2>4. CASE Validates(r)
    <3>1. reqs[r].got = b
      BY <1>2, <2>1, <2>4 DEF Core, Checked, PastPost, Validates
    <3>2. Available(b, c)
      BY <2>1, <2>4, <3>1 DEF Validates
    <3>3. Exists(c)
      BY <3>2 DEF Available, LinkInv, LinksThere, Known
    <3> QED BY <1>2, <2>3, <3>2, <3>3, ExistsStays
  <2>5. CASE FoundTags(r) \/ Untags(r) \/ Tags_(r)
    <3>1. reqs[r].at \notin {"post", "validate"}
      BY <2>5 DEF FoundTags, Untags, Tags_
    <3>2. /\ Exists(c)
          /\ Available(b, c) \/ c \notin DOMAIN categories \/ Excused(r, c)
      BY <1>2, <2>1, <3>1 DEF StrayInv, ValidatedOf, PastPost
    <3>3. Excused(r, c) => Excused(r, c)'
      BY <1>2, ExcusedStays DEF Kept
    <3> QED BY <1>2, <2>3, <3>2, <3>3, ExistsStays
  <2>6. CASE Checks(r)
    BY <1>2, <2>1, <2>6 DEF Checks, Acts
  <2>7. CASE Inserted(r) \/ Looked(r) \/ Saved(r) \/ Found(r) \/ StripsTags(r)
             \/ Relinked(r) \/ Deleted(r)
    BY <2>7 DEF Inserted, Looked, Saved, Found, StripsTags, Relinked, Deleted, OfPost
  <2> QED BY <2>4, <2>5, <2>6, <2>7 DEF Effect
<1>4. StrippedOf(r)'
  <2>1. PICK named, c : named = reqs[r].asked.boards /\ c = CatOf(r)
    OBVIOUS
  <2>2. reqs'[r].asked.boards = named /\ CatOf(r)' = c
    BY <1>2, <2>1
  <2> SUFFICES ASSUME reqs[r].asked.op \in {"create-category", "update-category"},
                      named # Nil, at \in Writing \ {"strip"},
                      NEW t \in tags, t[2] = c, posts[t[1]].board \notin named
               PROVE  \/ t \in work'[r].found /\ at = "strip found"
                      \/ t \in work'[r].dels
                      \/ After(r, t)'
    BY <1>2, <2>2 DEF StrippedOf, Named_, After, Met
  <2>3. After(r, t) => After(r, t)'
    BY <1>2, AfterStays DEF TagInv, Kept
  <2>4. CASE Found(r)
    <3>1. work[r].holds = c
      BY <1>2, <2>1, <2>4 DEF Core, AllLocal, Local, Found, Writing, OfCategory
    <3> QED BY <1>1, <2>1, <2>4, <3>1 DEF Found, Acts
  <2>5. CASE StripsTags(r)
    <3>1. Named_(r) /\ reqs[r].at = "strip found"
      BY <1>2, <2>1, <2>5 DEF StripsTags, Named_, Writing
    <3>2. t \in work[r].found \/ t \in work[r].dels \/ After(r, t)
      BY <2>1, <3>1 DEF StrayInv, StrippedOf
    <3> QED BY <2>3, <2>5, <3>2 DEF StripsTags
  <2>6. CASE Relinked(r)
    <3>1. Named_(r) /\ reqs[r].at = "relink"
      BY <1>2, <2>1, <2>6 DEF Relinked, Named_, Writing
    <3>2. t \in work[r].dels \/ After(r, t)
      BY <2>1, <3>1 DEF StrayInv, StrippedOf
    <3> QED BY <2>3, <2>6, <3>2 DEF Relinked
  <2>7. CASE Inserted(r) \/ Looked(r) \/ Saved(r)
    BY <1>1, <1>2, <2>1, <2>7 DEF Inserted, Looked, Saved, Acts, Writing
  <2>8. CASE Deleted(r) \/ Checks(r) \/ Validates(r) \/ FoundTags(r) \/ Untags(r)
             \/ Tags_(r)
    BY <2>8 DEF Deleted, Checks, Validates, FoundTags, Untags, Tags_, OfPost
  <2> QED BY <2>4, <2>5, <2>6, <2>7, <2>8 DEF Effect
<1> QED BY <1>2, <1>3, <1>4, StrayQuiet

\* Who is in flight at a commit has met the request that commits.
LEMMA MeetsCommit ==
  ASSUME Core, NEW r \in Requests, Commits(r), NEW q \in Requests \ {r}, InFlight(q)
  PROVE  Met(q, r)'
<1>1. Typed /\ AllMet /\ OneGoes(r) /\ InFlight(r) /\ reqs'[r].at = "done"
  BY DEF Core, Commits
<1>2. Met(q, r)
  BY <1>1 DEF AllMet, Met
<1>3. InFlight(q)'
  BY <1>1, OthersSame
<1> QED BY <1>1, <1>2, <1>3, MetStays DEF Kept

LEMMA AvailableOther ==
  ASSUME NEW c, NEW e, e # c, NEW b, NEW named, NEW r,
         \/ links' = {l \in links : l[2] # c}
         \/ links' = {l \in links : l[2] # c} \cup (named \X {c} \X {r})
  PROVE  Available(b, e) <=> Available(b, e)'
<1>1. \A l \in named \X {c} \X {r} : l[2] # e
  OBVIOUS
<1> QED BY <1>1 DEF Available

LEMMA AvailableNamed ==
  ASSUME NEW c, NEW named, NEW r, NEW b \in named,
         links' = {l \in links : l[2] # c} \cup (named \X {c} \X {r})
  PROVE  Available(b, c)'
<1>1. <<b, c, r>> \in links' /\ <<b, c, r>>[1] = b /\ <<b, c, r>>[2] = c
  OBVIOUS
<1> QED BY <1>1 DEF Available

\* A commit keeps what it does not touch.
LEMMA EndedStray ==
  ASSUME NEW r \in Requests, Commits(r)
  PROVE  ValidatedOf(r)' /\ StrippedOf(r)'
BY DEF Commits, ValidatedOf, StrippedOf, Named_, Doing

LEMMA StrayPost ==
  ASSUME Core, LinkInv, TagInv, StrayInv, NEW r \in Requests, Commit(r), Commits(r),
         reqs[r].asked.op \in OfPost
  PROVE  StrayInv'
<1>1. /\ Typed /\ AllLocal /\ OneGoes(r) /\ InFlight(r) /\ reqs[r].at = "commit"
      /\ reqs'[r].at = "done" /\ reqs'[r].asked = reqs[r].asked
      /\ reqs[r].asked \in Menu /\ \A q \in Requests \ {r} : work'[q] = work[q]
  BY DEF Core, Commits, Typed
<1>2. categories' = categories /\ links' = links /\ TagOwner
  BY <1>1, CommitRows DEF TagInv
<1>3. PICK dels, ins : dels = work[r].dels /\ ins = work[r].ins
  OBVIOUS
<1>4. tags' = (tags \ dels) \cup ins
  BY <1>1, <1>3, CommitRows
<1>5. \A t \in ins : /\ t[1] = PostOf(r) /\ t[3] = r /\ t[2] \in reqs[r].asked.tags
                     /\ reqs[r].asked.tags # Nil /\ t[2] \in DOMAIN categories
  BY <1>3 DEF TagInv, Pending
<1>6. /\ \A p \in DOMAIN posts : posts'[p] = posts[p]
      /\ posts'[PostOf(r)].board = BoardOf(r)
  <2>1. CASE reqs[r].asked.op = "create-post"
    <3>1. PICK row : row = [board |-> reqs[r].asked.board, author |-> reqs[r].asked.by]
      OBVIOUS
    <3>2. posts' = Put(posts, r, row) /\ row.board = BoardOf(r) /\ PostOf(r) = r
      BY <1>1, <2>1, <3>1, CommitRows DEF OfPost, BoardOf, PostOf
    <3>3. r \notin DOMAIN posts
      BY <1>1, CategoriesAssumption DEF Core, PostsThere, Stored
    <3> QED BY <3>2, <3>3 DEF Put
  <2>2. CASE reqs[r].asked.op = "edit-post"
    <3>1. posts' = posts
      BY <1>1, <2>2, CommitRows
    <3>2. reqs[r].asked.post \in DOMAIN InitPosts
      BY <1>1, <2>2, AskPost
    <3> QED BY <2>2, <3>1, <3>2 DEF Core, PostsThere, PostOf, BoardOf
  <2> QED BY <2>1, <2>2 DEF OfPost
<1>7. \A t \in tags : posts'[t[1]] = posts[t[1]]
  BY <1>6 DEF TagInv, TagsThere
<1>8. ASSUME NEW s \in Requests \ {r} PROVE ValidatedOf(s)'
  <2>1. PICK b : b = BoardOf(s)
    OBVIOUS
  <2>2. BoardOf(s)' = b
    BY <1>1, <2>1, OthersSame
  <2>3. \A c : Available(BoardOf(s), c)' = Available(BoardOf(s), c)
    BY <1>2, <2>1, <2>2 DEF Available
  <2> QED BY <1>1, <1>2, <2>3, ValidatedOthers DEF StrayInv
<1>9. ASSUME NEW q \in Requests \ {r} PROVE StrippedOf(q)'
  <2>1. ASSUME Named_(q), NEW t \in tags' \ tags PROVE After(q, t)'
    <3>1. t[3] = r
      BY <1>4, <1>5, <2>1
    <3>2. Met(q, r)'
      BY <2>1, MeetsCommit DEF Named_, Doing
    <3> QED BY <3>1, <3>2 DEF After
  <2> QED BY <1>1, <1>2, <1>7, <2>1, StrippedOthers DEF StrayInv
<1>10. ASSUME NEW t \in tags PROVE OfBoard(t)'
  <2>1. Available(posts[t[1]].board, t[2]) => Available(posts[t[1]].board, t[2])'
    BY <1>2, <1>7 DEF Available
  <2> QED BY <1>1, <1>2, <1>7, <2>1, OfBoardStays DEF StrayInv
<1>11. ASSUME NEW t \in ins PROVE OfBoard(t)'
  <2>1. PICK b, c : b = BoardOf(r) /\ c = t[2]
    OBVIOUS
  <2>2. Available(b, c) \/ Excused(r, c)
    BY <1>1, <1>5, <2>1 DEF StrayInv, ValidatedOf, PastPost
  <2>3. CASE Available(b, c)
    <3>1. posts'[t[1]].board = b
      BY <1>5, <1>6, <2>1
    <3> QED BY <1>2, <2>1, <2>3, <3>1 DEF OfBoard, Available
  <2>4. CASE Excused(r, c)
    <3>1. Excused(r, c)'
      BY <1>1, <2>4, ExcusedStays DEF Kept
    <3> QED BY <1>5, <2>1, <3>1 DEF Excused, OfBoard, After
  <2> QED BY <2>2, <2>3, <2>4
<1> QED BY <1>4, <1>8, <1>9, <1>10, <1>11, EndedStray DEF StrayInv

LEMMA StrayDelete ==
  ASSUME Core, LinkInv, TagInv, StrayInv, NEW r \in Requests, Commit(r), Commits(r),
         reqs[r].asked.op = "delete-category"
  PROVE  StrayInv'
<1>1. /\ Typed /\ AllLocal /\ OneGoes(r) /\ InFlight(r) /\ reqs[r].at = "commit"
      /\ TagOwner /\ \A q \in Requests \ {r} : work'[q] = work[q]
  BY DEF Core, Commits, Typed, TagInv
<1>2. PICK c : c = reqs[r].asked.cat
  OBVIOUS
<1>3. DOMAIN categories' = DOMAIN categories \ {c} /\ posts' = posts
  BY <1>1, <1>2, CommitRows DEF OfCategory
<1>4. links' = {l \in links : l[2] # c}
  BY <1>2, CommitLinks DEF CatOf
<1>5. tags' \subseteq tags /\ \A t \in tags' : t[2] # c
  <2>1. tags' = tags \ work[r].dels
    BY <1>1, CommitRows DEF OfCategory
  <2>2. {t \in tags : t[2] = c} \subseteq work[r].dels
    BY <1>1, <1>2 DEF TagInv, Cleared, Doing
  <2> QED BY <2>1, <2>2
<1>6. ASSUME NEW s \in Requests \ {r} PROVE ValidatedOf(s)'
  <2>1. PICK b : b = BoardOf(s)
    OBVIOUS
  <2>2. BoardOf(s)' = b
    BY <1>1, <2>1, OthersSame
  <2>3. ASSUME NEW e, e # c PROVE Available(b, e) => Available(b, e)'
    BY <1>4, <2>3, AvailableOther
  <2>4. ASSUME NEW e, e # c PROVE Available(BoardOf(s), e) => Available(BoardOf(s), e)'
    BY <2>1, <2>2, <2>3, <2>4 DEF Available
  <2>5. ASSUME NEW e PROVE
            \/ e \notin DOMAIN categories'
            \/ /\ e \in DOMAIN categories
               /\ Available(BoardOf(s), e) => Available(BoardOf(s), e)'
    BY <1>3, <2>4
  <2> QED BY <1>1, <2>5, ValidatedOthers DEF StrayInv
<1>7. ASSUME NEW q \in Requests \ {r} PROVE StrippedOf(q)'
  BY <1>1, <1>3, <1>5, StrippedOthers DEF StrayInv
<1>8. ASSUME NEW t \in tags' PROVE OfBoard(t)'
  <2>1. PICK b, e : b = posts[t[1]].board /\ e = t[2]
    OBVIOUS
  <2>2. Available(b, e) => Available(b, e)'
    <3>1. e # c
      BY <1>5, <2>1
    <3> QED BY <1>4, <3>1, AvailableOther
  <2>3. Available(posts[t[1]].board, t[2]) => Available(posts[t[1]].board, t[2])'
    BY <1>3, <2>1, <2>2 DEF Available
  <2> QED BY <1>1, <1>3, <1>5, <2>3, OfBoardStays DEF StrayInv
<1> QED BY <1>6, <1>7, <1>8, EndedStray DEF StrayInv

LEMMA StrayWritten ==
  ASSUME Core, LinkInv, TagInv, StrayInv, NEW r \in Requests, Commit(r), Commits(r),
         reqs[r].asked.op \in {"create-category", "update-category"}
  PROVE  StrayInv'
<1>1. /\ Typed /\ AllLocal /\ OneGoes(r) /\ InFlight(r) /\ reqs[r].at = "commit"
      /\ reqs'[r].at = "done" /\ reqs'[r].asked = reqs[r].asked
      /\ TagOwner /\ \A q \in Requests \ {r} : work'[q] = work[q]
  BY DEF Core, Commits, Typed, TagInv
<1>2. PICK c, named, row :
        c = CatOf(r) /\ named = reqs[r].asked.boards /\ row = work[r].row
  OBVIOUS
<1>3. DOMAIN categories' = DOMAIN categories \cup {c} /\ posts' = posts
  <2>1. categories' = Put(categories, c, row) /\ posts' = posts
    BY <1>1, <1>2, CommitRows DEF OfCategory
  <2> QED BY <2>1 DEF Put
<1>4. tags' = tags \ work[r].dels
  BY <1>1, CommitRows DEF OfCategory
<1>5. /\ named = Nil => links' = links
      /\ named # Nil => links' = {l \in links : l[2] # c} \cup (named \X {c} \X {r})
  BY <1>2, CommitLinks
<1>6. Exists(c) => reqs[r].asked.op = "update-category" /\ r \in Updates(c)'
  <2>1. CASE reqs[r].asked.op = "create-category"
    BY <1>1, <1>2, <2>1, CategoriesAssumption DEF CatOf, Exists, Stored
  <2>2. CASE reqs[r].asked.op = "update-category"
    BY <1>1, <1>2, <2>2 DEF CatOf, Updates, Stored
  <2> QED BY <2>1, <2>2
<1>7. ASSUME NEW b, NEW e, e # c PROVE Available(b, e) => Available(b, e)'
  <2>1. CASE named = Nil
    BY <1>5, <2>1 DEF Available
  <2>2. CASE named # Nil
    BY <1>5, <1>7, <2>2, AvailableOther
  <2> QED BY <2>1, <2>2
<1>8. ASSUME NEW s \in Requests \ {r} PROVE ValidatedOf(s)'
  <2>1. PICK b : b = BoardOf(s)
    OBVIOUS
  <2>2. BoardOf(s)' = b
    BY <1>1, <2>1, OthersSame
  <2>3. ASSUME NEW e, e # c PROVE Available(BoardOf(s), e) => Available(BoardOf(s), e)'
    <3>1. Available(b, e) => Available(b, e)'
      BY <1>7, <2>3
    <3> QED BY <2>1, <2>2, <3>1 DEF Available
  <2>4. ASSUME InFlight(s), Exists(c) PROVE Excused(s, c)'
    <3>1. Met(r, s)'
      BY <2>4, MeetsCommit DEF Met
    <3> QED BY <1>6, <2>4, <3>1 DEF Excused
  <2>5. ASSUME InFlight(s), NEW e, Exists(e)
        PROVE  \/ e \notin DOMAIN categories'
               \/ Excused(s, e)'
               \/ /\ e \in DOMAIN categories
                  /\ Available(BoardOf(s), e) => Available(BoardOf(s), e)'
    <3>1. CASE e = c
      BY <2>4, <2>5, <3>1 DEF Excused, Updates
    <3>2. CASE e # c
      BY <1>3, <2>3, <3>2
    <3> QED BY <3>1, <3>2
  <2> QED BY <1>1, <2>5, ValidatedOthers DEF StrayInv
<1>9. ASSUME NEW q \in Requests \ {r} PROVE StrippedOf(q)'
  BY <1>1, <1>3, <1>4, StrippedOthers DEF StrayInv
<1>10. ASSUME NEW t \in tags' PROVE OfBoard(t)'
  <2>1. PICK b, e : b = posts[t[1]].board /\ e = t[2]
    OBVIOUS
  <2>2. t \in tags /\ t \notin work[r].dels
    BY <1>4
  <2>3. ASSUME Available(b, e) => Available(b, e)' PROVE OfBoard(t)'
    <3>1. Available(posts[t[1]].board, t[2]) => Available(posts[t[1]].board, t[2])'
      BY <1>3, <2>1, <2>3 DEF Available
    <3> QED BY <1>1, <1>3, <2>2, <3>1, OfBoardStays DEF StrayInv
  <2>4. CASE e # c
    BY <1>7, <2>3, <2>4
  <2>5. CASE e = c /\ named = Nil
    BY <1>5, <2>3, <2>5 DEF Available
  <2>6. CASE e = c /\ named # Nil /\ b \in named
    <3>1. Available(b, c)'
      BY <1>5, <2>6, AvailableNamed
    <3> QED BY <2>3, <2>6, <3>1 DEF Available
  <2>7. CASE e = c /\ named # Nil /\ b \notin named
    <3>1. Exists(c)
      BY <2>1, <2>2, <2>7 DEF TagInv, TagsThere, LinkInv, Known
    <3>2. Named_(r)
      BY <1>1, <1>2, <2>7 DEF Named_, Doing, Writing
    <3>3. After(r, t)
      BY <1>1, <1>2, <2>1, <2>2, <2>7, <3>2 DEF StrayInv, StrippedOf
    <3>4. After(r, t)'
      BY <1>1, <2>2, <3>3, AfterStays DEF Kept
    <3> QED BY <1>6, <2>1, <2>7, <3>1, <3>4 DEF OfBoard
  <2> QED BY <2>4, <2>5, <2>6, <2>7
<1> QED BY <1>8, <1>9, <1>10, EndedStray DEF StrayInv

LEMMA StrayInit ==
  ASSUME Init
  PROVE  StrayInv
<1>1. /\ posts = InitPosts /\ links = InitLinks /\ tags = InitTags
      /\ \A r \in Requests : ~InFlight(r)
  BY DEF Init, BoardsInit, Fresh, InFlight
<1>2. \A s \in Requests : ValidatedOf(s) /\ StrippedOf(s)
  BY <1>1 DEF ValidatedOf, StrippedOf, Named_, Doing
<1>3. ASSUME NEW t \in tags PROVE OfBoard(t)
  <2>1. PICK b, c : b = posts[t[1]].board /\ c = t[2]
    OBVIOUS
  <2>2. <<b, c, Nil>> \in links /\ <<b, c, Nil>>[1] = b /\ <<b, c, Nil>>[2] = c
    BY <1>1, <2>1, CategoriesAssumption
  <2>3. Available(b, c)
    BY <2>2 DEF Available
  <2> QED BY <2>1, <2>3 DEF OfBoard
<1> QED BY <1>2, <1>3 DEF StrayInv

LEMMA StrayNext ==
  ASSUME Core, LinkInv, TagInv, StrayInv, [Next]_vars
  PROVE  StrayInv'
<1>1. CASE CalmStep
  BY <1>1, StrayCalm DEF CalmStep
<1>2. ASSUME NEW r \in Requests, Effect(r) PROVE StrayInv'
  BY <1>2, StrayEffect
<1>3. ASSUME NEW r \in Requests, Commit(r), Commits(r) PROVE StrayInv'
  BY <1>3, StrayPost, StrayDelete, StrayWritten DEF Commits, OfCategory
<1>4. CASE UNCHANGED vars
  BY <1>4, NobodyGoes, NilApart, StrayQuiet
<1> QED BY <1>1, <1>2, <1>3, <1>4, NextSteps

LEMMA StraysHold == Spec => []StrayInv
<1>1. Core /\ LinkInv /\ TagInv /\ StrayInv /\ [Next]_vars => StrayInv'
  BY StrayNext
<1> QED BY <1>1, StrayInit, CoreHolds, LinksHold, TagsHold, PTL DEF Spec

-----------------------------------------------------------------------------
\* The seventh layer: a post has the tags of one request but for overlaps, and no
\* request gives more than the board takes.
LimitInv ==
  /\ Mixed
  /\ \A s \in Requests : ReplacedOf(s) /\ FitsOf(s)

LEMMA MixedStays ==
  ASSUME Typed, TagOwner, NEW x, OneGoes(x), NEW t \in tags, NEW u \in tags, Mixed,
         t[1] = u[1], t[3] # u[3]
  PROVE  t[3] \in Requests /\ After(t[3], u)'
<1>1. PICK o \in Requests : o = t[3] /\ After(o, u)
  BY DEF Mixed
<1>2. Kept(o)
  BY <1>1, NilApart DEF TagOwner, Kept
<1>3. Kept(o)'
  BY <1>1, OwnersStay, NilApart DEF Kept
<1> QED BY <1>1, <1>2, <1>3, AfterStays

LEMMA ReplacedOthers ==
  ASSUME Typed, TagOwner, NEW x, OneGoes(x), NEW q \in Requests \ {x},
         work'[q] = work[q], ReplacedOf(q),
         InFlight(q) => \A t \in tags' \ tags : After(q, t)'
  PROVE  ReplacedOf(q)'
<1>1. /\ reqs'[q].asked = reqs[q].asked /\ reqs'[q].at = reqs[q].at
      /\ (InFlight(q)' <=> InFlight(q))
      /\ (Doing(q, "edit-post")' <=> Doing(q, "edit-post"))
  BY OthersSame
<1> SUFFICES ASSUME Doing(q, "edit-post"), reqs[q].asked.tags # Nil,
                    reqs[q].at \in {"untag found", "tag", "commit"},
                    NEW t \in tags', t[1] = reqs[q].asked.post
             PROVE  \/ t \in work[q].found /\ reqs[q].at = "untag found"
                    \/ t \in work[q].dels /\ reqs[q].at # "untag found"
                    \/ After(q, t)'
  BY <1>1 DEF ReplacedOf, After, Met
<1>2. InFlight(q)
  BY DEF Doing
<1>3. CASE t \notin tags
  BY <1>2, <1>3
<1>4. CASE t \in tags
  <2>1. After(q, t) => After(q, t)'
    BY <1>1, <1>2, <1>4, AfterStays DEF Kept
  <2> QED BY <1>4, <2>1 DEF ReplacedOf
<1> QED BY <1>3, <1>4

\* What fitted a limit that stands fits it still.
LEMMA FitsStays ==
  ASSUME Checked, BoardsGrow, NEW s \in Requests, FitsOf(s), PastPost(s),
         reqs'[s].asked = reqs[s].asked
  PROVE  FitsOf(s)'
<1>1. PICK b, set : b = BoardOf(s) /\ set = reqs[s].asked.tags
  OBVIOUS
<1>2. BoardOf(s)' = b /\ reqs'[s].asked.tags = set
  BY <1>1, BoardOfStays
<1>3. b \in DOMAIN boards
  BY <1>1 DEF Checked
<1>4. FirstLimit(b)' => FirstLimit(b) /\ boards'[b].limit = boards[b].limit
  BY <1>3 DEF BoardsGrow
<1>5. FirstLimit(BoardOf(s)) = FirstLimit(b)
  BY <1>1
<1>6. FirstLimit(BoardOf(s))' = FirstLimit(b)'
  BY <1>2 DEF FirstLimit, LimitAtFirst
<1> QED BY <1>1, <1>2, <1>4, <1>5, <1>6 DEF FitsOf

LEMMA FitsOthers ==
  ASSUME Typed, Checked, BoardsGrow, NEW x, OneGoes(x), NEW s \in Requests \ {x}, FitsOf(s)
  PROVE  FitsOf(s)'
<1>1. reqs'[s].asked = reqs[s].asked /\ (PastPost(s)' <=> PastPost(s))
  BY OthersSame
<1> QED BY <1>1, FitsStays DEF FitsOf

\* A step that commits nothing.
LEMMA LimitQuiet ==
  ASSUME Core, TagInv, LimitInv, BoardsGrow, NEW x, OneGoes(x), tags' = tags,
         \A q \in Requests \ {x} : work'[q] = work[q],
         x \in Requests => ReplacedOf(x)' /\ FitsOf(x)'
  PROVE  LimitInv'
<1>1. Typed /\ TagOwner /\ Checked
  BY DEF Core, TagInv
<1>2. Mixed'
  BY <1>1, MixedStays DEF LimitInv, Mixed, After, Met
<1>3. \A s \in Requests \ {x} : ReplacedOf(s)' /\ FitsOf(s)'
  BY <1>1, ReplacedOthers, FitsOthers DEF LimitInv
<1> QED BY <1>2, <1>3 DEF LimitInv

LEMMA LimitCalm ==
  ASSUME Core, TagInv, LimitInv, NEW x, Calm(x)
  PROVE  LimitInv'
<1>1. x \in Requests => ReplacedOf(x)' /\ FitsOf(x)'
  BY CalmSame DEF ReplacedOf, FitsOf, Doing, Writing
<1> QED BY <1>1, LimitQuiet DEF Calm

LEMMA LimitEffect ==
  ASSUME Core, TagInv, LimitInv, NEW r \in Requests, Effect(r)
  PROVE  LimitInv'
<1>1. PICK at \in Onward : Acts(r, at)
  BY EffectActs
<1>2. /\ Typed /\ Checked /\ PostsThere /\ OneGoes(r) /\ UNCHANGED <<boards, tags>>
      /\ \A q \in Requests \ {r} : work'[q] = work[q]
      /\ reqs'[r].asked = reqs[r].asked /\ InFlight(r) /\ InFlight(r)'
      /\ reqs[r].asked \in Menu /\ reqs'[r].at = at
      /\ \A op : /\ Doing(r, op) <=> reqs[r].asked.op = op
                 /\ Doing(r, op)' <=> reqs[r].asked.op = op
      /\ BoardOf(r)' = BoardOf(r)
  BY <1>1, ActsSame DEF Core
<1>3. BoardsGrow
  BY <1>2, BoardsUnchanged DEF Core, BoardInv
<1>4. ReplacedOf(r)'
  <2>1. PICK p : p = reqs[r].asked.post
    OBVIOUS
  <2>2. reqs'[r].asked.post = p
    BY <1>2, <2>1
  <2> SUFFICES ASSUME reqs[r].asked.op = "edit-post", reqs[r].asked.tags # Nil,
                      at \in {"untag found", "tag", "commit"},
                      NEW t \in tags, t[1] = p
               PROVE  \/ t \in work'[r].found /\ at = "untag found"
                      \/ t \in work'[r].dels /\ at # "untag found"
                      \/ After(r, t)'
    BY <1>2, <2>2 DEF ReplacedOf, After, Met
  <2>3. After(r, t) => After(r, t)'
    BY <1>2, AfterStays DEF TagInv, Kept
  <2>4. CASE FoundTags(r)
    BY <1>1, <2>1, <2>4 DEF FoundTags, Acts
  <2>5. CASE Untags(r)
    <3>1. t \in work[r].found \/ After(r, t)
      BY <1>2, <2>1, <2>5 DEF LimitInv, ReplacedOf, Untags
    <3> QED BY <1>1, <2>3, <2>5, <3>1 DEF Untags, Acts
  <2>6. CASE Tags_(r)
    <3>1. t \in work[r].dels \/ After(r, t)
      BY <1>2, <2>1, <2>6 DEF LimitInv, ReplacedOf, Tags_
    <3> QED BY <1>1, <2>3, <2>6, <3>1 DEF Tags_, Acts
  <2>7. CASE Checks(r) \/ Validates(r)
    BY <1>1, <2>7 DEF Checks, Validates, Acts
  <2>8. CASE Inserted(r) \/ Looked(r) \/ Saved(r) \/ Found(r) \/ StripsTags(r)
             \/ Relinked(r) \/ Deleted(r)
    BY <2>8 DEF Inserted, Looked, Saved, Found, StripsTags, Relinked, Deleted
  <2> QED BY <2>4, <2>5, <2>6, <2>7, <2>8 DEF Effect
<1>5. FitsOf(r)'
  <2>1. PICK b, set : b = BoardOf(r) /\ set = reqs[r].asked.tags
    OBVIOUS
  <2>2. reqs'[r].asked.tags = set /\ BoardOf(r)' = b
    BY <1>2, <2>1
  <2>3. CASE Checks(r)
    <3>1. b = IF reqs[r].asked.op = "create-post" THEN reqs[r].asked.board
              ELSE posts[reqs[r].asked.post].board
      BY <1>2, <2>1, <2>3, AskPost DEF Checks, PostsThere, BoardOf, OfPost
    <3>2. set # Nil /\ boards[b].limit > 0 => Cardinality(set) <= boards[b].limit
      BY <2>1, <2>3, <3>1 DEF Checks
    <3> QED BY <1>2, <2>2, <3>2 DEF FitsOf
  <2>4. CASE Validates(r) \/ FoundTags(r) \/ Untags(r) \/ Tags_(r)
    <3>1. PastPost(r)
      BY <1>2, <2>4 DEF Validates, FoundTags, Untags, Tags_, PastPost, OfPost
    <3> QED BY <1>2, <1>3, <3>1, FitsStays DEF LimitInv
  <2>5. CASE Inserted(r) \/ Looked(r) \/ Saved(r) \/ Found(r) \/ StripsTags(r)
             \/ Relinked(r) \/ Deleted(r)
    BY <1>2, <2>5 DEF Inserted, Looked, Saved, Found, StripsTags, Relinked, Deleted,
       FitsOf, PastPost, OfPost
  <2> QED BY <2>3, <2>4, <2>5 DEF Effect
<1> QED BY <1>2, <1>3, <1>4, <1>5, LimitQuiet

LEMMA LimitCommit ==
  ASSUME Core, TagInv, LimitInv, NEW r \in Requests, Commit(r), Commits(r)
  PROVE  LimitInv'
<1>1. /\ Typed /\ AllLocal /\ Checked /\ TagOwner /\ OneGoes(r) /\ boards' = boards
      /\ InFlight(r) /\ ~InFlight(r)' /\ reqs[r].at = "commit"
      /\ reqs'[r].at = "done" /\ reqs'[r].asked = reqs[r].asked
      /\ reqs[r].asked \in Menu /\ \A q \in Requests \ {r} : work'[q] = work[q]
  BY DEF Core, Commits, Typed, TagInv
<1>2. BoardsGrow
  BY <1>1, BoardsUnchanged DEF Core, BoardInv
<1>3. PICK dels, ins : dels = work[r].dels /\ ins = work[r].ins
  OBVIOUS
<1>4. tags' = (tags \ dels) \cup ins
  BY <1>1, <1>3, CommitRows
<1>5. \A t \in ins : /\ t[1] = PostOf(r) /\ t[3] = r /\ reqs[r].asked.op \in OfPost
                     /\ reqs[r].asked.tags # Nil
  BY <1>3 DEF TagInv, Pending
<1>6. ASSUME NEW s \in Requests \ {r} PROVE ReplacedOf(s)' /\ FitsOf(s)'
  <2>1. ASSUME InFlight(s), NEW t \in tags' \ tags PROVE After(s, t)'
    <3>1. t[3] = r
      BY <1>4, <1>5
    <3> QED BY <2>1, <3>1, MeetsCommit DEF After
  <2> QED BY <1>1, <1>2, <2>1, ReplacedOthers, FitsOthers DEF LimitInv
<1>7. ReplacedOf(r)'
  BY <1>1 DEF ReplacedOf, Doing
<1>8. FitsOf(r)'
  <2>1. PastPost(r)' => PastPost(r)
    BY <1>1 DEF PastPost
  <2> QED BY <1>1, <1>2, <2>1, FitsStays DEF LimitInv, FitsOf
<1>9. ASSUME NEW t \in ins, NEW u \in tags \ dels, t[1] = u[1] PROVE After(r, u)'
  <2>1. u[1] \in DOMAIN posts /\ u[1] = PostOf(r)
    BY <1>5, <1>9 DEF TagInv, TagsThere
  <2>2. reqs[r].asked.op = "edit-post"
    <3>1. CASE reqs[r].asked.op = "create-post"
      BY <1>1, <2>1, <3>1, CategoriesAssumption
         DEF PostOf, Core, PostsThere, Stored
    <3> QED BY <1>5, <3>1 DEF OfPost
  <2>3. After(r, u)
    BY <1>1, <1>3, <1>5, <2>1, <2>2 DEF LimitInv, ReplacedOf, Doing, PostOf
  <2> QED BY <1>1, <2>3, AfterStays DEF Kept
<1>10. ASSUME NEW t \in tags', NEW u \in tags', t[1] = u[1], t[3] # u[3]
       PROVE  t[3] \in Requests /\ After(t[3], u)'
  <2>1. CASE t \in tags \ dels /\ u \in tags \ dels
    BY <1>1, <1>10, <2>1, MixedStays DEF LimitInv
  <2>2. CASE t \in ins /\ u \in ins
    BY <1>5, <1>10, <2>2
  <2>3. CASE t \in ins /\ u \in tags \ dels
    BY <1>5, <1>9, <1>10, <2>3
  <2>4. CASE t \in tags \ dels /\ u \in ins
    <3>1. After(r, t)' /\ u[3] = r
      BY <1>5, <1>9, <1>10, <2>4
    <3> QED BY <3>1 DEF After, Met
  <2> QED BY <1>4, <2>1, <2>2, <2>3, <2>4
<1>11. Mixed'
  BY <1>10 DEF Mixed, After, Met
<1> QED BY <1>6, <1>7, <1>8, <1>11 DEF LimitInv

LEMMA LimitInit ==
  ASSUME Init
  PROVE  LimitInv
<1>1. /\ tags = InitTags
      /\ \A r \in Requests : ~InFlight(r) /\ reqs[r].at = "fresh"
  BY DEF Init, BoardsInit, Fresh, InFlight
<1>2. \A s \in Requests : ReplacedOf(s) /\ FitsOf(s)
  BY <1>1 DEF ReplacedOf, FitsOf, Doing, PastPost
<1>3. \A t \in InitTags : t[3] = Nil
  BY CategoriesAssumption
<1>4. Mixed
  BY <1>1, <1>3 DEF Mixed
<1> QED BY <1>2, <1>4 DEF LimitInv

LEMMA LimitNext ==
  ASSUME Core, TagInv, LimitInv, [Next]_vars
  PROVE  LimitInv'
<1>1. CASE CalmStep
  BY <1>1, LimitCalm DEF CalmStep
<1>2. ASSUME NEW r \in Requests, Effect(r) PROVE LimitInv'
  BY <1>2, LimitEffect
<1>3. ASSUME NEW r \in Requests, Commit(r), Commits(r) PROVE LimitInv'
  BY <1>3, LimitCommit
<1>4. CASE UNCHANGED vars
  BY <1>4, NobodyGoes, NilApart, LimitQuiet
<1> QED BY <1>1, <1>2, <1>3, <1>4, NextSteps

LEMMA LimitsHold == Spec => []LimitInv
<1>1. Core /\ TagInv /\ LimitInv /\ [Next]_vars => LimitInv'
  BY LimitNext
<1> QED BY <1>1, LimitInit, CoreHolds, TagsHold, PTL DEF Spec

\* The tags one request gave a post, or those it began with, fit.
LEMMA OneGiver ==
  ASSUME Core, TagInv, LimitInv, NEW p \in DOMAIN posts, NEW o,
         FirstLimit(posts[p].board), boards[posts[p].board].limit > 0,
         \A t \in tags : t[1] = p => t[3] = o,
         NEW g \in tags, g[1] = p
  PROVE  Cardinality({t \in tags : t[1] = p}) <= boards[posts[p].board].limit
<1>1. PICK b, given, limit : b = posts[p].board /\ given = {t \in tags : t[1] = p}
                             /\ limit = boards[posts[p].board].limit
  OBVIOUS
<1>2. limit \in 0..MaxCategoryLimit /\ limit > 0
  <2>1. b \in DOMAIN boards
    BY <1>1 DEF Core, PostsThere
  <2>2. boards[b] \in BoardRow
    BY <2>1 DEF Core, Typed, BoardsOK
  <2> QED BY <1>1, <2>2 DEF BoardRow
<1>3. CASE o = Nil
  <2>1. PICK first : first = {t \in InitTags : t[1] = p}
    OBVIOUS
  <2>2. given \subseteq first
    BY <1>1, <1>3, <2>1, NilApart DEF TagInv, TagOwner
  <2>3. p \in DOMAIN InitPosts
    <3>1. g \in InitTags
      BY <1>3, NilApart DEF TagInv, TagOwner
    <3> QED BY <3>1, CategoriesAssumption
  <2>4. IsFiniteSet(first)
    <3>1. first \in SUBSET InitTags
      BY <2>1
    <3> QED BY <3>1, CategoriesAssumption, FS_Subset
  <2>5. InitPosts[p].board = b /\ b \in DOMAIN InitBoards
    BY <1>1, <2>3, CategoriesAssumption DEF Core, PostsThere
  <2>6. limit = InitBoards[b].limit
    <3>1. b \notin Requests
      BY <2>5, BoardsAssumption
    <3> QED BY <1>1, <3>1 DEF FirstLimit, LimitAtFirst
  <2>7. Cardinality(first) <= limit
    BY <1>2, <2>1, <2>3, <2>5, <2>6, CategoriesAssumption
  <2>8. given \in SUBSET first
    BY <2>2
  <2>9. Cardinality(given) <= Cardinality(first)
    BY <2>4, <2>8, FS_Subset
  <2>10. Cardinality(given) \in Nat /\ Cardinality(first) \in Nat
    BY <2>4, <2>8, FS_Subset, FS_CardinalityType
  <2> QED BY <1>1, <1>2, <2>7, <2>9, <2>10 DEF MaxCategoryLimit
<1>4. CASE o \in Requests
  <2>1. /\ reqs[o].at = "done" /\ reqs[o].asked.op \in OfPost /\ p = PostOf(o)
        /\ reqs[o].asked.tags # Nil
    BY <1>4, NilApart DEF TagInv, TagOwner
  <2>2. PICK set : set = reqs[o].asked.tags
    OBVIOUS
  <2>3. reqs[o].asked \in Menu
    BY <1>4, <2>1, RequestKinds DEF Core, Typed, Finished
  <2>4. IsFiniteSet(set)
    BY <2>1, <2>2, <2>3, AskPost
  <2>5. BoardOf(o) = b
    <3>1. CASE reqs[o].asked.op = "create-post"
      BY <1>1, <1>4, <2>1, <3>1 DEF Core, PostsThere, PostOf, BoardOf
    <3>2. CASE reqs[o].asked.op = "edit-post"
      BY <1>1, <2>1, <2>3, <3>2, AskPost DEF Core, PostsThere, PostOf, BoardOf
    <3> QED BY <2>1, <3>1, <3>2 DEF OfPost
  <2>6. Cardinality(set) <= limit
    <3>1. PastPost(o)
      BY <2>1 DEF PastPost
    <3> QED BY <1>1, <1>2, <1>4, <2>1, <2>2, <2>5, <3>1 DEF LimitInv, FitsOf
  <2>7. \A t \in given : t[2] \in set /\ t = <<p, t[2], o>>
    <3> SUFFICES ASSUME NEW t \in given PROVE t[2] \in set /\ t = <<p, t[2], o>>
      OBVIOUS
    <3>1. t \in tags /\ t[1] = p /\ t[3] = o
      BY <1>1
    <3>2. t = <<t[1], t[2], t[3]>>
      BY <3>1, TagField DEF Core
    <3> QED BY <1>4, <2>2, <3>1, <3>2, NilApart DEF TagInv, TagOwner
  <2>8. PICK f : f = [t \in given |-> t[2]]
    OBVIOUS
  <2>9. f \in Injection(given, set)
    BY <2>7, <2>8 DEF Injection, IsInjective
  <2>10. Cardinality(given) <= Cardinality(set) /\ IsFiniteSet(given)
    BY <2>4, <2>9, FS_Injection
  <2>11. Cardinality(given) \in Nat /\ Cardinality(set) \in Nat
    BY <2>4, <2>10, FS_CardinalityType
  <2> QED BY <1>1, <1>2, <2>6, <2>10, <2>11 DEF MaxCategoryLimit
<1>5. o \in Requests \cup {Nil}
  BY DEF TagInv, TagOwner
<1> QED BY <1>3, <1>4, <1>5

\* THEOREM: a post is given what its board does not take only by an overlap
\* (ValidatePostCategories, ReplacePostCategories, ReplaceCategoryBoards).
THEOREM StraysOverlap == Spec => []StrayOnlyByOverlap
<1>1. StrayInv => OfItsBoard
  BY DEF StrayInv, OfBoard, OfItsBoard, Updates, After
<1>2. Core /\ TagInv /\ LimitInv => WithinLimit
  <2> SUFFICES ASSUME Core, TagInv, LimitInv, NEW p \in DOMAIN posts,
                      FirstLimit(posts[p].board), boards[posts[p].board].limit > 0
               PROVE  \/ Cardinality({t \in tags : t[1] = p})
                           <= boards[posts[p].board].limit
                      \/ \E t, u \in {t \in tags : t[1] = p} :
                           /\ t[3] # u[3] /\ {t[3], u[3]} \subseteq Requests
                           /\ Met(t[3], u[3])
    BY DEF WithinLimit
  <2>1. CASE {t \in tags : t[1] = p} = {}
    <3>1. boards[posts[p].board] \in BoardRow
      BY DEF Core, PostsThere, Typed, BoardsOK
    <3>2. Cardinality({t \in tags : t[1] = p}) = 0
      BY <2>1, FS_EmptySet
    <3> QED BY <3>1, <3>2 DEF BoardRow, MaxCategoryLimit
  <2>2. ASSUME NEW g \in tags, g[1] = p, \A t \in tags : t[1] = p => t[3] = g[3]
        PROVE  Cardinality({t \in tags : t[1] = p}) <= boards[posts[p].board].limit
    BY <2>2, OneGiver
  <2>3. ASSUME NEW g \in tags, g[1] = p, NEW t \in tags, t[1] = p, t[3] # g[3]
        PROVE  /\ {t[3], g[3]} \subseteq Requests /\ Met(t[3], g[3])
    BY <2>3 DEF LimitInv, Mixed, After
  <2>4. ASSUME NEW g \in tags, g[1] = p, NEW t \in tags, t[1] = p, t[3] # g[3]
        PROVE  \E x, y \in {z \in tags : z[1] = p} :
                 /\ x[3] # y[3] /\ {x[3], y[3]} \subseteq Requests
                 /\ Met(x[3], y[3])
    BY <2>3, <2>4
  <2> QED BY <2>1, <2>2, <2>4
<1> QED BY <1>1, <1>2, CoreHolds, TagsHold, StraysHold, LimitsHold, PTL
        DEF StrayOnlyByOverlap
=============================================================================
