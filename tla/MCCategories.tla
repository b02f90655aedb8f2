---------------------------- MODULE MCCategories ----------------------------
(***************************************************************************)
(* Two boards, of which "mnt" maintains one, two categories of that board  *)
(* and a post in it, which may have one of them.                           *)
(***************************************************************************)
EXTENDS CategoryProps, TLC

CONSTANTS r1, r2, r3

RequestSymmetry == Permutations(Requests)

\* Whom a request met matters to the properties of what both stored on
\* categories and posts; nothing else reads it, so states that differ only in
\* the rest are one.
Matters(r) ==
  /\ reqs[r].at \notin {"fresh", "refused"}
  /\ reqs[r].asked.op \in {"create-category", "update-category", "delete-category",
                           "create-post", "edit-post"}
Remembered(r) ==
  IF reqs[r].at \in {"fresh", "refused"} THEN reqs[r]
  ELSE [reqs[r] EXCEPT !.met = {q \in @ : Matters(r) /\ Matters(q)}]
MCView == <<boards, members, admins, [r \in Requests |-> Remembered(r)],
            categories, links, posts, tags, work>>

Row(slug, limit) ==
  [slug |-> slug, title |-> "old", limit |-> limit, archived |-> FALSE]
MCBoards == "home" :> Row("home", 1) @@ "other" :> Row("other", 1)
MCMembers ==
  [k \in ({"home", "other"} \cup Requests) \X Users |->
     IF k = <<"home", "mnt">> THEN "maintainer" ELSE "none"]
MCCategories_ ==
  [c \in {"c1", "c2"} |-> [slug |-> c, name |-> "old", cross |-> FALSE]]
MCLinks == {"home"} \X {"c1", "c2"} \X {Nil}
MCPosts == "p1" :> [board |-> "home", author |-> "mnt"]
MCTags == {<<"p1", "c1", Nil>>}

MCMenu ==
  {[op |-> "create-board", by |-> "adm", slug |-> "fresh", title |-> "new",
    limit |-> l] : l \in {0, 101}} \cup
  {[op |-> "update-board", by |-> "mnt", board |-> b, set |-> [title |-> "new", limit |-> Nil]] :
     b \in {"home", "other"}} \cup
  {[op |-> "update-board", by |-> "mnt", board |-> "home",
    set |-> [title |-> Nil, limit |-> l]] : l \in {Nil, 0, 101}} \cup
  {[op |-> "archive-board", by |-> "adm", board |-> "home"]} \cup
  {[op |-> "set-board-member", by |-> "adm", board |-> "other", user |-> "mnt",
    role |-> "maintainer"]} \cup
  {[op |-> "remove-board-member", by |-> "mnt", board |-> "home", user |-> "mnt"]} \cup
  {[op |-> "create-category", by |-> "adm", slug |-> "c1", name |-> "new",
    cross |-> FALSE, boards |-> {"home"}]} \cup
  {[op |-> "update-category", by |-> "adm", cat |-> "c1", 
    set |-> [name |-> "new", cross |-> Nil], boards |-> bs] : bs \in {Nil, {"other"}, {"home"}}} \cup
  {[op |-> "delete-category", by |-> "adm", cat |-> "c1"]} \cup
  {[op |-> "create-post", by |-> "mnt", board |-> "home", tags |-> {"c1"}]} \cup
  {[op |-> "edit-post", by |-> "mnt", post |-> "p1", tags |-> s] :
     s \in {{"c1"}, {"c2"}}}
=============================================================================
