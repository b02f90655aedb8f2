----------------------------- MODULE ReadModel -----------------------------
(***************************************************************************)
(* What a user has and has not read: ReadService                           *)
(* (api/internal/csilservices/read.go) over read_marks, one watermark per  *)
(* user and post, and unread_overrides, the items a user pinned as unread  *)
(* (api/internal/store/read.go).                                           *)
(*                                                                         *)
(* Three clocks disagree: a comment is stamped when it is inserted, is     *)
(* seen when its transaction commits, and a watermark holds the time       *)
(* mark-read started at.  Every stamp is taken from one clock, which moves *)
(* on with each.                                                           *)
(***************************************************************************)
EXTENDS Integers, FiniteSets, SequencesExt

CONSTANTS Users, Boards, Posts,
          Comments,   \* ids a comment can be given
          AuthorOf,   \* who wrote each post
          HomeOf,     \* the board of each post
          SharedTo,   \* boards that share a cross-board category of each post
          Readers,    \* users who mark, pin and subscribe in this behavior
          Writers,    \* users who comment
          Requests,   \* mark-read requests in flight at the same time
          Followed,   \* boards the readers subscribe to from the start
          None,       \* the absent row
          MaxClock,   \* bound on the stamps taken
          MaxChanges  \* bound on pins, deletions and changes of subscriptions

ASSUME ReadModelAssumption ==
  /\ AuthorOf \in [Posts -> Users]
  /\ HomeOf \in [Posts -> Boards]
  /\ SharedTo \in [Posts -> SUBSET Boards]
  /\ Readers \subseteq Users /\ Writers \subseteq Users
  /\ Followed \subseteq Boards
  /\ Posts \cap Comments = {} /\ Boards \cap (Posts \cup Comments) = {}
  /\ IsFiniteSet(Comments)
  /\ MaxClock \in Nat /\ MaxChanges \in Nat

VARIABLES clock,
          comments,  \* rows, those of open transactions included
          buried,    \* posts and comments with deleted_at set
          subs,      \* subscriptions of each reader: "none", "on" or "muted"
          marks,     \* read_marks: the watermark, or None
          pins,      \* unread_overrides
          reqs,      \* mark-read requests on posts
          changes

vars == <<clock, comments, buried, subs, marks, pins, reqs, changes>>

Items == Posts \cup Comments
Targets == Boards \cup Items
Time == 0..MaxClock

CommentRow == [post : Posts, author : Users, path : Seq(Comments),
               stamp : Time, committed : BOOLEAN]

\* A watermark is a time.  What else could be seen at that time, and what was
\* stamped and not yet to be seen, is history.
Mark == [at : Time, seen : SUBSET Comments, flying : SUBSET Comments]

\* The absent row is no row.
ASSUME NoneIsNoRow == None \notin CommentRow \cup Mark

\* `mark` is what the request took as it began, `dropped` the pins it deletes,
\* `before` (history) the watermark that stood when it began.
Idle == [at |-> "idle"]
Done == [at |-> "done"]
Request ==
  {Idle, Done} \cup
  [at : {"begin", "marked", "cleared"}, user : Users, post : Posts,
   mark : Mark, before : Mark \cup {None},
   dropped : SUBSET (Users \X Items)]

TypeOK ==
  /\ clock \in Time
  /\ comments \in [Comments -> CommentRow \cup {None}]
  /\ buried \subseteq Items
  /\ subs \in [Readers \X Targets -> {"none", "on", "muted"}]
  /\ marks \in [Readers \X Posts -> Mark \cup {None}]
  /\ pins \subseteq Users \X Items
  /\ reqs \in [Requests -> Request]
  /\ changes \in 0..MaxChanges

\* Mutant: Go's zero time, before every stamp, stands in for a missing row.
ZeroTime == [at |-> -1, seen |-> {}, flying |-> {}]

\* A post its reader never marked has no watermark.
NeverRead == None

Init ==
  /\ clock = 0
  /\ comments = [c \in Comments |-> None]
  /\ buried = {}
  /\ subs = [s \in Readers \X Targets |->
               IF s[2] \in Followed THEN "on" ELSE "none"]
  /\ marks = [m \in Readers \X Posts |-> NeverRead]
  /\ pins = {}
  /\ reqs = [r \in Requests |-> Idle]
  /\ changes = 0

Stored == {c \in Comments : comments[c] # None}
Visible == {c \in Stored : comments[c].committed}
CommentsOf(p) == {c \in Visible : comments[c].post = p}
ThreadOf(i) == IF i \in Posts THEN i ELSE comments[i].post
Author(i) == IF i \in Posts THEN AuthorOf[i] ELSE comments[i].author

\* One clock for every stamp.  Several processes each take their own, which are
\* as good as one as long as they agree.
Tick == clock < MaxClock /\ clock' = clock + 1

-----------------------------------------------------------------------------
\* What the rest of the program does meanwhile.

\* CreateComment stamps the row when it inserts it ...
InsertComment(u) ==
  /\ Tick
  /\ \E c \in Comments \ Stored, p \in Posts \ buried,
        parent \in Visible \cup {None} :
       /\ parent # None =>
            parent \notin buried /\ comments[parent].post = p
       /\ comments' = [comments EXCEPT ![c] =
            [post |-> p, author |-> u, stamp |-> clock', committed |-> FALSE,
             path |-> IF parent = None THEN <<c>>
                      ELSE Append(comments[parent].path, c)]]
  /\ UNCHANGED <<buried, subs, marks, pins, reqs, changes>>

\* ... and others see it at the commit; after a rollback they never do.
CommitComment(c) ==
  /\ c \in Stored \ Visible
  /\ comments' = [comments EXCEPT ![c].committed = TRUE]
  /\ UNCHANGED <<clock, buried, subs, marks, pins, reqs, changes>>

\* SoftDeletePost, SoftDeleteComment.
SoftDelete(i) ==
  /\ changes < MaxChanges /\ changes' = changes + 1
  /\ i \in (Posts \cup Visible) \ buried
  /\ buried' = buried \cup {i}
  /\ UNCHANGED <<clock, comments, subs, marks, pins, reqs>>

\* Subscribe, SetMuted and Unsubscribe, as they commit.
SetSubscription(u) ==
  /\ changes < MaxChanges /\ changes' = changes + 1
  /\ \E t \in Boards \cup Posts \cup Visible, level \in {"none", "on", "muted"} :
       /\ level # subs[<<u, t>>]
       /\ subs' = [subs EXCEPT ![<<u, t>>] = level]
  /\ UNCHANGED <<clock, comments, buried, marks, pins, reqs>>

-----------------------------------------------------------------------------
\* The unread summary: one query, one snapshot.

On(u) == {t \in Targets : subs[<<u, t>>] = "on"}
Muted(u) == {t \in Targets : subs[<<u, t>>] = "muted"}
BoardsOf(p) == {HomeOf[p]} \cup SharedTo[p]

\* scoped_posts: <<post, board>>.  A mute of the post stands against its boards
\* only, not against the post's own or a comment's subscription.
ScopedPosts(u) ==
  {<<p, HomeOf[p]>> : p \in {ThreadOf(t) : t \in On(u) \cap (Posts \cup Visible)}}
  \cup {s \in (Posts \ Muted(u)) \X On(u) : s[2] \in BoardsOf(s[1])}

InMutedSubtree(u, c) ==
  \E m \in Muted(u) \cap Visible : IsPrefix(comments[m].path, comments[c].path)

\* override_posts, override_comments.
Overridden(u, i) == <<u, i>> \in pins

UnreadComment(u, c) ==
  LET mark == marks[<<u, comments[c].post>>] IN
  /\ comments[c].author # u
  /\ mark = None \/ comments[c].stamp > mark.at
  /\ ~InMutedSubtree(u, c)

UnreadRoot(u, p) == AuthorOf[p] # u /\ marks[<<u, p>>] = None

UnreadItem(u, i) ==
  \/ Overridden(u, i)
  \/ IF i \in Posts THEN UnreadRoot(u, i) ELSE UnreadComment(u, i)

\* all_unread: <<item, board>>.
AllUnread(u) ==
  {x \in ((Posts \cup Visible) \ buried) \X Boards :
     <<ThreadOf(x[1]), x[2]>> \in ScopedPosts(u) /\ UnreadItem(u, x[1])}

-----------------------------------------------------------------------------
\* mark-read of a post.

\* MarkPostRead takes the time, before its transaction begins ...
MarkPostRead(r, u) ==
  /\ reqs[r] \in {Idle, Done}
  /\ Tick
  /\ \E p \in Posts :
       reqs' = [reqs EXCEPT ![r] =
         [at |-> "begin", user |-> u, post |-> p, before |-> marks[<<u, p>>],
          mark |-> [at |-> clock', seen |-> CommentsOf(p),
                    flying |-> {c \in Stored \ Visible : comments[c].post = p}],
          dropped |-> {}]]
  /\ UNCHANGED <<comments, buried, subs, marks, pins, changes>>

Same(r, q) == reqs[r].user = reqs[q].user /\ reqs[r].post = reqs[q].post

\* ... writes the watermark over whatever is there, which waits for another
\* transaction that has written it ...
UpsertMark(r) ==
  /\ reqs[r].at = "begin"
  /\ \A q \in Requests : reqs[q].at \in {"marked", "cleared"} => ~Same(r, q)
  /\ reqs' = [reqs EXCEPT ![r].at = "marked"]
  /\ UNCHANGED <<clock, comments, buried, subs, marks, pins, changes>>

\* The pins of the post and of every comment under it.
PinsUnder(u, p) ==
  {x \in pins : x[1] = u /\ (x[2] = p \/ x[2] \in CommentsOf(p))}

\* ... deletes the pins that are there now ...
DeletePins(r) ==
  /\ reqs[r].at = "marked"
  /\ reqs' = [reqs EXCEPT ![r].at = "cleared",
                          ![r].dropped = PinsUnder(reqs[r].user, reqs[r].post)]
  /\ UNCHANGED <<clock, comments, buried, subs, marks, pins, changes>>

\* Mutant: the stored watermark stays, as ON CONFLICT DO NOTHING would have it.
FirstMark(old, mark) == IF old = None THEN mark ELSE old

\* Mutant: the watermark is the time of the commit.
MarkAtCommit(old, mark) == [mark EXCEPT !.at = clock]

\* The stored watermark is replaced, whichever of the two is later.
MarkWritten(old, mark) == mark

\* ... and commits.
CommitMarkRead(r) ==
  /\ reqs[r].at = "cleared"
  /\ marks' = [marks EXCEPT ![<<reqs[r].user, reqs[r].post>>] =
                 MarkWritten(@, reqs[r].mark)]
  /\ pins' = pins \ reqs[r].dropped
  /\ reqs' = [reqs EXCEPT ![r] = Done]
  /\ UNCHANGED <<clock, comments, buried, subs, changes>>

Rollback(r) ==
  /\ reqs[r] \notin {Idle, Done}
  /\ reqs' = [reqs EXCEPT ![r] = Idle]
  /\ UNCHANGED <<clock, comments, buried, subs, marks, pins, changes>>

-----------------------------------------------------------------------------
\* mark-read of a comment and mark-unread: one statement each.

\* Mutant: the comment's post is read as far as the comment.
MarkCommentRead(u) ==
  /\ \E c \in Visible :
       /\ <<u, c>> \in pins /\ pins' = pins \ {<<u, c>>}
       /\ marks' = [marks EXCEPT ![<<u, comments[c].post>>] =
            [at |-> comments[c].stamp, seen |-> {c}, flying |-> {}]]
  /\ UNCHANGED <<clock, comments, buried, subs, reqs, changes>>

ClearCommentOverride(u) ==
  /\ \E c \in Visible :
       <<u, c>> \in pins /\ pins' = pins \ {<<u, c>>}
  /\ UNCHANGED <<clock, comments, buried, subs, marks, reqs, changes>>

\* The insert waits for a transaction that is deleting the same pin.
MarkUnread(u) ==
  /\ changes < MaxChanges /\ changes' = changes + 1
  /\ \E i \in Posts \cup Visible :
       /\ \A r \in Requests : reqs[r].at = "cleared" =>
            <<u, i>> \notin reqs[r].dropped
       /\ pins' = pins \cup {<<u, i>>}
  /\ UNCHANGED <<clock, comments, buried, subs, marks, reqs>>

-----------------------------------------------------------------------------
Next ==
  \/ \E u \in Writers : InsertComment(u)
  \/ \E c \in Comments : CommitComment(c)
  \/ \E i \in Items : SoftDelete(i)
  \/ \E u \in Readers :
       \/ SetSubscription(u) \/ ClearCommentOverride(u) \/ MarkUnread(u)
       \/ \E r \in Requests : MarkPostRead(r, u)
  \/ \E r \in Requests :
       \/ UpsertMark(r) \/ DeletePins(r) \/ CommitMarkRead(r) \/ Rollback(r)

Spec == Init /\ [][Next]_vars
=============================================================================
