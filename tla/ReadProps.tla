----------------------------- MODULE ReadProps -----------------------------
(***************************************************************************)
(* What the read model promises, over ReadModel.                           *)
(***************************************************************************)
EXTENDS ReadModel

InScope(u, p) == \E b \in Boards : <<p, b>> \in ScopedPosts(u)
Reported(u, i) == \E b \in Boards : <<i, b>> \in AllUnread(u)

\* What a watermark hides is exactly what could be seen when it was taken, and
\* what was then stamped in a transaction still open: of the comments a user
\* wants to hear of, one that is not reported although its watermark's request
\* could not see it was in flight at that time, and nothing that came later is
\* ever hidden (MarkPostRead, unreadSummaryQuery).
OnlyFlyingIsMissed ==
  \A u \in Readers : \A c \in Visible \ buried :
    LET p == comments[c].post
        mark == marks[<<u, p>>]
    IN
    /\ comments[c].author # u
    /\ InScope(u, p)
    /\ ~InMutedSubtree(u, c)
    => \/ Reported(u, c) <=>
            \/ <<u, c>> \in pins
            \/ mark = None
            \/ c \notin mark.seen \cup mark.flying

\* Request r commits in this step.
Commits(r) == reqs[r].at = "cleared" /\ reqs'[r] = Done

\* Once mark-read of a post is answered, nothing the user could see in it when
\* they asked is unread, except what they pinned after the request had deleted
\* the pins: overlapping requests, edits of subscriptions and comments that
\* arrive do not keep it from settling what it covers (MarkPostRead).
MarkReadSettles ==
  [][\A u \in Readers, r \in Requests :
       Commits(r) /\ reqs[r].user = u =>
         \A i \in {reqs[r].post} \cup reqs[r].mark.seen :
           Reported(u, i)' => <<u, i>> \in pins' \ reqs[r].dropped]_vars

Reads(u, i) ==
  \E r \in Requests :
    Commits(r) /\ reqs[r].user = u /\ reqs[r].post = ThreadOf(i)

\* Another mark-read of the same post by the same user has committed since r
\* began, and it is the later one.
Overtaken(r) ==
  LET mark == marks[<<reqs[r].user, reqs[r].post>>] IN
  /\ mark # reqs[r].before
  /\ mark.at > reqs[r].mark.at

\* An unread item stays so until its reader reads it, unpins it or changes a
\* subscription, or it is deleted; nothing anybody else does takes it off.  A
\* read item becomes unread again only by a pin or a subscription of its
\* reader, or because their older mark-read of the post was overtaken by a
\* newer one and had not seen it (MarkPostRead, ClearCommentOverride,
\* MarkUnread, unreadSummaryQuery).
UnreadAccounted ==
  [][\A u \in Readers :
       \/ \E t \in Targets : subs'[<<u, t>>] # subs[<<u, t>>]
       \/ \A i \in Posts \cup Visible :
            /\ Reported(u, i) /\ ~Reported(u, i)' =>
                 \/ i \in buried'
                 \/ Reads(u, i)
                 \/ <<u, i>> \in pins \ pins' /\ i \in Comments /\ marks' = marks
            /\ ~Reported(u, i) /\ Reported(u, i)' =>
                 \/ <<u, i>> \in pins' \ pins
                 \/ \E r \in Requests :
                      /\ Commits(r) /\ Overtaken(r)
                      /\ reqs[r].user = u
                      /\ i \notin reqs[r].mark.seen]_vars
=============================================================================
