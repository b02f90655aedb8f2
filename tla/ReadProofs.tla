----------------------------- MODULE ReadProofs -----------------------------
(***************************************************************************)
(* Proofs about ReadModel, for any users, posts, comments and overlapping  *)
(* requests.  The strengthening: a watermark, stored or about to be, cuts  *)
(* the comments of its post in two, those stamped up to it, which were     *)
(* seen or in flight when it was taken, and those that came later; and a   *)
(* request deletes pins of its user under its post only.                   *)
(***************************************************************************)
EXTENDS ReadProps, TLAPS

\* What mark says of the comments of post p.
Cuts(mark, p) ==
  /\ mark.at <= clock
  /\ \A c \in mark.seen \cup mark.flying : c \in Stored /\ comments[c].post = p
  /\ \A c \in Stored : comments[c].post = p =>
       (comments[c].stamp <= mark.at <=> c \in mark.seen \cup mark.flying)

Open == {"begin", "marked", "cleared"}

\* Request q is of a reader, and of nobody else's pins.
Proper(q) ==
  /\ q.user \in Readers
  /\ Cuts(q.mark, q.post)
  /\ q.before # None => q.before.at < q.mark.at
  /\ \A x \in q.dropped :
       /\ x[1] = q.user
       /\ x[2] = q.post \/ (x[2] \in Stored /\ comments[x[2]].post = q.post)

StampsPast == \A c \in Stored : comments[c].stamp <= clock
MarksCut ==
  \A u \in Readers, p \in Posts : marks[<<u, p>>] # None => Cuts(marks[<<u, p>>], p)
RequestsProper == \A r \in Requests : reqs[r].at \in Open => Proper(reqs[r])
SubsSeen ==
  \A u \in Readers : \A c \in Comments : subs[<<u, c>>] # "none" => c \in Visible

Inv == TypeOK /\ StampsPast /\ MarksCut /\ RequestsProper /\ SubsSeen

-----------------------------------------------------------------------------
\* What a request that is under way carries.
LEMMA RequestFields ==
  ASSUME NEW q \in Request, q.at \in Open
  PROVE  /\ q.user \in Users /\ q.post \in Posts /\ q.mark \in Mark
         /\ q.before \in Mark \cup {None}
         /\ q.dropped \in SUBSET (Users \X Items)
BY DEF Request, Idle, Done, Open

\* The fields of a watermark and of a comment.
LEMMA MarkFields ==
  ASSUME NEW mark \in Mark
  PROVE  /\ mark.at \in Int /\ mark.seen \subseteq Comments
         /\ mark.flying \subseteq Comments
BY ReadModelAssumption DEF Mark, Time

LEMMA RowFields ==
  ASSUME TypeOK, NEW c \in Stored
  PROVE  /\ c \in Comments /\ comments[c] \in CommentRow
         /\ comments[c].post \in Posts /\ comments[c].stamp \in Int
         /\ comments[c].author \in Users /\ comments[c].path \in Seq(Comments)
         /\ comments[c].committed \in BOOLEAN
<1>1. c \in Comments /\ comments[c] \in CommentRow
  BY DEF TypeOK, Stored
<1> QED
  BY <1>1, ReadModelAssumption DEF CommentRow, Time

\* Of the comments a step knows, none moves and none is stamped anew; those it
\* adds are stamped later.
Grows ==
  /\ clock \in Int /\ clock' \in Int /\ clock <= clock'
  /\ \A c \in Stored : /\ c \in Stored'
                       /\ comments'[c].post = comments[c].post
                       /\ comments'[c].stamp = comments[c].stamp
                       /\ comments'[c].author = comments[c].author
                       /\ comments'[c].path = comments[c].path
                       /\ comments[c].committed => comments'[c].committed
  /\ \A c \in Stored' : c \notin Stored =>
       /\ comments'[c].stamp = clock' /\ clock < clock'
       /\ ~comments'[c].committed

LEMMA CutsStays ==
  ASSUME TypeOK, Grows, NEW mark \in Mark, NEW p, Cuts(mark, p)
  PROVE  Cuts(mark, p)'
<1>1. mark.at \in Int /\ mark.at <= clock'
  BY MarkFields DEF Grows, Cuts
<1>2. ASSUME NEW c \in mark.seen \cup mark.flying
      PROVE  c \in Stored' /\ comments'[c].post = p
  BY DEF Cuts, Grows
<1>3. ASSUME NEW c \in Stored', comments'[c].post = p
      PROVE  comments'[c].stamp <= mark.at <=> c \in mark.seen \cup mark.flying
  <2>1. CASE c \in Stored
    BY <1>3, <2>1 DEF Cuts, Grows
  <2>2. CASE c \notin Stored
    <3>1. c \notin mark.seen \cup mark.flying
      BY <2>2 DEF Cuts
    <3>2. comments'[c].stamp = clock' /\ mark.at < clock'
      BY <1>1, <1>3, <2>2 DEF Grows, Cuts
    <3> QED BY <1>1, <3>1, <3>2 DEF Grows
  <2> QED BY <2>1, <2>2
<1> QED
  BY <1>1, <1>2, <1>3 DEF Cuts

LEMMA ProperStays ==
  ASSUME TypeOK, Grows, NEW q \in Request, q.at \in Open, Proper(q)
  PROVE  Proper(q)'
<1>1. Cuts(q.mark, q.post)'
  BY RequestFields, CutsStays DEF Proper
<1>2. \A x \in q.dropped :
        /\ x[1] = q.user
        /\ x[2] = q.post \/ (x[2] \in Stored' /\ comments'[x[2]].post = q.post)
  BY DEF Proper, Grows
<1> QED
  BY <1>1, <1>2 DEF Proper

\* Which comments a step leaves alone, and what it does to a row.
LEMMA InsertGrows ==
  ASSUME Inv, NEW u \in Writers, InsertComment(u)
  PROVE  /\ Grows /\ clock' \in Time /\ Visible' = Visible
         /\ comments' \in [Comments -> CommentRow \cup {None}]
<1>1. /\ clock \in Nat /\ clock' = clock + 1 /\ clock' \in Time
  BY ReadModelAssumption DEF Inv, TypeOK, Time, InsertComment, Tick
<1>2. PICK c \in Comments \ Stored, p \in Posts \ buried,
           parent \in Visible \cup {None} :
        comments' = [comments EXCEPT ![c] =
            [post |-> p, author |-> u, stamp |-> clock', committed |-> FALSE,
             path |-> IF parent = None THEN <<c>>
                      ELSE Append(comments[parent].path, c)]]
  BY DEF InsertComment
<1>3. PICK path : path = IF parent = None THEN <<c>>
                         ELSE Append(comments[parent].path, c)
  OBVIOUS
<1>4. path \in Seq(Comments)
  <2>1. CASE parent = None
    BY <1>3, <2>1
  <2>2. CASE parent # None
    <3>1. parent \in Stored
      BY <2>2 DEF Visible
    <3>2. comments[parent].path \in Seq(Comments)
      BY <3>1, RowFields DEF Inv
    <3> QED BY <1>3, <2>2, <3>2
  <2> QED BY <2>1, <2>2
<1>5. PICK row : row = [post |-> p, author |-> u, stamp |-> clock',
                        committed |-> FALSE, path |-> path]
  OBVIOUS
<1>6. comments' = [comments EXCEPT ![c] = row]
  BY <1>2, <1>3, <1>5
<1>7. row \in CommentRow /\ row.stamp = clock' /\ row.committed = FALSE
  BY <1>1, <1>4, <1>5, ReadModelAssumption DEF CommentRow
<1>8. row # None
  BY <1>7, NoneIsNoRow
<1>9. \A d \in Comments : comments'[d] = IF d = c THEN row ELSE comments[d]
  BY <1>6 DEF Inv, TypeOK
<1>10. Stored' = Stored \cup {c}
  BY <1>8, <1>9 DEF Stored
<1>11. Visible' = Visible
  BY <1>7, <1>9, <1>10 DEF Visible, Stored
<1>12. Grows
  BY <1>1, <1>7, <1>9, <1>10 DEF Grows, Stored
<1>13. comments' \in [Comments -> CommentRow \cup {None}]
  BY <1>6, <1>7 DEF Inv, TypeOK
<1> QED BY <1>1, <1>11, <1>12, <1>13

LEMMA CommitGrows ==
  ASSUME Inv, NEW c \in Comments, CommitComment(c)
  PROVE  /\ Grows /\ UNCHANGED clock
         /\ Visible' = Visible \cup {c} /\ c \notin Visible
         /\ comments' \in [Comments -> CommentRow \cup {None}]
<1>1. c \in Stored /\ c \notin Visible /\ clock' = clock /\ clock \in Int
  BY ReadModelAssumption DEF CommitComment, Inv, TypeOK, Time
<1>2. PICK old : old = comments[c]
  OBVIOUS
<1>3. old \in CommentRow
  BY <1>1, <1>2, RowFields DEF Inv
<1>4. PICK row : row = [old EXCEPT !.committed = TRUE]
  OBVIOUS
<1>5. /\ row \in CommentRow /\ row.post = old.post /\ row.stamp = old.stamp
      /\ row.author = old.author /\ row.path = old.path /\ row.committed = TRUE
  BY <1>3, <1>4 DEF CommentRow
<1>6. comments' = [comments EXCEPT ![c] = row]
  BY <1>2, <1>4 DEF CommitComment
<1>7. \A d \in Comments : comments'[d] = IF d = c THEN row ELSE comments[d]
  BY <1>6 DEF Inv, TypeOK
<1>8. row # None
  BY <1>5, NoneIsNoRow
<1>9. Stored' = Stored
  BY <1>1, <1>7, <1>8 DEF Stored
<1>10. Visible' = Visible \cup {c}
  BY <1>1, <1>5, <1>7, <1>9 DEF Visible, Stored
<1>11. Grows
  BY <1>1, <1>2, <1>5, <1>7, <1>9 DEF Grows, Stored
<1>12. comments' \in [Comments -> CommentRow \cup {None}]
  BY <1>5, <1>6 DEF Inv, TypeOK
<1> QED BY <1>1, <1>10, <1>11, <1>12

LEMMA StillGrows ==
  ASSUME TypeOK, UNCHANGED comments,
         clock' = clock \/ clock' = clock + 1
  PROVE  Grows /\ Visible' = Visible /\ Stored' = Stored
<1>1. clock \in Int /\ clock' \in Int /\ clock <= clock'
  BY ReadModelAssumption DEF TypeOK, Time
<1>2. Stored' = Stored /\ Visible' = Visible
  BY DEF Stored, Visible
<1> QED BY <1>1, <1>2 DEF Grows

LEMMA StampsStay ==
  ASSUME TypeOK, StampsPast, Grows
  PROVE  StampsPast'
<1> SUFFICES ASSUME NEW c \in Stored' PROVE comments'[c].stamp <= clock'
  BY DEF StampsPast
<1>1. CASE c \in Stored
  BY <1>1, RowFields DEF StampsPast, Grows
<1>2. CASE c \notin Stored
  BY <1>2 DEF Grows
<1> QED BY <1>1, <1>2

\* The rest of the invariant, from what a step does to its parts.
LEMMA PartsKeepInv ==
  ASSUME Inv, Grows, TypeOK',
         \A u \in Readers, p \in Posts : \/ marks'[<<u, p>>] = marks[<<u, p>>]
                                         \/ Cuts(marks[<<u, p>>], p)',
         \A r \in Requests : \/ reqs'[r] = reqs[r]
                             \/ reqs'[r].at \in Open => Proper(reqs[r])',
         \A u \in Readers : \A c \in Comments :
           subs'[<<u, c>>] # "none" => c \in Visible'
  PROVE  Inv'
<1>1. StampsPast'
  BY StampsStay DEF Inv
<1>2. MarksCut'
  <2> SUFFICES ASSUME NEW u \in Readers, NEW p \in Posts, marks'[<<u, p>>] # None
               PROVE  Cuts(marks[<<u, p>>], p)'
    BY DEF MarksCut
  <2>1. CASE marks'[<<u, p>>] = marks[<<u, p>>]
    <3>1. PICK mark : mark = marks[<<u, p>>]
      OBVIOUS
    <3>2. mark \in Mark /\ Cuts(mark, p)
      BY <2>1, <3>1 DEF Inv, TypeOK, MarksCut
    <3>3. Cuts(mark, p)'
      BY <3>2, CutsStays DEF Inv
    <3> QED BY <2>1, <3>1, <3>3 DEF Cuts
  <2> QED BY <2>1
<1>3. RequestsProper'
  <2> SUFFICES ASSUME NEW r \in Requests, reqs'[r].at \in Open
               PROVE  Proper(reqs[r])'
    BY DEF RequestsProper
  <2>1. CASE reqs'[r] = reqs[r]
    <3>1. PICK q : q = reqs[r]
      OBVIOUS
    <3>2. q \in Request /\ q.at \in Open /\ Proper(q)
      BY <2>1, <3>1 DEF Inv, TypeOK, RequestsProper
    <3>3. Proper(q)'
      BY <3>2, ProperStays DEF Inv
    <3> QED BY <2>1, <3>1, <3>3 DEF Proper, Cuts
  <2> QED BY <2>1
<1>4. SubsSeen'
  BY DEF SubsSeen
<1> QED BY <1>1, <1>2, <1>3, <1>4 DEF Inv

-----------------------------------------------------------------------------
\* The steps that leave marks and requests alone.
LEMMA InsertKeeps ==
  ASSUME Inv, NEW u \in Writers, InsertComment(u)
  PROVE  Inv'
<1>1. /\ Grows /\ clock' \in Time /\ Visible' = Visible
      /\ comments' \in [Comments -> CommentRow \cup {None}]
  BY InsertGrows
<1>2. UNCHANGED <<buried, subs, marks, pins, reqs, changes>>
  BY DEF InsertComment
<1>3. TypeOK'
  BY <1>1, <1>2 DEF Inv, TypeOK
<1> QED
  BY <1>1, <1>2, <1>3, PartsKeepInv DEF Inv, SubsSeen

LEMMA CommitKeeps ==
  ASSUME Inv, NEW c \in Comments, CommitComment(c)
  PROVE  Inv'
<1>1. /\ Grows /\ UNCHANGED clock /\ Visible' = Visible \cup {c}
      /\ comments' \in [Comments -> CommentRow \cup {None}]
  BY CommitGrows
<1>2. UNCHANGED <<buried, subs, marks, pins, reqs, changes>>
  BY DEF CommitComment
<1>3. TypeOK'
  BY <1>1, <1>2 DEF Inv, TypeOK
<1> QED
  BY <1>1, <1>2, <1>3, PartsKeepInv DEF Inv, SubsSeen

\* Nothing but what is deleted, pinned or unpinned.
LEMMA PinsKeep ==
  ASSUME Inv, UNCHANGED <<clock, comments, subs, marks, reqs>>,
         buried' \subseteq Items, pins' \subseteq Users \X Items,
         changes' \in 0..MaxChanges
  PROVE  Inv'
<1>1. Grows /\ Visible' = Visible
  BY StillGrows DEF Inv
<1>2. TypeOK'
  BY DEF Inv, TypeOK
<1> QED
  BY <1>1, <1>2, PartsKeepInv DEF Inv, SubsSeen

LEMMA SetSubscriptionKeeps ==
  ASSUME Inv, NEW u \in Readers, SetSubscription(u)
  PROVE  Inv'
<1>1. PICK t \in Boards \cup Posts \cup Visible,
           level \in {"none", "on", "muted"} :
        subs' = [subs EXCEPT ![<<u, t>>] = level]
  BY DEF SetSubscription
<1>2. UNCHANGED <<clock, comments, buried, marks, pins, reqs>>
  BY DEF SetSubscription
<1>3. Grows /\ Visible' = Visible
  BY <1>2, StillGrows DEF Inv
<1>4. changes' \in 0..MaxChanges
  BY ReadModelAssumption DEF Inv, TypeOK, SetSubscription
<1>5. t \in Targets
  BY DEF Targets, Items, Visible, Stored
<1>6. subs' \in [Readers \X Targets -> {"none", "on", "muted"}]
  BY <1>1, <1>5 DEF Inv, TypeOK
<1>7. TypeOK'
  BY <1>2, <1>4, <1>6 DEF Inv, TypeOK
<1>8. ASSUME NEW v \in Readers, NEW c \in Comments, subs'[<<v, c>>] # "none"
      PROVE  c \in Visible
  <2>1. c \in Targets
    BY DEF Targets, Items
  <2>2. CASE v = u /\ c = t
    BY <2>2, ReadModelAssumption
  <2>3. CASE ~(v = u /\ c = t)
    <3>1. subs'[<<v, c>>] = subs[<<v, c>>]
      BY <1>1, <2>1, <2>3 DEF Inv, TypeOK
    <3> QED BY <1>8, <3>1 DEF Inv, SubsSeen
  <2> QED BY <2>2, <2>3
<1> QED
  BY <1>2, <1>3, <1>7, <1>8, PartsKeepInv

\* One request goes to a state that is proper, and no mark changes.
LEMMA RequestKeeps ==
  ASSUME Inv, NEW r \in Requests, NEW q \in Request,
         reqs' = [reqs EXCEPT ![r] = q],
         q.at \in Open => Proper(q)',
         clock' = clock \/ clock' = clock + 1, clock' \in Time,
         UNCHANGED <<comments, buried, subs, marks, pins, changes>>
  PROVE  Inv'
<1>1. Grows /\ Visible' = Visible
  BY StillGrows DEF Inv
<1>2. reqs' \in [Requests -> Request]
  BY DEF Inv, TypeOK
<1>3. TypeOK'
  BY <1>2 DEF Inv, TypeOK
<1>4. \A p \in Requests : reqs'[p] = IF p = r THEN q ELSE reqs[p]
  BY DEF Inv, TypeOK
<1>5. ASSUME NEW p \in Requests
      PROVE  reqs'[p] = reqs[p] \/ (reqs'[p].at \in Open => Proper(reqs[p])')
  <2>1. CASE p = r
    BY <1>4, <2>1 DEF Proper, Cuts
  <2>2. CASE p # r
    BY <1>4, <2>2
  <2> QED BY <2>1, <2>2
<1> QED
  BY <1>1, <1>3, <1>5, PartsKeepInv DEF Inv, SubsSeen

\* The watermark that is taken cuts at the time it is taken: every comment
\* there is has been stamped before.
LEMMA MarkPostReadKeeps ==
  ASSUME Inv, NEW u \in Readers, NEW r \in Requests, MarkPostRead(r, u)
  PROVE  Inv'
<1>1. /\ clock \in Nat /\ clock' = clock + 1 /\ clock' \in Time
      /\ UNCHANGED <<comments, buried, subs, marks, pins, changes>>
  BY ReadModelAssumption DEF Inv, TypeOK, Time, MarkPostRead, Tick
<1>2. PICK p \in Posts :
       reqs' = [reqs EXCEPT ![r] =
         [at |-> "begin", user |-> u, post |-> p, before |-> marks[<<u, p>>],
          mark |-> [at |-> clock', seen |-> CommentsOf(p),
                    flying |-> {c \in Stored \ Visible : comments[c].post = p}],
          dropped |-> {}]]
  BY DEF MarkPostRead
<1>3. PICK seen, flying :
        /\ seen = CommentsOf(p)
        /\ flying = {c \in Stored \ Visible : comments[c].post = p}
  OBVIOUS
<1>4. PICK mark : mark = [at |-> clock', seen |-> seen, flying |-> flying]
  OBVIOUS
<1>5. PICK before : before = marks[<<u, p>>]
  OBVIOUS
<1>6. PICK q : q = [at |-> "begin", user |-> u, post |-> p, before |-> before,
                    mark |-> mark, dropped |-> {}]
  OBVIOUS
<1>7. reqs' = [reqs EXCEPT ![r] = q]
  BY <1>2, <1>3, <1>4, <1>5, <1>6
<1>8. seen \subseteq Comments /\ flying \subseteq Comments
  BY <1>3 DEF CommentsOf, Visible, Stored
<1>9. /\ mark \in Mark /\ mark.at = clock' /\ mark.seen = seen
      /\ mark.flying = flying
  BY <1>1, <1>4, <1>8 DEF Mark
<1>10. before \in Mark \cup {None}
  BY <1>5 DEF Inv, TypeOK
<1>11. /\ q \in Request
       /\ q.user = u /\ q.post = p /\ q.before = before /\ q.mark = mark
       /\ q.dropped = {}
  BY <1>6, <1>9, <1>10, ReadModelAssumption DEF Request
<1>12. Stored' = Stored
  BY <1>1 DEF Stored
<1>13. \A c \in Stored : comments[c].stamp \in Int /\ comments[c].stamp <= clock
  BY RowFields DEF Inv, StampsPast
<1>14. \A c \in Stored : c \in seen \cup flying <=> comments[c].post = p
  BY <1>3 DEF CommentsOf, Visible
<1>15. \A c \in seen \cup flying : c \in Stored
  BY <1>3 DEF CommentsOf, Visible
<1>16. Cuts(mark, p)'
  <2>1. \A c \in Stored : comments'[c].stamp <= mark.at
    BY <1>1, <1>9, <1>13
  <2> QED
    BY <1>1, <1>9, <1>12, <1>14, <1>15, <2>1 DEF Cuts
<1>17. before # None => before.at < mark.at
  <2> SUFFICES ASSUME before # None PROVE before.at < mark.at
    OBVIOUS
  <2>1. before \in Mark /\ Cuts(before, p)
    BY <1>5, <1>10 DEF Inv, MarksCut
  <2>2. before.at \in Int /\ before.at <= clock
    BY <2>1, MarkFields DEF Cuts
  <2> QED BY <1>1, <1>9, <2>2
<1>18. Proper(q)'
  BY <1>11, <1>16, <1>17 DEF Proper
<1> QED
  BY <1>1, <1>7, <1>11, <1>18, RequestKeeps

\* A request that goes on with the watermark it took.
LEMMA UpsertMarkKeeps ==
  ASSUME Inv, NEW r \in Requests, UpsertMark(r)
  PROVE  Inv'
<1>1. PICK old : old = reqs[r]
  OBVIOUS
<1>2. old \in Request /\ old.at = "begin" /\ Proper(old)
  BY <1>1 DEF Inv, TypeOK, RequestsProper, UpsertMark, Open
<1>3. PICK q : q = [old EXCEPT !.at = "marked"]
  OBVIOUS
<1>4. /\ q \in Request /\ q.user = old.user /\ q.post = old.post
      /\ q.mark = old.mark /\ q.before = old.before /\ q.dropped = old.dropped
  BY <1>2, <1>3 DEF Request, Idle, Done
<1>5. reqs' = [reqs EXCEPT ![r] = q]
  BY <1>1, <1>3 DEF UpsertMark
<1>6. UNCHANGED <<clock, comments, buried, subs, marks, pins, changes>>
  BY DEF UpsertMark
<1>7. Proper(q)
  BY <1>2, <1>4 DEF Proper
<1>8. Proper(q)'
  BY <1>6, <1>7 DEF Proper, Cuts, Stored
<1>9. clock' \in Time
  BY <1>6 DEF Inv, TypeOK
<1> QED
  BY <1>4, <1>5, <1>6, <1>8, <1>9, RequestKeeps

LEMMA DeletePinsKeeps ==
  ASSUME Inv, NEW r \in Requests, DeletePins(r)
  PROVE  Inv'
<1>1. PICK old : old = reqs[r]
  OBVIOUS
<1>2. old \in Request /\ old.at = "marked" /\ Proper(old)
  BY <1>1 DEF Inv, TypeOK, RequestsProper, DeletePins, Open
<1>3. PICK dropped : dropped = PinsUnder(old.user, old.post)
  OBVIOUS
<1>4. dropped \in SUBSET (Users \X Items)
  BY <1>3 DEF PinsUnder, Inv, TypeOK
<1>5. PICK q : q = [old EXCEPT !.at = "cleared", !.dropped = dropped]
  OBVIOUS
<1>6. /\ q \in Request /\ q.user = old.user /\ q.post = old.post
      /\ q.mark = old.mark /\ q.before = old.before /\ q.dropped = dropped
  <2>1. old = [at |-> old.at, user |-> old.user, post |-> old.post,
               mark |-> old.mark, before |-> old.before,
               dropped |-> old.dropped]
    BY <1>2 DEF Request, Idle, Done
  <2>2. /\ old.user \in Users /\ old.post \in Posts /\ old.mark \in Mark
        /\ old.before \in Mark \cup {None}
    BY <1>2, RequestFields DEF Open
  <2>3. q = [at |-> "cleared", user |-> old.user, post |-> old.post,
             mark |-> old.mark, before |-> old.before, dropped |-> dropped]
    BY <1>5, <2>1
  <2> QED BY <1>4, <2>2, <2>3 DEF Request
<1>7. reqs' = [reqs EXCEPT ![r] = q]
  BY <1>1, <1>3, <1>5 DEF DeletePins, Inv, TypeOK
<1>8. UNCHANGED <<clock, comments, buried, subs, marks, pins, changes>>
  BY DEF DeletePins
<1>9. \A x \in dropped :
        /\ x[1] = old.user
        /\ x[2] = old.post \/ (x[2] \in Stored /\ comments[x[2]].post = old.post)
  BY <1>3 DEF PinsUnder, CommentsOf, Visible
<1>10. Proper(q)
  BY <1>2, <1>6, <1>9 DEF Proper
<1>11. Proper(q)'
  BY <1>8, <1>10 DEF Proper, Cuts, Stored
<1>12. clock' \in Time
  BY <1>8 DEF Inv, TypeOK
<1> QED
  BY <1>6, <1>7, <1>8, <1>11, <1>12, RequestKeeps

LEMMA RollbackKeeps ==
  ASSUME Inv, NEW r \in Requests, Rollback(r)
  PROVE  Inv'
<1>1. Idle \in Request /\ Idle.at \notin Open
  BY DEF Idle, Request, Open
<1>2. clock' \in Time
  BY DEF Inv, TypeOK, Rollback
<1> QED
  BY <1>1, <1>2, RequestKeeps DEF Rollback

\* What a commit writes.
LEMMA CommitWrites ==
  ASSUME Inv, NEW r \in Requests, CommitMarkRead(r)
  PROVE  \E q \in Request :
           /\ q = reqs[r] /\ q.at = "cleared" /\ Proper(q)
           /\ q.user \in Readers /\ q.post \in Posts /\ q.mark \in Mark
           /\ marks' = [marks EXCEPT ![<<q.user, q.post>>] = q.mark]
           /\ pins' = pins \ q.dropped
           /\ reqs' = [reqs EXCEPT ![r] = Done]
           /\ UNCHANGED <<clock, comments, buried, subs, changes>>
<1>1. PICK q : q = reqs[r]
  OBVIOUS
<1>2. q \in Request /\ q.at = "cleared" /\ Proper(q)
  BY <1>1 DEF Inv, TypeOK, RequestsProper, CommitMarkRead, Open
<1>3. q.user \in Readers /\ q.post \in Posts /\ q.mark \in Mark
  BY <1>2, RequestFields DEF Open, Proper
<1>4. marks' = [marks EXCEPT ![<<q.user, q.post>>] = q.mark]
  BY <1>1 DEF CommitMarkRead, MarkWritten
<1> QED
  BY <1>1, <1>2, <1>3, <1>4 DEF CommitMarkRead

LEMMA CommitMarkReadKeeps ==
  ASSUME Inv, NEW r \in Requests, CommitMarkRead(r)
  PROVE  Inv'
<1>1. PICK q \in Request :
           /\ q = reqs[r] /\ q.at = "cleared" /\ Proper(q)
           /\ q.user \in Readers /\ q.post \in Posts /\ q.mark \in Mark
           /\ marks' = [marks EXCEPT ![<<q.user, q.post>>] = q.mark]
           /\ pins' = pins \ q.dropped
           /\ reqs' = [reqs EXCEPT ![r] = Done]
           /\ UNCHANGED <<clock, comments, buried, subs, changes>>
  BY CommitWrites
<1>2. Grows /\ Visible' = Visible
  BY <1>1, StillGrows DEF Inv
<1>3. Done \in Request /\ Done.at \notin Open
  BY DEF Done, Request, Open
<1>4. /\ marks' \in [Readers \X Posts -> Mark \cup {None}]
      /\ reqs' \in [Requests -> Request]
  BY <1>1, <1>3 DEF Inv, TypeOK
<1>5. TypeOK'
  BY <1>1, <1>4 DEF Inv, TypeOK
<1>6. ASSUME NEW u \in Readers, NEW p \in Posts
      PROVE  marks'[<<u, p>>] = marks[<<u, p>>] \/ Cuts(marks[<<u, p>>], p)'
  <2>1. CASE u = q.user /\ p = q.post
    <3>1. marks'[<<u, p>>] = q.mark
      BY <1>1, <2>1 DEF Inv, TypeOK
    <3>2. Cuts(q.mark, p)
      BY <1>1, <2>1 DEF Proper
    <3>3. Cuts(q.mark, p)'
      BY <1>1, <1>2, <3>2, CutsStays DEF Inv
    <3> QED BY <3>1, <3>3 DEF Cuts
  <2>2. CASE ~(u = q.user /\ p = q.post)
    BY <1>1, <2>2 DEF Inv, TypeOK
  <2> QED BY <2>1, <2>2
<1>7. \A p \in Requests : reqs'[p] = reqs[p] \/ reqs'[p].at \notin Open
  BY <1>1, <1>3 DEF Inv, TypeOK
<1> QED
  BY <1>1, <1>2, <1>5, <1>6, <1>7, PartsKeepInv DEF Inv, SubsSeen

-----------------------------------------------------------------------------
LEMMA InitInv == Init => Inv
<1> SUFFICES ASSUME Init PROVE Inv
  OBVIOUS
<1>1. Stored = {}
  BY DEF Init, Stored
<1>2. Idle \in Request /\ Idle.at \notin Open
  BY DEF Idle, Request, Open
<1>3. TypeOK
  BY <1>2, ReadModelAssumption DEF Init, TypeOK, Time, NeverRead
<1>4. MarksCut /\ RequestsProper /\ StampsPast
  BY <1>1, <1>2 DEF Init, MarksCut, RequestsProper, StampsPast, NeverRead
<1>5. SubsSeen
  BY ReadModelAssumption DEF Init, SubsSeen, Targets, Items
<1> QED BY <1>3, <1>4, <1>5 DEF Inv

LEMMA NextKeepsInv == Inv /\ [Next]_vars => Inv'
<1> SUFFICES ASSUME Inv, [Next]_vars PROVE Inv'
  OBVIOUS
<1>0. /\ buried \subseteq Items /\ pins \subseteq Users \X Items
      /\ changes \in 0..MaxChanges
  BY DEF Inv, TypeOK
<1>1. ASSUME NEW i \in Items, SoftDelete(i) PROVE Inv'
  <2>1. buried' \subseteq Items /\ changes' \in 0..MaxChanges
    BY <1>0, <1>1, ReadModelAssumption DEF SoftDelete
  <2> QED
    BY <1>0, <1>1, <2>1, PinsKeep DEF SoftDelete
<1>2. ASSUME NEW u \in Readers, ClearCommentOverride(u) PROVE Inv'
  <2>1. pins' \subseteq Users \X Items
    BY <1>0, <1>2 DEF ClearCommentOverride
  <2> QED
    BY <1>0, <1>2, <2>1, PinsKeep DEF ClearCommentOverride
<1>3. ASSUME NEW u \in Readers, MarkUnread(u) PROVE Inv'
  <2>1. pins' \subseteq Users \X Items
    BY <1>0, <1>3, ReadModelAssumption DEF MarkUnread, Items, Visible, Stored
  <2>2. changes' \in 0..MaxChanges
    BY <1>0, <1>3, ReadModelAssumption DEF MarkUnread
  <2> QED
    BY <1>0, <1>3, <2>1, <2>2, PinsKeep DEF MarkUnread
<1>4. CASE UNCHANGED vars
  BY <1>0, <1>4, PinsKeep DEF vars
<1> QED
  BY <1>1, <1>2, <1>3, <1>4, InsertKeeps, CommitKeeps, SetSubscriptionKeeps,
     MarkPostReadKeeps, UpsertMarkKeeps, DeletePinsKeeps, CommitMarkReadKeeps,
     RollbackKeeps DEF Next

LEMMA SpecInv == Spec => []Inv
BY InitInv, NextKeepsInv, PTL DEF Spec

\* The variables have their types in every reachable state.
THEOREM TypeCorrect == Spec => []TypeOK
<1>1. Inv => TypeOK
  BY DEF Inv
<1> QED
  BY <1>1, SpecInv, PTL

-----------------------------------------------------------------------------
\* What makes an item reported: its thread is in scope, it is not deleted, and
\* it is pinned or beyond the watermark.
PostReported(u, p) ==
  Reported(u, p) <=> /\ p \notin buried /\ InScope(u, p)
                     /\ <<u, p>> \in pins \/ UnreadRoot(u, p)
CommentReported(u, c) ==
  Reported(u, c) <=> /\ c \notin buried /\ InScope(u, comments[c].post)
                     /\ <<u, c>> \in pins \/ UnreadComment(u, c)

ReportedMeans ==
  \A u \in Readers : /\ \A p \in Posts : PostReported(u, p)
                     /\ \A c \in Visible : CommentReported(u, c)

LEMMA ReportedAll ==
  ASSUME NEW u \in Readers, NEW i \in Posts \cup Visible
  PROVE  Reported(u, i) <=> /\ i \notin buried /\ InScope(u, ThreadOf(i))
                            /\ UnreadItem(u, i)
<1>1. ASSUME NEW b \in Boards
      PROVE  <<i, b>> \in AllUnread(u) <=>
               /\ i \notin buried /\ <<ThreadOf(i), b>> \in ScopedPosts(u)
               /\ UnreadItem(u, i)
  BY DEF AllUnread
<1> QED BY <1>1 DEF Reported, InScope

LEMMA ReportedNow == ReportedMeans
<1>1. ASSUME NEW u \in Readers, NEW p \in Posts PROVE PostReported(u, p)
  BY ReportedAll DEF PostReported, ThreadOf, UnreadItem, Overridden
<1>2. ASSUME NEW u \in Readers, NEW c \in Visible PROVE CommentReported(u, c)
  <2>1. c \notin Posts
    BY ReadModelAssumption DEF Visible, Stored
  <2> QED
    BY <2>1, ReportedAll DEF CommentReported, ThreadOf, UnreadItem, Overridden
<1> QED BY <1>1, <1>2 DEF ReportedMeans

LEMMA ReportedNext == ReportedMeans'
BY ReportedNow, PTL

\* What a watermark says of a comment of its post.
LEMMA StampedOrSeen ==
  ASSUME TypeOK, NEW c \in Stored, NEW mark \in Mark,
         Cuts(mark, comments[c].post)
  PROVE  comments[c].stamp > mark.at <=> c \notin mark.seen \cup mark.flying
<1>1. comments[c].stamp \in Int /\ mark.at \in Int
  BY RowFields, MarkFields
<1> QED BY <1>1 DEF Cuts

\* What a user wants to hear of is hidden exactly if it was seen, or in flight,
\* when the watermark was taken: nothing that came later is ever hidden
\* (MarkPostRead, unreadSummaryQuery).
THEOREM OnlyInFlightIsMissed == Spec => []OnlyFlyingIsMissed
<1>1. Inv => OnlyFlyingIsMissed
  <2> SUFFICES ASSUME Inv, NEW u \in Readers, NEW c \in Visible \ buried,
                      NEW p, p = comments[c].post, NEW mark, mark = marks[<<u, p>>],
                      comments[c].author # u, InScope(u, p),
                      ~InMutedSubtree(u, c)
               PROVE  Reported(u, c) <=>
                        \/ <<u, c>> \in pins
                        \/ mark = None
                        \/ c \notin mark.seen \cup mark.flying
    BY DEF OnlyFlyingIsMissed
  <2>1. c \in Stored /\ p \in Posts
    BY RowFields DEF Inv, Visible
  <2>2. Reported(u, c) <=> <<u, c>> \in pins \/ UnreadComment(u, c)
    BY ReportedNow DEF ReportedMeans, CommentReported
  <2>3. UnreadComment(u, c) <=> mark = None \/ comments[c].stamp > mark.at
    BY DEF UnreadComment
  <2>4. mark # None => mark \in Mark /\ Cuts(mark, p)
    BY <2>1 DEF Inv, TypeOK, MarksCut
  <2>5. mark # None =>
          (comments[c].stamp > mark.at <=> c \notin mark.seen \cup mark.flying)
    BY <2>1, <2>4, StampedOrSeen DEF Inv
  <2> QED BY <2>2, <2>3, <2>5
<1> QED
  BY <1>1, SpecInv, PTL

-----------------------------------------------------------------------------
\* A step in which a request commits is the commit of that request.
LEMMA CommitsIsCommit ==
  ASSUME Inv, [Next]_vars, NEW r \in Requests, Commits(r)
  PROVE  CommitMarkRead(r)
<1>1. reqs[r].at = "cleared" /\ reqs'[r] = Done
  BY DEF Commits
<1>2. reqs'[r] # reqs[r]
  BY <1>1 DEF Done
<1>3. reqs \in [Requests -> Request]
  BY DEF Inv, TypeOK
<1>4. ASSUME NEW u \in Readers, NEW q \in Requests, MarkPostRead(q, u)
      PROVE  FALSE
  <2>1. q = r
    BY <1>2, <1>3, <1>4 DEF MarkPostRead
  <2> QED BY <1>1, <1>4, <2>1 DEF MarkPostRead, Idle, Done
<1>5. ASSUME NEW q \in Requests, UpsertMark(q) \/ DeletePins(q) PROVE FALSE
  <2>1. q = r
    BY <1>2, <1>3, <1>5 DEF UpsertMark, DeletePins
  <2>2. CASE UpsertMark(q)
    BY <1>1, <2>1, <2>2 DEF UpsertMark
  <2>3. CASE DeletePins(q)
    BY <1>1, <2>1, <2>3 DEF DeletePins
  <2> QED BY <1>5, <2>2, <2>3
<1>6. ASSUME NEW q \in Requests, Rollback(q) PROVE FALSE
  <2>1. q = r
    BY <1>2, <1>3, <1>6 DEF Rollback
  <2>2. reqs'[r] = Idle
    BY <1>3, <1>6, <2>1 DEF Rollback
  <2> QED BY <1>1, <2>2 DEF Idle, Done
<1>7. ASSUME NEW q \in Requests, CommitMarkRead(q) PROVE CommitMarkRead(r)
  <2>1. q = r
    BY <1>2, <1>3, <1>7 DEF CommitMarkRead
  <2> QED BY <1>7, <2>1
<1>8. CASE UNCHANGED reqs
  BY <1>2, <1>8
<1> QED
  BY <1>4, <1>5, <1>6, <1>7, <1>8
  DEF Next, vars, InsertComment, CommitComment, SoftDelete, SetSubscription,
      ClearCommentOverride, MarkUnread

Settled ==
  \A u \in Readers, r \in Requests :
    Commits(r) /\ reqs[r].user = u =>
      \A i \in {reqs[r].post} \cup reqs[r].mark.seen :
        Reported(u, i)' => <<u, i>> \in pins' \ reqs[r].dropped

\* What a committed mark-read covered is read, but for pins it did not delete.
LEMMA CommitSettles ==
  ASSUME Inv, Inv', [Next]_vars, NEW u \in Readers, NEW r \in Requests,
         Commits(r), reqs[r].user = u,
         NEW i \in {reqs[r].post} \cup reqs[r].mark.seen, Reported(u, i)'
  PROVE  <<u, i>> \in pins' \ reqs[r].dropped
<1>1. PICK q \in Request :
           /\ q = reqs[r] /\ q.at = "cleared" /\ Proper(q)
           /\ q.user \in Readers /\ q.post \in Posts /\ q.mark \in Mark
           /\ marks' = [marks EXCEPT ![<<q.user, q.post>>] = q.mark]
           /\ pins' = pins \ q.dropped
           /\ reqs' = [reqs EXCEPT ![r] = Done]
           /\ UNCHANGED <<clock, comments, buried, subs, changes>>
  BY CommitsIsCommit, CommitWrites
<1>2. marks'[<<u, q.post>>] = q.mark
  BY <1>1 DEF Inv, TypeOK
<1>3. q.mark # None
  BY <1>1, NoneIsNoRow
<1>5. CASE i = q.post
  <2>1. PostReported(u, i)'
    BY <1>1, <1>5, ReportedNext DEF ReportedMeans
  <2>2. ~UnreadRoot(u, i)'
    BY <1>2, <1>3, <1>5 DEF UnreadRoot
  <2>3. <<u, i>> \in pins'
    BY <2>1, <2>2 DEF PostReported
  <2> QED BY <1>1, <2>3
<1>6. CASE i \in q.mark.seen
  <2>1. i \in Stored /\ comments[i].post = q.post
    BY <1>1, <1>6 DEF Proper, Cuts
  <2>2. i \notin Posts
    BY <2>1, ReadModelAssumption DEF Stored
  <2>3. i \in Visible'
    <3>1. PICK b \in Boards : <<i, b>> \in AllUnread(u)'
      BY DEF Reported
    <3> QED BY <2>2, <3>1 DEF AllUnread
  <2>4. CommentReported(u, i)'
    BY <2>3, ReportedNext DEF ReportedMeans
  <2>5. ~(comments[i].stamp > q.mark.at)
    BY <1>1, <1>6, <2>1, StampedOrSeen DEF Inv, Proper
  <2>6. ~UnreadComment(u, i)'
    BY <1>1, <1>2, <1>3, <2>1, <2>5 DEF UnreadComment
  <2>7. <<u, i>> \in pins'
    BY <2>4, <2>6 DEF CommentReported
  <2> QED BY <1>1, <2>7
<1> QED BY <1>1, <1>5, <1>6

\* What mark-read covered is settled when it is answered, whatever overlapped it
\* (MarkPostRead).
THEOREM MarkReadAlwaysSettles == Spec => MarkReadSettles
<1>1. Inv /\ Inv' /\ [Next]_vars => Settled
  BY CommitSettles DEF Settled
<1>2. Inv /\ Inv' /\ [Next]_vars => [Settled]_vars
  BY <1>1
<1> QED
  BY <1>2, SpecInv, PTL DEF Spec, MarkReadSettles, Settled

-----------------------------------------------------------------------------
\* Every step only adds to the comments there are.
LEMMA NextGrows ==
  ASSUME Inv, [Next]_vars
  PROVE  Grows /\ Visible \subseteq Visible'
<1>1. ASSUME NEW u \in Readers, NEW r \in Requests, MarkPostRead(r, u)
      PROVE  Grows /\ Visible' = Visible
  BY <1>1, StillGrows DEF MarkPostRead, Tick, Inv
<1>2. ASSUME UNCHANGED <<clock, comments>>
      PROVE  Grows /\ Visible' = Visible
  BY <1>2, StillGrows DEF Inv
<1> QED
  BY <1>1, <1>2, InsertGrows, CommitGrows
  DEF Next, vars, SoftDelete, SetSubscription, ClearCommentOverride, MarkUnread,
      UpsertMark, DeletePins, CommitMarkRead, Rollback

SameSubs(u) == \A t \in Targets : subs'[<<u, t>>] = subs[<<u, t>>]

\* Comments that arrive move nothing into a reader's scope and nothing under
\* what they muted: they subscribe to what they could see.
LEMMA ScopeStays ==
  ASSUME Inv, Grows, Visible \subseteq Visible',
         NEW u \in Readers, SameSubs(u), NEW p
  PROVE  InScope(u, p)' <=> InScope(u, p)
<1>1. On(u)' = On(u) /\ Muted(u)' = Muted(u)
  BY DEF On, Muted, SameSubs
<1>2. \A t \in On(u) : t \in Comments => t \in Visible
  BY DEF On, Inv, SubsSeen
<1>3. On(u) \cap (Posts \cup Visible') = On(u) \cap (Posts \cup Visible)
  BY <1>2 DEF Visible, Stored
<1>4. \A t \in On(u) \cap (Posts \cup Visible) : ThreadOf(t)' = ThreadOf(t)
  BY DEF ThreadOf, Grows, Visible
<1>5. ScopedPosts(u)' = ScopedPosts(u)
  BY <1>1, <1>3, <1>4 DEF ScopedPosts
<1> QED BY <1>5 DEF InScope

LEMMA MutesStay ==
  ASSUME Inv, Grows, Visible \subseteq Visible',
         NEW u \in Readers, SameSubs(u), NEW c \in Visible
  PROVE  InMutedSubtree(u, c)' <=> InMutedSubtree(u, c)
<1>1. Muted(u)' = Muted(u)
  BY DEF Muted, SameSubs
<1>2. \A t \in Muted(u) : t \in Comments => t \in Visible
  BY DEF Muted, Inv, SubsSeen
<1>3. Muted(u) \cap Visible' = Muted(u) \cap Visible
  BY <1>2 DEF Visible, Stored
<1>4. \A d \in Visible : comments'[d].path = comments[d].path
  BY DEF Grows, Visible
<1> QED BY <1>1, <1>3, <1>4 DEF InMutedSubtree

\* Why item i is no longer reported to u, or is reported again: because of its
\* pin, or of the watermark on its post.
Unhidden(u, i) == /\ ~Reported(u, i) /\ Reported(u, i)'
                  /\ <<u, i>> \notin pins' \ pins
Hidden(u, i) == /\ Reported(u, i) /\ ~Reported(u, i)'
                /\ i \notin buried'
                /\ <<u, i>> \notin pins \ pins'

LEMMA PostTurns ==
  ASSUME Inv, Grows, Visible \subseteq Visible', buried \subseteq buried',
         NEW u \in Readers, SameSubs(u), NEW p \in Posts
  PROVE  /\ Unhidden(u, p) => UnreadRoot(u, p)' /\ ~UnreadRoot(u, p)
         /\ Hidden(u, p) => UnreadRoot(u, p) /\ ~UnreadRoot(u, p)'
<1>1. InScope(u, p)' <=> InScope(u, p)
  BY ScopeStays
<1>2. PostReported(u, p) /\ PostReported(u, p)'
  BY ReportedNow, ReportedNext DEF ReportedMeans
<1> QED BY <1>1, <1>2 DEF PostReported, Unhidden, Hidden

LEMMA CommentTurns ==
  ASSUME Inv, Grows, Visible \subseteq Visible', buried \subseteq buried',
         NEW u \in Readers, SameSubs(u), NEW c \in Visible
  PROVE  /\ Unhidden(u, c) => UnreadComment(u, c)' /\ ~UnreadComment(u, c)
         /\ Hidden(u, c) => UnreadComment(u, c) /\ ~UnreadComment(u, c)'
<1>1. PICK p : p = comments[c].post
  OBVIOUS
<1>2. comments'[c].post = p
  BY <1>1 DEF Grows, Visible
<1>3. InScope(u, p)' <=> InScope(u, p)
  BY ScopeStays
<1>4. CommentReported(u, c)
  BY ReportedNow DEF ReportedMeans
<1>5. CommentReported(u, c)'
  BY ReportedNext DEF ReportedMeans
<1>6. Reported(u, c) <=> /\ c \notin buried /\ InScope(u, p)
                         /\ <<u, c>> \in pins \/ UnreadComment(u, c)
  BY <1>1, <1>4 DEF CommentReported
<1>7. Reported(u, c)' <=> /\ c \notin buried' /\ InScope(u, p)'
                          /\ <<u, c>> \in pins' \/ UnreadComment(u, c)'
  BY <1>2, <1>5 DEF CommentReported, InScope
<1> QED BY <1>3, <1>6, <1>7 DEF Unhidden, Hidden

\* While the watermarks stand, only a pin does it.
LEMMA MarksStandStill ==
  ASSUME Inv, Grows, Visible \subseteq Visible', buried \subseteq buried',
         UNCHANGED marks,
         NEW u \in Readers, SameSubs(u), NEW i \in Posts \cup Visible
  PROVE  ~Unhidden(u, i) /\ ~Hidden(u, i)
<1>1. CASE i \in Posts
  BY <1>1, PostTurns DEF UnreadRoot
<1>2. CASE i \in Visible
  <2>1. InMutedSubtree(u, i)' <=> InMutedSubtree(u, i)
    BY <1>2, MutesStay
  <2>2. /\ comments'[i].post = comments[i].post
        /\ comments'[i].stamp = comments[i].stamp
        /\ comments'[i].author = comments[i].author
    BY <1>2 DEF Grows, Visible
  <2>3. UnreadComment(u, i)' <=> UnreadComment(u, i)
    BY <2>1, <2>2 DEF UnreadComment
  <2> QED BY <1>2, <2>3, CommentTurns
<1> QED BY <1>1, <1>2

\* A commit hides what its request read, and nothing else.
LEMMA CommitHides ==
  ASSUME Inv, [Next]_vars, NEW r \in Requests, CommitMarkRead(r),
         NEW u \in Readers, SameSubs(u), NEW i \in Posts \cup Visible,
         Reported(u, i), ~Reported(u, i)', i \notin buried'
  PROVE  Reads(u, i)
<1>1. PICK q \in Request :
           /\ q = reqs[r] /\ q.at = "cleared" /\ Proper(q)
           /\ q.user \in Readers /\ q.post \in Posts /\ q.mark \in Mark
           /\ marks' = [marks EXCEPT ![<<q.user, q.post>>] = q.mark]
           /\ pins' = pins \ q.dropped
           /\ reqs' = [reqs EXCEPT ![r] = Done]
           /\ UNCHANGED <<clock, comments, buried, subs, changes>>
  BY CommitWrites
<1>2. Commits(r)
  BY <1>1 DEF Commits, Inv, TypeOK
<1>3. q.user = u /\ q.post = ThreadOf(i) => Reads(u, i)
  BY <1>1, <1>2 DEF Reads
<1>4. ThreadOf(i) \in Posts /\ (i \in Comments => ThreadOf(i) = comments[i].post)
      /\ (i \in Posts => ThreadOf(i) = i)
  BY RowFields, ReadModelAssumption DEF ThreadOf, Inv, Visible
<1>5. CASE <<u, i>> \in pins \ pins'
  <2>1. <<u, i>> \in q.dropped
    BY <1>1, <1>5
  <2>2. u = q.user /\ (i = q.post \/ (i \in Stored /\ comments[i].post = q.post))
    BY <1>1, <2>1 DEF Proper
  <2>3. q.post = ThreadOf(i)
    BY <1>1, <1>4, <2>2 DEF Stored
  <2> QED BY <1>3, <2>2, <2>3
<1>6. CASE <<u, i>> \notin pins \ pins'
  <2>1. Hidden(u, i)
    BY <1>6 DEF Hidden
  <2>2. ~(q.user = u /\ q.post = ThreadOf(i)) =>
          marks'[<<u, ThreadOf(i)>>] = marks[<<u, ThreadOf(i)>>]
    BY <1>1, <1>4 DEF Inv, TypeOK
  <2>3. Grows /\ Visible \subseteq Visible'
    BY NextGrows
  <2>4. CASE i \in Posts
    <3>1. UnreadRoot(u, i) /\ ~UnreadRoot(u, i)'
      BY <1>1, <2>1, <2>3, <2>4, PostTurns
    <3>2. marks'[<<u, i>>] # marks[<<u, i>>]
      BY <3>1 DEF UnreadRoot
    <3> QED BY <1>3, <1>4, <2>2, <2>4, <3>2
  <2>5. CASE i \in Visible
    <3>1. UnreadComment(u, i) /\ ~UnreadComment(u, i)'
      BY <1>1, <2>1, <2>3, <2>5, CommentTurns
    <3>2. InMutedSubtree(u, i)' <=> InMutedSubtree(u, i)
      BY <2>3, <2>5, MutesStay
    <3>3. marks'[<<u, comments[i].post>>] # marks[<<u, comments[i].post>>]
      BY <1>1, <3>1, <3>2 DEF UnreadComment
    <3> QED BY <1>3, <1>4, <2>2, <2>5, <3>3 DEF Visible, Stored
  <2> QED BY <2>4, <2>5
<1> QED BY <1>5, <1>6

\* A commit brings an item back only over a newer watermark, and one that it
\* had not seen.
LEMMA CommitUnhides ==
  ASSUME Inv, [Next]_vars, NEW r \in Requests, CommitMarkRead(r),
         NEW u \in Readers, SameSubs(u), NEW i \in Posts \cup Visible,
         ~Reported(u, i), Reported(u, i)'
  PROVE  Commits(r) /\ Overtaken(r) /\ reqs[r].user = u /\ i \notin reqs[r].mark.seen
<1>1. PICK q \in Request :
           /\ q = reqs[r] /\ q.at = "cleared" /\ Proper(q)
           /\ q.user \in Readers /\ q.post \in Posts /\ q.mark \in Mark
           /\ marks' = [marks EXCEPT ![<<q.user, q.post>>] = q.mark]
           /\ pins' = pins \ q.dropped
           /\ reqs' = [reqs EXCEPT ![r] = Done]
           /\ UNCHANGED <<clock, comments, buried, subs, changes>>
  BY CommitWrites
<1>2. Commits(r)
  BY <1>1 DEF Commits, Inv, TypeOK
<1>3. Grows /\ Visible \subseteq Visible'
  BY NextGrows
<1>4. Unhidden(u, i)
  BY <1>1 DEF Unhidden
<1>5. q.mark # None
  BY <1>1, NoneIsNoRow
<1>6. i \notin Posts
  <2> SUFFICES ASSUME i \in Posts PROVE FALSE
    OBVIOUS
  <2>1. marks'[<<u, i>>] = None /\ marks[<<u, i>>] # None
    BY <1>1, <1>3, <1>4, PostTurns DEF UnreadRoot
  <2>2. marks'[<<u, i>>] = q.mark \/ marks'[<<u, i>>] = marks[<<u, i>>]
    BY <1>1 DEF Inv, TypeOK
  <2> QED BY <1>5, <2>1, <2>2
<1>7. i \in Visible /\ i \in Stored
  BY <1>6 DEF Visible
<1>8. PICK p, old, new : /\ p = comments[i].post /\ old = marks[<<u, p>>]
                         /\ new = marks'[<<u, p>>]
  OBVIOUS
<1>9. p \in Posts /\ comments[i].stamp \in Int
  BY <1>7, <1>8, RowFields DEF Inv
<1>10. InMutedSubtree(u, i)' <=> InMutedSubtree(u, i)
  BY <1>3, <1>7, MutesStay
<1>11. UnreadComment(u, i)' /\ ~UnreadComment(u, i)
  BY <1>1, <1>3, <1>4, <1>7, CommentTurns
<1>12. /\ new = None \/ comments[i].stamp > new.at
       /\ old # None /\ ~(comments[i].stamp > old.at)
  BY <1>1, <1>8, <1>10, <1>11 DEF UnreadComment
<1>13. q.user = u /\ q.post = p /\ new = q.mark
  <2>1. new # old
    BY <1>12
  <2> QED BY <1>1, <1>8, <1>9, <2>1 DEF Inv, TypeOK
<1>14. old \in Mark /\ old.at \in Int /\ q.mark.at \in Int
  BY <1>1, <1>8, <1>9, <1>12, MarkFields DEF Inv, TypeOK
<1>15. comments[i].stamp > q.mark.at
  BY <1>5, <1>12, <1>13
<1>16. old.at > q.mark.at
  BY <1>9, <1>12, <1>14, <1>15
<1>17. i \notin q.mark.seen
  BY <1>1, <1>7, <1>8, <1>13, <1>15, StampedOrSeen DEF Inv, Proper
<1>18. old # q.before
  <2> SUFFICES ASSUME old = q.before PROVE FALSE
    OBVIOUS
  <2>1. old.at < q.mark.at
    BY <1>1, <1>12 DEF Proper
  <2> QED BY <1>14, <1>16, <2>1
<1>19. Overtaken(r)
  BY <1>1, <1>8, <1>13, <1>16, <1>18 DEF Overtaken
<1> QED BY <1>1, <1>2, <1>13, <1>17, <1>19

TurnsAccounted(u, i) ==
  /\ Reported(u, i) /\ ~Reported(u, i)' =>
       \/ i \in buried'
       \/ Reads(u, i)
       \/ <<u, i>> \in pins \ pins' /\ i \in Comments /\ marks' = marks
  /\ ~Reported(u, i) /\ Reported(u, i)' =>
       \/ <<u, i>> \in pins' \ pins
       \/ \E r \in Requests :
            /\ Commits(r) /\ Overtaken(r)
            /\ reqs[r].user = u
            /\ i \notin reqs[r].mark.seen

LEMMA StepAccounted ==
  ASSUME Inv, [Next]_vars, NEW u \in Readers, SameSubs(u),
         NEW i \in Posts \cup Visible
  PROVE  TurnsAccounted(u, i)
<1>1. ASSUME NEW r \in Requests, CommitMarkRead(r) PROVE TurnsAccounted(u, i)
  BY <1>1, CommitHides, CommitUnhides DEF TurnsAccounted
<1>2. CASE \A r \in Requests : ~CommitMarkRead(r)
  <2>1. marks' = marks /\ buried \subseteq buried'
    BY <1>2 DEF Next, vars, InsertComment, CommitComment, SoftDelete,
       SetSubscription, ClearCommentOverride, MarkUnread, MarkPostRead,
       UpsertMark, DeletePins, Rollback
  <2>2. <<u, i>> \in pins \ pins' => i \in Comments
    <3> SUFFICES ASSUME <<u, i>> \in pins \ pins' PROVE i \in Comments
      OBVIOUS
    <3>1. PICK v \in Readers : ClearCommentOverride(v)
      BY <1>2 DEF Next, vars, InsertComment, CommitComment, SoftDelete,
         SetSubscription, MarkUnread, MarkPostRead, UpsertMark, DeletePins,
         Rollback
    <3> QED BY <3>1 DEF ClearCommentOverride, Visible, Stored
  <2>3. ~Unhidden(u, i) /\ ~Hidden(u, i)
    BY <2>1, NextGrows, MarksStandStill
  <2> QED BY <2>1, <2>2, <2>3 DEF TurnsAccounted, Unhidden, Hidden
<1> QED BY <1>1, <1>2

Accounted ==
  \A u \in Readers :
    \/ \E t \in Targets : subs'[<<u, t>>] # subs[<<u, t>>]
    \/ \A i \in Posts \cup Visible : TurnsAccounted(u, i)

\* What is unread stays so until its reader acts or it is deleted, and what was
\* read comes back only by a pin, a subscription, or an older mark-read that
\* commits over a newer one (MarkPostRead, ClearCommentOverride, MarkUnread,
\* unreadSummaryQuery).
THEOREM UnreadIsAccounted == Spec => UnreadAccounted
<1>1. Inv /\ [Next]_vars => Accounted
  BY StepAccounted DEF Accounted, SameSubs
<1>2. Inv /\ [Next]_vars => [Accounted]_vars
  BY <1>1
<1> QED
  BY <1>2, SpecInv, PTL DEF Spec, UnreadAccounted, Accounted, TurnsAccounted
=============================================================================
