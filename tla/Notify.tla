------------------------------- MODULE Notify -------------------------------
(***************************************************************************)
(* Who is notified of what: DBPublisher.Publish                            *)
(* (api/internal/notify/publisher.go) inside the transactions of           *)
(* ThreadService and EndorsementService, one action per query, while users *)
(* subscribe, mute and change their settings.                              *)
(*                                                                         *)
(* The notices of a request are seen when it commits.  Until then it holds *)
(* the row its first UPDATE locked: an edit the item it edits, a comment   *)
(* its post, whose counters it bumps.                                      *)
(***************************************************************************)
EXTENDS Integers, Sequences, FiniteSets, Functions

CONSTANTS Users, Boards, Posts, Comments,
          HomeOf,     \* the board of each post
          PostOf,     \* the post of each comment
          PathOf,     \* comment ids from the top level down to each comment
          AuthorOf,   \* who writes each post and comment
          Bodies,     \* the sets of users that bodies mention
          Fickle,     \* users who change their preferences in this behavior
          Requests,   \* requests in flight at the same time
          MaxChanges  \* bound on changes of preferences and on endorsements

Items == Posts \cup Comments
Targets == Boards \cup Items

ASSUME NotifyAssumption ==
  /\ HomeOf \in [Posts -> Boards]
  /\ PostOf \in [Comments -> Posts]
  /\ PathOf \in [Comments -> Seq(Comments)]
  /\ AuthorOf \in [Items -> Users]
  /\ Boards \cap Items = {} /\ Posts \cap Comments = {}
  /\ \A c \in Comments :
       LET path == PathOf[c] IN
       /\ path # << >> /\ path[Len(path)] = c
       /\ \A k \in DOMAIN path : PathOf[path[k]] = SubSeq(path, 1, k)
  /\ Bodies \subseteq SUBSET Users /\ Fickle \subseteq Users
  /\ MaxChanges \in Nat

VARIABLES created,  \* posts and comments others can see
          shown,    \* boards each post is cross-posted to by its categories
          subs,     \* subscriptions: "none", "on" or "muted"
          policy,   \* mention_policy
          grants,   \* mention_grants: <<user, granted user>>
          optedOut, \* users without notify_on_endorse
          inbox,    \* notifications of each user, event and item
          reqs,
          changes

vars == <<created, shown, subs, policy, grants, optedOut, inbox, reqs, changes>>
preferences == <<shown, subs, policy, grants, optedOut>>

Policies == {"everyone", "subscribed", "authorized", "nobody"}
Levels == {"none", "on", "muted"}
Notices == Users \X {"new", "mention", "endorsed"} \X Items

\* What a user may change while a request runs.
Aspects == {"subs", "policy", "grants", "optedOut"}

\* handles: the users the body mentions; todo: those whose gate is still to be
\* asked; gate: the one it is being asked for, with the policy read; news and
\* tell: whom to notify at the commit; touched is a history variable: what was
\* changed since the request's first statement.
Idle == [at |-> "idle"]
Request ==
  {Idle} \cup
  [at : {"subscribers", "mentioned", "policy", "grant", "scope", "settings",
         "endorsed"},
   kind : {"create", "edit", "endorse"}, item : Items, handles : SUBSET Users,
   todo : SUBSET Users, gate : {<< >>} \cup (Users \X Policies),
   news : SUBSET Users, tell : SUBSET Users,
   touched : SUBSET (Users \X Aspects)]

TypeOK ==
  /\ created \subseteq Items
  /\ shown \in [Posts -> SUBSET Boards]
  /\ subs \in [Users \X Targets -> Levels]
  /\ policy \in [Users -> Policies]
  /\ grants \subseteq Users \X Users
  /\ optedOut \subseteq Users
  /\ inbox \in [Notices -> Nat]
  /\ reqs \in [Requests -> Request]
  /\ changes \in 0..MaxChanges

\* Mutant: no default, Go's zero value stands in for a missing row.
NoDefault == ""

\* The policy of a user without a row in user_settings.
DefaultPolicy == "subscribed"

Init ==
  /\ created = {}
  /\ shown = [p \in Posts |-> {}]
  /\ subs = [s \in Users \X Targets |-> "none"]
  /\ policy = [u \in Users |-> DefaultPolicy]
  /\ grants = {}
  /\ optedOut = {}
  /\ inbox = [n \in Notices |-> 0]
  /\ reqs = [r \in Requests |-> Idle]
  /\ changes = 0

Starts(r, at, kind, item, handles) ==
  reqs' = [reqs EXCEPT ![r] =
    [at |-> at, kind |-> kind, item |-> item, handles |-> handles, todo |-> {},
     gate |-> << >>, news |-> {}, tell |-> {}, touched |-> {}]]
Goes(r, at) == reqs' = [reqs EXCEPT ![r].at = at]
Ends(r) == reqs' = [reqs EXCEPT ![r] = Idle]

-----------------------------------------------------------------------------
\* The thread an item is in.
ThreadOf(i) == IF i \in Posts THEN i ELSE PostOf[i]
Ancestors(i) == IF i \in Posts THEN {} ELSE Range(PathOf[i]) \ {i}
BoardsOf(i) == {HomeOf[ThreadOf(i)]} \cup shown[ThreadOf(i)]

\* Mutant: an edit publishes before it updates its row.
LocksOfCreation(kind, i) ==
  IF kind = "create" /\ i \in Comments THEN {PostOf[i]} ELSE {}

\* The row a request updated before it publishes.
Locks(kind, i) ==
  CASE kind = "edit" -> {i}
    [] kind = "create" /\ i \in Comments -> {PostOf[i]}
    [] OTHER -> {}

Free(rows, r) ==
  \A q \in Requests \ {r} :
    reqs[q] # Idle => Locks(reqs[q].kind, reqs[q].item) \cap rows = {}

\* CreatePost and CreateComment insert a fresh row under what is there ...
Create(r) ==
  /\ reqs[r] = Idle
  /\ \E i \in Items \ created, handles \in Bodies :
       /\ Ancestors(i) \cup ({ThreadOf(i)} \ {i}) \subseteq created
       /\ \A q \in Requests : reqs[q] # Idle => reqs[q].item # i
       /\ Free(Locks("create", i), r)
       /\ Starts(r, "subscribers", "create", i, handles)
  /\ UNCHANGED <<created, inbox, preferences, changes>>

\* ... EditPost and EditComment update theirs ...
Edit(r) ==
  /\ reqs[r] = Idle
  /\ \E i \in created, handles \in Bodies :
       /\ Free(Locks("edit", i), r)
       /\ Starts(r, "mentioned", "edit", i, handles)
  /\ UNCHANGED <<created, inbox, preferences, changes>>

\* Mutant: the post ranks with its board.
PriorityFlat(t) == IF t \in Comments THEN 2 + Len(PathOf[t]) ELSE 0

\* The rank of a subscription's target: the nearer to the content, the higher.
Priority(t) ==
  CASE t \in Boards -> 0
    [] t \in Posts -> 1
    [] t \in Comments -> 2 + Len(PathOf[t])

\* resolveContentSubscribers: every board that shows the post, and for a
\* comment the post and the comments above it.
Candidates(i) ==
  BoardsOf(i) \cup
  (IF i \in Comments THEN {PostOf[i]} \cup Ancestors(i) ELSE {})

SubscribedTo(u, targets) == {t \in targets : subs[<<u, t>>] # "none"}

\* strongestPerUser: of equal ranks the row that comes first, which may be any.
Governing(u, i) ==
  {t \in SubscribedTo(u, Candidates(i)) :
     \A s \in SubscribedTo(u, Candidates(i)) : Priority(s) <= Priority(t)}

MayBe(u, i, level) == \E t \in Governing(u, i) : subs[<<u, t>>] = level

\* ... fanOutContent asks who subscribes, all in one query ...
FanOutContent(r) ==
  /\ reqs[r].at = "subscribers"
  /\ LET i == reqs[r].item
         readers == Users \ {AuthorOf[i]}
     IN \E news \in SUBSET {u \in readers : MayBe(u, i, "on")} :
          /\ \A u \in readers \ news :
               Governing(u, i) = {} \/ MayBe(u, i, "muted")
          /\ reqs' = [reqs EXCEPT ![r].news = news, ![r].at = "mentioned"]
  /\ UNCHANGED <<created, inbox, preferences, changes>>

\* ... fanOutMentions asks who was told of a mention here before ...
FindMentioned(r) ==
  /\ reqs[r].at = "mentioned"
  /\ LET i == reqs[r].item IN
     reqs' = [reqs EXCEPT
       ![r].todo = {u \in reqs[r].handles \ {AuthorOf[i]} :
                      inbox[<<u, "mention", i>>] = 0},
       ![r].at = "policy"]
  /\ UNCHANGED <<created, inbox, preferences, changes>>

\* ... and for each of the others reads the policy ...
ReadPolicy(r) ==
  /\ reqs[r].at = "policy"
  /\ \E u \in reqs[r].todo :
       reqs' = [reqs EXCEPT ![r].todo = @ \ {u}, ![r].gate = <<u, policy[u]>>,
                            ![r].at = "grant"]
  /\ UNCHANGED <<created, inbox, preferences, changes>>

MentionGateAllows(level, inScopeOrGranted) ==
  \/ level = "everyone"
  \/ level \in {"authorized", "subscribed"} /\ inScopeOrGranted

Decides(r, inScopeOrGranted) ==
  LET u == reqs[r].gate[1] IN
  reqs' = [reqs EXCEPT
    ![r].tell = IF MentionGateAllows(reqs[r].gate[2], inScopeOrGranted)
                THEN @ \cup {u} ELSE @,
    ![r].gate = << >>,
    ![r].at = "policy"]

\* ... the grant ...
ReadGrant(r) ==
  /\ reqs[r].at = "grant"
  /\ LET granted == <<reqs[r].gate[1], AuthorOf[reqs[r].item]>> \in grants IN
     IF reqs[r].gate[2] = "subscribed" /\ ~granted
     THEN Goes(r, "scope")
     ELSE Decides(r, granted)
  /\ UNCHANGED <<created, inbox, preferences, changes>>

\* subscribedToContentScope looks at the item itself too, and at no mute.
MentionScope(i) ==
  BoardsOf(i) \cup {ThreadOf(i)} \cup
  (IF i \in Comments THEN Range(PathOf[i]) ELSE {})

\* ... and for the default policy the subscriptions.
ReadScope(r) ==
  /\ reqs[r].at = "scope"
  /\ Decides(r, SubscribedTo(reqs[r].gate[1], MentionScope(reqs[r].item)) # {})
  /\ UNCHANGED <<created, inbox, preferences, changes>>

Commit(r) ==
  /\ reqs[r].at = "policy"
  /\ reqs[r].todo = {}
  /\ LET i == reqs[r].item IN
     /\ inbox' = [n \in Notices |->
          IF n \in (reqs[r].news \X {"new"} \X {i}) \cup
                   (reqs[r].tell \X {"mention"} \X {i})
          THEN inbox[n] + 1 ELSE inbox[n]]
     /\ created' = created \cup {i}
  /\ Ends(r)
  /\ UNCHANGED <<preferences, changes>>

-----------------------------------------------------------------------------
\* An endorsement that was inserted is published ...
Endorse(r) ==
  /\ reqs[r] = Idle
  /\ changes < MaxChanges
  /\ changes' = changes + 1
  /\ \E i \in created : Starts(r, "settings", "endorse", i, {})
  /\ UNCHANGED <<created, inbox, preferences>>

\* ... fanOutEndorsement asks whether the author wants to know ...
ReadNotifyOnEndorse(r) ==
  /\ reqs[r].at = "settings"
  /\ reqs' = [reqs EXCEPT ![r].tell = {AuthorOf[reqs[r].item]} \ optedOut,
                          ![r].at = "endorsed"]
  /\ UNCHANGED <<created, inbox, preferences, changes>>

CommitEndorsement(r) ==
  /\ reqs[r].at = "endorsed"
  /\ inbox' = [n \in Notices |->
       IF n[1] \in reqs[r].tell /\ n[2] = "endorsed" /\ n[3] = reqs[r].item
       THEN inbox[n] + 1 ELSE inbox[n]]
  /\ Ends(r)
  /\ UNCHANGED <<created, preferences, changes>>

\* The request fails and its transaction rolls back.
Rollback(r) ==
  /\ reqs[r] # Idle
  /\ Ends(r)
  /\ UNCHANGED <<created, inbox, preferences, changes>>

-----------------------------------------------------------------------------
\* What users do meanwhile.

Touch(us, aspect) ==
  reqs' = [r \in Requests |->
             IF reqs[r] = Idle THEN Idle
             ELSE [reqs[r] EXCEPT !.touched = @ \cup (us \X {aspect})]]

Changes(us, aspect) ==
  /\ changes < MaxChanges
  /\ changes' = changes + 1
  /\ Touch(us, aspect)
  /\ UNCHANGED <<created, inbox>>

\* Subscribe, SetMuted and Unsubscribe, as they commit.
SetSubscription(u) ==
  /\ \E t \in Boards \cup created, level \in Levels :
       /\ level # subs[<<u, t>>]
       /\ subs' = [subs EXCEPT ![<<u, t>>] = level]
  /\ Changes({u}, "subs")
  /\ UNCHANGED <<shown, policy, grants, optedOut>>

\* UpdateUserSettings.
SetMentionPolicy(u) ==
  /\ \E p \in Policies \ {policy[u]} : policy' = [policy EXCEPT ![u] = p]
  /\ Changes({u}, "policy")
  /\ UNCHANGED <<shown, subs, grants, optedOut>>

SetNotifyOnEndorse(u) ==
  /\ optedOut' = IF u \in optedOut THEN optedOut \ {u} ELSE optedOut \cup {u}
  /\ Changes({u}, "optedOut")
  /\ UNCHANGED <<shown, subs, policy, grants>>

GrantMention(u) ==
  /\ \E v \in Users \ {u} :
       <<u, v>> \notin grants /\ grants' = grants \cup {<<u, v>>}
  /\ Changes({u}, "grants")
  /\ UNCHANGED <<shown, subs, policy, optedOut>>

RevokeMention(u) ==
  /\ \E v \in Users :
       <<u, v>> \in grants /\ grants' = grants \ {<<u, v>>}
  /\ Changes({u}, "grants")
  /\ UNCHANGED <<shown, subs, policy, optedOut>>

\* The cross-board categories of a post, or the boards of one of them, change;
\* of a post that is not there yet, those it will be created with.
ShowElsewhere(p) ==
  /\ \E bs \in SUBSET Boards :
       bs # shown[p] /\ shown' = [shown EXCEPT ![p] = bs]
  /\ Changes(Users, "subs")
  /\ UNCHANGED <<subs, policy, grants, optedOut>>

-----------------------------------------------------------------------------
Next ==
  \/ \E r \in Requests :
       \/ Create(r) \/ Edit(r) \/ FanOutContent(r) \/ FindMentioned(r)
       \/ ReadPolicy(r) \/ ReadGrant(r) \/ ReadScope(r) \/ Commit(r)
       \/ Endorse(r) \/ ReadNotifyOnEndorse(r) \/ CommitEndorsement(r)
       \/ Rollback(r)
  \/ \E u \in Fickle :
       \/ SetSubscription(u) \/ SetMentionPolicy(u) \/ SetNotifyOnEndorse(u)
       \/ GrantMention(u) \/ RevokeMention(u)
  \/ \E p \in Posts : ShowElsewhere(p)

Spec == Init /\ [][Next]_vars
=============================================================================
