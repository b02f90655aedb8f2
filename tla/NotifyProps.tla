----------------------------- MODULE NotifyProps -----------------------------
(***************************************************************************)
(* What readers are promised about notifications, over Notify.             *)
(***************************************************************************)
EXTENDS Notify

\* However often an item is edited, by however many requests at once, nobody is
\* told of it twice, neither that it is new nor that it mentions them, and its
\* author is never told (fanOutContent, fanOutMentions).
ToldOnce ==
  \A u \in Users, event \in {"new", "mention"}, i \in Items :
    /\ inbox[<<u, event, i>>] \in {0, 1}
    /\ u = AuthorOf[i] => inbox[<<u, event, i>>] = 0

-----------------------------------------------------------------------------
(***************************************************************************)
(* Who is owed a notice, by the subscriptions and settings of the moment,  *)
(* as PLANDOC.md section 4 tells it: a mute carves a hole out of a broader *)
(* subscription, a mention passes the policy of whom it mentions.          *)
(***************************************************************************)
Within(s, t) ==
  \/ s \in Items /\ t \in Boards
  \/ s \in Comments /\ t \in Posts
  \/ s \in Comments /\ t \in Ancestors(s)

Follows(u, i) ==
  \E t \in Candidates(i) :
    /\ subs[<<u, t>>] = "on"
    /\ \A s \in Candidates(i) : subs[<<u, s>>] = "muted" => Within(t, s)

Ignores(u, i) ==
  \A t \in Candidates(i) : subs[<<u, t>>] = "on" =>
    \E s \in Candidates(i) : subs[<<u, s>>] = "muted" /\ Within(s, t)

Undisturbed(r, u, aspects) ==
  \A aspect \in aspects : <<u, aspect>> \notin reqs[r].touched

\* The notices a committing creation owes to those whose subscriptions nobody
\* changed meanwhile.
NewsDue(r) ==
  LET i == reqs[r].item IN
  \A u \in Users \ {AuthorOf[i]} :
    reqs[r].kind = "create" /\ Undisturbed(r, u, {"subs"}) =>
      /\ Follows(u, i) => inbox'[<<u, "new", i>>] = 1
      /\ Ignores(u, i) => inbox'[<<u, "new", i>>] = 0

\* The mention a committing request owes, or must not send, to u: what a user
\* changed meanwhile matters only if the policy looks at it.
MentionDue(r, u, i) ==
  LET granted == <<u, AuthorOf[i]>> \in grants
      subscribed == \E t \in MentionScope(i) : subs[<<u, t>>] # "none"
      told == inbox'[<<u, "mention", i>>] = 1
  IN
  /\ policy[u] = "everyone" => told
  /\ policy[u] = "nobody" => ~told
  /\ policy[u] = "authorized" /\ Undisturbed(r, u, {"grants"}) =>
       (told <=> granted)
  /\ policy[u] = "subscribed" /\ Undisturbed(r, u, {"grants"}) /\ granted =>
       told
  /\ /\ policy[u] = "subscribed" /\ ~granted
     /\ Undisturbed(r, u, {"grants", "subs"})
     => (told <=> subscribed)

\* Although its queries see the tables at different moments, a request that
\* commits gives everybody their due: followers are told of what is new unless
\* a nearer mute stands in between, and mentions pass the policy, the grants and
\* the subscriptions of whom they mention, as long as these did not change under
\* it (fanOutContent, strongestPerUser, mentionAllowed).
EverybodyGetsTheirDue ==
  [][\A r \in Requests : Commit(r) =>
       /\ NewsDue(r)
       /\ LET i == reqs[r].item IN
          \A u \in reqs[r].handles \ {AuthorOf[i]} :
            Undisturbed(r, u, {"policy"}) /\ inbox[<<u, "mention", i>>] = 0 =>
              MentionDue(r, u, i)]_vars
==============================================================================
