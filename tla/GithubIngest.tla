---------------------------- MODULE GithubIngest ----------------------------
(***************************************************************************)
(* GitHub webhooks becoming posts and comments: Handler.ServeHTTP and      *)
(* contentWriter (api/internal/github), one action per statement that      *)
(* reaches the database, and GitHub's side of a delivery: it is sent, the  *)
(* sender may stop waiting, and what was not answered with 200 is sent     *)
(* again (github/doc.go, "Request flow").                                  *)
(*                                                                         *)
(* A delivery whose signature or body does not verify changes nothing and  *)
(* is not modelled.                                                        *)
(***************************************************************************)
EXTENDS Integers, Sequences

CONSTANTS Repos,
          HandleOf,   \* the handle systemUserIdentity derives for each repo
          Kinds,      \* "issue", "pull_request", "release"
          Numbers,    \* issue and pull request numbers, release ids
          Deliveries, \* X-GitHub-Delivery ids
          EventOf,    \* what each delivery reports
          Workers,    \* requests in flight at the same time
          MaxFaults   \* bound on failing statements and lost answers

Items == [repo : Repos, kind : Kinds, number : Numbers]
Actions == {"opened", "published", "closed", "merged", "ignored"}
Events == [item : Items, action : Actions]

ASSUME GithubAssumption ==
  /\ EventOf \in [Deliveries -> Events]
  /\ MaxFaults \in Nat
  /\ Workers \cap {"new", "failed", "ok"} = {}

VARIABLES mapped,   \* repos with a row in github_mappings
          users,    \* repos with a system user
          content,  \* the posts and comments with origin 'github', by id
          status,   \* of each delivery at GitHub: "new", "failed", "ok", or
                    \* the worker whose answer it waits for
          work,     \* what each worker has read so far
          dropped,  \* history variable: deliveries ignored on purpose
          hungUp,   \* history variable: deliveries GitHub did not wait for
          faults

vars == <<mapped, users, content, status, work, dropped, hungUp, faults>>

Idle == [at |-> "idle"]
Work ==
  {Idle}
  \cup [at : {"lookup", "dedupe", "findUser", "createUser", "findPost",
              "answer"}, delivery : Deliveries]
  \cup [at : {"write"}, delivery : Deliveries, post : Nat]

\* A comment names the post it hangs under, a post 0.
Row == [delivery : Deliveries, item : Items, post : Nat]

TypeOK ==
  /\ mapped \subseteq Repos
  /\ users \subseteq Repos
  /\ content \in Seq(Row)
  /\ status \in [Deliveries -> {"new", "failed", "ok"} \cup Workers]
  /\ work \in [Workers -> Work]
  /\ dropped \subseteq Deliveries
  /\ hungUp \subseteq Deliveries
  /\ faults \in 0..MaxFaults

Init ==
  /\ mapped \in SUBSET Repos
  /\ users = {}
  /\ content = << >>
  /\ status = [d \in Deliveries |-> "new"]
  /\ work = [w \in Workers |-> Idle]
  /\ dropped = {}
  /\ hungUp = {}
  /\ faults = 0

Goes(w, state) == work' = [work EXCEPT ![w] = state]
Moves(w, at) == Goes(w, [at |-> at, delivery |-> work[w].delivery])
Event(w) == EventOf[work[w].delivery]

\* The answer reaches GitHub only if it still waits for it.
Answers(w, code) ==
  LET d == work[w].delivery IN
  /\ status' = IF status[d] = w THEN [status EXCEPT ![d] = code] ELSE status
  /\ Goes(w, Idle)

\* The event is none of this instance's business: 200, nothing done.
Drops(w) ==
  /\ Answers(w, "ok")
  /\ dropped' = dropped \cup {work[w].delivery}

-----------------------------------------------------------------------------
\* GitHub's side.

Send(d, w) ==
  /\ status[d] = "new"
  /\ work[w] = Idle
  /\ status' = [status EXCEPT ![d] = w]
  /\ Goes(w, [at |-> "lookup", delivery |-> d])
  /\ UNCHANGED <<mapped, users, content, dropped, hungUp, faults>>

\* What failed is delivered again, by GitHub or from its UI.
Redeliver(d, w) ==
  /\ status[d] = "failed"
  /\ work[w] = Idle
  /\ status' = [status EXCEPT ![d] = w]
  /\ Goes(w, [at |-> "lookup", delivery |-> d])
  /\ UNCHANGED <<mapped, users, content, dropped, hungUp, faults>>

\* GitHub stops waiting; the worker may not notice in time.
GiveUp(d) ==
  /\ status[d] \in Workers
  /\ faults < MaxFaults
  /\ status' = [status EXCEPT ![d] = "failed"]
  /\ hungUp' = hungUp \cup {d}
  /\ faults' = faults + 1
  /\ UNCHANGED <<mapped, users, content, work, dropped>>

-----------------------------------------------------------------------------
\* Mutant: an unmapped repository is answered with 404.
LookUpMappingStrict(w) ==
  /\ work[w].at = "lookup"
  /\ IF Event(w).item.repo \in mapped
     THEN Moves(w, "dedupe") /\ UNCHANGED <<status, dropped>>
     ELSE Answers(w, "failed") /\ UNCHANGED dropped
  /\ UNCHANGED <<mapped, users, content, hungUp, faults>>

\* ServeHTTP looks up the mapping of the repository ...
LookUpMapping(w) ==
  /\ work[w].at = "lookup"
  /\ IF Event(w).item.repo \in mapped
     THEN Moves(w, "dedupe") /\ UNCHANGED <<status, dropped>>
     ELSE Drops(w)
  /\ UNCHANGED <<mapped, users, content, hungUp, faults>>

Processed(d) == \E i \in DOMAIN content : content[i].delivery = d

\* Mutant: only posts are searched for the delivery id.
ProcessedAsPost(d) ==
  \E i \in DOMAIN content : content[i].delivery = d /\ content[i].post = 0

\* ... HandleEvent drops a delivery that was applied before ...
DeliveryProcessed(d) == Processed(d)

\* ... or whose action has no rule ...
Dedupe(w) ==
  /\ work[w].at = "dedupe"
  /\ \/ /\ DeliveryProcessed(work[w].delivery)
        /\ Answers(w, "ok")
        /\ UNCHANGED dropped
     \/ /\ ~DeliveryProcessed(work[w].delivery)
        /\ Event(w).action = "ignored"
        /\ Drops(w)
     \/ /\ ~DeliveryProcessed(work[w].delivery)
        /\ Event(w).action # "ignored"
        /\ Moves(w, "findUser")
        /\ UNCHANGED <<status, dropped>>
  /\ UNCHANGED <<mapped, users, content, hungUp, faults>>

\* Mutant: the rules share the path of the follow-ups, without its lookup.
WithUserUnlooked(w) == Moves(w, "write")

\* Opened issues and published releases make a post without looking further.
WithUser(w) ==
  IF Event(w).action \in {"opened", "published"}
  THEN Goes(w, [at |-> "write", delivery |-> work[w].delivery, post |-> 0])
  ELSE Moves(w, "findPost")

\* ... getOrCreateSystemUser looks for the repository's user ...
FindSystemUser(w) ==
  /\ work[w].at = "findUser"
  /\ IF Event(w).item.repo \in users THEN WithUser(w)
                                     ELSE Moves(w, "createUser")
  /\ UNCHANGED <<mapped, users, content, status, dropped, hungUp, faults>>

\* ... inserts it outside any transaction, and, if a unique key refuses the
\* row, looks again: users(handle) may refuse it for another repository's sake,
\* and then the event fails ...
CreateSystemUser(w) ==
  /\ work[w].at = "createUser"
  /\ LET repo == Event(w).item.repo
         taken == \E other \in users : HandleOf[other] = HandleOf[repo]
     IN
     \/ /\ repo \in users
        /\ WithUser(w)
        /\ UNCHANGED <<users, status>>
     \/ /\ repo \notin users /\ ~taken
        /\ users' = users \cup {repo}
        /\ WithUser(w)
        /\ UNCHANGED status
     \/ /\ repo \notin users /\ taken
        /\ Answers(w, "failed")
        /\ UNCHANGED users
  /\ UNCHANGED <<mapped, content, dropped, hungUp, faults>>

PostsOf(item) ==
  {i \in DOMAIN content : content[i].item = item /\ content[i].post = 0}

\* Mutant: the lookup forgets the kind, and an issue answers for the pull
\* request of the same number.
FindPostByNumber(item) ==
  LET found == {i \in DOMAIN content : /\ content[i].item.repo = item.repo
                                      /\ content[i].item.number = item.number
                                      /\ content[i].post = 0}
  IN IF found = {} THEN {0} ELSE found

\* findPostByOriginRef, 0 for none. Of several posts it takes the one of the
\* lowest id; ids are drawn at insertion, so that may be any of them.
FindPostByOriginRef(item) ==
  IF PostsOf(item) = {} THEN {0} ELSE PostsOf(item)

\* ... a closed issue or merged pull request looks for its post ...
FindPost(w) ==
  /\ work[w].at = "findPost"
  /\ \E post \in FindPostByOriginRef(Event(w).item) :
       Goes(w, [at |-> "write", delivery |-> work[w].delivery, post |-> post])
  /\ UNCHANGED <<mapped, users, content, status, dropped, hungUp, faults>>

\* ... and one transaction stores the comment under it or a post of its own ...
Store(w) ==
  /\ work[w].at = "write"
  /\ content' = Append(content, [delivery |-> work[w].delivery,
                                 item |-> Event(w).item,
                                 post |-> work[w].post])
  /\ Moves(w, "answer")
  /\ UNCHANGED <<mapped, users, status, dropped, hungUp, faults>>

\* ... and 200.
Answer(w) ==
  /\ work[w].at = "answer"
  /\ Answers(w, "ok")
  /\ UNCHANGED <<mapped, users, content, dropped, hungUp, faults>>

\* Mutant: the error of HandleEvent is logged and answered with 200.
FailSwallowed(w) ==
  /\ work[w] # Idle
  /\ faults < MaxFaults
  /\ Answers(w, "ok")
  /\ faults' = faults + 1
  /\ UNCHANGED <<mapped, users, content, dropped, hungUp>>

\* A statement fails, or the process dies, before or after the commit: no
\* answer, or 500.
Fail(w) ==
  /\ work[w] # Idle
  /\ faults < MaxFaults
  /\ Answers(w, "failed")
  /\ faults' = faults + 1
  /\ UNCHANGED <<mapped, users, content, dropped, hungUp>>

\* The worker notices that GitHub hung up: its context is cancelled.
Cancelled(w) ==
  /\ work[w] # Idle
  /\ status[work[w].delivery] # w
  /\ Goes(w, Idle)
  /\ UNCHANGED <<mapped, users, content, status, dropped, hungUp, faults>>

\* IntegrationService.
CreateGithubMapping(repo) ==
  /\ mapped' = mapped \cup {repo}
  /\ UNCHANGED <<users, content, status, work, dropped, hungUp, faults>>

DeleteGithubMapping(repo) ==
  /\ mapped' = mapped \ {repo}
  /\ UNCHANGED <<users, content, status, work, dropped, hungUp, faults>>

-----------------------------------------------------------------------------
Handles(w) ==
  \/ LookUpMapping(w) \/ Dedupe(w) \/ FindSystemUser(w) \/ CreateSystemUser(w)
  \/ FindPost(w) \/ Store(w) \/ Answer(w)

Next ==
  \/ \E w \in Workers : Handles(w) \/ Fail(w) \/ Cancelled(w)
  \/ \E d \in Deliveries :
       \/ GiveUp(d)
       \/ \E w \in Workers : Send(d, w) \/ Redeliver(d, w)
  \/ \E repo \in Repos : CreateGithubMapping(repo) \/ DeleteGithubMapping(repo)

Spec == Init /\ [][Next]_vars

\* A goroutine that can run runs, and GitHub sends again what failed.
Fairness ==
  /\ \A w \in Workers : WF_vars(Handles(w))
  /\ \A d \in Deliveries : WF_vars(\E w \in Workers : Redeliver(d, w))

FairSpec == Spec /\ Fairness
=============================================================================
