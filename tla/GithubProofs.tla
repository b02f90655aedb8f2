---------------------------- MODULE GithubProofs ----------------------------
(***************************************************************************)
(* Proofs about GithubIngest, for every set of repositories, deliveries    *)
(* and workers: its type, that what was acknowledged is applied, and that  *)
(* follow-ups hang under their own post.                                   *)
(*                                                                         *)
(* The strengthening says what a worker has established: one that only has *)
(* to answer has stored its delivery, and the post one is about to hang a  *)
(* comment under exists and is about the same issue.                       *)
(***************************************************************************)
EXTENDS GithubProps, FiniteSetTheorems, TLAPS

Established(w) ==
  /\ work[w].at = "answer" => Processed(work[w].delivery)
  /\ work[w].at = "write" => \/ work[w].post = 0
                             \/ work[w].post \in PostsOf(Event(w).item)

Sound ==
  /\ TypeOK
  /\ AcknowledgedIsApplied
  /\ FollowUpsThreaded
  /\ \A w \in Workers : Established(w)

\* What a state of a worker may hold.
LEMMA WorkFields ==
  ASSUME TypeOK, NEW w \in Workers, work[w] # Idle
  PROVE  /\ work[w].delivery \in Deliveries
         /\ work[w].at = "write" => work[w].post \in Nat
         /\ Event(w) \in Events
<1>1. work[w] \in Work
  BY DEF TypeOK
<1>2. work[w].delivery \in Deliveries
  BY <1>1 DEF Work, Idle
<1>3. work[w].at = "write" => work[w].post \in Nat
  BY <1>1 DEF Work, Idle
<1> QED
  BY <1>2, <1>3, GithubAssumption DEF Event

\* A worker that is at some statement is not idle.
LEMMA Busy ==
  ASSUME NEW w \in Workers, work[w].at # "idle"
  PROVE  work[w] # Idle
BY DEF Idle

\* A step that stores nothing keeps the invariant if the worker it moves has
\* established what its new state claims, and whoever is told 200 is owed
\* nothing.
LEMMA NothingStored ==
  ASSUME Sound, NEW w \in Workers, NEW state \in Work, Goes(w, state),
         UNCHANGED content, TypeOK',
         dropped \subseteq dropped',
         state.at = "answer" => Processed(state.delivery),
         state.at = "write" => \/ state.post = 0
                               \/ state.post \in
                                    PostsOf(EventOf[state.delivery].item),
         \A d \in Deliveries : /\ status'[d] = "ok"
                               /\ status[d] # "ok"
                               => Processed(d) \/ d \in dropped'
  PROVE  Sound'
<1>1. AcknowledgedIsApplied'
  BY DEF Sound, AcknowledgedIsApplied, Processed
<1>2. FollowUpsThreaded'
  BY DEF Sound, FollowUpsThreaded, PostsOf
<1>3. ASSUME NEW v \in Workers PROVE Established(v)'
  <2>1. work'[v] = IF v = w THEN state ELSE work[v]
    BY DEF Goes, Sound, TypeOK
  <2>2. CASE v = w
    BY <2>1, <2>2 DEF Established, Event, Processed, PostsOf
  <2>3. CASE v # w
    BY <2>1, <2>3 DEF Sound, Established, Event, Processed, PostsOf
  <2> QED BY <2>2, <2>3
<1> QED
  BY <1>1, <1>2, <1>3 DEF Sound

\* So does one that leaves the workers and the content alone and tells nobody
\* 200.
LEMMA NothingMoved ==
  ASSUME Sound, TypeOK', UNCHANGED <<content, work, dropped>>,
         \A d \in Deliveries : status'[d] = "ok" => status[d] = "ok"
  PROVE  Sound'
BY DEF Sound, AcknowledgedIsApplied, FollowUpsThreaded, Established,
       Processed, PostsOf, Event

\* The states a worker may move to.
LEMMA MovesTyped ==
  ASSUME NEW d \in Deliveries
  PROVE  /\ \A at \in {"lookup", "dedupe", "findUser", "createUser",
                       "findPost", "answer"} :
              [at |-> at, delivery |-> d] \in Work
         /\ \A p \in Nat : [at |-> "write", delivery |-> d, post |-> p] \in Work
         /\ Idle \in Work
BY DEF Work, Idle

\* An answer keeps the types.
LEMMA AnswersTyped ==
  ASSUME TypeOK, NEW w \in Workers, work[w] # Idle,
         NEW code \in {"failed", "ok"}, Answers(w, code)
  PROVE  /\ status' \in [Deliveries -> {"new", "failed", "ok"} \cup Workers]
         /\ work' \in [Workers -> Work]
BY WorkFields, MovesTyped DEF TypeOK, Answers, Goes, Work, Idle

-----------------------------------------------------------------------------
\* What GitHub does starts a worker afresh, or takes its answer away.
LEMMA GithubStep ==
  ASSUME Sound, NEW d \in Deliveries, NEW w \in Workers,
         Send(d, w) \/ Redeliver(d, w)
  PROVE  Sound'
<1> DEFINE fresh == [at |-> "lookup", delivery |-> d]
<1>1. fresh \in Work
  BY MovesTyped
<1>2. /\ Goes(w, fresh)
      /\ status' = [status EXCEPT ![d] = w]
      /\ UNCHANGED <<mapped, users, content, dropped, hungUp, faults>>
  BY DEF Send, Redeliver
<1>3. TypeOK'
  BY <1>1, <1>2 DEF TypeOK, Sound, Goes
<1>4. \A e \in Deliveries : status'[e] = "ok" => status[e] = "ok"
  BY <1>2, GithubAssumption DEF Sound, TypeOK
<1> HIDE DEF fresh
<1>5. fresh.at = "lookup"
  BY DEF fresh
<1> QED
  BY <1>1, <1>2, <1>3, <1>4, <1>5, NothingStored

LEMMA GiveUpStep ==
  ASSUME Sound, NEW d \in Deliveries, GiveUp(d)
  PROVE  Sound'
<1>1. TypeOK'
  BY GithubAssumption DEF Sound, TypeOK, GiveUp
<1>2. \A e \in Deliveries : status'[e] = "ok" => status[e] = "ok"
  BY DEF GiveUp, Sound, TypeOK
<1> QED
  BY <1>1, <1>2, NothingMoved DEF GiveUp

\* A worker that answers, its delivery being applied or ignored if it says so.
LEMMA AnswerStep ==
  ASSUME Sound, NEW w \in Workers, work[w] # Idle,
         NEW code \in {"failed", "ok"}, Answers(w, code),
         UNCHANGED <<mapped, users, content, hungUp>>,
         faults' \in 0..MaxFaults,
         \/ UNCHANGED dropped
         \/ dropped' = dropped \cup {work[w].delivery},
         code = "ok" => \/ Processed(work[w].delivery)
                        \/ work[w].delivery \in dropped'
  PROVE  Sound'
<1>1. TypeOK'
  BY AnswersTyped, WorkFields DEF Sound, TypeOK
<1>2. \A d \in Deliveries :
        status'[d] = "ok" /\ status[d] # "ok" =>
          d = work[w].delivery /\ code = "ok"
  BY WorkFields DEF Answers, Sound, TypeOK
<1>3. Goes(w, Idle) /\ Idle \in Work /\ Idle.at = "idle"
  BY MovesTyped DEF Answers, Idle, Work
<1> QED
  BY <1>1, <1>2, <1>3, NothingStored

\* A worker that goes on without touching any table.
LEMMA MovesStep ==
  ASSUME Sound, NEW w \in Workers, work[w] # Idle,
         NEW at \in {"dedupe", "findUser", "createUser", "findPost"},
         Moves(w, at), users' \subseteq Repos,
         UNCHANGED <<mapped, content, status, dropped, hungUp, faults>>
  PROVE  Sound'
<1> DEFINE state == [at |-> at, delivery |-> work[w].delivery]
<1>1. Goes(w, state) /\ state \in Work
  BY WorkFields, MovesTyped DEF Moves, Sound
<1>2. TypeOK'
  BY <1>1 DEF Goes, Sound, TypeOK
<1>3. state.at = at
  OBVIOUS
<1> HIDE DEF state
<1> QED
  BY <1>1, <1>2, <1>3, NothingStored

\* A worker that knows the post to write under.
LEMMA WriteStep ==
  ASSUME Sound, NEW w \in Workers, work[w] # Idle,
         NEW post \in {0} \cup PostsOf(Event(w).item),
         Goes(w, [at |-> "write", delivery |-> work[w].delivery,
                  post |-> post]),
         users' \subseteq Repos,
         UNCHANGED <<mapped, content, status, dropped, hungUp, faults>>
  PROVE  Sound'
<1> DEFINE state == [at |-> "write", delivery |-> work[w].delivery,
                     post |-> post]
<1>1. post \in Nat
  BY DEF PostsOf, Sound, TypeOK
<1>2. Goes(w, state) /\ state \in Work
  BY <1>1, WorkFields, MovesTyped DEF Sound
<1>3. TypeOK'
  BY <1>2 DEF Goes, Sound, TypeOK
<1>4. /\ state.at = "write" /\ state.delivery = work[w].delivery
      /\ state.post = post
  OBVIOUS
<1>5. state.post = 0 \/ state.post \in PostsOf(EventOf[state.delivery].item)
  BY <1>4 DEF Event
<1> HIDE DEF state
<1> QED
  BY <1>2, <1>3, <1>4, <1>5, NothingStored

\* A worker that has its system user goes to the rule of its event.
LEMMA WithUserStep ==
  ASSUME Sound, NEW w \in Workers, work[w] # Idle, WithUser(w),
         users' \subseteq Repos,
         UNCHANGED <<mapped, content, status, dropped, hungUp, faults>>
  PROVE  Sound'
<1>1. CASE Event(w).action \in {"opened", "published"}
  <2>1. Goes(w, [at |-> "write", delivery |-> work[w].delivery, post |-> 0])
    BY <1>1 DEF WithUser
  <2> QED BY <2>1, WriteStep
<1>2. CASE Event(w).action \notin {"opened", "published"}
  BY <1>2, MovesStep DEF WithUser
<1> QED BY <1>1, <1>2

\* The transaction that stores the row of a delivery.
LEMMA StoreStep ==
  ASSUME Sound, NEW w \in Workers, Store(w)
  PROVE  Sound'
<1>1. work[w] # Idle
  BY Busy DEF Store
<1>2. /\ work[w].delivery \in Deliveries /\ work[w].post \in Nat
      /\ Event(w) \in Events
  BY <1>1, WorkFields DEF Store, Sound
<1>0. PICK d \in Deliveries : d = work[w].delivery
  BY <1>2
<1> DEFINE row == [delivery |-> d, item |-> Event(w).item,
                   post |-> work[w].post]
           state == [at |-> "answer", delivery |-> d]
<1>3. row \in Row
  BY <1>0, <1>2 DEF Row, Events
<1>4. state \in Work
  BY <1>2, MovesTyped
<1>5. /\ content' = Append(content, row)
      /\ work' = [work EXCEPT ![w] = state]
      /\ UNCHANGED <<mapped, users, status, dropped, hungUp, faults>>
  BY <1>0 DEF Store, Moves, Goes
<1>6. state.at = "answer" /\ state.delivery = d /\ row.delivery = d
      /\ row.item = Event(w).item /\ row.post = work[w].post
  OBVIOUS
<1>7. work[w].post = 0 \/ work[w].post \in PostsOf(Event(w).item)
  BY DEF Sound, Established, Store
<1> HIDE DEF row, state
<1>8. TypeOK'
  BY <1>3, <1>4, <1>5 DEF Sound, TypeOK
<1>9. /\ content \in Seq(Row)
      /\ DOMAIN content' = DOMAIN content \cup {Len(content) + 1}
      /\ \A i \in DOMAIN content : content'[i] = content[i] /\ i \in 1..Len(content)
      /\ content'[Len(content) + 1] = row
      /\ Len(content) \in Nat
  BY <1>3, <1>5 DEF Sound, TypeOK
<1>10. \A e \in Deliveries : Processed(e) => Processed(e)'
  BY <1>9 DEF Processed
<1>11. Processed(d)'
  BY <1>6, <1>9 DEF Processed
<1>12. \A item \in Items : PostsOf(item) \subseteq PostsOf(item)'
  BY <1>9 DEF PostsOf
<1>13. AcknowledgedIsApplied'
  BY <1>5, <1>10 DEF AcknowledgedIsApplied, Sound
<1>14. FollowUpsThreaded'
  <2> SUFFICES ASSUME NEW i \in DOMAIN content', NEW item \in Items, NEW p,
                      item = content'[i].item, p = content'[i].post, p # 0
               PROVE  p \in PostsOf(item)' /\ p < i
    <3>1. content' \in Seq(Row)
      BY <1>8 DEF TypeOK
    <3>2. ASSUME NEW i \in DOMAIN content' PROVE content'[i].item \in Items
      <4>1. content'[i] \in Row
        BY <3>1
      <4> QED BY <4>1 DEF Row
    <3> QED BY <3>2 DEF FollowUpsThreaded
  <2>1. CASE i \in DOMAIN content
    BY <2>1, <1>9, <1>12 DEF Sound, FollowUpsThreaded
  <2>2. CASE i = Len(content) + 1
    <3>1. p \in PostsOf(item)
      BY <2>2, <1>6, <1>7, <1>9
    <3>2. p \in 1..Len(content)
      BY <3>1, <1>9 DEF PostsOf
    <3> QED BY <2>2, <3>1, <3>2, <1>9, <1>12
  <2> QED BY <2>1, <2>2, <1>9
<1>15. ASSUME NEW v \in Workers PROVE Established(v)'
  <2>1. CASE v = w
    <3>1. work'[v].at = "answer" /\ work'[v].delivery = d
      BY <2>1, <1>4, <1>5, <1>6 DEF Sound, TypeOK
    <3> QED BY <3>1, <1>11 DEF Established, Processed
  <2>2. CASE v # w
    <3>1. work'[v] = work[v]
      BY <2>2, <1>5 DEF Sound, TypeOK
    <3>2. CASE work[v].at \in {"answer", "write"}
      <4>1. work[v].delivery \in Deliveries /\ Event(v) \in Events
        BY <3>2, WorkFields, Busy DEF Sound
      <4>2. Event(v).item \in Items /\ Event(v)' = Event(v)
        BY <4>1, <3>1 DEF Events, Event
      <4>3. PICK e \in Deliveries, item \in Items :
              e = work[v].delivery /\ item = Event(v).item
        BY <4>1, <4>2
      <4>4. /\ work[v].at = "answer" => Processed(e)'
            /\ work[v].at = "write" => \/ work[v].post = 0
                                       \/ work[v].post \in PostsOf(item)'
        BY <4>3, <1>10, <1>12 DEF Sound, Established
      <4> QED
        BY <4>2, <4>3, <4>4, <3>1 DEF Established, Processed, PostsOf
    <3>3. CASE work[v].at \notin {"answer", "write"}
      BY <3>1, <3>3 DEF Established
    <3> QED BY <3>2, <3>3
  <2> QED BY <2>1, <2>2
<1> QED
  BY <1>8, <1>13, <1>14, <1>15 DEF Sound

-----------------------------------------------------------------------------
\* Every step a worker takes keeps the invariant.
LEMMA HandlesStep ==
  ASSUME Sound, NEW w \in Workers, Handles(w)
  PROVE  Sound'
<1>0. faults \in 0..MaxFaults /\ users \subseteq Repos
  BY DEF Sound, TypeOK
<1>1. CASE LookUpMapping(w)
  <2>1. work[w] # Idle
    BY <1>1, Busy DEF LookUpMapping
  <2>2. CASE Event(w).item.repo \in mapped
    BY <1>0, <1>1, <2>1, <2>2, MovesStep DEF LookUpMapping
  <2>3. CASE Event(w).item.repo \notin mapped
    BY <1>0, <1>1, <2>1, <2>3, AnswerStep DEF LookUpMapping, Drops
  <2> QED BY <2>2, <2>3
<1>2. CASE Dedupe(w)
  <2>1. work[w] # Idle
    BY <1>2, Busy DEF Dedupe
  <2>2. CASE DeliveryProcessed(work[w].delivery)
    BY <1>0, <1>2, <2>1, <2>2, AnswerStep DEF Dedupe, DeliveryProcessed
  <2>3. CASE ~DeliveryProcessed(work[w].delivery)
    BY <1>0, <1>2, <2>1, <2>3, AnswerStep, MovesStep DEF Dedupe, Drops
  <2> QED BY <2>2, <2>3
<1>3. CASE FindSystemUser(w)
  <2>1. work[w] # Idle
    BY <1>3, Busy DEF FindSystemUser
  <2> QED
    BY <1>0, <1>3, <2>1, WithUserStep, MovesStep DEF FindSystemUser
<1>4. CASE CreateSystemUser(w)
  <2>1. work[w] # Idle
    BY <1>4, Busy DEF CreateSystemUser
  <2>2. CASE WithUser(w) /\ UNCHANGED status
    <3>1. Event(w).item.repo \in Repos
      BY <2>1, WorkFields DEF Sound, Events, Items
    <3>2. users' \subseteq Repos
      BY <1>0, <1>4, <3>1 DEF CreateSystemUser
    <3> QED
      BY <1>4, <2>1, <2>2, <3>2, WithUserStep DEF CreateSystemUser
  <2>3. CASE Answers(w, "failed") /\ UNCHANGED users
    BY <1>0, <1>4, <2>1, <2>3, AnswerStep DEF CreateSystemUser
  <2> QED BY <1>4, <2>2, <2>3 DEF CreateSystemUser
<1>5. CASE FindPost(w)
  <2>1. work[w] # Idle
    BY <1>5, Busy DEF FindPost
  <2>2. PICK post \in FindPostByOriginRef(Event(w).item) :
          Goes(w, [at |-> "write", delivery |-> work[w].delivery,
                   post |-> post])
    BY <1>5 DEF FindPost
  <2>3. post \in {0} \cup PostsOf(Event(w).item)
    BY DEF FindPostByOriginRef
  <2> QED
    BY <1>0, <1>5, <2>1, <2>2, <2>3, WriteStep DEF FindPost
<1>6. CASE Store(w)
  BY <1>6, StoreStep
<1>7. CASE Answer(w)
  <2>1. work[w] # Idle
    BY <1>7, Busy DEF Answer
  <2>2. Processed(work[w].delivery)
    BY <1>7 DEF Answer, Sound, Established
  <2> QED
    BY <1>0, <1>7, <2>1, <2>2, AnswerStep DEF Answer
<1> QED
  BY <1>1, <1>2, <1>3, <1>4, <1>5, <1>6, <1>7 DEF Handles

\* The invariant holds of an empty instance, whatever is mapped.
LEMMA SoundInit ==
  ASSUME Init
  PROVE  Sound
<1>1. TypeOK
  BY GithubAssumption DEF Init, TypeOK, Work
<1>2. \A d \in Deliveries : status[d] = "new"
  BY DEF Init
<1>3. DOMAIN content = {}
  BY DEF Init
<1>4. \A w \in Workers : work[w].at = "idle"
  BY DEF Init, Idle
<1> QED
  BY <1>1, <1>2, <1>3, <1>4
  DEF Sound, AcknowledgedIsApplied, FollowUpsThreaded, Established

\* Every step of the receiver, of GitHub and of an administrator keeps it.
LEMMA SoundStep ==
  ASSUME Sound, [Next]_vars
  PROVE  Sound'
<1>1. ASSUME NEW w \in Workers, Handles(w) PROVE Sound'
  BY <1>1, HandlesStep
<1>2. ASSUME NEW w \in Workers, Fail(w) PROVE Sound'
  <2>1. faults' \in 0..MaxFaults
    BY <1>2, GithubAssumption DEF Fail, Sound, TypeOK
  <2> QED
    BY <1>2, <2>1, AnswerStep DEF Fail
<1>3. ASSUME NEW w \in Workers, Cancelled(w) PROVE Sound'
  <2>1. Idle \in Work /\ Idle.at = "idle"
    BY DEF Idle, Work
  <2>2. TypeOK'
    BY <1>3, <2>1 DEF Cancelled, Goes, Sound, TypeOK
  <2> QED
    BY <1>3, <2>1, <2>2, NothingStored DEF Cancelled
<1>4. ASSUME NEW d \in Deliveries, GiveUp(d) PROVE Sound'
  BY <1>4, GiveUpStep
<1>5. ASSUME NEW d \in Deliveries, NEW w \in Workers,
             Send(d, w) \/ Redeliver(d, w)
      PROVE  Sound'
  BY <1>5, GithubStep
<1>6. ASSUME NEW repo \in Repos,
             CreateGithubMapping(repo) \/ DeleteGithubMapping(repo)
      PROVE  Sound'
  <2>1. TypeOK'
    BY <1>6 DEF CreateGithubMapping, DeleteGithubMapping, Sound, TypeOK
  <2> QED
    BY <1>6, <2>1, NothingMoved DEF CreateGithubMapping, DeleteGithubMapping
<1>7. CASE UNCHANGED vars
  <2>1. TypeOK'
    BY <1>7 DEF vars, Sound, TypeOK
  <2> QED
    BY <1>7, <2>1, NothingMoved DEF vars
<1> QED
  BY <1>1, <1>2, <1>3, <1>4, <1>5, <1>6, <1>7 DEF Next

\* The type and the strengthened invariant hold in every reachable state of
\* the receiver (contentWriter, ServeHTTP).
THEOREM AlwaysSound == Spec => []Sound
BY SoundInit, SoundStep, PTL DEF Spec

\* A delivery GitHub was told is done is in the content or was ignored on
\* purpose, however many requests, failures and redeliveries there are
\* (deliveryProcessed, ServeHTTP).
THEOREM NothingAcknowledgedIsLost == Spec => []AcknowledgedIsApplied
<1>1. Sound => AcknowledgedIsApplied
  BY DEF Sound
<1> QED
  BY <1>1, AlwaysSound, PTL

\* A comment always hangs under a post of its own issue or pull request that
\* was there before it (findPostByOriginRef).
THEOREM FollowUpsFindTheirPost == Spec => []FollowUpsThreaded
<1>1. Sound => FollowUpsThreaded
  BY DEF Sound
<1> QED
  BY <1>1, AlwaysSound, PTL

-----------------------------------------------------------------------------
(***************************************************************************)
(* Applied once. As long as GitHub waits for a delivery, one worker at     *)
(* most is at work on it, the one GitHub waits for; and a worker that has  *)
(* passed deliveryProcessed is still right that nothing is stored.         *)
(***************************************************************************)
PastDedupe == {"findUser", "createUser", "findPost", "write"}

OneWorker ==
  \A w \in Workers :
    work[w] # Idle /\ work[w].delivery \notin hungUp =>
      /\ status[work[w].delivery] = w
      /\ work[w].at \in PastDedupe => ~Processed(work[w].delivery)

OneRow ==
  \A d \in Deliveries \ hungUp : \A i, j \in RowsOf(d) : i = j

OnceInv == TypeOK /\ OneWorker /\ OneRow

\* A step of a worker that stores nothing keeps it: the worker stays with its
\* delivery, as far as it has looked, or is done with it.
LEMMA WorkerKeepsOnce ==
  ASSUME OnceInv, NEW w \in Workers, work[w] # Idle, NEW state \in Work,
         Goes(w, state), UNCHANGED <<content, hungUp>>,
         \A d \in Deliveries : status'[d] # status[d] => status[d] = w,
         state = Idle \/ /\ UNCHANGED status
                         /\ state.delivery = work[w].delivery
                         /\ state.at \in PastDedupe =>
                              \/ ~Processed(work[w].delivery)
                              \/ work[w].at \in PastDedupe
  PROVE  OneWorker' /\ OneRow'
<1>1. ASSUME NEW v \in Workers, work'[v] # Idle,
             work'[v].delivery \notin hungUp
      PROVE  /\ status'[work'[v].delivery] = v
             /\ work'[v].at \in PastDedupe => ~Processed(work'[v].delivery)
  <2>1. work'[v] = IF v = w THEN state ELSE work[v]
    BY DEF Goes, OnceInv, TypeOK
  <2>2. CASE v = w
    <3>1. /\ UNCHANGED status /\ state.delivery = work[w].delivery
          /\ state.at \in PastDedupe => \/ ~Processed(work[w].delivery)
                                        \/ work[w].at \in PastDedupe
      BY <1>1, <2>1, <2>2
    <3>2. /\ status[work[w].delivery] = w
          /\ work[w].at \in PastDedupe => ~Processed(work[w].delivery)
      BY <1>1, <2>1, <2>2, <3>1 DEF OnceInv, OneWorker
    <3> QED BY <2>1, <2>2, <3>1, <3>2
  <2>3. CASE v # w
    <3>1. work'[v] = work[v]
      BY <2>1, <2>3
    <3>2. /\ status[work[v].delivery] = v
          /\ work[v].at \in PastDedupe => ~Processed(work[v].delivery)
      BY <1>1, <3>1 DEF OnceInv, OneWorker
    <3>3. work[v].delivery \in Deliveries
      BY <1>1, <3>1, WorkFields DEF OnceInv
    <3>4. status'[work[v].delivery] = v
      BY <2>3, <3>2, <3>3
    <3> QED BY <3>1, <3>2, <3>4
  <2> QED BY <2>2, <2>3
<1>2. \A d : Processed(d)' <=> Processed(d)
  BY DEF Processed
<1>3. OneWorker'
  BY <1>1, <1>2 DEF OneWorker
<1>4. OneRow'
  BY DEF OnceInv, OneRow, RowsOf
<1> QED BY <1>3, <1>4

\* The transaction of a worker GitHub waits for is the first of its delivery.
LEMMA StoreKeepsOnce ==
  ASSUME OnceInv, NEW w \in Workers, Store(w)
  PROVE  OneWorker' /\ OneRow'
<1>1. work[w] # Idle /\ work[w].at = "write"
  BY Busy DEF Store
<1>2. PICK d \in Deliveries : d = work[w].delivery
  BY <1>1, WorkFields DEF OnceInv
<1>3. PICK row : /\ content' = Append(content, row) /\ row.delivery = d
                 /\ row \in Row
  <2> DEFINE row == [delivery |-> d, item |-> Event(w).item,
                     post |-> work[w].post]
  <2>1. work[w].post \in Nat /\ Event(w) \in Events
    BY <1>1, WorkFields DEF OnceInv
  <2>2. row \in Row
    BY <2>1 DEF Row, Events
  <2> QED
    BY <1>2, <2>2 DEF Store
<1>4. /\ \A v \in Workers :
           work'[v] = IF v = w THEN [at |-> "answer", delivery |-> d]
                               ELSE work[v]
      /\ UNCHANGED <<status, hungUp>>
  BY <1>2 DEF Store, Moves, Goes, OnceInv, TypeOK
<1>5. /\ content \in Seq(Row)
      /\ DOMAIN content' = DOMAIN content \cup {Len(content) + 1}
      /\ \A i \in DOMAIN content : content'[i] = content[i]
      /\ content'[Len(content) + 1] = row
  BY <1>3 DEF OnceInv, TypeOK
<1>6. d \notin hungUp => status[d] = w /\ ~Processed(d)
  BY <1>1, <1>2 DEF OnceInv, OneWorker, PastDedupe
<1>7. \A e : e # d => (Processed(e)' <=> Processed(e))
  BY <1>3, <1>5 DEF Processed
<1>8. ASSUME NEW v \in Workers, NEW e, e = work'[v].delivery,
             work'[v] # Idle, e \notin hungUp
      PROVE  /\ status[e] = v
             /\ work'[v].at \in PastDedupe => ~Processed(e)'
  <2>1. CASE v = w
    <3>1. e = d /\ work'[v].at = "answer"
      BY <1>4, <1>8, <2>1
    <3> QED
      BY <1>6, <1>8, <2>1, <3>1 DEF PastDedupe
  <2>2. CASE v # w
    <3>1. work'[v] = work[v] /\ work[v] # Idle /\ e = work[v].delivery
      BY <1>4, <1>8, <2>2
    <3>2. /\ status[e] = v
          /\ work[v].at \in PastDedupe => ~Processed(e)
      BY <1>8, <3>1 DEF OnceInv, OneWorker
    <3>3. e # d
      BY <1>6, <1>8, <2>2, <3>2
    <3> QED
      BY <1>7, <3>1, <3>2, <3>3
  <2> QED BY <2>1, <2>2
<1>9. OneWorker'
  <2> SUFFICES ASSUME NEW v \in Workers, work'[v] # Idle,
                      work'[v].delivery \notin hungUp
               PROVE  /\ status[work'[v].delivery] = v
                      /\ work'[v].at \in PastDedupe =>
                           ~\E i \in DOMAIN content' :
                              content'[i].delivery = work'[v].delivery
    BY <1>4 DEF OneWorker, Processed
  <2>1. PICK e : e = work'[v].delivery
    OBVIOUS
  <2>2. /\ status[e] = v
        /\ work'[v].at \in PastDedupe => ~Processed(e)'
    BY <1>8, <2>1
  <2> QED
    BY <2>1, <2>2 DEF Processed
<1>10. OneRow'
  <2> SUFFICES ASSUME NEW e \in Deliveries \ hungUp,
                      NEW i \in RowsOf(e)', NEW j \in RowsOf(e)'
               PROVE  i = j
    BY <1>4 DEF OneRow
  <2>1. CASE e = d
    BY <1>3, <1>5, <1>6, <2>1 DEF RowsOf, Processed
  <2>2. CASE e # d
    BY <1>3, <1>5, <2>2 DEF RowsOf, OnceInv, OneRow
  <2> QED BY <2>1, <2>2
<1> QED BY <1>9, <1>10

\* Where the requests in flight stand after an answer.
LEMMA AnswerKeepsOnce ==
  ASSUME OnceInv, NEW w \in Workers, work[w] # Idle, NEW code,
         Answers(w, code), UNCHANGED <<content, hungUp>>
  PROVE  OneWorker' /\ OneRow'
<1>1. \A d \in Deliveries : status'[d] # status[d] => status[d] = w
  BY WorkFields DEF Answers, OnceInv, TypeOK
<1>2. Idle \in Work /\ Goes(w, Idle)
  BY DEF Answers, Work
<1> QED
  BY <1>1, <1>2, WorkerKeepsOnce

\* ... and after a step to another statement.
LEMMA MoveKeepsOnce ==
  ASSUME OnceInv, NEW w \in Workers, work[w] # Idle, NEW state \in Work,
         Goes(w, state), UNCHANGED <<content, hungUp, status>>,
         state.delivery = work[w].delivery,
         state.at \in PastDedupe => \/ ~Processed(work[w].delivery)
                                    \/ work[w].at \in PastDedupe
  PROVE  OneWorker' /\ OneRow'
BY WorkerKeepsOnce

LEMMA WithUserKeepsOnce ==
  ASSUME OnceInv, NEW w \in Workers, work[w] # Idle, WithUser(w),
         work[w].at \in PastDedupe, UNCHANGED <<content, hungUp, status>>
  PROVE  OneWorker' /\ OneRow'
<1> DEFINE d == work[w].delivery
           write == [at |-> "write", delivery |-> d, post |-> 0]
           find == [at |-> "findPost", delivery |-> d]
<1>1. d \in Deliveries
  BY WorkFields DEF OnceInv
<1>2. write \in Work /\ find \in Work
  BY <1>1, MovesTyped
<1>3. Goes(w, write) \/ Goes(w, find)
  BY DEF WithUser, Moves
<1>4. write.delivery = d /\ find.delivery = d
  OBVIOUS
<1> HIDE DEF write, find
<1> QED
  BY <1>2, <1>3, <1>4, MoveKeepsOnce

LEMMA HandlesKeepsOnce ==
  ASSUME OnceInv, NEW w \in Workers, Handles(w)
  PROVE  OneWorker' /\ OneRow'
<1>1. CASE LookUpMapping(w)
  <2>1. work[w] # Idle /\ UNCHANGED <<content, hungUp>>
    BY <1>1, Busy DEF LookUpMapping
  <2>2. CASE Event(w).item.repo \in mapped
    <3> DEFINE state == [at |-> "dedupe", delivery |-> work[w].delivery]
    <3>1. Goes(w, state) /\ state \in Work /\ UNCHANGED status
      BY <1>1, <2>1, <2>2, WorkFields, MovesTyped
      DEF LookUpMapping, Moves, OnceInv
    <3>2. /\ state.delivery = work[w].delivery
          /\ state.at \notin PastDedupe
      BY DEF PastDedupe
    <3> HIDE DEF state
    <3> QED BY <2>1, <3>1, <3>2, MoveKeepsOnce
  <2>3. CASE Event(w).item.repo \notin mapped
    BY <1>1, <2>1, <2>3, AnswerKeepsOnce DEF LookUpMapping, Drops
  <2> QED BY <2>2, <2>3
<1>2. CASE Dedupe(w)
  <2>1. work[w] # Idle /\ UNCHANGED <<content, hungUp>>
    BY <1>2, Busy DEF Dedupe
  <2>2. CASE Answers(w, "ok")
    BY <2>1, <2>2, AnswerKeepsOnce
  <2>3. CASE /\ ~Processed(work[w].delivery)
             /\ Moves(w, "findUser") /\ UNCHANGED status
    <3> DEFINE state == [at |-> "findUser", delivery |-> work[w].delivery]
    <3>1. Goes(w, state) /\ state \in Work
      BY <2>1, <2>3, WorkFields, MovesTyped DEF Moves, OnceInv
    <3>2. state.delivery = work[w].delivery
      OBVIOUS
    <3> HIDE DEF state
    <3> QED BY <2>1, <2>3, <3>1, <3>2, MoveKeepsOnce
  <2> QED BY <1>2, <2>2, <2>3 DEF Dedupe, DeliveryProcessed, Drops
<1>3. CASE FindSystemUser(w)
  <2>1. /\ work[w] # Idle /\ UNCHANGED <<content, hungUp, status>>
        /\ work[w].at \in PastDedupe
    BY <1>3, Busy DEF FindSystemUser, PastDedupe
  <2>2. CASE WithUser(w)
    BY <2>1, <2>2, WithUserKeepsOnce
  <2>3. CASE Moves(w, "createUser")
    <3> DEFINE state == [at |-> "createUser", delivery |-> work[w].delivery]
    <3>1. Goes(w, state) /\ state \in Work
      BY <2>1, <2>3, WorkFields, MovesTyped DEF Moves, OnceInv
    <3>2. state.delivery = work[w].delivery
      OBVIOUS
    <3> HIDE DEF state
    <3> QED BY <2>1, <3>1, <3>2, MoveKeepsOnce
  <2> QED BY <1>3, <2>2, <2>3 DEF FindSystemUser
<1>4. CASE CreateSystemUser(w)
  <2>1. /\ work[w] # Idle /\ UNCHANGED <<content, hungUp>>
        /\ work[w].at \in PastDedupe
    BY <1>4, Busy DEF CreateSystemUser, PastDedupe
  <2>2. CASE WithUser(w) /\ UNCHANGED status
    BY <2>1, <2>2, WithUserKeepsOnce
  <2>3. CASE Answers(w, "failed")
    BY <2>1, <2>3, AnswerKeepsOnce
  <2> QED BY <1>4, <2>2, <2>3 DEF CreateSystemUser
<1>5. CASE FindPost(w)
  <2>1. /\ work[w] # Idle /\ UNCHANGED <<content, hungUp, status>>
        /\ work[w].at \in PastDedupe
    BY <1>5, Busy DEF FindPost, PastDedupe
  <2>2. PICK post \in FindPostByOriginRef(Event(w).item) :
          Goes(w, [at |-> "write", delivery |-> work[w].delivery,
                   post |-> post])
    BY <1>5 DEF FindPost
  <2> DEFINE state == [at |-> "write", delivery |-> work[w].delivery,
                       post |-> post]
  <2>3. post \in Nat
    BY DEF FindPostByOriginRef, PostsOf, OnceInv, TypeOK
  <2>4. Goes(w, state) /\ state \in Work
    BY <2>1, <2>2, <2>3, WorkFields, MovesTyped DEF OnceInv
  <2>5. state.delivery = work[w].delivery
    OBVIOUS
  <2> HIDE DEF state
  <2> QED BY <2>1, <2>4, <2>5, MoveKeepsOnce
<1>6. CASE Store(w)
  BY <1>6, StoreKeepsOnce
<1>7. CASE Answer(w)
  BY <1>7, Busy, AnswerKeepsOnce DEF Answer
<1> QED
  BY <1>1, <1>2, <1>3, <1>4, <1>5, <1>6, <1>7 DEF Handles

\* GitHub starts a worker on a delivery nobody else it waits for works on.
LEMMA SendKeepsOnce ==
  ASSUME OnceInv, NEW d \in Deliveries, NEW w \in Workers,
         Send(d, w) \/ Redeliver(d, w)
  PROVE  OneWorker' /\ OneRow'
<1>1. /\ status[d] \notin Workers
      /\ \A e \in Deliveries : status'[e] = IF e = d THEN w ELSE status[e]
      /\ \A v \in Workers : work'[v] = IF v = w
                                       THEN [at |-> "lookup", delivery |-> d]
                                       ELSE work[v]
      /\ UNCHANGED <<content, hungUp>>
  BY GithubAssumption DEF Send, Redeliver, Goes, OnceInv, TypeOK
<1>2. ASSUME NEW v \in Workers, work'[v] # Idle,
             work'[v].delivery \notin hungUp
      PROVE  /\ status'[work'[v].delivery] = v
             /\ work'[v].at \in PastDedupe => ~Processed(work'[v].delivery)
  <2>1. CASE v = w
    BY <1>1, <2>1 DEF PastDedupe
  <2>2. CASE v # w
    <3>1. work'[v] = work[v]
      BY <1>1, <2>2
    <3>2. /\ status[work[v].delivery] = v
          /\ work[v].at \in PastDedupe => ~Processed(work[v].delivery)
      BY <1>2, <3>1 DEF OnceInv, OneWorker
    <3>3. work[v].delivery \in Deliveries
      BY <1>2, <3>1, WorkFields DEF OnceInv
    <3>4. work[v].delivery # d
      BY <1>1, <3>2
    <3> QED BY <1>1, <3>1, <3>2, <3>3, <3>4
  <2> QED BY <2>1, <2>2
<1>3. OneWorker'
  BY <1>1, <1>2 DEF OneWorker, Processed
<1>4. OneRow'
  BY <1>1 DEF OnceInv, OneRow, RowsOf
<1> QED BY <1>3, <1>4

LEMMA OnceInit ==
  ASSUME Init
  PROVE  OnceInv
<1>1. TypeOK
  BY SoundInit DEF Sound
<1>2. OneWorker /\ OneRow
  BY DEF Init, OneWorker, OneRow, RowsOf
<1> QED BY <1>1, <1>2 DEF OnceInv

LEMMA OnceStep ==
  ASSUME OnceInv, [Next]_vars
  PROVE  OneWorker' /\ OneRow'
<1>1. ASSUME NEW w \in Workers, Handles(w) PROVE OneWorker' /\ OneRow'
  BY <1>1, HandlesKeepsOnce
<1>2. ASSUME NEW w \in Workers, Fail(w) PROVE OneWorker' /\ OneRow'
  BY <1>2, AnswerKeepsOnce DEF Fail
<1>3. ASSUME NEW w \in Workers, Cancelled(w) PROVE OneWorker' /\ OneRow'
  BY <1>3, WorkerKeepsOnce DEF Cancelled, Work
<1>4. ASSUME NEW d \in Deliveries, GiveUp(d) PROVE OneWorker' /\ OneRow'
  <2>1. /\ hungUp' = hungUp \cup {d} /\ UNCHANGED <<content, work>>
        /\ \A e \in Deliveries : e # d => status'[e] = status[e]
    BY <1>4 DEF GiveUp, OnceInv, TypeOK
  <2>2. ASSUME NEW w \in Workers, work[w] # Idle,
               work[w].delivery \notin hungUp'
        PROVE  /\ status'[work[w].delivery] = w
               /\ work[w].at \in PastDedupe => ~Processed(work[w].delivery)
    BY <2>1, <2>2, WorkFields DEF OnceInv, OneWorker
  <2>3. OneWorker'
    BY <2>1, <2>2 DEF OneWorker, Processed
  <2>4. OneRow'
    BY <2>1 DEF OnceInv, OneRow, RowsOf
  <2> QED BY <2>3, <2>4
<1>5. ASSUME NEW d \in Deliveries, NEW w \in Workers,
             Send(d, w) \/ Redeliver(d, w)
      PROVE  OneWorker' /\ OneRow'
  BY <1>5, SendKeepsOnce
<1>6. CASE UNCHANGED <<content, status, work, hungUp>>
  BY <1>6 DEF OnceInv, OneWorker, OneRow, RowsOf, Processed
<1> QED
  BY <1>1, <1>2, <1>3, <1>4, <1>5, <1>6
  DEF Next, vars, CreateGithubMapping, DeleteGithubMapping

\* The variables have their types in every reachable state of the receiver.
THEOREM TypeCorrect == Spec => []TypeOK
<1>1. Sound => TypeOK
  BY DEF Sound
<1> QED
  BY <1>1, AlwaysSound, PTL

\* A delivery GitHub never hung up on has one row at most, whatever failed,
\* before its commit or after, and however often it was sent
\* (deliveryProcessed).
THEOREM DeliveriesAreAppliedOnce == Spec => []AppliedOnce
<1>1. Init => OnceInv
  BY OnceInit
<1>2. OnceInv /\ TypeOK' /\ [Next]_vars => OnceInv'
  BY OnceStep DEF OnceInv
<1>3. OnceInv => AppliedOnce
  <2> SUFFICES ASSUME OnceInv, NEW d \in Deliveries \ hungUp
               PROVE  Cardinality(RowsOf(d)) <= 1
    BY DEF AppliedOnce
  <2>1. \A i, j \in RowsOf(d) : i = j
    BY DEF OnceInv, OneRow
  <2>2. CASE RowsOf(d) = {}
    BY <2>2, FS_EmptySet
  <2>3. CASE RowsOf(d) # {}
    <3>1. PICK i : RowsOf(d) = {i}
      BY <2>1, <2>3
    <3>2. Cardinality({i}) = 1
      BY FS_Singleton
    <3> QED BY <3>1, <3>2
  <2> QED BY <2>2, <2>3
<1> QED
  BY <1>1, <1>2, <1>3, TypeCorrect, PTL DEF Spec
=============================================================================
