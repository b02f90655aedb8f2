---------------------------- MODULE NotifyProofs ----------------------------
(***************************************************************************)
(* Proofs about Notify, for any thread and any requests.  Inv says what    *)
(* the row locks buy: of the requests that may notify of one item at most  *)
(* one runs, so that whom it found without a notice is without one at its  *)
(* commit.                                                                 *)
(***************************************************************************)
EXTENDS NotifyProps, WellFoundedInduction, TLAPS

\* The request notifies of its item, rather than of an endorsement.
Publishes(req) == req # Idle /\ req.kind \in {"create", "edit"}

\* Those who may yet be told that they are mentioned.
Pending(req) ==
  req.todo \cup req.tell \cup (IF req.gate = << >> THEN {} ELSE {req.gate[1]})

Right(req) ==
  /\ req # Idle =>
       /\ req.kind = "create" <=> req.item \notin created
       /\ req.at = "subscribers" => req.kind = "create"
       /\ req.kind = "endorse" <=> req.at \in {"settings", "endorsed"}
       /\ req.at \in {"grant", "scope"} => req.gate # << >>
  /\ Publishes(req) =>
       /\ req.kind = "edit" => req.news = {}
       /\ AuthorOf[req.item] \notin req.news \cup Pending(req)
       /\ \A u \in req.news : inbox[<<u, "new", req.item>>] = 0
       /\ \A u \in Pending(req) : inbox[<<u, "mention", req.item>>] = 0

Apart(q, r) ==
  Publishes(reqs[q]) /\ Publishes(reqs[r]) => reqs[q].item # reqs[r].item

\* Nobody is told of what is not there.
Unheard ==
  \A u \in Users, event \in {"new", "mention"}, i \in Items \ created :
    inbox[<<u, event, i>>] = 0

Inv ==
  /\ TypeOK
  /\ ToldOnce
  /\ Unheard
  /\ \A r \in Requests : Right(reqs[r])
  /\ \A q, r \in Requests : q # r => Apart(q, r)

-----------------------------------------------------------------------------
\* What is right stays right while no table moves.
LEMMA StaysRight ==
  ASSUME NEW q \in Requests, NEW req, Right(req), reqs'[q] = req,
         UNCHANGED <<created, inbox>>
  PROVE  Right(reqs[q])'
<1>1. Idle' = Idle
  BY DEF Idle
<1>2. Publishes(reqs[q])' <=> Publishes(req)
  BY <1>1 DEF Publishes
<1>3. Pending(reqs[q])' = Pending(req)
  BY DEF Pending
<1> QED
  BY <1>1, <1>2, <1>3 DEF Right

\* What a request carries.
LEMMA Fields ==
  ASSUME NEW req \in Request, req # Idle
  PROVE  /\ req.at \in {"subscribers", "mentioned", "policy", "grant", "scope",
                        "settings", "endorsed"}
         /\ req.kind \in {"create", "edit", "endorse"}
         /\ req.item \in Items
         /\ req.handles \subseteq Users /\ req.todo \subseteq Users
         /\ req.gate \in {<< >>} \cup (Users \X Policies)
         /\ req.news \subseteq Users /\ req.tell \subseteq Users
         /\ req.touched \subseteq Users \X Aspects
BY DEF Request, Idle

\* Nor does it mind notices of endorsements.
LEMMA SameHeard ==
  ASSUME NEW q \in Requests, Right(reqs[q]), reqs[q] \in Request,
         reqs'[q] = reqs[q], created' = created,
         \A u \in Users, event \in {"new", "mention"}, i \in Items :
           inbox'[<<u, event, i>>] = inbox[<<u, event, i>>]
  PROVE  Right(reqs[q])'
<1>1. Idle' = Idle /\ Pending(reqs[q])' = Pending(reqs[q])
  BY DEF Idle, Pending
<1>2. Publishes(reqs[q])' <=> Publishes(reqs[q])
  BY <1>1 DEF Publishes
<1>3. ASSUME Publishes(reqs[q])
      PROVE  /\ reqs[q].news \subseteq Users /\ Pending(reqs[q]) \subseteq Users
             /\ reqs[q].item \in Items
  BY <1>3, Fields DEF Publishes, Pending
<1>4. ASSUME Publishes(reqs[q])
      PROVE  /\ \A u \in reqs[q].news : inbox'[<<u, "new", reqs[q].item>>] = 0
             /\ \A u \in Pending(reqs[q]) : inbox'[<<u, "mention", reqs[q].item>>] = 0
  BY <1>3, <1>4 DEF Right
<1> QED
  BY <1>1, <1>2, <1>4 DEF Right

\* A request at a named statement is not idle.
LEMMA Busy ==
  ASSUME NEW r \in Requests, reqs[r].at # "idle"
  PROVE  reqs[r] # Idle
BY DEF Idle

\* Replacing one request by another of the same item and kind that is right
\* keeps the invariant, as long as no table moves.
LEMMA MoveKeepsInv ==
  ASSUME Inv, NEW r \in Requests, reqs[r] # Idle, NEW req \in Request,
         req # Idle, req.item = reqs[r].item, req.kind = reqs[r].kind,
         reqs' = [reqs EXCEPT ![r] = req], Right(req),
         UNCHANGED <<created, inbox, preferences, changes>>
  PROVE  Inv'
<1>1. \A q \in Requests : reqs'[q] = IF q = r THEN req ELSE reqs[q]
  BY DEF Inv, TypeOK
<1>2. TypeOK'
  BY DEF Inv, TypeOK, preferences
<1>3. ToldOnce' /\ Unheard'
  <2>1. ToldOnce'
    BY DEF Inv, ToldOnce
  <2>2. Unheard'
    BY DEF Inv, Unheard
  <2> QED
    BY <2>1, <2>2
<1>4. ASSUME NEW q \in Requests PROVE Right(reqs[q])'
  <2>1. CASE q = r
    BY <1>1, <2>1, StaysRight
  <2>2. CASE q # r
    BY <1>1, <2>2, StaysRight DEF Inv
  <2> QED
    BY <2>1, <2>2
<1>5. ASSUME NEW p \in Requests, NEW q \in Requests, p # q PROVE Apart(p, q)'
  BY <1>1, <1>5 DEF Inv, Apart, Publishes
<1> QED
  BY <1>2, <1>3, <1>4, <1>5 DEF Inv

\* So does a request that starts on an item no other is publishing.
LEMMA StartKeepsInv ==
  ASSUME Inv, NEW r \in Requests, NEW req \in Request, req # Idle,
         reqs' = [reqs EXCEPT ![r] = req], Right(req),
         Publishes(req) =>
           \A q \in Requests \ {r} :
             Publishes(reqs[q]) => reqs[q].item # req.item,
         UNCHANGED <<created, inbox, preferences>>, changes' \in 0..MaxChanges
  PROVE  Inv'
<1>1. \A q \in Requests : reqs'[q] = IF q = r THEN req ELSE reqs[q]
  BY DEF Inv, TypeOK
<1>2. TypeOK'
  BY DEF Inv, TypeOK, preferences
<1>3. ToldOnce' /\ Unheard'
  <2>1. ToldOnce'
    BY DEF Inv, ToldOnce
  <2>2. Unheard'
    BY DEF Inv, Unheard
  <2> QED
    BY <2>1, <2>2
<1>4. ASSUME NEW q \in Requests PROVE Right(reqs[q])'
  <2>1. CASE q = r
    BY <1>1, <2>1, StaysRight
  <2>2. CASE q # r
    BY <1>1, <2>2, StaysRight DEF Inv
  <2> QED
    BY <2>1, <2>2
<1>5. ASSUME NEW p \in Requests, NEW q \in Requests, p # q PROVE Apart(p, q)'
  <2>1. CASE p = r
    BY <1>1, <1>5, <2>1 DEF Apart
  <2>2. CASE q = r
    BY <1>1, <1>5, <2>2 DEF Apart
  <2>3. CASE p # r /\ q # r
    BY <1>1, <1>5, <2>3 DEF Inv, Apart
  <2> QED
    BY <2>1, <2>2, <2>3
<1> QED
  BY <1>2, <1>3, <1>4, <1>5 DEF Inv

\* And one that ends without a trace.
LEMMA EndKeepsInv ==
  ASSUME Inv, NEW r \in Requests, Ends(r),
         UNCHANGED <<created, inbox, preferences, changes>>
  PROVE  Inv'
<1>0. Idle \in Request
  BY DEF Request
<1>1. \A q \in Requests : reqs'[q] = IF q = r THEN Idle ELSE reqs[q]
  BY DEF Inv, TypeOK, Ends
<1>2. TypeOK'
  BY <1>0 DEF Inv, TypeOK, preferences, Ends
<1>3. ToldOnce' /\ Unheard'
  <2>1. ToldOnce'
    BY DEF Inv, ToldOnce
  <2>2. Unheard'
    BY DEF Inv, Unheard
  <2> QED
    BY <2>1, <2>2
<1>4. ASSUME NEW q \in Requests PROVE Right(reqs[q])'
  <2>1. CASE q = r
    <3>1. Right(Idle)
      BY DEF Right, Publishes
    <3> QED
      BY <1>1, <2>1, <3>1, StaysRight
  <2>2. CASE q # r
    BY <1>1, <2>2, StaysRight DEF Inv
  <2> QED
    BY <2>1, <2>2
<1>5. ASSUME NEW p \in Requests, NEW q \in Requests, p # q PROVE Apart(p, q)'
  BY <1>1, <1>5 DEF Inv, Apart, Publishes
<1> QED
  BY <1>2, <1>3, <1>4, <1>5 DEF Inv

-----------------------------------------------------------------------------
\* Each step keeps the invariant.  A creation's item is not there yet, and no
\* other request has it.
LEMMA CreateStep ==
  ASSUME Inv, NEW r \in Requests, Create(r)
  PROVE  Inv'
<1>1. PICK i \in Items \ created, handles \in Bodies :
        /\ \A q \in Requests : reqs[q] # Idle => reqs[q].item # i
        /\ Starts(r, "subscribers", "create", i, handles)
  BY DEF Create
<1> DEFINE req == [at |-> "subscribers", kind |-> "create", item |-> i,
                   handles |-> handles, todo |-> {}, gate |-> << >>,
                   news |-> {}, tell |-> {}, touched |-> {}]
<1>2. req \in Request /\ req # Idle
  BY NotifyAssumption DEF Request, Idle
<1>3. Right(req)
  BY DEF Right, Publishes, Pending
<1>4. reqs' = [reqs EXCEPT ![r] = req]
  BY <1>1 DEF Starts
<1>5. \A q \in Requests \ {r} : Publishes(reqs[q]) => reqs[q].item # req.item
  BY <1>1 DEF Publishes
<1>6. UNCHANGED <<created, inbox, preferences>> /\ changes' \in 0..MaxChanges
  BY DEF Create, Inv, TypeOK
<1> HIDE DEF req
<1> QED
  BY <1>2, <1>3, <1>4, <1>5, <1>6, StartKeepsInv

\* An edit holds its item's row, and the item is there.
LEMMA EditStep ==
  ASSUME Inv, NEW r \in Requests, Edit(r)
  PROVE  Inv'
<1>1. PICK i \in created, handles \in Bodies :
        Free(Locks("edit", i), r) /\ Starts(r, "mentioned", "edit", i, handles)
  BY DEF Edit
<1> DEFINE req == [at |-> "mentioned", kind |-> "edit", item |-> i,
                   handles |-> handles, todo |-> {}, gate |-> << >>,
                   news |-> {}, tell |-> {}, touched |-> {}]
<1>2. req \in Request /\ req # Idle
  BY NotifyAssumption DEF Request, Idle, Inv, TypeOK
<1>3. Right(req)
  BY DEF Right, Publishes, Pending
<1>4. reqs' = [reqs EXCEPT ![r] = req]
  BY <1>1 DEF Starts
<1>5. ASSUME NEW q \in Requests \ {r}, Publishes(reqs[q]), reqs[q].item = i
      PROVE  FALSE
  <2>1. Locks("edit", i) = {i}
    BY DEF Locks
  <2>2. reqs[q] # Idle /\ i \notin Locks(reqs[q].kind, i)
    BY <1>1, <1>5, <2>1 DEF Free, Publishes
  <2>3. reqs[q].kind # "edit"
    BY <2>1, <2>2
  <2> QED
    BY <1>5, <2>2, <2>3 DEF Inv, Right, Publishes
<1>6. UNCHANGED <<created, inbox, preferences>> /\ changes' \in 0..MaxChanges
  BY DEF Edit, Inv, TypeOK
<1>7. Publishes(req) =>
        \A q \in Requests \ {r} : Publishes(reqs[q]) => reqs[q].item # req.item
  BY <1>5
<1> HIDE DEF req
<1> QED
  BY <1>2, <1>3, <1>4, <1>6, <1>7, StartKeepsInv

\* The subscribers of a new item are told of it for the first time.
LEMMA FanOutContentStep ==
  ASSUME Inv, NEW r \in Requests, FanOutContent(r)
  PROVE  Inv'
<1>1. reqs[r].at = "subscribers" /\ reqs[r] # Idle /\ reqs[r] \in Request
  BY Busy DEF FanOutContent, Inv, TypeOK
<1>2. PICK news \in SUBSET (Users \ {AuthorOf[reqs[r].item]}) :
        reqs' = [reqs EXCEPT ![r].news = news, ![r].at = "mentioned"]
  BY DEF FanOutContent
<1> DEFINE req == [reqs[r] EXCEPT !.news = news, !.at = "mentioned"]
<1>3. /\ req \in Request /\ req # Idle /\ req.item = reqs[r].item
      /\ req.kind = reqs[r].kind
  BY <1>1 DEF Request, Idle
<1>4. reqs' = [reqs EXCEPT ![r] = req]
  BY <1>2 DEF Inv, TypeOK
<1>5. reqs[r].kind = "create" /\ reqs[r].item \in Items \ created
  BY <1>1, Fields DEF Inv, Right
<1>6. \A u \in news : inbox[<<u, "new", reqs[r].item>>] = 0
  BY <1>5 DEF Inv, Unheard
<1>7. Right(req)
  <2>1. Right(reqs[r]) /\ Publishes(reqs[r])
    BY <1>1, <1>5 DEF Inv, Publishes
  <2>2. Pending(req) = Pending(reqs[r])
    BY <1>1 DEF Pending, Request, Idle
  <2>3. req.news = news /\ req.at = "mentioned"
    BY <1>1 DEF Request, Idle
  <2> QED
    BY <1>1, <1>3, <1>5, <1>6, <2>1, <2>2, <2>3 DEF Right, Publishes
<1>8. UNCHANGED <<created, inbox, preferences, changes>>
  BY DEF FanOutContent
<1> HIDE DEF req
<1> QED
  BY <1>1, <1>3, <1>4, <1>7, <1>8, MoveKeepsInv

\* Only those who have no such notice stay to be asked about.
LEMMA FindMentionedStep ==
  ASSUME Inv, NEW r \in Requests, FindMentioned(r)
  PROVE  Inv'
<1>1. reqs[r].at = "mentioned" /\ reqs[r] # Idle /\ reqs[r] \in Request
  BY Busy DEF FindMentioned, Inv, TypeOK
<1> DEFINE todo == {u \in reqs[r].handles \ {AuthorOf[reqs[r].item]} :
                      inbox[<<u, "mention", reqs[r].item>>] = 0}
<1> DEFINE req == [reqs[r] EXCEPT !.todo = todo, !.at = "policy"]
<1>2. todo \subseteq Users
  BY <1>1, Fields
<1>3. /\ req \in Request /\ req # Idle /\ req.item = reqs[r].item
      /\ req.kind = reqs[r].kind
  BY <1>1, <1>2 DEF Request, Idle
<1>4. reqs' = [reqs EXCEPT ![r] = req]
  BY DEF FindMentioned, Inv, TypeOK
<1>5. Right(req)
  <2>1. Right(reqs[r])
    BY DEF Inv
  <2>2. /\ Pending(req) \subseteq Pending(reqs[r]) \cup todo
        /\ req.news = reqs[r].news /\ req.at = "policy"
    BY <1>1 DEF Pending, Request, Idle
  <2>3. \A u \in todo : /\ u # AuthorOf[reqs[r].item]
                         /\ inbox[<<u, "mention", reqs[r].item>>] = 0
    OBVIOUS
  <2> HIDE DEF req, todo
  <2> QED
    BY <1>1, <1>3, <2>1, <2>2, <2>3 DEF Right, Publishes
<1>6. UNCHANGED <<created, inbox, preferences, changes>>
  BY DEF FindMentioned
<1> HIDE DEF req
<1> QED
  BY <1>1, <1>3, <1>4, <1>5, <1>6, MoveKeepsInv

\* Whoever is asked about was to be asked about.
LEMMA ReadPolicyStep ==
  ASSUME Inv, NEW r \in Requests, ReadPolicy(r)
  PROVE  Inv'
<1>1. reqs[r].at = "policy" /\ reqs[r] # Idle /\ reqs[r] \in Request
  BY Busy DEF ReadPolicy, Inv, TypeOK
<1>2. PICK u \in reqs[r].todo :
        reqs' = [reqs EXCEPT ![r].todo = @ \ {u}, ![r].gate = <<u, policy[u]>>,
                             ![r].at = "grant"]
  BY DEF ReadPolicy
<1> DEFINE req == [reqs[r] EXCEPT !.todo = @ \ {u}, !.gate = <<u, policy[u]>>,
                                  !.at = "grant"]
<1>3. <<u, policy[u]>> \in Users \X Policies
  BY <1>1, Fields DEF Inv, TypeOK
<1>4. /\ req \in Request /\ req # Idle /\ req.item = reqs[r].item
      /\ req.kind = reqs[r].kind
  BY <1>1, <1>3 DEF Request, Idle
<1>5. reqs' = [reqs EXCEPT ![r] = req]
  BY <1>2 DEF Inv, TypeOK
<1>6. Right(req)
  <2>1. Right(reqs[r])
    BY DEF Inv
  <2>2. /\ Pending(req) \subseteq Pending(reqs[r])
        /\ req.news = reqs[r].news /\ req.at = "grant" /\ req.gate # << >>
    BY <1>1 DEF Pending, Request, Idle
  <2> HIDE DEF req
  <2> QED
    BY <1>1, <1>4, <2>1, <2>2 DEF Right, Publishes
<1>7. UNCHANGED <<created, inbox, preferences, changes>>
  BY DEF ReadPolicy
<1> HIDE DEF req
<1> QED
  BY <1>1, <1>4, <1>5, <1>6, <1>7, MoveKeepsInv

\* Whatever the gate says, it says it of the one it was asked about.
LEMMA DecidesKeepsInv ==
  ASSUME Inv, NEW r \in Requests, reqs[r].at \in {"grant", "scope"},
         NEW allowed \in BOOLEAN, Decides(r, allowed),
         UNCHANGED <<created, inbox, preferences, changes>>
  PROVE  Inv'
<1>1. reqs[r] # Idle /\ reqs[r] \in Request
  BY Busy DEF Inv, TypeOK
<1>2. reqs[r].gate # << >> /\ reqs[r].gate[1] \in Users
  <2>1. reqs[r].gate # << >>
    BY <1>1 DEF Inv, Right
  <2> QED
    BY <1>1, <2>1, Fields
<1>3. PICK tell \in SUBSET (reqs[r].tell \cup {reqs[r].gate[1]}) :
        reqs' = [reqs EXCEPT ![r].tell = tell, ![r].gate = << >>,
                             ![r].at = "policy"]
  <2>1. reqs' = [reqs EXCEPT
          ![r].tell = IF MentionGateAllows(reqs[r].gate[2], allowed)
                      THEN reqs[r].tell \cup {reqs[r].gate[1]} ELSE reqs[r].tell,
          ![r].gate = << >>, ![r].at = "policy"]
    BY DEF Decides, Inv, TypeOK
  <2>2. CASE MentionGateAllows(reqs[r].gate[2], allowed)
    BY <2>1, <2>2
  <2>3. CASE ~MentionGateAllows(reqs[r].gate[2], allowed)
    BY <2>1, <2>3
  <2> QED
    BY <2>2, <2>3
<1> DEFINE req == [reqs[r] EXCEPT !.tell = tell, !.gate = << >>,
                                  !.at = "policy"]
<1>4. tell \subseteq Users
  BY <1>1, <1>2, Fields
<1>5. /\ req \in Request /\ req # Idle /\ req.item = reqs[r].item
      /\ req.kind = reqs[r].kind
  BY <1>1, <1>4 DEF Request, Idle
<1>6. reqs' = [reqs EXCEPT ![r] = req]
  BY <1>3 DEF Inv, TypeOK
<1>7. Right(req)
  <2>1. Right(reqs[r])
    BY DEF Inv
  <2>2. /\ Pending(req) \subseteq Pending(reqs[r])
        /\ req.news = reqs[r].news /\ req.at = "policy"
    BY <1>1, <1>2 DEF Pending, Request, Idle
  <2> HIDE DEF req
  <2> QED
    BY <1>1, <1>5, <2>1, <2>2 DEF Right, Publishes
<1> HIDE DEF req
<1> QED
  BY <1>1, <1>5, <1>6, <1>7, MoveKeepsInv

LEMMA ReadGrantStep ==
  ASSUME Inv, NEW r \in Requests, ReadGrant(r)
  PROVE  Inv'
<1> DEFINE granted == <<reqs[r].gate[1], AuthorOf[reqs[r].item]>> \in grants
<1>1. reqs[r].at = "grant" /\ reqs[r] # Idle /\ reqs[r] \in Request
  BY Busy DEF ReadGrant, Inv, TypeOK
<1>2. UNCHANGED <<created, inbox, preferences, changes>>
  BY DEF ReadGrant
<1>3. CASE Decides(r, granted)
  <2>1. granted \in BOOLEAN
    OBVIOUS
  <2> HIDE DEF granted
  <2> QED
    BY <1>1, <1>2, <1>3, <2>1, DecidesKeepsInv
<1>4. CASE Goes(r, "scope")
  <2> DEFINE req == [reqs[r] EXCEPT !.at = "scope"]
  <2>1. /\ req \in Request /\ req # Idle /\ req.item = reqs[r].item
        /\ req.kind = reqs[r].kind
    BY <1>1 DEF Request, Idle
  <2>2. reqs' = [reqs EXCEPT ![r] = req]
    BY <1>4 DEF Goes, Inv, TypeOK
  <2>3. Right(req)
    <3>1. Right(reqs[r])
      BY DEF Inv
    <3>2. /\ Pending(req) = Pending(reqs[r]) /\ req.gate = reqs[r].gate
          /\ req.news = reqs[r].news /\ req.at = "scope"
      BY <1>1 DEF Pending, Request, Idle
    <3> HIDE DEF req
    <3> QED
      BY <1>1, <2>1, <3>1, <3>2 DEF Right, Publishes
  <2> HIDE DEF req
  <2> QED
    BY <1>1, <1>2, <2>1, <2>2, <2>3, MoveKeepsInv
<1> QED
  BY <1>3, <1>4 DEF ReadGrant

LEMMA ReadScopeStep ==
  ASSUME Inv, NEW r \in Requests, ReadScope(r)
  PROVE  Inv'
<1>1. reqs[r].at = "scope" /\ UNCHANGED <<created, inbox, preferences, changes>>
  BY DEF ReadScope
<1>2. PICK allowed \in BOOLEAN : Decides(r, allowed)
  BY DEF ReadScope
<1> QED
  BY <1>1, <1>2, DecidesKeepsInv

\* Endorsements and failed requests notify of no item.
LEMMA EndorseStep ==
  ASSUME Inv, NEW r \in Requests, Endorse(r)
  PROVE  Inv'
<1>1. PICK i \in created : Starts(r, "settings", "endorse", i, {})
  BY DEF Endorse
<1> DEFINE req == [at |-> "settings", kind |-> "endorse", item |-> i,
                   handles |-> {}, todo |-> {}, gate |-> << >>,
                   news |-> {}, tell |-> {}, touched |-> {}]
<1>2. req \in Request /\ req # Idle
  BY DEF Request, Idle, Inv, TypeOK
<1>3. Right(req) /\ ~Publishes(req)
  BY DEF Right, Publishes
<1>4. reqs' = [reqs EXCEPT ![r] = req]
  BY <1>1 DEF Starts
<1>5. UNCHANGED <<created, inbox, preferences>> /\ changes' \in 0..MaxChanges
  BY NotifyAssumption DEF Endorse, Inv, TypeOK
<1> HIDE DEF req
<1> QED
  BY <1>2, <1>3, <1>4, <1>5, StartKeepsInv

LEMMA ReadNotifyOnEndorseStep ==
  ASSUME Inv, NEW r \in Requests, ReadNotifyOnEndorse(r)
  PROVE  Inv'
<1>1. reqs[r].at = "settings" /\ reqs[r] # Idle /\ reqs[r] \in Request
  BY Busy DEF ReadNotifyOnEndorse, Inv, TypeOK
<1> DEFINE req == [reqs[r] EXCEPT
                     !.tell = {AuthorOf[reqs[r].item]} \ optedOut,
                     !.at = "endorsed"]
<1>2. AuthorOf[reqs[r].item] \in Users
  BY <1>1, Fields, NotifyAssumption
<1>3. /\ req \in Request /\ req # Idle /\ req.item = reqs[r].item
      /\ req.kind = reqs[r].kind /\ req.at = "endorsed"
  BY <1>1, <1>2 DEF Request, Idle
<1>4. reqs' = [reqs EXCEPT ![r] = req]
  BY DEF ReadNotifyOnEndorse, Inv, TypeOK
<1>5. Right(req)
  <2>1. Right(reqs[r])
    BY DEF Inv
  <2> HIDE DEF req
  <2> QED
    BY <1>1, <1>3, <2>1 DEF Right, Publishes
<1>6. UNCHANGED <<created, inbox, preferences, changes>>
  BY DEF ReadNotifyOnEndorse
<1> HIDE DEF req
<1> QED
  BY <1>1, <1>3, <1>4, <1>5, <1>6, MoveKeepsInv

LEMMA RollbackStep ==
  ASSUME Inv, NEW r \in Requests, Rollback(r)
  PROVE  Inv'
BY EndKeepsInv DEF Rollback

\* Whom a request still means to notify has had no notice when it commits: no
\* other request could give one.
LEMMA CommitStep ==
  ASSUME Inv, NEW r \in Requests, Commit(r)
  PROVE  Inv'
<1> DEFINE sent == (reqs[r].news \X {"new"} \X {reqs[r].item}) \cup
                   (reqs[r].tell \X {"mention"} \X {reqs[r].item})
<1>1. PICK i \in Items : i = reqs[r].item
  BY Busy, Fields DEF Commit, Inv, TypeOK
<1>2. /\ reqs[r].at = "policy" /\ reqs[r] # Idle /\ reqs[r] \in Request
      /\ Publishes(reqs[r]) /\ Right(reqs[r])
  <2>1. reqs[r].at = "policy" /\ reqs[r] # Idle /\ reqs[r] \in Request
    BY Busy DEF Commit, Inv, TypeOK
  <2> QED
    BY <2>1, Fields DEF Inv, Right, Publishes
<1>3. /\ inbox' = [n \in Notices |-> IF n \in sent THEN inbox[n] + 1 ELSE inbox[n]]
      /\ created' = created \cup {i} /\ Ends(r)
      /\ UNCHANGED <<preferences, changes>>
  BY <1>1 DEF Commit
<1>4. ASSUME NEW u \in Users, NEW event \in {"new", "mention", "endorsed"},
             NEW j \in Items, <<u, event, j>> \in sent
      PROVE  /\ inbox[<<u, event, j>>] = 0 /\ u # AuthorOf[j] /\ j = i
             /\ event \in {"new", "mention"}
  <2>1. \A v \in reqs[r].news : inbox[<<v, "new", i>>] = 0 /\ v # AuthorOf[i]
    BY <1>1, <1>2 DEF Right
  <2>2. \A v \in reqs[r].tell : inbox[<<v, "mention", i>>] = 0 /\ v # AuthorOf[i]
    BY <1>1, <1>2 DEF Right, Pending
  <2>3. /\ j = i
        /\ \/ event = "new" /\ u \in reqs[r].news
           \/ event = "mention" /\ u \in reqs[r].tell
    BY <1>1, <1>4
  <2> HIDE DEF sent
  <2> QED
    BY <2>1, <2>2, <2>3
<1>5. Idle \in Request /\ Right(Idle)
  BY DEF Request, Right, Publishes
<1>6. \A q \in Requests : reqs'[q] = IF q = r THEN Idle ELSE reqs[q]
  BY <1>3 DEF Inv, TypeOK, Ends
<1> HIDE DEF sent
<1>7. TypeOK'
  <2>1. inbox' \in [Notices -> Nat]
    BY <1>3 DEF Inv, TypeOK
  <2>2. reqs' \in [Requests -> Request]
    BY <1>3, <1>5 DEF Inv, TypeOK, Ends
  <2> QED
    BY <1>3, <2>1, <2>2 DEF Inv, TypeOK, preferences
<1>8. \A n \in Notices : inbox'[n] = IF n \in sent THEN 1 ELSE inbox[n]
  <2> SUFFICES ASSUME NEW u \in Users, NEW event \in {"new", "mention", "endorsed"},
                      NEW j \in Items
               PROVE  inbox'[<<u, event, j>>] =
                        IF <<u, event, j>> \in sent THEN 1
                        ELSE inbox[<<u, event, j>>]
    BY DEF Notices
  <2>1. <<u, event, j>> \in Notices
    BY DEF Notices
  <2> QED
    BY <1>3, <1>4, <2>1
<1>9. ToldOnce'
  <2> SUFFICES ASSUME NEW u \in Users, NEW event \in {"new", "mention"},
                      NEW j \in Items
               PROVE  /\ inbox'[<<u, event, j>>] \in {0, 1}
                      /\ u = AuthorOf[j] => inbox'[<<u, event, j>>] = 0
    BY DEF ToldOnce
  <2>1. <<u, event, j>> \in Notices
    BY DEF Notices
  <2>2. CASE <<u, event, j>> \in sent
    <3>1. u # AuthorOf[j]
      BY <1>4, <2>2
    <3>2. inbox'[<<u, event, j>>] = 1
      BY <1>8, <2>1, <2>2
    <3>3. inbox'[<<u, event, j>>] \in {0, 1}
      BY <3>2
    <3> QED
      BY <3>1, <3>3
  <2>3. CASE <<u, event, j>> \notin sent
    <3>1. inbox'[<<u, event, j>>] = inbox[<<u, event, j>>]
      BY <1>8, <2>1, <2>3
    <3>2. /\ inbox[<<u, event, j>>] \in {0, 1}
          /\ u = AuthorOf[j] => inbox[<<u, event, j>>] = 0
      BY DEF Inv, ToldOnce
    <3> QED
      BY <3>1, <3>2
  <2> QED
    BY <2>2, <2>3
<1>10. Unheard'
  <2> SUFFICES ASSUME NEW u \in Users, NEW event \in {"new", "mention"},
                      NEW j \in Items \ created'
               PROVE  inbox'[<<u, event, j>>] = 0
    BY DEF Unheard
  <2>1. <<u, event, j>> \in Notices /\ j # i /\ j \notin created
    BY <1>3 DEF Notices
  <2>2. <<u, event, j>> \notin sent
    BY <1>4, <2>1
  <2> QED
    BY <1>8, <2>1, <2>2 DEF Inv, Unheard
<1>11. ASSUME NEW q \in Requests PROVE Right(reqs[q])'
  <2>1. CASE q = r
    BY <1>5, <1>6, <2>1 DEF Right, Publishes, Idle
  <2>2. CASE q # r
    <3>1. reqs'[q] = reqs[q] /\ Right(reqs[q]) /\ Apart(q, r)
      BY <1>6, <2>2 DEF Inv
    <3>2. Publishes(reqs[q]) => reqs[q].item # i
      BY <1>1, <1>2, <3>1 DEF Apart
    <3>3. reqs[q] # Idle => reqs[q].item \in Items
                            /\ reqs[q].kind \in {"create", "edit", "endorse"}
      BY Fields DEF Inv, TypeOK
    <3>4. reqs[q] # Idle =>
            (reqs[q].kind = "create" <=> reqs[q].item \notin created')
      BY <1>1, <1>2, <1>3, <3>1, <3>2, <3>3 DEF Right, Publishes
    <3>5. ASSUME Publishes(reqs[q])
          PROVE  /\ \A u \in reqs[q].news : inbox'[<<u, "new", reqs[q].item>>] = 0
                 /\ \A u \in Pending(reqs[q]) :
                      inbox'[<<u, "mention", reqs[q].item>>] = 0
      <4>1. ASSUME NEW u \in Users, NEW event \in {"new", "mention"}
            PROVE  inbox'[<<u, event, reqs[q].item>>] = inbox[<<u, event, reqs[q].item>>]
        <5>1. reqs[q].item \in Items /\ reqs[q].item # i
          BY <3>2, <3>3, <3>5 DEF Publishes
        <5>2. /\ <<u, event, reqs[q].item>> \in Notices
              /\ <<u, event, reqs[q].item>> \notin sent
          BY <1>4, <5>1 DEF Notices
        <5> QED
          BY <1>8, <5>2
      <4>2. reqs[q].news \subseteq Users /\ Pending(reqs[q]) \subseteq Users
        BY <3>5, Fields DEF Inv, TypeOK, Publishes, Pending
      <4> QED
        BY <3>1, <3>5, <4>1, <4>2 DEF Right
    <3>6. Pending(reqs[q])' = Pending(reqs[q])
      BY <3>1 DEF Pending
    <3>7. Publishes(reqs[q])' <=> Publishes(reqs[q])
      BY <3>1 DEF Publishes, Idle
    <3> QED
      BY <3>1, <3>4, <3>5, <3>6, <3>7 DEF Right, Idle
  <2> QED
    BY <2>1, <2>2
<1>12. ASSUME NEW p \in Requests, NEW q \in Requests, p # q PROVE Apart(p, q)'
  BY <1>6, <1>12 DEF Inv, Apart, Publishes
<1> QED
  BY <1>7, <1>9, <1>10, <1>11, <1>12 DEF Inv

\* An endorsement's notice is another event.
LEMMA CommitEndorsementStep ==
  ASSUME Inv, NEW r \in Requests, CommitEndorsement(r)
  PROVE  Inv'
<1>1. /\ inbox' = [n \in Notices |->
             IF n[1] \in reqs[r].tell /\ n[2] = "endorsed" /\ n[3] = reqs[r].item
             THEN inbox[n] + 1 ELSE inbox[n]]
      /\ Ends(r) /\ UNCHANGED <<created, preferences, changes>>
  BY DEF CommitEndorsement
<1>2. \A u \in Users, event \in {"new", "mention"}, i \in Items :
        inbox'[<<u, event, i>>] = inbox[<<u, event, i>>]
  BY <1>1 DEF Notices
<1>3. Idle \in Request /\ Right(Idle)
  BY DEF Request, Right, Publishes
<1>4. \A q \in Requests : reqs'[q] = IF q = r THEN Idle ELSE reqs[q]
  BY <1>1 DEF Inv, TypeOK, Ends
<1>5. TypeOK'
  <2>1. inbox' \in [Notices -> Nat]
    BY <1>1 DEF Inv, TypeOK
  <2>2. reqs' \in [Requests -> Request]
    BY <1>1, <1>3 DEF Inv, TypeOK, Ends
  <2> QED
    BY <1>1, <2>1, <2>2 DEF Inv, TypeOK, preferences
<1>6. ToldOnce'
  <2> SUFFICES ASSUME NEW u \in Users, NEW event \in {"new", "mention"},
                      NEW i \in Items
               PROVE  /\ inbox'[<<u, event, i>>] \in {0, 1}
                      /\ u = AuthorOf[i] => inbox'[<<u, event, i>>] = 0
    BY DEF ToldOnce
  <2>1. inbox'[<<u, event, i>>] = inbox[<<u, event, i>>]
    BY <1>2
  <2>2. /\ inbox[<<u, event, i>>] \in {0, 1}
        /\ u = AuthorOf[i] => inbox[<<u, event, i>>] = 0
    BY DEF Inv, ToldOnce
  <2> QED
    BY <2>1, <2>2
<1>7. Unheard'
  <2>1. ASSUME NEW u \in Users, NEW event \in {"new", "mention"},
               NEW i \in Items \ created
        PROVE  inbox'[<<u, event, i>>] = 0
    BY <1>2 DEF Inv, Unheard
  <2> QED
    BY <1>1, <2>1 DEF Unheard
<1>8. ASSUME NEW q \in Requests PROVE Right(reqs[q])'
  <2>1. CASE q = r
    BY <1>3, <1>4, <2>1 DEF Right, Publishes, Idle
  <2>2. CASE q # r
    <3>1. reqs'[q] = reqs[q] /\ Right(reqs[q]) /\ reqs[q] \in Request
      BY <1>4, <2>2 DEF Inv, TypeOK
    <3> QED
      BY <1>1, <1>2, <3>1, SameHeard
  <2> QED
    BY <2>1, <2>2
<1>9. ASSUME NEW p \in Requests, NEW q \in Requests, p # q PROVE Apart(p, q)'
  BY <1>4, <1>9 DEF Inv, Apart, Publishes
<1> QED
  BY <1>5, <1>6, <1>7, <1>8, <1>9 DEF Inv

\* What users change is none of what the invariant is about.
LEMMA ChangesKeepInv ==
  ASSUME Inv, NEW us \in SUBSET Users, NEW aspect \in Aspects,
         Changes(us, aspect),
         shown' \in [Posts -> SUBSET Boards],
         subs' \in [Users \X Targets -> Levels],
         policy' \in [Users -> Policies],
         grants' \subseteq Users \X Users, optedOut' \subseteq Users
  PROVE  Inv'
<1>1. ASSUME NEW q \in Requests
      PROVE  /\ reqs'[q] \in Request
             /\ reqs'[q] = Idle <=> reqs[q] = Idle
             /\ reqs[q] # Idle =>
                  /\ reqs'[q].kind = reqs[q].kind /\ reqs'[q].item = reqs[q].item
                  /\ reqs'[q].news = reqs[q].news /\ reqs'[q].at = reqs[q].at
                  /\ reqs'[q].todo = reqs[q].todo /\ reqs'[q].tell = reqs[q].tell
                  /\ reqs'[q].gate = reqs[q].gate
  <2>1. reqs[q] \in Request /\ us \X {aspect} \subseteq Users \X Aspects
    BY DEF Inv, TypeOK
  <2>2. reqs'[q] = IF reqs[q] = Idle THEN Idle
                   ELSE [reqs[q] EXCEPT
                           !.touched = reqs[q].touched \cup (us \X {aspect})]
    BY DEF Changes, Touch
  <2> QED
    BY <2>1, <2>2 DEF Request, Idle
<1>2. created' = created /\ inbox' = inbox /\ changes' \in 0..MaxChanges
  BY NotifyAssumption DEF Changes, Inv, TypeOK
<1>3. reqs' \in [Requests -> Request]
  BY <1>1 DEF Changes, Touch
<1>4. TypeOK' /\ ToldOnce' /\ Unheard'
  <2>1. TypeOK'
    BY <1>2, <1>3 DEF Inv, TypeOK
  <2>2. ToldOnce' /\ Unheard'
    BY <1>2 DEF Inv, ToldOnce, Unheard
  <2> QED
    BY <2>1, <2>2
<1>5. ASSUME NEW q \in Requests PROVE Right(reqs[q])'
  <2>1. CASE reqs[q] = Idle
    BY <1>1, <2>1 DEF Right, Publishes, Idle
  <2>2. CASE reqs[q] # Idle
    <3>1. Right(reqs[q])
      BY DEF Inv
    <3>2. Pending(reqs[q])' = Pending(reqs[q])
      BY <1>1, <2>2 DEF Pending
    <3>3. Publishes(reqs[q])' <=> Publishes(reqs[q])
      BY <1>1, <2>2 DEF Publishes, Idle
    <3> QED
      BY <1>1, <1>2, <2>2, <3>1, <3>2, <3>3 DEF Right, Idle
  <2> QED
    BY <2>1, <2>2
<1>6. ASSUME NEW p \in Requests, NEW q \in Requests, p # q PROVE Apart(p, q)'
  <2>1. ASSUME NEW x \in Requests
        PROVE  Publishes(reqs[x])' => /\ Publishes(reqs[x])
                                      /\ reqs'[x].item = reqs[x].item
    BY <1>1 DEF Publishes, Idle
  <2> QED
    BY <1>6, <2>1 DEF Inv, Apart
<1> QED
  BY <1>4, <1>5, <1>6 DEF Inv

-----------------------------------------------------------------------------
LEMMA InitInv == Init => Inv
<1> SUFFICES ASSUME Init PROVE Inv
  OBVIOUS
<1>1. Idle \in Request /\ Right(Idle)
  BY DEF Request, Right, Publishes
<1>2. TypeOK
  BY <1>1, NotifyAssumption
     DEF Init, TypeOK, Policies, Levels, DefaultPolicy, Targets
<1>3. ToldOnce /\ Unheard
  <2>1. \A u \in Users, event \in {"new", "mention"}, i \in Items :
          inbox[<<u, event, i>>] = 0
    BY DEF Init, Notices
  <2>2. ToldOnce
    BY <2>1 DEF ToldOnce
  <2>3. ASSUME NEW u \in Users, NEW event \in {"new", "mention"},
               NEW i \in Items \ created
        PROVE  inbox[<<u, event, i>>] = 0
    BY <2>1
  <2> QED
    BY <2>2, <2>3 DEF Unheard
<1>4. \A q, r \in Requests : Right(reqs[r]) /\ Apart(q, r)
  BY <1>1 DEF Init, Apart, Publishes
<1> QED
  BY <1>2, <1>3, <1>4 DEF Inv

LEMMA NextInv == Inv /\ [Next]_vars => Inv'
<1> SUFFICES ASSUME Inv, [Next]_vars PROVE Inv'
  OBVIOUS
<1>1. ASSUME NEW r \in Requests,
             \/ Create(r) \/ Edit(r) \/ FanOutContent(r) \/ FindMentioned(r)
             \/ ReadPolicy(r) \/ ReadGrant(r) \/ ReadScope(r) \/ Commit(r)
             \/ Endorse(r) \/ ReadNotifyOnEndorse(r) \/ CommitEndorsement(r)
             \/ Rollback(r)
      PROVE  Inv'
  BY <1>1, CreateStep, EditStep, FanOutContentStep, FindMentionedStep,
     ReadPolicyStep, ReadGrantStep, ReadScopeStep, CommitStep, EndorseStep,
     ReadNotifyOnEndorseStep, CommitEndorsementStep, RollbackStep
<1>2. ASSUME NEW u \in Users, SetSubscription(u) PROVE Inv'
  <2>1. subs' \in [Users \X Targets -> Levels] /\ Changes({u}, "subs")
    BY <1>2 DEF SetSubscription, Inv, TypeOK
  <2>2. "subs" \in Aspects /\ {u} \in SUBSET Users
    BY DEF Aspects
  <2>3. UNCHANGED <<shown, policy, grants, optedOut>>
    BY <1>2 DEF SetSubscription
  <2> QED
    BY <2>1, <2>2, <2>3, ChangesKeepInv DEF Inv, TypeOK
<1>3. ASSUME NEW u \in Users, SetMentionPolicy(u) PROVE Inv'
  <2>1. policy' \in [Users -> Policies] /\ Changes({u}, "policy")
    BY <1>3 DEF SetMentionPolicy, Inv, TypeOK
  <2>2. "policy" \in Aspects /\ {u} \in SUBSET Users
    BY DEF Aspects
  <2>3. UNCHANGED <<shown, subs, grants, optedOut>>
    BY <1>3 DEF SetMentionPolicy
  <2> QED
    BY <2>1, <2>2, <2>3, ChangesKeepInv DEF Inv, TypeOK
<1>4. ASSUME NEW u \in Users, SetNotifyOnEndorse(u) PROVE Inv'
  <2>1. optedOut' \subseteq Users /\ Changes({u}, "optedOut")
    BY <1>4 DEF SetNotifyOnEndorse, Inv, TypeOK
  <2>2. "optedOut" \in Aspects /\ {u} \in SUBSET Users
    BY DEF Aspects
  <2>3. UNCHANGED <<shown, subs, policy, grants>>
    BY <1>4 DEF SetNotifyOnEndorse
  <2> QED
    BY <2>1, <2>2, <2>3, ChangesKeepInv DEF Inv, TypeOK
<1>5. ASSUME NEW u \in Users, GrantMention(u) \/ RevokeMention(u) PROVE Inv'
  <2>1. grants' \subseteq Users \X Users /\ Changes({u}, "grants")
    <3>1. PICK v \in Users : \/ grants' = grants \cup {<<u, v>>}
                             \/ grants' = grants \ {<<u, v>>}
      BY <1>5 DEF GrantMention, RevokeMention
    <3>2. grants \subseteq Users \X Users /\ <<u, v>> \in Users \X Users
      BY DEF Inv, TypeOK
    <3> QED
      BY <1>5, <3>1, <3>2 DEF GrantMention, RevokeMention
  <2>2. "grants" \in Aspects /\ {u} \in SUBSET Users
    BY DEF Aspects
  <2>3. UNCHANGED <<shown, subs, policy, optedOut>>
    BY <1>5 DEF GrantMention, RevokeMention
  <2> QED
    BY <2>1, <2>2, <2>3, ChangesKeepInv DEF Inv, TypeOK
<1>6. ASSUME NEW p \in Posts, ShowElsewhere(p) PROVE Inv'
  <2>1. shown' \in [Posts -> SUBSET Boards] /\ Changes(Users, "subs")
    BY <1>6 DEF ShowElsewhere, Inv, TypeOK
  <2>2. "subs" \in Aspects /\ Users \in SUBSET Users
    BY DEF Aspects
  <2>3. UNCHANGED <<subs, policy, grants, optedOut>>
    BY <1>6 DEF ShowElsewhere
  <2> QED
    BY <2>1, <2>2, <2>3, ChangesKeepInv DEF Inv, TypeOK
<1>7. CASE UNCHANGED vars
  <2>1. TypeOK' /\ ToldOnce' /\ Unheard'
    <3>1. TypeOK'
      BY <1>7 DEF vars, Inv, TypeOK
    <3>2. ToldOnce' /\ Unheard'
      BY <1>7 DEF vars, Inv, ToldOnce, Unheard
    <3> QED
      BY <3>1, <3>2
  <2>2. ASSUME NEW q \in Requests PROVE Right(reqs[q])'
    BY <1>7, StaysRight DEF vars, Inv
  <2>3. ASSUME NEW p \in Requests, NEW q \in Requests, p # q PROVE Apart(p, q)'
    BY <1>7, <2>3 DEF vars, Inv, Apart, Publishes, Idle
  <2> QED
    BY <2>1, <2>2, <2>3 DEF Inv
<1> QED
  BY <1>1, <1>2, <1>3, <1>4, <1>5, <1>6, <1>7, NotifyAssumption DEF Next

\* However a thread's requests interleave with each other and with what users
\* change, nobody is told twice of one post or comment, nor of their own
\* (DBPublisher.Publish inside the transactions that create and edit).
THEOREM NotifyToldOnce == Spec => [](TypeOK /\ ToldOnce)
<1>1. Inv => TypeOK /\ ToldOnce
  BY DEF Inv
<1> QED
  BY <1>1, InitInv, NextInv, PTL DEF Spec

\* The variables have their types in every reachable state.
THEOREM TypeCorrect == Spec => []TypeOK
BY NotifyToldOnce, PTL

-----------------------------------------------------------------------------
(***************************************************************************)
(* Everybody's due.  What a request noted down is what the tables say of   *)
(* whoever has changed nothing since (Fair), whichever of its statements   *)
(* read them.                                                              *)
(***************************************************************************)

\* Whether u is told agrees with u's policy and, as far as the policy looks at
\* them and they have not changed, with u's grants and subscriptions.
Settled(u, i, touched, told) ==
  LET granted == <<u, AuthorOf[i]>> \in grants
      subscribed == \E t \in MentionScope(i) : subs[<<u, t>>] # "none"
  IN
  /\ policy[u] = "everyone" => told
  /\ policy[u] = "nobody" => ~told
  /\ policy[u] = "authorized" /\ <<u, "grants">> \notin touched =>
       (told <=> granted)
  /\ policy[u] = "subscribed" /\ <<u, "grants">> \notin touched /\ granted =>
       told
  /\ /\ policy[u] = "subscribed" /\ ~granted
     /\ <<u, "grants">> \notin touched /\ <<u, "subs">> \notin touched
     => (told <=> subscribed)

\* The gate is being asked for u.
Asks(req, u) == req.gate # << >> /\ req.gate[1] = u

\* Whoever the gate is asked for is asked for once, with the policy as it is
\* and, once the subscriptions are looked at, without a grant.
GateFair(req) ==
  req.gate # << >> =>
    /\ req.gate[1] \notin req.todo \cup req.tell
    /\ <<req.gate[1], "policy">> \notin req.touched =>
         req.gate[2] = policy[req.gate[1]]
    /\ req.at = "scope" =>
         /\ req.gate[2] = "subscribed"
         /\ <<req.gate[1], "grants">> \notin req.touched =>
              <<req.gate[1], AuthorOf[req.item]>> \notin grants

MentionsFair(req) ==
  /\ req.todo \cap req.tell = {}
  /\ req.at \in {"subscribers", "mentioned"} =>
       req.tell = {} /\ req.gate = << >>
  /\ req.at = "policy" => req.gate = << >>
  /\ req.at \in {"policy", "grant", "scope"} =>
       \A u \in req.handles \ {AuthorOf[req.item]} :
         /\ <<u, "policy">> \notin req.touched
         /\ inbox[<<u, "mention", req.item>>] = 0
         => \/ u \in req.todo
            \/ Asks(req, u)
            \/ Settled(u, req.item, req.touched, u \in req.tell)

NewsFair(req) ==
  req.kind = "create" /\ req.at # "subscribers" =>
    \A u \in Users \ {AuthorOf[req.item]} :
      <<u, "subs">> \notin req.touched =>
        /\ Follows(u, req.item) => u \in req.news
        /\ Ignores(u, req.item) => u \notin req.news

Fair(req) ==
  Publishes(req) => GateFair(req) /\ MentionsFair(req) /\ NewsFair(req)

FairInv == \A r \in Requests : Fair(reqs[r])

\* A step that changes something for a user notes it down, and no notice is
\* taken back.
Noted(u, touched) ==
  /\ <<u, "policy">> \notin touched => policy'[u] = policy[u]
  /\ <<u, "grants">> \notin touched =>
       \A v \in Users : <<u, v>> \in grants' <=> <<u, v>> \in grants
  /\ <<u, "subs">> \notin touched =>
       /\ shown' = shown
       /\ \A t \in Targets : subs'[<<u, t>>] = subs[<<u, t>>]

Remembered ==
  \A u \in Users, i \in Items :
    inbox'[<<u, "mention", i>>] = 0 => inbox[<<u, "mention", i>>] = 0

-----------------------------------------------------------------------------
\* What subscriptions are looked for, and what governs.
LEMMA Threaded ==
  ASSUME NEW i \in Items
  PROVE  /\ ThreadOf(i) \in Posts /\ AuthorOf[i] \in Users
         /\ i \in Comments => PathOf[i] \in Seq(Comments) /\ PostOf[i] \in Posts
         /\ i \in Comments => Range(PathOf[i]) \subseteq Comments
         /\ Ancestors(i) \subseteq Comments
<1>1. /\ ThreadOf(i) \in Posts /\ AuthorOf[i] \in Users
      /\ i \in Comments => PathOf[i] \in Seq(Comments) /\ PostOf[i] \in Posts
  BY NotifyAssumption DEF Items, ThreadOf
<1>2. i \in Comments => Range(PathOf[i]) \subseteq Comments
  BY <1>1 DEF Range
<1> QED
  BY <1>1, <1>2 DEF Ancestors, Items

LEMMA CandidatesType ==
  ASSUME TypeOK, NEW i \in Items
  PROVE  Candidates(i) \subseteq Targets /\ MentionScope(i) \subseteq Targets
<1>1. BoardsOf(i) \subseteq Boards
  BY Threaded, NotifyAssumption DEF TypeOK, BoardsOf
<1> QED
  BY <1>1, Threaded DEF Candidates, MentionScope, Targets, Items

LEMMA AncestorsAreShorter ==
  ASSUME NEW c \in Comments, NEW a \in Ancestors(c)
  PROVE  a \in Comments /\ Len(PathOf[a]) < Len(PathOf[c])
<1>1. c \in Items /\ c \notin Posts /\ PathOf[c] \in Seq(Comments)
  BY NotifyAssumption DEF Items
<1>2. a \in Range(PathOf[c]) /\ a # c
  BY <1>1 DEF Ancestors
<1>3. PICK k \in DOMAIN PathOf[c] : a = PathOf[c][k]
  BY <1>2 DEF Range
<1>4. /\ PathOf[c][Len(PathOf[c])] = c
      /\ PathOf[a] = SubSeq(PathOf[c], 1, k)
  BY <1>3, NotifyAssumption
<1>5. k \in 1..Len(PathOf[c]) /\ k # Len(PathOf[c])
  BY <1>1, <1>2, <1>3, <1>4
<1>6. Len(SubSeq(PathOf[c], 1, k)) = k
  BY <1>1, <1>5
<1>7. a \in Comments
  BY <1>1, <1>3
<1> QED
  BY <1>4, <1>5, <1>6, <1>7

\* Nearer targets rank higher.
LEMMA PriorityType ==
  ASSUME NEW t \in Targets
  PROVE  Priority(t) \in Nat
<1>1. CASE t \in Boards
  BY <1>1 DEF Priority
<1>2. CASE t \in Posts
  BY <1>2, NotifyAssumption DEF Priority, Items
<1>3. CASE t \in Comments
  <2>1. PathOf[t] \in Seq(Comments) /\ t \notin Boards /\ t \notin Posts
    BY <1>3, NotifyAssumption DEF Items
  <2>2. Priority(t) = 2 + Len(PathOf[t])
    BY <1>3, <2>1 DEF Priority
  <2> QED
    BY <2>1, <2>2
<1> QED
  BY <1>1, <1>2, <1>3 DEF Targets, Items

LEMMA NearerRanksHigher ==
  ASSUME NEW s \in Targets, NEW t \in Targets, Within(s, t)
  PROVE  Priority(s) > Priority(t)
<1>1. ASSUME NEW c \in Comments
      PROVE  /\ Priority(c) = 2 + Len(PathOf[c]) /\ Len(PathOf[c]) \in Nat
             /\ c \in Items
  <2>1. PathOf[c] \in Seq(Comments) /\ c \notin Boards /\ c \notin Posts
    BY NotifyAssumption DEF Items
  <2> QED
    BY <2>1 DEF Priority, Items
<1>2. ASSUME NEW p \in Posts PROVE Priority(p) = 1
  BY NotifyAssumption DEF Priority, Items
<1>3. ASSUME NEW b \in Boards PROVE Priority(b) = 0
  BY NotifyAssumption DEF Priority, Items
<1>4. CASE s \in Items /\ t \in Boards
  <2>1. CASE s \in Posts
    BY <1>2, <1>3, <1>4, <2>1
  <2>2. CASE s \in Comments
    BY <1>1, <1>3, <1>4, <2>2
  <2> QED
    BY <1>4, <2>1, <2>2 DEF Items
<1>5. CASE s \in Comments /\ t \in Posts
  BY <1>1, <1>2, <1>5
<1>6. CASE s \in Comments /\ t \in Ancestors(s)
  BY <1>1, <1>6, AncestorsAreShorter
<1> QED
  BY <1>4, <1>5, <1>6 DEF Within

\* A candidate is no deeper than the item.
LEMMA CandidatesAreNoDeeper ==
  ASSUME TypeOK, NEW i \in Items
  PROVE  \E top \in Nat : \A t \in Candidates(i) : Priority(t) <= top
<1>1. ASSUME NEW b \in Boards PROVE Priority(b) = 0
  BY NotifyAssumption DEF Priority, Items
<1>2. ASSUME NEW p \in Posts PROVE Priority(p) = 1
  BY NotifyAssumption DEF Priority, Items
<1>3. BoardsOf(i) \subseteq Boards
  BY Threaded, NotifyAssumption DEF TypeOK, BoardsOf
<1>4. CASE i \in Comments
  <2> DEFINE top == 2 + Len(PathOf[i])
  <2>1. top \in Nat
    BY <1>4, NotifyAssumption
  <2>2. ASSUME NEW a \in Ancestors(i) PROVE Priority(a) <= top
    <3>1. /\ a \in Comments /\ Len(PathOf[a]) < Len(PathOf[i])
          /\ a \notin Boards /\ a \notin Posts
      BY <1>4, AncestorsAreShorter, NotifyAssumption DEF Items
    <3>2. Len(PathOf[a]) \in Nat /\ Len(PathOf[i]) \in Nat
      <4>1. PathOf[a] \in Seq(Comments) /\ PathOf[i] \in Seq(Comments)
        BY <1>4, <3>1, NotifyAssumption
      <4> QED
        BY <4>1
    <3>3. Priority(a) = 2 + Len(PathOf[a])
      BY <3>1 DEF Priority
    <3> QED
      BY <3>1, <3>2, <3>3
  <2>3. PostOf[i] \in Posts
    BY <1>4, Threaded
  <2>4. 0 <= top /\ 1 <= top
    BY <1>4, NotifyAssumption
  <2>5. ASSUME NEW t \in Candidates(i) PROVE Priority(t) <= top
    <3>1. t \in BoardsOf(i) \/ t = PostOf[i] \/ t \in Ancestors(i)
      BY DEF Candidates
    <3> QED
      BY <1>1, <1>2, <1>3, <2>2, <2>3, <2>4, <3>1
  <2> QED
    BY <2>1, <2>5
<1>5. CASE i \notin Comments
  <2>1. \A t \in Candidates(i) : Priority(t) <= 0
    BY <1>1, <1>3, <1>5 DEF Candidates
  <2> QED
    BY <2>1
<1> QED
  BY <1>4, <1>5

\* Where there is a subscription, one governs.
LEMMA SomeSubscriptionGoverns ==
  ASSUME TypeOK, NEW u, NEW i \in Items, SubscribedTo(u, Candidates(i)) # {}
  PROVE  Governing(u, i) # {}
<1> DEFINE S == SubscribedTo(u, Candidates(i))
<1>1. PICK top \in Nat : \A t \in Candidates(i) : Priority(t) <= top
  BY CandidatesAreNoDeeper
<1>2. \A t \in S : t \in Candidates(i) /\ Priority(t) \in Nat
  BY CandidatesType, PriorityType DEF SubscribedTo
<1> HIDE DEF S
<1> DEFINE Depths == {d \in Nat : \E t \in S : d = top - Priority(t)}
<1>3. Depths # {}
  <2>1. PICK t \in S : TRUE
    BY DEF S
  <2>2. top - Priority(t) \in Nat
    BY <1>1, <1>2
  <2> QED
    BY <2>2
<1>4. PICK d \in Depths : \A e \in Depths : <<e, d>> \notin OpToRel(<, Nat)
  BY <1>3, NatLessThanWellFounded, WFMin
<1>5. PICK t \in S : d = top - Priority(t)
  BY <1>4
<1>6. ASSUME NEW s \in S PROVE Priority(s) <= Priority(t)
  <2>1. /\ Priority(s) \in Nat /\ Priority(t) \in Nat /\ top \in Nat
        /\ Priority(s) <= top
    BY <1>1, <1>2
  <2>2. top - Priority(s) \in Depths
    BY <2>1
  <2>3. ~(top - Priority(s) < d)
    BY <1>4, <2>2 DEF OpToRel
  <2> QED
    BY <1>5, <2>1, <2>3
<1> QED
  BY <1>5, <1>6 DEF S, Governing

\* The nearest subscription decides as the plan tells it.
LEMMA FollowersAreOn ==
  ASSUME TypeOK, NEW u, NEW i \in Items, Follows(u, i)
  PROVE  Governing(u, i) # {} /\ ~MayBe(u, i, "muted")
<1>1. PICK t \in Candidates(i) :
        /\ subs[<<u, t>>] = "on"
        /\ \A s \in Candidates(i) : subs[<<u, s>>] = "muted" => Within(t, s)
  BY DEF Follows
<1>2. t \in SubscribedTo(u, Candidates(i))
  BY <1>1 DEF SubscribedTo
<1>3. ASSUME NEW s \in Governing(u, i), subs[<<u, s>>] = "muted" PROVE FALSE
  <2>1. s \in Candidates(i) /\ Priority(t) <= Priority(s)
    BY <1>2 DEF Governing, SubscribedTo
  <2>2. s \in Targets /\ t \in Targets
    BY <2>1, CandidatesType
  <2>3. Priority(t) > Priority(s)
    BY <1>1, <1>3, <2>1, <2>2, NearerRanksHigher
  <2> QED
    BY <2>1, <2>2, <2>3, PriorityType
<1> QED
  BY <1>2, <1>3, SomeSubscriptionGoverns DEF MayBe

LEMMA IgnorersAreNotOn ==
  ASSUME TypeOK, NEW u, NEW i \in Items, Ignores(u, i)
  PROVE  ~MayBe(u, i, "on")
<1>1. ASSUME NEW t \in Governing(u, i), subs[<<u, t>>] = "on" PROVE FALSE
  <2>1. t \in Candidates(i)
    BY DEF Governing, SubscribedTo
  <2>2. PICK s \in Candidates(i) : subs[<<u, s>>] = "muted" /\ Within(s, t)
    BY <1>1, <2>1 DEF Ignores
  <2>3. s \in SubscribedTo(u, Candidates(i))
    BY <2>2 DEF SubscribedTo
  <2>4. Priority(s) <= Priority(t)
    BY <2>3 DEF Governing
  <2>5. s \in Targets /\ t \in Targets
    BY <2>1, CandidatesType
  <2> QED
    BY <2>2, <2>4, <2>5, NearerRanksHigher, PriorityType
<1> QED
  BY <1>1 DEF MayBe

-----------------------------------------------------------------------------
\* What a request noted down stays fair to whoever changes nothing.
LEMMA SettledStays ==
  ASSUME TypeOK, NEW u \in Users, NEW i \in Items, NEW before, NEW touched,
         before \subseteq touched, Noted(u, touched),
         <<u, "policy">> \notin touched, NEW told, Settled(u, i, before, told)
  PROVE  Settled(u, i, touched, told)'
<1> DEFINE granted == <<u, AuthorOf[i]>> \in grants
           subscribed == \E t \in MentionScope(i) : subs[<<u, t>>] # "none"
<1>1. policy'[u] = policy[u]
  BY DEF Noted
<1>2. <<u, "grants">> \notin touched =>
        (<<u, AuthorOf[i]>> \in grants' <=> <<u, AuthorOf[i]>> \in grants)
  BY Threaded DEF Noted
<1>3. <<u, "subs">> \notin touched => (subscribed' <=> subscribed)
  <2> HAVE <<u, "subs">> \notin touched
  <2>1. shown' = shown /\ \A t \in Targets : subs'[<<u, t>>] = subs[<<u, t>>]
    BY DEF Noted
  <2>2. MentionScope(i)' = MentionScope(i)
    BY <2>1 DEF MentionScope, BoardsOf
  <2> QED
    BY <2>1, <2>2, CandidatesType
<1>4. <<u, "grants">> \notin touched => <<u, "grants">> \notin before
  OBVIOUS
<1>5. <<u, "subs">> \notin touched => <<u, "subs">> \notin before
  OBVIOUS
<1>6. /\ policy[u] = "everyone" => told
      /\ policy[u] = "nobody" => ~told
      /\ policy[u] = "authorized" /\ <<u, "grants">> \notin before =>
           (told <=> granted)
      /\ policy[u] = "subscribed" /\ <<u, "grants">> \notin before /\ granted =>
           told
      /\ /\ policy[u] = "subscribed" /\ ~granted
         /\ <<u, "grants">> \notin before /\ <<u, "subs">> \notin before
         => (told <=> subscribed)
  BY DEF Settled
<1> QED
  BY <1>1, <1>2, <1>3, <1>4, <1>5, <1>6 DEF Settled

LEMMA SameFollowing ==
  ASSUME TypeOK, NEW u \in Users, NEW i \in Items, shown' = shown,
         \A t \in Targets : subs'[<<u, t>>] = subs[<<u, t>>]
  PROVE  /\ Follows(u, i)' <=> Follows(u, i)
         /\ Ignores(u, i)' <=> Ignores(u, i)
<1>1. Candidates(i)' = Candidates(i) /\ Candidates(i) \subseteq Targets
  BY CandidatesType DEF Candidates, BoardsOf
<1>2. \A s, t : Within(s, t)' <=> Within(s, t)
  BY DEF Within
<1>3. Follows(u, i)' <=> Follows(u, i)
  BY <1>1, <1>2 DEF Follows
<1>4. Ignores(u, i)' <=> Ignores(u, i)
  BY <1>1, <1>2 DEF Ignores
<1> QED
  BY <1>3, <1>4

\* The same request, noted down with more that was touched.
SameWork(old, new) ==
  /\ new.at = old.at /\ new.kind = old.kind /\ new.item = old.item
  /\ new.handles = old.handles /\ new.todo = old.todo /\ new.gate = old.gate
  /\ new.news = old.news /\ new.tell = old.tell
  /\ old.touched \subseteq new.touched

LEMMA FairStays ==
  ASSUME TypeOK, NEW old \in Request, NEW new \in Request, old # Idle,
         new # Idle, SameWork(old, new), Remembered,
         \A u \in Users : Noted(u, new.touched), Fair(old)
  PROVE  Fair(new)'
<1>1. /\ old.item \in Items /\ old.handles \subseteq Users
      /\ old.gate # << >> => old.gate[1] \in Users
  BY Fields
<1>2. Publishes(new)' => Publishes(old)
  BY DEF Publishes, SameWork
<1>3. ASSUME GateFair(old) PROVE GateFair(new)'
  <2> SUFFICES ASSUME old.gate # << >>
               PROVE  /\ old.gate[1] \notin old.todo \cup old.tell
                      /\ <<old.gate[1], "policy">> \notin new.touched =>
                           old.gate[2] = policy'[old.gate[1]]
                      /\ old.at = "scope" =>
                           /\ old.gate[2] = "subscribed"
                           /\ <<old.gate[1], "grants">> \notin new.touched =>
                                <<old.gate[1], AuthorOf[old.item]>> \notin grants'
    BY DEF GateFair, SameWork
  <2>1. PICK u \in Users : u = old.gate[1]
    BY <1>1
  <2>2. /\ u \notin old.todo \cup old.tell
        /\ <<u, "policy">> \notin old.touched => old.gate[2] = policy[u]
        /\ old.at = "scope" =>
             /\ old.gate[2] = "subscribed"
             /\ <<u, "grants">> \notin old.touched =>
                  <<u, AuthorOf[old.item]>> \notin grants
    BY <1>3, <2>1 DEF GateFair
  <2>3. Noted(u, new.touched) /\ old.touched \subseteq new.touched
    BY DEF SameWork
  <2>4. <<u, "policy">> \notin new.touched => old.gate[2] = policy'[u]
    BY <2>2, <2>3 DEF Noted
  <2>5. <<u, "grants">> \notin new.touched /\ old.at = "scope" =>
          <<u, AuthorOf[old.item]>> \notin grants'
    BY <1>1, <2>2, <2>3, Threaded DEF Noted
  <2> QED
    BY <2>1, <2>2, <2>4, <2>5
<1>4. ASSUME MentionsFair(old) PROVE MentionsFair(new)'
  <2>1. ASSUME new.at \in {"policy", "grant", "scope"},
               NEW u \in new.handles \ {AuthorOf[new.item]},
               <<u, "policy">> \notin new.touched,
               inbox'[<<u, "mention", new.item>>] = 0
        PROVE  \/ u \in new.todo
               \/ Asks(new, u)
               \/ Settled(u, new.item, new.touched, u \in new.tell)'
    <3>1. /\ u \in Users /\ old.touched \subseteq new.touched
          /\ u \in old.handles \ {AuthorOf[old.item]}
          /\ old.at \in {"policy", "grant", "scope"} /\ new.item = old.item
          /\ new.tell = old.tell
      BY <1>1, <2>1 DEF SameWork
    <3>2. <<u, "policy">> \notin old.touched /\ inbox[<<u, "mention", old.item>>] = 0
      BY <1>1, <2>1, <3>1 DEF Remembered
    <3>3. \/ u \in old.todo
          \/ Asks(old, u)
          \/ Settled(u, old.item, old.touched, u \in old.tell)
      BY <1>4, <3>1, <3>2 DEF MentionsFair
    <3>4. PICK told : told = (u \in old.tell)
      OBVIOUS
    <3>5. ASSUME Settled(u, old.item, old.touched, u \in old.tell)
          PROVE  Settled(u, new.item, new.touched, u \in new.tell)'
      <4>1. Settled(u, old.item, old.touched, told)
        BY <3>4, <3>5
      <4>2. Settled(u, old.item, new.touched, told)'
        BY <1>1, <2>1, <3>1, <4>1, SettledStays
      <4> QED
        BY <3>1, <3>4, <4>2
    <3> QED
      BY <3>3, <3>5 DEF SameWork, Asks
  <2>2. /\ new.todo \cap new.tell = {}
        /\ new.at \in {"subscribers", "mentioned"} =>
             new.tell = {} /\ new.gate = << >>
        /\ new.at = "policy" => new.gate = << >>
    BY <1>4 DEF MentionsFair, SameWork
  <2>3. \A u : Asks(new, u)' <=> Asks(new, u)
    BY DEF Asks
  <2> QED
    BY <2>1, <2>2, <2>3 DEF MentionsFair
<1>5. ASSUME NewsFair(old) PROVE NewsFair(new)'
  <2> SUFFICES ASSUME new.kind = "create", new.at # "subscribers",
                      NEW u \in Users \ {AuthorOf[new.item]},
                      <<u, "subs">> \notin new.touched
               PROVE  /\ Follows(u, new.item)' => u \in new.news
                      /\ Ignores(u, new.item)' => u \notin new.news
    BY DEF NewsFair
  <2>1. <<u, "subs">> \notin old.touched
    BY DEF SameWork
  <2>2. /\ Follows(u, old.item) => u \in old.news
        /\ Ignores(u, old.item) => u \notin old.news
    BY <1>5, <2>1 DEF NewsFair, SameWork
  <2>3. /\ Follows(u, old.item)' <=> Follows(u, old.item)
        /\ Ignores(u, old.item)' <=> Ignores(u, old.item)
    BY <1>1, SameFollowing DEF Noted
  <2> QED
    BY <2>2, <2>3 DEF SameWork
<1> QED
  BY <1>2, <1>3, <1>4, <1>5 DEF Fair

-----------------------------------------------------------------------------
\* Where users change nothing, a step is fair if the request that takes it is.
LEMMA StepIsFair ==
  ASSUME Inv, FairInv, NEW r \in Requests, NEW req \in Request, Fair(req),
         reqs' = [reqs EXCEPT ![r] = req],
         UNCHANGED <<shown, subs, policy, grants>>, Remembered
  PROVE  FairInv'
<1>1. \A u \in Users : \A touched : Noted(u, touched)
  BY DEF Noted
<1>2. \A q \in Requests : reqs'[q] = IF q = r THEN req ELSE reqs[q]
  BY DEF Inv, TypeOK
<1>3. ASSUME NEW q \in Requests, NEW old \in Request, Fair(old),
             reqs'[q] = old
      PROVE  Fair(reqs[q])'
  <2>1. CASE old = Idle
    BY <1>3, <2>1 DEF Fair, Publishes, Idle
  <2>2. CASE old # Idle
    <3>1. SameWork(old, old)
      BY DEF SameWork
    <3>2. Fair(old)'
      BY <1>1, <1>3, <2>2, <3>1, FairStays DEF Inv
    <3> QED
      BY <1>3, <3>2
  <2> QED
    BY <2>1, <2>2
<1>4. \A q \in Requests : reqs[q] \in Request /\ Fair(reqs[q])
  BY DEF Inv, TypeOK, FairInv
<1> QED
  BY <1>2, <1>3, <1>4 DEF FairInv

LEMMA SameInbox ==
  ASSUME inbox' = inbox
  PROVE  Remembered
BY DEF Remembered

\* A request that has just started has noted down nothing yet.
LEMMA FreshIsFair ==
  ASSUME NEW req, req.todo = {}, req.gate = << >>, req.tell = {},
         \/ req.kind = "create" /\ req.at = "subscribers"
         \/ req.kind = "edit" /\ req.at = "mentioned"
         \/ req.kind = "endorse"
  PROVE  Fair(req)
<1>1. GateFair(req)
  BY DEF GateFair
<1>2. ASSUME req.kind # "endorse" PROVE MentionsFair(req) /\ NewsFair(req)
  BY <1>2 DEF MentionsFair, NewsFair
<1> QED
  BY <1>1, <1>2 DEF Fair, Publishes

LEMMA StartIsFair ==
  ASSUME Inv, FairInv, NEW r \in Requests, NEW at, NEW kind, NEW i \in Items,
         NEW handles \in SUBSET Users, Starts(r, at, kind, i, handles),
         \/ kind = "create" /\ at = "subscribers"
         \/ kind = "edit" /\ at = "mentioned"
         \/ kind = "endorse" /\ at = "settings",
         UNCHANGED preferences, inbox' = inbox
  PROVE  FairInv'
<1>1. PICK req : req = [at |-> at, kind |-> kind, item |-> i,
                        handles |-> handles, todo |-> {}, gate |-> << >>,
                        news |-> {}, tell |-> {}, touched |-> {}]
  OBVIOUS
<1>2. req \in Request
  BY <1>1 DEF Request
<1>3. reqs' = [reqs EXCEPT ![r] = req]
  BY <1>1 DEF Starts
<1>4. Fair(req)
  BY <1>1, FreshIsFair
<1> QED
  BY <1>2, <1>3, <1>4, SameInbox, StepIsFair DEF preferences

LEMMA StartsFairly ==
  ASSUME Inv, FairInv, NEW r \in Requests, Create(r) \/ Edit(r) \/ Endorse(r)
  PROVE  FairInv'
<1>1. created \subseteq Items /\ Bodies \subseteq SUBSET Users
  BY NotifyAssumption DEF Inv, TypeOK
<1>2. UNCHANGED preferences /\ inbox' = inbox
  BY DEF Create, Edit, Endorse
<1>3. CASE Create(r)
  <2>1. PICK i \in Items \ created, handles \in Bodies :
          Starts(r, "subscribers", "create", i, handles)
    BY <1>3 DEF Create
  <2> QED
    BY <1>1, <1>2, <2>1, StartIsFair
<1>4. CASE Edit(r)
  <2>1. PICK i \in created, handles \in Bodies :
          Starts(r, "mentioned", "edit", i, handles)
    BY <1>4 DEF Edit
  <2> QED
    BY <1>1, <1>2, <2>1, StartIsFair
<1>5. CASE Endorse(r)
  <2>1. PICK i \in created : Starts(r, "settings", "endorse", i, {})
    BY <1>5 DEF Endorse
  <2> QED
    BY <1>1, <1>2, <2>1, StartIsFair
<1> QED
  BY <1>3, <1>4, <1>5

LEMMA EndsFairly ==
  ASSUME Inv, FairInv, NEW r \in Requests, Ends(r), UNCHANGED preferences,
         Remembered
  PROVE  FairInv'
<1>1. Idle \in Request /\ Fair(Idle)
  BY DEF Request, Fair, Publishes
<1> QED
  BY <1>1, StepIsFair DEF Ends, preferences

\* What fanOutContent finds is what nearer mutes leave of the subscriptions.
LEMMA FanOutIsFair ==
  ASSUME Inv, FairInv, NEW r \in Requests, FanOutContent(r)
  PROVE  FairInv'
<1>1. /\ reqs[r].at = "subscribers" /\ reqs[r] # Idle /\ reqs[r] \in Request
      /\ reqs[r].item \in Items
  BY Busy, Fields DEF FanOutContent, Inv, TypeOK
<1>2. PICK i : i = reqs[r].item
  OBVIOUS
<1>3. PICK news \in SUBSET {u \in Users \ {AuthorOf[i]} : MayBe(u, i, "on")} :
        /\ \A u \in (Users \ {AuthorOf[i]}) \ news :
             Governing(u, i) = {} \/ MayBe(u, i, "muted")
        /\ reqs' = [reqs EXCEPT ![r].news = news, ![r].at = "mentioned"]
  BY <1>2 DEF FanOutContent
<1> DEFINE req == [reqs[r] EXCEPT !.news = news, !.at = "mentioned"]
<1>4. /\ req \in Request /\ req.item = i /\ req.kind = reqs[r].kind
      /\ req.at = "mentioned" /\ req.news = news
      /\ req.todo = reqs[r].todo /\ req.tell = reqs[r].tell
      /\ req.gate = reqs[r].gate /\ req # Idle
  BY <1>1, <1>2, <1>3 DEF Request, Idle
<1>5. reqs' = [reqs EXCEPT ![r] = req]
  BY <1>3 DEF Inv, TypeOK
<1> HIDE DEF req
<1>6. /\ reqs[r].kind = "create" /\ MentionsFair(reqs[r])
  <2>1. Right(reqs[r]) /\ Fair(reqs[r])
    BY DEF Inv, FairInv
  <2>2. reqs[r].kind = "create"
    BY <1>1, <2>1 DEF Right
  <2> QED
    BY <1>1, <2>1, <2>2 DEF Fair, Publishes
<1>7. GateFair(req) /\ MentionsFair(req)
  BY <1>1, <1>4, <1>6 DEF GateFair, MentionsFair
<1>8. ASSUME NEW u \in Users \ {AuthorOf[i]}
      PROVE  /\ Follows(u, i) => u \in news
             /\ Ignores(u, i) => u \notin news
  <2>1. i \in Items /\ TypeOK
    BY <1>1, <1>2 DEF Inv
  <2>2. Follows(u, i) => u \in news
    BY <1>3, <2>1, FollowersAreOn
  <2>3. Ignores(u, i) => u \notin news
    BY <1>3, <2>1, IgnorersAreNotOn
  <2> QED
    BY <2>2, <2>3
<1>9. NewsFair(req)
  BY <1>4, <1>8 DEF NewsFair
<1>10. UNCHANGED <<shown, subs, policy, grants>> /\ inbox' = inbox
  BY DEF FanOutContent, preferences
<1> QED
  BY <1>4, <1>5, <1>7, <1>9, <1>10, SameInbox, StepIsFair DEF Fair

\* Whoever is mentioned and was not told of it yet is to be asked about.
LEMMA FindMentionedIsFair ==
  ASSUME Inv, FairInv, NEW r \in Requests, FindMentioned(r)
  PROVE  FairInv'
<1>1. /\ reqs[r].at = "mentioned" /\ reqs[r] # Idle /\ reqs[r] \in Request
      /\ reqs[r].handles \subseteq Users
  BY Busy, Fields DEF FindMentioned, Inv, TypeOK
<1>2. PICK todo : todo = {u \in reqs[r].handles \ {AuthorOf[reqs[r].item]} :
                            inbox[<<u, "mention", reqs[r].item>>] = 0}
  OBVIOUS
<1> DEFINE req == [reqs[r] EXCEPT !.todo = todo, !.at = "policy"]
<1>3. todo \subseteq Users
  BY <1>1, <1>2
<1>4. /\ req \in Request /\ req.item = reqs[r].item /\ req.kind = reqs[r].kind
      /\ req.at = "policy" /\ req.news = reqs[r].news /\ req # Idle
      /\ req.todo = todo /\ req.tell = reqs[r].tell /\ req.gate = reqs[r].gate
      /\ req.handles = reqs[r].handles /\ req.touched = reqs[r].touched
  BY <1>1, <1>3 DEF Request, Idle
<1>5. reqs' = [reqs EXCEPT ![r] = req]
  BY <1>2 DEF FindMentioned, Inv, TypeOK
<1> HIDE DEF req
<1>6. Fair(req)
  <2> SUFFICES ASSUME Publishes(req)
               PROVE  GateFair(req) /\ MentionsFair(req) /\ NewsFair(req)
    BY DEF Fair
  <2>1. MentionsFair(reqs[r]) /\ NewsFair(reqs[r])
    BY <1>1, <1>4 DEF Fair, FairInv, Publishes
  <2>2. GateFair(req) /\ req.gate = << >> /\ req.tell = {}
    BY <1>1, <1>4, <2>1 DEF GateFair, MentionsFair
  <2>3. MentionsFair(req)
    BY <1>2, <1>4, <2>2 DEF MentionsFair
  <2>4. NewsFair(req)
    BY <1>1, <1>4, <2>1 DEF NewsFair
  <2> QED
    BY <2>2, <2>3, <2>4
<1>7. UNCHANGED <<shown, subs, policy, grants>> /\ inbox' = inbox
  BY DEF FindMentioned, preferences
<1> QED
  BY <1>4, <1>5, <1>6, <1>7, SameInbox, StepIsFair

LEMMA ReadPolicyIsFair ==
  ASSUME Inv, FairInv, NEW r \in Requests, ReadPolicy(r)
  PROVE  FairInv'
<1>1. reqs[r].at = "policy" /\ reqs[r] # Idle /\ reqs[r] \in Request
  BY Busy DEF ReadPolicy, Inv, TypeOK
<1>2. PICK u \in reqs[r].todo :
        reqs' = [reqs EXCEPT ![r].todo = @ \ {u}, ![r].gate = <<u, policy[u]>>,
                             ![r].at = "grant"]
  BY DEF ReadPolicy
<1> DEFINE req == [reqs[r] EXCEPT !.todo = @ \ {u}, !.gate = <<u, policy[u]>>,
                                  !.at = "grant"]
<1>3. <<u, policy[u]>> \in Users \X Policies
  BY <1>1, Fields DEF Inv, TypeOK
<1>4. /\ req \in Request /\ req.item = reqs[r].item /\ req.kind = reqs[r].kind
      /\ req.at = "grant" /\ req.news = reqs[r].news /\ req # Idle
      /\ req.todo = reqs[r].todo \ {u} /\ req.tell = reqs[r].tell
      /\ req.gate = <<u, policy[u]>>
      /\ req.handles = reqs[r].handles /\ req.touched = reqs[r].touched
  BY <1>1, <1>3 DEF Request, Idle
<1>5. reqs' = [reqs EXCEPT ![r] = req]
  BY <1>2 DEF Inv, TypeOK
<1> HIDE DEF req
<1>6. Fair(req)
  <2> SUFFICES ASSUME Publishes(req)
               PROVE  GateFair(req) /\ MentionsFair(req) /\ NewsFair(req)
    BY DEF Fair
  <2>1. MentionsFair(reqs[r]) /\ NewsFair(reqs[r])
    BY <1>1, <1>4 DEF Fair, FairInv, Publishes
  <2>2. reqs[r].todo \cap reqs[r].tell = {} /\ reqs[r].gate = << >>
    BY <1>1, <2>1 DEF MentionsFair
  <2>3. req.gate[1] = u /\ req.gate[2] = policy[u] /\ req.gate # << >>
    BY <1>4
  <2>4. GateFair(req)
    BY <1>2, <1>4, <2>2, <2>3 DEF GateFair
  <2>5. ASSUME NEW v \in req.handles \ {AuthorOf[req.item]},
               <<v, "policy">> \notin req.touched,
               inbox[<<v, "mention", req.item>>] = 0
        PROVE  \/ v \in req.todo
               \/ Asks(req, v)
               \/ Settled(v, req.item, req.touched, v \in req.tell)
    <3>1. \/ v \in reqs[r].todo
          \/ Asks(reqs[r], v)
          \/ Settled(v, req.item, req.touched, v \in req.tell)
      BY <1>1, <1>4, <2>1, <2>5 DEF MentionsFair
    <3> QED
      BY <1>4, <2>2, <2>3, <3>1 DEF Asks
  <2>6. MentionsFair(req)
    BY <1>4, <2>2, <2>5 DEF MentionsFair
  <2>7. NewsFair(req)
    BY <1>1, <1>4, <2>1 DEF NewsFair
  <2> QED
    BY <2>4, <2>6, <2>7
<1>7. UNCHANGED <<shown, subs, policy, grants>> /\ inbox' = inbox
  BY DEF ReadPolicy, preferences
<1> QED
  BY <1>4, <1>5, <1>6, <1>7, SameInbox, StepIsFair

\* What the gate decides is settled: with the policy it was given, and what the
\* grant or the subscriptions just read say.
LEMMA GateSettles ==
  ASSUME TypeOK, NEW u \in Users, NEW i \in Items, NEW touched,
         NEW allowed \in BOOLEAN, NEW granted, NEW subscribed,
         granted = (<<u, AuthorOf[i]>> \in grants),
         subscribed = (SubscribedTo(u, MentionScope(i)) # {}),
         \/ /\ policy[u] = "subscribed" => granted
            /\ allowed <=> granted
         \/ /\ policy[u] = "subscribed"
            /\ <<u, "grants">> \notin touched => ~granted
            /\ allowed <=> subscribed
  PROVE  Settled(u, i, touched, MentionGateAllows(policy[u], allowed))
<1> DEFINE told == MentionGateAllows(policy[u], allowed)
<1>1. /\ policy[u] = "everyone" => told
      /\ policy[u] = "nobody" => ~told
      /\ policy[u] \in {"authorized", "subscribed"} => (told <=> allowed)
  BY DEF MentionGateAllows
<1>2. subscribed <=> \E t \in MentionScope(i) : subs[<<u, t>>] # "none"
  BY DEF SubscribedTo
<1> HIDE DEF told
<1>3. Settled(u, i, touched, told)
  BY <1>1, <1>2 DEF Settled
<1> QED
  BY <1>3 DEF told

LEMMA DecidesFairly ==
  ASSUME Inv, FairInv, NEW r \in Requests, reqs[r].at \in {"grant", "scope"},
         NEW allowed \in BOOLEAN, Decides(r, allowed),
         UNCHANGED <<created, inbox, preferences, changes>>,
         NEW u \in Users, u = reqs[r].gate[1],
         <<u, "policy">> \notin reqs[r].touched =>
           Settled(u, reqs[r].item, reqs[r].touched,
                   MentionGateAllows(reqs[r].gate[2], allowed))
  PROVE  FairInv'
<1>1. reqs[r] # Idle /\ reqs[r] \in Request
  BY Busy DEF Inv, TypeOK
<1>2. reqs[r].gate # << >>
  BY <1>1 DEF Inv, Right
<1>3. PICK told \in BOOLEAN :
        told <=> MentionGateAllows(reqs[r].gate[2], allowed)
  <2>1. CASE MentionGateAllows(reqs[r].gate[2], allowed)
    BY <2>1
  <2>2. CASE ~MentionGateAllows(reqs[r].gate[2], allowed)
    BY <2>2
  <2> QED
    BY <2>1, <2>2
<1>4. PICK tell \in SUBSET Users :
        /\ reqs' = [reqs EXCEPT ![r].tell = tell, ![r].gate = << >>,
                                ![r].at = "policy"]
        /\ tell \subseteq reqs[r].tell \cup {u}
        /\ u \notin reqs[r].tell => (u \in tell <=> told)
        /\ \A v : v # u => (v \in tell <=> v \in reqs[r].tell)
  <2>1. reqs' = [reqs EXCEPT
          ![r].tell = IF told THEN reqs[r].tell \cup {u} ELSE reqs[r].tell,
          ![r].gate = << >>, ![r].at = "policy"]
    BY <1>3 DEF Decides, Inv, TypeOK
  <2>2. reqs[r].tell \subseteq Users
    BY <1>1, Fields
  <2>3. CASE told
    <3>1. PICK tell : tell = reqs[r].tell \cup {u}
      OBVIOUS
    <3>2. reqs' = [reqs EXCEPT ![r].tell = tell, ![r].gate = << >>,
                               ![r].at = "policy"]
      BY <2>1, <2>3, <3>1
    <3>3. /\ tell \in SUBSET Users
          /\ tell \subseteq reqs[r].tell \cup {u}
          /\ u \notin reqs[r].tell => (u \in tell <=> told)
          /\ \A v : v # u => (v \in tell <=> v \in reqs[r].tell)
      BY <2>2, <2>3, <3>1
    <3> QED
      BY <3>2, <3>3
  <2>4. CASE ~told
    <3>1. PICK tell : tell = reqs[r].tell
      OBVIOUS
    <3>2. reqs' = [reqs EXCEPT ![r].tell = tell, ![r].gate = << >>,
                               ![r].at = "policy"]
      BY <2>1, <2>4, <3>1
    <3>3. /\ tell \in SUBSET Users
          /\ tell \subseteq reqs[r].tell \cup {u}
          /\ u \notin reqs[r].tell => (u \in tell <=> told)
          /\ \A v : v # u => (v \in tell <=> v \in reqs[r].tell)
      BY <2>2, <2>4, <3>1
    <3> QED
      BY <3>2, <3>3
  <2> QED
    BY <2>3, <2>4
<1> DEFINE req == [reqs[r] EXCEPT !.tell = tell, !.gate = << >>,
                                  !.at = "policy"]
<1>5. /\ req \in Request /\ req.item = reqs[r].item /\ req.kind = reqs[r].kind
      /\ req.at = "policy" /\ req.news = reqs[r].news /\ req # Idle
      /\ req.todo = reqs[r].todo /\ req.tell = tell /\ req.gate = << >>
      /\ req.handles = reqs[r].handles /\ req.touched = reqs[r].touched
  BY <1>1, <1>4 DEF Request, Idle
<1>6. reqs' = [reqs EXCEPT ![r] = req]
  BY <1>4 DEF Inv, TypeOK
<1> HIDE DEF req
<1>7. Fair(req)
  <2> SUFFICES ASSUME Publishes(req)
               PROVE  GateFair(req) /\ MentionsFair(req) /\ NewsFair(req)
    BY DEF Fair
  <2>1. GateFair(reqs[r]) /\ MentionsFair(reqs[r]) /\ NewsFair(reqs[r])
    BY <1>1, <1>5 DEF Fair, FairInv, Publishes
  <2>2. GateFair(req)
    BY <1>5 DEF GateFair
  <2>3. /\ u \notin reqs[r].todo /\ u \notin reqs[r].tell
        /\ reqs[r].todo \cap reqs[r].tell = {}
    BY <1>2, <2>1 DEF GateFair, MentionsFair
  <2>4. req.todo \cap req.tell = {}
    BY <1>4, <1>5, <2>3
  <2>5. ASSUME NEW v \in req.handles \ {AuthorOf[req.item]},
               <<v, "policy">> \notin req.touched,
               inbox[<<v, "mention", req.item>>] = 0
        PROVE  \/ v \in req.todo
               \/ Settled(v, req.item, req.touched, v \in req.tell)
    <3>1. CASE v = u
      <4>1. Settled(u, req.item, req.touched,
                    MentionGateAllows(reqs[r].gate[2], allowed))
        BY <1>5, <2>5, <3>1
      <4>2. v \in req.tell <=> told
        BY <1>4, <1>5, <2>3, <3>1
      <4> QED
        BY <1>3, <3>1, <4>1, <4>2 DEF Settled
    <3>2. CASE v # u
      <4>1. \/ v \in reqs[r].todo
            \/ Settled(v, req.item, req.touched, v \in reqs[r].tell)
        BY <1>5, <2>1, <2>5, <3>2 DEF MentionsFair, Asks
      <4>2. v \in req.tell <=> v \in reqs[r].tell
        BY <1>4, <1>5, <3>2
      <4> QED
        BY <1>5, <4>1, <4>2 DEF Settled
    <3> QED
      BY <3>1, <3>2
  <2>6. MentionsFair(req)
    BY <1>5, <2>4, <2>5 DEF MentionsFair
  <2>7. NewsFair(req)
    BY <1>5, <2>1 DEF NewsFair
  <2> QED
    BY <2>2, <2>6, <2>7
<1>8. UNCHANGED <<shown, subs, policy, grants>> /\ inbox' = inbox
  BY DEF preferences
<1> QED
  BY <1>5, <1>6, <1>7, <1>8, SameInbox, StepIsFair

\* The gate's own facts, for a request whose gate is being asked.
LEMMA GateFacts ==
  ASSUME Inv, FairInv, NEW r \in Requests, reqs[r].at \in {"grant", "scope"}
  PROVE  /\ reqs[r].gate[1] \in Users /\ reqs[r].gate # << >>
         /\ reqs[r].item \in Items /\ reqs[r] \in Request /\ reqs[r] # Idle
         /\ GateFair(reqs[r])
<1>1. reqs[r] # Idle /\ reqs[r] \in Request
  BY Busy DEF Inv, TypeOK
<1>2. reqs[r].gate # << >> /\ reqs[r].kind # "endorse"
  BY <1>1 DEF Inv, Right
<1>3. GateFair(reqs[r])
  BY <1>1, <1>2, Fields DEF FairInv, Fair, Publishes
<1> QED
  BY <1>1, <1>2, <1>3, Fields

LEMMA ReadGrantIsFair ==
  ASSUME Inv, FairInv, NEW r \in Requests, ReadGrant(r)
  PROVE  FairInv'
<1>1. reqs[r].at = "grant" /\ UNCHANGED <<created, inbox, preferences, changes>>
  BY DEF ReadGrant
<1>2. /\ reqs[r].gate[1] \in Users /\ reqs[r].gate # << >>
      /\ reqs[r].item \in Items /\ reqs[r] \in Request /\ reqs[r] # Idle
      /\ GateFair(reqs[r])
  BY <1>1, GateFacts
<1>3. PICK u \in Users : u = reqs[r].gate[1]
  BY <1>2
<1>4. PICK granted \in BOOLEAN :
        granted <=> <<u, AuthorOf[reqs[r].item]>> \in grants
  <2>1. CASE <<u, AuthorOf[reqs[r].item]>> \in grants
    BY <2>1
  <2>2. CASE <<u, AuthorOf[reqs[r].item]>> \notin grants
    BY <2>2
  <2> QED
    BY <2>1, <2>2
<1>5. CASE ~(reqs[r].gate[2] = "subscribed" /\ ~granted)
  <2>1. Decides(r, <<u, AuthorOf[reqs[r].item]>> \in grants)
    BY <1>3, <1>4, <1>5 DEF ReadGrant
  <2>2. Decides(r, granted)
    BY <1>4, <2>1 DEF Decides, MentionGateAllows
  <2>3. ASSUME <<u, "policy">> \notin reqs[r].touched
        PROVE  Settled(u, reqs[r].item, reqs[r].touched,
                       MentionGateAllows(reqs[r].gate[2], granted))
    <3>1. reqs[r].gate[2] = policy[u]
      BY <1>2, <1>3, <2>3 DEF GateFair
    <3>2. Settled(u, reqs[r].item, reqs[r].touched,
                  MentionGateAllows(policy[u], granted))
      BY <1>2, <1>4, <1>5, <3>1, GateSettles DEF Inv
    <3> QED
      BY <3>1, <3>2
  <2> QED
    BY <1>1, <1>3, <2>2, <2>3, DecidesFairly
<1>6. CASE reqs[r].gate[2] = "subscribed" /\ ~granted
  <2>1. Goes(r, "scope")
    BY <1>3, <1>4, <1>6 DEF ReadGrant
  <2> DEFINE req == [reqs[r] EXCEPT !.at = "scope"]
  <2>2. /\ req \in Request /\ req.item = reqs[r].item /\ req.kind = reqs[r].kind
        /\ req.at = "scope" /\ req.news = reqs[r].news /\ req # Idle
        /\ req.todo = reqs[r].todo /\ req.tell = reqs[r].tell
        /\ req.gate = reqs[r].gate
        /\ req.handles = reqs[r].handles /\ req.touched = reqs[r].touched
    BY <1>2 DEF Request, Idle
  <2>3. reqs' = [reqs EXCEPT ![r] = req]
    BY <2>1 DEF Goes, Inv, TypeOK
  <2> HIDE DEF req
  <2>4. GateFair(req)
    BY <1>2, <1>3, <1>4, <1>6, <2>2 DEF GateFair
  <2>5. ASSUME Publishes(req) PROVE MentionsFair(req) /\ NewsFair(req)
    <3>1. MentionsFair(reqs[r]) /\ NewsFair(reqs[r])
      BY <1>2, <2>2, <2>5 DEF Fair, FairInv, Publishes
    <3>2. MentionsFair(req)
      BY <1>1, <2>2, <3>1 DEF MentionsFair, Asks
    <3>3. NewsFair(req)
      BY <1>1, <2>2, <3>1 DEF NewsFair
    <3> QED
      BY <3>2, <3>3
  <2>6. UNCHANGED <<shown, subs, policy, grants>> /\ inbox' = inbox
    BY <1>1 DEF preferences
  <2> QED
    BY <2>2, <2>3, <2>4, <2>5, <2>6, SameInbox, StepIsFair DEF Fair
<1> QED
  BY <1>5, <1>6

LEMMA ReadScopeIsFair ==
  ASSUME Inv, FairInv, NEW r \in Requests, ReadScope(r)
  PROVE  FairInv'
<1>1. reqs[r].at = "scope" /\ UNCHANGED <<created, inbox, preferences, changes>>
  BY DEF ReadScope
<1>2. /\ reqs[r].gate[1] \in Users /\ reqs[r].gate # << >>
      /\ reqs[r].item \in Items /\ reqs[r] \in Request /\ reqs[r] # Idle
      /\ GateFair(reqs[r])
  BY <1>1, GateFacts
<1>3. PICK u \in Users : u = reqs[r].gate[1]
  BY <1>2
<1>4. PICK subscribed \in BOOLEAN :
        subscribed <=> SubscribedTo(u, MentionScope(reqs[r].item)) # {}
  <2>1. CASE SubscribedTo(u, MentionScope(reqs[r].item)) # {}
    BY <2>1
  <2>2. CASE SubscribedTo(u, MentionScope(reqs[r].item)) = {}
    BY <2>2
  <2> QED
    BY <2>1, <2>2
<1>5. Decides(r, SubscribedTo(u, MentionScope(reqs[r].item)) # {})
  BY <1>3 DEF ReadScope
<1>6. Decides(r, subscribed)
  BY <1>4, <1>5 DEF Decides, MentionGateAllows
<1>7. ASSUME <<u, "policy">> \notin reqs[r].touched
      PROVE  Settled(u, reqs[r].item, reqs[r].touched,
                     MentionGateAllows(reqs[r].gate[2], subscribed))
  <2>1. /\ reqs[r].gate[2] = policy[u] /\ policy[u] = "subscribed"
        /\ <<u, "grants">> \notin reqs[r].touched =>
             <<u, AuthorOf[reqs[r].item]>> \notin grants
    BY <1>1, <1>2, <1>3, <1>7 DEF GateFair
  <2>2. Settled(u, reqs[r].item, reqs[r].touched,
                MentionGateAllows(policy[u], subscribed))
    BY <1>2, <1>4, <2>1, GateSettles DEF Inv
  <2> QED
    BY <2>1, <2>2
<1> QED
  BY <1>1, <1>3, <1>6, <1>7, DecidesFairly

LEMMA ReadNotifyOnEndorseIsFair ==
  ASSUME Inv, FairInv, NEW r \in Requests, ReadNotifyOnEndorse(r)
  PROVE  FairInv'
<1>1. /\ reqs[r].at = "settings" /\ reqs[r] # Idle /\ reqs[r] \in Request
      /\ reqs[r].kind = "endorse"
  BY Busy DEF ReadNotifyOnEndorse, Inv, TypeOK, Right
<1> DEFINE req == [reqs[r] EXCEPT
                     !.tell = {AuthorOf[reqs[r].item]} \ optedOut,
                     !.at = "endorsed"]
<1>2. AuthorOf[reqs[r].item] \in Users
  BY <1>1, Fields, NotifyAssumption
<1>3. req \in Request /\ req.kind = "endorse"
  BY <1>1, <1>2 DEF Request, Idle
<1>4. reqs' = [reqs EXCEPT ![r] = req]
  BY DEF ReadNotifyOnEndorse, Inv, TypeOK
<1>5. UNCHANGED <<shown, subs, policy, grants>> /\ inbox' = inbox
  BY DEF ReadNotifyOnEndorse, preferences
<1> HIDE DEF req
<1>6. Fair(req)
  BY <1>3 DEF Fair, Publishes
<1> QED
  BY <1>3, <1>4, <1>5, <1>6, SameInbox, StepIsFair

\* The notices a commit sends.
LEMMA CommitSends ==
  ASSUME Inv, NEW r \in Requests, Commit(r)
  PROVE  /\ reqs[r].at = "policy" /\ reqs[r].todo = {} /\ Ends(r)
         /\ UNCHANGED preferences
         /\ Publishes(reqs[r]) /\ reqs[r].item \in Items
         /\ \A u \in Users, i \in Items :
              /\ inbox'[<<u, "new", i>>] =
                   IF i = reqs[r].item /\ u \in reqs[r].news
                   THEN inbox[<<u, "new", i>>] + 1 ELSE inbox[<<u, "new", i>>]
              /\ inbox'[<<u, "mention", i>>] =
                   IF i = reqs[r].item /\ u \in reqs[r].tell
                   THEN inbox[<<u, "mention", i>>] + 1
                   ELSE inbox[<<u, "mention", i>>]
<1> DEFINE sent == (reqs[r].news \X {"new"} \X {reqs[r].item}) \cup
                   (reqs[r].tell \X {"mention"} \X {reqs[r].item})
<1>1. /\ reqs[r].at = "policy" /\ reqs[r].todo = {} /\ Ends(r)
      /\ UNCHANGED preferences
      /\ inbox' = [n \in Notices |-> IF n \in sent THEN inbox[n] + 1 ELSE inbox[n]]
  BY DEF Commit
<1>2. reqs[r] # Idle /\ reqs[r] \in Request
  BY <1>1, Busy DEF Inv, TypeOK
<1>3. Publishes(reqs[r]) /\ reqs[r].item \in Items
  BY <1>1, <1>2, Fields DEF Inv, Right, Publishes
<1>4. ASSUME NEW u \in Users, NEW i \in Items
      PROVE  /\ <<u, "new", i>> \in sent <=>
                  i = reqs[r].item /\ u \in reqs[r].news
             /\ <<u, "mention", i>> \in sent <=>
                  i = reqs[r].item /\ u \in reqs[r].tell
             /\ <<u, "new", i>> \in Notices /\ <<u, "mention", i>> \in Notices
  BY DEF Notices
<1> HIDE DEF sent
<1> QED
  BY <1>1, <1>3, <1>4

LEMMA CommitIsFair ==
  ASSUME Inv, FairInv, NEW r \in Requests, Commit(r)
  PROVE  FairInv'
<1>1. Remembered
  <2>1. ASSUME NEW u \in Users, NEW i \in Items,
               inbox'[<<u, "mention", i>>] = 0
        PROVE  inbox[<<u, "mention", i>>] = 0
    <3>1. PICK n \in {0, 1} : n = inbox[<<u, "mention", i>>]
      BY DEF Inv, ToldOnce
    <3>2. inbox'[<<u, "mention", i>>] \in {n, n + 1}
      BY <3>1, CommitSends
    <3> QED
      BY <2>1, <3>1, <3>2
  <2> QED
    BY <2>1 DEF Remembered
<1> QED
  BY <1>1, CommitSends, EndsFairly

LEMMA CommitEndorsementIsFair ==
  ASSUME Inv, FairInv, NEW r \in Requests, CommitEndorsement(r)
  PROVE  FairInv'
<1>1. /\ inbox' = [n \in Notices |->
             IF n[1] \in reqs[r].tell /\ n[2] = "endorsed" /\ n[3] = reqs[r].item
             THEN inbox[n] + 1 ELSE inbox[n]]
      /\ Ends(r) /\ UNCHANGED preferences
  BY DEF CommitEndorsement
<1>2. Remembered
  BY <1>1 DEF Remembered, Notices
<1> QED
  BY <1>1, <1>2, EndsFairly

-----------------------------------------------------------------------------
\* What users change is noted down by every request.
LEMMA ChangesAreNoted ==
  ASSUME Inv, FairInv, NEW us \in SUBSET Users, NEW aspect \in Aspects,
         Changes(us, aspect),
         \A u \in Users : u \notin us \/ aspect # "policy" =>
           policy'[u] = policy[u],
         \A u \in Users : u \notin us \/ aspect # "grants" =>
           \A v \in Users : <<u, v>> \in grants' <=> <<u, v>> \in grants,
         \A u \in Users : u \notin us \/ aspect # "subs" =>
           /\ shown' = shown
           /\ \A t \in Targets : subs'[<<u, t>>] = subs[<<u, t>>]
  PROVE  FairInv'
<1>1. SUFFICES ASSUME NEW q \in Requests PROVE Fair(reqs[q])'
  BY DEF FairInv
<1>2. reqs[q] \in Request /\ Fair(reqs[q])
  BY DEF Inv, TypeOK, FairInv
<1>3. reqs'[q] = IF reqs[q] = Idle THEN Idle
                 ELSE [reqs[q] EXCEPT
                         !.touched = reqs[q].touched \cup (us \X {aspect})]
  BY DEF Changes, Touch
<1>4. CASE reqs[q] = Idle
  BY <1>3, <1>4 DEF Fair, Publishes, Idle
<1>5. CASE reqs[q] # Idle
  <2>1. PICK old : old = reqs[q]
    OBVIOUS
  <2>2. PICK new : new = [old EXCEPT !.touched =
                                       old.touched \cup (us \X {aspect})]
    OBVIOUS
  <2>3. us \X {aspect} \subseteq Users \X Aspects
    OBVIOUS
  <2>4. /\ new \in Request /\ new # Idle /\ SameWork(old, new)
        /\ new.touched = old.touched \cup (us \X {aspect})
    BY <1>2, <1>5, <2>1, <2>2, <2>3 DEF Request, Idle, SameWork
  <2>5. ASSUME NEW u \in Users PROVE Noted(u, new.touched)
    <3>1. u \in us => <<u, aspect>> \in new.touched
      BY <2>4
    <3>2. <<u, "policy">> \notin new.touched => policy'[u] = policy[u]
      BY <3>1
    <3>3. <<u, "grants">> \notin new.touched =>
            \A v \in Users : <<u, v>> \in grants' <=> <<u, v>> \in grants
      BY <3>1
    <3>4. <<u, "subs">> \notin new.touched =>
            /\ shown' = shown
            /\ \A t \in Targets : subs'[<<u, t>>] = subs[<<u, t>>]
      BY <3>1
    <3> QED
      BY <3>2, <3>3, <3>4 DEF Noted
  <2>6. Remembered
    BY SameInbox DEF Changes
  <2>7. Fair(new)'
    BY <1>2, <1>5, <2>1, <2>4, <2>5, <2>6, FairStays DEF Inv
  <2> QED
    BY <1>3, <1>5, <2>1, <2>2, <2>7
<1> QED
  BY <1>4, <1>5

LEMMA NextFair == Inv /\ FairInv /\ [Next]_vars => FairInv'
<1> SUFFICES ASSUME Inv, FairInv, [Next]_vars PROVE FairInv'
  OBVIOUS
<1>1. ASSUME NEW r \in Requests,
             \/ Create(r) \/ Edit(r) \/ FanOutContent(r) \/ FindMentioned(r)
             \/ ReadPolicy(r) \/ ReadGrant(r) \/ ReadScope(r) \/ Commit(r)
             \/ Endorse(r) \/ ReadNotifyOnEndorse(r) \/ CommitEndorsement(r)
             \/ Rollback(r)
      PROVE  FairInv'
  <2>1. CASE Rollback(r)
    BY <2>1, SameInbox, EndsFairly DEF Rollback
  <2> QED
    BY <1>1, <2>1, StartsFairly, FanOutIsFair, FindMentionedIsFair,
       ReadPolicyIsFair, ReadGrantIsFair, ReadScopeIsFair, CommitIsFair,
       ReadNotifyOnEndorseIsFair, CommitEndorsementIsFair
<1>2. ASSUME NEW u \in Users, SetSubscription(u) PROVE FairInv'
  <2>1. \E t \in Targets : \E level : subs' = [subs EXCEPT ![<<u, t>>] = level]
    BY <1>2 DEF SetSubscription, Inv, TypeOK, Targets
  <2>2. /\ Changes({u}, "subs") /\ UNCHANGED <<shown, policy, grants, optedOut>>
        /\ {u} \in SUBSET Users /\ "subs" \in Aspects
    BY <1>2 DEF SetSubscription, Aspects
  <2>3. \A v \in Users : v # u =>
          \A s \in Targets : subs'[<<v, s>>] = subs[<<v, s>>]
    BY <2>1 DEF Inv, TypeOK
  <2> QED
    BY <2>2, <2>3, ChangesAreNoted
<1>3. ASSUME NEW u \in Users, SetMentionPolicy(u) PROVE FairInv'
  <2>1. \A v \in Users : v # u => policy'[v] = policy[v]
    BY <1>3 DEF SetMentionPolicy, Inv, TypeOK
  <2>2. /\ Changes({u}, "policy") /\ UNCHANGED <<shown, subs, grants, optedOut>>
        /\ {u} \in SUBSET Users /\ "policy" \in Aspects
    BY <1>3 DEF SetMentionPolicy, Aspects
  <2> QED
    BY <2>1, <2>2, ChangesAreNoted
<1>4. ASSUME NEW u \in Users, SetNotifyOnEndorse(u) PROVE FairInv'
  <2>1. /\ Changes({u}, "optedOut") /\ UNCHANGED <<shown, subs, policy, grants>>
        /\ {u} \in SUBSET Users /\ "optedOut" \in Aspects
    BY <1>4 DEF SetNotifyOnEndorse, Aspects
  <2> QED
    BY <2>1, ChangesAreNoted
<1>5. ASSUME NEW u \in Users, GrantMention(u) \/ RevokeMention(u)
      PROVE  FairInv'
  <2>1. \A v, w \in Users : v # u =>
          (<<v, w>> \in grants' <=> <<v, w>> \in grants)
    <3>1. PICK x \in Users : \/ grants' = grants \cup {<<u, x>>}
                             \/ grants' = grants \ {<<u, x>>}
      BY <1>5 DEF GrantMention, RevokeMention
    <3>2. \A v, w \in Users : v # u => <<v, w>> # <<u, x>>
      OBVIOUS
    <3> QED
      BY <3>1, <3>2
  <2>2. /\ Changes({u}, "grants")
        /\ UNCHANGED <<shown, subs, policy, optedOut>>
        /\ {u} \in SUBSET Users /\ "grants" \in Aspects
    BY <1>5 DEF GrantMention, RevokeMention, Aspects
  <2> QED
    BY <2>1, <2>2, ChangesAreNoted
<1>6. ASSUME NEW p \in Posts, ShowElsewhere(p) PROVE FairInv'
  <2>1. /\ Changes(Users, "subs") /\ UNCHANGED <<subs, policy, grants, optedOut>>
        /\ Users \in SUBSET Users /\ "subs" \in Aspects
    BY <1>6 DEF ShowElsewhere, Aspects
  <2> QED
    BY <2>1, ChangesAreNoted
<1>7. CASE UNCHANGED vars
  <2>1. /\ Remembered /\ \A u \in Users : \A touched : Noted(u, touched)
        /\ reqs' = reqs
    BY <1>7 DEF vars, Remembered, Noted
  <2>2. ASSUME NEW q \in Requests PROVE Fair(reqs[q])'
    <3>1. reqs[q] \in Request /\ Fair(reqs[q])
      BY DEF Inv, TypeOK, FairInv
    <3>2. PICK old : old = reqs[q]
      OBVIOUS
    <3>3. CASE old = Idle
      BY <2>1, <3>2, <3>3 DEF Fair, Publishes, Idle
    <3>4. CASE old # Idle
      <4>1. SameWork(old, old)
        BY DEF SameWork
      <4>2. Fair(old)'
        BY <2>1, <3>1, <3>2, <3>4, <4>1, FairStays DEF Inv
      <4> QED
        BY <2>1, <3>2, <4>2
    <3> QED
      BY <3>3, <3>4
  <2> QED
    BY <2>2 DEF FairInv
<1> QED
  BY <1>1, <1>2, <1>3, <1>4, <1>5, <1>6, <1>7, NotifyAssumption DEF Next

LEMMA InitFair == Init => FairInv
BY DEF Init, FairInv, Fair, Publishes

-----------------------------------------------------------------------------
\* At its commit a request has asked for everybody, so what it noted down is
\* what it sends.
LEMMA CommitGivesTheirDue ==
  ASSUME Inv, FairInv, NEW r \in Requests, Commit(r)
  PROVE  /\ NewsDue(r)
         /\ \A u \in reqs[r].handles \ {AuthorOf[reqs[r].item]} :
              /\ Undisturbed(r, u, {"policy"})
              /\ inbox[<<u, "mention", reqs[r].item>>] = 0
              => MentionDue(r, u, reqs[r].item)
<1>1. PICK i \in Items : i = reqs[r].item
  BY CommitSends
<1>2. /\ reqs[r].at = "policy" /\ reqs[r].todo = {} /\ Publishes(reqs[r])
      /\ UNCHANGED preferences
      /\ \A u \in Users :
           /\ inbox'[<<u, "new", i>>] =
                IF u \in reqs[r].news THEN inbox[<<u, "new", i>>] + 1
                ELSE inbox[<<u, "new", i>>]
           /\ inbox'[<<u, "mention", i>>] =
                IF u \in reqs[r].tell THEN inbox[<<u, "mention", i>>] + 1
                ELSE inbox[<<u, "mention", i>>]
  BY <1>1, CommitSends
<1>3. MentionsFair(reqs[r]) /\ NewsFair(reqs[r])
  BY <1>2 DEF FairInv, Fair
<1>4. reqs[r] # Idle /\ reqs[r] \in Request /\ Right(reqs[r])
  BY <1>2, Busy DEF Inv, TypeOK
<1>5. ASSUME NEW u \in Users \ {AuthorOf[i]}, reqs[r].kind = "create",
             Undisturbed(r, u, {"subs"})
      PROVE  /\ Follows(u, i) => inbox'[<<u, "new", i>>] = 1
             /\ Ignores(u, i) => inbox'[<<u, "new", i>>] = 0
  <2>1. <<u, "subs">> \notin reqs[r].touched
    BY <1>5 DEF Undisturbed
  <2>2. /\ Follows(u, i) => u \in reqs[r].news
        /\ Ignores(u, i) => u \notin reqs[r].news
    BY <1>1, <1>2, <1>3, <1>5, <2>1 DEF NewsFair
  <2>3. i \notin created
    BY <1>1, <1>4, <1>5 DEF Right
  <2>4. inbox[<<u, "new", i>>] = 0
    BY <2>3 DEF Inv, Unheard
  <2>5. inbox'[<<u, "new", i>>] = IF u \in reqs[r].news THEN 0 + 1 ELSE 0
    BY <1>2, <2>4
  <2> QED
    BY <2>2, <2>5
<1>6. ASSUME NEW u \in reqs[r].handles \ {AuthorOf[i]},
             Undisturbed(r, u, {"policy"}), inbox[<<u, "mention", i>>] = 0
      PROVE  MentionDue(r, u, i)
  <2>1. u \in Users
    BY <1>4, Fields
  <2>2. <<u, "policy">> \notin reqs[r].touched /\ ~Asks(reqs[r], u)
    BY <1>2, <1>3, <1>6 DEF Undisturbed, MentionsFair, Asks
  <2>3. Settled(u, i, reqs[r].touched, u \in reqs[r].tell)
    BY <1>1, <1>2, <1>3, <1>6, <2>2 DEF MentionsFair
  <2>4. inbox'[<<u, "mention", i>>] = 1 <=> u \in reqs[r].tell
    <3>1. inbox'[<<u, "mention", i>>] =
            IF u \in reqs[r].tell THEN 0 + 1 ELSE 0
      BY <1>2, <1>6, <2>1
    <3> QED
      BY <3>1
  <2>5. /\ Undisturbed(r, u, {"grants"}) <=> <<u, "grants">> \notin reqs[r].touched
        /\ Undisturbed(r, u, {"grants", "subs"}) <=>
             /\ <<u, "grants">> \notin reqs[r].touched
             /\ <<u, "subs">> \notin reqs[r].touched
    BY DEF Undisturbed
  <2> QED
    BY <2>3, <2>4, <2>5 DEF Settled, MentionDue
<1>7. NewsDue(r)
  BY <1>1, <1>5 DEF NewsDue
<1> QED
  BY <1>1, <1>6, <1>7

\* Every request that commits gives everybody their due: news to whoever
\* follows the content by the nearest subscription, mentions to whoever's
\* policy allows them, unless what the answer rests on was changed while the
\* request ran (fanOutContent, strongestPerUser, mentionAllowed).
THEOREM EverybodyGotTheirDue == Spec => EverybodyGetsTheirDue
<1>1. Inv /\ FairInv /\ [Next]_vars =>
        [\A r \in Requests : Commit(r) =>
           /\ NewsDue(r)
           /\ LET i == reqs[r].item IN
              \A u \in reqs[r].handles \ {AuthorOf[i]} :
                Undisturbed(r, u, {"policy"}) /\ inbox[<<u, "mention", i>>] = 0 =>
                  MentionDue(r, u, i)]_vars
  BY CommitGivesTheirDue
<1> QED
  BY <1>1, InitInv, NextInv, InitFair, NextFair, PTL
     DEF Spec, EverybodyGetsTheirDue
=============================================================================
