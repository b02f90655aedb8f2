----------------------------- MODULE RowProofs ------------------------------
(***************************************************************************)
(* Proofs about the two tables whose rows are inserted under a unique key, *)
(* unless they are there: endorsements (Reputation) and subscriptions      *)
(* (Subscriptions), whose lemmas follow at the end.                        *)
(*                                                                         *)
(* For Reputation, Inv says what the row locks of the database buy: of the *)
(* transactions on one key at most one has changed its row, and what it    *)
(* found there is still so at its commit.                                  *)
(***************************************************************************)
EXTENDS ReputationProps, SubscriptionProps, FiniteSetTheorems, TLAPS

\* The request has inserted a row, or deleted one, and not committed.
Inserted(req) == req.at \in {"endorseTrust", "endorse"}
Removed(req) == req.at \in {"retractTrust", "retract"} /\ req.found
Holds(req) == Inserted(req) \/ Removed(req)

\* What a request found is still so while it holds the row.
Right(req) ==
  /\ req.at = "delete" => req.id # 0
  /\ Inserted(req) => endorsements[req.key] = 0
  /\ Removed(req) => endorsements[req.key] = req.id /\ req.id # 0

Apart(q, r) ==
  Holds(reqs[q]) /\ Holds(reqs[r]) => reqs[q].key # reqs[r].key

Inv ==
  /\ TypeOK
  /\ NoticePerEndorsement
  /\ \A r \in Requests : Right(reqs[r])
  /\ \A q, r \in Requests : q # r => Apart(q, r)

-----------------------------------------------------------------------------
\* What a request carries, by the state it is in.
LEMMA RequestFields ==
  ASSUME NEW req \in Request
  PROVE  /\ req.at # "idle" => req.key \in Keys
         /\ req.at \in {"delete", "retractTrust", "retract"} => req.id \in Nat
         /\ req.at \in {"retractTrust", "retract"} => req.found \in BOOLEAN
         /\ req.at \in {"endorse", "retract"} => req.counts \in BOOLEAN
BY DEF Request, Idle

LEMMA KeyFields ==
  ASSUME NEW k \in Keys
  PROVE  Endorser(k) \in Users /\ Author(k) \in Users
BY ReputationAssumption DEF Keys, Endorser, Author

LEMMA IdleIsHarmless ==
  Idle \in Request /\ ~Holds(Idle) /\ Right(Idle)
BY DEF Idle, Request, Holds, Inserted, Removed, Right

\* A request that goes to a state it may be in, and changes no row, keeps Inv.
LEMMA GoesKeepsInv ==
  ASSUME Inv, NEW r \in Requests, NEW state \in Request,
         Goes(r, state), UNCHANGED rows, Right(state),
         Holds(state) =>
           \A q \in Requests \ {r} :
             Holds(reqs[q]) => reqs[q].key # state.key
  PROVE  Inv'
<1>1. reqs' = [reqs EXCEPT ![r] = state] /\ reqs \in [Requests -> Request]
  BY DEF Goes, Inv, TypeOK
<1>2. reqs'[r] = state /\ \A q \in Requests \ {r} : reqs'[q] = reqs[q]
  BY <1>1
<1>3. TypeOK'
  BY <1>1 DEF Inv, TypeOK, rows
<1>4. NoticePerEndorsement'
  BY DEF Inv, NoticePerEndorsement, Standing, rows
<1>5. ASSUME NEW q \in Requests
      PROVE  Right(reqs[q])'
  <2>1. CASE q = r
    BY <1>2, <2>1 DEF Right, Inserted, Removed, rows
  <2>2. CASE q # r
    BY <1>2, <2>2 DEF Inv, Right, Inserted, Removed, rows
  <2> QED
    BY <2>1, <2>2
<1>6. ASSUME NEW q \in Requests, NEW p \in Requests, q # p
      PROVE  Apart(q, p)'
  <2>1. CASE q = r
    BY <1>2, <1>6, <2>1 DEF Apart, Holds, Inserted, Removed
  <2>2. CASE p = r
    BY <1>2, <1>6, <2>2 DEF Apart, Holds, Inserted, Removed
  <2>3. CASE q # r /\ p # r
    BY <1>2, <1>6, <2>3 DEF Inv, Apart, Holds, Inserted, Removed
  <2> QED
    BY <2>1, <2>2, <2>3
<1> QED
  BY <1>3, <1>4, <1>5, <1>6 DEF Inv

\* A request that commits a change of the row it holds, and of no other, keeps
\* what the others rely on.
LEMMA CommitKeepsOthers ==
  ASSUME Inv, NEW r \in Requests, Ends(r),
         \A k \in Keys : endorsements'[k] # endorsements[k] =>
                           Holds(reqs[r]) /\ k = reqs[r].key
  PROVE  /\ reqs' \in [Requests -> Request]
         /\ \A q \in Requests : Right(reqs[q])'
         /\ \A q, p \in Requests : q # p => Apart(q, p)'
<1>1. reqs' = [reqs EXCEPT ![r] = Idle] /\ reqs \in [Requests -> Request]
  BY DEF Ends, Goes, Inv, TypeOK
<1>2. reqs'[r] = Idle /\ \A q \in Requests \ {r} : reqs'[q] = reqs[q]
  BY <1>1
<1>3. reqs' \in [Requests -> Request]
  BY <1>1, IdleIsHarmless
<1>4. ASSUME NEW q \in Requests
      PROVE  Right(reqs[q])'
  <2>1. CASE q = r
    BY <1>2, <2>1 DEF Right, Inserted, Removed, Idle
  <2>2. CASE q # r
    <3>1. reqs'[q] = reqs[q] /\ Right(reqs[q]) /\ Apart(q, r)
      BY <1>2, <2>2 DEF Inv
    <3>2. Holds(reqs[q]) => reqs[q].key \in Keys
      BY <1>1, RequestFields DEF Holds, Inserted, Removed
    <3>3. Holds(reqs[q]) => endorsements'[reqs[q].key] = endorsements[reqs[q].key]
      BY <3>1, <3>2 DEF Apart
    <3> QED
      BY <3>1, <3>3 DEF Right, Holds, Inserted, Removed
  <2> QED
    BY <2>1, <2>2
<1>5. ASSUME NEW q \in Requests, NEW p \in Requests, q # p
      PROVE  Apart(q, p)'
  BY <1>2, <1>5 DEF Inv, Apart, Holds, Inserted, Removed, Idle
<1> QED
  BY <1>3, <1>4, <1>5

-----------------------------------------------------------------------------
\* One lemma per action.

LEMMA EndorseResolveKeepsInv ==
  ASSUME Inv, NEW r \in Requests, EndorseResolve(r)
  PROVE  Inv'
<1>1. PICK k \in Keys : Goes(r, [at |-> "insert", key |-> k])
  BY DEF EndorseResolve
<1> DEFINE state == [at |-> "insert", key |-> k]
<1>2. state \in Request /\ ~Holds(state) /\ Right(state)
  BY DEF Request, Holds, Inserted, Removed, Right
<1> QED
  BY <1>1, <1>2, GoesKeepsInv DEF EndorseResolve

LEMMA InsertEndorsementKeepsInv ==
  ASSUME Inv, NEW r \in Requests, InsertEndorsement(r)
  PROVE  Inv'
<1> DEFINE state == [at |-> "endorseTrust", key |-> reqs[r].key]
<1>1. reqs[r].key \in Keys
  BY RequestFields DEF Inv, TypeOK, InsertEndorsement
<1>2. CASE reqs[r].key \in Standing
  BY <1>2, IdleIsHarmless, GoesKeepsInv DEF InsertEndorsement, Ends
<1>3. CASE reqs[r].key \notin Standing
  <2>1. state \in Request
    BY <1>1 DEF Request
  <2>2. Right(state)
    BY <1>1, <1>3 DEF Right, Inserted, Removed, Standing
  <2>3. \A q \in Requests \ {r} : Holds(reqs[q]) => reqs[q].key # state.key
    BY DEF InsertEndorsement, Locked, Holds, Inserted, Removed
  <2> QED
    BY <1>3, <2>1, <2>2, <2>3, GoesKeepsInv DEF InsertEndorsement
<1> QED
  BY <1>2, <1>3

LEMMA EndorseTrustKeepsInv ==
  ASSUME Inv, NEW r \in Requests, EndorseTrust(r)
  PROVE  Inv'
<1> DEFINE k == reqs[r].key
           state == [at |-> "endorse", key |-> k,
                     counts |-> IsTrustedDomain(Endorser(k))]
<1>1. k \in Keys
  BY RequestFields DEF Inv, TypeOK, EndorseTrust
<1>2. state \in Request
  BY <1>1 DEF Request, IsTrustedDomain
<1>3. Right(reqs[r]) /\ reqs[r].at = "endorseTrust"
  BY DEF Inv, EndorseTrust
<1>4. Right(state)
  BY <1>3 DEF Right, Inserted, Removed
<1>5. \A q \in Requests \ {r} : Holds(reqs[q]) => reqs[q].key # state.key
  BY <1>3 DEF Inv, Apart, Holds, Inserted
<1> QED
  BY <1>2, <1>4, <1>5, GoesKeepsInv DEF EndorseTrust

LEMMA EndorseKeepsInv ==
  ASSUME Inv, NEW r \in Requests, Endorse(r)
  PROVE  Inv'
<1> DEFINE k == reqs[r].key
<1>1. /\ k \in Keys /\ reqs[r].at = "endorse"
      /\ endorsements[k] = 0 /\ Holds(reqs[r])
  BY RequestFields DEF Inv, TypeOK, Endorse, Right, Holds, Inserted
<1>2. /\ made' = [made EXCEPT ![k] = @ + 1]
      /\ endorsements' = [endorsements EXCEPT ![k] = made[k] + 1]
      /\ notices' = [notices EXCEPT ![k] = @ + 1]
      /\ withdrawn' = withdrawn /\ Ends(r)
  BY DEF Endorse
<1>3. Author(k) \in Users
  BY <1>1, KeyFields
<1>4. reputation' \in [Users -> Nat]
  BY <1>3 DEF Inv, TypeOK, Endorse, BumpReputation
<1>5. /\ reqs' \in [Requests -> Request]
      /\ \A q \in Requests : Right(reqs[q])'
      /\ \A q, p \in Requests : q # p => Apart(q, p)'
  BY <1>1, <1>2, CommitKeepsOthers DEF Inv, TypeOK
<1>6. TypeOK'
  BY <1>1, <1>2, <1>4, <1>5 DEF Inv, TypeOK, Endorse
<1>7. NoticePerEndorsement'
  BY <1>1, <1>2 DEF Inv, TypeOK, NoticePerEndorsement, Standing
<1> QED
  BY <1>5, <1>6, <1>7 DEF Inv

LEMMA RetractFindKeepsInv ==
  ASSUME Inv, NEW r \in Requests, RetractFind(r)
  PROVE  Inv'
<1>1. PICK k \in Standing :
        Goes(r, [at |-> "delete", key |-> k, id |-> endorsements[k]])
  BY DEF RetractFind
<1> DEFINE state == [at |-> "delete", key |-> k, id |-> endorsements[k]]
<1>2. state \in Request /\ ~Holds(state) /\ Right(state)
  BY DEF Request, Holds, Inserted, Removed, Right, Standing, Inv, TypeOK
<1> QED
  BY <1>1, <1>2, GoesKeepsInv DEF RetractFind

LEMMA DeleteEndorsementKeepsInv ==
  ASSUME Inv, NEW r \in Requests, DeleteEndorsement(r)
  PROVE  Inv'
<1> DEFINE k == reqs[r].key
           state == [at |-> "retractTrust", key |-> k, id |-> reqs[r].id,
                     found |-> endorsements[k] = reqs[r].id]
<1>1. k \in Keys /\ reqs[r].id \in Nat /\ reqs[r].id # 0
  BY RequestFields DEF Inv, TypeOK, DeleteEndorsement, Right
<1>2. state \in Request
  BY <1>1 DEF Request
<1>3. Right(state)
  BY <1>1 DEF Right, Inserted, Removed
<1>4. \A q \in Requests \ {r} : Holds(reqs[q]) => reqs[q].key # state.key
  BY DEF DeleteEndorsement, Locked, Holds, Inserted, Removed
<1> QED
  BY <1>2, <1>3, <1>4, GoesKeepsInv DEF DeleteEndorsement

LEMMA RetractTrustKeepsInv ==
  ASSUME Inv, NEW r \in Requests, RetractTrust(r)
  PROVE  Inv'
<1> DEFINE k == reqs[r].key
           state == [at |-> "retract", key |-> k, id |-> reqs[r].id,
                     found |-> reqs[r].found,
                     counts |-> IsTrustedDomain(Endorser(k))]
<1>1. /\ k \in Keys /\ reqs[r].id \in Nat /\ reqs[r].found \in BOOLEAN
      /\ reqs[r].at = "retractTrust" /\ Right(reqs[r])
  BY RequestFields DEF Inv, TypeOK, RetractTrust
<1>2. state \in Request
  BY <1>1 DEF Request, IsTrustedDomain
<1>3. Right(state)
  BY <1>1 DEF Right, Inserted, Removed
<1>4. Holds(state) =>
        \A q \in Requests \ {r} : Holds(reqs[q]) => reqs[q].key # state.key
  BY <1>1 DEF Inv, Apart, Holds, Inserted, Removed
<1> QED
  BY <1>2, <1>3, <1>4, GoesKeepsInv DEF RetractTrust

LEMMA RetractKeepsInv ==
  ASSUME Inv, NEW r \in Requests, Retract(r)
  PROVE  Inv'
<1> DEFINE k == reqs[r].key
<1>1. /\ k \in Keys /\ reqs[r].at = "retract"
      /\ reqs[r].found \in BOOLEAN /\ Right(reqs[r])
  BY RequestFields DEF Inv, TypeOK, Retract
<1>2. reputation' \in [Users -> Nat]
  BY <1>1, KeyFields DEF Inv, TypeOK, Retract, BumpReputation
<1>3. \A j \in Keys : endorsements'[j] # endorsements[j] =>
                        Holds(reqs[r]) /\ j = reqs[r].key
  BY <1>1 DEF Inv, TypeOK, Retract, Holds, Removed
<1>4. /\ reqs' \in [Requests -> Request]
      /\ \A q \in Requests : Right(reqs[q])'
      /\ \A q, p \in Requests : q # p => Apart(q, p)'
  BY <1>3, CommitKeepsOthers DEF Retract
<1>5. TypeOK'
  BY <1>1, <1>2, <1>4 DEF Inv, TypeOK, Retract
<1>6. NoticePerEndorsement'
  <2>1. CASE reqs[r].found
    <3>1. endorsements[k] # 0
      BY <1>1, <2>1 DEF Right, Removed
    <3>2. /\ endorsements' = [endorsements EXCEPT ![k] = 0]
          /\ withdrawn' = [withdrawn EXCEPT ![k] = @ + 1]
          /\ notices' = notices
      BY <2>1 DEF Retract
    <3> QED
      BY <1>1, <3>1, <3>2 DEF Inv, TypeOK, NoticePerEndorsement, Standing
  <2>2. CASE ~reqs[r].found
    BY <2>2 DEF Inv, Retract, NoticePerEndorsement, Standing
  <2> QED
    BY <2>1, <2>2
<1> QED
  BY <1>4, <1>5, <1>6 DEF Inv

\* The others touch neither the endorsements nor the requests.
LEMMA OthersKeepInv ==
  ASSUME Inv, AddTrustedDomain \/ RemoveTrustedDomain \/ SoftDelete
  PROVE  Inv'
<1>1. /\ UNCHANGED <<endorsements, made, reputation, notices, withdrawn, reqs>>
      /\ trusted' \subseteq Domains /\ distrusted' \subseteq Domains
      /\ deleted' \subseteq Targets
  BY DEF Inv, TypeOK, AddTrustedDomain, RemoveTrustedDomain, SoftDelete
<1> QED
  BY <1>1 DEF Inv, TypeOK, NoticePerEndorsement, Standing, Right, Inserted,
              Removed, Apart, Holds

LEMMA InitInv == Init => Inv
BY IdleIsHarmless
   DEF Init, Inv, TypeOK, NoticePerEndorsement, Standing, Apart, Right, Idle,
       Holds, Inserted, Removed, Request

LEMMA NextKeepsInv ==
  ASSUME Inv, [Next]_vars
  PROVE  Inv'
<1>1. CASE UNCHANGED vars
  BY <1>1 DEF vars, Inv, TypeOK, NoticePerEndorsement, Standing, Right,
              Inserted, Removed, Apart, Holds
<1>2. ASSUME NEW r \in Requests, Rollback(r)
      PROVE  Inv'
  BY <1>2, IdleIsHarmless, GoesKeepsInv DEF Rollback, Ends
<1>3. CASE Next
  BY <1>2, <1>3, EndorseResolveKeepsInv, InsertEndorsementKeepsInv,
     EndorseTrustKeepsInv, EndorseKeepsInv, RetractFindKeepsInv,
     DeleteEndorsementKeepsInv, RetractTrustKeepsInv, RetractKeepsInv,
     OthersKeepInv DEF Next
<1> QED
  BY <1>1, <1>3

LEMMA SpecInv == Spec => []Inv
<1>1. Inv /\ [Next]_vars => Inv'
  BY NextKeepsInv
<1> QED
  BY InitInv, <1>1, PTL DEF Spec

\* Two requests of one user on one target never both change its row, so that
\* every endorsement is notified exactly once, for any numbers of users,
\* targets and overlapping requests (InsertEndorsement, DeleteEndorsement).
THEOREM EndorsementNotifiedOnce == Spec => []NoticePerEndorsement
BY SpecInv, PTL DEF Inv

\* An endorsement is never taken away by a retraction of an earlier one of the
\* same user and target (DeleteEndorsement by id).
THEOREM RetractionHitsItsRow == Spec => RetractsWhatItFound
<1> DEFINE Meant ==
      \A k \in Standing : endorsements'[k] # endorsements[k] =>
        \E r \in Requests :
          /\ reqs[r].at = "retract" /\ reqs[r].key = k
          /\ reqs[r].id = endorsements[k] /\ endorsements'[k] = 0
          /\ reqs'[r] = Idle
<1>1. Inv /\ [Next]_vars => Meant
  <2> SUFFICES ASSUME Inv, [Next]_vars, NEW k \in Standing,
                      endorsements'[k] # endorsements[k]
               PROVE  \E r \in Requests :
                        /\ reqs[r].at = "retract" /\ reqs[r].key = k
                        /\ reqs[r].id = endorsements[k]
                        /\ endorsements'[k] = 0 /\ reqs'[r] = Idle
    OBVIOUS
  <2>1. PICK r \in Requests : Endorse(r) \/ Retract(r)
    BY DEF Next, vars, rows, EndorseResolve, InsertEndorsement, EndorseTrust,
           RetractFind, DeleteEndorsement, RetractTrust, Rollback,
           AddTrustedDomain, RemoveTrustedDomain, SoftDelete
  <2>2. reqs[r].at \in {"endorse", "retract"} /\ reqs[r].key \in Keys
        /\ Right(reqs[r]) /\ k \in Keys /\ endorsements[k] # 0
    BY <2>1, RequestFields DEF Inv, TypeOK, Endorse, Retract, Standing
  <2>3. CASE Endorse(r)
    <3>1. endorsements[reqs[r].key] = 0
      BY <2>2, <2>3 DEF Right, Inserted, Endorse
    <3> QED
      BY <2>2, <2>3, <3>1 DEF Endorse, Inv, TypeOK
  <2>4. CASE Retract(r)
    <3>1. reqs[r].found /\ k = reqs[r].key
      BY <2>2, <2>4 DEF Retract, Inv, TypeOK
    <3>2. endorsements[k] = reqs[r].id /\ endorsements'[k] = 0
      BY <2>2, <2>4, <3>1 DEF Retract, Inv, TypeOK, Right, Removed
    <3>3. reqs'[r] = Idle
      BY <2>4 DEF Retract, Ends, Goes, Inv, TypeOK
    <3> QED
      BY <2>4, <3>1, <3>2, <3>3 DEF Retract
  <2> QED
    BY <2>1, <2>3, <2>4
<1> QED
  BY SpecInv, <1>1, PTL DEF Spec, RetractsWhatItFound

-----------------------------------------------------------------------------
\* The reputation is backed, endorsement by endorsement, by the standing ones
\* from trusted domains, less those whose retraction has already decided not
\* to count: its domain was not trusted when it looked.

Waived(req, k) ==
  req.at = "retract" /\ req.key = k /\ req.found /\ ~req.counts

Backing(a) ==
  {k \in TrustedEndorsementsOf(a) : \A r \in Requests : ~Waived(reqs[r], k)}

Promised(req) ==
  req.at = "endorse" /\ req.counts => IsTrustedDomain(Endorser(req.key))

Backed ==
  /\ \A r \in Requests : Promised(reqs[r])
  /\ \A a \in Users : reputation[a] <= Cardinality(Backing(a))

LEMMA BackingFinite ==
  ASSUME NEW a
  PROVE  /\ IsFiniteSet(Backing(a)) /\ Cardinality(Backing(a)) \in Nat
         /\ IsFiniteSet(TrustedEndorsementsOf(a))
         /\ Cardinality(TrustedEndorsementsOf(a)) \in Nat
         /\ Cardinality(Backing(a)) <= Cardinality(TrustedEndorsementsOf(a))
<1>1. IsFiniteSet(Keys)
  BY FS_Product, ReputationAssumption DEF Keys
<1>2. TrustedEndorsementsOf(a) \in SUBSET Keys
  BY DEF TrustedEndorsementsOf, Standing
<1>3. Backing(a) \in SUBSET TrustedEndorsementsOf(a)
  BY DEF Backing
<1>4. IsFiniteSet(TrustedEndorsementsOf(a))
  BY <1>1, <1>2, FS_Subset
<1>5. IsFiniteSet(Backing(a))
      /\ Cardinality(Backing(a)) <= Cardinality(TrustedEndorsementsOf(a))
  BY <1>3, <1>4, FS_Subset
<1> QED
  BY <1>4, <1>5, FS_CardinalityType

LEMMA BackingFiniteNext ==
  ASSUME NEW a
  PROVE  IsFiniteSet(Backing(a)') /\ Cardinality(Backing(a)') \in Nat
<1>1. IsFiniteSet(Keys)
  BY FS_Product, ReputationAssumption DEF Keys
<1>2. Backing(a)' \in SUBSET Keys
  BY DEF Backing, TrustedEndorsementsOf, Standing
<1>3. IsFiniteSet(Backing(a)')
  BY <1>1, <1>2, FS_Subset
<1> QED
  BY <1>3, FS_CardinalityType

\* Where nothing is taken from the backing of a, nor given to a, the bound holds.
LEMMA GrowingBacking ==
  ASSUME Inv, Inv', NEW a \in Users,
         reputation[a] <= Cardinality(Backing(a)),
         reputation'[a] <= reputation[a],
         Backing(a) \subseteq Backing(a)'
  PROVE  reputation'[a] <= Cardinality(Backing(a)')
<1>1. Cardinality(Backing(a)) <= Cardinality(Backing(a)')
  BY BackingFiniteNext, FS_Subset
<1> QED
  BY <1>1, BackingFinite, BackingFiniteNext DEF Inv, TypeOK

LEMMA GoesKeepsBacked ==
  ASSUME Inv, Inv', Backed, NEW r \in Requests, NEW state \in Request,
         Goes(r, state), UNCHANGED rows, Promised(state),
         \A k \in Keys :
           Waived(state, k) => ~IsTrustedDomain(Endorser(k))
  PROVE  Backed'
<1>1. reqs'[r] = state /\ \A q \in Requests \ {r} : reqs'[q] = reqs[q]
  BY DEF Goes, Inv, TypeOK
<1>2. ASSUME NEW q \in Requests
      PROVE  Promised(reqs[q])'
  <2>1. CASE q = r
    BY <1>1, <2>1 DEF Promised, IsTrustedDomain, rows
  <2>2. CASE q # r
    BY <1>1, <2>2 DEF Backed, Promised, IsTrustedDomain, rows
  <2> QED
    BY <2>1, <2>2
<1>3. ASSUME NEW a \in Users
      PROVE  reputation'[a] <= Cardinality(Backing(a)')
  <2>1. ASSUME NEW k \in Backing(a), NEW q \in Requests
        PROVE  ~Waived(reqs'[q], k)
    <3>1. k \in Keys /\ IsTrustedDomain(Endorser(k)) /\ ~Waived(reqs[q], k)
      BY DEF Backing, TrustedEndorsementsOf, Standing
    <3>2. CASE q = r
      BY <1>1, <3>1, <3>2
    <3>3. CASE q # r
      BY <1>1, <3>1, <3>3
    <3> QED
      BY <3>2, <3>3
  <2>2. TrustedEndorsementsOf(a)' = TrustedEndorsementsOf(a)
    BY DEF TrustedEndorsementsOf, Standing, IsTrustedDomain, rows
  <2>3. Backing(a) \subseteq Backing(a)'
    BY <2>1, <2>2 DEF Backing, Waived
  <2> QED
    BY <2>3, GrowingBacking DEF Backed, rows, Inv, TypeOK
<1> QED
  BY <1>2, <1>3 DEF Backed

LEMMA EndorseKeepsBacked ==
  ASSUME Inv, Inv', Backed, NEW r \in Requests, Endorse(r)
  PROVE  Backed'
<1>0. PICK k \in Keys : k = reqs[r].key
  BY RequestFields DEF Inv, TypeOK, Endorse
<1>1. /\ k = reqs[r].key /\ endorsements[k] = 0 /\ Holds(reqs[r])
      /\ Author(k) \in Users /\ Promised(reqs[r]) /\ reqs[r].at = "endorse"
  BY <1>0, RequestFields, KeyFields
     DEF Inv, TypeOK, Endorse, Right, Holds, Inserted, Backed
<1>2. /\ endorsements' = [endorsements EXCEPT ![k] = made[k] + 1]
      /\ made[k] \in Nat /\ trusted' = trusted
      /\ reqs'[r] = Idle /\ \A q \in Requests \ {r} : reqs'[q] = reqs[q]
  BY <1>1 DEF Endorse, Ends, Goes, Inv, TypeOK
<1>3. Standing' = Standing \cup {k}
  BY <1>1, <1>2 DEF Standing, Inv, TypeOK
<1>4. ASSUME NEW q \in Requests
      PROVE  Promised(reqs[q])'
  BY <1>2 DEF Backed, Promised, IsTrustedDomain, Idle
<1>5. ASSUME NEW a
      PROVE  Backing(a) \subseteq Backing(a)'
  BY <1>2, <1>3
     DEF Backing, TrustedEndorsementsOf, IsTrustedDomain, Waived, Idle
<1>6. CASE ~reqs[r].counts
  <2>1. reputation' = reputation
    BY <1>6 DEF Endorse
  <2>2. \A a \in Users : reputation'[a] <= Cardinality(Backing(a)')
    BY <2>1, <1>5, GrowingBacking DEF Backed, Inv, TypeOK
  <2> QED
    BY <1>4, <2>2 DEF Backed
<1>7. CASE reqs[r].counts
  <2>1. reputation' = [reputation EXCEPT ![Author(k)] = @ + 1]
    BY <1>1, <1>7 DEF Endorse, BumpReputation, Inv, TypeOK
  <2>2. ASSUME NEW q \in Requests PROVE ~Waived(reqs'[q], k)
    <3>1. CASE q = r
      BY <1>2, <3>1 DEF Waived, Idle
    <3>2. CASE q # r
      BY <1>1, <1>2, <3>2 DEF Inv, Apart, Waived, Holds, Removed
    <3> QED
      BY <3>1, <3>2
  <2>3. k \in Backing(Author(k))'
    BY <1>1, <1>2, <1>3, <1>7, <2>2
       DEF Backing, TrustedEndorsementsOf, Promised, IsTrustedDomain, Waived
  <2>4. k \notin Backing(Author(k))
    BY <1>1 DEF Backing, TrustedEndorsementsOf, Standing
  <2>5. ASSUME NEW a \in Users
        PROVE  reputation'[a] <= Cardinality(Backing(a)')
    <3>1. CASE a # Author(k)
      <4>1. reputation'[a] = reputation[a]
        BY <2>1, <3>1 DEF Inv, TypeOK
      <4> QED
        BY <4>1, <1>5, GrowingBacking DEF Backed, Inv, TypeOK
    <3>2. CASE a = Author(k)
      <4> DEFINE more == Backing(a) \cup {k}
      <4>1. IsFiniteSet(more) /\ Cardinality(more) = Cardinality(Backing(a)) + 1
        BY <2>4, <3>2, BackingFinite, FS_AddElement
      <4>2. more \subseteq Backing(a)'
        BY <1>5, <2>3, <3>2
      <4>3. Cardinality(more) <= Cardinality(Backing(a)')
        BY <4>2, BackingFiniteNext, FS_Subset
      <4>4. reputation'[a] = reputation[a] + 1
        BY <2>1, <3>2 DEF Inv, TypeOK
      <4>5. reputation[a] \in Nat /\ reputation[a] <= Cardinality(Backing(a))
        BY DEF Inv, TypeOK, Backed
      <4> QED
        BY <4>1, <4>3, <4>4, <4>5, BackingFinite, BackingFiniteNext
    <3> QED
      BY <3>1, <3>2
  <2> QED
    BY <1>4, <2>5 DEF Backed
<1> QED
  BY <1>6, <1>7

LEMMA RetractKeepsBacked ==
  ASSUME Inv, Inv', Backed, NEW r \in Requests, Retract(r)
  PROVE  Backed'
<1> DEFINE k == reqs[r].key
<1>1. /\ k \in Keys /\ Author(k) \in Users /\ reqs[r].at = "retract"
      /\ reqs[r].found \in BOOLEAN /\ reqs[r].counts \in BOOLEAN
  BY RequestFields, KeyFields DEF Inv, TypeOK, Retract
<1>2. /\ trusted' = trusted
      /\ reqs'[r] = Idle /\ \A q \in Requests \ {r} : reqs'[q] = reqs[q]
  BY <1>1 DEF Retract, Ends, Goes, Inv, TypeOK
<1>3. ASSUME NEW q \in Requests
      PROVE  Promised(reqs[q])'
  BY <1>2 DEF Backed, Promised, IsTrustedDomain, Idle
<1>4. /\ reqs[r].found => Standing' = Standing \ {k}
      /\ ~reqs[r].found => Standing' = Standing
  BY <1>1 DEF Retract, Standing, Inv, TypeOK
<1>5. ASSUME NEW a
      PROVE  /\ Backing(a) \ {k} \subseteq Backing(a)'
             /\ ~(reqs[r].found /\ reqs[r].counts) =>
                  Backing(a) \subseteq Backing(a)'
  <2>1. Backing(a) \ {k} \subseteq Backing(a)'
    BY <1>2, <1>4
       DEF Backing, TrustedEndorsementsOf, IsTrustedDomain, Waived, Idle
  <2>2. CASE reqs[r].found /\ ~reqs[r].counts
    BY <1>1, <2>1, <2>2 DEF Backing, Waived
  <2>3. CASE ~reqs[r].found
    BY <1>2, <1>4, <2>3
       DEF Backing, TrustedEndorsementsOf, IsTrustedDomain, Waived, Idle
  <2> QED
    BY <1>1, <2>1, <2>2, <2>3
<1>6. ASSUME NEW a \in Users
      PROVE  reputation'[a] <= reputation[a]
  BY <1>1 DEF Retract, BumpReputation, Inv, TypeOK
<1>7. ASSUME NEW a \in Users
      PROVE  reputation'[a] <= Cardinality(Backing(a)')
  <2>0. reputation[a] \in Nat /\ reputation[a] <= Cardinality(Backing(a))
        /\ reputation'[a] \in Nat
    BY DEF Inv, TypeOK, Backed
  <2>1. CASE ~(reqs[r].found /\ reqs[r].counts)
    BY <1>5, <1>6, <2>0, <2>1, GrowingBacking
  <2>2. CASE reqs[r].found /\ reqs[r].counts /\ a # Author(k)
    <3>1. k \notin Backing(a)
      BY <2>2 DEF Backing, TrustedEndorsementsOf
    <3>2. Backing(a) \subseteq Backing(a)'
      BY <1>5, <3>1
    <3> QED
      BY <1>6, <2>0, <3>2, GrowingBacking
  <2>3. CASE reqs[r].found /\ reqs[r].counts /\ a = Author(k)
    <3> DEFINE less == Backing(a) \ {k}
    <3>0. /\ IsFiniteSet(less)
          /\ Cardinality(less) = IF k \in Backing(a)
                                 THEN Cardinality(Backing(a)) - 1
                                 ELSE Cardinality(Backing(a))
      BY BackingFinite, FS_RemoveElement
    <3>1. /\ Cardinality(less) \in Nat
          /\ Cardinality(less) >= Cardinality(Backing(a)) - 1
      <4>1. Cardinality(less) \in Nat
        BY <3>0, FS_CardinalityType
      <4> HIDE DEF less
      <4> QED
        BY <3>0, <4>1, BackingFinite
    <3>2. Cardinality(less) <= Cardinality(Backing(a)')
      BY <1>5, BackingFiniteNext, FS_Subset
    <3>3. reputation'[a] = IF reputation[a] - 1 < 0 THEN 0
                                                     ELSE reputation[a] - 1
      BY <1>1, <2>3 DEF Retract, BumpReputation, Inv, TypeOK
    <3> QED
      BY <2>0, <3>1, <3>2, <3>3, BackingFinite, BackingFiniteNext
  <2> QED
    BY <1>1, <2>1, <2>2, <2>3
<1> QED
  BY <1>3, <1>7 DEF Backed

LEMMA NextKeepsBacked ==
  ASSUME distrusted' = {}, Inv, Inv', Backed, [Next]_vars
  PROVE  Backed'
<1>1. CASE UNCHANGED vars
  BY <1>1 DEF vars, Backed, Promised, Backing, Waived, TrustedEndorsementsOf,
              Standing, IsTrustedDomain
<1>2. CASE AddTrustedDomain \/ SoftDelete
  <2>1. /\ UNCHANGED <<endorsements, reputation, reqs>>
        /\ trusted \subseteq trusted'
    BY <1>2 DEF AddTrustedDomain, SoftDelete
  <2>2. \A a \in Users : Backing(a) \subseteq Backing(a)'
    BY <2>1 DEF Backing, Waived, TrustedEndorsementsOf, Standing,
                IsTrustedDomain
  <2>3. \A a \in Users : reputation'[a] <= Cardinality(Backing(a)')
    BY <2>1, <2>2, GrowingBacking DEF Backed, Inv, TypeOK
  <2>4. \A r \in Requests : Promised(reqs[r])'
    BY <2>1 DEF Backed, Promised, IsTrustedDomain
  <2> QED
    BY <2>3, <2>4 DEF Backed
<1>3. ASSUME NEW r \in Requests,
             \/ EndorseResolve(r) \/ InsertEndorsement(r) \/ EndorseTrust(r)
             \/ RetractFind(r) \/ DeleteEndorsement(r) \/ RetractTrust(r)
             \/ Rollback(r)
      PROVE  Backed'
  <2>1. PICK state \in Request :
          /\ Goes(r, state) /\ UNCHANGED rows
          /\ Promised(state)
          /\ \A k \in Keys : Waived(state, k) => ~IsTrustedDomain(Endorser(k))
    <3>1. UNCHANGED rows
      BY <1>3 DEF EndorseResolve, InsertEndorsement, EndorseTrust,
                  RetractFind, DeleteEndorsement, RetractTrust, Rollback
    <3>2. reqs'[r] \in Request
      BY DEF Inv, TypeOK
    <3>3. reqs[r] \in Request
      BY DEF Inv, TypeOK
    <3>4. Goes(r, reqs'[r])
      BY <1>3 DEF EndorseResolve, InsertEndorsement, EndorseTrust, RetractFind,
                  DeleteEndorsement, RetractTrust, Rollback, Ends, Goes,
                  Inv, TypeOK
    <3>5. Promised(reqs'[r])
          /\ \A k \in Keys :
               Waived(reqs'[r], k) => ~IsTrustedDomain(Endorser(k))
      BY <1>3 DEF EndorseResolve, InsertEndorsement, EndorseTrust, RetractFind,
                  DeleteEndorsement, RetractTrust, Rollback, Ends, Goes,
                  Inv, TypeOK, Promised, Waived, Idle
    <3> QED
      BY <3>1, <3>2, <3>4, <3>5
  <2> QED
    BY <2>1, GoesKeepsBacked
<1>4. ASSUME RemoveTrustedDomain
      PROVE  FALSE
  BY <1>4 DEF RemoveTrustedDomain
<1> QED
  BY <1>1, <1>2, <1>3, <1>4, EndorseKeepsBacked, RetractKeepsBacked DEF Next

\* No author is ever shown with more reputation than the standing endorsements
\* from trusted domains give him, for any numbers of users, targets, domains
\* and overlapping requests, as long as no domain loses its trust
\* (BumpReputation, EndorsementService).
THEOREM ReputationNeverInflated == Spec => []NeverInflated
<1> DEFINE BackedInv == distrusted = {} => Backed
<1>1. Init => BackedInv
  <2> SUFFICES ASSUME Init
               PROVE  Backed
    OBVIOUS
  <2>1. \A a \in Users : reputation[a] <= Cardinality(Backing(a))
    BY BackingFinite DEF Init
  <2> QED
    BY <2>1 DEF Init, Backed, Promised, Idle
<1>2. Inv /\ Inv' /\ BackedInv /\ [Next]_vars => BackedInv'
  <2> SUFFICES ASSUME Inv, Inv', BackedInv, [Next]_vars, distrusted' = {}
               PROVE  Backed'
    OBVIOUS
  <2>1. distrusted = {}
    BY DEF Next, vars, rows, EndorseResolve, InsertEndorsement, EndorseTrust,
           Endorse, RetractFind, DeleteEndorsement, RetractTrust, Retract,
           Rollback, AddTrustedDomain, RemoveTrustedDomain, SoftDelete
  <2> QED
    BY <2>1, NextKeepsBacked
<1>3. Inv /\ BackedInv => NeverInflated
  <2> SUFFICES ASSUME Inv, Backed, NEW a \in Users
               PROVE  reputation[a] <= Cardinality(TrustedEndorsementsOf(a))
    BY DEF NeverInflated
  <2> QED
    BY BackingFinite DEF Backed, Inv, TypeOK
<1> QED
  BY SpecInv, <1>1, <1>2, <1>3, PTL DEF Spec

\* The variables have their types in every reachable state.
THEOREM TypeCorrect == Spec => []TypeOK
<1>1. Inv => TypeOK
  BY DEF Inv
<1> QED
  BY <1>1, SpecInv, PTL

-----------------------------------------------------------------------------
(***************************************************************************)
(* Subscriptions, for any users, targets and requests.  AskInv: a request  *)
(* that has not answered yet has seen what the row of its key is now.      *)
(***************************************************************************)
\* A request that has not answered has seen what the row of its key is now.
UpToDate(req) ==
  /\ req # Idle => row[req.key] \in req.seen \/ req.at = "answered"
  /\ req.at = "answered" /\ req.wish = "any" => req.answer \in req.seen

AskInv ==
  /\ SubTypeOK
  /\ \A r \in Requests : UpToDate(asks[r])

\* What a request carries.
LEMMA AskFields ==
  ASSUME NEW req \in Ask, req # Idle
  PROVE  /\ req.key \in Keys /\ req.wish \in Wishes
         /\ req.seen \subseteq Rows
         /\ req.at \in {"find", "insert", "refind", "update", "answered"}
         /\ req.at = "update" => req.wish \in Levels
BY DEF Ask, Idle, Wishes

\* A request that stays where it is may have seen more.
LEMMA SeesMore ==
  ASSUME NEW req \in Ask, req # Idle, NEW level \in Rows
  PROVE  /\ [req EXCEPT !.seen = @ \cup {level}] \in Ask
         /\ [req EXCEPT !.seen = @ \cup {level}] # Idle
         /\ [req EXCEPT !.seen = @ \cup {level}].seen = req.seen \cup {level}
         /\ [req EXCEPT !.seen = @ \cup {level}].key = req.key
         /\ [req EXCEPT !.seen = @ \cup {level}].at = req.at
         /\ [req EXCEPT !.seen = @ \cup {level}].wish = req.wish
         /\ req.at = "answered" =>
              [req EXCEPT !.seen = @ \cup {level}].answer = req.answer
BY DEF Ask, Idle, Wishes

\* An answer is a request that may be answered.
LEMMA AnswerTyped ==
  ASSUME NEW req \in Ask, req # Idle, NEW level \in Levels
  PROVE  /\ Answer(req, level) \in Ask
         /\ Answer(req, level) # Idle
         /\ Answer(req, level).at = "answered"
         /\ Answer(req, level).key = req.key
         /\ Answer(req, level).wish = req.wish
         /\ Answer(req, level).seen = req.seen
         /\ Answer(req, level).answer = level
BY AskFields DEF Answer, Ask, Idle

\* A step that leaves the rows alone and moves one request to a state that is
\* up to date keeps the invariant.
LEMMA MoveKeepsInv ==
  ASSUME AskInv, NEW r \in Requests, NEW req \in Ask,
         asks' = [asks EXCEPT ![r] = req], UpToDate(req),
         UNCHANGED row, alive' \subseteq Targets
  PROVE  AskInv'
<1>1. \A q \in Requests : asks'[q] = IF q = r THEN req ELSE asks[q]
  BY DEF AskInv, SubTypeOK
<1>2. SubTypeOK'
  BY DEF AskInv, SubTypeOK
<1> QED
  BY <1>1, <1>2 DEF AskInv, UpToDate

\* A step that gives the row of a key a new level, shown to every request on
\* that key, keeps the invariant.
LEMMA WriteKeepsInv ==
  ASSUME AskInv, NEW k \in Keys, NEW level \in Rows,
         NEW current \in [Requests -> Ask],
         row' = [row EXCEPT ![k] = level],
         asks' = Witness(k, level, current),
         \A r \in Requests :
           current[r] = asks[r] \/ (/\ current[r] # Idle
                                    /\ current[r].at = "answered"
                                    /\ current[r].key = k
                                    /\ current[r].wish = "any" =>
                                         current[r].answer = level),
         UNCHANGED alive
  PROVE  AskInv'
<1>1. ASSUME NEW r \in Requests
      PROVE  asks'[r] \in Ask /\ UpToDate(asks[r])'
  <2>1. CASE current[r] # Idle /\ current[r].key = k
    <3> DEFINE req == [current[r] EXCEPT !.seen = @ \cup {level}]
    <3>1. asks'[r] = req
      BY <2>1 DEF Witness
    <3>2. /\ req \in Ask /\ req # Idle /\ req.key = k
          /\ req.seen = current[r].seen \cup {level}
          /\ req.at = current[r].at /\ req.wish = current[r].wish
          /\ req.at = "answered" => req.answer = current[r].answer
      BY <2>1, SeesMore
    <3> HIDE DEF req
    <3>3. row'[k] = level
      BY DEF AskInv, SubTypeOK
    <3>4. req.at = "answered" /\ req.wish = "any" => req.answer \in req.seen
      BY <3>2 DEF AskInv, UpToDate
    <3> QED
      BY <3>1, <3>2, <3>3, <3>4 DEF UpToDate
  <2>2. CASE current[r] = Idle
    BY <2>2 DEF Witness, UpToDate, Idle, Ask
  <2>3. CASE current[r] # Idle /\ current[r].key # k
    <3>1. asks'[r] = current[r] /\ current[r] = asks[r]
      BY <2>3 DEF Witness
    <3>2. row'[asks[r].key] = row[asks[r].key]
      BY <2>3, <3>1, AskFields DEF AskInv, SubTypeOK
    <3> QED
      BY <3>1, <3>2 DEF AskInv, UpToDate
  <2> QED BY <2>1, <2>2, <2>3
<1>2. asks' \in [Requests -> Ask]
  BY <1>1 DEF Witness
<1>3. row' \in [Keys -> Rows] /\ alive' \subseteq Targets
  BY DEF AskInv, SubTypeOK
<1> QED
  BY <1>1, <1>2, <1>3 DEF AskInv, SubTypeOK

\* So does a request that answers with a level, if what it subscribed to was
\* seen at that level.
LEMMA AnswerKeepsInv ==
  ASSUME AskInv, NEW r \in Requests, asks[r] # Idle,
         NEW level \in Levels,
         Answers(r, level), UNCHANGED <<row, alive>>,
         asks[r].wish = "any" => level \in asks[r].seen
  PROVE  AskInv'
<1> DEFINE req == Answer(asks[r], level)
<1>1. /\ req \in Ask /\ req # Idle /\ req.at = "answered"
      /\ req.wish = asks[r].wish /\ req.seen = asks[r].seen
      /\ req.answer = level
  BY AnswerTyped DEF AskInv, SubTypeOK
<1>2. asks' = [asks EXCEPT ![r] = req]
  BY DEF Answers
<1> HIDE DEF req
<1>3. UpToDate(req)
  BY <1>1 DEF UpToDate
<1> QED
  BY <1>1, <1>2, <1>3, MoveKeepsInv DEF AskInv, SubTypeOK

\* And a request that writes its row and answers with it.
LEMMA WritesKeepsInv ==
  ASSUME AskInv, NEW r \in Requests, asks[r] # Idle,
         NEW level \in Levels,
         Writes(r, level), UNCHANGED alive
  PROVE  AskInv'
<1> DEFINE current == [asks EXCEPT ![r] = Answer(asks[r], level)]
<1>1. PICK k \in Keys : k = asks[r].key
  BY AskFields DEF AskInv, SubTypeOK
<1>2. row' = [row EXCEPT ![k] = level] /\ asks' = Witness(k, level, current)
  BY <1>1 DEF Writes
<1>3. current \in [Requests -> Ask]
  BY AnswerTyped DEF AskInv, SubTypeOK
<1>4. \A q \in Requests :
        current[q] = asks[q] \/ (/\ current[q] # Idle
                                 /\ current[q].at = "answered"
                                 /\ current[q].key = k
                                 /\ current[q].wish = "any" =>
                                      current[q].answer = level)
  BY <1>1, AnswerTyped DEF AskInv, SubTypeOK
<1> HIDE DEF current
<1> QED
  BY <1>2, <1>3, <1>4, WriteKeepsInv DEF Levels, Rows

\* And one that goes to its next statement.
LEMMA NextStatementKeepsInv ==
  ASSUME AskInv, NEW r \in Requests, NEW at \in {"insert", "refind", "update"},
         asks[r].at \in {"find", "insert"},
         at = "update" => asks[r].wish \in Levels,
         MovesOn(r, at), UNCHANGED <<row, alive>>
  PROVE  AskInv'
<1> DEFINE req == [asks[r] EXCEPT !.at = at]
<1>1. asks[r] \in Ask /\ asks[r] # Idle
  BY DEF AskInv, SubTypeOK, Idle
<1>2. /\ req \in Ask /\ req # Idle /\ req.at = at
      /\ req.key = asks[r].key /\ req.seen = asks[r].seen
  BY <1>1 DEF Ask, Idle
<1>3. asks' = [asks EXCEPT ![r] = req]
  BY DEF MovesOn
<1>4. row[asks[r].key] \in asks[r].seen
  BY <1>1 DEF AskInv, UpToDate
<1> HIDE DEF req
<1>5. UpToDate(req)
  BY <1>2, <1>4 DEF UpToDate
<1> QED
  BY <1>2, <1>3, <1>5, MoveKeepsInv DEF AskInv, SubTypeOK

-----------------------------------------------------------------------------
\* Every request has seen the current row, or found one that is a level.
LEMMA RowSeen ==
  ASSUME AskInv, NEW r \in Requests,
         asks[r].at \in {"find", "insert", "refind", "update"}
  PROVE  /\ asks[r] # Idle /\ asks[r] \in Ask
         /\ asks[r].key \in Keys
         /\ row[asks[r].key] \in asks[r].seen
         /\ row[asks[r].key] \in Rows
         /\ asks[r].wish \in Wishes
<1>1. asks[r] # Idle /\ asks[r] \in Ask
  BY DEF AskInv, SubTypeOK, Idle
<1> QED
  BY <1>1, AskFields DEF AskInv, SubTypeOK, UpToDate

\* The rows and requests of a fresh instance.
LEMMA AskInitInv == SubInit => AskInv
BY DEF SubInit, AskInv, SubTypeOK, UpToDate, Idle, Ask, Rows

\* Every operation of the service, unsubscribe and deletions keep Inv.
LEMMA AskNextKeepsInv ==
  ASSUME AskInv, [SubNext]_subVars
  PROVE  AskInv'
<1>1. ASSUME NEW r \in Requests, NEW k \in Keys, NEW wish \in Wishes,
             CheckTarget(r, k, wish)
      PROVE  AskInv'
  <2> DEFINE req == [at |-> "find", key |-> k, wish |-> wish,
                     seen |-> {row[k]}]
  <2>1. row[k] \in Rows
    BY DEF AskInv, SubTypeOK
  <2>2. req \in Ask /\ UpToDate(req)
    BY <2>1 DEF Ask, UpToDate
  <2>3. /\ asks' = [asks EXCEPT ![r] = req]
        /\ UNCHANGED row /\ alive' \subseteq Targets
    BY <1>1 DEF CheckTarget, AskInv, SubTypeOK
  <2> HIDE DEF req
  <2> QED BY <2>2, <2>3, MoveKeepsInv
<1>2. ASSUME NEW r \in Requests, FindExisting(r) PROVE AskInv'
  <2>1. PICK found \in Rows :
          found = row[asks[r].key] /\ found \in asks[r].seen
    BY <1>2, RowSeen DEF FindExisting
  <2>2. CASE found = "none"
    BY <1>2, <2>1, <2>2, NextStatementKeepsInv DEF FindExisting
  <2>3. CASE found # "none" /\ asks[r].wish \in {"any", found}
    <3>1. found \in Levels
      BY <2>3 DEF Rows
    <3> QED
      BY <1>2, <2>1, <2>3, <3>1, RowSeen, AnswerKeepsInv DEF FindExisting
  <2>4. CASE found # "none" /\ asks[r].wish \notin {"any", found}
    <3>1. asks[r].wish \in Levels
      BY <1>2, <2>4, RowSeen DEF FindExisting, Wishes
    <3> QED
      BY <1>2, <2>1, <2>4, <3>1, NextStatementKeepsInv DEF FindExisting
  <2> QED BY <2>2, <2>3, <2>4
<1>3. ASSUME NEW r \in Requests, Update(r) PROVE AskInv'
  <2>1. /\ asks[r] # Idle
        /\ asks[r].wish \in Levels /\ asks[r].wish # "any"
    BY <1>3, RowSeen, AskFields DEF Update, Levels
  <2>2. CASE row[asks[r].key] = "none"
    BY <1>3, <2>1, <2>2, AnswerKeepsInv DEF Update
  <2>3. CASE row[asks[r].key] # "none"
    BY <1>3, <2>1, <2>3, WritesKeepsInv DEF Update
  <2> QED BY <2>2, <2>3
<1>4. ASSUME NEW r \in Requests, Insert(r) PROVE AskInv'
  <2>1. asks[r] # Idle /\ Default(asks[r].wish) \in Levels
    BY <1>4, RowSeen DEF Insert, Default, Wishes, Levels
  <2>2. CASE row[asks[r].key] = "none"
    BY <1>4, <2>1, <2>2, WritesKeepsInv DEF Insert
  <2>3. CASE row[asks[r].key] # "none"
    BY <1>4, <2>3, NextStatementKeepsInv DEF Insert
  <2> QED BY <2>2, <2>3
<1>5. ASSUME NEW r \in Requests, Refind(r) PROVE AskInv'
  <2>1. CASE row[asks[r].key] = "none"
    <3>1. Idle \in Ask /\ UpToDate(Idle)
      BY DEF Ask, UpToDate, Idle
    <3> QED
      BY <1>5, <2>1, <3>1, MoveKeepsInv DEF Refind, AskInv, SubTypeOK
  <2>2. CASE row[asks[r].key] # "none"
    <3>1. PICK level \in Levels :
            level = row[asks[r].key] /\ level \in asks[r].seen
      BY <1>5, <2>2, RowSeen DEF Refind, Rows
    <3> QED
      BY <1>5, <2>2, <3>1, RowSeen, AnswerKeepsInv DEF Refind
  <2> QED BY <2>1, <2>2
<1>6. ASSUME NEW r \in Requests, Finish(r) PROVE AskInv'
  <2>1. Idle \in Ask /\ UpToDate(Idle)
    BY DEF Ask, UpToDate, Idle
  <2> QED
    BY <1>6, <2>1, MoveKeepsInv DEF Finish, AskInv, SubTypeOK
<1>7. ASSUME NEW k \in Keys, Unsubscribe(k) PROVE AskInv'
  <2>1. asks \in [Requests -> Ask] /\ "none" \in Rows
    BY DEF AskInv, SubTypeOK, Rows
  <2> QED
    BY <1>7, <2>1, WriteKeepsInv DEF Unsubscribe
<1>8. ASSUME NEW t \in Targets, TargetDeleted(t) PROVE AskInv'
  BY <1>8 DEF TargetDeleted, AskInv, SubTypeOK, UpToDate
<1>9. CASE UNCHANGED subVars
  BY <1>9 DEF subVars, AskInv, SubTypeOK, UpToDate
<1> QED
  BY <1>1, <1>2, <1>3, <1>4, <1>5, <1>6, <1>7, <1>8, <1>9 DEF SubNext

\* The invariant holds in every reachable state.
LEMMA AskSpecInv == SubSpec => []AskInv
BY AskInitInv, AskNextKeepsInv, PTL DEF SubSpec

\* Subscribing is answered truthfully, however many requests race for the row
\* (upsertSubscription).
THEOREM SubscribeAnswersTruly == SubSpec => []AnswersWereTrue
<1>1. AskInv => AnswersWereTrue
  <2> SUFFICES ASSUME AskInv, NEW r \in Requests,
                      asks[r].at = "answered" /\ asks[r].wish = "any"
               PROVE  asks[r].answer \in asks[r].seen
    BY DEF AnswersWereTrue
  <2> QED BY DEF AskInv, UpToDate
<1> QED
  BY <1>1, AskSpecInv, PTL

\* A step that writes the row of a key: only an update that asks for it makes a
\* muted row unmuted.
LEMMA OnlyUpdateLifts ==
  ASSUME AskInv, [SubNext]_subVars,
         NEW k \in Keys, row[k] = "muted", row'[k] = "on"
  PROVE  \E r \in Requests :
           /\ asks[r] # Idle /\ asks[r].key = k
           /\ asks[r].wish = "on" /\ asks[r].at = "update"
<1>0. row \in [Keys -> Rows] /\ row' # row
  BY DEF AskInv, SubTypeOK
<1>1. ASSUME NEW r \in Requests, Update(r)
      PROVE  /\ asks[r] # Idle /\ asks[r].key = k
             /\ asks[r].wish = "on" /\ asks[r].at = "update"
  <2>1. asks[r] # Idle
    BY <1>1, RowSeen DEF Update
  <2>2. row' = [row EXCEPT ![asks[r].key] = asks[r].wish]
    BY <1>0, <1>1 DEF Update, Writes
  <2> QED
    BY <1>0, <1>1, <2>1, <2>2 DEF Update
<1>2. ASSUME NEW r \in Requests, Insert(r) PROVE FALSE
  <2>1. /\ row[asks[r].key] = "none"
        /\ row' = [row EXCEPT ![asks[r].key] = Default(asks[r].wish)]
    BY <1>0, <1>2 DEF Insert, Writes
  <2> QED BY <1>0, <2>1
<1>3. ASSUME NEW l \in Keys, Unsubscribe(l) PROVE FALSE
  BY <1>0, <1>3 DEF Unsubscribe
<1> QED
  BY <1>0, <1>1, <1>2, <1>3
  DEF SubNext, subVars, CheckTarget, FindExisting, Refind,
      Finish, TargetDeleted

\* A mute is never lifted by a subscribe, whatever overlaps
\* (Store.Subscribe).
THEOREM SubscribeKeepsMutes == SubSpec => MutesStick
<1>1. AskInv /\ [SubNext]_subVars =>
        [\A k \in Keys :
           row[k] = "muted" /\ row'[k] = "on" =>
             \E r \in Requests :
               /\ asks[r] # Idle /\ asks[r].key = k
               /\ asks[r].wish = "on" /\ asks[r].at = "update"]_row
  BY OnlyUpdateLifts
<1> QED
  BY <1>1, AskSpecInv, PTL DEF SubSpec, MutesStick

\* The variables have their types in every reachable state.
THEOREM SubscriptionsTypeCorrect == SubSpec => []SubTypeOK
<1>1. AskInv => SubTypeOK
  BY DEF AskInv
<1> QED
  BY <1>1, AskSpecInv, PTL
=============================================================================
