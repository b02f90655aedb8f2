--------------------------- MODULE ReputationProps ---------------------------
(***************************************************************************)
(* What the reputation cache is good for, over Reputation.                 *)
(***************************************************************************)
EXTENDS Reputation

TrustedEndorsementsOf(a) ==
  {k \in Standing : Author(k) = a /\ IsTrustedDomain(Endorser(k))}

\* As long as no domain has lost its trust, no interleaving of endorsements and
\* retractions shows an author with more reputation than the standing
\* endorsements from trusted domains give him (BumpReputation, at the trust
\* each transaction read before its commit).
NeverInflated ==
  distrusted = {} =>
    \A a \in Users :
      reputation[a] <= Cardinality(TrustedEndorsementsOf(a))

\* Between two `endorsed` events of one user about one target there is a
\* retraction: overlapping endorsements notify once, and one is never undone
\* twice (InsertEndorsement's `created`).
NoticePerEndorsement ==
  \A k \in Keys :
    notices[k] = withdrawn[k] + (IF k \in Standing THEN 1 ELSE 0)

\* An endorsement leaves only by a retraction that found that very row: a
\* retraction that waited while its user retracted and endorsed again does not
\* take the new endorsement away (DeleteEndorsement by id).
RetractsWhatItFound ==
  [][\A k \in Standing : endorsements'[k] # endorsements[k] =>
       \E r \in Requests :
         /\ reqs[r].at = "retract" /\ reqs[r].key = k
         /\ reqs[r].id = endorsements[k] /\ endorsements'[k] = 0
         /\ reqs'[r] = Idle]_vars

-----------------------------------------------------------------------------
\* store/reputation.go:10 says the row is a "count of trusted-domain
\* endorsements a user's content has received".
ReputationCounts ==
  \A a \in Users : reputation[a] = Cardinality(TrustedEndorsementsOf(a))
==============================================================================
