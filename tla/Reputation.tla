----------------------------- MODULE Reputation -----------------------------
(***************************************************************************)
(* Endorsements and the reputation cached from them: EndorsementService    *)
(* (api/internal/csilservices/endorsement.go) over the endorsements,       *)
(* trusted_domains and user_reputation tables.                             *)
(*                                                                         *)
(* A request is one action per statement of its READ COMMITTED             *)
(* transaction.  An endorsement it inserted or deleted is locked until its *)
(* commit, and only then do others see the change.  The answers of         *)
(* requests that change nothing are not modelled.                          *)
(***************************************************************************)
EXTENDS Integers, FiniteSets, Keyed

CONSTANTS Domains,   \* linkkeys domains
          DomainOf,  \* the domain each user logged in from
          AuthorOf,  \* who wrote each target
          MaxRows,   \* bound on the endorsements one user makes of one target
          Ops        \* the operations used in this behavior

ASSUME ReputationAssumption ==
  /\ DomainOf \in [Users -> Domains]
  /\ AuthorOf \in [Targets -> Users]
  /\ IsFiniteSet(Users) /\ IsFiniteSet(Targets)

VARIABLES endorsements, \* id of the standing row of each key, 0 for none
          made,         \* history variable: rows ever inserted for each key
          trusted,      \* trusted_domains
          distrusted,   \* history variable: domains that lost their trust
          reputation,   \* trusted_endorsement_count, 0 where there is no row
          deleted,      \* the tombstones
          notices,      \* `endorsed` events published for each key
          withdrawn,    \* history variable: rows retracted for each key
          reqs

vars == <<endorsements, made, trusted, distrusted, reputation, deleted, notices,
          withdrawn, reqs>>
rows == <<endorsements, made, trusted, distrusted, reputation, deleted, notices,
          withdrawn>>

Endorser(k) == k[1]
Author(k) == AuthorOf[k[2]]

Request ==
  {Idle}
  \cup [at : {"insert", "endorseTrust"}, key : Keys]
  \cup [at : {"endorse"}, key : Keys, counts : BOOLEAN]
  \cup [at : {"delete"}, key : Keys, id : Nat]
  \cup [at : {"retractTrust"}, key : Keys, id : Nat, found : BOOLEAN]
  \cup [at : {"retract"}, key : Keys, id : Nat, found : BOOLEAN,
        counts : BOOLEAN]

TypeOK ==
  /\ endorsements \in [Keys -> Nat]
  /\ made \in [Keys -> Nat]
  /\ trusted \subseteq Domains
  /\ distrusted \subseteq Domains
  /\ reputation \in [Users -> Nat]
  /\ deleted \subseteq Targets
  /\ notices \in [Keys -> Nat]
  /\ withdrawn \in [Keys -> Nat]
  /\ reqs \in [Requests -> Request]

Standing == {k \in Keys : endorsements[k] # 0}

Init ==
  /\ endorsements = [k \in Keys |-> 0]
  /\ made = [k \in Keys |-> 0]
  /\ trusted \in SUBSET Domains
  /\ distrusted = {}
  /\ reputation = [u \in Users |-> 0]
  /\ deleted = {}
  /\ notices = [k \in Keys |-> 0]
  /\ withdrawn = [k \in Keys |-> 0]
  /\ reqs = [r \in Requests |-> Idle]

Starts(r, op) == reqs[r] = Idle /\ op \in Ops
Goes(r, state) == reqs' = [reqs EXCEPT ![r] = state]
Ends(r) == Goes(r, Idle)

\* Another transaction has inserted or deleted the row of k and not committed.
Locked(k, r) ==
  \E q \in Requests \ {r} :
    \/ reqs[q].at \in {"endorseTrust", "endorse"} /\ reqs[q].key = k
    \/ /\ reqs[q].at \in {"retractTrust", "retract"} /\ reqs[q].key = k
       /\ reqs[q].found

IsTrustedDomain(u) == DomainOf[u] \in trusted

\* Mutant: the cache is not clamped.
BumpUnclamped(author, delta) ==
  reputation' = [reputation EXCEPT ![author] = @ + delta]

\* BumpReputation: one upsert, GREATEST(count + delta, 0).
BumpReputation(author, delta) ==
  reputation' = [reputation EXCEPT ![author] =
                   IF @ + delta < 0 THEN 0 ELSE @ + delta]

-----------------------------------------------------------------------------
\* Endorse resolves the target: not deleted, not one's own ...
EndorseResolve(r) ==
  /\ Starts(r, "Endorse")
  /\ \E k \in Keys :
       /\ k[2] \notin deleted
       /\ Author(k) # Endorser(k)
       /\ Goes(r, [at |-> "insert", key |-> k])
  /\ UNCHANGED rows

\* Mutant: the INSERT has no unique key to conflict with.
InsertAnyway(r) ==
  /\ reqs[r].at = "insert"
  /\ Goes(r, [at |-> "endorseTrust", key |-> reqs[r].key])
  /\ UNCHANGED rows

\* ... inserts on conflict do nothing, which waits for whoever holds the key;
\* if a row stands there is nothing left to do ...
InsertEndorsement(r) ==
  /\ reqs[r].at = "insert"
  /\ ~Locked(reqs[r].key, r)
  /\ IF reqs[r].key \in Standing
     THEN Ends(r)
     ELSE Goes(r, [at |-> "endorseTrust", key |-> reqs[r].key])
  /\ UNCHANGED rows

\* ... reads whether the endorser's domain is trusted ...
EndorseTrust(r) ==
  /\ reqs[r].at = "endorseTrust"
  /\ Goes(r, [at |-> "endorse", key |-> reqs[r].key,
              counts |-> IsTrustedDomain(Endorser(reqs[r].key))])
  /\ UNCHANGED rows

\* ... and commits the row, the reputation if it counts, and the event.
Endorse(r) ==
  /\ reqs[r].at = "endorse"
  /\ LET k == reqs[r].key IN
     /\ made[k] < MaxRows
     /\ made' = [made EXCEPT ![k] = @ + 1]
     /\ endorsements' = [endorsements EXCEPT ![k] = made[k] + 1]
     /\ IF reqs[r].counts THEN BumpReputation(Author(k), 1)
                          ELSE UNCHANGED reputation
     /\ notices' = [notices EXCEPT ![k] = @ + 1]
  /\ Ends(r)
  /\ UNCHANGED <<trusted, distrusted, deleted, withdrawn>>

-----------------------------------------------------------------------------
\* Retract finds the caller's endorsement; without one it is done ...
RetractFind(r) ==
  /\ Starts(r, "Retract")
  /\ \E k \in Standing :
       Goes(r, [at |-> "delete", key |-> k, id |-> endorsements[k]])
  /\ UNCHANGED rows

\* Mutant: the DELETE names the user and the target instead of the row's id.
DeleteByKey(r) ==
  /\ reqs[r].at = "delete"
  /\ ~Locked(reqs[r].key, r)
  /\ Goes(r, [at |-> "retractTrust", key |-> reqs[r].key, id |-> reqs[r].id,
              found |-> reqs[r].key \in Standing])
  /\ UNCHANGED rows

\* ... deletes that row by its id, after whoever holds it; that another retract
\* deleted it meanwhile goes unnoticed ...
DeleteEndorsement(r) ==
  /\ reqs[r].at = "delete"
  /\ ~Locked(reqs[r].key, r)
  /\ Goes(r, [at |-> "retractTrust", key |-> reqs[r].key, id |-> reqs[r].id,
              found |-> endorsements[reqs[r].key] = reqs[r].id])
  /\ UNCHANGED rows

\* ... reads whether the endorser's domain is trusted now ...
RetractTrust(r) ==
  /\ reqs[r].at = "retractTrust"
  /\ Goes(r, [at |-> "retract", key |-> reqs[r].key, id |-> reqs[r].id,
              found |-> reqs[r].found,
              counts |-> IsTrustedDomain(Endorser(reqs[r].key))])
  /\ UNCHANGED rows

\* Mutant: the test of trust is inverted.
RetractUntrusted(r) ==
  /\ reqs[r].at = "retract"
  /\ LET k == reqs[r].key IN
     /\ endorsements' = IF reqs[r].found THEN [endorsements EXCEPT ![k] = 0]
                                         ELSE endorsements
     /\ withdrawn' = IF reqs[r].found THEN [withdrawn EXCEPT ![k] = @ + 1]
                                      ELSE withdrawn
     /\ IF reqs[r].counts THEN UNCHANGED reputation
                          ELSE BumpReputation(Author(k), -1)
  /\ Ends(r)
  /\ UNCHANGED <<made, trusted, distrusted, deleted, notices>>

\* ... and commits.
Retract(r) ==
  /\ reqs[r].at = "retract"
  /\ LET k == reqs[r].key IN
     /\ endorsements' = IF reqs[r].found THEN [endorsements EXCEPT ![k] = 0]
                                         ELSE endorsements
     /\ withdrawn' = IF reqs[r].found THEN [withdrawn EXCEPT ![k] = @ + 1]
                                      ELSE withdrawn
     /\ IF reqs[r].counts THEN BumpReputation(Author(k), -1)
                          ELSE UNCHANGED reputation
  /\ Ends(r)
  /\ UNCHANGED <<made, trusted, distrusted, deleted, notices>>

-----------------------------------------------------------------------------
AddTrustedDomain ==
  /\ "AddTrustedDomain" \in Ops
  /\ \E d \in Domains \ trusted : trusted' = trusted \cup {d}
  /\ UNCHANGED <<endorsements, made, distrusted, reputation, deleted, notices,
                 withdrawn, reqs>>

RemoveTrustedDomain ==
  /\ "RemoveTrustedDomain" \in Ops
  /\ \E d \in trusted :
       /\ trusted' = trusted \ {d}
       /\ distrusted' = distrusted \cup {d}
  /\ UNCHANGED <<endorsements, made, reputation, deleted, notices, withdrawn,
                 reqs>>

\* delete-post and delete-comment, as ThreadService commits them.
SoftDelete ==
  /\ "SoftDelete" \in Ops
  /\ \E t \in Targets \ deleted : deleted' = deleted \cup {t}
  /\ UNCHANGED <<endorsements, made, trusted, distrusted, reputation, notices,
                 withdrawn, reqs>>

\* The request fails and its transaction rolls back.
Rollback(r) ==
  /\ reqs[r] # Idle
  /\ Ends(r)
  /\ UNCHANGED rows

Next ==
  \/ \E r \in Requests :
       \/ EndorseResolve(r) \/ InsertEndorsement(r) \/ EndorseTrust(r)
       \/ Endorse(r)
       \/ RetractFind(r) \/ DeleteEndorsement(r) \/ RetractTrust(r)
       \/ Retract(r)
       \/ Rollback(r)
  \/ AddTrustedDomain \/ RemoveTrustedDomain \/ SoftDelete

Spec == Init /\ [][Next]_vars
=============================================================================
