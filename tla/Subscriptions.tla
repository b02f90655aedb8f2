---------------------------- MODULE Subscriptions ----------------------------
(***************************************************************************)
(* Subscribing, muting and unsubscribing: upsertSubscription and           *)
(* Unsubscribe (api/internal/store/subscription.go) under                  *)
(* SubscriptionService, one action per statement.  A subscription is a row *)
(* of a user and a board, post or comment, at most one by its unique key.  *)
(*                                                                         *)
(* A statement that changes the row is the last one of its transaction, so *)
(* it and the commit are one action.                                       *)
(***************************************************************************)
EXTENDS Integers, Keyed

\* What set-muted can set a row to, and what a row can be.
Levels == {"on", "muted"}
Rows == {"none"} \cup Levels

\* A request asks for a level, or for "any" if it only subscribes.
Wishes == {"any"} \cup Levels

VARIABLES row,   \* the subscription of each key
          alive, \* targets that exist and are not deleted
          asks   \* of each request, what it has read so far

subVars == <<row, alive, asks>>

\* seen is a history variable: what the row was while the request ran.
Ask ==
  {Idle}
  \cup [at : {"find", "insert", "refind"}, key : Keys, wish : Wishes,
        seen : SUBSET Rows]
  \cup [at : {"update"}, key : Keys, wish : Levels, seen : SUBSET Rows]
  \cup [at : {"answered"}, key : Keys, wish : Wishes, seen : SUBSET Rows,
        answer : Levels]

SubTypeOK ==
  /\ row \in [Keys -> Rows]
  /\ alive \subseteq Targets
  /\ asks \in [Requests -> Ask]

SubInit ==
  /\ row = [k \in Keys |-> "none"]
  /\ alive = Targets
  /\ asks = [r \in Requests |-> Idle]

\* Every request on the key sees its new row.
Witness(k, level, current) ==
  [r \in Requests |->
     IF current[r] # Idle /\ current[r].key = k
     THEN [current[r] EXCEPT !.seen = @ \cup {level}]
     ELSE current[r]]

MovesOn(r, at) == asks' = [asks EXCEPT ![r].at = at]

Answer(req, level) ==
  [at |-> "answered", key |-> req.key, wish |-> req.wish,
   seen |-> req.seen, answer |-> level]
Answers(r, level) == asks' = [asks EXCEPT ![r] = Answer(asks[r], level)]

\* The request writes the row of its key and answers with it.
Writes(r, level) ==
  LET k == asks[r].key IN
  /\ row' = [row EXCEPT ![k] = level]
  /\ asks' = Witness(k, level, [asks EXCEPT ![r] = Answer(asks[r], level)])

-----------------------------------------------------------------------------
\* Subscribe and SetMuted check the target ...
CheckTarget(r, k, wish) ==
  /\ asks[r] = Idle
  /\ k[2] \in alive
  /\ asks' = [asks EXCEPT ![r] = [at |-> "find", key |-> k, wish |-> wish,
                                  seen |-> {row[k]}]]
  /\ UNCHANGED <<row, alive>>

\* ... look for the row, which may already be what they want ...
FindExisting(r) ==
  /\ asks[r].at = "find"
  /\ LET found == row[asks[r].key] IN
     \/ found = "none" /\ MovesOn(r, "insert")
     \/ found # "none" /\ asks[r].wish \in {"any", found} /\ Answers(r, found)
     \/ found # "none" /\ asks[r].wish \notin {"any", found}
        /\ MovesOn(r, "update")
  /\ UNCHANGED <<row, alive>>

\* ... set its flag, by key: if the row is gone the update finds nothing, and
\* the answer is as before ...
Update(r) ==
  /\ asks[r].at = "update"
  /\ IF row[asks[r].key] = "none"
     THEN Answers(r, asks[r].wish) /\ UNCHANGED row
     ELSE Writes(r, asks[r].wish)
  /\ UNCHANGED alive

Default(wish) == IF wish = "any" THEN "on" ELSE wish

\* Mutant: on a conflict the insert takes over the row (DO UPDATE).
Overwrite(r) ==
  /\ asks[r].at = "insert"
  /\ Writes(r, Default(asks[r].wish))
  /\ UNCHANGED alive

\* Mutant: after a conflict the row that was not inserted is answered.
InsertBlindly(r) ==
  /\ asks[r].at = "insert"
  /\ IF row[asks[r].key] = "none"
     THEN Writes(r, Default(asks[r].wish))
     ELSE Answers(r, Default(asks[r].wish)) /\ UNCHANGED row
  /\ UNCHANGED alive

\* Mutant: the wish is stored as it came.
InsertWish(r) ==
  /\ asks[r].at = "insert"
  /\ IF row[asks[r].key] = "none"
     THEN Writes(r, asks[r].wish)
     ELSE MovesOn(r, "refind") /\ UNCHANGED row
  /\ UNCHANGED alive

\* ... or insert it, ON CONFLICT DO NOTHING ...
Insert(r) ==
  /\ asks[r].at = "insert"
  /\ IF row[asks[r].key] = "none"
     THEN Writes(r, Default(asks[r].wish))
     ELSE MovesOn(r, "refind") /\ UNCHANGED row
  /\ UNCHANGED alive

\* ... and after a conflict answer with the row that was first, or fail if it
\* is gone again.
Refind(r) ==
  /\ asks[r].at = "refind"
  /\ IF row[asks[r].key] = "none"
     THEN asks' = [asks EXCEPT ![r] = Idle]
     ELSE Answers(r, row[asks[r].key])
  /\ UNCHANGED <<row, alive>>

\* The answer is sent, or the request fails on the way to it.
Finish(r) ==
  /\ asks[r] # Idle
  /\ asks' = [asks EXCEPT ![r] = Idle]
  /\ UNCHANGED <<row, alive>>

\* Unsubscribe asks for no target and no row.
Unsubscribe(k) ==
  /\ row' = [row EXCEPT ![k] = "none"]
  /\ asks' = Witness(k, "none", asks)
  /\ UNCHANGED alive

\* ThreadService tombstones a post or comment; its subscriptions stay.
TargetDeleted(t) ==
  /\ alive' = alive \ {t}
  /\ UNCHANGED <<row, asks>>

-----------------------------------------------------------------------------
SubNext ==
  \/ \E r \in Requests :
       \/ \E k \in Keys, wish \in Wishes : CheckTarget(r, k, wish)
       \/ FindExisting(r) \/ Update(r) \/ Insert(r) \/ Refind(r) \/ Finish(r)
  \/ \E k \in Keys : Unsubscribe(k)
  \/ \E t \in Targets : TargetDeleted(t)

SubSpec == SubInit /\ [][SubNext]_subVars
=============================================================================
