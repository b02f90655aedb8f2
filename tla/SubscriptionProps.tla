-------------------------- MODULE SubscriptionProps --------------------------
(***************************************************************************)
(* What subscribe and set-muted promise, over Subscriptions.               *)
(***************************************************************************)
EXTENDS Subscriptions

\* A mute is only lifted by a set-muted that asked for it and found the row, or
\* by an unsubscribe: whatever overlaps, subscribing never clobbers a mute
\* (Store.Subscribe, upsertSubscription).
MutesStick ==
  [][\A k \in Keys :
       row[k] = "muted" /\ row'[k] = "on" =>
         \E r \in Requests :
           /\ asks[r] # Idle /\ asks[r].key = k
           /\ asks[r].wish = "on" /\ asks[r].at = "update"]_row

\* Whoever subscribes is answered with what the row was at some moment between
\* call and answer, also after losing an insert (upsertSubscription's re-read).
AnswersWereTrue ==
  \A r \in Requests :
    asks[r].at = "answered" /\ asks[r].wish = "any" =>
      asks[r].answer \in asks[r].seen
=============================================================================
