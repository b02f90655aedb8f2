-------------------------------- MODULE Keyed --------------------------------
(***************************************************************************)
(* What the tables of endorsements and of subscriptions have in common: at *)
(* most one row for a user and a target, and requests that race for it.    *)
(***************************************************************************)

CONSTANTS Users,
          Targets,  \* posts and comments; boards too, to subscribe to
          Requests  \* requests in flight at the same time

\* UNIQUE (user_id, target_type, target_id)
Keys == Users \X Targets

Idle == [at |-> "idle"]
=============================================================================
