----------------------------- MODULE GithubProps -----------------------------
(***************************************************************************)
(* What the webhook receiver promises, over GithubIngest.                  *)
(***************************************************************************)
EXTENDS GithubIngest, FiniteSets

RowsOf(d) == {i \in DOMAIN content : content[i].delivery = d}

\* What GitHub was told is done is done: a delivery answered with 200 is in the
\* content, unless it was ignored on purpose, whatever failed and was sent
\* again in between (deliveryProcessed, ServeHTTP).
AcknowledgedIsApplied ==
  \A d \in Deliveries :
    status[d] = "ok" => Processed(d) \/ d \in dropped

\* A comment hangs under a post of the very issue or pull request it is about,
\* one that was there before it (findPostByOriginRef).
FollowUpsThreaded ==
  \A i \in DOMAIN content : content[i].post # 0 =>
    content[i].post \in PostsOf(content[i].item) /\ content[i].post < i

\* A delivery GitHub waited for is applied at most once, although any of its
\* attempts may fail before or after its commit and be made again
\* (deliveryProcessed).
AppliedOnce ==
  \A d \in Deliveries \ hungUp : Cardinality(RowsOf(d)) <= 1

\* Every delivery GitHub keeps sending is one day answered with 200 (ServeHTTP).
EventuallyAcknowledged ==
  \A d \in Deliveries : status[d] # "new" ~> status[d] = "ok"
=============================================================================
