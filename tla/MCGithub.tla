------------------------------ MODULE MCGithub ------------------------------
(* Instances of GithubIngest for TLC. *)
EXTENDS GithubProps, TLC

CONSTANTS r1, w1, w2, d1, d2, d3

Event1(repo, kind, action) ==
  [item |-> [repo |-> repo, kind |-> kind, number |-> 1], action |-> action]

\* An issue is opened and closed, and a pull request of its number is merged.
IssueAndMerge ==
  d1 :> Event1(r1, "issue", "opened") @@ d2 :> Event1(r1, "issue", "closed")
    @@ d3 :> Event1(r1, "pull_request", "merged")

OwnHandle == r1 :> "github-a-b"
=============================================================================
