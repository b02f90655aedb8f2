CONSTANTS
  r1 = r1
  w1 = w1
  w2 = w2
  d1 = d1
  d2 = d2
  d3 = d3
  Repos = {r1}
  HandleOf <- OwnHandle
  Kinds = {"issue", "pull_request", "release"}
  Numbers = {1}
  Deliveries = {d1, d2, d3}
  EventOf <- IssueAndMerge
  Workers = {w1, w2}
  MaxFaults = 2
SPECIFICATION FairSpec
INVARIANTS TypeOK AcknowledgedIsApplied FollowUpsThreaded AppliedOnce
PROPERTY EventuallyAcknowledged
CHECK_DEADLOCK FALSE
