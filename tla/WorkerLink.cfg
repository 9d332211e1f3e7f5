CONSTANTS
  Nodes = {n1}
  Subs = {s1, s2}
  Values = {0, 1}
  Unset = Unset
  BaseRetry = 2
  FailureCap = 2
  MaxDelay = 10
  QueueCap = 1
  Faults <- AllFaults
SPECIFICATION FairSpec
INVARIANT TypeOK
INVARIANT StatusFollowsLink
INVARIANT OnlySnapshotsMislead
PROPERTY BroadcastConverges
PROPERTY LinkRecovers
