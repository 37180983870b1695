\* A stale winner of an abandoned auction makes a worker.
CONSTANTS
  Nodes = {n1, n2}
  Buckets = {0}
  NumReplica = 1
  AuctionIds = {a1, a2}
  AuctionTimeLimit = 0
  NodeLists = {{n1, n2}}
  RndBids = {1}
  Prompt = FALSE
  MaxRestarts = 0
SPECIFICATION Spec
CHECK_DEADLOCK FALSE
INVARIANT ServesOnlyWonBuckets
