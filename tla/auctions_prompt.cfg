\* Three nodes, two replicas, three buckets; every message arrives between two
\* ticks of the master's timer and every node is listed.  The random part of a
\* bid is as small or as large as it can be.
CONSTANTS
  Nodes = {n1, n2, n3}
  Buckets = {0, 1, 2}
  NumReplica = 2
  AuctionIds = {a1, a2, a3}
  AuctionTimeLimit = 0
  NodeLists = {{n1, n2, n3}}
  RndBids = {1, 100}
  Prompt = TRUE
  MaxRestarts = 0
SPECIFICATION FairSpec
INVARIANTS
  LoadBalanced
  FullReplication
PROPERTIES
  AuctionsConclude
  EveryBucketServed
