\* A bucket with one late acknowledgement is never ended.
CONSTANTS
  Nodes = {n1, n2}
  Buckets = {0}
  NumReplica = 2
  AuctionIds = {a1, a2}
  AuctionTimeLimit = 0
  NodeLists = {{n1, n2}}
  RndBids = {1}
  Prompt = FALSE
  MaxRestarts = 0
SPECIFICATION FairSpec
CHECK_DEADLOCK FALSE
PROPERTY ConfirmedBucketsEnd
