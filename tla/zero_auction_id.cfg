\* The random generator may return 0.
CONSTANTS
  Nodes = {n1, n2}
  Buckets = {0}
  NumReplica = 1
  AuctionIds = {0, 1}
  AuctionTimeLimit = 0
  NodeLists = {{n1, n2}}
  RndBids = {1}
  Prompt = FALSE
  MaxRestarts = 0
SPECIFICATION Spec
CHECK_DEADLOCK FALSE
PROPERTY RunningAuctionNotSuperseded
