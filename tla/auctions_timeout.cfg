\* Two nodes, one replica, two buckets, the time limit of the code: no message
\* need ever arrive, but the master's timer keeps firing.
\* The behaviours stop when the identifiers run out, hence CHECK_DEADLOCK FALSE.
CONSTANTS
  Nodes = {n1, n2}
  Buckets = {0, 1}
  NumReplica = 1
  AuctionIds = {a1, a2}
  AuctionTimeLimit = 5
  NodeLists = {{n1}, {n1, n2}}
  RndBids = {1}
  Prompt = FALSE
  MaxRestarts = 0
SPECIFICATION TimerSpec
CHECK_DEADLOCK FALSE
PROPERTIES
  NoAuctionHangs
