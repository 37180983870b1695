\* Two nodes, two replicas, two buckets, and three auctions, one more than there
\* are buckets, so that an auction that fails can be made up for; or two auctions
\* and a node that restarts at any moment and fetches the master's publications
\* anew, in any order.  Any message may be late or lost.
\* The behaviours stop when the identifiers run out, hence CHECK_DEADLOCK FALSE.
CONSTANTS
  Nodes = {n1, n2}
  Buckets = {0, 1}
  NumReplica = 2
  AuctionIds = {a1, a2, a3}
  AuctionTimeLimit = 0
  NodeLists = {{n1}, {n2}, {n1, n2}}
  RndBids = {1}
  Prompt = FALSE
  MaxRestarts = 1
SPECIFICATION Spec
CONSTRAINT TwoAuctionsWithRestart
SYMMETRY MCSymmetry
CHECK_DEADLOCK FALSE
INVARIANTS
  OneEndPerBucket
  WorkersAgree
PROPERTIES
  NoRewriteUnderWorker
  ImplementsAssignment
