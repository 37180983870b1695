\* Three nodes, two replicas, one bucket, two auctions: any message may be late
\* or lost, any list of nodes may be expected, and the second auction is of the
\* bucket that the first one failed to assign.
\* The behaviours stop when the identifiers run out, hence CHECK_DEADLOCK FALSE.
CONSTANTS
  Nodes = {n1, n2, n3}
  Buckets = {0}
  NumReplica = 2
  AuctionIds = {a1, a2}
  AuctionTimeLimit = 0
  NodeLists = {{}, {n1}, {n2}, {n3}, {n1, n2}, {n1, n3}, {n2, n3}, {n1, n2, n3}}
  RndBids = {1}
  Prompt = FALSE
  MaxRestarts = 0
SPECIFICATION Spec
SYMMETRY MCSymmetry
CHECK_DEADLOCK FALSE
INVARIANTS
  TypeOK
  EndNamesAllWinners
  SingleDeclaration
  HostsBounded
  ConfirmedHostsKnow
  WireKeepsMessages
