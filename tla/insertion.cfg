\* A file of three segments, the first in bucket 0 and the others in bucket 1.
\* The second command is sent while the window is not full by one segment.  One
\* command is expressed twice, one may get a Nack, and a host of bucket 1 restarts.
\* The model stops when the client is finished, or when a Nack left it with nothing
\* to wait for, hence CHECK_DEADLOCK FALSE.
CONSTANTS
  n1 = n1
  n2 = n2
  n3 = n3
  Nodes = {n1, n2, n3}
  Buckets = {0, 1}
  StoreSize = 3
  SegmentsPerHash = 1
  HashFunc <- MCHashFunc
  MaxRetries = 1
  MaxNacked = 2
  WindowSize = 2
  MaxPack = 2
  ConfirmedHosts <- MCConfirmedHosts
  NumReplica = 2
  Unstable = {n3}
SPECIFICATION FairSpec
INVARIANTS
  TypeOK
  ReplyMeansReplicated
  FinishedMeansReplicated
  PendingIsAwaited
  StoredWhereItHashes
PROPERTIES
  PutFinishes
  ImplementsStore
CHECK_DEADLOCK FALSE
