\* Files of up to four segments in two buckets, one of which has two hosts.  The
\* name is put once or twice, with files of the same length, of different length,
\* or without final block.  The window lets two Interests be under way at once, one less
\* than the longest file needs after its first segment.
\* The model stops when the client has nothing pending, hence CHECK_DEADLOCK FALSE.
CONSTANTS
  n1 = n1
  n2 = n2
  A = A
  B = B
  C = C
  D = D
  U = U
  NoData = NoData
  Nodes = {n1, n2}
  Buckets = {0, 1}
  StoreSize = 4
  SegmentsPerHash = 1
  HashFunc <- MCHashFunc
  ConfirmedHosts <- MCConfirmedHosts
  Versions = {A, B, C, D, U}
  FileSize <- MCFileSize
  Unmarked = {U}
  PossiblePuts = {{A}, {B, D}, {B, C}, {B, U}}
  WindowSize = 2
SPECIFICATION FairSpec
INVARIANTS
  TypeOK
  WrittenOnceWhole
  PendingIsAwaited
PROPERTIES
  GetDelivers
  GetEnds
CHECK_DEADLOCK FALSE
