\* A prefix registered at the second try is not advertised.
CONSTANTS
  Prefixes = {bucketNode, bucket, node}
  WorkerPrefixes = {bucketNode, bucket}
  MainPrefixes = {node}
  MaxFailures = 3
SPECIFICATION Spec
INVARIANT RegisteredIsAdvertised
CHECK_DEADLOCK FALSE
