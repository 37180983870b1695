\* A worker with its two prefixes, one prefix of the program, three failures
\* tolerated.  The model stops when everything is announced or given up, hence
\* CHECK_DEADLOCK FALSE.
CONSTANTS
  Prefixes = {bucketNode, bucket, node}
  WorkerPrefixes = {bucketNode, bucket}
  MainPrefixes = {node}
  MaxFailures = 3
SPECIFICATION FairSpec
INVARIANT TypeOK
PROPERTIES
  RegistrationSettles
  AdvertisementPersists
CHECK_DEADLOCK FALSE
