SPECIFICATION Spec
CONSTANTS
  worker = worker
  t1 = t1
  Worker = worker
  Tools <- MCTools
  Ids <- MCIds
  BatchSize = 1
  MaxAttempts = 2
  MaxTransport = 2
  Lease = 2
  OldAge = 2
  CallTicks = 1
  DigestTicks = 2
  MaxPosts = 3
INVARIANTS TypeOK VerdictFitsPost
PROPERTIES VerdictStands ItemsSettle
