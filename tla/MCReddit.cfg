SPECIFICATION Spec
CONSTANTS
  i1 = i1
  i2 = i2
  t1 = t1
  t2 = t2
  Items = {i1, i2}
  Threads = {t1}
  ThreadOf <- MCOneThread
  CommunityOf <- MCOneCommunity
  Gateways = {g1}
  Worker = worker
  NoItem = NoItem
  MaxTime = 3
  MaxEdits = 1
  DayLength = 2
  Window = 3
  Grace = 2
  Stale = 3
  MaxAge = 3
  PerDay = 2
  PerCommunity = 2
  MinInterval = 1
SYMMETRY Symmetry
INVARIANTS OneSenderPerThread RepliesAreRecorded OnlyApprovedText
PROPERTY AnsweredOnce
CHECK_DEADLOCK FALSE
