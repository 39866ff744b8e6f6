SPECIFICATION WatchSpec
CONSTANTS
  u1 = u1
  u2 = u2
  b1 = b1
  b2 = b2
  b3 = b3
  Urls = {u1, u2}
  Blocks = {b1, b2, b3}
  PageOf <- MCPageOf
  Mentioning = {b1, b3}
  MaxSites = 2
  MaxCursor = 2
  MaxId = 2
INVARIANTS WatchTypeOK NothingSwallowed
PROPERTY EveryBlockReached
