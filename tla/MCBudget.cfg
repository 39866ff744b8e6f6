SPECIFICATION FairSpec
CONSTANTS
  Worker = worker
  Tools = {t1}
  Live = Live
  Budget = 5
  Costs = {2}
  MaxCost = 2
  MaxDay = 2
  MaxCrashes = 1
INVARIANTS OvershootBounded
PROPERTY ExhaustionIsTold
