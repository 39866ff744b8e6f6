CONSTANTS
  i1 = i1
  i2 = i2
  Local <- MCLocal
  DayLen = 3
  DigestHour = 2
  Items = {i1, i2}
  Founder = founder
  Roles = {marketing}
  Route <- MCRoute
SPECIFICATION MCSpec
INVARIANTS DayTypeOK  SitesFirst
CHECK_DEADLOCK FALSE
