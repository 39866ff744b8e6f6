SPECIFICATION SourcesSpec
CONSTANTS
  a = a
  b = b
  Order <- MCOrder
  Kinds <- MCKinds
  Segments <- MCSegments
  Mentions = {1, 2}
  SourceOf <- MCSourceOf
  SegmentsOf <- MCSegmentsOf
  Naming = {1}
  Excluded = {}
  Day = 2
  Backlog = 3
  PageSize = 1
  MaxPages = 3
  MaxTime = 4
INVARIANT SourcesTypeOK
PROPERTIES OkRoundsComplete SourcesIndependent
