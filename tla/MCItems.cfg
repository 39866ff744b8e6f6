CONSTANTS
  MaxId = 2
  Posts = {"p1", "p2", "s"}
  None = "none"
  SitePosts = {"s"}
  Targets = {"ann"}
  AddressOf <- MCAddressOf
  AuthorOf <- MCAuthorOf
  ThreadOf <- MCThreadOf
  Kind <- MCKind
  MaxTries = 1
  MaxInserts = 2
SPECIFICATION Spec
INVARIANTS NothingReturns DraftsFit
PROPERTY RoundsPurge
CHECK_DEADLOCK FALSE
