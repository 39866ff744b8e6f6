SPECIFICATION Spec
CONSTANTS
  Deals = {"d1", "d2"}
  Soon = {"d1"}
  Members = {"boss", "ana"}
  CompanyOwner = "boss"
  OwnerOf <- MCOwnerOf
  MaxId = 2
  None = "none"
  Roles = {"bug", "ask"}
  Groups = {"bug"}
  Counts <- MCCounts
  MaxRecounts = 1
  MaxCrashes = 1
PROPERTIES ClosedAsTold ClosedForGood EveryPromiseCloses
CHECK_DEADLOCK FALSE
