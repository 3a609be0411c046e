SPECIFICATION Spec
CONSTANTS
  Names = {1, 2, 3}
  MSSQL = {2, 3}
  Concurrency = 2
  DbNames = {"sales", "hr"}
  FileNames = {"Sales", "hr"}
  Lower <- LowerCase
  MaxChanges = 1
INVARIANTS
  InspectionsBounded
  ListingIsWhole
  EveryEngineShown
  EveryFileCounted
PROPERTIES
  DiscoveryEnds
CHECK_DEADLOCK FALSE
