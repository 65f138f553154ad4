SPECIFICATION FairSpec
CONSTANTS
  Kinds <- AllKinds
  Duration = 3
  RetryLimit = 3
  SharedBundle = TRUE
  CallsFail = TRUE
  DeviceReturns = TRUE
  MaxRuns = 2
INVARIANTS
  TypeOK
  ExitTellsTruth
  PartialRunDocumented
  NothingLeaks
PROPERTIES
  EveryRunEnds
CHECK_DEADLOCK FALSE
