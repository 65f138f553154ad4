SPECIFICATION Spec
CONSTANTS
  Kinds <- RealOnly
  Duration = 2
  RetryLimit = 3
  SharedBundle = FALSE
  CallsFail = FALSE
  DeviceReturns = FALSE
  MaxRuns = 1
INVARIANTS
  InterruptExitsNonZero
CHECK_DEADLOCK FALSE
