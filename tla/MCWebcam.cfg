SPECIFICATION Spec
CONSTANTS
  MaxBuffers = 2
  PollBudget = 2
  MaxFrames = 2
  MaxOpen = 2
  Methods <- BothMethods
  Builds <- BothBuilds
  Requests <- TwoRequests
INVARIANTS
  TypeOK
  StreamBacked
  TeardownInOrder
  ClosedDeviceIsFree
  SessionMatchesDevice
  RowsTellTruth
