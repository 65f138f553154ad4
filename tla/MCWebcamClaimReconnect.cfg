SPECIFICATION Spec
CONSTANTS
  MaxBuffers = 1
  PollBudget = 1
  MaxFrames = 1
  MaxOpen = 1
  Methods <- OnlyMmap
  Builds <- WithoutOpenCv
  Requests <- TwoRequests
INVARIANTS
  CanReconnect
