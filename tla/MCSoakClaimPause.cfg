SPECIFICATION Spec
CONSTANTS
  Duration = 2
  Intervals = {1}
  Rate = 1
  FragmentKinds = {}
  SilentLoss = FALSE
  RenameOverwrites = TRUE
  ResumeFromHistory = FALSE
  MaxFaults = 0
  MaxResumes = 1
INVARIANT NoFailureWithoutFault
