SPECIFICATION FairSpec
CONSTANTS
  Duration = 3
  Intervals = {1, 2}
  Rate = 1
  FragmentKinds = {"part"}
  SilentLoss = FALSE
  RenameOverwrites = TRUE
  ResumeFromHistory = FALSE
  MaxFaults = 2
  MaxResumes = 3
INVARIANTS
  TypeOK
  EvidenceDurable
  EventsCoverCache
  ManifestCurrent
  PausedIsResumable
  NeverOverRate
PROPERTIES
  KeepsLedger
  EventuallyRests
