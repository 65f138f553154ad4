SPECIFICATION Spec
CONSTANTS
  Duration = 2
  Intervals = {1, 2}
  Rate = 1
  FragmentKinds = {"part", "whole"}
  SilentLoss = TRUE
  RenameOverwrites = FALSE
  ResumeFromHistory = TRUE
  MaxFaults = 2
  MaxResumes = 2
INVARIANT CheckpointSurvivesOneFault
