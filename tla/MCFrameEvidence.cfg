SPECIFICATION Spec
CONSTANTS
  Second = 10
  Micro = 10
  DropMix <- MCDropMix
  JitterMix <- MCJitterMix
  OrderMix <- MCOrderMix
  OutcomeMix <- MCOutcomeMix
  Defaults <- Plain
  Configs <- MCConfigs
  FewSamples = 3
  FewerSamples = 4
  StallGap = 2
  Handles = {"discovery", "backend"}
  TimeoutPercent = 15
  IncompletePercent = 20
  PayloadSize = 8
  RateNode = "AcquisitionFrameRate"
  DefaultRate = 3
  Priority <- MCPriority
  Lenient = {"frame_rate", "packet_size_bytes"}
  CaseBlind = {"pixel_format"}
  GigEKeys = {"packet_size_bytes"}
  Nodes <- MCNodes
  Plans <- MCPlans
  Clock = {100, 400}
  MaxBegins = 2
INVARIANTS
  TypeOK
  EvidenceInTimeOrder
  IdsDistinct
  FramesOnSchedule
  ReportMatchesEvidence
  QuietMeansPassed
  StrictStreamsAsAsked
  VerifiedIsActual
  SdkReleased
