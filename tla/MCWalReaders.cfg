CONSTANTS
  FileRange = 4
  OffsetRange = 16
  TimeRange = 16
  IncRange = 4
  EndRange = 16
  CountRange = 4
  Undecodable = Undecodable
  HeaderSize = 2
  ResidualCap = 6
  ReadSize = 3
  Scenarios <- AllScenarios
SPECIFICATION Spec
INVARIANTS ScanIsExact DecoderFollowsScan ExportIsFaithful
CHECK_DEADLOCK FALSE
