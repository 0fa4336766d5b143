\* Responses that acknowledge part of what was sent, no tolerance.
CONSTANTS
  SeqSpace = 16
  Client = c
  Server = s
  NoOne = none
  Ends <- MCEnds
  IncMod = 2
  AckTol = 0
  AckLeadCap = 2
  QrTimeout = 0
  FinTimeout = 0
  ProtocolKind = {unknown}
  Unknown = unknown
  Port <- Ports
  MetaBinds <- NoRules
  InitialSeqs = {6, 14}
  MaxGen = 3
  MaxPackets = 11
  Steps = {1}
  Talks <- OnlyPartial
SPECIFICATION Spec
CHECK_DEADLOCK FALSE
INVARIANTS OnlyAcknowledgedIsMatched
