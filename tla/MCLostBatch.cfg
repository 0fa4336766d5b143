\* The commit of the databases fails once, behind a batch that was taken.
CONSTANTS
  SeqSpace = 16
  Client = c
  Server = s
  NoOne = none
  Ends <- MCEnds
  IncMod = 2
  AckTol = 0
  AckLeadCap = 2
  QrTimeout = 3
  FinTimeout = 0
  Http = http
  Unknown = unknown
  ProtocolKind = {http, unknown}
  Port <- Ports
  MetaBinds <- TwoRules
  Log <- TwoGenerations
  BatchSize = 4
  Plans <- LostBatch
SPECIFICATION Spec
CHECK_DEADLOCK FALSE
INVARIANTS MarkedIsIndexed
