\* No fault and two rotations, a session beside, failures of the ledger, crashes on
\* either side of the live commit, and one after which all is sent again.
CONSTANTS
  SeqSpace = 16
  Client = c
  Server = s
  NoOne = none
  Ends <- MCEnds
  IncMod = 2
  AckTol = 0
  AckLeadCap = 2
  QrTimeout = 3
  FinTimeout = 0
  Http = http
  Unknown = unknown
  ProtocolKind = {http, unknown}
  Port <- Ports
  MetaBinds <- TwoRules
  Log <- TwoGenerations
  BatchSize = 4
  Plans <- AnyPlan
SPECIFICATION FairSpec
CHECK_DEADLOCK FALSE
INVARIANTS MarkedIsIndexed NoRequestInLimbo OneTerminalRow AuditFollowsVerdict ReplayConverges SideTablesFollow SessionMissesNothing
PROPERTIES LifecycleSpec EventuallyCommitted
