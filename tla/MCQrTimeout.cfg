\* The timeout scan beside the traffic, with FINs and a new generation, and beside a
\* connection whose first packet is a request.
CONSTANTS
  SeqSpace = 16
  Client = c
  Server = s
  NoOne = none
  Ends <- MCEnds
  IncMod = 2
  AckTol = 0
  AckLeadCap = 2
  QrTimeout = 4
  FinTimeout = 2
  ProtocolKind = {unknown}
  Unknown = unknown
  Port <- Ports
  MetaBinds <- NoRules
  InitialSeqs = {3, 14}
  MaxGen = 2
  MaxPackets = 8
  Steps = {1}
  Talks <- Timeouts
SPECIFICATION FairSpec
CHECK_DEADLOCK FALSE
INVARIANTS TtlCoversLive
PROPERTIES Patience EveryRequestSettles
