\* Three generations, retransmissions, wraps; responses that acknowledge all, or
\* part of what was sent beside copies of resets that are captured late; copies of SYNs.
CONSTANTS
  SeqSpace = 16
  Client = c
  Server = s
  NoOne = none
  Ends <- MCEnds
  IncMod = 2
  AckTol = 1
  AckLeadCap = 2
  QrTimeout = 0
  FinTimeout = 0
  ProtocolKind = {unknown}
  Unknown = unknown
  Port <- Ports
  MetaBinds <- NoRules
  InitialSeqs = {6, 14}
  MaxGen = 3
  MaxPackets = 11
  Steps = {1}
  Talks <- Verdicts
SPECIFICATION Spec
CHECK_DEADLOCK FALSE
INVARIANTS TablesAgree VerdictIsTrue AnsweredIsSettled
