\* A segment against budgets so small that it may fail and its device may be
\* quarantined, and that suffice when chunks arrive in their order.
CONSTANTS
  Dev = {d1}
  MaxSeq = 0
  SegSize = 6
  MaxLen = 2
  L2Cap = 6
  L25Cap = 2
  L3Cap = 9
  EvictWindow = 1
  EvictThreshold = 2
  Times = {0}
  RecLen = 3
  GapMaxRounds = 3
  Nets <- PromptOrLate
SPECIFICATION FairSpec
CHECK_DEADLOCK FALSE
INVARIANTS OvershootBounded DecoderFollowsCursor ReleasedIsStored
PROPERTIES EverySealHeals EverySealSettles
