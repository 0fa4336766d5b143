\* Two devices of one segment each overrun all three budgets, quarantine after two
\* evictions at one instant, and release, while the clock moves once.
CONSTANTS
  Dev = {d1, d2}
  MaxSeq = 0
  SegSize = 4
  MaxLen = 2
  L2Cap = 3
  L25Cap = 1
  L3Cap = 3
  EvictWindow = 0
  EvictThreshold = 2
  Times = {1}
SPECIFICATION Spec
SYMMETRY DevSymmetry
INVARIANTS TypeOK NoReadyChunkWaits AccountingConsistent SegmentWithinCap
PROPERTIES QuarantineOnlyShrinks GlobalEvictionIsLastResort QuarantineNeedsBurst CursorFollowsAppends
