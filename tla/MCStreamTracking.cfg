\* Initial numbers before and at the wrap, in order and out of order.
CONSTANTS
  SeqSpace = 16
  InitialSeqs = {0, 7, 8, 15}
  MaxSeg = 3
  Window = 4
  Taps <- MCTaps
SPECIFICATION Spec
CHECK_DEADLOCK FALSE
INVARIANTS TranslationIsTrue
PROPERTIES NewIsFirstSeen
