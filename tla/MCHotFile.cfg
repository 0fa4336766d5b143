\* Two crashes at any step, three outside the opening of a file, or two failures.
CONSTANTS
  Records <- Lengths
  FileSize = 2
  BatchSize = 2
  Faults <- AnyFault
  MaxFiles = 5
SPECIFICATION FairSpec
CHECK_DEADLOCK FALSE
INVARIANTS OneOpenRow IndexTellsTheFile LeftFileIsCommitted
PROPERTIES WriterComesBack
