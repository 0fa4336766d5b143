\* One crash between a sealed row and the next one.
CONSTANTS
  Records <- Lengths
  FileSize = 2
  BatchSize = 2
  Faults <- CrashWhileOpening
  MaxFiles = 3
SPECIFICATION FairSpec
CHECK_DEADLOCK FALSE
PROPERTIES WriterAlwaysComesBack
