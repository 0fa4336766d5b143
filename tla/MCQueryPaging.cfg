\* By time window, over three epochs, and over two with a crash; by connection,
\* with a crash; beside a rotation that fails; backward in one epoch and over two;
\* with a filter by status.
CONSTANTS
  MaxTs = 2
  MaxRecords = 4
  MaxEpoch = 2
  Scenarios <- Asked
SPECIFICATION FairSpec
CHECK_DEADLOCK FALSE
INVARIANTS ScanIsComplete NoRowTwice
PROPERTIES ScanEnds
