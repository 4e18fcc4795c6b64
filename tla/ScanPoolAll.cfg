SPECIFICATION FairSpec
CONSTANTS
  N = 4
  MaxWorkers = 2
  Unfinished <- OneUnfinished
INVARIANTS WholeScan NoSendOnClosed
PROPERTIES ScanEnds
