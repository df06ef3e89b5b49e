CONSTANTS
  MaxDuration = 8
  MaxRecords = 8
  MaxBytes = 8
  FileUnits = 20
  ReceiptReserve = 4
  MaxEvents = 8
  Second = 1
  SeqModulus = 16
  LowRuns = 2
  GoodRuns = 2
  LossRuns = 2
  RelockFrames = 2
  RelockTime = 1
  Series <- MCSeries
  Pairs <- MCPairs
  Documents <- MCDocuments
  Ranges <- MCRanges
  Inclusions <- MCInclusions
  Marks <- MCMarks
  Alignments <- MCAlignments
SPECIFICATION Spec
INVARIANT BundleVerifies
INVARIANT FindingReproduces
INVARIANT LossIsCountedOnce
CHECK_DEADLOCK FALSE
