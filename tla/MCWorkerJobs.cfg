SPECIFICATION Spec
CONSTANTS
  MaxRecords = 5
  ChunkRecords = 2
  ReportEvery = 2
  MaxBundles = 2
  Hashes = {h1, h2, h3}
  Keys <- MCKeys
  MaxFaults = 2
INVARIANTS AnswerIsTrue CancelledYieldsNothing
PROPERTIES SettledIsFinal ProgressRises EveryJobEnds
CHECK_DEADLOCK FALSE
