SPECIFICATION Spec
CONSTANTS
  MaxCaptures = 2
  MaxNonces = 2
  MaxDatagrams = 2
  MaxTime = 3
  MaxFaults = 0
  MaxDuration = 2
  MaxRecords = 1
  MaxBytes = 2
  FileUnits = 4
  ReceiptReserve = 1
  MaxEvents = 3
  MaxBuffered = 1
  MaxPendingEvents = 1
CHECK_DEADLOCK FALSE
INVARIANT RetainedCanBeFinalized
