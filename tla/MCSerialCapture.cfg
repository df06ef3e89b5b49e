SPECIFICATION Spec
CONSTANTS
  MaxTime = 3
  MaxChunk = 2
  MaxRead = 4
  MaxFaults = 2
  MaxDuration = 2
  MaxRecords = 2
  MaxBytes = 3
  FileUnits = 5
  ReceiptReserve = 1
  MaxEvents = 2
  MaxPendingEvents = 1
INVARIANTS TypeOK SavedIsTrue RetainedCanBeFinalized NothingLeftOpen
