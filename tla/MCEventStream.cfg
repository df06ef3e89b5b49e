SPECIFICATION FairStreamSpec
CONSTANTS
  Streams = {r1, r2}
  MaxEvents = 5
  MaxQueueEvents = 2
  MaxQueueBytes = 3
  Total <- MCTotal
INVARIANTS
  StreamTypeOK
  InOrder
  QueueBounded
CHECK_DEADLOCK FALSE
PROPERTIES
  EndsAreEarned
  EventArrives
