CONSTANTS
  Sessions = {demo, flight}
  Bundled = demo
  None = None
  Slots = {o1, o2}
  Unwritable = FALSE
  MaxRequests = 5
  MaxOthers = 0
SYMMETRY SlotSymmetry
SPECIFICATION Spec
PROPERTY RemovalIsCleanOrWarned
CHECK_DEADLOCK FALSE
