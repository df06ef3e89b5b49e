CONSTANTS
  Sessions = {demo, flight}
  Bundled = demo
  None = None
  Slots = {o1, o2}
  Unwritable = FALSE
  MaxRequests = 4
  MaxOthers = 1
SYMMETRY SlotSymmetry
SPECIFICATION Spec
INVARIANTS BusyHasOwner ListIsTrue
PROPERTIES OnlyWhatWasAsked StoredIsKept
CHECK_DEADLOCK FALSE
