SPECIFICATION Spec
CONSTANTS
  PageSpace = 4
  SIZE_TUPLE = 1
  Rows = {1, 3}
  LastPageId = 3
  MaxSlots = 3
INVARIANTS
  HeapConsistent
  NoRowLost
  DeletedStaysDeleted
  ScanComplete
PROPERTIES
  ScanForward
CHECK_DEADLOCK FALSE
