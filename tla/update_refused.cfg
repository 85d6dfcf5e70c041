SPECIFICATION Spec
CONSTANTS
  PageSpace = 4
  SIZE_TUPLE = 1
  Rows = {1, 3}
  LastPageId = 3
  MaxSlots = 3
CHECK_DEADLOCK FALSE
INVARIANT EveryRowKept
