CONSTANTS
  MaxLen = 3
  ReadSizes = {1, 2}
  Marks = {0, 1, 2}
  TVs = {0, 1}
  MaxRef = 2
  Threadsafe = TRUE
  NONE = NONE
SPECIFICATION Spec
INVARIANT
  BevLockReleased
CHECK_DEADLOCK FALSE
