CONSTANTS
  MaxLen = 3
  ReadSizes = {1, 2}
  Marks = {0, 1, 2}
  TVs = {0, 1}
  MaxRef = 2
  Threadsafe = FALSE
  NONE = NONE
SPECIFICATION Spec
INVARIANTS
  TypeOK
  ReadGate
  WatermarkRespected
\* bufferevent_free of the last reference ends the model: nothing of the
\* bufferevent runs after it.
CHECK_DEADLOCK FALSE
