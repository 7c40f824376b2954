CONSTANTS
  Req = {r1}
  Conn = {c1}
  r1 = r1
  r2 = r2
  r3 = r3
  c1 = c1
  c2 = c2
  Timeouts = {0}
  OutHook = {"CONTINUE", "PAUSE"}
  InHook = {"CONTINUE", "PAUSE"}
  ResumeRes = {"CONTINUE"}
  AllocFails = TRUE
  MakeFails = FALSE
  NONE = NONE
  MaxRegister = 2
SPECIFICATION Spec
PROPERTY
  ServerAnswered
\* A trace pauses a request in the input hooks when the pause entry
\* cannot be allocated.
CHECK_DEADLOCK FALSE
