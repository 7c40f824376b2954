CONSTANTS
  Req = {r1, r2, r3}
  Conn = {c1}
  r1 = r1
  r2 = r2
  r3 = r3
  c1 = c1
  c2 = c2
  Timeouts = {1}
  OutHook = {"CONTINUE"}
  InHook = {"CONTINUE"}
  ResumeRes = {"CONTINUE"}
  AllocFails = FALSE
  MakeFails = FALSE
  NONE = NONE
  MaxRegister = 2
SPECIFICATION Spec
INVARIANT
  TimerTargetsLive
\* The client stops when the pool is freed and when every request has had
\* its callback.
CHECK_DEADLOCK FALSE
