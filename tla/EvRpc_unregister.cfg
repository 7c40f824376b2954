CONSTANTS
  Req = {r1}
  Conn = {c1}
  r1 = r1
  r2 = r2
  r3 = r3
  c1 = c1
  c2 = c2
  Timeouts = {0}
  OutHook = {"CONTINUE", "PAUSE"}
  InHook = {"CONTINUE", "PAUSE"}
  ResumeRes = {"CONTINUE"}
  AllocFails = FALSE
  MakeFails = FALSE
  NONE = NONE
  MaxRegister = 2
SPECIFICATION Spec
INVARIANT
  RpcStateLive
\* A trace unregisters the RPC while the user holds a request state.
CHECK_DEADLOCK FALSE
