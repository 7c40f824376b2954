CONSTANTS
  Req = {r1, r2}
  Conn = {c1, c2}
  r1 = r1
  r2 = r2
  r3 = r3
  c1 = c1
  c2 = c2
  Timeouts = {0, 1}
  OutHook = {"CONTINUE", "PAUSE", "TERMINATE"}
  InHook = {"CONTINUE", "PAUSE", "TERMINATE"}
  ResumeRes = {"CONTINUE", "TERMINATE"}
  AllocFails = TRUE
  MakeFails = TRUE
  NONE = NONE
  MaxRegister = 2
SPECIFICATION Spec
SYMMETRY MC_Symmetry
INVARIANTS
  TypeOK
  CallbackOnce
  CtxAccounted
  ServerAnswersOnce
PROPERTY
  ImplementsService
\* The client stops when the pool is freed, when every request has had its
\* callback, and when a request is stranded (run evrpc_stall).
CHECK_DEADLOCK FALSE
