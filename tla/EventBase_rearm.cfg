CONSTANTS
  io = io
  tm = tm
  ex = ex
  dcb = dcb
  NULL = NULL
  Events <- MC_Events
  IOEvents <- MC_IOEvents
  PersistEvents <- MC_PersistEvents
  InternalEvents = {}
  ExitEvents <- MC_ExitEvents
  SignalEvents <- MC_SignalEvents
  DeferredCbs <- MC_DeferredCbs
  NPRI = 2
  Timeouts = {0, 1}
  MaxTime = 2
  MaxCalls = 2
  MaxNcalls = 2
SPECIFICATION Spec
INVARIANT
  TimedIOWatched
