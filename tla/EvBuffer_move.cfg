CONSTANTS
  b1 = b1  b2 = b2  c1 = c1  c2 = c2  c3 = c3  c4 = c4  NULL = NULL
  Bufs <- MC_Bufs
  CbBufs = {}
  ChainIds <- MC_Chains3
  Sizes = {1, 2}
  MaxBytes = 3
  Ops <- MoveOps
  ByteVal <- MC_ByteVal
  Needles <- MC_Needles
  MIN_BUFFER_SIZE = 2
  CHAIN_SIZE = 0
  EVBUFFER_CHAIN_MAX_AUTO_SIZE = 8
  PRINTF_MIN_SPACE = 1
SPECIFICATION Spec
INVARIANT SearchAgrees
PROPERTY StreamSpec
