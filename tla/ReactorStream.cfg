SPECIFICATION Spec
CONSTANTS
  k1 = k1
  v1 = v1
  Key = {k1}
  Value = {v1}
  NULL = NULL
  Client = {c1, c2}
  Message <- StreamMessages
  Split = TRUE
  Window = 2
  WireBuf = 4
  SockBuf = 1
  MaxFd = 2
  ConnectionSize = 2
SYMMETRY ClientSymmetry
INVARIANTS
  FdsWatched
PROPERTY ImplementsService
CHECK_DEADLOCK FALSE
