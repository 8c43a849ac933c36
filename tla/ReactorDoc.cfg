SPECIFICATION FairSpec
CONSTANTS
  k1 = k1
  v1 = v1
  Key = {k1}
  Value = {v1}
  NULL = NULL
  Client = {c1, c2}
  Message <- GetOnly
  Split = TRUE
  Window = 1
  WireBuf = 3
  SockBuf = 1
  MaxFd = 2
  ConnectionSize = 3
PROPERTY RequestsComplete
