SPECIFICATION FairSpec
CONSTANTS
  Client = {c1, c2}
  MaxFd = 3
  MaxSend = 2
  FewSend = 1
  BufMax = 1
  Entries = 4
  BatchMax = 2
  NULL = NULL
INVARIANTS
  OneOperationEach
  
CHECK_DEADLOCK FALSE
PROPERTIES
  Served
