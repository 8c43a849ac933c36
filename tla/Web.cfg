SPECIFICATION FairSpec
CONSTANTS
  Client = {1, 2}
  MaxFd = 3
  MaxSend = 2
  FewSend = 1
  BufMax = 2
  Workers = 2
  MaxOdd = 1
  NULL = NULL
INVARIANTS
  AcceptLockSound
  CountsSound
  
PROPERTIES
  Replied
CHECK_DEADLOCK FALSE
