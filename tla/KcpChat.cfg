SPECIFICATION Spec
CONSTANTS
  c1 = c1
  short = short
  other = other
  medium = medium
  long = long
  Client <- MCClient
  Line <- MCLine
  Frags <- MCFrags
  Budget <- MCBudget
  SnMod = 12
  IKCP_WND_SND = 2
  IKCP_WND_RCV = 3
  IKCP_FASTACK_LIMIT = 1
  IKCP_DEADLINK = 2
  Mss = 32
INVARIANTS AckedIsKept WindowsRespected
 
CHECK_DEADLOCK FALSE
