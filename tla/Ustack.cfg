SPECIFICATION Spec
CONSTANTS
  p1 = p1
  p2 = p2
  Peer <- MCPeer
  MaxUnits <- MCMaxUnits
  NoPeer = NoPeer
  BUFFER_SIZE = 1
  Length = {1, 2}
  MaxResend <- MCMaxResend
  MaxTick = 1
  RING_SIZE = 2
INVARIANTS ReadyListSound BlocksOnlyOnStale DescriptorsSound 
CHECK_DEADLOCK FALSE
