SPECIFICATION Spec
CONSTANTS
  Key = {1, 2, 3, 4, 5, 6, 7}
  Value = {v1}
  NULL = NULL
  NIL = NIL
  MaxLost = 1
INVARIANT TreeSound
PROPERTY ImplementsMap
CHECK_DEADLOCK FALSE
