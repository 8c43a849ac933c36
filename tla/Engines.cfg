SPECIFICATION Spec
CONSTANTS
  k1 = k1
  k2 = k2
  k3 = k3
  Key = {k1, k2, k3}
  Value = {v1, v2}
  NULL = NULL
  FREED = FREED
  ArraySize = 2
  PrecursorSize = 3
  TableSize = 2
  ByteSum <- MCByteSum
SYMMETRY ValueSymmetry
INVARIANTS
  TypeOK
  ContentsAgree
  TablesSound
PROPERTY RepliesAgree
CHECK_DEADLOCK FALSE
