SPECIFICATION FairSpec
CONSTANTS
  Key = {1, 2, 3}
  Value = {v1}
  Node = {n1, n2, n3}
  HeadNode = HeadNode
  NULL = NULL
  MaxLevel = 3
INVARIANTS
  IInv
  TypeOK
  LevelsSorted
  NoUseAfterFree
  CountExact
  DestroyFreesAll
PROPERTIES
  ImplementsMap
  CallReturns
CHECK_DEADLOCK FALSE
