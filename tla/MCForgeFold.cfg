SPECIFICATION FoldSpec
CONSTANTS
  a = a
  b = b
  Pod = {a, b}
  Ref <- MCForgeRefs
  Push <- MCPush
  Parent <- MCParent
  MaxEpoch = 3
  MaxSeq = 5
  MaxQueue = 1
  MaxWire = 1
  MaxFolds = 2
  UndoMax = 1
CONSTRAINT MCBound
CHECK_DEADLOCK FALSE
INVARIANT FoldInv
INVARIANT StaysRestorable
INVARIANT UndoRecoverable
