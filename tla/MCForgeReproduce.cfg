SPECIFICATION FoldSpec
CONSTANTS
  a = a
  Pod = {a}
  Ref <- MCForgeRefs
  Push <- MCPush
  Parent <- MCParent
  MaxEpoch = 2
  MaxSeq = 13
  MaxQueue = 1
  MaxWire = 0
  MaxFolds = 3
  UndoMax = 1
CONSTRAINT Phases
CHECK_DEADLOCK FALSE
INVARIANT StaysRestorable
