SPECIFICATION PlanSpec
CONSTANTS
  Factor = 2
  BaseTierPercent = 50
  BaseMinBytes = 12
  FoldMinBytes = 6
  FoldMaxPacks = 4
  PushBytes = {1, 3, 7}
  MaxBytes = 24
  MaxTiers = 5
INVARIANT PlanInv
PROPERTY PlanSteps
PROPERTY ComesToRest
