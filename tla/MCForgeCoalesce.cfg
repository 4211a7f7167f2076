CONSTANTS
  Pod = {a}
  Ref = {"main", "dev"}
  Push <- FourPushes
  Parent <- MCParent
  MaxEpoch = 2
  MaxSeq = 3
  MaxBatch = 2
  MaxWire = 0
SPECIFICATION RepoSpec
INVARIANTS
  LandedApplies
