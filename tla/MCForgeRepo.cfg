CONSTANTS
  Pod = {a, b}
  Ref = {"main", "dev"}
  Push <- FourPushes
  Parent <- MCParent
  MaxEpoch = 3
  MaxSeq = 3
  MaxBatch = 2
  MaxWire = 1
SPECIFICATION RepoSpec
SYMMETRY PodSymmetry
CONSTRAINT RepoBound
INVARIANT RepoInv
INVARIANT AckedIsDurable
INVARIANT HolderContent
INVARIANT AdoptsItsOwn
INVARIANT LocalAgrees
INVARIANT RefsFollowLog
PROPERTY ImplementsLog
