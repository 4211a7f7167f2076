CONSTANTS
  Holder = {a, b}
  NoCell = NoCell
  NoLease = NoLease
  QuietPolls = 2
  MaxPuts = 4
  MaxStray = 1
SPECIFICATION LeaseSpec
SYMMETRY PodSymmetry
INVARIANT LeaseInv
INVARIANT OneHolderPerEpoch
PROPERTY TakeoverAfterQuiet
PROPERTY FenceIsDeposal
PROPERTY RenewedIsCurrent
PROPERTY ImplementsEpochs
