CONSTANTS
  QuietPolls = 6
  MaxHang = 2
  Folding = TRUE
SPECIFICATION ServeSpec
INVARIANT ServeInv
PROPERTY FencedExits
PROPERTY PushAnswered
PROPERTY WedgedYields
