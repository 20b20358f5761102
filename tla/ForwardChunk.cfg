CONSTANTS
  NumLayers = 2
  KernelSize = 3
  Window = 3
  Sliding = {0}
  MaxCap = 5
SPECIFICATION ForwardSpec
INVARIANTS
  HistoriesFollowText
  ForwardIInv
PROPERTY
  ComputesText
