CONSTANTS
  NumLayers = 2
  KernelSize = 3
  Window = 2
  Sliding = {0}
  Sparse = {1}
  MaxCap = 4
SPECIFICATION PathsSpec
INVARIANTS
  HostTouchesQuiescent
  GpuCacheFollowsText
PROPERTY
  ComputesText
