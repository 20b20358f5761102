CONSTANTS
  NumRouted = 4
  TopK = 3
  Scores = {0, 1, 2}
  NaN = NaN
  NumLayers = 3
  Sliding = {0, 2}
  Sparse = {1, 2}
  Hidden = 2
  DenseInter = 3
  MoeInter = 2
  NumShared = 2
  DRel = 1
  Heads = 3
  HeadDim = 1
  KvHeads = 1
  SwaHeads = 1
  SwaHeadDim = 2
  SwaKvHeads = 1
SPECIFICATION Spec
INVARIANTS
  RouteIsTopK
  LayerRowsRight
  MixesEachOnce
