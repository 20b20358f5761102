CONSTANTS
  Entries = 2
  Page = 2
  SlabBytes = 14
  MaxFile = 3
  MaxBytes = 3
  MaxBudget = 38
  MaxPairs = 6
  MaxTopk = 2
  NumLayers = 2
  Sliding = {0}
  Sparse = {1}
  Hidden = 2
  Vocab = 2
  HeadDim = 1
  SwaHeadDim = 2
  KvHeads = 1
  SwaKvHeads = 1
  DRel = 1
  RelExtent = 2
  Window = 1
  KernelSize = 2
  NumRouted = 1
  NumShared = 2
  FloatBytes = 2
  TypeSizes <- MCTypeSizes
  ResSize = 12
  Absent = Absent
SPECIFICATION Spec
INVARIANTS
  StoreLaidOut
  ReadsStayInside
  ResolvedInside
