CONSTANTS
  NumLayers = 2
  KernelSize = 3
  Window = 2
  Sliding = {0}
  MaxCap = 14
  MaxPrompt = 3
  MaxGen = 3
  MaxRepeat = 2
SPECIFICATION Spec
INVARIANTS
  GenerateInv
  SelfTestPasses
  NothingAfterEos
PROPERTIES
  KeepsContract
  Finishes
