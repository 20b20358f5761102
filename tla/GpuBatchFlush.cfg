CONSTANTS
  Ops = {op1}
  NoBatch = NoBatch
  MaxStream = 3
SPECIFICATION GpuSpec
INVARIANT
  EndMeansExecuted
