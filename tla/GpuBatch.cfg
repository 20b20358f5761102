CONSTANTS
  Ops = {op1, op2}
  NoBatch = NoBatch
  MaxStream = 3
SPECIFICATION GpuSpec
PROPERTIES
  EndReturns
  ImplementsStream
