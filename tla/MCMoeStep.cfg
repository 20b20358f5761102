CONSTANTS
  w1 = w1 w2 = w2
  e1 = e1 e2 = e2 e3 = e3 e4 = e4
  NoJob = NoJob
  NoPair = NoPair
  NoBatch = NoBatch
  Garbage = Garbage
  Workers <- MCWorkers
  Jobs <- MCJobs
  Layers <- MCLayers
  Experts <- MCExperts
  Ops <- MCOps
  QueueCap = 2
  NReads = 1
  NSlots = 2
  TopK = 2
  MaxGen = 5
  MaxStream = 4
SPECIFICATION MoeSpec
INVARIANTS
  MoeInv
  NoWriteUnderDispatch
  RoutedRowsRight
  FallbackUnreachable
  NeverOverflows
PROPERTIES
  ObeysRules
  CallTerminates
