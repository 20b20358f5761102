\* 2 workers, 3 job records, ring of 2 cells: more jobs than workers, and a
\* caller with more records than the ring has cells, which
\* real_mlp_moe_forward_gpu is not.  No symmetry, so that the liveness
\* properties and the refinement are checked exactly.
CONSTANTS
  w1 = w1 w2 = w2
  j1 = j1 j2 = j2 j3 = j3
  NoJob = NoJob
  Workers <- MCWorkers
  Jobs <- MCJobs
  QueueCap = 2
  NReads = 2
SPECIFICATION PoolSpec
INVARIANTS
  DoneMeansLanded
  NoDanglingJob
  WorkConserving
  PoolIInv
PROPERTIES
  CallsReturn
  ImplementsService
