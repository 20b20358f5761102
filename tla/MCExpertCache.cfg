\* Six pairs in three slots, two experts a token: hits, misses, evictions, and
\* a list with a middle to unlink from.
CONSTANTS
  e1 = e1 e2 = e2 e3 = e3
  NoPair = NoPair
  Layers <- MCLayers
  Experts <- MCExperts
  NSlots = 3
  TopK = 2
  MaxGen = 6
SPECIFICATION CacheSpec
SYMMETRY Symmetry
INVARIANTS
  StoreInv
  ResolvedStayResident
PROPERTY
  ImplementsLru
