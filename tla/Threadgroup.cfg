CONSTANTS
  SimdWidth = 4
  MaxWidth = 16
  MaxRow = 18
SPECIFICATION GroupSpec
INVARIANTS
  NoSharedRace
  RowReduced
