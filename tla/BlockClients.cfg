CONSTANTS
  TotalBlocks = 3
  Client = {c1, c2, c3}
  SwapInBlind = FALSE
SYMMETRY Symmetric
SPECIFICATION Spec
INVARIANTS
  TypeOK
  FreeListConsistent
  SharedRefs
PROPERTIES
  RefinesPool
