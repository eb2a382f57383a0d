CONSTANTS
  TotalBlocks = 3
  Client = {c1, c2, c3}
  SwapInBlind = TRUE
SYMMETRY Symmetric
SPECIFICATION Spec
INVARIANT FreeListTracksAvailable
