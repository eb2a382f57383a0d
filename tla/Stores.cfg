CONSTANTS
  TotalBlocks = 2
  NumBlocks = 3
  MaxEntries = 2
  Sequence = {s1, s2}
  Token = {t1, t2}
  Zero = t1
  BlockSize = 2
SYMMETRY Sym
SPECIFICATION MCSpec
INVARIANTS
  PrefixIndex
  HitsHoldPrefix
PROPERTIES
  KVKeepsTokens
  TablesKeepTokens
  TablesRefinePool
