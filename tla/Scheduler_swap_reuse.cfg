CONSTANTS
  TotalBlocks = 3
  Req = {1, 2, 3}
  PromptLen <- LongFirstPrompts
  MaxTokens <- LongFirst
  BlockSize = 2
  MaxNumSeqs = 0
  SwapMode = TRUE
  AddressReuse = TRUE
SPECIFICATION Spec
INVARIANTS
  BlockAccounting
PROPERTIES
  StepsSpend
