CONSTANTS
  TotalBlocks = 4
  Req = {1, 2, 3}
  PromptLen <- LongFirstPrompts
  MaxTokens <- LongFirst
  BlockSize = 2
  MaxNumSeqs = 0
  SwapMode = FALSE
  AddressReuse = TRUE
SPECIFICATION Spec
INVARIANT TickWhileRunning
