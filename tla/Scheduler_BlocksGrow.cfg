CONSTANTS
  TotalBlocks = 3
  Req = {1, 2, 3}
  PromptLen <- EvenPrompts
  MaxTokens <- OneToken
  BlockSize = 2
  MaxNumSeqs = 0
  SwapMode = FALSE
  AddressReuse = FALSE
SPECIFICATION Spec
INVARIANT BlocksGrow
