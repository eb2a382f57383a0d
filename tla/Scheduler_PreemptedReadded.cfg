CONSTANTS
  TotalBlocks = 2
  Req = {1, 2, 3}
  PromptLen <- EvenPrompts
  MaxTokens <- OneToken
  BlockSize = 2
  MaxNumSeqs = 0
  SwapMode = TRUE
  AddressReuse = FALSE
SPECIFICATION FairSpec
PROPERTY PreemptedReadded
