CONSTANTS
  Req = {1, 2, 3, 4}
  PromptLen <- Prompts
  MaxTokens <- Wanted
  Priority <- Priorities
  MaxBatchSize = 3
  MaxNumSeqs = 3
  MaxTotalTokens = 4
  Budget = 3
  MaxStep = 2
  Pipelined = FALSE
SPECIFICATION FairSpec
PROPERTY EveryoneFinishes
