CONSTANTS
  Req = {1, 2, 3, 4}
  PromptLen <- Prompts
  MaxTokens <- Wanted
  Priority <- Priorities
  MaxBatchSize = 3
  MaxNumSeqs = 3
  MaxTotalTokens = 4
  Budget = 3
  MaxStep = 2
  Pipelined = TRUE
SPECIFICATION Spec
INVARIANTS
  TypeOK
  PlacedOnce
  FinishedWhenDone
PROPERTIES
  FirstComeFirstServed
  ReserveAdmits
  PassSpends
